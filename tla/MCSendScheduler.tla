-------------------------- MODULE MCSendScheduler --------------------------
(* SendScheduler for TLC: the programs of each run.                        *)
EXTENDS SendScheduler

CONSTANTS a, b, c

Program(streams, droppable, consumers, exclusive, tracked) ==
  [streams |-> streams, droppable |-> droppable, consumers |-> consumers,
   exclusive |-> exclusive, tracked |-> tracked]

\* A flusher and a puller that take turns, drops wait; a flusher alone; and three
\* streams with everything in every gap, for what does not depend on history.
SoundPrograms ==
  { Program({a, b}, {a, b}, Consumers, TRUE, TRUE),
    Program({a, b}, {a, b}, {"flush"}, TRUE, TRUE),
    Program(Streams, Streams, Consumers, FALSE, FALSE) }

\* Drops in the gaps of a flush.
DroppingPrograms == { Program({a, b}, {a, b}, {"flush"}, FALSE, TRUE) }

\* Three streams and a flusher.
ThreeStreams == { Program(Streams, {}, {"flush"}, TRUE, TRUE) }
=============================================================================
