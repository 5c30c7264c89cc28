----------------------------- MODULE MCSession -----------------------------
(* Session for TLC: two streams of one execution and one of another.       *)
EXTENDS Session, TLC

CONSTANTS s1, s2, s3

MCExecutionOf(s) == IF s = s3 THEN 2 ELSE 1

StreamSymmetry == Permutations({s1, s2})

\* One lease, with SL1.
OneBind == {[id |-> "a", epoch |-> 1, token |-> 1, sl1 |-> TRUE]}
=============================================================================
