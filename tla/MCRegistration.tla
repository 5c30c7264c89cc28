--------------------------- MODULE MCRegistration ---------------------------
(* Registration for TLC.                                                    *)
EXTENDS Registration, TLC

CONSTANTS s1, s2

MCExecutionOf(s) == 1

StreamSymmetry == Permutations(Streams)

Bind(id, token, sl1) == [id |-> id, epoch |-> 1, token |-> token, sl1 |-> sl1]

\* Two leases of one identity, the second with SL1, and one of another identity.
MCBinds == {Bind("a", 1, FALSE), Bind("a", 2, TRUE), Bind("b", 1, FALSE)}

\* The second model is for the holder of the second lease only.
MCAuthorizes(b, models) == "m2" \in models => b.token = 2
=============================================================================
