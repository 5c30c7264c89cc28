--------------------------- MODULE MCSecureTrunk ---------------------------
(* SecureTrunk for TLC: the leases a client gets, one after the other.      *)
EXTENDS SecureTrunk

Row(first, second) ==
  <<[id |-> "a", epoch |-> 1, token |-> 1, sl1 |-> first],
    [id |-> "a", epoch |-> 2, token |-> 2, sl1 |-> second]>>

\* SL1 throughout, SL1 taken up later, and SL1 given up, which the runtime refuses.
TwoLeases == {Row(TRUE, TRUE), Row(FALSE, TRUE), Row(TRUE, FALSE)}

\* One lease with SL1.
OneLeaseOnly == {<<Row(TRUE, TRUE)[1]>>}
=============================================================================
