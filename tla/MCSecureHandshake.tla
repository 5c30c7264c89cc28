-------------------------- MODULE MCSecureHandshake --------------------------
(* SecureHandshake for TLC: who offers what, and what arrives instead.      *)
EXTENDS SecureHandshake, TLC

CONSTANTS i1, i2, r1, r2

Offer(node, nonce, min, max, suites) ==
  [version |-> "0.2", min |-> min, max |-> max, suites |-> suites, node |-> node,
   lease |-> node, nonce |-> nonce]

MCOffers ==
  (i1 :> Offer("a", "n1", 1, 3, {"hmac", "aes", "chacha"}) @@
   i2 :> Offer("c", "n2", 2, 2, {"aes"}) @@
   r1 :> Offer("b", "n3", 0, 2, {"hmac", "aes"}) @@
   r2 :> Offer("b", "n4", 0, 1, {"hmac", "aes"}))

\* One node connects twice to another one.
TwoConnects ==
  (i1 :> Offer("a", "n1", 1, 3, {"hmac", "aes", "chacha"}) @@
   i2 :> Offer("a", "n2", 2, 2, {"aes"}) @@
   r1 :> Offer("b", "n3", 0, 2, {"hmac", "aes"}) @@
   r2 :> Offer("b", "n4", 0, 2, {"hmac", "aes"}))

MCPolicies == [r \in Responders |-> [required |-> IF r = r1 THEN 2 ELSE 1,
                                      preferred |-> <<"chacha", "aes", "hmac">>]]

\* The first initiator's offer with a lower level, and one that is not valid.
MCGarbled == {Offer("a", "n1", 1, 1, {"hmac", "aes", "chacha"}), Offer("b", "n3", 3, 2, {"aes"})}

MCIds == [p \in Nodes \X Nodes |-> p]
=============================================================================
