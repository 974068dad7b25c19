--------------------------- MODULE MCSessionStore ---------------------------
(* SessionStore on one key: the keys do not interact, and the service's    *)
(* runs use several.                                                       *)
EXTENDS SessionStore, TLC

SnapshotSymmetry == Permutations(Payloads)

=============================================================================
