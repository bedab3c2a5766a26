--------------------------- MODULE MCSecretsStore ---------------------------
(* Bounded instances of the key store.  The clients are interchangeable.   *)
EXTENDS SecretsStore, TLC

ClientSymmetry == Permutations(Clients)
=============================================================================
