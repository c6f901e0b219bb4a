--------------------------- MODULE MCSecretStore ---------------------------
(* Instances of SecretStore for TLC. *)
EXTENDS SecretStore

CONSTANTS t1, t2, n1, n2
=============================================================================
