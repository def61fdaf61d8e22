--------------------------- MODULE MCSecretRekey ---------------------------
(* Instances of SecretRekey for TLC. *)
EXTENDS SecretRekey, TLC

CONSTANTS n1, n2, k1, k2

=============================================================================
