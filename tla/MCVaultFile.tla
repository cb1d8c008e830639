----------------------------- MODULE MCVaultFile -----------------------------
(* Instance of VaultFile for TLC. *)
EXTENDS VaultFile

CONSTANTS t1, t2, n1, n2, v1

=============================================================================
