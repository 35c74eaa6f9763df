---------------------------- MODULE MCVaultRecovery ----------------------------
(* Two environments, two passwords, three mishaps.                            *)
EXTENDS VaultRecovery

=============================================================================
