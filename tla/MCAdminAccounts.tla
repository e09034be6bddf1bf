--------------------------- MODULE MCAdminAccounts ---------------------------
(* Instances of AdminAccounts for TLC. *)
EXTENDS AdminAccounts, TLC

RequestSymmetry == Permutations(Requests)
Symmetry == Permutations(Requests) \cup Permutations(Users)

RemovalCommands == {"update", "batchDisable", "batchSoftDelete", "batchEnable", "batchRestore"}
RestoreCommands == {"update", "softDelete", "restore"}
=============================================================================
