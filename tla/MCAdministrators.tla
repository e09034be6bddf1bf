-------------------------- MODULE MCAdministrators ---------------------------
(* The first administrator and the last: bootstrap, and the commands that may    *)
(* remove, demote or disable administrators, side by side. Every behaviour is of  *)
(* one of them; accounts as bootstrap leaves them are among AdminAccounts' first  *)
(* states.                                                                        *)
EXTENDS MCAdminAccounts, Bootstrap

VARIABLE part

MCInit ==
  \/ part = "first" /\ BootstrapInit /\ users = [u \in Users |-> NewAccount("admin")]
     /\ cache = [u \in Users |-> NoPrincipal] /\ fill = [u \in Users |-> NoPrincipal]
     /\ pc = [r \in Requests |-> "idle"] /\ job = [r \in Requests |-> NoJob]
  \/ part = "last" /\ BootstrapInit /\ Init
MCNext ==
  \/ part = "first" /\ BootstrapNext /\ UNCHANGED <<part, vars>>
  \/ part = "last" /\ Next /\ UNCHANGED <<part, bootstrapVars>>
MCSpec == MCInit /\ [][MCNext]_<<part, vars, bootstrapVars>>
=============================================================================
