---------------------------- MODULE AdminAccounts ----------------------------
(***************************************************************************)
(* User administration: concurrent commands that change roles, states and  *)
(* session versions of accounts, the guard of the last active              *)
(* administrator, and the cached principals every request is authorised    *)
(* by.                                                                     *)
(*                                                                         *)
(* users holds the COMMITTED rows.  A command is a sequence of database    *)
(* statements, one per action, under READ COMMITTED with row locks; the    *)
(* last statement also commits, and only then are the cached principals of *)
(* the accounts it changed dropped, one by one.  Commands that may take an *)
(* administrator away run under the mutex of the one server process and    *)
(* begin by locking all active administrators; the others do not.          *)
(*                                                                         *)
(* SQLite orders writing transactions one after another: its behaviours    *)
(* are those of this module in which commands do not overlap.              *)
(***************************************************************************)
EXTENDS Naturals, FiniteSets

CONSTANTS Users,        \* account ids
          Visitors,     \* those who send requests, which resolve their principals
          Requests,     \* concurrent request handlers
          Commands,     \* the commands the requests of this instance may issue
          MaxVersion    \* bound of the model: session versions of an account

SingleRemovals == {"softDelete", "hardDelete"}
BatchRemovals == {"batchDisable", "batchSoftDelete", "batchHardDelete"}
Batches == BatchRemovals \cup {"batchEnable", "batchRestore"}
Guarded == {"update"} \cup SingleRemovals \cup BatchRemovals
AllCommands == Guarded \cup Batches \cup {"restore", "revoke"}

ASSUME AccountsAssumption ==
    /\ IsFiniteSet(Users) /\ Visitors \subseteq Users
    /\ Commands \subseteq AllCommands
    /\ MaxVersion \in Nat \ {0}

VARIABLES users,    \* committed accounts: a function on the ids that exist
          cache,    \* cached principal per user, or NoPrincipal
          fill,     \* per user, what the request that resolves it holds
          pc, job   \* per request

vars == <<users, cache, fill, pc, job>>

Roles == {"user", "admin"}
Statuses == {"active", "disabled", "deleted"}

(* before is status_before_delete; deleted_at is set and cleared with it.  *)
Account == [role : Roles, status : Statuses, before : {"none", "active", "disabled"},
            version : 1..MaxVersion]
NewAccount(role) == [role |-> role, status |-> "active", before |-> "none", version |-> 1]

(* domain.AuthzInfo *)
Principal == [role : Roles, status : Statuses, version : 1..MaxVersion]
Info(u) == [role |-> users[u].role, status |-> users[u].status, version |-> users[u].version]
NoPrincipal == [role |-> "user", status |-> "deleted", version |-> 0]
Missed == [role |-> "admin", status |-> "deleted", version |-> 0]   \* cache miss, not loaded yet

Steps == {"idle", "lockAdmins", "read", "guard", "restoreRead", "write", "invalidate"}

Job == [op : Commands \cup {"none"},
        targets : SUBSET Users,
        role : Roles \cup {"keep"},               \* AdminUpdateUserInput
        status : {"active", "disabled", "keep"},
        admins : SUBSET Users,                    \* active administrators it has locked
        seen : Account,                           \* the row FindByID returned
        changed : SUBSET Users]                   \* what it will write, then invalidate

NoJob == [op |-> "none", targets |-> {}, role |-> "keep", status |-> "keep", admins |-> {},
          seen |-> NewAccount("user"), changed |-> {}]

(* Bootstrap created an administrator, who may have created other accounts. *)
Init ==
    /\ users \in [Users -> {NewAccount("user"), NewAccount("admin")}]
    /\ \E u \in Users : users[u].role = "admin"
    /\ cache = [u \in Users |-> NoPrincipal]
    /\ fill = [u \in Users |-> NoPrincipal]
    /\ pc = [r \in Requests |-> "idle"]
    /\ job = [r \in Requests |-> NoJob]

-----------------------------------------------------------------------------
(* Administrators and locks *)

ActiveAdmin(a) == a.role = "admin" /\ a.status = "active"
ActiveAdmins == {u \in DOMAIN users : ActiveAdmin(users[u])}

InTx(q) == pc[q] \in {"read", "guard", "restoreRead", "write"}

MutexFree(r) == \A q \in Requests \ {r} : ~(InTx(q) /\ job[q].op \in Guarded)

(* Rows read FOR UPDATE: the active administrators, and after its read the *)
(* targets of a batch.                                                     *)
RowsLocked(q) ==
    job[q].admins \cup (IF pc[q] = "write" /\ job[q].op \in Batches THEN job[q].targets ELSE {})

RowsFree(r, S) == \A q \in Requests \ {r} : S \cap RowsLocked(q) = {}

-----------------------------------------------------------------------------
(* Moves of a request *)

Begin(r, step, j) ==
    /\ pc[r] = "idle"
    /\ j.op \in Commands
    /\ pc' = [pc EXCEPT ![r] = step]
    /\ job' = [job EXCEPT ![r] = j]
    /\ UNCHANGED <<users, cache, fill>>

(* An error return or a cancelled context before the commit: rollback. *)
Fail(r) ==
    /\ pc[r] \notin {"idle", "invalidate"}
    /\ pc' = [pc EXCEPT ![r] = "idle"]
    /\ job' = [job EXCEPT ![r] = NoJob]
    /\ UNCHANGED <<users, cache, fill>>

(* The commit ends the transaction; changed is left to be invalidated. *)
Commit(r, changed) ==
    /\ pc' = [pc EXCEPT ![r] = IF changed = {} THEN "idle" ELSE "invalidate"]
    /\ job' = [job EXCEPT ![r] = [NoJob EXCEPT !.changed = changed]]
    /\ UNCHANGED <<cache, fill>>

-----------------------------------------------------------------------------
(* Commands.  A command that removes accounts is refused for the acting    *)
(* administrator's own, so it never names all users.                       *)

BeginUpdate(r, u, role, status) ==
    /\ <<role, status>> # <<"keep", "keep">>
    /\ Begin(r, "lockAdmins", [NoJob EXCEPT !.op = "update", !.targets = {u},
                                            !.role = role, !.status = status])

BeginRemoval(r, S, op) ==
    /\ S # {}
    /\ op # "batchDisable" => S # Users
    /\ Begin(r, "lockAdmins", [NoJob EXCEPT !.op = op, !.targets = S])

(* Commands that run in a plain transaction. *)
BeginPlain(r, S, op) ==
    /\ S # {}
    /\ Begin(r, IF op = "revoke" THEN "write" ELSE "read", [NoJob EXCEPT !.op = op, !.targets = S])

(* Mutex and LockActiveAdmins. *)
LockAdmins(r) ==
    /\ pc[r] = "lockAdmins"
    /\ MutexFree(r)
    /\ RowsFree(r, ActiveAdmins)
    /\ pc' = [pc EXCEPT ![r] = "read"]
    /\ job' = [job EXCEPT ![r].admins = ActiveAdmins]
    /\ UNCHANGED <<users, cache, fill>>

(* What UpdateAdmin will write over the row a. *)
Updated(j, a) ==
    [a EXCEPT !.role = IF j.role = "keep" THEN @ ELSE j.role,
              !.status = IF j.status = "keep" THEN @ ELSE j.status]

(* The row read shows an active administrator who will not be one any more. *)
TakesAdmin(j, a) ==
    /\ ActiveAdmin(a)
    /\ j.op = "update" => ~ActiveAdmin(Updated(j, a))

(* FindByID of a single command, and where it goes from there. *)
ReadRow(r, u, step) ==
    /\ pc' = [pc EXCEPT ![r] = step]
    /\ job' = [job EXCEPT ![r] = [job[r] EXCEPT !.seen = users[u], !.changed = {u}]]
    /\ UNCHANGED <<users, cache, fill>>

GuardOrWrite(j, a) == IF TakesAdmin(j, a) THEN "guard" ELSE "write"

(* No field differs: nothing is written nor invalidated. *)
ReadForUpdate(r) ==
    \E u \in job[r].targets \cap DOMAIN users :
        /\ pc[r] = "read"
        /\ job[r].op = "update"
        /\ IF Updated(job[r], users[u]) = users[u]
           THEN Commit(r, {}) /\ UNCHANGED users
           ELSE ReadRow(r, u, GuardOrWrite(job[r], users[u]))

(* A soft deletion of a deleted account writes nothing, but its principal  *)
(* is invalidated all the same.                                            *)
ReadForRemoval(r) ==
    \E u \in job[r].targets \cap DOMAIN users :
        /\ pc[r] = "read"
        /\ job[r].op \in SingleRemovals
        /\ IF job[r].op = "softDelete" /\ users[u].status = "deleted"
           THEN Commit(r, {u}) /\ UNCHANGED users
           ELSE ReadRow(r, u, GuardOrWrite(job[r], users[u]))

ReadForRestore(r) ==
    \E u \in job[r].targets \cap DOMAIN users :
        /\ pc[r] = "read"
        /\ job[r].op = "restore"
        /\ users[u].status = "deleted"
        /\ ReadRow(r, u, "restoreRead")

(* CountByRoleAndStatus: the last active administrator stays. *)
CountAdmins(r) ==
    /\ pc[r] = "guard"
    /\ Cardinality(ActiveAdmins) > 1
    /\ pc' = [pc EXCEPT ![r] = "write"]
    /\ UNCHANGED <<users, cache, fill, job>>

(* Repository Restore reads the row once more before it writes it. *)
ReadDeleted(r) ==
    /\ pc[r] = "restoreRead"
    /\ \E u \in job[r].targets \cap DOMAIN users : job' = [job EXCEPT ![r].seen = users[u]]
    /\ pc' = [pc EXCEPT ![r] = "write"]
    /\ UNCHANGED <<users, cache, fill>>

(* The statuses an action of a batch has something to change in. *)
ChangesFrom(op) ==
    CASE op = "batchEnable" -> Statuses \ {"active"}
      [] op = "batchDisable" -> Statuses \ {"disabled"}
      [] op = "batchSoftDelete" -> Statuses \ {"deleted"}
      [] op = "batchRestore" -> {"deleted"}
      [] OTHER -> Statuses

(* The targets of a batch that need a write. *)
ToChange(op, S) == {u \in S : users[u].status \in ChangesFrom(op)}

(* Faulty variant: every target is compared with the same count. *)
AdminRemainsForEach(r, S) == S \cap ActiveAdmins = {} \/ Cardinality(job[r].admins) > 1

(* Target by target the count of the locked administrators goes down, and  *)
(* must be above one before each.                                          *)
AdminRemains(r, S) ==
    S \cap ActiveAdmins = {} \/ Cardinality(S \cap ActiveAdmins) < Cardinality(job[r].admins)

(* FindByIDsLocked and the plan; one refused target ends the batch. *)
PlanBatch(r) ==
    LET S == job[r].targets
        op == job[r].op
    IN /\ pc[r] = "read"
       /\ op \in Batches
       /\ S \subseteq DOMAIN users
       /\ RowsFree(r, S)
       /\ op \in {"batchEnable", "batchDisable"} => \A u \in S : users[u].status # "deleted"
       /\ op \in BatchRemovals => AdminRemains(r, S)
       /\ pc' = [pc EXCEPT ![r] = "write"]
       /\ job' = [job EXCEPT ![r].changed = ToChange(op, S)]
       /\ UNCHANGED <<users, cache, fill>>

(* UpdateAdmin sets the fields that differ from the row seen. *)
FieldsSet(j, a) ==
    [a EXCEPT !.role = IF j.role \in {"keep", j.seen.role} THEN @ ELSE j.role,
              !.status = IF j.status \in {"keep", j.seen.status} THEN @ ELSE j.status]

SoftDeleted(a, before) == [a EXCEPT !.status = "deleted", !.before = before]

Restored(a, before) == [a EXCEPT !.before = "none", !.status = IF before = "none" THEN "active" ELSE before]

(* A new password and a revocation of all sessions alike. *)
Revoked(a) == [a EXCEPT !.version = @ + 1]

(* Faulty variant: the row that was read is written back as a whole. *)
WrittenWhole(j, a) ==
    CASE j.op = "update" -> Updated(j, j.seen)
      [] j.op = "softDelete" -> SoftDeleted(j.seen, j.seen.status)
      [] j.op = "revoke" -> Revoked(a)
      [] OTHER -> a

(* The row a after the write of job j.  Single commands write what they    *)
(* derived from the row seen, batches compute in the UPDATE itself.        *)
Written(j, a) ==
    CASE j.op = "update" -> FieldsSet(j, a)
      [] j.op = "softDelete" -> SoftDeleted(a, j.seen.status)
      [] j.op = "restore" -> Restored(a, j.seen.before)
      [] j.op = "revoke" -> Revoked(a)
      [] j.op = "batchEnable" -> [a EXCEPT !.status = "active"]
      [] j.op = "batchDisable" -> [a EXCEPT !.status = "disabled"]
      [] j.op = "batchSoftDelete" -> SoftDeleted(a, a.status)
      [] j.op = "batchRestore" -> Restored(a, a.before)
      [] OTHER -> a

(* The write, and the commit.  An UPDATE of a row that is gone by then     *)
(* writes nothing; hardDelete and revoke report it.                        *)
Write(r) ==
    LET j == job[r]
        S == IF j.op = "revoke" THEN j.targets ELSE j.changed
        gone == IF j.op \in {"hardDelete", "batchHardDelete"} THEN S ELSE {}
    IN /\ pc[r] = "write"
       /\ RowsFree(r, S)
       /\ j.op \in {"hardDelete", "revoke"} => S \subseteq DOMAIN users
       /\ j.op = "revoke" => \A u \in S : users[u].version < MaxVersion
       /\ users' = [u \in DOMAIN users \ gone |-> IF u \in S THEN Written(j, users[u]) ELSE users[u]]
       /\ Commit(r, S)

-----------------------------------------------------------------------------
(* Principals.  Resolve holds the lock of its user from the look-up in the *)
(* cache to the store of what it has loaded; so does an invalidation for   *)
(* the deletion.  A hit changes nothing and is not an action.              *)

Miss(u) ==
    /\ fill[u] = NoPrincipal
    /\ cache[u] = NoPrincipal
    /\ fill' = [fill EXCEPT ![u] = Missed]
    /\ UNCHANGED <<users, cache, pc, job>>

Load(u) ==
    /\ fill[u] = Missed
    /\ fill' = [fill EXCEPT ![u] = IF u \in DOMAIN users THEN Info(u) ELSE NoPrincipal]
    /\ UNCHANGED <<users, cache, pc, job>>

(* The principal is stored, unless the cache is full or fails. *)
Store(u) ==
    /\ fill[u] \notin {NoPrincipal, Missed}
    /\ cache' \in {cache, [cache EXCEPT ![u] = fill[u]]}
    /\ fill' = [fill EXCEPT ![u] = NoPrincipal]
    /\ UNCHANGED <<users, pc, job>>

Expire(u) ==
    /\ cache[u] # NoPrincipal
    /\ cache' = [cache EXCEPT ![u] = NoPrincipal]
    /\ UNCHANGED <<users, fill, pc, job>>

(* Faulty variant: the lock of the user is not taken. *)
LockFreeAlways(u) == TRUE

LockFree(u) == fill[u] = NoPrincipal

Invalidate(r, u) ==
    /\ pc[r] = "invalidate"
    /\ u \in job[r].changed
    /\ LockFree(u)
    /\ cache' = [cache EXCEPT ![u] = NoPrincipal]
    /\ job' = [job EXCEPT ![r].changed = @ \ {u}]
    /\ pc' = [pc EXCEPT ![r] = IF job[r].changed = {u} THEN "idle" ELSE @]
    /\ UNCHANGED <<users, fill>>

-----------------------------------------------------------------------------

CommandNext(r) ==
    \/ \E u \in Users, role \in Roles \cup {"keep"}, status \in {"active", "disabled", "keep"} :
        BeginUpdate(r, u, role, status)
    \/ \E u \in Users, op \in SingleRemovals : BeginRemoval(r, {u}, op)
    \/ \E S \in SUBSET Users, op \in BatchRemovals : BeginRemoval(r, S, op)
    \/ \E u \in Users, op \in {"restore", "revoke"} : BeginPlain(r, {u}, op)
    \/ \E S \in SUBSET Users, op \in {"batchEnable", "batchRestore"} : BeginPlain(r, S, op)
    \/ LockAdmins(r)
    \/ ReadForUpdate(r)
    \/ ReadForRemoval(r)
    \/ ReadForRestore(r)
    \/ CountAdmins(r)
    \/ ReadDeleted(r)
    \/ PlanBatch(r)
    \/ Write(r)
    \/ Fail(r)
    \/ \E u \in Users : Invalidate(r, u)

Next ==
    \/ \E r \in Requests : CommandNext(r)
    \/ \E u \in Visitors : Miss(u) \/ Load(u) \/ Store(u) \/ Expire(u)

Spec == Init /\ [][Next]_vars

-----------------------------------------------------------------------------
(* Properties *)

(* Type invariant: among others, no account is remembered as deleted       *)
(* before it was deleted.                                                  *)
TypeOK ==
    /\ DOMAIN users \subseteq Users
    /\ users \in [DOMAIN users -> Account]
    /\ cache \in [Users -> Principal \cup {NoPrincipal}]
    /\ fill \in [Users -> Principal \cup {NoPrincipal, Missed}]
    /\ pc \in [Requests -> Steps]
    /\ job \in [Requests -> Job]

(* There is always an active administrator, whoever removes, demotes or    *)
(* disables whom at the same time.                                         *)
ActiveAdminRemains == ActiveAdmins # {}

(* A cached principal is what the database says, or is about to be dropped *)
(* by the command that made it stale: once a command has returned, nobody  *)
(* is authorised by what was true before it.                               *)
PrincipalsFresh ==
    \A u \in Users :
        \/ cache[u] = NoPrincipal
        \/ u \in DOMAIN users /\ cache[u] = Info(u)
        \/ \E r \in Requests : pc[r] = "invalidate" /\ u \in job[r].changed

(* No command takes back a revocation of sessions it did not see. *)
VersionsGrow ==
    [][\A u \in DOMAIN users \cap DOMAIN users' : users'[u].version >= users[u].version]_vars
=============================================================================
