------------------------- MODULE AdminAccountsProofs -------------------------
(***************************************************************************)
(* Proofs about AdminAccounts, for every number of accounts and requests.  *)
(*                                                                         *)
(* TypeOK rests on the plans in flight (PlansHold): the targets of a batch *)
(* stay as the plan found them, because they are locked.  PrincipalsFresh  *)
(* rests on the same statement about principals that are being loaded.     *)
(* ActiveAdminRemains, for instances without the single restoration, rests *)
(* on the mutex, on the locked administrators, and on WritesLeaveAdmin.    *)
(***************************************************************************)
EXTENDS AdminAccounts, FiniteSetTheorems, TLAPS

(* Requests between the read of their plan and the write. *)
Planned(q) == pc[q] = "write" /\ job[q].op \in Batches

PlansHold ==
    \A q \in Requests :
        /\ pc[q] \in {"lockAdmins", "read", "guard", "restoreRead", "write"} => job[q].op \in Commands
        /\ Planned(q) => /\ job[q].targets \subseteq DOMAIN users
                         /\ job[q].changed = ToChange(job[q].op, job[q].targets)
        /\ pc[q] \in {"guard", "write"} /\ job[q].op = "softDelete" => job[q].seen.status # "deleted"
        /\ pc[q] = "guard" => job[q].op \in {"update"} \cup SingleRemovals
        /\ pc[q] = "restoreRead" => job[q].op = "restore"

AccountsInv == TypeOK /\ PlansHold

-----------------------------------------------------------------------------
(* Facts about the operators *)

(* Every command writes some of role, status, before and version. *)
LEMMA WrittenTyped ==
    ASSUME NEW j \in Job, NEW a \in Account,
           j.op = "softDelete" => j.seen.status # "deleted",
           j.op = "batchSoftDelete" => a.status # "deleted",
           j.op = "revoke" => a.version < MaxVersion
    PROVE  Written(j, a) \in Account /\ Written(j, a).version >= a.version
<1> DEFINE W == Written(j, a)
<1>a. a.version \in Nat /\ a.version >= a.version
  BY AccountsAssumption DEF Account
<1>1. CASE j.op = "update"
  <2>1. W = FieldsSet(j, a)
    BY <1>1 DEF Written
  <2>2. (j.role # "keep" => j.role \in Roles) /\ (j.status # "keep" => j.status \in Statuses)
    BY DEF Job, Roles, Statuses
  <2> QED
    BY <1>a, <2>1, <2>2 DEF FieldsSet, Account
<1>2. CASE j.op = "softDelete"
  <2>1. W = SoftDeleted(a, j.seen.status)
    BY <1>2 DEF Written
  <2>2. j.seen.status \in {"active", "disabled"}
    BY <1>2 DEF Job, Account, Statuses
  <2> QED
    BY <1>a, <2>1, <2>2 DEF SoftDeleted, Account, Statuses
<1>3. CASE j.op \in {"restore", "batchRestore"}
  <2>1. PICK s \in {"none", "active", "disabled"} : W = Restored(a, s)
    <3>1. W = Restored(a, j.seen.before) \/ W = Restored(a, a.before)
      BY <1>3 DEF Written
    <3> QED
      BY <3>1 DEF Job, Account
  <2> QED
    BY <1>a, <2>1 DEF Restored, Account, Statuses
<1>4. CASE j.op = "revoke"
  <2>1. W = Revoked(a)
    BY <1>4 DEF Written
  <2> QED
    BY <1>4, <2>1, AccountsAssumption DEF Revoked, Account
<1>5. CASE j.op \in {"batchEnable", "batchDisable"}
  <2>1. PICK s \in {"active", "disabled"} : W = [a EXCEPT !.status = s]
    BY <1>5 DEF Written
  <2> QED
    BY <1>a, <2>1 DEF Account, Statuses
<1>6. CASE j.op = "batchSoftDelete"
  <2>1. W = SoftDeleted(a, a.status)
    BY <1>6 DEF Written
  <2> QED
    BY <1>a, <1>6, <2>1 DEF SoftDeleted, Account, Statuses
<1>7. CASE j.op \notin {"update", "softDelete", "restore", "revoke", "batchEnable",
                        "batchDisable", "batchSoftDelete", "batchRestore"}
  <2>1. W = a
    BY <1>7 DEF Written
  <2> QED
    BY <1>a, <2>1
<1> QED
  BY <1>1, <1>2, <1>3, <1>4, <1>5, <1>6, <1>7

-----------------------------------------------------------------------------
(* Type correctness *)

LEMMA AccountsInit == Init => AccountsInv
<1> SUFFICES ASSUME Init PROVE AccountsInv
  OBVIOUS
<1>1. NewAccount("user") \in Account /\ NewAccount("admin") \in Account
  BY AccountsAssumption DEF NewAccount, Account, Roles, Statuses
<1>2. NoJob \in Job
  BY <1>1 DEF NoJob, Job, Roles
<1>3. users \in [Users -> Account] /\ DOMAIN users = Users
  BY <1>1 DEF Init
<1>4. TypeOK
  BY <1>2, <1>3 DEF Init, TypeOK, Steps
<1>5. PlansHold
  BY DEF Init, PlansHold, Planned
<1> QED
  BY <1>4, <1>5 DEF AccountsInv

(* A request that moves on, its job j, and no account changed. *)
LEMMA RequestMoves ==
    ASSUME AccountsInv,
           NEW r \in Requests, NEW step \in Steps, NEW j \in Job,
           pc' = [pc EXCEPT ![r] = step], job' = [job EXCEPT ![r] = j],
           users' = users,
           cache' \in [Users -> Principal \cup {NoPrincipal}],
           fill' \in [Users -> Principal \cup {NoPrincipal, Missed}],
           step \notin {"idle", "invalidate"} => j.op \in Commands,
           step = "write" /\ j.op \in Batches =>
                /\ j.targets \subseteq DOMAIN users
                /\ j.changed = ToChange(j.op, j.targets),
           step \in {"guard", "write"} /\ j.op = "softDelete" => j.seen.status # "deleted",
           step = "guard" => j.op \in {"update"} \cup SingleRemovals,
           step = "restoreRead" => j.op = "restore"
    PROVE  AccountsInv'
<1>1. TypeOK'
  BY DEF AccountsInv, TypeOK
<1>2. \A q \in Requests : pc'[q] = (IF q = r THEN step ELSE pc[q]) /\ job'[q] = (IF q = r THEN j ELSE job[q])
  BY DEF AccountsInv, TypeOK
<1>3. \A op, S : ToChange(op, S)' = ToChange(op, S)
  BY DEF ToChange
<1>4. PlansHold'
  BY <1>2, <1>3 DEF AccountsInv, PlansHold, Planned, Steps
<1> QED
  BY <1>1, <1>4 DEF AccountsInv

(* The start of a command. *)
LEMMA BeginKeeps ==
    ASSUME AccountsInv, NEW r \in Requests, NEW j, NEW step,
           Begin(r, step, j), j \in Job, step \in {"lockAdmins", "read", "write"},
           step = "write" => j.op = "revoke"
    PROVE  AccountsInv'
<1>1. cache' \in [Users -> Principal \cup {NoPrincipal}] /\ fill' \in [Users -> Principal \cup {NoPrincipal, Missed}]
  BY DEF Begin, AccountsInv, TypeOK
<1>2. step \in Steps
  BY DEF Steps
<1>3. step = "write" => j.op \notin Batches /\ j.op # "softDelete"
  BY DEF Batches, BatchRemovals
<1>4. /\ pc' = [pc EXCEPT ![r] = step] /\ job' = [job EXCEPT ![r] = j] /\ users' = users
      /\ j.op \in Commands
  BY DEF Begin
<1> QED
  BY <1>1, <1>2, <1>3, <1>4, RequestMoves

LEMMA NoJobTyped == NoJob \in Job
  BY AccountsAssumption DEF NoJob, Job, NewAccount, Account, Roles, Statuses

(* The jobs commands begin with. *)
LEMMA StartedJobTyped ==
    ASSUME NEW op \in Commands, NEW S \in SUBSET Users
    PROVE  /\ [NoJob EXCEPT !.op = op, !.targets = S] \in Job
           /\ \A role \in Roles \cup {"keep"}, status \in {"active", "disabled", "keep"} :
                [NoJob EXCEPT !.op = op, !.targets = S, !.role = role, !.status = status] \in Job
  BY NoJobTyped DEF Job

(* The transaction ends; no account changed but cache and fill stay. *)
LEMMA CommitKeeps ==
    ASSUME AccountsInv, NEW r \in Requests, NEW changed \in SUBSET Users,
           Commit(r, changed), users' = users
    PROVE  AccountsInv'
<1> DEFINE j == [NoJob EXCEPT !.changed = changed]
           step == IF changed = {} THEN "idle" ELSE "invalidate"
<1>1. j \in Job
  BY NoJobTyped DEF Job
<1>2. cache' \in [Users -> Principal \cup {NoPrincipal}] /\ fill' \in [Users -> Principal \cup {NoPrincipal, Missed}]
  BY DEF Commit, AccountsInv, TypeOK
<1>3. step \in {"idle", "invalidate"} /\ step \in Steps
  BY DEF Steps
<1>4. pc' = [pc EXCEPT ![r] = step] /\ job' = [job EXCEPT ![r] = j]
  BY DEF Commit
<1> HIDE DEF j, step
<1> QED
  BY <1>1, <1>2, <1>3, <1>4, RequestMoves

(* Steps that read and decide. *)
LEMMA ReadingKeeps ==
    ASSUME AccountsInv, NEW r \in Requests,
           LockAdmins(r) \/ CountAdmins(r) \/ ReadDeleted(r) \/ PlanBatch(r) \/ Fail(r)
    PROVE  AccountsInv'
<1>1. /\ job[r] \in Job /\ job[r].targets \in SUBSET Users
      /\ users' = users /\ cache' = cache /\ fill' = fill
      /\ cache' \in [Users -> Principal \cup {NoPrincipal}]
      /\ fill' \in [Users -> Principal \cup {NoPrincipal, Missed}]
  BY DEF AccountsInv, TypeOK, Job, LockAdmins, CountAdmins, ReadDeleted, PlanBatch, Fail
<1>2. ActiveAdmins \in SUBSET Users
  BY DEF ActiveAdmins, AccountsInv, TypeOK
<1>3. pc[r] \in {"lockAdmins", "read", "guard", "restoreRead", "write"} => job[r].op \in Commands
  BY DEF AccountsInv, PlansHold
<1>4. CASE LockAdmins(r)
  <2> DEFINE j == [job[r] EXCEPT !.admins = ActiveAdmins]
  <2>1. j \in Job /\ j.op = job[r].op
    BY <1>1, <1>2 DEF Job
  <2>2. pc' = [pc EXCEPT ![r] = "read"] /\ job' = [job EXCEPT ![r] = j] /\ pc[r] = "lockAdmins"
    BY <1>4 DEF LockAdmins, AccountsInv, TypeOK
  <2> HIDE DEF j
  <2> QED
    BY <1>1, <1>3, <2>1, <2>2, RequestMoves DEF Steps
<1>5. CASE CountAdmins(r)
  <2>1. pc' = [pc EXCEPT ![r] = "write"] /\ job' = [job EXCEPT ![r] = job[r]] /\ pc[r] = "guard"
    BY <1>5 DEF CountAdmins, AccountsInv, TypeOK
  <2>2. /\ job[r].op \in {"update"} \cup SingleRemovals
        /\ job[r].op = "softDelete" => job[r].seen.status # "deleted"
    BY <2>1 DEF AccountsInv, PlansHold
  <2>3. job[r].op \notin Batches
    BY <2>2 DEF SingleRemovals, Batches, BatchRemovals
  <2> QED
    BY <1>1, <1>3, <2>1, <2>2, <2>3, RequestMoves DEF Steps
<1>6. CASE ReadDeleted(r)
  <2>1. PICK u \in job[r].targets \cap DOMAIN users : job' = [job EXCEPT ![r].seen = users[u]]
    BY <1>6 DEF ReadDeleted
  <2> DEFINE j == [job[r] EXCEPT !.seen = users[u]]
  <2>2. j \in Job /\ j.op = job[r].op
    BY <1>1 DEF Job, AccountsInv, TypeOK
  <2>3. pc' = [pc EXCEPT ![r] = "write"] /\ job' = [job EXCEPT ![r] = j] /\ pc[r] = "restoreRead"
    BY <1>6, <2>1 DEF ReadDeleted, AccountsInv, TypeOK
  <2>4. job[r].op = "restore"
    BY <2>3 DEF AccountsInv, PlansHold
  <2>5. job[r].op \notin Batches /\ job[r].op # "softDelete"
    BY <2>4 DEF Batches, BatchRemovals
  <2> HIDE DEF j
  <2> QED
    BY <1>1, <1>3, <2>2, <2>3, <2>5, RequestMoves DEF Steps
<1>7. CASE PlanBatch(r)
  <2> DEFINE C == ToChange(job[r].op, job[r].targets)
             j == [job[r] EXCEPT !.changed = C]
  <2>1. C \in SUBSET Users
    BY <1>1 DEF ToChange
  <2>2. j \in Job /\ j.op = job[r].op /\ j.targets = job[r].targets /\ j.changed = C
    BY <1>1, <2>1 DEF Job
  <2>3. /\ pc' = [pc EXCEPT ![r] = "write"] /\ job' = [job EXCEPT ![r] = j] /\ pc[r] = "read"
        /\ job[r].targets \subseteq DOMAIN users /\ job[r].op \in Batches
    BY <1>7 DEF PlanBatch, AccountsInv, TypeOK
  <2>4. job[r].op # "softDelete"
    BY <2>3 DEF Batches, BatchRemovals
  <2> HIDE DEF j
  <2> QED
    BY <1>1, <1>3, <2>2, <2>3, <2>4, RequestMoves DEF Steps
<1>8. CASE Fail(r)
  <2>1. pc' = [pc EXCEPT ![r] = "idle"] /\ job' = [job EXCEPT ![r] = NoJob]
    BY <1>8 DEF Fail
  <2> QED
    BY <1>1, <2>1, NoJobTyped, RequestMoves DEF Steps
<1> QED
  BY <1>4, <1>5, <1>6, <1>7, <1>8

(* The reads of single commands. *)
ReadSingle(r) == ReadForUpdate(r) \/ ReadForRemoval(r) \/ ReadForRestore(r)

LEMMA ReadRowKeeps ==
    ASSUME AccountsInv, NEW r \in Requests, NEW u \in Users, u \in DOMAIN users,
           NEW step \in {"guard", "write", "restoreRead"}, ReadRow(r, u, step),
           pc[r] = "read", job[r].op \in {"update", "restore"} \cup SingleRemovals,
           step = "restoreRead" <=> job[r].op = "restore",
           job[r].op = "softDelete" => users[u].status # "deleted"
    PROVE  AccountsInv'
<1> DEFINE j == [job[r] EXCEPT !.seen = users[u], !.changed = {u}]
<1>1. job[r] \in Job /\ users[u] \in Account /\ job[r].op \in Commands
  BY DEF AccountsInv, TypeOK, PlansHold
<1>2. j \in Job /\ j.op = job[r].op /\ j.seen = users[u]
  BY <1>1 DEF Job
<1>3. /\ pc' = [pc EXCEPT ![r] = step] /\ job' = [job EXCEPT ![r] = j] /\ users' = users
      /\ cache' \in [Users -> Principal \cup {NoPrincipal}]
      /\ fill' \in [Users -> Principal \cup {NoPrincipal, Missed}]
  BY DEF ReadRow, AccountsInv, TypeOK
<1>4. step \in Steps /\ job[r].op \notin Batches
  BY DEF Steps, SingleRemovals, Batches, BatchRemovals
<1>5. step = "guard" => job[r].op \in {"update"} \cup SingleRemovals
  OBVIOUS
<1> HIDE DEF j
<1> QED
  BY <1>1, <1>2, <1>3, <1>4, <1>5, RequestMoves

LEMMA ReadSingleKeeps ==
    ASSUME AccountsInv, NEW r \in Requests, ReadSingle(r)
    PROVE  AccountsInv'
<1>1. \A u \in job[r].targets \cap DOMAIN users : u \in Users
  BY DEF AccountsInv, TypeOK
<1>2. ASSUME NEW u \in Users, Commit(r, {u}) \/ Commit(r, {}), users' = users
      PROVE  AccountsInv'
  BY <1>2, CommitKeeps
<1>3. \A u : GuardOrWrite(job[r], users[u]) \in {"guard", "write"}
  BY DEF GuardOrWrite
<1>4. CASE ReadForUpdate(r)
  BY <1>1, <1>2, <1>3, <1>4, ReadRowKeeps DEF ReadForUpdate
<1>5. CASE ReadForRemoval(r)
  <2>1. job[r].op \in SingleRemovals /\ job[r].op # "restore"
    BY <1>5 DEF ReadForRemoval, SingleRemovals
  <2> QED
    BY <1>1, <1>2, <1>3, <1>5, <2>1, ReadRowKeeps DEF ReadForRemoval
<1>6. CASE ReadForRestore(r)
  BY <1>1, <1>6, ReadRowKeeps DEF ReadForRestore
<1> QED
  BY <1>4, <1>5, <1>6 DEF ReadSingle

(* What a write leaves: rows outside S as they were, no row of another plan. *)
LEMMA WriteEffect ==
    ASSUME AccountsInv, NEW r \in Requests, Write(r)
    PROVE  /\ DOMAIN users' \subseteq DOMAIN users
           /\ \A u \in DOMAIN users' : users'[u] \in Account /\ users'[u].version >= users[u].version
           /\ \A q \in Requests \ {r}, u \in DOMAIN users :
                u \in RowsLocked(q) => u \in DOMAIN users' /\ users'[u] = users[u]
<1> DEFINE j == job[r]
           S == IF j.op = "revoke" THEN j.targets ELSE j.changed
           gone == IF j.op \in {"hardDelete", "batchHardDelete"} THEN S ELSE {}
<1>1. /\ pc[r] = "write" /\ RowsFree(r, S)
      /\ j.op = "revoke" => \A u \in S : u \in DOMAIN users /\ users[u].version < MaxVersion
      /\ users' = [u \in DOMAIN users \ gone |-> IF u \in S THEN Written(j, users[u]) ELSE users[u]]
  BY DEF Write
<1>2. j \in Job /\ \A u \in DOMAIN users : users[u] \in Account /\ users[u].version \in Nat
  BY AccountsAssumption DEF AccountsInv, TypeOK, Account
<1>3. j.op = "softDelete" => j.seen.status # "deleted"
  BY <1>1 DEF AccountsInv, PlansHold
<1>4. ASSUME j.op = "batchSoftDelete", NEW u \in S
      PROVE  users[u].status # "deleted"
  <2>1. S = ToChange("batchSoftDelete", j.targets)
    BY <1>1, <1>4 DEF AccountsInv, PlansHold, Planned, Batches, BatchRemovals
  <2> QED
    BY <1>4, <2>1 DEF ToChange, ChangesFrom
<1>5. ASSUME NEW u \in DOMAIN users'
      PROVE  users'[u] \in Account /\ users'[u].version >= users[u].version
  <2>0. u \in DOMAIN users /\ users'[u] = IF u \in S THEN Written(j, users[u]) ELSE users[u]
    BY <1>1, <1>5
  <2>1. CASE u \in S
    <3>1. j.op = "revoke" => users[u].version < MaxVersion
      BY <1>1, <2>1
    <3>2. Written(j, users[u]) \in Account /\ Written(j, users[u]).version >= users[u].version
      BY <1>2, <1>3, <1>4, <2>0, <2>1, <3>1, WrittenTyped
    <3> QED
      BY <2>0, <2>1, <3>2
  <2>2. CASE u \notin S
    BY <1>2, <2>0, <2>2
  <2> QED
    BY <2>1, <2>2
<1>6. DOMAIN users' \subseteq DOMAIN users
  BY <1>1
<1>7. ASSUME NEW q \in Requests \ {r}, NEW u \in DOMAIN users, u \in RowsLocked(q)
      PROVE  u \in DOMAIN users' /\ users'[u] = users[u]
  <2>1. u \notin S /\ gone \subseteq S
    BY <1>1, <1>7 DEF RowsFree
  <2> HIDE DEF S, gone
  <2> QED
    BY <1>1, <1>7, <2>1
<1> QED
  BY <1>5, <1>6, <1>7

LEMMA WriteKeeps ==
    ASSUME AccountsInv, NEW r \in Requests, Write(r)
    PROVE  AccountsInv'
<1>1. PICK changed \in SUBSET Users : Commit(r, changed)
  <2>1. job[r].changed \in SUBSET Users /\ job[r].targets \in SUBSET Users
    BY DEF AccountsInv, TypeOK, Job
  <2> QED
    BY <2>1 DEF Write
<1> DEFINE j == [NoJob EXCEPT !.changed = changed]
           step == IF changed = {} THEN "idle" ELSE "invalidate"
<1>2. pc' = [pc EXCEPT ![r] = step] /\ job' = [job EXCEPT ![r] = j] /\ cache' = cache /\ fill' = fill
  BY <1>1 DEF Commit
<1>3. step \in {"idle", "invalidate"} /\ step \in Steps /\ j \in Job
  BY NoJobTyped DEF Steps, Job
<1> HIDE DEF j, step
<1>4. TypeOK'
  <2>1. DOMAIN users' \subseteq Users /\ users' \in [DOMAIN users' -> Account]
    <3>1. \A u \in DOMAIN users' : users'[u] \in Account
      BY WriteEffect
    <3>2. users' = [u \in DOMAIN users' |-> users'[u]]
      BY DEF Write
    <3>3. DOMAIN users' \subseteq Users
      BY WriteEffect DEF AccountsInv, TypeOK
    <3> QED
      BY <3>1, <3>2, <3>3
  <2> QED
    BY <1>2, <1>3, <2>1 DEF AccountsInv, TypeOK
<1>5. ASSUME NEW q \in Requests, q # r
      PROVE  pc'[q] = pc[q] /\ job'[q] = job[q]
  BY <1>2, <1>5 DEF AccountsInv, TypeOK
<1>6. pc'[r] \in {"idle", "invalidate"}
  BY <1>2, <1>3 DEF AccountsInv, TypeOK
<1>7. ASSUME NEW q \in Requests, Planned(q)'
      PROVE  /\ job'[q].targets \subseteq DOMAIN users'
             /\ job'[q].changed = ToChange(job[q].op, job[q].targets)'
  <2>1. q # r /\ job'[q] = job[q] /\ Planned(q)
    BY <1>5, <1>6, <1>7 DEF Planned
  <2>2. /\ job[q].targets \subseteq DOMAIN users
        /\ job[q].changed = ToChange(job[q].op, job[q].targets)
        /\ job[q].targets \subseteq RowsLocked(q)
    BY <2>1 DEF AccountsInv, PlansHold, Planned, RowsLocked
  <2>3. \A u \in job[q].targets : u \in DOMAIN users' /\ users'[u] = users[u]
    BY <2>1, <2>2, WriteEffect
  <2> QED
    BY <2>1, <2>2, <2>3 DEF ToChange
<1>8. PlansHold'
  <2>1. \A q \in Requests :
            /\ pc'[q] \in {"lockAdmins", "read", "guard", "restoreRead", "write"} => job'[q].op \in Commands
            /\ pc'[q] \in {"guard", "write"} /\ job'[q].op = "softDelete" => job'[q].seen.status # "deleted"
            /\ pc'[q] = "guard" => job'[q].op \in {"update"} \cup SingleRemovals
            /\ pc'[q] = "restoreRead" => job'[q].op = "restore"
    BY <1>5, <1>6 DEF AccountsInv, PlansHold
  <2> QED
    BY <1>7, <2>1 DEF PlansHold
<1> QED
  BY <1>4, <1>8 DEF AccountsInv

LEMMA InvalidateKeeps ==
    ASSUME AccountsInv, NEW r \in Requests, NEW u \in Users, Invalidate(r, u)
    PROVE  AccountsInv'
<1> DEFINE j == [job[r] EXCEPT !.changed = @ \ {u}]
           step == IF job[r].changed = {u} THEN "idle" ELSE "invalidate"
<1>1. job[r] \in Job /\ pc[r] = "invalidate"
  BY DEF Invalidate, AccountsInv, TypeOK
<1>2. j \in Job
  BY <1>1 DEF Job
<1>3. pc' = [pc EXCEPT ![r] = step] /\ job' = [job EXCEPT ![r] = j] /\ users' = users
  BY <1>1 DEF Invalidate, AccountsInv, TypeOK
<1>4. step \in {"idle", "invalidate"} /\ step \in Steps
  BY DEF Steps
<1>5. /\ cache' \in [Users -> Principal \cup {NoPrincipal}]
      /\ fill' \in [Users -> Principal \cup {NoPrincipal, Missed}]
  BY DEF Invalidate, AccountsInv, TypeOK
<1> HIDE DEF j, step
<1> QED
  BY <1>2, <1>3, <1>4, <1>5, RequestMoves

LEMMA PrincipalKeeps ==
    ASSUME AccountsInv, NEW u \in Users, Miss(u) \/ Load(u) \/ Store(u) \/ Expire(u)
    PROVE  AccountsInv'
<1>1. u \in DOMAIN users => Info(u) \in Principal
  BY DEF Info, Principal, AccountsInv, TypeOK, Account
<1>2. TypeOK'
  BY <1>1 DEF AccountsInv, TypeOK, Miss, Load, Store, Expire
<1>3. users' = users /\ pc' = pc /\ job' = job
  BY DEF Miss, Load, Store, Expire
<1>4. PlansHold'
  BY <1>3 DEF AccountsInv, PlansHold, Planned, ToChange
<1> QED
  BY <1>2, <1>4 DEF AccountsInv

LEMMA AccountsStep == AccountsInv /\ [Next]_vars => AccountsInv'
<1> SUFFICES ASSUME AccountsInv, [Next]_vars PROVE AccountsInv'
  OBVIOUS
<1>1. CASE \E r \in Requests : CommandNext(r)
  <2> PICK r \in Requests : CommandNext(r)
    BY <1>1
  <2>1. CASE \E u \in Users, role \in Roles \cup {"keep"}, status \in {"active", "disabled", "keep"} :
                BeginUpdate(r, u, role, status)
    <3> PICK u \in Users, role \in Roles \cup {"keep"}, status \in {"active", "disabled", "keep"} :
                BeginUpdate(r, u, role, status)
      BY <2>1
    <3> DEFINE j == [NoJob EXCEPT !.op = "update", !.targets = {u}, !.role = role, !.status = status]
    <3>1. Begin(r, "lockAdmins", j)
      BY DEF BeginUpdate
    <3>2. "update" \in Commands
      BY <3>1 DEF Begin, NoJob
    <3>3. {u} \in SUBSET Users
      OBVIOUS
    <3>4. j \in Job
      BY <3>2, <3>3, StartedJobTyped
    <3> HIDE DEF j
    <3> QED
      BY <3>1, <3>4, BeginKeeps
  <2>2. ASSUME NEW S \in SUBSET Users, NEW op, BeginRemoval(r, S, op)
        PROVE  AccountsInv'
    <3>1. Begin(r, "lockAdmins", [NoJob EXCEPT !.op = op, !.targets = S])
      BY <2>2 DEF BeginRemoval
    <3>2. op \in Commands
      BY <3>1 DEF Begin, NoJob
    <3>3. [NoJob EXCEPT !.op = op, !.targets = S] \in Job
      BY <3>2, StartedJobTyped
    <3> QED
      BY <3>1, <3>3, BeginKeeps
  <2>3. ASSUME NEW S \in SUBSET Users, NEW op, BeginPlain(r, S, op)
        PROVE  AccountsInv'
    <3> DEFINE step == IF op = "revoke" THEN "write" ELSE "read"
               j == [NoJob EXCEPT !.op = op, !.targets = S]
    <3>1. Begin(r, step, j) /\ j.op = op
      BY <2>3 DEF BeginPlain, NoJob
    <3>2. op \in Commands
      BY <3>1 DEF Begin
    <3>3. j \in Job
      BY <3>2, StartedJobTyped
    <3>4. step \in {"lockAdmins", "read", "write"} /\ (step = "write" => j.op = "revoke")
      BY <3>1
    <3> HIDE DEF step, j
    <3> QED
      BY <3>1, <3>3, <3>4, BeginKeeps
  <2>4. CASE LockAdmins(r) \/ CountAdmins(r) \/ ReadDeleted(r) \/ PlanBatch(r) \/ Fail(r)
    BY <2>4, ReadingKeeps
  <2>5. CASE ReadSingle(r)
    BY <2>5, ReadSingleKeeps
  <2>6. CASE Write(r)
    BY <2>6, WriteKeeps
  <2>7. CASE \E u \in Users : Invalidate(r, u)
    BY <2>7, InvalidateKeeps
  <2>8. \A u \in Users : {u} \in SUBSET Users
    OBVIOUS
  <2> QED
    BY <2>1, <2>2, <2>3, <2>4, <2>5, <2>6, <2>7, <2>8 DEF CommandNext, ReadSingle
<1>2. CASE \E u \in Visitors : Miss(u) \/ Load(u) \/ Store(u) \/ Expire(u)
  BY <1>2, PrincipalKeeps, AccountsAssumption
<1>3. CASE UNCHANGED vars
  BY <1>3 DEF vars, AccountsInv, TypeOK, PlansHold, Planned, ToChange
<1> QED
  BY <1>1, <1>2, <1>3 DEF Next

(* The inductive invariant behind the other theorems: well-typed accounts  *)
(* and jobs, and plans that still hold when they are carried out, because  *)
(* FindByIDsLocked keeps the targets of a batch locked.                    *)
THEOREM AccountsInvariant == Spec => []AccountsInv
<1> QED
  BY AccountsInit, AccountsStep, PTL DEF Spec

(* Every account, principal and job is well-typed; in particular no        *)
(* account remembers "deleted" as the status it had before its deletion.   *)
THEOREM AccountsTypeCorrect == Spec => []TypeOK
<1>1. AccountsInv => TypeOK
  BY DEF AccountsInv
<1> QED
  BY <1>1, AccountsInvariant, PTL

(* Session versions never go down: what UpdateAdmin, SoftDelete, Restore   *)
(* and the batches write over a row leaves the revocations of              *)
(* BumpSessionVersion and SetPassword in it.                               *)
THEOREM SessionVersionsGrow == Spec => VersionsGrow
<1> DEFINE Grow == \A u \in DOMAIN users \cap DOMAIN users' : users'[u].version >= users[u].version
<1>1. AccountsInv /\ [Next]_vars => [Grow]_vars
  <2> SUFFICES ASSUME AccountsInv, Next PROVE Grow
    BY DEF vars
  <2>1. CASE \E r \in Requests : Write(r)
    BY <2>1, WriteEffect
  <2>2. CASE users' = users
    BY <2>2, AccountsAssumption DEF AccountsInv, TypeOK, Account
  <2>3. (\E r \in Requests : Write(r)) \/ users' = users
    <3>1. ASSUME NEW r \in Requests, CommandNext(r)
          PROVE  Write(r) \/ users' = users
      BY <3>1 DEF CommandNext, BeginUpdate, BeginRemoval, BeginPlain, Begin, LockAdmins, ReadForUpdate,
                  ReadForRemoval, ReadForRestore, ReadRow, CountAdmins, ReadDeleted, PlanBatch, Fail, Invalidate
    <3> QED
      BY <3>1 DEF Next, Miss, Load, Store, Expire
  <2> QED
    BY <2>1, <2>2, <2>3
<1> QED
  BY <1>1, AccountsInvariant, PTL DEF Spec, VersionsGrow

-----------------------------------------------------------------------------
(* Cached principals *)

Pending(u) == \E r \in Requests : pc[r] = "invalidate" /\ u \in job[r].changed

(* What is cached or about to be cached is current, or an invalidation of  *)
(* it is still to come; while a load holds the lock, it cannot come yet.   *)
LoadsFresh ==
    \A u \in Users :
        \/ fill[u] \in {NoPrincipal, Missed}
        \/ u \in DOMAIN users /\ fill[u] = Info(u)
        \/ Pending(u)

FreshInv == AccountsInv /\ PrincipalsFresh /\ LoadsFresh

(* A step that changes no account, takes nothing off an invalidation and   *)
(* neither stores nor loads.                                               *)
LEMMA FreshMoves ==
    ASSUME FreshInv, users' = users, cache' = cache, fill' = fill,
           \A u \in Users : Pending(u) => Pending(u)'
    PROVE  PrincipalsFresh' /\ LoadsFresh'
<1>1. \A u \in Users : Info(u)' = Info(u)
  BY DEF Info
<1> QED
  BY <1>1 DEF FreshInv, PrincipalsFresh, LoadsFresh, Pending

LEMMA PendingStays ==
    ASSUME AccountsInv, NEW r \in Requests, pc[r] # "invalidate",
           \A q \in Requests \ {r} : pc'[q] = pc[q] /\ job'[q] = job[q]
    PROVE  \A u \in Users : Pending(u) => Pending(u)'
  BY DEF Pending

LEMMA FreshStep == FreshInv /\ [Next]_vars => FreshInv'
<1> SUFFICES ASSUME FreshInv, [Next]_vars PROVE PrincipalsFresh' /\ LoadsFresh'
  BY AccountsStep DEF FreshInv
<1> USE DEF FreshInv
<1>1. ASSUME NEW r \in Requests, CommandNext(r), ~Write(r), ~\E u \in Users : Invalidate(r, u)
      PROVE  PrincipalsFresh' /\ LoadsFresh'
  <2>1. /\ users' = users /\ cache' = cache /\ fill' = fill /\ pc[r] # "invalidate"
        /\ \A q \in Requests \ {r} : pc'[q] = pc[q] /\ job'[q] = job[q]
    <3>1. CASE \E step, j : Begin(r, step, j)
      BY <3>1 DEF Begin, AccountsInv, TypeOK
    <3>2. CASE LockAdmins(r) \/ CountAdmins(r) \/ ReadDeleted(r) \/ PlanBatch(r) \/ Fail(r)
      BY <3>2 DEF LockAdmins, CountAdmins, ReadDeleted, PlanBatch, Fail, AccountsInv, TypeOK
    <3>3. CASE ReadSingle(r)
      BY <3>3 DEF ReadSingle, ReadForUpdate, ReadForRemoval, ReadForRestore, ReadRow, Commit, AccountsInv, TypeOK
    <3>4. \/ \E step, j : Begin(r, step, j)
          \/ LockAdmins(r) \/ CountAdmins(r) \/ ReadDeleted(r) \/ PlanBatch(r) \/ Fail(r)
          \/ ReadSingle(r)
      BY <1>1 DEF CommandNext, BeginUpdate, BeginRemoval, BeginPlain, ReadSingle
    <3> QED
      BY <3>1, <3>2, <3>3, <3>4
  <2>2. \A u \in Users : Pending(u) => Pending(u)'
    BY <2>1, PendingStays
  <2> QED
    BY <2>1, <2>2, FreshMoves
<1>2. ASSUME NEW r \in Requests, Write(r)
      PROVE  PrincipalsFresh' /\ LoadsFresh'
  <2> DEFINE S == IF job[r].op = "revoke" THEN job[r].targets ELSE job[r].changed
             gone == IF job[r].op \in {"hardDelete", "batchHardDelete"} THEN S ELSE {}
  <2>1. /\ pc[r] = "write" /\ Commit(r, S) /\ gone \subseteq S
        /\ users' = [u \in DOMAIN users \ gone |-> IF u \in S THEN Written(job[r], users[u]) ELSE users[u]]
    BY <1>2 DEF Write
  <2> HIDE DEF S, gone
  <2>2. \A u \in Users : u \in S => Pending(u)'
    <3>1. S # {} => pc'[r] = "invalidate" /\ job'[r].changed = S
      BY <2>1 DEF Commit, NoJob, AccountsInv, TypeOK
    <3> QED
      BY <3>1 DEF Pending
  <2>3. \A u \in Users : Pending(u) => Pending(u)'
    <3>1. \A q \in Requests \ {r} : pc'[q] = pc[q] /\ job'[q] = job[q]
      BY <2>1 DEF Commit, AccountsInv, TypeOK
    <3> QED
      BY <2>1, <3>1, PendingStays
  <2>4. ASSUME NEW u \in Users, u \in DOMAIN users, u \notin S
        PROVE  u \in DOMAIN users' /\ Info(u)' = Info(u)
    <3>1. u \in DOMAIN users' /\ users'[u] = users[u]
      BY <2>1, <2>4
    <3> QED
      BY <3>1 DEF Info
  <2>5. cache' = cache /\ fill' = fill
    BY <2>1 DEF Commit
  <2>6. PrincipalsFresh'
    <3>1. \A u \in Users : cache[u] = NoPrincipal \/ (u \in DOMAIN users /\ cache[u] = Info(u)) \/ Pending(u)
      BY DEF PrincipalsFresh, Pending
    <3>2. \A u \in Users : cache'[u] = NoPrincipal \/ (u \in DOMAIN users' /\ cache'[u] = Info(u)') \/ Pending(u)'
      BY <2>2, <2>3, <2>4, <2>5, <3>1
    <3> QED
      BY <3>2 DEF PrincipalsFresh, Pending
  <2>7. LoadsFresh'
    BY <2>2, <2>3, <2>4, <2>5 DEF LoadsFresh
  <2> QED
    BY <2>6, <2>7
<1>3. ASSUME NEW r \in Requests, NEW u \in Users, Invalidate(r, u)
      PROVE  PrincipalsFresh' /\ LoadsFresh'
  <2>1. /\ users' = users /\ fill' = fill /\ fill[u] = NoPrincipal
        /\ cache'[u] = NoPrincipal /\ \A v \in Users \ {u} : cache'[v] = cache[v]
    BY <1>3 DEF Invalidate, LockFree, AccountsInv, TypeOK
  <2>2. \A v \in Users \ {u} : Pending(v) => Pending(v)'
    <3> SUFFICES ASSUME NEW v \in Users \ {u}, NEW q \in Requests,
                        pc[q] = "invalidate", v \in job[q].changed
                 PROVE  pc'[q] = "invalidate" /\ v \in job'[q].changed
      BY DEF Pending
    <3>1. CASE q = r
      <4>1. job[r] \in Job /\ job' = [job EXCEPT ![r] = [job[r] EXCEPT !.changed = job[r].changed \ {u}]]
        BY <1>3 DEF Invalidate, AccountsInv, TypeOK
      <4>2. job'[r].changed = job[r].changed \ {u} /\ v \in job'[r].changed
        BY <3>1, <4>1 DEF Job, AccountsInv, TypeOK
      <4>3. pc'[r] = "invalidate"
        BY <1>3, <3>1 DEF Invalidate, AccountsInv, TypeOK
      <4> QED
        BY <3>1, <4>2, <4>3
    <3>2. CASE q # r
      BY <1>3, <3>2 DEF Invalidate, AccountsInv, TypeOK
    <3> QED
      BY <3>1, <3>2
  <2>3. \A v \in Users : Info(v)' = Info(v)
    BY <2>1 DEF Info
  <2>4. \A v \in Users : cache[v] = NoPrincipal \/ (v \in DOMAIN users /\ cache[v] = Info(v)) \/ Pending(v)
    BY DEF PrincipalsFresh, Pending
  <2>5. PrincipalsFresh'
    <3>1. \A v \in Users : cache'[v] = NoPrincipal \/ (v \in DOMAIN users' /\ cache'[v] = Info(v)') \/ Pending(v)'
      BY <2>1, <2>2, <2>3, <2>4
    <3> QED
      BY <3>1 DEF PrincipalsFresh, Pending
  <2>6. LoadsFresh'
    BY <2>1, <2>2, <2>3 DEF LoadsFresh
  <2> QED
    BY <2>5, <2>6
<1>4. ASSUME NEW u \in Users, Miss(u) \/ Load(u) \/ Store(u) \/ Expire(u)
      PROVE  PrincipalsFresh' /\ LoadsFresh'
  <2>1. users' = users /\ pc' = pc /\ job' = job
    BY <1>4 DEF Miss, Load, Store, Expire
  <2>2. \A v \in Users : Info(v)' = Info(v) /\ (Pending(v)' <=> Pending(v))
    BY <2>1 DEF Info, Pending
  <2>3. \A v \in Users \ {u} : cache'[v] = cache[v] /\ fill'[v] = fill[v]
    BY <1>4 DEF Miss, Load, Store, Expire, AccountsInv, TypeOK
  <2>4. \/ cache'[u] = NoPrincipal
        \/ cache'[u] = cache[u]
        \/ cache'[u] = fill[u] /\ fill[u] \notin {NoPrincipal, Missed}
    BY <1>4 DEF Miss, Load, Store, Expire, AccountsInv, TypeOK
  <2>5. \/ fill'[u] \in {NoPrincipal, Missed}
        \/ u \in DOMAIN users /\ fill'[u] = Info(u)
        \/ fill'[u] = fill[u]
    BY <1>4 DEF Miss, Load, Store, Expire, AccountsInv, TypeOK
  <2>6. \A v \in Users : cache[v] = NoPrincipal \/ (v \in DOMAIN users /\ cache[v] = Info(v)) \/ Pending(v)
    BY DEF PrincipalsFresh, Pending
  <2>7. PrincipalsFresh'
    <3>1. \A v \in Users : cache'[v] = NoPrincipal \/ (v \in DOMAIN users' /\ cache'[v] = Info(v)') \/ Pending(v)'
      BY <2>1, <2>2, <2>3, <2>4, <2>6 DEF LoadsFresh
    <3> QED
      BY <3>1 DEF PrincipalsFresh, Pending
  <2>8. LoadsFresh'
    BY <2>1, <2>2, <2>3, <2>5 DEF LoadsFresh
  <2> QED
    BY <2>7, <2>8
<1>5. CASE UNCHANGED vars
  BY <1>5, FreshMoves DEF vars, Pending
<1>6. QED
  BY <1>1, <1>2, <1>3, <1>4, <1>5, AccountsAssumption DEF Next

(* No request is authorised by a stale principal once the command that     *)
(* changed the account has returned: Resolve and invalidateAuthz take the  *)
(* lock of the user, so a load that began before the commit is stored      *)
(* before the invalidation, never after it.                                *)
THEOREM PrincipalsStayFresh == Spec => []PrincipalsFresh
<1>1. Init => FreshInv
  <2> SUFFICES ASSUME Init PROVE PrincipalsFresh /\ LoadsFresh
    BY AccountsInit DEF FreshInv
  <2> QED
    BY DEF Init, PrincipalsFresh, LoadsFresh
<1>2. FreshInv => PrincipalsFresh
  BY DEF FreshInv
<1> QED
  BY <1>1, <1>2, FreshStep, PTL DEF Spec

-----------------------------------------------------------------------------
(* The last active administrator *)

Holder(q) == InTx(q) /\ job[q].op \in Guarded

(* The write a guarded command is about to make takes no account, or       *)
(* leaves an active administrator it does not touch.                       *)
WriteLeavesAdmin(q) ==
    \/ ActiveAdmins \ job[q].changed # {}
    \/ /\ job[q].op = "update"
       /\ ActiveAdmin(job[q].seen)
       /\ ActiveAdmin(Updated(job[q], job[q].seen))

AdminsSafe ==
    /\ ActiveAdmins # {}
    /\ \A p, q \in Requests : Holder(p) /\ Holder(q) => p = q
    /\ \A q \in Requests : Holder(q) => job[q].admins \subseteq ActiveAdmins
    /\ \A q \in Requests : pc[q] = "write" /\ Holder(q) => WriteLeavesAdmin(q)
    /\ \A q \in Requests : pc[q] = "guard" => \E u \in Users : job[q].changed = {u}

AdminInv == AccountsInv /\ AdminsSafe

LEMMA AdminsFinite == AccountsInv => IsFiniteSet(ActiveAdmins) /\ ActiveAdmins \in SUBSET Users
<1> SUFFICES ASSUME AccountsInv PROVE IsFiniteSet(ActiveAdmins) /\ ActiveAdmins \in SUBSET Users
  OBVIOUS
<1>1. ActiveAdmins \in SUBSET Users
  BY DEF ActiveAdmins, AccountsInv, TypeOK
<1> QED
  BY <1>1, AccountsAssumption, FS_Subset

(* Request r moves on and no account changes. *)
LEMMA AdminMoves ==
    ASSUME AdminInv, NEW r \in Requests, users' = users,
           \A q \in Requests \ {r} : pc'[q] = pc[q] /\ job'[q] = job[q],
           Holder(r)' => /\ \A q \in Requests \ {r} : ~Holder(q)
                         /\ job'[r].admins \subseteq ActiveAdmins,
           pc'[r] = "write" /\ Holder(r)' => WriteLeavesAdmin(r)',
           pc'[r] = "guard" => \E u \in Users : job'[r].changed = {u}
    PROVE  AdminsSafe'
<1>1. ActiveAdmins' = ActiveAdmins
  BY DEF ActiveAdmins
<1>2. \A q \in Requests \ {r} : /\ Holder(q)' <=> Holder(q)
                                /\ WriteLeavesAdmin(q)' <=> WriteLeavesAdmin(q)
  BY <1>1 DEF Holder, InTx, WriteLeavesAdmin, Updated
<1> QED
  BY <1>1, <1>2 DEF AdminInv, AdminsSafe

(* Whoever is counted beside u. *)
LEMMA OtherAdmin ==
    ASSUME AccountsInv, NEW u \in Users, Cardinality(ActiveAdmins) > 1
    PROVE  ActiveAdmins \ {u} # {}
<1> SUFFICES ASSUME ActiveAdmins \subseteq {u} PROVE FALSE
  OBVIOUS
<1>1. IsFiniteSet({u}) /\ Cardinality({u}) = 1
  BY FS_Singleton
<1>2. Cardinality(ActiveAdmins) <= 1
  BY <1>1, FS_Subset
<1>3. Cardinality(ActiveAdmins) \in Nat
  BY AdminsFinite, FS_CardinalityType
<1> QED
  BY <1>2, <1>3

(* Whoever of the locked administrators a batch does not name. *)
LEMMA BatchSparesAdmin ==
    ASSUME AccountsInv, ActiveAdmins # {}, NEW r \in Requests, NEW S \in SUBSET Users,
           job[r].admins \subseteq ActiveAdmins, AdminRemains(r, S)
    PROVE  ActiveAdmins \ S # {}
<1>1. CASE S \cap ActiveAdmins = {}
  BY <1>1
<1>2. CASE Cardinality(S \cap ActiveAdmins) < Cardinality(job[r].admins)
  <2> SUFFICES ASSUME ActiveAdmins \subseteq S PROVE FALSE
    OBVIOUS
  <2>1. S \cap ActiveAdmins = ActiveAdmins
    OBVIOUS
  <2>2. /\ Cardinality(job[r].admins) <= Cardinality(ActiveAdmins)
        /\ Cardinality(job[r].admins) \in Nat /\ Cardinality(ActiveAdmins) \in Nat
    BY AdminsFinite, FS_Subset, FS_CardinalityType
  <2> QED
    BY <1>2, <2>1, <2>2
<1> QED
  BY <1>1, <1>2 DEF AdminRemains

(* Writes outside the mutex only make accounts active. *)
LEMMA PlainWriteKeepsAdmins ==
    ASSUME "restore" \notin Commands, AccountsInv, NEW r \in Requests, Write(r), job[r].op \notin Guarded
    PROVE  ActiveAdmins \subseteq ActiveAdmins'
<1> DEFINE j == job[r]
           S == IF j.op = "revoke" THEN j.targets ELSE j.changed
<1>1. pc[r] = "write" /\ j.op \in Commands /\ j.op \notin {"hardDelete", "batchHardDelete"}
  BY DEF Write, AccountsInv, PlansHold, Guarded, SingleRemovals, BatchRemovals
<1>2. j.op \in {"revoke", "batchEnable", "batchRestore"}
  BY <1>1, AccountsAssumption DEF AllCommands, Batches, Guarded
<1>3. users' = [u \in DOMAIN users |-> IF u \in S THEN Written(j, users[u]) ELSE users[u]]
  BY <1>1 DEF Write
<1> SUFFICES ASSUME NEW u \in ActiveAdmins PROVE u \in ActiveAdmins'
  OBVIOUS
<1>4. u \in DOMAIN users /\ ActiveAdmin(users[u]) /\ users[u] \in Account
  BY DEF ActiveAdmins, AccountsInv, TypeOK
<1>5. CASE u \notin S
  BY <1>3, <1>4, <1>5 DEF ActiveAdmins
<1>6. CASE u \in S
  <2> DEFINE W == Written(j, users[u])
  <2>1. ASSUME j.op = "revoke" PROVE ActiveAdmin(W)
    <3>1. W = Revoked(users[u])
      BY <2>1 DEF Written
    <3> QED
      BY <1>4, <3>1 DEF Revoked, ActiveAdmin, Account
  <2>2. ASSUME j.op = "batchEnable" PROVE ActiveAdmin(W)
    <3>1. W = [users[u] EXCEPT !.status = "active"]
      BY <2>2 DEF Written
    <3> QED
      BY <1>4, <3>1 DEF ActiveAdmin, Account
  <2>3. ASSUME j.op = "batchRestore" PROVE ActiveAdmin(W)
    <3>1. S = ToChange("batchRestore", j.targets)
      BY <1>1, <2>3 DEF AccountsInv, PlansHold, Planned, Batches
    <3>2. users[u].status = "deleted"
      BY <1>6, <3>1 DEF ToChange, ChangesFrom
    <3> QED
      BY <1>4, <3>2 DEF ActiveAdmin
  <2>4. ActiveAdmin(W)
    BY <1>2, <2>1, <2>2, <2>3
  <2> QED
    BY <1>3, <1>4, <1>6, <2>4 DEF ActiveAdmins
<1> QED
  BY <1>5, <1>6

(* A write under the mutex leaves an active administrator. *)
LEMMA GuardedWriteLeavesAdmin ==
    ASSUME AdminInv, NEW r \in Requests, Write(r), job[r].op \in Guarded
    PROVE  ActiveAdmins' # {}
<1> DEFINE j == job[r]
           S == j.changed
           gone == IF j.op \in {"hardDelete", "batchHardDelete"} THEN S ELSE {}
<1>1. /\ pc[r] = "write" /\ j.op # "revoke"
      /\ users' = [u \in DOMAIN users \ gone |-> IF u \in S THEN Written(j, users[u]) ELSE users[u]]
  BY DEF Write, Guarded, SingleRemovals, BatchRemovals
<1>2. WriteLeavesAdmin(r) /\ ActiveAdmins # {}
  BY <1>1 DEF AdminInv, AdminsSafe, Holder, InTx
<1>3. CASE ActiveAdmins \ S # {}
  <2>1. PICK v \in ActiveAdmins : v \notin S /\ v \notin gone
    BY <1>3
  <2> QED
    BY <1>1, <2>1 DEF ActiveAdmins
<1>4. CASE j.op = "update" /\ ActiveAdmin(j.seen) /\ ActiveAdmin(Updated(j, j.seen))
  <2>1. PICK v \in ActiveAdmins : TRUE
    BY <1>2
  <2>2. v \in DOMAIN users /\ users[v] \in Account /\ ActiveAdmin(users[v]) /\ j \in Job /\ gone = {}
    BY <1>4, <2>1 DEF ActiveAdmins, AdminInv, AccountsInv, TypeOK
  <2>3. j.role \in {"keep", "admin"} /\ j.status \in {"keep", "active"}
    BY <1>4, <2>2 DEF ActiveAdmin, Updated, Job, Account
  <2>4. j.role \in {"keep", j.seen.role} /\ j.status \in {"keep", j.seen.status}
    BY <1>4, <2>3 DEF ActiveAdmin
  <2>5. Written(j, users[v]) = FieldsSet(j, users[v])
    BY <1>4 DEF Written
  <2>6. ActiveAdmin(Written(j, users[v]))
    BY <2>2, <2>4, <2>5 DEF FieldsSet, ActiveAdmin, Account
  <2> QED
    BY <1>1, <2>2, <2>6 DEF ActiveAdmins
<1> QED
  BY <1>2, <1>3, <1>4 DEF WriteLeavesAdmin

LEMMA AdminStep == "restore" \notin Commands /\ AdminInv /\ [Next]_vars => AdminInv'
<1> SUFFICES ASSUME "restore" \notin Commands, AdminInv, [Next]_vars PROVE AdminsSafe'
  BY AccountsStep DEF AdminInv
<1>0. AccountsInv /\ ActiveAdmins # {}
  BY DEF AdminInv, AdminsSafe
<1>1. ASSUME NEW r \in Requests, CommandNext(r)
      PROVE  AdminsSafe'
  <2>1. \A q \in Requests \ {r} : pc'[q] = pc[q] /\ job'[q] = job[q]
    <3>1. CASE \E step, j : Begin(r, step, j)
      BY <1>0, <3>1 DEF Begin, AccountsInv, TypeOK
    <3>2. CASE LockAdmins(r) \/ CountAdmins(r) \/ ReadDeleted(r) \/ PlanBatch(r) \/ Fail(r)
      BY <1>0, <3>2 DEF LockAdmins, CountAdmins, ReadDeleted, PlanBatch, Fail, AccountsInv, TypeOK
    <3>3. CASE ReadSingle(r)
      BY <1>0, <3>3 DEF ReadSingle, ReadForUpdate, ReadForRemoval, ReadForRestore, ReadRow, Commit, AccountsInv, TypeOK
    <3>4. CASE Write(r)
      BY <1>0, <3>4 DEF Write, Commit, AccountsInv, TypeOK
    <3>5. CASE \E u \in Users : Invalidate(r, u)
      BY <1>0, <3>5 DEF Invalidate, AccountsInv, TypeOK
    <3> QED
      BY <1>1, <3>1, <3>2, <3>3, <3>4, <3>5
         DEF CommandNext, BeginUpdate, BeginRemoval, BeginPlain, ReadSingle
  <2>2. Holder(r) => \A q \in Requests \ {r} : ~Holder(q)
    BY DEF AdminInv, AdminsSafe
  <2>3. ASSUME NEW S \in SUBSET Users, NEW op, BeginPlain(r, S, op), op \in {"restore", "revoke", "batchEnable", "batchRestore"}
        PROVE  AdminsSafe'
    <3>1. pc'[r] \in {"read", "write"} /\ job'[r].op = op /\ users' = users
      BY <1>0, <2>3 DEF BeginPlain, Begin, NoJob, AccountsInv, TypeOK
    <3>2. op \notin Guarded
      BY <2>3 DEF Guarded, SingleRemovals, BatchRemovals
    <3> QED
      BY <2>1, <3>1, <3>2, AdminMoves DEF Holder
  <2>4. ASSUME NEW j, Begin(r, "lockAdmins", j)
        PROVE  AdminsSafe'
    <3>1. pc'[r] = "lockAdmins" /\ users' = users
      BY <1>0, <2>4 DEF Begin, AccountsInv, TypeOK
    <3> QED
      BY <2>1, <3>1, AdminMoves DEF Holder, InTx
  <2>5. CASE LockAdmins(r)
    <3>1. pc'[r] = "read" /\ job'[r].admins = ActiveAdmins /\ users' = users
      BY <1>0, <2>5 DEF LockAdmins, AccountsInv, TypeOK, Job
    <3>2. \A q \in Requests \ {r} : ~Holder(q)
      BY <2>5 DEF LockAdmins, MutexFree, Holder
    <3> QED
      BY <2>1, <3>1, <3>2, AdminMoves
  <2>6. CASE ReadSingle(r)
    <3>1. ASSUME NEW changed, Commit(r, changed), users' = users
          PROVE  AdminsSafe'
      <4>1. pc'[r] \in {"idle", "invalidate"}
        BY <1>0, <3>1 DEF Commit, AccountsInv, TypeOK
      <4> QED
        BY <2>1, <3>1, <4>1, AdminMoves DEF Holder, InTx
    <3>2. ASSUME NEW u \in Users, NEW step \in {"guard", "write", "restoreRead"},
                 pc' = [pc EXCEPT ![r] = step], users' = users,
                 job' = [job EXCEPT ![r] = [job[r] EXCEPT !.seen = users[u], !.changed = {u}]],
                 u \in DOMAIN users, pc[r] = "read",
                 step = "write" => ~TakesAdmin(job[r], users[u])
          PROVE  AdminsSafe'
      <4> DEFINE a == users[u]
                 j == [job[r] EXCEPT !.seen = a, !.changed = {u}]
      <4>1. job[r] \in Job /\ users' = users /\ job'[r] = j /\ pc'[r] = step
        BY <1>0, <3>2 DEF AccountsInv, TypeOK
      <4>2. /\ j.op = job[r].op /\ j.admins = job[r].admins /\ j.seen = a /\ j.changed = {u}
            /\ j.role = job[r].role /\ j.status = job[r].status
        BY <4>1 DEF Job
      <4>3. ActiveAdmins' = ActiveAdmins /\ (~ActiveAdmin(a) => u \notin ActiveAdmins)
        BY <4>1 DEF ActiveAdmins
      <4>4. step = "write" => ~ActiveAdmin(a) \/ (j.op = "update" /\ ActiveAdmin(a) /\ ActiveAdmin(Updated(job[r], a)))
        BY <3>2, <4>2 DEF TakesAdmin
      <4> HIDE DEF j, a
      <4>5. Holder(r)' => Holder(r)
        BY <3>2, <4>1, <4>2 DEF Holder, InTx
      <4>6. Holder(r) => job[r].admins \subseteq ActiveAdmins
        BY DEF AdminInv, AdminsSafe
      <4>7. pc'[r] = "write" => WriteLeavesAdmin(r)'
        <5>1. Updated(j, a) = Updated(job[r], a)
          BY <4>2 DEF Updated
        <5>2. CASE ~ActiveAdmin(a)
          BY <1>0, <4>1, <4>2, <4>3, <5>2 DEF WriteLeavesAdmin
        <5>3. CASE j.op = "update" /\ ActiveAdmin(a) /\ ActiveAdmin(Updated(job[r], a))
          BY <4>1, <4>2, <5>1, <5>3 DEF WriteLeavesAdmin
        <5> QED
          BY <4>1, <4>4, <5>2, <5>3
      <4> QED
        BY <2>1, <2>2, <4>1, <4>2, <4>5, <4>6, <4>7, AdminMoves
    <3>4. \A u \in job[r].targets \cap DOMAIN users : u \in Users
      BY <1>0 DEF AccountsInv, TypeOK
    <3>5. CASE ReadForUpdate(r)
      <4>1. PICK u \in Users :
              /\ u \in DOMAIN users /\ pc[r] = "read"
              /\ \/ \E changed : Commit(r, changed) /\ users' = users
                 \/ ReadRow(r, u, GuardOrWrite(job[r], users[u]))
        BY <3>4, <3>5 DEF ReadForUpdate
      <4>2. CASE ReadRow(r, u, GuardOrWrite(job[r], users[u]))
        <5> DEFINE step == GuardOrWrite(job[r], users[u])
        <5>1. step \in {"guard", "write"} /\ (step = "write" => ~TakesAdmin(job[r], users[u]))
          BY DEF GuardOrWrite
        <5>2. /\ pc' = [pc EXCEPT ![r] = step] /\ users' = users
              /\ job' = [job EXCEPT ![r] = [job[r] EXCEPT !.seen = users[u], !.changed = {u}]]
          BY <4>2 DEF ReadRow
        <5> HIDE DEF step
        <5> QED
          BY <3>2, <4>1, <5>1, <5>2
      <4> QED
        BY <3>1, <4>1, <4>2
    <3>6. CASE ReadForRemoval(r)
      <4>1. PICK u \in Users :
              /\ u \in DOMAIN users /\ pc[r] = "read"
              /\ \/ \E changed : Commit(r, changed) /\ users' = users
                 \/ ReadRow(r, u, GuardOrWrite(job[r], users[u]))
        BY <3>4, <3>6 DEF ReadForRemoval
      <4>2. CASE ReadRow(r, u, GuardOrWrite(job[r], users[u]))
        <5> DEFINE step == GuardOrWrite(job[r], users[u])
        <5>1. step \in {"guard", "write"} /\ (step = "write" => ~TakesAdmin(job[r], users[u]))
          BY DEF GuardOrWrite
        <5>2. /\ pc' = [pc EXCEPT ![r] = step] /\ users' = users
              /\ job' = [job EXCEPT ![r] = [job[r] EXCEPT !.seen = users[u], !.changed = {u}]]
          BY <4>2 DEF ReadRow
        <5> HIDE DEF step
        <5> QED
          BY <3>2, <4>1, <5>1, <5>2
      <4> QED
        BY <3>1, <4>1, <4>2
    <3>7. CASE ReadForRestore(r)
      BY <3>2, <3>4, <3>7 DEF ReadForRestore, ReadRow
    <3> QED
      BY <2>6, <3>5, <3>6, <3>7 DEF ReadSingle
  <2>7. CASE CountAdmins(r)
    <3>1. /\ pc[r] = "guard" /\ pc'[r] = "write" /\ job'[r] = job[r] /\ users' = users
          /\ Cardinality(ActiveAdmins) > 1
      BY <1>0, <2>7 DEF CountAdmins, AccountsInv, TypeOK
    <3>2. PICK u \in Users : job[r].changed = {u}
      BY <3>1 DEF AdminInv, AdminsSafe
    <3>3. ActiveAdmins \ job[r].changed # {} /\ ActiveAdmins' = ActiveAdmins
      BY <1>0, <3>1, <3>2, OtherAdmin DEF ActiveAdmins
    <3>4. Holder(r)' => Holder(r) /\ job[r].admins \subseteq ActiveAdmins
      BY <3>1 DEF Holder, InTx, AdminInv, AdminsSafe
    <3> QED
      BY <2>1, <2>2, <3>1, <3>3, <3>4, AdminMoves DEF WriteLeavesAdmin
  <2>8. CASE ReadDeleted(r)
    BY <1>0, <2>8 DEF ReadDeleted, AccountsInv, PlansHold
  <2>9. CASE PlanBatch(r)
    <3>1. /\ pc[r] = "read" /\ pc'[r] = "write" /\ users' = users /\ job[r].op \in Batches
          /\ job[r].targets \in SUBSET Users /\ job[r] \in Job
          /\ job' = [job EXCEPT ![r] = [job[r] EXCEPT !.changed = ToChange(job[r].op, job[r].targets)]]
          /\ job[r].op \in BatchRemovals => AdminRemains(r, job[r].targets)
      BY <1>0, <2>9 DEF PlanBatch, AccountsInv, TypeOK, Job
    <3>2. /\ job'[r].op = job[r].op /\ job'[r].admins = job[r].admins
          /\ job'[r].changed \subseteq job[r].targets
      BY <1>0, <3>1 DEF AccountsInv, TypeOK, Job, ToChange
    <3>3. Holder(r)' => Holder(r) /\ job[r].admins \subseteq ActiveAdmins
      BY <3>1, <3>2 DEF Holder, InTx, AdminInv, AdminsSafe
    <3>4. ASSUME Holder(r)' PROVE WriteLeavesAdmin(r)'
      <4>1. job[r].op \in BatchRemovals
        BY <3>1, <3>3, <3>4 DEF Holder, Guarded, Batches, SingleRemovals, BatchRemovals
      <4>2. ActiveAdmins \ job[r].targets # {} /\ ActiveAdmins' = ActiveAdmins
        BY <1>0, <3>1, <3>3, <3>4, <4>1, BatchSparesAdmin DEF ActiveAdmins
      <4> QED
        BY <3>2, <4>2 DEF WriteLeavesAdmin
    <3> QED
      BY <2>1, <2>2, <3>1, <3>2, <3>3, <3>4, AdminMoves
  <2>10. CASE Fail(r) \/ \E u \in Users : Invalidate(r, u)
    <3>1. pc'[r] \in {"idle", "invalidate"} /\ users' = users
      BY <1>0, <2>10 DEF Fail, Invalidate, AccountsInv, TypeOK
    <3> QED
      BY <2>1, <3>1, AdminMoves DEF Holder, InTx
  <2>11. CASE Write(r)
    <3>1. pc[r] = "write" /\ pc'[r] \in {"idle", "invalidate"}
      BY <1>0, <2>11 DEF Write, Commit, AccountsInv, TypeOK
    <3>2. ASSUME NEW q \in Requests, pc'[q] = "guard"
          PROVE  \E u \in Users : job'[q].changed = {u}
      BY <2>1, <3>1, <3>2 DEF AdminInv, AdminsSafe
    <3>3. \A q \in Requests : Holder(q)' => q # r /\ Holder(q) /\ pc'[q] = pc[q] /\ job'[q] = job[q]
      BY <2>1, <3>1 DEF Holder, InTx
    <3>4. CASE job[r].op \in Guarded
      <4>1. Holder(r)
        BY <3>1, <3>4 DEF Holder, InTx
      <4>2. \A q \in Requests : ~Holder(q)'
        BY <2>2, <3>3, <4>1
      <4>3. ActiveAdmins' # {}
        BY <2>11, <3>4, GuardedWriteLeavesAdmin
      <4> QED
        BY <3>2, <4>2, <4>3 DEF AdminsSafe
    <3>5. CASE job[r].op \notin Guarded
      <4>1. ActiveAdmins \subseteq ActiveAdmins'
        BY <1>0, <2>11, <3>5, PlainWriteKeepsAdmins
      <4>2. ASSUME NEW q \in Requests, pc'[q] = "write", Holder(q)'
            PROVE  WriteLeavesAdmin(q)'
        <5>1. WriteLeavesAdmin(q) /\ job'[q] = job[q]
          BY <3>3, <4>2 DEF AdminInv, AdminsSafe
        <5> QED
          BY <4>1, <5>1 DEF WriteLeavesAdmin, Updated
      <4>3. \A p, q \in Requests : Holder(p)' /\ Holder(q)' => p = q
        BY <3>3 DEF AdminInv, AdminsSafe
      <4>4. \A q \in Requests : Holder(q)' => job'[q].admins \subseteq ActiveAdmins'
        BY <3>3, <4>1 DEF AdminInv, AdminsSafe
      <4>5. ActiveAdmins' # {}
        BY <1>0, <4>1
      <4> QED
        BY <3>2, <4>2, <4>3, <4>4, <4>5 DEF AdminsSafe
    <3> QED
      BY <3>4, <3>5
  <2>12. \A u \in Users : {u} \in SUBSET Users
    OBVIOUS
  <2> QED
    BY <1>1, <2>3, <2>4, <2>5, <2>6, <2>7, <2>8, <2>9, <2>10, <2>11, <2>12
       DEF CommandNext, BeginUpdate, BeginRemoval, ReadSingle
<1>2. ASSUME users' = users, pc' = pc, job' = job
      PROVE  AdminsSafe'
  BY <1>2 DEF AdminInv, AdminsSafe, ActiveAdmins, Holder, InTx, WriteLeavesAdmin, Updated
<1>3. CASE \E u \in Visitors : Miss(u) \/ Load(u) \/ Store(u) \/ Expire(u)
  BY <1>2, <1>3 DEF Miss, Load, Store, Expire
<1>4. CASE UNCHANGED vars
  BY <1>2, <1>4 DEF vars
<1> QED
  BY <1>1, <1>3, <1>4 DEF Next

(* There is always an active administrator, as long as no single           *)
(* restoration runs: the commands that take administrators away exclude    *)
(* each other from the count of the administrators to their commit, and    *)
(* what runs beside them, batch restorations included, only adds some.     *)
THEOREM LastAdminRemains ==
    ASSUME "restore" \notin Commands
    PROVE  Spec => []ActiveAdminRemains
<1>1. Init => AdminInv
  <2> SUFFICES ASSUME Init PROVE AdminsSafe
    BY AccountsInit DEF AdminInv
  <2>1. PICK u \in Users : users[u].role = "admin"
    BY DEF Init
  <2>2. users[u] \in {NewAccount("user"), NewAccount("admin")} /\ u \in DOMAIN users
    BY DEF Init
  <2>3. u \in ActiveAdmins
    BY <2>1, <2>2 DEF ActiveAdmins, ActiveAdmin, NewAccount
  <2>4. \A q \in Requests : pc[q] = "idle"
    BY DEF Init
  <2> QED
    BY <2>3, <2>4 DEF AdminsSafe, Holder, InTx
<1>2. AdminInv => ActiveAdminRemains
  BY DEF AdminInv, AdminsSafe, ActiveAdminRemains
<1>3. AdminInv /\ [Next]_vars => AdminInv'
  BY AdminStep
<1> QED
  BY <1>1, <1>2, <1>3, PTL DEF Spec
=============================================================================
