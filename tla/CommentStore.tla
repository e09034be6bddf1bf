---------------------------- MODULE CommentStore ----------------------------
(***************************************************************************)
(* The write side of the comment service: concurrent requests that create, *)
(* moderate, pin and delete the comments of one site, that switch and      *)
(* delete its threads, and that delete its users together with their       *)
(* comments.                                                               *)
(*                                                                         *)
(* rows, threads and accounts are the COMMITTED contents of the three      *)
(* tables.  A request runs one command at a time: pc names its next        *)
(* database statement, job holds its arguments, what it has read and what  *)
(* its open transaction has staged.  Each action is one statement; the     *)
(* last one of a transaction also commits it.                              *)
(*                                                                         *)
(* Dialect selects the isolation the code relies on.  With "postgres"      *)
(* transactions are READ COMMITTED and only row locks order them; with     *)
(* "sqlite" a writer excludes every other writer from its first statement  *)
(* to its commit.                                                          *)
(***************************************************************************)
EXTENDS CommentRules

CONSTANTS Requests,         \* concurrent request handlers
          Dialect,          \* "postgres" or "sqlite"
          Commands,         \* the commands the requests of this instance may issue
          InitialStatuses   \* outcomes of moderation policy and spam checks

AllCommands == {"create", "reply", "transition", "pin", "batch", "batchPin",
                "hardDelete", "batchHardDelete", "threads", "deleteThreads",
                "userSoftDelete", "usersSoftDelete", "userHardDelete",
                "usersHardDelete", "restoreUser"}

ASSUME StoreAssumption ==
    /\ Dialect \in {"postgres", "sqlite"}
    /\ Commands \subseteq AllCommands
    /\ InitialStatuses \subseteq LiveStatus

VARIABLES rows,      \* committed comments: a function on the ids that exist
          nextId,    \* next value of the comments identity column
          threads,   \* committed threads: absent, open or closed for comments
          accounts,  \* committed users: absent, active or deleted (soft)
          pc, job    \* per request

vars == <<rows, nextId, threads, accounts, pc, job>>

(* deletesUsers: identity's delete commands, which hand over to the comment *)
(* service inside their own transaction.  The batch forms lock first.       *)
UserHardDeletes == {"userHardDelete", "usersHardDelete"}
UserSoftDeletes == {"userSoftDelete", "usersSoftDelete"}
UserDeletes == UserHardDeletes \cup UserSoftDeletes

Steps == {"idle", "lockThread", "checkActor", "updateProfile", "lockParent",
          "insert", "updateStatus", "setPinned", "writeBatch", "scanParents",
          "detachParents", "scanRoots", "detachRoots", "delete",
          "softDeleteUsers", "scanOwned", "softDeleteOwned"}

Plan == UNION {[S -> Moderation] : S \in SUBSET Comments}
NoPlan == [c \in {} |-> Initial("pending")]

Job == [op : Commands \cup {"none"},
        targets : SUBSET Comments,             \* comments named by the command
        parent : Comments \cup {NoComment},    \* comment replied to
        users : SUBSET Users,                  \* the author, or the users to delete
        thread : Threads \cup {"none"},
        status : LiveStatus,                   \* status a new comment starts with
        depth : Nat,                           \* place of the reply, read from its parent
        root : Comments \cup {NoComment},
        pinned : BOOLEAN,
        plan : Plan,                           \* moderation columns to write
        scan : SUBSET Comments,                \* rows the running UPDATE has matched
        cutParents : SUBSET Comments,          \* staged: parent_id cleared
        cutRoots : SUBSET Comments]            \* staged: root_id cleared

NoJob == [op |-> "none", targets |-> {}, parent |-> NoComment, users |-> {}, thread |-> "none",
          status |-> "pending", depth |-> 0, root |-> NoComment,
          pinned |-> FALSE, plan |-> NoPlan, scan |-> {},
          cutParents |-> {}, cutRoots |-> {}]

Init ==
    /\ rows = [c \in {} |-> {}]
    /\ nextId = 1
    /\ threads = [t \in Threads |-> "absent"]
    /\ accounts = [u \in Users |-> "active"]
    /\ pc = [r \in Requests |-> "idle"]
    /\ job = [r \in Requests |-> NoJob]

-----------------------------------------------------------------------------
(* Locks.  They follow from where a transaction stands. *)

CommentBatches == {"batch", "batchPin", "batchHardDelete"}
UserBatches == {"usersSoftDelete", "usersHardDelete"}

(* A single hard delete opens its transaction with its first UPDATE; every *)
(* other command is inside from the read that starts it.                   *)
InTx(q) ==
    \/ pc[q] \in {"checkActor", "updateProfile", "lockParent", "insert",
                  "writeBatch", "detachParents", "scanRoots", "detachRoots",
                  "delete", "softDeleteUsers", "scanOwned", "softDeleteOwned"}
    \/ pc[q] = "scanParents" /\ job[q].op # "hardDelete"

(* Faulty variant: writers of the file database do not exclude each other. *)
CanWriteAlways(r) == TRUE

CanWrite(r) == Dialect = "sqlite" => \A q \in Requests \ {r} : ~InTx(q)

(* threads row locked by the upsert or the FOR UPDATE read of a create *)
ThreadFree(r, t) ==
    \A q \in Requests \ {r} :
        ~ (job[q].thread = t /\ pc[q] \in {"checkActor", "updateProfile", "lockParent", "insert"})

(* Faulty variants: the batches, or the creation of a reply, read without FOR UPDATE. *)
RowsLockedByReplies(q) == IF pc[q] = "insert" THEN {job[q].parent} \ {NoComment} ELSE {}
RowsLockedByBatches(q) == IF InTx(q) /\ job[q].op \in CommentBatches THEN job[q].targets ELSE {}

(* comments rows read FOR UPDATE *)
RowsLocked(q) ==
    IF pc[q] = "insert" THEN {job[q].parent} \ {NoComment}
    ELSE IF InTx(q) /\ job[q].op \in CommentBatches THEN job[q].targets
    ELSE {}

(* comments rows with an uncommitted update that leaves the key alone *)
RowsStaged(q) == job[q].cutParents \cup job[q].cutRoots

RowsFree(r, S) ==
    \A q \in Requests \ {r} : S \cap (RowsLocked(q) \cup RowsStaged(q)) = {}

(* FOR KEY SHARE, taken on referenced rows by an insert, only waits for    *)
(* the stronger lock.                                                      *)
RowsSharable(r, S) == \A q \in Requests \ {r} : S \cap RowsLocked(q) = {}

UsersLocked(q) ==
    IF InTx(q) /\ job[q].op \in UserBatches THEN job[q].users ELSE {}

UsersStaged(q) ==
    IF \/ pc[q] \in {"lockParent", "insert"} /\ job[q].op = "create"
       \/ pc[q] \in {"scanOwned", "softDeleteOwned"}
    THEN job[q].users
    ELSE {}

UsersFree(r, S) ==
    \A q \in Requests \ {r} : S \cap (UsersLocked(q) \cup UsersStaged(q)) = {}

UsersSharable(r, S) == \A q \in Requests \ {r} : S \cap UsersLocked(q) = {}

-----------------------------------------------------------------------------
(* Moves of a request *)

Begin(r, step, j) ==
    /\ pc[r] = "idle"
    /\ j.op \in Commands
    /\ pc' = [pc EXCEPT ![r] = step]
    /\ job' = [job EXCEPT ![r] = j]
    /\ UNCHANGED <<rows, nextId, threads, accounts>>

Go(r, from, to) ==
    /\ pc[r] = from
    /\ pc' = [pc EXCEPT ![r] = to]

Done(r) ==
    /\ pc' = [pc EXCEPT ![r] = "idle"]
    /\ job' = [job EXCEPT ![r] = NoJob]

(* An error return, a cancelled context or the choice as deadlock victim:  *)
(* the open transaction, if any, rolls back.                               *)
Fail(r) ==
    /\ pc[r] # "idle"
    /\ Done(r)
    /\ UNCHANGED <<rows, nextId, threads, accounts>>

-----------------------------------------------------------------------------
(* Creating comments *)

(* The checks before the transaction of Create: an open (or new) page, an  *)
(* author who may post, and the initial status the policy and the spam     *)
(* chain settle on.  The parent id p is the client's and not looked at.    *)
BeginCreate(r, u, t, p, s) ==
    /\ threads[t] # "closed"
    /\ accounts[u] # "deleted"
    /\ nextId \in Comments
    /\ Begin(r, "lockThread",
             [NoJob EXCEPT !.op = "create", !.users = {u}, !.thread = t,
                           !.parent = p, !.status = s])

(* CreateReplyFirstParty reads the parent first; the thread is the parent's. *)
BeginReply(r, u, p, s) ==
    /\ p \in DOMAIN rows
    /\ ReplyAllowed(rows[p], rows[p].thread)
    /\ accounts[u] = "active"
    /\ nextId \in Comments
    /\ Begin(r, "lockThread",
             [NoJob EXCEPT !.op = "reply", !.users = {u}, !.thread = rows[p].thread,
                           !.parent = p, !.status = s])

(* Faulty variant: the locked thread is not asked whether it is open. *)
LockAnyThread(r) ==
    /\ Go(r, "lockThread", IF job[r].op = "create" THEN "checkActor" ELSE "lockParent")
    /\ CanWrite(r)
    /\ ThreadFree(r, job[r].thread)
    /\ job[r].op = "reply" => threads[job[r].thread] # "absent"
    /\ UNCHANGED <<rows, nextId, threads, accounts, job>>

(* Upsert and FOR UPDATE read (create), or FOR UPDATE read alone (reply):  *)
(* a closed thread ends the command.  A page seen for the first time gets  *)
(* its row here; it becomes visible with the commit in InsertComment.      *)
LockThread(r) ==
    /\ Go(r, "lockThread", IF job[r].op = "create" THEN "checkActor" ELSE "lockParent")
    /\ CanWrite(r)
    /\ ThreadFree(r, job[r].thread)
    /\ threads[job[r].thread] # "closed"
    /\ job[r].op = "reply" => threads[job[r].thread] = "open"
    /\ UNCHANGED <<rows, nextId, threads, accounts, job>>

(* resolveAndSyncActor reads the author again, without a lock.  An unknown *)
(* one is inserted, and stays invisible to others until InsertComment.     *)
CheckActor(r) ==
    /\ \/ /\ \A u \in job[r].users : accounts[u] = "active"
          /\ Go(r, "checkActor", "updateProfile")
       \/ /\ \A u \in job[r].users : accounts[u] = "absent"
          /\ UsersFree(r, job[r].users)
          /\ Go(r, "checkActor", "lockParent")
    /\ UNCHANGED <<rows, nextId, threads, accounts, job>>

(* Writing the profile waits for whoever holds the user row, and asks only *)
(* that the row still exists.                                              *)
UpdateProfile(r) ==
    /\ Go(r, "updateProfile", "lockParent")
    /\ UsersFree(r, job[r].users)
    /\ \A u \in job[r].users : accounts[u] # "absent"
    /\ UNCHANGED <<rows, nextId, threads, accounts, job>>

(* The locked read of the parent in createComment fixes depth and root. *)
LockParent(r) ==
    LET p == job[r].parent
    IN /\ Go(r, "lockParent", "insert")
       /\ \/ p = NoComment /\ UNCHANGED job
          \/ /\ p \in DOMAIN rows
             /\ RowsFree(r, {p})
             /\ ReplyAllowed(rows[p], job[r].thread)
             /\ job' = [job EXCEPT ![r].depth = rows[p].depth + 1,
                                   ![r].root = ReplyRoot(rows, p)]
       /\ UNCHANGED <<rows, nextId, threads, accounts>>

(* INSERT and commit.  The foreign keys need the referenced rows to exist  *)
(* and wait while someone may be about to delete them.                     *)
InsertComment(r) ==
    LET refs == {job[r].parent, job[r].root} \ {NoComment}
        authors == job[r].users \cup {rows[c].user : c \in {job[r].parent} \cap DOMAIN rows}
    IN /\ pc[r] = "insert"
       /\ nextId \in Comments
       /\ refs \subseteq DOMAIN rows
       /\ RowsSharable(r, refs)
       /\ UsersSharable(r, authors)
       /\ job[r].op = "reply" => \A u \in job[r].users : accounts[u] # "absent"
       /\ \E u \in job[r].users :
            rows' = AddRow(rows, nextId,
                           NewRow(job[r].thread, u, job[r].parent, job[r].root,
                                  job[r].depth, job[r].status))
       /\ nextId' = nextId + 1
       /\ threads' = [threads EXCEPT ![job[r].thread] = "open"]
       /\ accounts' = [u \in Users |->
                          IF u \in job[r].users /\ accounts[u] = "absent" THEN "active" ELSE accounts[u]]
       /\ Done(r)

-----------------------------------------------------------------------------
(* Moderation and pinning of one comment: read, decide, then write by id   *)
(* what was decided, with no transaction around the two.                   *)

BeginTransition(r, c, action) ==
    /\ c \in DOMAIN rows
    /\ Applicable(rows[c].mod, action)
    /\ Begin(r, "updateStatus",
             [NoJob EXCEPT !.op = "transition", !.targets = {c},
                           !.plan = [d \in {c} |-> Transition(rows[c].mod, action)]])

UpdateStatus(r) ==
    /\ pc[r] = "updateStatus"
    /\ CanWrite(r)
    /\ job[r].targets \subseteq DOMAIN rows
    /\ RowsFree(r, job[r].targets)
    /\ rows' = WithModeration(rows, job[r].plan)
    /\ Done(r)
    /\ UNCHANGED <<nextId, threads, accounts>>

BeginPin(r, c, pinned) ==
    /\ c \in DOMAIN rows
    /\ PinTargetOk(rows[c], pinned)
    /\ Begin(r, "setPinned",
             [NoJob EXCEPT !.op = "pin", !.targets = {c}, !.pinned = pinned])

SetPinned(r) ==
    /\ pc[r] = "setPinned"
    /\ CanWrite(r)
    /\ job[r].targets \subseteq DOMAIN rows
    /\ RowsFree(r, job[r].targets)
    /\ rows' = WithPinned(rows, job[r].targets, job[r].pinned)
    /\ Done(r)
    /\ UNCHANGED <<nextId, threads, accounts>>

-----------------------------------------------------------------------------
(* Batch commands of the comment administration: the targets are read FOR  *)
(* UPDATE in one statement, every one of them is judged, and only then the *)
(* changed ones are written.  A refused or missing target ends the batch.  *)

(* Faulty variant: the targets are read without waiting for their locks. *)
ReadTargets(r, S) ==
    /\ S # {} /\ S \subseteq DOMAIN rows
    /\ CanWrite(r)

LockTargets(r, S) ==
    /\ S # {} /\ S \subseteq DOMAIN rows
    /\ CanWrite(r)
    /\ RowsFree(r, S)

BeginBatch(r, S, action) ==
    /\ LockTargets(r, S)
    /\ \A c \in S : BatchAccepts(rows[c].mod, action)
    /\ Begin(r, "writeBatch",
             [NoJob EXCEPT !.op = "batch", !.targets = S,
                 !.plan = [c \in {d \in S : ~BatchUnchanged(rows[d].mod, action)} |->
                              Transition(rows[c].mod, action)]])

BeginBatchPin(r, S, pinned) ==
    /\ LockTargets(r, S)
    /\ \A c \in S : PinTargetOk(rows[c], pinned)
    /\ Begin(r, "writeBatch",
             [NoJob EXCEPT !.op = "batchPin", !.targets = S, !.pinned = pinned])

WriteBatch(r) ==
    /\ pc[r] = "writeBatch"
    /\ rows' = IF job[r].op = "batchPin"
               THEN WithPinned(rows, job[r].targets, job[r].pinned)
               ELSE WithModeration(rows, job[r].plan)
    /\ Done(r)
    /\ UNCHANGED <<nextId, threads, accounts>>

-----------------------------------------------------------------------------
(* Hard deletes.  Two UPDATEs take the surviving replies off the rows to   *)
(* be deleted, a DELETE follows.  An UPDATE matches rows as of its start   *)
(* (Scan...) and then waits for each, skipping what no longer matches      *)
(* (Detach...).                                                            *)

BeginHardDelete(r, c) ==
    /\ c \in DOMAIN rows
    /\ Begin(r, "scanParents", [NoJob EXCEPT !.op = "hardDelete", !.targets = {c}])

BeginBatchHardDelete(r, S) ==
    /\ LockTargets(r, S)
    /\ Begin(r, "scanParents", [NoJob EXCEPT !.op = "batchHardDelete", !.targets = S])

(* runAdminMutation: one user deletion at a time in the process. *)
MutationFree == \A q \in Requests : job[q].op \notin UserDeletes

BeginUserHardDelete(r, U, op) ==
    /\ MutationFree
    /\ CanWrite(r)
    /\ \A u \in U : accounts[u] # "absent"
    /\ op \in UserBatches => UsersFree(r, U)
    /\ Begin(r, "scanParents", [NoJob EXCEPT !.op = op, !.users = U])

(* The comments that go: the named ones, or all of the users' own. *)
Selected(r) ==
    IF job[r].op \in UserHardDeletes
    THEN {c \in DOMAIN rows : rows[c].user \in job[r].users}
    ELSE job[r].targets

(* Deleting users leaves their replies among themselves attached. *)
Kept(r) == {c \in DOMAIN rows : job[r].op \in UserHardDeletes => rows[c].user \notin job[r].users}

ParentRefs(r) == Kept(r) \cap ParentIn(rows, Selected(r))
RootRefs(r) == Kept(r) \cap RootIn(rows, Selected(r))

ScanParents(r) ==
    /\ Go(r, "scanParents", "detachParents")
    /\ CanWrite(r)
    /\ job' = [job EXCEPT ![r].scan = ParentRefs(r)]
    /\ UNCHANGED <<rows, nextId, threads, accounts>>

DetachParents(r) ==
    /\ Go(r, "detachParents", "scanRoots")
    /\ RowsFree(r, job[r].scan)
    /\ job' = [job EXCEPT ![r].cutParents = job[r].scan \cap ParentRefs(r), ![r].scan = {}]
    /\ UNCHANGED <<rows, nextId, threads, accounts>>

ScanRoots(r) ==
    /\ Go(r, "scanRoots", "detachRoots")
    /\ job' = [job EXCEPT ![r].scan = RootRefs(r)]
    /\ UNCHANGED <<rows, nextId, threads, accounts>>

DetachRoots(r) ==
    /\ Go(r, "detachRoots", "delete")
    /\ RowsFree(r, job[r].scan)
    /\ job' = [job EXCEPT ![r].cutRoots = job[r].scan \cap RootRefs(r), ![r].scan = {}]
    /\ UNCHANGED <<rows, nextId, threads, accounts>>

(* DELETE and commit.  The foreign keys delete with the selected rows what *)
(* still references them; deleting no row at all is an error.              *)
Delete(r) ==
    LET staged == Detach(rows, job[r].cutParents, job[r].cutRoots)
        doomed == Cascade(staged, Selected(r))
    IN /\ pc[r] = "delete"
       /\ job[r].targets \subseteq DOMAIN rows
       /\ \A u \in job[r].users : accounts[u] # "absent"
       /\ RowsFree(r, doomed)
       /\ UsersFree(r, job[r].users)
       /\ rows' = DropRows(staged, doomed)
       /\ accounts' = [u \in Users |-> IF u \in job[r].users THEN "absent" ELSE accounts[u]]
       /\ Done(r)
       /\ UNCHANGED <<nextId, threads>>

-----------------------------------------------------------------------------
(* Soft deletion of users: the account first, then one UPDATE over all of  *)
(* its comments that are not deleted yet.                                  *)

BeginUserSoftDelete(r, U, op) ==
    /\ MutationFree
    /\ CanWrite(r)
    /\ \A u \in U : accounts[u] = "active"
    /\ op \in UserBatches => UsersFree(r, U)
    /\ Begin(r, "softDeleteUsers", [NoJob EXCEPT !.op = op, !.users = U])

SoftDeleteUsers(r) ==
    /\ Go(r, "softDeleteUsers", "scanOwned")
    /\ UsersFree(r, job[r].users)
    /\ UNCHANGED <<rows, nextId, threads, accounts, job>>

(* Faulty variant: only what is public is deleted with its author. *)
OwnedPublished(r) == {c \in DOMAIN rows : rows[c].user \in job[r].users /\ rows[c].mod.status = "published"}

Owned(r) == {c \in DOMAIN rows : rows[c].user \in job[r].users /\ rows[c].mod.status # "deleted"}

ScanOwned(r) ==
    /\ Go(r, "scanOwned", "softDeleteOwned")
    /\ job' = [job EXCEPT ![r].scan = Owned(r)]
    /\ UNCHANGED <<rows, nextId, threads, accounts>>

SoftDeleteOwned(r) ==
    /\ pc[r] = "softDeleteOwned"
    /\ RowsFree(r, job[r].scan)
    /\ rows' = WithModeration(rows, [c \in job[r].scan \cap Owned(r) |->
                                       SoftDeleted(rows[c].mod)])
    /\ accounts' = [u \in Users |-> IF u \in job[r].users THEN "deleted" ELSE accounts[u]]
    /\ Done(r)
    /\ UNCHANGED <<nextId, threads>>

-----------------------------------------------------------------------------
(* Commands of a single statement, or of one locked read and one write:    *)
(* nothing can come in between, so each is one action.                     *)

Immediate(r, command) ==
    /\ pc[r] = "idle"
    /\ command \in Commands
    /\ CanWrite(r)
    /\ UNCHANGED <<nextId, pc, job>>

(* Restoring an account leaves its comments as they are. *)
RestoreUser(r, u) ==
    /\ Immediate(r, "restoreUser")
    /\ accounts[u] = "deleted"
    /\ UsersFree(r, {u})
    /\ accounts' = [accounts EXCEPT ![u] = "active"]
    /\ UNCHANGED <<rows, threads>>

(* AdminUpdateThread and the enable and disable batches. *)
SetThreads(r, S, state) ==
    /\ Immediate(r, "threads")
    /\ \A t \in S : threads[t] # "absent" /\ ThreadFree(r, t)
    /\ threads' = [t \in Threads |-> IF t \in S THEN state ELSE threads[t]]
    /\ UNCHANGED <<rows, accounts>>

(* A thread takes all of its comments with it. *)
DeleteThreads(r, S) ==
    LET doomed == Cascade(rows, {c \in DOMAIN rows : rows[c].thread \in S})
    IN /\ Immediate(r, "deleteThreads")
       /\ \A t \in S : threads[t] # "absent" /\ ThreadFree(r, t)
       /\ RowsFree(r, doomed)
       /\ rows' = DropRows(rows, doomed)
       /\ threads' = [t \in Threads |-> IF t \in S THEN "absent" ELSE threads[t]]
       /\ UNCHANGED accounts

-----------------------------------------------------------------------------

CreateNext(r) ==
    \/ \E u \in Users, s \in InitialStatuses :
        \/ \E t \in Threads, p \in DOMAIN rows \cup {NoComment} : BeginCreate(r, u, t, p, s)
        \/ \E p \in DOMAIN rows : BeginReply(r, u, p, s)
    \/ LockThread(r)
    \/ CheckActor(r)
    \/ UpdateProfile(r)
    \/ LockParent(r)
    \/ InsertComment(r)

ModerationNext(r) ==
    \/ \E c \in DOMAIN rows, action \in AdminActions : BeginTransition(r, c, action)
    \/ \E c \in DOMAIN rows, pinned \in BOOLEAN : BeginPin(r, c, pinned)
    \/ \E S \in SUBSET DOMAIN rows, action \in AdminActions : BeginBatch(r, S, action)
    \/ \E S \in SUBSET DOMAIN rows, pinned \in BOOLEAN : BeginBatchPin(r, S, pinned)
    \/ UpdateStatus(r)
    \/ SetPinned(r)
    \/ WriteBatch(r)

HardDeleteNext(r) ==
    \/ \E c \in DOMAIN rows : BeginHardDelete(r, c)
    \/ \E S \in SUBSET DOMAIN rows : BeginBatchHardDelete(r, S)
    \/ \E u \in Users : BeginUserHardDelete(r, {u}, "userHardDelete")
    \/ \E U \in SUBSET Users \ {{}} : BeginUserHardDelete(r, U, "usersHardDelete")
    \/ ScanParents(r)
    \/ DetachParents(r)
    \/ ScanRoots(r)
    \/ DetachRoots(r)
    \/ Delete(r)

AccountNext(r) ==
    \/ \E u \in Users : BeginUserSoftDelete(r, {u}, "userSoftDelete")
    \/ \E U \in SUBSET Users \ {{}} : BeginUserSoftDelete(r, U, "usersSoftDelete")
    \/ SoftDeleteUsers(r)
    \/ ScanOwned(r)
    \/ SoftDeleteOwned(r)
    \/ \E u \in Users : RestoreUser(r, u)

ThreadNext(r) ==
    \E S \in SUBSET Threads \ {{}} :
        \/ \E state \in {"open", "closed"} : SetThreads(r, S, state)
        \/ DeleteThreads(r, S)

Next == \E r \in Requests :
    \/ CreateNext(r)
    \/ ModerationNext(r)
    \/ HardDeleteNext(r)
    \/ AccountNext(r)
    \/ ThreadNext(r)
    \/ Fail(r)

Spec == Init /\ [][Next]_vars

-----------------------------------------------------------------------------
(* Properties *)

(* Type invariant: tables, step counters and jobs hold what the code can put there. *)
TypeOK ==
    /\ DOMAIN rows \subseteq Comments /\ rows \in [DOMAIN rows -> Row]
    /\ nextId \in 1..(MaxComments + 1)
    /\ threads \in [Threads -> {"absent", "open", "closed"}]
    /\ accounts \in [Users -> {"absent", "active", "deleted"}]
    /\ pc \in [Requests -> Steps]
    /\ job \in [Requests -> Job]

(* The four moderation columns of every comment agree, although            *)
(* UpdateStatus writes all of them by id from values some request read     *)
(* earlier, while others did the same.                                     *)
ModerationConsistent == \A c \in DOMAIN rows : Consistent(rows[c].mod)

(* The reply tree is intact.  Creation reads the parent, deletion clears   *)
(* references, and both take several statements between which others run.  *)
TreeIntact == \A c \in DOMAIN rows : WellPlaced(rows, c)

(* Whoever is soft-deleted has no live comment left, and gets none from a  *)
(* request that checked the account before.  (Where create runs against    *)
(* the soft deletion with row locks only, it may: see README.)             *)
DeletedAuthorsSilent ==
    \A c \in DOMAIN rows :
        accounts[rows[c].user] = "deleted" => rows[c].mod.status = "deleted"

(* A comment enters an open thread, and a reply goes below a parent that   *)
(* is published at the moment of the commit, whatever administrators did   *)
(* since the request was first checked.                                    *)
EntersOpenThread ==
    [][\A c \in DOMAIN rows' \ DOMAIN rows : threads[rows'[c].thread] # "closed"]_vars

RepliesToPublished ==
    [][\A c \in DOMAIN rows' \ DOMAIN rows :
        rows'[c].parent # NoComment =>
            /\ rows'[c].parent \in DOMAIN rows
            /\ rows[rows'[c].parent].mod.status = "published"]_vars

(* A comment disappears only if it was named, or its author or its thread  *)
(* was deleted: replies survive the hard delete of what they reply to.     *)
DeletesOnlySelected ==
    [][\A c \in DOMAIN rows \ DOMAIN rows' :
        \/ threads'[rows[c].thread] = "absent"
        \/ \E r \in Requests : pc[r] = "delete" /\ c \in Selected(r)]_vars

(* Soft deletion remembers the status the comment had when it was deleted. *)
DeletionRemembersStatus ==
    [][\A c \in DOMAIN rows \cap DOMAIN rows' :
        rows[c].mod.status # "deleted" /\ rows'[c].mod.status = "deleted" =>
            rows'[c].mod.before = rows[c].mod.status]_vars

(* To everyone else each command of this instance is a single step: the    *)
(* statements of concurrent commands never show through, and a deletion    *)
(* takes exactly what it was asked to.                                     *)
wanted == [r \in Requests |-> IF job[r].op \in {"hardDelete", "batchHardDelete"}
                             THEN job[r].targets ELSE {}]

Board == INSTANCE CommentBoard
ImplementsBoard == Board!Spec

(* A comment that becomes pinned is published at that moment. *)
PinsPublished ==
    [][\A c \in DOMAIN rows \cap DOMAIN rows' :
        ~rows[c].pinned /\ rows'[c].pinned => rows[c].mod.status = "published"]_vars
=============================================================================
