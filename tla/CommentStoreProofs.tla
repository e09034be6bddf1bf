------------------------- MODULE CommentStoreProofs -------------------------
(***************************************************************************)
(* Theorems about CommentStore for every number of comments, users,        *)
(* threads and requests, and, where a theorem does not say otherwise, both *)
(* dialects and any set of commands.                                       *)
(*                                                                         *)
(* Inv types the tables and the jobs.  LocksInv says what each request     *)
(* holds and may rely on, and carries the reply tree.  OneWriter is what   *)
(* the file database adds.  AllSteady says what a deletion in flight knows *)
(* of the rows that refer to its targets.  Together they show that the     *)
(* store implements the board.                                             *)
(***************************************************************************)
EXTENDS CommentStore, TLAPS

-----------------------------------------------------------------------------
(* What the rules return. *)

LEMMA InitialType ==
    ASSUME NEW s \in LiveStatus
    PROVE  Initial(s) \in Moderation
  BY DEF Initial, Moderation, Status

LEMMA SoftDeletedType ==
    ASSUME NEW m \in Moderation, m.status # "deleted"
    PROVE  SoftDeleted(m) \in Moderation
  BY DEF SoftDeleted, Moderation, Status, LiveStatus

LEMMA TransitionType ==
    ASSUME NEW m \in Moderation, NEW a \in AdminActions, Applicable(m, a)
    PROVE  Transition(m, a) \in Moderation
  <1>1. CASE a = "softDelete"
    <2>1. m.status # "deleted"
      BY <1>1 DEF Applicable, CanTransition, TargetStatus, LiveStatus
    <2>2. QED
      BY <1>1, <2>1, SoftDeletedType DEF Transition
  <1>2. CASE a = "restore"
    <2>1. m.before \in LiveStatus
      BY <1>2 DEF Applicable, Moderation
    <2>2. QED
      BY <1>2, <2>1, InitialType DEF Transition, Restored
  <1>3. CASE a = "spam"
    BY <1>3 DEF Transition, SpamOf, Initial, Moderation, Status, LiveStatus
  <1>4. CASE a \in {"publish", "pending"}
    <2>1. TargetStatus[a] \in LiveStatus
      BY <1>4 DEF TargetStatus, LiveStatus
    <2>2. QED
      BY <1>4, <2>1, InitialType DEF Transition
  <1>5. QED
    BY <1>1, <1>2, <1>3, <1>4 DEF AdminActions

LEMMA NewRowType ==
    ASSUME NEW t \in Threads, NEW u \in Users, NEW p \in Comments \cup {NoComment},
           NEW g \in Comments \cup {NoComment}, NEW d \in Nat, NEW s \in LiveStatus
    PROVE  NewRow(t, u, p, g, d, s) \in Row
  BY InitialType DEF NewRow, Row

(* A plan is a function from some comments to moderation columns. *)
LEMMA PlanIntro ==
    ASSUME NEW S \in SUBSET Comments, NEW f \in [S -> Moderation]
    PROVE  f \in Plan
  BY DEF Plan

LEMMA PlanElim ==
    ASSUME NEW f \in Plan
    PROVE  /\ DOMAIN f \subseteq Comments
           /\ \A c \in DOMAIN f : f[c] \in Moderation
  BY DEF Plan

LEMMA NoJobType == NoJob \in Job
  <1>1. NoPlan \in Plan
    <2>1. NoPlan \in [{} -> Moderation]
      BY DEF NoPlan
    <2>2. QED
      BY <2>1, PlanIntro
  <1>2. QED
    BY <1>1 DEF NoJob, Job, LiveStatus, NoComment
-----------------------------------------------------------------------------
(* Type correctness.  The tables and the requests are typed separately. *)

TablesOK ==
    /\ DOMAIN rows \subseteq Comments /\ rows \in [DOMAIN rows -> Row]
    /\ nextId \in 1..(MaxComments + 1)
    /\ threads \in [Threads -> {"absent", "open", "closed"}]
    /\ accounts \in [Users -> {"absent", "active", "deleted"}]

RequestsOK == pc \in [Requests -> Steps] /\ job \in [Requests -> Job]

LEMMA TypeOKParts ==
    /\ TypeOK <=> TablesOK /\ RequestsOK
    /\ TypeOK' <=> TablesOK' /\ RequestsOK'
  BY DEF TypeOK, TablesOK, RequestsOK

LEMMA InitType == Init => TypeOK
  <1> SUFFICES ASSUME Init PROVE TypeOK
    OBVIOUS
  <1>1. TablesOK
    BY RulesAssumption DEF Init, TablesOK
  <1>2. RequestsOK
    BY NoJobType DEF Init, RequestsOK, Steps
  <1>3. QED
    BY <1>1, <1>2, TypeOKParts

LEMMA BeginType ==
    ASSUME TypeOK, NEW r \in Requests, NEW step \in Steps, NEW j \in Job, Begin(r, step, j)
    PROVE  TypeOK'
  BY DEF TypeOK, Begin

LEMMA DoneType ==
    ASSUME RequestsOK, NEW r \in Requests, Done(r)
    PROVE  RequestsOK'
  BY NoJobType DEF RequestsOK, Done, Steps

LEMMA GoStepType ==
    ASSUME TypeOK, NEW r \in Requests, NEW from, NEW to \in Steps, Go(r, from, to),
           UNCHANGED <<rows, nextId, threads, accounts, job>>
    PROVE  TypeOK'
  BY DEF TypeOK, Go

LEMMA GoType ==
    ASSUME RequestsOK, NEW r \in Requests, NEW from, NEW to \in Steps, NEW j \in Job, Go(r, from, to),
           job' = [job EXCEPT ![r] = j]
    PROVE  RequestsOK'
  BY DEF RequestsOK, Go

LEMMA GoSameJob ==
    ASSUME RequestsOK, NEW r \in Requests, NEW from, NEW to \in Steps, Go(r, from, to), UNCHANGED job
    PROVE  RequestsOK'
  BY DEF RequestsOK, Go

LEMMA SameTables ==
    ASSUME TablesOK, UNCHANGED <<rows, nextId, threads, accounts>>
    PROVE  TablesOK'
  BY DEF TablesOK

LEMMA WithModerationType ==
    ASSUME TablesOK, NEW plan, \A c \in DOMAIN rows \cap DOMAIN plan : plan[c] \in Moderation
    PROVE  WithModeration(rows, plan) \in [DOMAIN rows -> Row]
  <1>1. \A c \in DOMAIN rows : rows[c] \in Row
    BY DEF TablesOK
  <1>2. QED
    BY <1>1 DEF WithModeration, Row

LEMMA WithPinnedType ==
    ASSUME TablesOK, NEW S, NEW pinned \in BOOLEAN
    PROVE  WithPinned(rows, S, pinned) \in [DOMAIN rows -> Row]
  <1>1. \A c \in DOMAIN rows : rows[c] \in Row
    BY DEF TablesOK
  <1>2. QED
    BY <1>1 DEF WithPinned, Row

LEMMA DetachType ==
    ASSUME TablesOK, NEW ps, NEW rs
    PROVE  Detach(rows, ps, rs) \in [DOMAIN rows -> Row]
  <1>1. \A c \in DOMAIN rows : rows[c] \in Row
    BY DEF TablesOK
  <1>2. QED
    BY <1>1 DEF Detach, Row

LEMMA DropRowsType ==
    ASSUME NEW f, NEW gone, f \in [DOMAIN f -> Row], DOMAIN f \subseteq Comments
    PROVE  /\ DropRows(f, gone) \in [DOMAIN DropRows(f, gone) -> Row]
           /\ DOMAIN DropRows(f, gone) \subseteq Comments
  BY DEF DropRows
(* One lemma per action. *)

LEMMA BeginCreateType ==
    ASSUME TypeOK, NEW r \in Requests, NEW u \in Users, NEW t \in Threads,
           NEW p \in DOMAIN rows \cup {NoComment}, NEW s \in InitialStatuses,
           BeginCreate(r, u, t, p, s)
    PROVE  TypeOK'
  <1> DEFINE j == [NoJob EXCEPT !.op = "create", !.users = {u}, !.thread = t,
                                !.parent = p, !.status = s]
  <1>1. p \in Comments \cup {NoComment} /\ s \in LiveStatus
    BY StoreAssumption DEF TypeOK
  <1>2. Begin(r, "lockThread", j)
    BY DEF BeginCreate
  <1>3. j.op \in Commands
    BY <1>2 DEF Begin
  <1>4. j \in Job
    BY <1>1, <1>3, NoJobType DEF Job, NoJob
  <1> HIDE DEF j
  <1>5. QED
    BY <1>2, <1>4, BeginType DEF Steps

LEMMA BeginReplyType ==
    ASSUME TypeOK, NEW r \in Requests, NEW u \in Users,
           NEW p \in DOMAIN rows, NEW s \in InitialStatuses,
           BeginReply(r, u, p, s)
    PROVE  TypeOK'
  <1> DEFINE j == [NoJob EXCEPT !.op = "reply", !.users = {u}, !.thread = rows[p].thread,
                                !.parent = p, !.status = s]
  <1>1. p \in Comments /\ s \in LiveStatus /\ rows[p].thread \in Threads
    BY StoreAssumption DEF TypeOK, Row
  <1>2. Begin(r, "lockThread", j)
    BY DEF BeginReply
  <1>3. j.op \in Commands
    BY <1>2 DEF Begin
  <1>4. j \in Job
    BY <1>1, <1>3, NoJobType DEF Job, NoJob
  <1> HIDE DEF j
  <1>5. QED
    BY <1>2, <1>4, BeginType DEF Steps

LEMMA LockThreadType ==
    ASSUME TypeOK, NEW r \in Requests, LockThread(r)
    PROVE  TypeOK'
  <1>1. PICK to \in {"checkActor", "lockParent"} : Go(r, "lockThread", to)
    BY DEF LockThread
  <1>2. QED
    BY <1>1, GoStepType DEF LockThread, Steps

LEMMA CheckActorType ==
    ASSUME TypeOK, NEW r \in Requests, CheckActor(r)
    PROVE  TypeOK'
  BY GoStepType DEF CheckActor, Steps

LEMMA UpdateProfileType ==
    ASSUME TypeOK, NEW r \in Requests, UpdateProfile(r)
    PROVE  TypeOK'
  BY GoStepType DEF UpdateProfile, Steps

LEMMA SoftDeleteUsersType ==
    ASSUME TypeOK, NEW r \in Requests, SoftDeleteUsers(r)
    PROVE  TypeOK'
  BY GoStepType DEF SoftDeleteUsers, Steps

LEMMA LockParentType ==
    ASSUME TypeOK, NEW r \in Requests, LockParent(r)
    PROVE  TypeOK'
  <1>1. TablesOK /\ RequestsOK
    BY TypeOKParts
  <1>2. TablesOK'
    BY <1>1, SameTables DEF LockParent
  <1>3. CASE UNCHANGED job
    <2>1. Go(r, "lockParent", "insert")
      BY DEF LockParent
    <2>2. RequestsOK'
      BY <1>1, <1>3, <2>1, GoSameJob DEF Steps
    <2>3. QED
      BY <1>2, <2>2, TypeOKParts
  <1>4. CASE ~UNCHANGED job
    <2> DEFINE p == job[r].parent
               j == [job[r] EXCEPT !.depth = rows[p].depth + 1, !.root = ReplyRoot(rows, p)]
    <2>1. /\ p \in DOMAIN rows
          /\ Go(r, "lockParent", "insert")
          /\ job' = [job EXCEPT ![r] = j]
      BY <1>4 DEF LockParent
    <2>2. job[r] \in Job /\ rows[p] \in Row /\ p \in Comments
      BY <1>1, <2>1 DEF TablesOK, RequestsOK
    <2>3. rows[p].depth + 1 \in Nat /\ ReplyRoot(rows, p) \in Comments \cup {NoComment}
      BY <2>2 DEF Row, ReplyRoot
    <2> HIDE DEF p
    <2>4. j \in Job
      BY <2>2, <2>3 DEF Job
    <2> HIDE DEF j
    <2>5. RequestsOK'
      BY <1>1, <2>1, <2>4, GoType DEF Steps
    <2>6. QED
      BY <1>2, <2>5, TypeOKParts
  <1>5. QED
    BY <1>3, <1>4

(* The commands that create a comment know its thread from the start. *)
CreateSteps == {"lockThread", "checkActor", "updateProfile", "lockParent", "insert"}
ThreadKnown == \A q \in Requests : pc[q] \in CreateSteps => job[q].thread \in Threads

LEMMA InsertCommentType ==
    ASSUME TypeOK, ThreadKnown, NEW r \in Requests, InsertComment(r)
    PROVE  TypeOK'
  <1>1. TablesOK /\ RequestsOK /\ job[r] \in Job
    BY TypeOKParts DEF RequestsOK
  <1>2. RequestsOK'
    BY <1>1, DoneType DEF InsertComment
  <1>3. PICK u \in job[r].users :
          rows' = AddRow(rows, nextId, NewRow(job[r].thread, u, job[r].parent, job[r].root,
                                              job[r].depth, job[r].status))
    BY DEF InsertComment
  <1>4. job[r].thread \in Threads
    BY DEF ThreadKnown, CreateSteps, InsertComment
  <1> DEFINE new == NewRow(job[r].thread, u, job[r].parent, job[r].root, job[r].depth, job[r].status)
  <1>5. new \in Row
    <2>1. /\ u \in Users /\ job[r].parent \in Comments \cup {NoComment}
          /\ job[r].root \in Comments \cup {NoComment}
          /\ job[r].depth \in Nat /\ job[r].status \in LiveStatus
      BY <1>1 DEF Job
    <2>2. QED
      BY <1>4, <2>1, NewRowType
  <1>6. nextId \in Comments /\ nextId' = nextId + 1
    BY DEF InsertComment
  <1>7. rows' = AddRow(rows, nextId, new)
    BY <1>3
  <1> HIDE DEF new
  <1>8. DOMAIN rows' \subseteq Comments /\ rows' \in [DOMAIN rows' -> Row]
    BY <1>1, <1>5, <1>6, <1>7 DEF AddRow, TablesOK
  <1>9. nextId' \in 1..(MaxComments + 1)
    BY <1>6, RulesAssumption DEF Comments
  <1>10. threads' \in [Threads -> {"absent", "open", "closed"}]
    BY <1>1 DEF TablesOK, InsertComment
  <1>11. accounts' \in [Users -> {"absent", "active", "deleted"}]
    BY <1>1 DEF TablesOK, InsertComment
  <1>12. QED
    BY <1>2, <1>8, <1>9, <1>10, <1>11, TypeOKParts DEF TablesOK

LEMMA BeginTransitionType ==
    ASSUME TypeOK, NEW r \in Requests, NEW c \in DOMAIN rows, NEW a \in AdminActions,
           BeginTransition(r, c, a)
    PROVE  TypeOK'
  <1> DEFINE plan == [d \in {c} |-> Transition(rows[c].mod, a)]
             j == [NoJob EXCEPT !.op = "transition", !.targets = {c}, !.plan = plan]
  <1>1. c \in Comments /\ rows[c].mod \in Moderation
    BY DEF TypeOK, Row
  <1>2. Transition(rows[c].mod, a) \in Moderation
    BY <1>1, TransitionType DEF BeginTransition
  <1>3. plan \in Plan
    BY <1>1, <1>2, PlanIntro
  <1>4. Begin(r, "updateStatus", j)
    BY DEF BeginTransition
  <1> HIDE DEF plan
  <1>5. j \in Job
    BY <1>1, <1>3, <1>4, NoJobType DEF Job, NoJob, Begin
  <1> HIDE DEF j
  <1>6. QED
    BY <1>4, <1>5, BeginType DEF Steps

LEMMA BeginBatchType ==
    ASSUME TypeOK, NEW r \in Requests, NEW S \in SUBSET DOMAIN rows, NEW a \in AdminActions,
           BeginBatch(r, S, a)
    PROVE  TypeOK'
  <1> DEFINE D == {d \in S : ~BatchUnchanged(rows[d].mod, a)}
             plan == [c \in D |-> Transition(rows[c].mod, a)]
             j == [NoJob EXCEPT !.op = "batch", !.targets = S, !.plan = plan]
  <1>1. S \subseteq Comments /\ \A c \in S : rows[c].mod \in Moderation
    BY DEF TypeOK, Row
  <1>2. \A c \in D : Transition(rows[c].mod, a) \in Moderation
    <2>1. \A c \in D : rows[c].mod \in Moderation /\ Applicable(rows[c].mod, a)
      BY <1>1 DEF BeginBatch, BatchAccepts
    <2>2. QED
      BY <2>1, TransitionType
  <1>3. Begin(r, "writeBatch", j)
    BY DEF BeginBatch
  <1>4. D \in SUBSET Comments
    BY <1>1
  <1> HIDE DEF D
  <1>5. plan \in Plan
    BY <1>2, <1>4, PlanIntro
  <1> HIDE DEF plan
  <1>6. j \in Job
    BY <1>1, <1>3, <1>5, NoJobType DEF Job, NoJob, Begin
  <1> HIDE DEF j
  <1>7. QED
    BY <1>3, <1>6, BeginType DEF Steps

LEMMA BeginPinType ==
    ASSUME TypeOK, NEW r \in Requests, NEW c \in DOMAIN rows, NEW pinned \in BOOLEAN,
           BeginPin(r, c, pinned)
    PROVE  TypeOK'
  <1> DEFINE j == [NoJob EXCEPT !.op = "pin", !.targets = {c}, !.pinned = pinned]
  <1>1. Begin(r, "setPinned", j)
    BY DEF BeginPin
  <1>2. j \in Job
    BY <1>1, NoJobType DEF Job, NoJob, Begin, TypeOK
  <1> HIDE DEF j
  <1>3. QED
    BY <1>1, <1>2, BeginType DEF Steps

LEMMA BeginBatchPinType ==
    ASSUME TypeOK, NEW r \in Requests, NEW S \in SUBSET DOMAIN rows, NEW pinned \in BOOLEAN,
           BeginBatchPin(r, S, pinned)
    PROVE  TypeOK'
  <1> DEFINE j == [NoJob EXCEPT !.op = "batchPin", !.targets = S, !.pinned = pinned]
  <1>1. Begin(r, "writeBatch", j)
    BY DEF BeginBatchPin
  <1>2. j \in Job
    BY <1>1, NoJobType DEF Job, NoJob, Begin, TypeOK
  <1> HIDE DEF j
  <1>3. QED
    BY <1>1, <1>2, BeginType DEF Steps

LEMMA BeginHardDeleteType ==
    ASSUME TypeOK, NEW r \in Requests, NEW c \in DOMAIN rows,
           BeginHardDelete(r, c)
    PROVE  TypeOK'
  <1> DEFINE j == [NoJob EXCEPT !.op = "hardDelete", !.targets = {c}]
  <1>1. Begin(r, "scanParents", j)
    BY DEF BeginHardDelete
  <1>2. j \in Job
    BY <1>1, NoJobType DEF Job, NoJob, Begin, TypeOK
  <1> HIDE DEF j
  <1>3. QED
    BY <1>1, <1>2, BeginType DEF Steps

LEMMA BeginBatchHardDeleteType ==
    ASSUME TypeOK, NEW r \in Requests, NEW S \in SUBSET DOMAIN rows,
           BeginBatchHardDelete(r, S)
    PROVE  TypeOK'
  <1> DEFINE j == [NoJob EXCEPT !.op = "batchHardDelete", !.targets = S]
  <1>1. Begin(r, "scanParents", j)
    BY DEF BeginBatchHardDelete
  <1>2. j \in Job
    BY <1>1, NoJobType DEF Job, NoJob, Begin, TypeOK
  <1> HIDE DEF j
  <1>3. QED
    BY <1>1, <1>2, BeginType DEF Steps

LEMMA BeginUserHardDeleteType ==
    ASSUME TypeOK, NEW r \in Requests, NEW U \in SUBSET Users, NEW op,
           BeginUserHardDelete(r, U, op)
    PROVE  TypeOK'
  <1> DEFINE j == [NoJob EXCEPT !.op = op, !.users = U]
  <1>1. Begin(r, "scanParents", j)
    BY DEF BeginUserHardDelete
  <1>2. j \in Job
    BY <1>1, NoJobType DEF Job, NoJob, Begin, TypeOK
  <1> HIDE DEF j
  <1>3. QED
    BY <1>1, <1>2, BeginType DEF Steps

LEMMA BeginUserSoftDeleteType ==
    ASSUME TypeOK, NEW r \in Requests, NEW U \in SUBSET Users, NEW op,
           BeginUserSoftDelete(r, U, op)
    PROVE  TypeOK'
  <1> DEFINE j == [NoJob EXCEPT !.op = op, !.users = U]
  <1>1. Begin(r, "softDeleteUsers", j)
    BY DEF BeginUserSoftDelete
  <1>2. j \in Job
    BY <1>1, NoJobType DEF Job, NoJob, Begin, TypeOK
  <1> HIDE DEF j
  <1>3. QED
    BY <1>1, <1>2, BeginType DEF Steps

LEMMA UpdateStatusType ==
    ASSUME TypeOK, NEW r \in Requests, UpdateStatus(r) \/ WriteBatch(r)
    PROVE  TypeOK'
  <1>1. TablesOK /\ RequestsOK /\ job[r] \in Job
    BY TypeOKParts DEF RequestsOK
  <1>2. job[r].plan \in Plan /\ job[r].pinned \in BOOLEAN
    BY <1>1 DEF Job
  <1>3. WithModeration(rows, job[r].plan) \in [DOMAIN rows -> Row]
    BY <1>1, <1>2, PlanElim, WithModerationType
  <1>4. WithPinned(rows, job[r].targets, job[r].pinned) \in [DOMAIN rows -> Row]
    BY <1>1, <1>2, WithPinnedType
  <1>5. rows' \in [DOMAIN rows -> Row]
    BY <1>3, <1>4 DEF UpdateStatus, WriteBatch
  <1>6. TablesOK'
    BY <1>1, <1>5 DEF TablesOK, UpdateStatus, WriteBatch
  <1>7. RequestsOK'
    BY <1>1, DoneType DEF UpdateStatus, WriteBatch
  <1>8. QED
    BY <1>6, <1>7, TypeOKParts

LEMMA SetPinnedType ==
    ASSUME TypeOK, NEW r \in Requests, SetPinned(r)
    PROVE  TypeOK'
  <1>1. TablesOK /\ RequestsOK /\ job[r].pinned \in BOOLEAN
    BY TypeOKParts DEF RequestsOK, Job
  <1>2. rows' \in [DOMAIN rows -> Row]
    BY <1>1, WithPinnedType DEF SetPinned
  <1>3. TablesOK'
    BY <1>1, <1>2 DEF TablesOK, SetPinned
  <1>4. RequestsOK'
    BY <1>1, DoneType DEF SetPinned
  <1>5. QED
    BY <1>3, <1>4, TypeOKParts

(* The statements of a deletion that only stage something in the job. *)
LEMMA StagingType ==
    ASSUME TypeOK, NEW r \in Requests, NEW from, NEW to \in Steps, NEW j \in Job,
           Go(r, from, to), UNCHANGED <<rows, nextId, threads, accounts>>,
           job' = [job EXCEPT ![r] = j]
    PROVE  TypeOK'
  BY GoType, SameTables, TypeOKParts

LEMMA ScanParentsType ==
    ASSUME TypeOK, NEW r \in Requests, ScanParents(r)
    PROVE  TypeOK'
  <1> DEFINE j == [job[r] EXCEPT !.scan = ParentRefs(r)]
  <1>1. ParentRefs(r) \in SUBSET Comments
    BY DEF ParentRefs, Kept, TypeOK
  <1>0. job[r] \in Job
    BY DEF TypeOK
  <1>2. j \in Job
    BY <1>0, <1>1 DEF Job
  <1>3. /\ Go(r, "scanParents", "detachParents")
        /\ job' = [job EXCEPT ![r] = j]
        /\ UNCHANGED <<rows, nextId, threads, accounts>>
    BY DEF ScanParents
  <1> HIDE DEF j
  <1>4. QED
    BY <1>2, <1>3, StagingType DEF Steps

LEMMA DetachParentsType ==
    ASSUME TypeOK, NEW r \in Requests, DetachParents(r)
    PROVE  TypeOK'
  <1> DEFINE j == [job[r] EXCEPT !.cutParents = job[r].scan \cap ParentRefs(r), !.scan = {}]
  <1>1. job[r].scan \cap ParentRefs(r) \in SUBSET Comments
    BY DEF ParentRefs, Kept, TypeOK
  <1>0. job[r] \in Job
    BY DEF TypeOK
  <1>2. j \in Job
    BY <1>0, <1>1 DEF Job
  <1>3. /\ Go(r, "detachParents", "scanRoots")
        /\ job' = [job EXCEPT ![r] = j]
        /\ UNCHANGED <<rows, nextId, threads, accounts>>
    BY DEF DetachParents
  <1> HIDE DEF j
  <1>4. QED
    BY <1>2, <1>3, StagingType DEF Steps

LEMMA ScanRootsType ==
    ASSUME TypeOK, NEW r \in Requests, ScanRoots(r)
    PROVE  TypeOK'
  <1> DEFINE j == [job[r] EXCEPT !.scan = RootRefs(r)]
  <1>1. RootRefs(r) \in SUBSET Comments
    BY DEF RootRefs, Kept, TypeOK
  <1>0. job[r] \in Job
    BY DEF TypeOK
  <1>2. j \in Job
    BY <1>0, <1>1 DEF Job
  <1>3. /\ Go(r, "scanRoots", "detachRoots")
        /\ job' = [job EXCEPT ![r] = j]
        /\ UNCHANGED <<rows, nextId, threads, accounts>>
    BY DEF ScanRoots
  <1> HIDE DEF j
  <1>4. QED
    BY <1>2, <1>3, StagingType DEF Steps

LEMMA DetachRootsType ==
    ASSUME TypeOK, NEW r \in Requests, DetachRoots(r)
    PROVE  TypeOK'
  <1> DEFINE j == [job[r] EXCEPT !.cutRoots = job[r].scan \cap RootRefs(r), !.scan = {}]
  <1>1. job[r].scan \cap RootRefs(r) \in SUBSET Comments
    BY DEF RootRefs, Kept, TypeOK
  <1>0. job[r] \in Job
    BY DEF TypeOK
  <1>2. j \in Job
    BY <1>0, <1>1 DEF Job
  <1>3. /\ Go(r, "detachRoots", "delete")
        /\ job' = [job EXCEPT ![r] = j]
        /\ UNCHANGED <<rows, nextId, threads, accounts>>
    BY DEF DetachRoots
  <1> HIDE DEF j
  <1>4. QED
    BY <1>2, <1>3, StagingType DEF Steps

LEMMA ScanOwnedType ==
    ASSUME TypeOK, NEW r \in Requests, ScanOwned(r)
    PROVE  TypeOK'
  <1> DEFINE j == [job[r] EXCEPT !.scan = Owned(r)]
  <1>1. Owned(r) \in SUBSET Comments
    BY DEF Owned, TypeOK
  <1>2. j \in Job
    BY <1>1 DEF TypeOK, Job
  <1>3. /\ Go(r, "scanOwned", "softDeleteOwned")
        /\ job' = [job EXCEPT ![r] = j]
        /\ UNCHANGED <<rows, nextId, threads, accounts>>
    BY DEF ScanOwned
  <1> HIDE DEF j
  <1>4. QED
    BY <1>2, <1>3, StagingType DEF Steps

LEMMA DeleteType ==
    ASSUME TypeOK, NEW r \in Requests, Delete(r)
    PROVE  TypeOK'
  <1> DEFINE staged == Detach(rows, job[r].cutParents, job[r].cutRoots)
             doomed == Cascade(staged, Selected(r))
  <1>1. TablesOK /\ RequestsOK
    BY TypeOKParts
  <1>2. staged \in [DOMAIN rows -> Row]
    BY <1>1, DetachType
  <1>3. rows' = DropRows(staged, doomed)
    BY DEF Delete
  <1>4. accounts' \in [Users -> {"absent", "active", "deleted"}]
    BY <1>1 DEF TablesOK, Delete
  <1> HIDE DEF staged, doomed
  <1>5. staged \in [DOMAIN staged -> Row] /\ DOMAIN staged \subseteq Comments
    BY <1>1, <1>2 DEF TablesOK
  <1>6. rows' \in [DOMAIN rows' -> Row] /\ DOMAIN rows' \subseteq Comments
    BY <1>3, <1>5, DropRowsType
  <1>7. TablesOK'
    BY <1>1, <1>4, <1>6 DEF TablesOK, Delete
  <1>8. RequestsOK'
    BY <1>1, DoneType DEF Delete
  <1>9. QED
    BY <1>7, <1>8, TypeOKParts

LEMMA SoftDeleteOwnedType ==
    ASSUME TypeOK, NEW r \in Requests, SoftDeleteOwned(r)
    PROVE  TypeOK'
  <1> DEFINE plan == [c \in job[r].scan \cap Owned(r) |-> SoftDeleted(rows[c].mod)]
  <1>1. TablesOK /\ RequestsOK
    BY TypeOKParts
  <1>2. \A c \in DOMAIN plan : plan[c] \in Moderation
    BY <1>1, SoftDeletedType DEF TablesOK, Owned, Row
  <1>3. rows' = WithModeration(rows, plan)
    BY DEF SoftDeleteOwned
  <1>4. accounts' \in [Users -> {"absent", "active", "deleted"}]
    BY <1>1 DEF TablesOK, SoftDeleteOwned
  <1> HIDE DEF plan
  <1>5. rows' \in [DOMAIN rows -> Row]
    BY <1>1, <1>2, <1>3, WithModerationType
  <1>6. TablesOK'
    BY <1>1, <1>4, <1>5 DEF TablesOK, SoftDeleteOwned
  <1>7. RequestsOK'
    BY <1>1, DoneType DEF SoftDeleteOwned
  <1>8. QED
    BY <1>6, <1>7, TypeOKParts

LEMMA RestoreUserType ==
    ASSUME TypeOK, NEW r \in Requests, NEW u \in Users, RestoreUser(r, u)
    PROVE  TypeOK'
  BY DEF TypeOK, RestoreUser, Immediate

LEMMA SetThreadsType ==
    ASSUME TypeOK, NEW r \in Requests, NEW S \in SUBSET Threads, NEW state \in {"open", "closed"},
           SetThreads(r, S, state)
    PROVE  TypeOK'
  BY DEF TypeOK, SetThreads, Immediate

LEMMA DeleteThreadsType ==
    ASSUME TypeOK, NEW r \in Requests, NEW S \in SUBSET Threads, DeleteThreads(r, S)
    PROVE  TypeOK'
  <1> DEFINE doomed == Cascade(rows, {c \in DOMAIN rows : rows[c].thread \in S})
  <1>1. rows' = DropRows(rows, doomed)
    BY DEF DeleteThreads
  <1> HIDE DEF doomed
  <1>2. rows' \in [DOMAIN rows' -> Row] /\ DOMAIN rows' \subseteq Comments
    BY <1>1, DropRowsType DEF TypeOK
  <1>3. QED
    BY <1>2 DEF TypeOK, DeleteThreads, Immediate

LEMMA FailType ==
    ASSUME TypeOK, NEW r \in Requests, Fail(r)
    PROVE  TypeOK'
  BY DoneType, SameTables, TypeOKParts DEF Fail

-----------------------------------------------------------------------------
(* What the transition rules preserve. *)

LEMMA InitialConsistent ==
    ASSUME NEW s \in LiveStatus
    PROVE  Consistent(Initial(s))
  BY DEF Consistent, Initial, LiveStatus

LEMMA SoftDeletedConsistent ==
    ASSUME NEW m \in Moderation, Consistent(m), m.status # "deleted"
    PROVE  Consistent(SoftDeleted(m))
  BY DEF Consistent, SoftDeleted, Moderation, Status, LiveStatus

LEMMA SpamConsistent ==
    ASSUME NEW m \in Moderation
    PROVE  Consistent(SpamOf(m))
  BY DEF Consistent, SpamOf, Initial, Moderation

LEMMA TransitionConsistent ==
    ASSUME NEW m \in Moderation, NEW a \in AdminActions, Consistent(m), Applicable(m, a)
    PROVE  Consistent(Transition(m, a))
  <1>1. CASE a = "softDelete"
    <2>1. m.status # "deleted"
      BY <1>1 DEF Applicable, CanTransition, TargetStatus, LiveStatus
    <2>2. QED
      BY <1>1, <2>1, SoftDeletedConsistent DEF Transition
  <1>2. CASE a = "restore"
    <2>1. m.before \in LiveStatus
      BY <1>2 DEF Applicable, Moderation
    <2>2. QED
      BY <1>2, <2>1, InitialConsistent DEF Transition, Restored
  <1>3. CASE a = "spam"
    BY <1>3, SpamConsistent DEF Transition
  <1>4. CASE a \in {"publish", "pending"}
    <2>1. TargetStatus[a] \in LiveStatus
      BY <1>4 DEF TargetStatus, LiveStatus
    <2>2. QED
      BY <1>4, <2>1, InitialConsistent DEF Transition
  <1>5. QED
    BY <1>1, <1>2, <1>3, <1>4 DEF AdminActions

-----------------------------------------------------------------------------
(* The inductive invariant.  UpdateStatus and WriteBatch write what was    *)
(* decided earlier, so every plan in flight must be consistent by itself:  *)
(* the row it was computed from may have changed since.                    *)

PlansConsistent ==
    \A q \in Requests : \A c \in DOMAIN job[q].plan : Consistent(job[q].plan[c])

Inv == TypeOK /\ ThreadKnown /\ PlansConsistent /\ ModerationConsistent

(* The part of Inv about jobs, and what of it a move has to show. *)
JobsSound == ThreadKnown /\ PlansConsistent

LEMMA BeginSound ==
    ASSUME TypeOK, JobsSound, NEW r \in Requests, NEW step, NEW j, Begin(r, step, j),
           step \in CreateSteps => j.thread \in Threads,
           \A c \in DOMAIN j.plan : Consistent(j.plan[c])
    PROVE  JobsSound'
  BY DEF TypeOK, JobsSound, ThreadKnown, PlansConsistent, Begin

LEMMA NoPlanSound == \A c \in DOMAIN NoPlan : Consistent(NoPlan[c])
  BY DEF NoPlan

LEMMA DoneSound ==
    ASSUME TypeOK, JobsSound, NEW r \in Requests, Done(r)
    PROVE  JobsSound'
  <1>1. NoJob.plan = NoPlan
    BY DEF NoJob
  <1> HIDE DEF NoJob
  <1>2. ThreadKnown'
    BY DEF TypeOK, JobsSound, ThreadKnown, Done, CreateSteps
  <1>3. PlansConsistent'
    BY <1>1, NoPlanSound DEF TypeOK, JobsSound, PlansConsistent, Done
  <1>4. QED
    BY <1>2, <1>3 DEF JobsSound

LEMMA GoSound ==
    ASSUME TypeOK, JobsSound, NEW r \in Requests, NEW from, NEW to, NEW j, Go(r, from, to),
           job' = [job EXCEPT ![r] = j],
           j.thread = job[r].thread, j.plan = job[r].plan,
           to \in CreateSteps => from \in CreateSteps
    PROVE  JobsSound'
  BY DEF TypeOK, JobsSound, ThreadKnown, PlansConsistent, Go

LEMMA GoSameSound ==
    ASSUME TypeOK, JobsSound, NEW r \in Requests, NEW from, NEW to, Go(r, from, to), UNCHANGED job,
           to \in CreateSteps => from \in CreateSteps
    PROVE  JobsSound'
  BY DEF TypeOK, JobsSound, ThreadKnown, PlansConsistent, Go

LEMMA SameSound ==
    ASSUME JobsSound, UNCHANGED <<pc, job>>
    PROVE  JobsSound'
  BY DEF JobsSound, ThreadKnown, PlansConsistent

LEMMA SameRows ==
    ASSUME ModerationConsistent, UNCHANGED rows
    PROVE  ModerationConsistent'
  BY DEF ModerationConsistent

LEMMA PlannedRows ==
    ASSUME ModerationConsistent, NEW plan, rows' = WithModeration(rows, plan), TypeOK,
           \A c \in DOMAIN rows \cap DOMAIN plan : Consistent(plan[c])
    PROVE  ModerationConsistent'
  <1> SUFFICES ASSUME NEW c \in DOMAIN rows' PROVE Consistent(rows'[c].mod)
    BY DEF ModerationConsistent
  <1>1. c \in DOMAIN rows /\ rows[c] \in Row
    BY DEF WithModeration, TypeOK
  <1>2. CASE c \in DOMAIN plan
    <2>1. rows'[c].mod = plan[c]
      BY <1>1, <1>2 DEF WithModeration, Row
    <2>2. QED
      BY <1>1, <1>2, <2>1
  <1>3. CASE c \notin DOMAIN plan
    BY <1>1, <1>3 DEF WithModeration, ModerationConsistent
  <1>4. QED
    BY <1>2, <1>3

(* Rows that keep their moderation columns. *)
LEMMA KeptRows ==
    ASSUME ModerationConsistent,
           \A c \in DOMAIN rows' : c \in DOMAIN rows /\ rows'[c].mod = rows[c].mod
    PROVE  ModerationConsistent'
  BY DEF ModerationConsistent

LEMMA WithPinnedKeeps ==
    ASSUME TypeOK, NEW S, NEW pinned
    PROVE  \A c \in DOMAIN WithPinned(rows, S, pinned) :
              c \in DOMAIN rows /\ WithPinned(rows, S, pinned)[c].mod = rows[c].mod
  <1>1. \A c \in DOMAIN rows : rows[c] \in Row
    BY DEF TypeOK
  <1>2. QED
    BY <1>1 DEF WithPinned, Row

LEMMA DetachKeeps ==
    ASSUME TypeOK, NEW ps, NEW rs
    PROVE  /\ DOMAIN Detach(rows, ps, rs) = DOMAIN rows
           /\ \A c \in DOMAIN rows : Detach(rows, ps, rs)[c].mod = rows[c].mod
  <1>1. \A c \in DOMAIN rows : rows[c] \in Row
    BY DEF TypeOK
  <1>2. QED
    BY <1>1 DEF Detach, Row

LEMMA DropRowsKeeps ==
    ASSUME NEW f, NEW gone
    PROVE  \A c \in DOMAIN DropRows(f, gone) : c \in DOMAIN f /\ DropRows(f, gone)[c] = f[c]
  BY DEF DropRows

-----------------------------------------------------------------------------
(* Every action, group by group, preserves the rest of Inv. *)

Keeps == JobsSound' /\ ModerationConsistent'

LEMMA CreateKeeps ==
    ASSUME Inv, NEW r \in Requests, CreateNext(r)
    PROVE  Keeps
  <1>1. TypeOK /\ JobsSound /\ ModerationConsistent
    BY DEF Inv, JobsSound
  <1>2. ASSUME NEW u \in Users, NEW s \in InitialStatuses, NEW t \in Threads,
               NEW p \in DOMAIN rows \cup {NoComment}, BeginCreate(r, u, t, p, s)
        PROVE  Keeps
    <2> DEFINE j == [NoJob EXCEPT !.op = "create", !.users = {u}, !.thread = t,
                                  !.parent = p, !.status = s]
    <2>1. Begin(r, "lockThread", j)
      BY <1>2 DEF BeginCreate
    <2>2. j.thread = t /\ j.plan = NoPlan
      BY DEF NoJob
    <2> HIDE DEF j
    <2>3. JobsSound'
      BY <1>1, <2>1, <2>2, NoPlanSound, BeginSound
    <2>4. QED
      BY <1>1, <2>1, <2>3, SameRows DEF Begin, Keeps
  <1>3. ASSUME NEW u \in Users, NEW s \in InitialStatuses, NEW p \in DOMAIN rows,
               BeginReply(r, u, p, s)
        PROVE  Keeps
    <2> DEFINE j == [NoJob EXCEPT !.op = "reply", !.users = {u}, !.thread = rows[p].thread,
                                  !.parent = p, !.status = s]
    <2>1. Begin(r, "lockThread", j)
      BY <1>3 DEF BeginReply
    <2>2. j.thread \in Threads /\ j.plan = NoPlan
      BY <1>1 DEF NoJob, TypeOK, Row
    <2> HIDE DEF j
    <2>3. JobsSound'
      BY <1>1, <2>1, <2>2, NoPlanSound, BeginSound
    <2>4. QED
      BY <1>1, <2>1, <2>3, SameRows DEF Begin, Keeps
  <1>4. ASSUME LockThread(r) PROVE Keeps
    <2>1. CASE job[r].op = "create"
      <3>1. Go(r, "lockThread", "checkActor") /\ UNCHANGED <<rows, job>>
        BY <1>4, <2>1 DEF LockThread
      <3>2. QED
        BY <1>1, <3>1, GoSameSound, SameRows DEF CreateSteps, Keeps
    <2>2. CASE job[r].op # "create"
      <3>1. Go(r, "lockThread", "lockParent") /\ UNCHANGED <<rows, job>>
        BY <1>4, <2>2 DEF LockThread
      <3>2. QED
        BY <1>1, <3>1, GoSameSound, SameRows DEF CreateSteps, Keeps
    <2>3. QED
      BY <2>1, <2>2
  <1>5. ASSUME CheckActor(r) PROVE Keeps
    <2>1. CASE Go(r, "checkActor", "updateProfile")
      BY <1>1, <1>5, <2>1, GoSameSound, SameRows DEF CreateSteps, Keeps, CheckActor
    <2>2. CASE Go(r, "checkActor", "lockParent")
      BY <1>1, <1>5, <2>2, GoSameSound, SameRows DEF CreateSteps, Keeps, CheckActor
    <2>3. QED
      BY <1>5, <2>1, <2>2 DEF CheckActor
  <1>6. ASSUME UpdateProfile(r) PROVE Keeps
    <2>1. Go(r, "updateProfile", "lockParent") /\ UNCHANGED <<rows, job>>
      BY <1>6 DEF UpdateProfile
    <2>2. QED
      BY <1>1, <2>1, GoSameSound, SameRows DEF CreateSteps, Keeps
  <1>7. ASSUME LockParent(r) PROVE Keeps
    <2> DEFINE p == job[r].parent
               j == [job[r] EXCEPT !.depth = rows[p].depth + 1, !.root = ReplyRoot(rows, p)]
    <2>1. Go(r, "lockParent", "insert") /\ UNCHANGED rows
      BY <1>7 DEF LockParent
    <2>2. UNCHANGED job \/ job' = [job EXCEPT ![r] = j]
      BY <1>7 DEF LockParent
    <2>3. j.thread = job[r].thread /\ j.plan = job[r].plan
      BY <1>1 DEF TypeOK, Job
    <2> HIDE DEF j
    <2>4. JobsSound'
      BY <1>1, <2>1, <2>2, <2>3, GoSound, GoSameSound DEF CreateSteps
    <2>5. QED
      BY <1>1, <2>1, <2>4, SameRows DEF Keeps
  <1>8. ASSUME InsertComment(r) PROVE Keeps
    <2>1. JobsSound'
      BY <1>1, <1>8, DoneSound DEF InsertComment
    <2>2. PICK u \in job[r].users :
            rows' = AddRow(rows, nextId, NewRow(job[r].thread, u, job[r].parent, job[r].root,
                                                job[r].depth, job[r].status))
      BY <1>8 DEF InsertComment
    <2>3. Consistent(Initial(job[r].status))
      BY <1>1, InitialConsistent DEF TypeOK, Job
    <2>4. ModerationConsistent'
      BY <1>1, <2>2, <2>3 DEF ModerationConsistent, AddRow, NewRow
    <2>5. QED
      BY <2>1, <2>4 DEF Keeps
  <1>9. QED
    BY <1>2, <1>3, <1>4, <1>5, <1>6, <1>7, <1>8 DEF CreateNext

(* A command that starts outside creation and plans nothing. *)
LEMMA BeginKeeps ==
    ASSUME Inv, NEW r \in Requests, NEW step, NEW j, Begin(r, step, j), step \notin CreateSteps,
           j.plan = NoPlan
    PROVE  Keeps
  <1>1. TypeOK /\ JobsSound /\ ModerationConsistent
    BY DEF Inv, JobsSound
  <1>2. JobsSound'
    BY <1>1, NoPlanSound, BeginSound
  <1>3. QED
    BY <1>1, <1>2, SameRows DEF Begin, Keeps

LEMMA ModerationKeeps ==
    ASSUME Inv, NEW r \in Requests, ModerationNext(r)
    PROVE  Keeps
  <1>1. TypeOK /\ JobsSound /\ ModerationConsistent
    BY DEF Inv, JobsSound
  <1>2. ASSUME NEW c \in DOMAIN rows, NEW a \in AdminActions, BeginTransition(r, c, a)
        PROVE  Keeps
    <2> DEFINE plan == [d \in {c} |-> Transition(rows[c].mod, a)]
               j == [NoJob EXCEPT !.op = "transition", !.targets = {c}, !.plan = plan]
    <2>1. Begin(r, "updateStatus", j)
      BY <1>2 DEF BeginTransition
    <2>2. j.plan = plan
      BY DEF NoJob
    <2>3. Consistent(Transition(rows[c].mod, a))
      <3>1. rows[c].mod \in Moderation /\ Consistent(rows[c].mod)
        BY <1>1 DEF TypeOK, Row, ModerationConsistent
      <3>2. QED
        BY <1>2, <3>1, TransitionConsistent DEF BeginTransition
    <2>4. \A d \in DOMAIN plan : Consistent(plan[d])
      BY <2>3
    <2> HIDE DEF j, plan
    <2>5. JobsSound'
      BY <1>1, <2>1, <2>2, <2>4, BeginSound DEF CreateSteps
    <2>6. QED
      BY <1>1, <2>1, <2>5, SameRows DEF Begin, Keeps
  <1>3. ASSUME NEW S \in SUBSET DOMAIN rows, NEW a \in AdminActions, BeginBatch(r, S, a)
        PROVE  Keeps
    <2> DEFINE D == {d \in S : ~BatchUnchanged(rows[d].mod, a)}
               plan == [c \in D |-> Transition(rows[c].mod, a)]
               j == [NoJob EXCEPT !.op = "batch", !.targets = S, !.plan = plan]
    <2>1. Begin(r, "writeBatch", j)
      BY <1>3 DEF BeginBatch
    <2>2. j.plan = plan
      BY DEF NoJob
    <2>3. \A c \in D : Consistent(Transition(rows[c].mod, a))
      <3>1. \A c \in D : /\ rows[c].mod \in Moderation /\ Consistent(rows[c].mod)
                        /\ Applicable(rows[c].mod, a)
        BY <1>1, <1>3 DEF TypeOK, Row, ModerationConsistent, BeginBatch, BatchAccepts
      <3>2. QED
        BY <3>1, TransitionConsistent
    <2>4. \A d \in DOMAIN plan : Consistent(plan[d])
      BY <2>3
    <2> HIDE DEF j, plan
    <2>5. JobsSound'
      BY <1>1, <2>1, <2>2, <2>4, BeginSound DEF CreateSteps
    <2>6. QED
      BY <1>1, <2>1, <2>5, SameRows DEF Begin, Keeps
  <1>4. ASSUME NEW c \in DOMAIN rows, NEW pinned \in BOOLEAN, BeginPin(r, c, pinned)
        PROVE  Keeps
    <2> DEFINE j == [NoJob EXCEPT !.op = "pin", !.targets = {c}, !.pinned = pinned]
    <2>1. Begin(r, "setPinned", j) /\ j.plan = NoPlan
      BY <1>4 DEF BeginPin, NoJob
    <2> HIDE DEF j
    <2>2. QED
      BY <2>1, BeginKeeps DEF CreateSteps
  <1>5. ASSUME NEW S \in SUBSET DOMAIN rows, NEW pinned \in BOOLEAN, BeginBatchPin(r, S, pinned)
        PROVE  Keeps
    <2> DEFINE j == [NoJob EXCEPT !.op = "batchPin", !.targets = S, !.pinned = pinned]
    <2>1. Begin(r, "writeBatch", j) /\ j.plan = NoPlan
      BY <1>5 DEF BeginBatchPin, NoJob
    <2> HIDE DEF j
    <2>2. QED
      BY <2>1, BeginKeeps DEF CreateSteps
  <1>6. ASSUME UpdateStatus(r) \/ SetPinned(r) \/ WriteBatch(r)
        PROVE  Keeps
    <2>1. JobsSound'
      BY <1>1, <1>6, DoneSound DEF UpdateStatus, SetPinned, WriteBatch
    <2>2. \A c \in DOMAIN job[r].plan : Consistent(job[r].plan[c])
      BY <1>1 DEF JobsSound, PlansConsistent
    <2>3. CASE rows' = WithModeration(rows, job[r].plan)
      BY <1>1, <2>1, <2>2, <2>3, PlannedRows DEF Keeps
    <2>4. CASE rows' = WithPinned(rows, job[r].targets, job[r].pinned)
      BY <1>1, <2>1, <2>4, WithPinnedKeeps, KeptRows DEF Keeps
    <2>5. QED
      BY <1>6, <2>3, <2>4 DEF UpdateStatus, SetPinned, WriteBatch
  <1>7. QED
    BY <1>2, <1>3, <1>4, <1>5, <1>6 DEF ModerationNext

LEMMA HardDeleteKeeps ==
    ASSUME Inv, NEW r \in Requests, HardDeleteNext(r)
    PROVE  Keeps
  <1>1. TypeOK /\ JobsSound /\ ModerationConsistent
    BY DEF Inv, JobsSound
  <1>2. ASSUME NEW c \in DOMAIN rows, BeginHardDelete(r, c)
        PROVE  Keeps
    <2> DEFINE j == [NoJob EXCEPT !.op = "hardDelete", !.targets = {c}]
    <2>1. Begin(r, "scanParents", j) /\ j.plan = NoPlan
      BY <1>2 DEF BeginHardDelete, NoJob
    <2> HIDE DEF j
    <2>2. QED
      BY <2>1, BeginKeeps DEF CreateSteps
  <1>3. ASSUME NEW S \in SUBSET DOMAIN rows, BeginBatchHardDelete(r, S)
        PROVE  Keeps
    <2> DEFINE j == [NoJob EXCEPT !.op = "batchHardDelete", !.targets = S]
    <2>1. Begin(r, "scanParents", j) /\ j.plan = NoPlan
      BY <1>3 DEF BeginBatchHardDelete, NoJob
    <2> HIDE DEF j
    <2>2. QED
      BY <2>1, BeginKeeps DEF CreateSteps
  <1>4. ASSUME NEW U, NEW op, BeginUserHardDelete(r, U, op)
        PROVE  Keeps
    <2> DEFINE j == [NoJob EXCEPT !.op = op, !.users = U]
    <2>1. Begin(r, "scanParents", j) /\ j.plan = NoPlan
      BY <1>4 DEF BeginUserHardDelete, NoJob
    <2> HIDE DEF j
    <2>2. QED
      BY <2>1, BeginKeeps DEF CreateSteps
  <1>5. ASSUME ScanParents(r) PROVE Keeps
    <2> DEFINE j == [job[r] EXCEPT !.scan = ParentRefs(r)]
    <2>1. Go(r, "scanParents", "detachParents") /\ UNCHANGED rows /\ job' = [job EXCEPT ![r] = j]
      BY <1>5 DEF ScanParents
    <2>2. j.thread = job[r].thread /\ j.plan = job[r].plan
      BY <1>1 DEF TypeOK, Job
    <2> HIDE DEF j
    <2>3. QED
      BY <1>1, <2>1, <2>2, GoSound, SameRows DEF CreateSteps, Keeps
  <1>6. ASSUME DetachParents(r) PROVE Keeps
    <2> DEFINE j == [job[r] EXCEPT !.cutParents = job[r].scan \cap ParentRefs(r), !.scan = {}]
    <2>1. Go(r, "detachParents", "scanRoots") /\ UNCHANGED rows /\ job' = [job EXCEPT ![r] = j]
      BY <1>6 DEF DetachParents
    <2>2. j.thread = job[r].thread /\ j.plan = job[r].plan
      BY <1>1 DEF TypeOK, Job
    <2> HIDE DEF j
    <2>3. QED
      BY <1>1, <2>1, <2>2, GoSound, SameRows DEF CreateSteps, Keeps
  <1>7. ASSUME ScanRoots(r) PROVE Keeps
    <2> DEFINE j == [job[r] EXCEPT !.scan = RootRefs(r)]
    <2>1. Go(r, "scanRoots", "detachRoots") /\ UNCHANGED rows /\ job' = [job EXCEPT ![r] = j]
      BY <1>7 DEF ScanRoots
    <2>2. j.thread = job[r].thread /\ j.plan = job[r].plan
      BY <1>1 DEF TypeOK, Job
    <2> HIDE DEF j
    <2>3. QED
      BY <1>1, <2>1, <2>2, GoSound, SameRows DEF CreateSteps, Keeps
  <1>8. ASSUME DetachRoots(r) PROVE Keeps
    <2> DEFINE j == [job[r] EXCEPT !.cutRoots = job[r].scan \cap RootRefs(r), !.scan = {}]
    <2>1. Go(r, "detachRoots", "delete") /\ UNCHANGED rows /\ job' = [job EXCEPT ![r] = j]
      BY <1>8 DEF DetachRoots
    <2>2. j.thread = job[r].thread /\ j.plan = job[r].plan
      BY <1>1 DEF TypeOK, Job
    <2> HIDE DEF j
    <2>3. QED
      BY <1>1, <2>1, <2>2, GoSound, SameRows DEF CreateSteps, Keeps
  <1>9. ASSUME Delete(r) PROVE Keeps
    <2> DEFINE staged == Detach(rows, job[r].cutParents, job[r].cutRoots)
               doomed == Cascade(staged, Selected(r))
    <2>1. JobsSound'
      BY <1>1, <1>9, DoneSound DEF Delete
    <2>2. rows' = DropRows(staged, doomed)
      BY <1>9 DEF Delete
    <2> HIDE DEF doomed
    <2>3. \A c \in DOMAIN rows' : c \in DOMAIN rows /\ rows'[c].mod = rows[c].mod
      BY <1>1, <2>2, DetachKeeps, DropRowsKeeps
    <2>4. QED
      BY <1>1, <2>1, <2>3, KeptRows DEF Keeps
  <1>10. QED
    BY <1>2, <1>3, <1>4, <1>5, <1>6, <1>7, <1>8, <1>9 DEF HardDeleteNext

LEMMA AccountKeeps ==
    ASSUME Inv, NEW r \in Requests, AccountNext(r)
    PROVE  Keeps
  <1>1. TypeOK /\ JobsSound /\ ModerationConsistent
    BY DEF Inv, JobsSound
  <1>2. ASSUME NEW U, NEW op, BeginUserSoftDelete(r, U, op)
        PROVE  Keeps
    <2> DEFINE j == [NoJob EXCEPT !.op = op, !.users = U]
    <2>1. Begin(r, "softDeleteUsers", j) /\ j.plan = NoPlan
      BY <1>2 DEF BeginUserSoftDelete, NoJob
    <2> HIDE DEF j
    <2>2. QED
      BY <2>1, BeginKeeps DEF CreateSteps
  <1>3. ASSUME SoftDeleteUsers(r) PROVE Keeps
    BY <1>1, <1>3, GoSameSound, SameRows DEF SoftDeleteUsers, CreateSteps, Keeps
  <1>4. ASSUME ScanOwned(r) PROVE Keeps
    <2> DEFINE j == [job[r] EXCEPT !.scan = Owned(r)]
    <2>1. Go(r, "scanOwned", "softDeleteOwned") /\ UNCHANGED rows /\ job' = [job EXCEPT ![r] = j]
      BY <1>4 DEF ScanOwned
    <2>2. j.thread = job[r].thread /\ j.plan = job[r].plan
      BY <1>1 DEF TypeOK, Job
    <2> HIDE DEF j
    <2>3. QED
      BY <1>1, <2>1, <2>2, GoSound, SameRows DEF CreateSteps, Keeps
  <1>5. ASSUME SoftDeleteOwned(r) PROVE Keeps
    <2> DEFINE plan == [c \in job[r].scan \cap Owned(r) |-> SoftDeleted(rows[c].mod)]
    <2>1. JobsSound'
      BY <1>1, <1>5, DoneSound DEF SoftDeleteOwned
    <2>2. \A c \in Owned(r) : Consistent(SoftDeleted(rows[c].mod))
      BY <1>1, SoftDeletedConsistent DEF Owned, TypeOK, Row, ModerationConsistent
    <2>3. \A c \in DOMAIN plan : Consistent(plan[c])
      BY <2>2
    <2>4. rows' = WithModeration(rows, plan)
      BY <1>5 DEF SoftDeleteOwned
    <2> HIDE DEF plan
    <2>5. QED
      BY <1>1, <2>1, <2>3, <2>4, PlannedRows DEF Keeps
  <1>6. ASSUME NEW u \in Users, RestoreUser(r, u) PROVE Keeps
    BY <1>1, <1>6, SameSound, SameRows DEF RestoreUser, Immediate, Keeps
  <1>7. QED
    BY <1>2, <1>3, <1>4, <1>5, <1>6 DEF AccountNext

LEMMA ThreadKeeps ==
    ASSUME Inv, NEW r \in Requests, ThreadNext(r)
    PROVE  Keeps
  <1>1. TypeOK /\ JobsSound /\ ModerationConsistent
    BY DEF Inv, JobsSound
  <1>2. ASSUME NEW S, NEW state, SetThreads(r, S, state) PROVE Keeps
    BY <1>1, <1>2, SameSound, SameRows DEF SetThreads, Immediate, Keeps
  <1>3. ASSUME NEW S, DeleteThreads(r, S) PROVE Keeps
    <2> DEFINE doomed == Cascade(rows, {c \in DOMAIN rows : rows[c].thread \in S})
    <2>1. rows' = DropRows(rows, doomed) /\ UNCHANGED <<pc, job>>
      BY <1>3 DEF DeleteThreads, Immediate
    <2> HIDE DEF doomed
    <2>2. QED
      BY <1>1, <2>1, SameSound, DropRowsKeeps, KeptRows DEF Keeps
  <1>4. QED
    BY <1>2, <1>3 DEF ThreadNext

LEMMA FailKeeps ==
    ASSUME Inv, NEW r \in Requests, Fail(r)
    PROVE  Keeps
  BY DoneSound, SameRows DEF Inv, JobsSound, Fail, Keeps

-----------------------------------------------------------------------------
(* The theorems. *)

LEMMA NextType ==
    ASSUME Inv, Next
    PROVE  TypeOK'
  <1>1. PICK r \in Requests : \/ CreateNext(r)
                            \/ ModerationNext(r)
                            \/ HardDeleteNext(r)
                            \/ AccountNext(r)
                            \/ ThreadNext(r)
                            \/ Fail(r)
    BY DEF Next
  <1>2. TypeOK /\ ThreadKnown
    BY DEF Inv
  <1>3. CASE CreateNext(r)
    BY <1>2, <1>3, BeginCreateType, BeginReplyType, LockThreadType, CheckActorType,
       UpdateProfileType, LockParentType, InsertCommentType DEF CreateNext
  <1>4. CASE ModerationNext(r)
    BY <1>2, <1>4, BeginTransitionType, BeginPinType, BeginBatchType, BeginBatchPinType,
       UpdateStatusType, SetPinnedType DEF ModerationNext
  <1>5. CASE HardDeleteNext(r)
    <2>1. CASE \/ \E u \in Users : BeginUserHardDelete(r, {u}, "userHardDelete")
               \/ \E U \in SUBSET Users \ {{}} : BeginUserHardDelete(r, U, "usersHardDelete")
      <3>1. PICK U \in SUBSET Users, op \in UserHardDeletes : BeginUserHardDelete(r, U, op)
        BY <2>1 DEF UserHardDeletes
      <3>2. QED
        BY <1>2, <3>1, BeginUserHardDeleteType
    <2>2. QED
      BY <1>2, <1>5, <2>1, BeginHardDeleteType, BeginBatchHardDeleteType, ScanParentsType,
         DetachParentsType, ScanRootsType, DetachRootsType, DeleteType DEF HardDeleteNext
  <1>6. CASE AccountNext(r)
    <2>1. CASE \/ \E u \in Users : BeginUserSoftDelete(r, {u}, "userSoftDelete")
               \/ \E U \in SUBSET Users \ {{}} : BeginUserSoftDelete(r, U, "usersSoftDelete")
      <3>1. PICK U \in SUBSET Users, op \in UserSoftDeletes : BeginUserSoftDelete(r, U, op)
        BY <2>1 DEF UserSoftDeletes
      <3>2. QED
        BY <1>2, <3>1, BeginUserSoftDeleteType
    <2>2. QED
      BY <1>2, <1>6, <2>1, SoftDeleteUsersType, ScanOwnedType, SoftDeleteOwnedType,
         RestoreUserType DEF AccountNext
  <1>7. CASE ThreadNext(r)
    BY <1>2, <1>7, SetThreadsType, DeleteThreadsType DEF ThreadNext
  <1>8. CASE Fail(r)
    BY <1>2, <1>8, FailType
  <1>9. QED
    BY <1>1, <1>3, <1>4, <1>5, <1>6, <1>7, <1>8

LEMMA InvInit == Init => Inv
  <1> SUFFICES ASSUME Init PROVE Inv
    OBVIOUS
  <1>1. TypeOK
    BY InitType
  <1>2. ThreadKnown
    BY DEF Init, ThreadKnown, CreateSteps
  <1>3. PlansConsistent
    BY DEF Init, PlansConsistent, NoJob, NoPlan
  <1>4. ModerationConsistent
    BY DEF Init, ModerationConsistent
  <1>5. QED
    BY <1>1, <1>2, <1>3, <1>4 DEF Inv

LEMMA InvNext == Inv /\ [Next]_vars => Inv'
  <1> SUFFICES ASSUME Inv, [Next]_vars PROVE Inv'
    OBVIOUS
  <1>1. CASE Next
    <2>1. TypeOK'
      BY <1>1, NextType
    <2>2. Keeps
      BY <1>1, CreateKeeps, ModerationKeeps, HardDeleteKeeps, AccountKeeps, ThreadKeeps,
         FailKeeps DEF Next
    <2>3. QED
      BY <2>1, <2>2 DEF Keeps, JobsSound, Inv
  <1>2. CASE UNCHANGED vars
    BY <1>2 DEF vars, Inv, TypeOK, ThreadKnown, PlansConsistent, ModerationConsistent
  <1>3. QED
    BY <1>1, <1>2

THEOREM StoreInvariant == Spec => []Inv
  BY InvInit, InvNext, PTL DEF Spec

(* The tables, the steps and the jobs of the comment service are well      *)
(* typed, for any instance.                                                *)
THEOREM TypeCorrect == Spec => []TypeOK
  <1>1. Inv => TypeOK
    BY DEF Inv
  <1>2. QED
    BY <1>1, StoreInvariant, PTL

(* The four moderation columns of every comment agree, whatever requests   *)
(* overwrite each other's decisions in whatever order.                     *)
THEOREM ModerationCorrect == Spec => []ModerationConsistent
  <1>1. Inv => ModerationConsistent
    BY DEF Inv
  <1>2. QED
    BY <1>1, StoreInvariant, PTL

-----------------------------------------------------------------------------
(* What requests hold, and what they may rely on while they hold it. *)

(* The comments a request holds: read FOR UPDATE, or updated and not yet committed. *)
Held(q) == RowsLocked(q) \cup RowsStaged(q)

HeldApart == \A p, q \in Requests : p # q => Held(p) \cap Held(q) = {}

(* The steps of a creation that hold its thread. *)
InThread == {"checkActor", "updateProfile", "lockParent", "insert"}

(* A command stands at a step of its own, and plans for its targets only. *)
HardSteps == {"scanParents", "detachParents", "scanRoots", "detachRoots", "delete"}
SoftSteps == {"softDeleteUsers", "scanOwned", "softDeleteOwned"}

Fits(step, j) ==
    /\ step = "idle" => j = NoJob
    /\ step \in CreateSteps => j.op \in {"create", "reply"} /\ \E u \in Users : j.users = {u}
    /\ step = "updateStatus" => j.op = "transition"
    /\ step = "setPinned" => j.op = "pin"
    /\ step = "writeBatch" => j.op \in {"batch", "batchPin"}
    /\ step \in HardSteps => \/ j.op \in UserHardDeletes
                             \/ j.op \in {"hardDelete", "batchHardDelete"} /\ j.users = {}
    /\ step \in SoftSteps => j.op \in UserSoftDeletes
    /\ DOMAIN j.plan \subseteq j.targets

StepFits(q) == Fits(pc[q], job[q])

(* The thread a creation holds cannot be closed. *)
ThreadOpen(q) == pc[q] \in InThread => threads[job[q].thread] # "closed"

(* Where the new comment will hang is what its locked parent says, or nowhere. *)
PlaceKnown(q) ==
    LET p == job[q].parent IN
    pc[q] \in CreateSteps =>
        IF pc[q] = "insert" /\ p # NoComment
        THEN /\ p \in DOMAIN rows
             /\ ReplyAllowed(rows[p], job[q].thread)
             /\ job[q].depth = rows[p].depth + 1
             /\ job[q].root = ReplyRoot(rows, p)
        ELSE job[q].depth = 0 /\ job[q].root = NoComment

(* What a batch has read of its targets still holds. *)
BatchCurrent(q) ==
    pc[q] = "writeBatch" =>
        /\ job[q].op = "batch" =>
            \A c \in DOMAIN job[q].plan :
                job[q].plan[c].status = "deleted" => job[q].plan[c].before = rows[c].mod.status
        /\ job[q].op = "batchPin" /\ job[q].pinned =>
            \A c \in job[q].targets : rows[c].mod.status = "published"

(* Who loses its root loses it to the deletion. *)
RootsCut(q) == \A c \in job[q].cutRoots : rows[c].root \in Selected(q)

Sound(q) ==
    /\ StepFits(q) /\ ThreadOpen(q) /\ PlaceKnown(q) /\ BatchCurrent(q) /\ RootsCut(q)
    /\ Held(q) \subseteq DOMAIN rows

(* Identities come in order. *)
IdsBelow == \A c \in DOMAIN rows : c < nextId

LocksInv ==
    /\ HeldApart
    /\ \A q \in Requests : Sound(q)
    /\ IdsBelow
    /\ TreeIntact
-----------------------------------------------------------------------------
(* What a request holds when it begins, goes on and ends. *)

LEMMA NoJobHolds ==
    /\ NoJob.targets = {} /\ NoJob.cutParents = {} /\ NoJob.cutRoots = {}
    /\ NoJob.plan = NoPlan /\ DOMAIN NoPlan = {} /\ NoJob.op = "none"
    /\ NoJob.depth = 0 /\ NoJob.root = NoComment /\ NoJob.thread = "none"
    /\ NoJob.parent = NoComment /\ NoJob.users = {}
  BY DEF NoJob, NoPlan

(* A request that is done holds nothing. *)
LEMMA DoneHolds ==
    ASSUME RequestsOK, NEW r \in Requests, Done(r)
    PROVE  /\ pc'[r] = "idle" /\ job'[r] = NoJob
           /\ \A q \in Requests \ {r} : pc'[q] = pc[q] /\ job'[q] = job[q]
           /\ Held(r)' = {} /\ Sound(r)'
  <1>1. /\ pc'[r] = "idle" /\ job'[r] = NoJob
        /\ \A q \in Requests \ {r} : pc'[q] = pc[q] /\ job'[q] = job[q]
    BY DEF RequestsOK, Done
  <1>2. Held(r)' = {}
    BY <1>1, NoJobHolds DEF Held, RowsLocked, RowsStaged, InTx
  <1>3. Sound(r)'
    BY <1>1, <1>2, NoJobHolds
    DEF Sound, StepFits, Fits, ThreadOpen, PlaceKnown, BatchCurrent, RootsCut, CreateSteps, HardSteps, SoftSteps, InThread
  <1>4. QED
    BY <1>1, <1>2, <1>3

(* What one request does leaves the others where they are. *)
LEMMA GoOthers ==
    ASSUME RequestsOK, NEW r \in Requests, NEW from, NEW to, Go(r, from, to)
    PROVE  /\ pc[r] = from /\ pc'[r] = to
           /\ \A q \in Requests \ {r} : pc'[q] = pc[q]
  BY DEF RequestsOK, Go

LEMMA BeginOthers ==
    ASSUME RequestsOK, NEW r \in Requests, NEW step, NEW j, Begin(r, step, j)
    PROVE  /\ pc[r] = "idle" /\ pc'[r] = step /\ job'[r] = j
           /\ \A q \in Requests \ {r} : pc'[q] = pc[q] /\ job'[q] = job[q]
  BY DEF RequestsOK, Begin

(* What another request holds stays sound as long as the rows it holds stay. *)
LEMMA OtherSound ==
    ASSUME LocksInv, TypeOK, TypeOK', TreeIntact', NEW q \in Requests,
           pc'[q] = pc[q], job'[q] = job[q],
           \A c \in Held(q) : c \in DOMAIN rows' /\ rows'[c] = rows[c],
           \A c \in DOMAIN rows \cap DOMAIN rows' : rows'[c].user = rows[c].user,
           pc[q] \in InThread => threads'[job[q].thread] # "closed"
    PROVE  Sound(q)' /\ Held(q)' = Held(q)
  <1>1. Sound(q)
    BY DEF LocksInv
  <1>2. Held(q)' = Held(q)
    BY DEF Held, RowsLocked, RowsStaged, InTx
  <1>3. StepFits(q)' /\ ThreadOpen(q)'
    BY <1>1 DEF Sound, StepFits, ThreadOpen
  <1>4. PlaceKnown(q)'
    <2> DEFINE p == job[q].parent
    <2>1. ASSUME pc[q] = "insert", p # NoComment
          PROVE  p \in DOMAIN rows' /\ rows'[p] = rows[p]
      BY <2>1 DEF Held, RowsLocked
    <2>2. QED
      BY <1>1, <2>1 DEF Sound, PlaceKnown, CreateSteps, ReplyRoot
  <1>5. BatchCurrent(q)'
    <2>1. ASSUME pc[q] = "writeBatch"
          PROVE  \A c \in job[q].targets : c \in DOMAIN rows' /\ rows'[c] = rows[c]
      BY <1>1, <2>1 DEF Sound, StepFits, Fits, Held, RowsLocked, InTx, CommentBatches
    <2>2. QED
      BY <1>1, <2>1 DEF Sound, StepFits, Fits, BatchCurrent
  <1>6. RootsCut(q)'
    <2> SUFFICES ASSUME NEW c \in job[q].cutRoots
                 PROVE  (rows[c].root \in Selected(q))'
      BY DEF RootsCut
    <2>1. c \in Held(q)
      BY DEF Held, RowsStaged
    <2>2. c \in DOMAIN rows /\ c \in DOMAIN rows' /\ rows'[c] = rows[c]
      BY <1>1, <2>1 DEF Sound
    <2>3. rows[c].root \in Selected(q)
      BY <1>1 DEF Sound, RootsCut
    <2>4. CASE job[q].op \notin UserHardDeletes
      BY <2>2, <2>3, <2>4 DEF Selected
    <2>5. CASE job[q].op \in UserHardDeletes
      <3>1. rows[c].root \in DOMAIN rows /\ rows[rows[c].root].user \in job[q].users
        BY <2>3, <2>5 DEF Selected
      <3>2. rows[c].root # NoComment
        BY <3>1 DEF TypeOK, Comments, NoComment
      <3>3. rows'[c].root \in DOMAIN rows'
        BY <2>2, <3>2 DEF TreeIntact, WellPlaced
      <3>4. rows'[rows'[c].root].user \in job'[q].users
        BY <2>2, <3>1, <3>3
      <3>5. QED
        BY <2>5, <3>3, <3>4 DEF Selected
    <2>6. QED
      BY <2>4, <2>5
  <1>7. Held(q)' \subseteq DOMAIN rows'
    BY <1>1, <1>2
  <1>8. QED
    BY <1>2, <1>3, <1>4, <1>5, <1>6, <1>7 DEF Sound

(* So a step keeps the invariant if it keeps the tree and the order of the *)
(* identities, touches nothing that others hold, and is sound itself.      *)
LEMMA StepSound ==
    ASSUME LocksInv, TypeOK, TypeOK', TreeIntact', IdsBelow', NEW r \in Requests, Sound(r)',
           \A q \in Requests \ {r} :
               /\ pc'[q] = pc[q] /\ job'[q] = job[q]
               /\ \A c \in Held(q) : c \in DOMAIN rows' /\ rows'[c] = rows[c]
               /\ pc[q] \in InThread => threads'[job[q].thread] # "closed"
               /\ Held(r)' \cap Held(q) = {},
           \A c \in DOMAIN rows \cap DOMAIN rows' : rows'[c].user = rows[c].user
    PROVE  LocksInv'
  <1>1. \A q \in Requests \ {r} : Sound(q)' /\ Held(q)' = Held(q)
    BY OtherSound
  <1>2. HeldApart'
    <2> SUFFICES ASSUME NEW p \in Requests, NEW q \in Requests, p # q
                 PROVE  Held(p)' \cap Held(q)' = {}
      BY DEF HeldApart
    <2>1. CASE p = r
      BY <1>1, <2>1
    <2>2. CASE q = r
      BY <1>1, <2>2
    <2>3. CASE p # r /\ q # r
      BY <1>1, <2>3 DEF LocksInv, HeldApart
    <2>4. QED
      BY <2>1, <2>2, <2>3
  <1>3. QED
    BY <1>1, <1>2 DEF LocksInv

(* The steps that write no row. *)
LEMMA QuietStep ==
    ASSUME LocksInv, TypeOK, TypeOK', UNCHANGED rows, nextId' = nextId, NEW r \in Requests, Sound(r)',
           \A q \in Requests \ {r} :
               /\ pc'[q] = pc[q] /\ job'[q] = job[q]
               /\ pc[q] \in InThread => threads'[job[q].thread] # "closed"
               /\ Held(r)' \cap Held(q) = {}
    PROVE  LocksInv'
  <1>1. TreeIntact'
    BY DEF LocksInv, TreeIntact, WellPlaced
  <1>0. IdsBelow'
    BY DEF LocksInv, IdsBelow
  <1>2. \A q \in Requests \ {r} : \A c \in Held(q) : c \in DOMAIN rows' /\ rows'[c] = rows[c]
    BY DEF LocksInv, Sound
  <1>3. QED
    BY <1>0, <1>1, <1>2, StepSound

LEMMA ThreadsStay ==
    ASSUME LocksInv, UNCHANGED threads
    PROVE  \A q \in Requests : pc[q] \in InThread => threads'[job[q].thread] # "closed"
  BY DEF LocksInv, Sound, ThreadOpen

(* A command begins: with what it has locked, if it is a batch, and nothing else. *)
LEMMA BeginStep ==
    ASSUME LocksInv, TypeOK, TypeOK', NEW r \in Requests, NEW step, NEW j, Begin(r, step, j),
           j.cutParents = {}, j.cutRoots = {}, Fits(step, j),
           step \notin InThread, step # "idle",
           step = "lockThread" => j.depth = 0 /\ j.root = NoComment,
           j.op \in CommentBatches => j.targets \subseteq DOMAIN rows /\ RowsFree(r, j.targets),
           step = "writeBatch" /\ j.op = "batch" =>
               \A c \in DOMAIN j.plan :
                   j.plan[c].status = "deleted" => j.plan[c].before = rows[c].mod.status,
           step = "writeBatch" /\ j.op = "batchPin" /\ j.pinned =>
               \A c \in j.targets : rows[c].mod.status = "published"
    PROVE  LocksInv'
  <1>1. /\ pc'[r] = step /\ job'[r] = j /\ UNCHANGED <<rows, nextId, threads>>
        /\ \A q \in Requests \ {r} : pc'[q] = pc[q] /\ job'[q] = job[q]
    <2>1. RequestsOK
      BY TypeOKParts
    <2>2. UNCHANGED <<rows, nextId, threads>>
      BY DEF Begin
    <2>3. QED
      BY <2>1, <2>2, BeginOthers
  <1>2. Held(r)' \subseteq IF j.op \in CommentBatches THEN j.targets ELSE {}
    BY <1>1 DEF Held, RowsLocked, RowsStaged, InThread
  <1>3. \A q \in Requests \ {r} : Held(r)' \cap Held(q) = {}
    <2>1. j.op \in CommentBatches => \A q \in Requests \ {r} : j.targets \cap Held(q) = {}
      BY DEF RowsFree, Held
    <2>2. QED
      BY <1>2, <2>1
  <1>4. Sound(r)'
    <2>1. StepFits(r)' /\ ThreadOpen(r)' /\ PlaceKnown(r)'
      BY <1>1 DEF StepFits, ThreadOpen, PlaceKnown, CreateSteps, InThread
    <2>2. BatchCurrent(r)' /\ RootsCut(r)'
      BY <1>1 DEF BatchCurrent, RootsCut
    <2>3. Held(r)' \subseteq DOMAIN rows'
      BY <1>1, <1>2
    <2>4. QED
      BY <2>1, <2>2, <2>3 DEF Sound
  <1>5. QED
    BY <1>1, <1>3, <1>4, ThreadsStay, QuietStep

(* A creation goes on in its thread. *)
LEMMA CreationStep ==
    ASSUME LocksInv, TypeOK, TypeOK', NEW r \in Requests, NEW from, NEW to, Go(r, from, to),
           from \in CreateSteps \ {"insert"}, to \in {"checkActor", "updateProfile", "lockParent"},
           threads[job[r].thread] # "closed",
           UNCHANGED <<rows, nextId, threads, job>>
    PROVE  LocksInv'
  <1>1. /\ pc[r] = from /\ pc'[r] = to
        /\ \A q \in Requests \ {r} : pc'[q] = pc[q] /\ job'[q] = job[q]
    BY GoOthers, TypeOKParts
  <1>2. Sound(r)
    BY DEF LocksInv
  <1>3. job[r].op \notin CommentBatches
    BY <1>1, <1>2 DEF Sound, StepFits, Fits, CommentBatches
  <1>4. Held(r)' = RowsStaged(r)
    BY <1>1, <1>3 DEF Held, RowsLocked, RowsStaged
  <1>5. Sound(r)'
    <2>1. StepFits(r)' /\ ThreadOpen(r)' /\ PlaceKnown(r)'
      BY <1>1, <1>2 DEF Sound, StepFits, Fits, ThreadOpen, PlaceKnown, CreateSteps, HardSteps, SoftSteps, InThread
    <2>2. BatchCurrent(r)' /\ RootsCut(r)'
      BY <1>1, <1>2 DEF Sound, BatchCurrent, RootsCut, Selected
    <2>3. Held(r)' \subseteq DOMAIN rows'
      BY <1>2, <1>4 DEF Sound, Held
    <2>4. QED
      BY <2>1, <2>2, <2>3 DEF Sound
  <1>6. \A q \in Requests \ {r} : Held(r)' \cap Held(q) = {}
    BY <1>4 DEF LocksInv, HeldApart, Held
  <1>7. QED
    BY <1>1, <1>5, <1>6, ThreadsStay, QuietStep

(* The parent is locked, and fixes the place of the reply. *)
LEMMA LockParentStep ==
    ASSUME LocksInv, TypeOK, TypeOK', NEW r \in Requests, LockParent(r)
    PROVE  LocksInv'
  <1> DEFINE p == job[r].parent
  <1>1. /\ pc[r] = "lockParent" /\ pc'[r] = "insert" /\ UNCHANGED <<rows, nextId, threads, accounts>>
        /\ \A q \in Requests \ {r} : pc'[q] = pc[q]
    BY GoOthers, TypeOKParts DEF LockParent
  <1>2. Sound(r) /\ job[r] \in Job
    BY DEF LocksInv, TypeOK
  <1>3. /\ threads[job[r].thread] # "closed" /\ job[r].op \notin CommentBatches
        /\ job[r].depth = 0 /\ job[r].root = NoComment
        /\ pc[r] # "insert" /\ pc[r] # "writeBatch" /\ pc[r] # "idle"
    BY <1>1, <1>2 DEF Sound, StepFits, Fits, ThreadOpen, PlaceKnown, CreateSteps, InThread, CommentBatches
  <1>4. CASE p = NoComment
    <2>1. job' = job
      BY <1>4 DEF LockParent, TypeOK, Comments, NoComment
    <2>2. Held(r)' = RowsStaged(r)
      BY <1>1, <1>4, <2>1 DEF Held, RowsLocked, RowsStaged
    <2>3. Sound(r)'
      <3>1. StepFits(r)' /\ ThreadOpen(r)' /\ PlaceKnown(r)'
        BY <1>1, <1>2, <1>3, <1>4, <2>1
        DEF Sound, StepFits, Fits, ThreadOpen, PlaceKnown, CreateSteps, HardSteps, SoftSteps
      <3>2. BatchCurrent(r)' /\ RootsCut(r)'
        BY <1>1, <1>2, <2>1 DEF Sound, BatchCurrent, RootsCut, Selected
      <3>3. Held(r)' \subseteq DOMAIN rows'
        BY <1>1, <1>2, <2>2 DEF Sound, Held
      <3>4. QED
        BY <3>1, <3>2, <3>3 DEF Sound
    <2>4. \A q \in Requests \ {r} : Held(r)' \cap Held(q) = {}
      BY <2>2 DEF LocksInv, HeldApart, Held
    <2>5. QED
      BY <1>1, <2>1, <2>3, <2>4, ThreadsStay, QuietStep
  <1>5. CASE p # NoComment
    <2>0. PICK j : j = [job[r] EXCEPT !.depth = rows[p].depth + 1, !.root = ReplyRoot(rows, p)]
      OBVIOUS
    <2>1. /\ p \in DOMAIN rows /\ RowsFree(r, {p}) /\ ReplyAllowed(rows[p], job[r].thread)
          /\ job' = [job EXCEPT ![r] = j]
      BY <1>5, <2>0 DEF LockParent
    <2>2. /\ j.depth = rows[p].depth + 1 /\ j.root = ReplyRoot(rows, p)
          /\ j.op = job[r].op /\ j.targets = job[r].targets /\ j.plan = job[r].plan
          /\ j.thread = job[r].thread /\ j.parent = p /\ j.users = job[r].users
          /\ j.cutParents = job[r].cutParents /\ j.cutRoots = job[r].cutRoots
      BY <1>2, <2>0 DEF Job
    <2>3. job'[r] = j /\ \A q \in Requests \ {r} : job'[q] = job[q]
      BY <2>1 DEF TypeOK
    <2>4. Held(r)' = {p} \cup RowsStaged(r)
      BY <1>1, <1>5, <2>2, <2>3 DEF Held, RowsLocked, RowsStaged
    <2>5. Sound(r)'
      <3>1. StepFits(r)' /\ ThreadOpen(r)'
        BY <1>1, <1>2, <1>3, <2>2, <2>3
        DEF Sound, StepFits, Fits, ThreadOpen, CreateSteps, HardSteps, SoftSteps
      <3>2. PlaceKnown(r)'
        BY <1>1, <1>5, <2>1, <2>2, <2>3 DEF PlaceKnown, ReplyRoot
      <3>3. BatchCurrent(r)' /\ RootsCut(r)'
        BY <1>1, <1>2, <2>2, <2>3 DEF Sound, BatchCurrent, RootsCut, Selected
      <3>4. Held(r)' \subseteq DOMAIN rows'
        BY <1>1, <1>2, <2>1, <2>4 DEF Sound, Held
      <3>5. QED
        BY <3>1, <3>2, <3>3, <3>4 DEF Sound
    <2>6. \A q \in Requests \ {r} : Held(r)' \cap Held(q) = {}
      BY <2>1, <2>4 DEF LocksInv, HeldApart, Held, RowsFree
    <2>7. QED
      BY <1>1, <2>3, <2>5, <2>6, ThreadsStay, QuietStep
  <1>6. QED
    BY <1>4, <1>5

(* A deletion goes on: it scans, or stages what it found free. *)
LEMMA DeletionStep ==
    ASSUME LocksInv, TypeOK, TypeOK', NEW r \in Requests, NEW from, NEW to, Go(r, from, to),
           \/ from \in HardSteps /\ to \in HardSteps
           \/ from \in SoftSteps /\ to \in SoftSteps,
           UNCHANGED <<rows, nextId, threads>>, NEW j, job' = [job EXCEPT ![r] = j],
           j.op = job[r].op, j.targets = job[r].targets, j.users = job[r].users, j.plan = job[r].plan,
           NEW S, S \subseteq DOMAIN rows, RowsFree(r, S),
           j.cutParents \cup j.cutRoots \subseteq RowsStaged(r) \cup S,
           \A c \in j.cutRoots : rows[c].root \in Selected(r)
    PROVE  LocksInv'
  <1>1. /\ pc[r] = from /\ pc'[r] = to /\ job'[r] = j
        /\ \A q \in Requests \ {r} : pc'[q] = pc[q] /\ job'[q] = job[q]
    BY GoOthers, TypeOKParts DEF TypeOK
  <1>2. Sound(r)
    BY DEF LocksInv
  <1>3. Held(r)' \subseteq Held(r) \cup S
    <2>1. job[r].op \in CommentBatches => InTx(r)
      BY <1>1, <1>2
      DEF Sound, StepFits, Fits, InTx, HardSteps, SoftSteps, CommentBatches, UserHardDeletes, UserSoftDeletes
    <2>2. RowsLocked(r)' \subseteq RowsLocked(r)
      BY <1>1, <2>1 DEF RowsLocked, HardSteps, SoftSteps
    <2>3. RowsStaged(r)' = j.cutParents \cup j.cutRoots
      BY <1>1 DEF RowsStaged
    <2>4. QED
      BY <2>2, <2>3 DEF Held
  <1>4. Sound(r)'
    <2>1. StepFits(r)' /\ ThreadOpen(r)' /\ PlaceKnown(r)' /\ BatchCurrent(r)'
      BY <1>1, <1>2
      DEF Sound, StepFits, Fits, ThreadOpen, PlaceKnown, BatchCurrent, CreateSteps, HardSteps, SoftSteps, InThread
    <2>2. RootsCut(r)'
      BY <1>1 DEF RootsCut, Selected
    <2>3. Held(r)' \subseteq DOMAIN rows'
      BY <1>2, <1>3 DEF Sound
    <2>4. QED
      BY <2>1, <2>2, <2>3 DEF Sound
  <1>5. \A q \in Requests \ {r} : Held(r)' \cap Held(q) = {}
    <2>1. \A q \in Requests \ {r} : S \cap Held(q) = {} /\ Held(r) \cap Held(q) = {}
      BY DEF LocksInv, HeldApart, RowsFree, Held
    <2>2. QED
      BY <1>3, <2>1
  <1>6. QED
    BY <1>1, <1>4, <1>5, ThreadsStay, QuietStep

(* A command ends with its last write. *)
LEMMA DoneStep ==
    ASSUME LocksInv, TypeOK, TypeOK', TreeIntact', IdsBelow', NEW r \in Requests, Done(r),
           \A q \in Requests \ {r} :
               /\ \A c \in Held(q) : c \in DOMAIN rows' /\ rows'[c] = rows[c]
               /\ pc[q] \in InThread => threads'[job[q].thread] # "closed",
           \A c \in DOMAIN rows \cap DOMAIN rows' : rows'[c].user = rows[c].user
    PROVE  LocksInv'
  <1>1. /\ \A q \in Requests \ {r} : pc'[q] = pc[q] /\ job'[q] = job[q]
        /\ Held(r)' = {} /\ Sound(r)'
    BY DoneHolds, TypeOKParts
  <1>2. QED
    BY <1>1, StepSound

-----------------------------------------------------------------------------
(* What the writes do to the tree. *)

(* Columns the tree does not consist of may be rewritten. *)
LEMMA ColumnsTree ==
    ASSUME TypeOK, TreeIntact, NEW f, DOMAIN f = DOMAIN rows, rows' = f,
           \A c \in DOMAIN rows :
               /\ f[c].parent = rows[c].parent /\ f[c].root = rows[c].root
               /\ f[c].thread = rows[c].thread /\ f[c].depth = rows[c].depth
    PROVE  TreeIntact'
  BY DEF TypeOK, TreeIntact, WellPlaced

(* The foreign keys leave no reference to what they delete. *)
LEMMA CascadeCloses ==
    ASSUME NEW f, NEW S
    PROVE  /\ S \cap DOMAIN f \subseteq Cascade(f, S)
           /\ \A c \in DOMAIN f : {f[c].parent, f[c].root} \cap Cascade(f, S) # {} => c \in Cascade(f, S)
  BY DEF Cascade, CascadeClosed

(* Clearing parents is always harmless, clearing roots is when the deletion *)
(* takes these roots: the cascade then takes whoever still refers to them.  *)
LEMMA DeleteTree ==
    ASSUME TypeOK, TreeIntact, NEW ps, NEW rs, NEW S, S \subseteq Comments,
           \A c \in rs : rows[c].root \in S, rs \subseteq DOMAIN rows, NEW gone,
           S \cap DOMAIN rows \subseteq gone, NEW f, f = Detach(rows, ps, rs),
           \A c \in DOMAIN f : {f[c].parent, f[c].root} \cap gone # {} => c \in gone,
           rows' = DropRows(f, gone)
    PROVE  TreeIntact'
  <1>1. \A c \in DOMAIN rows : rows[c] \in Row
    BY DEF TypeOK
  <1>2. DOMAIN f = DOMAIN rows
    BY DEF Detach
  <1>3. \A c \in DOMAIN rows :
          /\ f[c].thread = rows[c].thread /\ f[c].depth = rows[c].depth
          /\ f[c].parent = IF c \in ps THEN NoComment ELSE rows[c].parent
          /\ f[c].root = IF c \in rs THEN NoComment ELSE rows[c].root
    BY <1>1 DEF Detach, Row
  <1>4. DOMAIN rows' = DOMAIN rows \ gone /\ \A c \in DOMAIN rows \ gone : rows'[c] = f[c]
    BY <1>2 DEF DropRows
  <1>5. NoComment \notin DOMAIN rows /\ NoComment \notin S
    BY DEF TypeOK, Comments, NoComment
  <1>6. ASSUME NEW c \in DOMAIN rows \ gone
        PROVE  WellPlaced(rows', c)
    <2> DEFINE p == f[c].parent
               t == f[c].root
    <2>1. WellPlaced(rows, c)
      BY DEF TreeIntact
    <2>2. p \notin gone /\ t \notin gone
      BY <1>2
    <2>3. {p, t} \ {NoComment} \subseteq DOMAIN rows \ gone
      BY <1>3, <2>1, <2>2 DEF WellPlaced
    <2>4. ASSUME p # NoComment
          PROVE  /\ p = rows[c].parent /\ p \in DOMAIN rows \ gone
                 /\ f[p].thread = f[c].thread /\ f[c].depth = f[p].depth + 1
                 /\ t \in {NoComment, IF f[p].root = NoComment THEN p ELSE f[p].root}
      <3>1. p = rows[c].parent /\ p \in DOMAIN rows \ gone
        BY <1>3, <2>3, <2>4
      <3>2. /\ rows[p].thread = rows[c].thread /\ rows[c].depth = rows[p].depth + 1
            /\ rows[c].root \in {NoComment, IF rows[p].root = NoComment THEN p ELSE rows[p].root}
        BY <2>1, <2>4, <3>1 DEF WellPlaced
      <3>3. CASE t = NoComment
        BY <1>3, <3>1, <3>2, <3>3
      <3>4. CASE t # NoComment
        <4>1. t = rows[c].root /\ t \in DOMAIN rows \ gone
          BY <1>3, <2>3, <3>4
        <4>2. p \notin rs
          <5>1. SUFFICES ASSUME p \in rs PROVE FALSE
            OBVIOUS
          <5>2. rows[p].root \in S
            BY <5>1
          <5>3. t = rows[p].root
            BY <1>5, <3>2, <3>4, <4>1, <5>2
          <5>4. QED
            BY <4>1, <5>2, <5>3
        <4>3. f[p].root = rows[p].root
          BY <1>3, <3>1, <4>2
        <4>4. QED
          BY <1>3, <3>1, <3>2, <4>1, <4>3
      <3>5. QED
        BY <3>3, <3>4
    <2>5. t # NoComment => f[t].thread = f[c].thread
      BY <1>3, <2>1, <2>3 DEF WellPlaced
    <2>6. f[c].depth <= MaxReplyDepth
      BY <1>3, <2>1 DEF WellPlaced
    <2>7. /\ rows'[c] = f[c]
          /\ p # NoComment => rows'[p] = f[p]
          /\ t # NoComment => rows'[t] = f[t]
      BY <1>4, <2>3
    <2>8. QED
      BY <1>4, <2>3, <2>4, <2>5, <2>6, <2>7 DEF WellPlaced
  <1>7. QED
    BY <1>4, <1>6 DEF TreeIntact

(* A new comment hangs where its locked parent says. *)
LEMMA InsertTree ==
    ASSUME TypeOK, TreeIntact, NEW n, n \notin DOMAIN rows, n # NoComment, NEW t, NEW u, NEW p, NEW g, NEW d, NEW s,
           IF p = NoComment THEN g = NoComment /\ d = 0
           ELSE /\ p \in DOMAIN rows /\ ReplyAllowed(rows[p], t)
                /\ d = rows[p].depth + 1 /\ g = ReplyRoot(rows, p),
           rows' = AddRow(rows, n, NewRow(t, u, p, g, d, s))
    PROVE  TreeIntact'
  <1> DEFINE new == NewRow(t, u, p, g, d, s)
  <1>1. /\ new.thread = t /\ new.parent = p /\ new.root = g /\ new.depth = d
    BY DEF NewRow
  <1> HIDE DEF new
  <1>2. /\ DOMAIN rows' = DOMAIN rows \cup {n}
        /\ rows'[n] = new
        /\ \A c \in DOMAIN rows : rows'[c] = rows[c]
    BY DEF AddRow, new
  <1>3. NoComment \notin DOMAIN rows
    BY DEF TypeOK, Comments, NoComment
  <1>4. ASSUME NEW c \in DOMAIN rows
        PROVE  WellPlaced(rows', c)
    BY <1>2, <1>3 DEF TreeIntact, WellPlaced
  <1>5. WellPlaced(rows', n)
    <2>1. CASE p = NoComment
      BY <1>1, <1>2, <2>1, RulesAssumption DEF WellPlaced
    <2>2. CASE p # NoComment
      <3>1. /\ p \in DOMAIN rows /\ rows[p] \in Row /\ WellPlaced(rows, p)
            /\ ReplyAllowed(rows[p], t) /\ d = rows[p].depth + 1 /\ g = ReplyRoot(rows, p)
        BY <2>2 DEF TypeOK, TreeIntact
      <3>2. g \in DOMAIN rows /\ g # NoComment /\ rows[g].thread = t
        BY <1>3, <2>2, <3>1 DEF ReplyRoot, ReplyAllowed, WellPlaced
      <3>3. rows[p].thread = t /\ d <= MaxReplyDepth
        BY <3>1, RulesAssumption DEF ReplyAllowed, Row
      <3>4. g = IF rows[p].root = NoComment THEN p ELSE rows[p].root
        BY <3>1 DEF ReplyRoot
      <3>5. /\ rows'[n].parent = p /\ rows'[n].root = g /\ rows'[n].depth = d /\ rows'[n].thread = t
            /\ rows'[p] = rows[p] /\ rows'[g] = rows[g] /\ {p, g} \subseteq DOMAIN rows'
        BY <1>1, <1>2, <3>1, <3>2
      <3>6. QED
        BY <2>2, <3>1, <3>2, <3>3, <3>4, <3>5 DEF WellPlaced
    <2>3. QED
      BY <2>1, <2>2
  <1>6. QED
    BY <1>2, <1>4, <1>5 DEF TreeIntact

-----------------------------------------------------------------------------
(* Every action keeps LocksInv. *)

LEMMA BeginCreateHolds ==
    ASSUME LocksInv, TypeOK, TypeOK', NEW r \in Requests, NEW u \in Users, NEW t, NEW p, NEW s,
           BeginCreate(r, u, t, p, s)
    PROVE  LocksInv'
  <1>0. PICK j : j = [NoJob EXCEPT !.op = "create", !.users = {u}, !.thread = t,
                                   !.parent = p, !.status = s]
    OBVIOUS
  <1>1. Begin(r, "lockThread", j)
    BY <1>0 DEF BeginCreate
  <1>2. /\ j.op = "create" /\ j.cutParents = {} /\ j.cutRoots = {} /\ j.plan = NoPlan
        /\ j.depth = 0 /\ j.root = NoComment /\ j.users = {u}
    BY <1>0 DEF NoJob
  <1>3. Fits("lockThread", j)
    BY <1>2, NoJobHolds DEF Fits, CreateSteps, HardSteps, SoftSteps
  <1>4. QED
    BY <1>1, <1>2, <1>3, BeginStep DEF CommentBatches, InThread

LEMMA BeginReplyHolds ==
    ASSUME LocksInv, TypeOK, TypeOK', NEW r \in Requests, NEW u \in Users, NEW p, NEW s,
           BeginReply(r, u, p, s)
    PROVE  LocksInv'
  <1>0. PICK j : j = [NoJob EXCEPT !.op = "reply", !.users = {u}, !.thread = rows[p].thread,
                                   !.parent = p, !.status = s]
    OBVIOUS
  <1>1. Begin(r, "lockThread", j)
    BY <1>0 DEF BeginReply
  <1>2. /\ j.op = "reply" /\ j.cutParents = {} /\ j.cutRoots = {} /\ j.plan = NoPlan
        /\ j.depth = 0 /\ j.root = NoComment /\ j.users = {u}
    BY <1>0 DEF NoJob
  <1>3. Fits("lockThread", j)
    BY <1>2, NoJobHolds DEF Fits, CreateSteps, HardSteps, SoftSteps
  <1>4. QED
    BY <1>1, <1>2, <1>3, BeginStep DEF CommentBatches, InThread

LEMMA InsertHolds ==
    ASSUME LocksInv, TypeOK, TypeOK', ThreadKnown, NEW r \in Requests, InsertComment(r)
    PROVE  LocksInv' /\ nextId \notin DOMAIN rows
  <1>1. PICK u \in job[r].users :
            rows' = AddRow(rows, nextId, NewRow(job[r].thread, u, job[r].parent, job[r].root,
                                                job[r].depth, job[r].status))
    BY DEF InsertComment
  <1>2. /\ pc[r] = "insert" /\ nextId \in Comments /\ nextId' = nextId + 1 /\ Done(r)
        /\ threads' = [threads EXCEPT ![job[r].thread] = "open"]
    BY DEF InsertComment
  <1>3. nextId \notin DOMAIN rows /\ nextId # NoComment /\ DOMAIN rows \subseteq Nat /\ nextId \in Nat
    BY <1>2 DEF LocksInv, IdsBelow, TypeOK, Comments, NoComment
  <1>4. TreeIntact'
    <2>1. PlaceKnown(r) /\ TreeIntact
      BY DEF LocksInv, Sound
    <2>2. QED
      BY <1>1, <1>2, <1>3, <2>1, InsertTree DEF PlaceKnown, CreateSteps
  <1>5. DOMAIN rows' = DOMAIN rows \cup {nextId} /\ \A c \in DOMAIN rows : rows'[c] = rows[c]
    BY <1>1, <1>3 DEF AddRow
  <1>6. IdsBelow'
    BY <1>2, <1>3, <1>5 DEF LocksInv, IdsBelow
  <1>7. \A q \in Requests \ {r} : \A c \in Held(q) : c \in DOMAIN rows' /\ rows'[c] = rows[c]
    BY <1>5 DEF LocksInv, Sound
  <1>8. \A q \in Requests : pc[q] \in InThread => threads'[job[q].thread] # "closed"
    <2>1. \A q \in Requests : pc[q] \in InThread => job[q].thread \in Threads /\ threads[job[q].thread] # "closed"
      BY DEF LocksInv, Sound, ThreadOpen, ThreadKnown, InThread, CreateSteps
    <2>2. \A t \in Threads : threads[t] # "closed" => threads'[t] # "closed"
      BY <1>2 DEF TypeOK
    <2>3. QED
      BY <2>1, <2>2
  <1>9. QED
    BY <1>2, <1>3, <1>4, <1>5, <1>6, <1>7, <1>8, DoneStep

LEMMA CreateHolds ==
    ASSUME LocksInv, TypeOK, TypeOK', ThreadKnown, NEW r \in Requests, CreateNext(r)
    PROVE  LocksInv'
  <1>1. Sound(r)
    BY DEF LocksInv
  <1>2. ASSUME LockThread(r) PROVE LocksInv'
    <2>1. PICK to \in {"checkActor", "lockParent"} : Go(r, "lockThread", to)
      BY <1>2 DEF LockThread
    <2>2. threads[job[r].thread] # "closed" /\ UNCHANGED <<rows, nextId, threads, job>>
      BY <1>2 DEF LockThread
    <2>3. QED
      BY <2>1, <2>2, CreationStep DEF CreateSteps
  <1>3. ASSUME CheckActor(r) \/ UpdateProfile(r) PROVE LocksInv'
    <2>1. PICK from \in {"checkActor", "updateProfile"}, to \in {"updateProfile", "lockParent"} : Go(r, from, to)
      BY <1>3 DEF CheckActor, UpdateProfile
    <2>2. UNCHANGED <<rows, nextId, threads, job>>
      BY <1>3 DEF CheckActor, UpdateProfile
    <2>3. threads[job[r].thread] # "closed"
      BY <1>1, <2>1 DEF Go, Sound, ThreadOpen, InThread
    <2>4. QED
      BY <2>1, <2>2, <2>3, CreationStep DEF CreateSteps
  <1>4. QED
    BY <1>2, <1>3, BeginCreateHolds, BeginReplyHolds, LockParentStep, InsertHolds DEF CreateNext

(* A plan is written over rows that no other request holds. *)
LEMMA ModerationStep ==
    ASSUME LocksInv, TypeOK, TypeOK', NEW r \in Requests, Done(r), UNCHANGED <<nextId, threads>>,
           NEW plan, rows' = WithModeration(rows, plan),
           \A q \in Requests \ {r} : DOMAIN plan \cap Held(q) = {}
    PROVE  LocksInv'
  <1>1. \A c \in DOMAIN rows : rows[c] \in Row
    BY DEF TypeOK
  <1>2. /\ DOMAIN rows' = DOMAIN rows
        /\ \A c \in DOMAIN rows : c \notin DOMAIN plan => rows'[c] = rows[c]
        /\ \A c \in DOMAIN rows :
             /\ rows'[c].parent = rows[c].parent /\ rows'[c].root = rows[c].root
             /\ rows'[c].thread = rows[c].thread /\ rows'[c].depth = rows[c].depth
             /\ rows'[c].user = rows[c].user
    BY <1>1 DEF WithModeration, Row
  <1>3. TreeIntact' /\ IdsBelow'
    BY <1>2, ColumnsTree DEF LocksInv, IdsBelow
  <1>4. \A q \in Requests \ {r} : \A c \in Held(q) : c \in DOMAIN rows' /\ rows'[c] = rows[c]
    BY <1>2 DEF LocksInv, Sound
  <1>5. QED
    BY <1>2, <1>3, <1>4, ThreadsStay, DoneStep

LEMMA PinStep ==
    ASSUME LocksInv, TypeOK, TypeOK', NEW r \in Requests, Done(r), UNCHANGED <<nextId, threads>>,
           NEW S, NEW pinned, rows' = WithPinned(rows, S, pinned),
           \A q \in Requests \ {r} : S \cap Held(q) = {}
    PROVE  LocksInv'
  <1>1. \A c \in DOMAIN rows : rows[c] \in Row
    BY DEF TypeOK
  <1>2. /\ DOMAIN rows' = DOMAIN rows
        /\ \A c \in DOMAIN rows : c \notin S => rows'[c] = rows[c]
        /\ \A c \in DOMAIN rows :
             /\ rows'[c].parent = rows[c].parent /\ rows'[c].root = rows[c].root
             /\ rows'[c].thread = rows[c].thread /\ rows'[c].depth = rows[c].depth
             /\ rows'[c].user = rows[c].user
    BY <1>1 DEF WithPinned, Row
  <1>3. TreeIntact' /\ IdsBelow'
    BY <1>2, ColumnsTree DEF LocksInv, IdsBelow
  <1>4. \A q \in Requests \ {r} : \A c \in Held(q) : c \in DOMAIN rows' /\ rows'[c] = rows[c]
    BY <1>2 DEF LocksInv, Sound
  <1>5. QED
    BY <1>2, <1>3, <1>4, ThreadsStay, DoneStep

(* Deleting softly remembers the status that was read. *)
LEMMA TransitionRemembers ==
    ASSUME NEW m \in Moderation, NEW a \in AdminActions, Applicable(m, a),
           Transition(m, a).status = "deleted"
    PROVE  Transition(m, a).before = m.status
  <1>1. CASE a = "softDelete"
    BY <1>1 DEF Transition, SoftDeleted
  <1>2. CASE a = "restore"
    BY <1>2 DEF Transition, Restored, Initial, Applicable, Moderation, LiveStatus
  <1>3. CASE a = "spam"
    BY <1>3 DEF Transition, SpamOf, Initial
  <1>4. CASE a \in {"publish", "pending"}
    BY <1>4 DEF Transition, Initial, TargetStatus
  <1>5. QED
    BY <1>1, <1>2, <1>3, <1>4 DEF AdminActions

LEMMA BeginBatchHolds ==
    ASSUME LocksInv, TypeOK, TypeOK', NEW r \in Requests, NEW S, NEW a \in AdminActions,
           BeginBatch(r, S, a)
    PROVE  LocksInv'
  <1> DEFINE D == {d \in S : ~BatchUnchanged(rows[d].mod, a)}
  <1>0. PICK plan : plan = [c \in D |-> Transition(rows[c].mod, a)]
    OBVIOUS
  <1>1. PICK j : j = [NoJob EXCEPT !.op = "batch", !.targets = S, !.plan = plan]
    OBVIOUS
  <1>2. Begin(r, "writeBatch", j)
    BY <1>0, <1>1 DEF BeginBatch
  <1>3. j.op = "batch" /\ j.cutParents = {} /\ j.cutRoots = {} /\ j.plan = plan /\ j.targets = S
    BY <1>1 DEF NoJob
  <1>4. S \subseteq DOMAIN rows /\ RowsFree(r, S)
    BY DEF BeginBatch, LockTargets
  <1>5. ASSUME NEW c \in D, plan[c].status = "deleted"
        PROVE  plan[c].before = rows[c].mod.status
    <2>1. rows[c].mod \in Moderation /\ Applicable(rows[c].mod, a)
      BY <1>4 DEF BeginBatch, BatchAccepts, TypeOK, Row
    <2>2. plan[c] = Transition(rows[c].mod, a)
      BY <1>0
    <2>3. QED
      BY <1>5, <2>1, <2>2, TransitionRemembers
  <1>6. DOMAIN plan = D /\ D \subseteq S
    BY <1>0
  <1> HIDE DEF D
  <1>7. Fits("writeBatch", j)
    BY <1>3, <1>6 DEF Fits, CreateSteps, HardSteps, SoftSteps
  <1>8. QED
    BY <1>2, <1>3, <1>4, <1>5, <1>6, <1>7, BeginStep DEF InThread

LEMMA BeginBatchPinHolds ==
    ASSUME LocksInv, TypeOK, TypeOK', NEW r \in Requests, NEW S, NEW pinned,
           BeginBatchPin(r, S, pinned)
    PROVE  LocksInv'
  <1>1. PICK j : j = [NoJob EXCEPT !.op = "batchPin", !.targets = S, !.pinned = pinned]
    OBVIOUS
  <1>2. Begin(r, "writeBatch", j)
    BY <1>1 DEF BeginBatchPin
  <1>3. /\ j.op = "batchPin" /\ j.cutParents = {} /\ j.cutRoots = {} /\ j.plan = NoPlan /\ j.targets = S
        /\ j.pinned = pinned
    BY <1>1 DEF NoJob
  <1>4. S \subseteq DOMAIN rows /\ RowsFree(r, S)
    BY DEF BeginBatchPin, LockTargets
  <1>5. pinned => \A c \in S : rows[c].mod.status = "published"
    BY DEF BeginBatchPin, PinTargetOk
  <1>6. Fits("writeBatch", j)
    BY <1>3, NoJobHolds DEF Fits, CreateSteps, HardSteps, SoftSteps
  <1>7. QED
    BY <1>2, <1>3, <1>4, <1>5, <1>6, BeginStep DEF InThread

LEMMA ModerationHolds ==
    ASSUME LocksInv, TypeOK, TypeOK', NEW r \in Requests, ModerationNext(r)
    PROVE  LocksInv'
  <1>1. Sound(r)
    BY DEF LocksInv
  <1>2. ASSUME NEW c, NEW a, BeginTransition(r, c, a) PROVE LocksInv'
    <2>0. PICK plan : plan = [d \in {c} |-> Transition(rows[c].mod, a)]
      OBVIOUS
    <2>1. PICK j : j = [NoJob EXCEPT !.op = "transition", !.targets = {c}, !.plan = plan]
      OBVIOUS
    <2>2. Begin(r, "updateStatus", j)
      BY <1>2, <2>0, <2>1 DEF BeginTransition
    <2>3. j.op = "transition" /\ j.cutParents = {} /\ j.cutRoots = {} /\ j.plan = plan /\ j.targets = {c}
      BY <2>1 DEF NoJob
    <2>4. DOMAIN plan = {c}
      BY <2>0
    <2>5. Fits("updateStatus", j)
      BY <2>3, <2>4 DEF Fits, CreateSteps, HardSteps, SoftSteps
    <2>6. QED
      BY <2>2, <2>3, <2>5, BeginStep DEF InThread, CommentBatches
  <1>3. ASSUME NEW c, NEW pinned, BeginPin(r, c, pinned) PROVE LocksInv'
    <2>1. PICK j : j = [NoJob EXCEPT !.op = "pin", !.targets = {c}, !.pinned = pinned]
      OBVIOUS
    <2>2. Begin(r, "setPinned", j)
      BY <1>3, <2>1 DEF BeginPin
    <2>3. j.op = "pin" /\ j.cutParents = {} /\ j.cutRoots = {} /\ j.plan = NoPlan
      BY <2>1 DEF NoJob
    <2>4. Fits("setPinned", j)
      BY <2>3, NoJobHolds DEF Fits, CreateSteps, HardSteps, SoftSteps
    <2>5. QED
      BY <2>2, <2>3, <2>4, BeginStep DEF InThread, CommentBatches
  <1>4. ASSUME UpdateStatus(r) PROVE LocksInv'
    <2>1. \A q \in Requests \ {r} : DOMAIN job[r].plan \cap Held(q) = {}
      BY <1>1, <1>4 DEF UpdateStatus, RowsFree, Held, Sound, StepFits, Fits
    <2>2. QED
      BY <1>4, <2>1, ModerationStep DEF UpdateStatus
  <1>5. ASSUME SetPinned(r) PROVE LocksInv'
    <2>1. \A q \in Requests \ {r} : job[r].targets \cap Held(q) = {}
      BY <1>5 DEF SetPinned, RowsFree, Held
    <2>2. QED
      BY <1>5, <2>1, PinStep DEF SetPinned
  <1>6. ASSUME WriteBatch(r) PROVE LocksInv'
    <2>1. job[r].targets \subseteq Held(r)
      BY <1>1, <1>6 DEF WriteBatch, Sound, StepFits, Fits, Held, RowsLocked, InTx, CommentBatches
    <2>2. \A q \in Requests \ {r} : job[r].targets \cap Held(q) = {}
      BY <2>1 DEF LocksInv, HeldApart
    <2>3. \A q \in Requests \ {r} : DOMAIN job[r].plan \cap Held(q) = {}
      BY <1>1, <2>2 DEF Sound, StepFits, Fits
    <2>4. CASE job[r].op = "batchPin"
      BY <1>6, <2>2, <2>4, PinStep DEF WriteBatch
    <2>5. CASE job[r].op # "batchPin"
      BY <1>6, <2>3, <2>5, ModerationStep DEF WriteBatch
    <2>6. QED
      BY <2>4, <2>5
  <1>7. QED
    BY <1>2, <1>3, <1>4, <1>5, <1>6, BeginBatchHolds, BeginBatchPinHolds DEF ModerationNext

LEMMA BeginDeletionHolds ==
    ASSUME LocksInv, TypeOK, TypeOK', NEW r \in Requests
    PROVE  /\ \A c : BeginHardDelete(r, c) => LocksInv'
           /\ \A S : BeginBatchHardDelete(r, S) => LocksInv'
           /\ \A U, op : op \in UserHardDeletes /\ BeginUserHardDelete(r, U, op) => LocksInv'
           /\ \A U, op : op \in UserSoftDeletes /\ BeginUserSoftDelete(r, U, op) => LocksInv'
  <1>1. ASSUME NEW c, BeginHardDelete(r, c) PROVE LocksInv'
    <2>1. PICK j : j = [NoJob EXCEPT !.op = "hardDelete", !.targets = {c}]
      OBVIOUS
    <2>2. Begin(r, "scanParents", j)
      BY <1>1, <2>1 DEF BeginHardDelete
    <2>3. j.op = "hardDelete" /\ j.users = {} /\ j.cutParents = {} /\ j.cutRoots = {} /\ j.plan = NoPlan
      BY <2>1 DEF NoJob
    <2>4. Fits("scanParents", j)
      BY <2>3, NoJobHolds DEF Fits, CreateSteps, HardSteps, SoftSteps
    <2>5. QED
      BY <2>2, <2>3, <2>4, BeginStep DEF InThread, CommentBatches
  <1>2. ASSUME NEW S, BeginBatchHardDelete(r, S) PROVE LocksInv'
    <2>1. PICK j : j = [NoJob EXCEPT !.op = "batchHardDelete", !.targets = S]
      OBVIOUS
    <2>2. Begin(r, "scanParents", j) /\ S \subseteq DOMAIN rows /\ RowsFree(r, S)
      BY <1>2, <2>1 DEF BeginBatchHardDelete, LockTargets
    <2>3. j.op = "batchHardDelete" /\ j.users = {} /\ j.cutParents = {} /\ j.cutRoots = {} /\ j.plan = NoPlan /\ j.targets = S
      BY <2>1 DEF NoJob
    <2>4. Fits("scanParents", j)
      BY <2>3, NoJobHolds DEF Fits, CreateSteps, HardSteps, SoftSteps
    <2>5. QED
      BY <2>2, <2>3, <2>4, BeginStep DEF InThread
  <1>3. ASSUME NEW U, NEW op, NEW step,
               \/ op \in UserHardDeletes /\ step = "scanParents"
               \/ op \in UserSoftDeletes /\ step = "softDeleteUsers",
               Begin(r, step, [NoJob EXCEPT !.op = op, !.users = U])
        PROVE  LocksInv'
    <2>1. PICK j : j = [NoJob EXCEPT !.op = op, !.users = U]
      OBVIOUS
    <2>2. Begin(r, step, j)
      BY <1>3, <2>1
    <2>3. j.op = op /\ j.cutParents = {} /\ j.cutRoots = {} /\ j.plan = NoPlan
      BY <2>1 DEF NoJob
    <2>4. op \notin CommentBatches
      BY <1>3 DEF UserHardDeletes, UserSoftDeletes, CommentBatches
    <2>5. Fits(step, j)
      BY <1>3, <2>3, NoJobHolds DEF Fits, CreateSteps, HardSteps, SoftSteps
    <2>6. QED
      BY <1>3, <2>2, <2>3, <2>4, <2>5, BeginStep DEF InThread
  <1>4. ASSUME NEW U, NEW op, op \in UserHardDeletes, BeginUserHardDelete(r, U, op) PROVE LocksInv'
    BY <1>3, <1>4 DEF BeginUserHardDelete
  <1>5. ASSUME NEW U, NEW op, op \in UserSoftDeletes, BeginUserSoftDelete(r, U, op) PROVE LocksInv'
    BY <1>3, <1>5 DEF BeginUserSoftDelete
  <1>6. QED
    BY <1>1, <1>2, <1>4, <1>5

(* A deletion that reads, or waits, stages what it then holds. *)
LEMMA StagingHolds ==
    ASSUME LocksInv, TypeOK, TypeOK', NEW r \in Requests
    PROVE  /\ ScanParents(r) => LocksInv'
           /\ DetachParents(r) => LocksInv'
           /\ ScanRoots(r) => LocksInv'
           /\ DetachRoots(r) => LocksInv'
           /\ SoftDeleteUsers(r) => LocksInv'
           /\ ScanOwned(r) => LocksInv'
  <1>1. job[r] \in Job /\ Sound(r)
    BY DEF TypeOK, LocksInv
  <1>2. RowsFree(r, {})
    BY DEF RowsFree
  <1>3. RowsStaged(r) = job[r].cutParents \cup job[r].cutRoots
    BY DEF RowsStaged
  <1>4. \A c \in job[r].cutRoots : rows[c].root \in Selected(r)
    BY <1>1 DEF Sound, RootsCut
  <1>5. ASSUME NEW from, NEW to, NEW j, NEW X, Go(r, from, to), job' = [job EXCEPT ![r] = j],
               j = [job[r] EXCEPT !.scan = X], UNCHANGED <<rows, nextId, threads>>,
               <<from, to>> \in {<<"scanParents", "detachParents">>, <<"scanRoots", "detachRoots">>,
                                 <<"scanOwned", "softDeleteOwned">>}
        PROVE  LocksInv'
    <2>1. /\ j.op = job[r].op /\ j.targets = job[r].targets /\ j.users = job[r].users
          /\ j.plan = job[r].plan /\ j.cutParents = job[r].cutParents /\ j.cutRoots = job[r].cutRoots
      BY <1>1, <1>5 DEF Job
    <2>3. (from \in HardSteps /\ to \in HardSteps) \/ (from \in SoftSteps /\ to \in SoftSteps)
      BY <1>5 DEF HardSteps, SoftSteps
    <2>4. j.cutParents \cup j.cutRoots \subseteq RowsStaged(r) \cup {}
      BY <1>3, <2>1
    <2>5. \A c \in j.cutRoots : rows[c].root \in Selected(r)
      BY <1>4, <2>1
    <2>6. QED
      BY <1>2, <1>5, <2>1, <2>3, <2>4, <2>5, DeletionStep
  <1>6. ASSUME ScanParents(r) PROVE LocksInv'
    BY <1>5, <1>6 DEF ScanParents
  <1>7. ASSUME ScanRoots(r) PROVE LocksInv'
    BY <1>5, <1>7 DEF ScanRoots
  <1>8. ASSUME ScanOwned(r) PROVE LocksInv'
    BY <1>5, <1>8 DEF ScanOwned
  <1>9. ASSUME SoftDeleteUsers(r) PROVE LocksInv'
    <2>1. Go(r, "softDeleteUsers", "scanOwned") /\ UNCHANGED <<rows, nextId, threads>>
      BY <1>9 DEF SoftDeleteUsers
    <2>2. job' = [job EXCEPT ![r] = job[r]]
      BY <1>9 DEF SoftDeleteUsers, TypeOK
    <2>3. QED
      BY <1>2, <1>3, <1>4, <2>1, <2>2, DeletionStep DEF SoftSteps
  <1>10. ASSUME DetachParents(r) PROVE LocksInv'
    <2>0. PICK j : j = [job[r] EXCEPT !.cutParents = job[r].scan \cap ParentRefs(r), !.scan = {}]
      OBVIOUS
    <2>1. /\ Go(r, "detachParents", "scanRoots") /\ UNCHANGED <<rows, nextId, threads>>
          /\ job' = [job EXCEPT ![r] = j] /\ RowsFree(r, job[r].scan)
      BY <1>10, <2>0 DEF DetachParents
    <2>2. /\ j.op = job[r].op /\ j.targets = job[r].targets /\ j.users = job[r].users
          /\ j.plan = job[r].plan /\ j.cutRoots = job[r].cutRoots
          /\ j.cutParents = job[r].scan \cap ParentRefs(r)
      BY <1>1, <2>0 DEF Job
    <2>3. ParentRefs(r) \subseteq DOMAIN rows /\ RowsFree(r, job[r].scan \cap ParentRefs(r))
      BY <2>1 DEF ParentRefs, Kept, RowsFree
    <2>5. j.cutParents \cup j.cutRoots \subseteq RowsStaged(r) \cup (job[r].scan \cap ParentRefs(r))
      BY <1>3, <2>2
    <2>6. QED
      BY <1>4, <2>1, <2>2, <2>3, <2>5, DeletionStep DEF HardSteps
  <1>11. ASSUME DetachRoots(r) PROVE LocksInv'
    <2>0. PICK j : j = [job[r] EXCEPT !.cutRoots = job[r].scan \cap RootRefs(r), !.scan = {}]
      OBVIOUS
    <2>1. /\ Go(r, "detachRoots", "delete") /\ UNCHANGED <<rows, nextId, threads>>
          /\ job' = [job EXCEPT ![r] = j] /\ RowsFree(r, job[r].scan)
      BY <1>11, <2>0 DEF DetachRoots
    <2>2. /\ j.op = job[r].op /\ j.targets = job[r].targets /\ j.users = job[r].users
          /\ j.plan = job[r].plan /\ j.cutParents = job[r].cutParents
          /\ j.cutRoots = job[r].scan \cap RootRefs(r)
      BY <1>1, <2>0 DEF Job
    <2>3. RootRefs(r) \subseteq DOMAIN rows /\ RowsFree(r, job[r].scan \cap RootRefs(r))
      BY <2>1 DEF RootRefs, Kept, RowsFree
    <2>5. j.cutParents \cup j.cutRoots \subseteq RowsStaged(r) \cup (job[r].scan \cap RootRefs(r))
      BY <1>3, <2>2
    <2>6. \A c \in j.cutRoots : rows[c].root \in Selected(r)
      BY <2>2 DEF RootRefs, RootIn
    <2>7. QED
      BY <2>1, <2>2, <2>3, <2>5, <2>6, DeletionStep DEF HardSteps
  <1>12. QED
    BY <1>6, <1>7, <1>8, <1>9, <1>10, <1>11

LEMMA DeleteHolds ==
    ASSUME LocksInv, TypeOK, TypeOK', NEW r \in Requests, Delete(r)
    PROVE  LocksInv'
  <1>0. PICK f : f = Detach(rows, job[r].cutParents, job[r].cutRoots)
    OBVIOUS
  <1> PICK gone : gone = Cascade(f, Selected(r))
    OBVIOUS
  <1>1. /\ rows' = DropRows(f, gone) /\ UNCHANGED <<nextId, threads>> /\ Done(r)
        /\ \A q \in Requests \ {r} : gone \cap Held(q) = {}
    BY <1>0 DEF Delete, RowsFree, Held
  <1>2. Sound(r) /\ job[r] \in Job /\ \A c \in DOMAIN rows : rows[c] \in Row
    BY DEF LocksInv, TypeOK
  <1>3. /\ DOMAIN f = DOMAIN rows
        /\ \A c \in DOMAIN rows : f[c].user = rows[c].user
        /\ \A c \in DOMAIN rows : c \notin job[r].cutParents \cup job[r].cutRoots => f[c] = rows[c]
    BY <1>0, <1>2 DEF Detach, Row
  <1>4. DOMAIN rows' = DOMAIN rows \ gone /\ \A c \in DOMAIN rows \ gone : rows'[c] = f[c]
    BY <1>1, <1>3 DEF DropRows
  <1>5. TreeIntact'
    <2>1. /\ Selected(r) \cap DOMAIN rows \subseteq gone
          /\ \A c \in DOMAIN f : {f[c].parent, f[c].root} \cap gone # {} => c \in gone
      BY <1>3, CascadeCloses
    <2>2. Selected(r) \subseteq Comments
      BY <1>2 DEF Selected, Job, TypeOK
    <2>3. \A c \in job[r].cutRoots : rows[c].root \in Selected(r)
      BY <1>2 DEF Sound, RootsCut
    <2>4. job[r].cutRoots \subseteq DOMAIN rows /\ TreeIntact
      BY <1>2 DEF Sound, Held, RowsStaged, LocksInv
    <2>5. QED
      BY <1>0, <1>1, <2>1, <2>2, <2>3, <2>4, DeleteTree
  <1>6. IdsBelow'
    BY <1>1, <1>4 DEF LocksInv, IdsBelow
  <1>7. ASSUME NEW q \in Requests \ {r}, NEW c \in Held(q)
        PROVE  c \in DOMAIN rows' /\ rows'[c] = rows[c]
    <2>1. c \in DOMAIN rows \ gone
      BY <1>1 DEF LocksInv, Sound
    <2>2. c \notin Held(r)
      BY DEF LocksInv, HeldApart
    <2>3. c \notin job[r].cutParents \cup job[r].cutRoots
      BY <2>2 DEF Held, RowsStaged
    <2>4. QED
      BY <1>3, <1>4, <2>1, <2>3
  <1>8. \A c \in DOMAIN rows \cap DOMAIN rows' : rows'[c].user = rows[c].user
    BY <1>3, <1>4
  <1>9. QED
    BY <1>1, <1>5, <1>6, <1>7, <1>8, ThreadsStay, DoneStep

LEMMA HardDeleteHolds ==
    ASSUME LocksInv, TypeOK, TypeOK', NEW r \in Requests, HardDeleteNext(r)
    PROVE  LocksInv'
  <1>1. "userHardDelete" \in UserHardDeletes /\ "usersHardDelete" \in UserHardDeletes
    BY DEF UserHardDeletes
  <1>2. QED
    BY <1>1, BeginDeletionHolds, StagingHolds, DeleteHolds DEF HardDeleteNext

(* Commands of a single action leave every request where it is. *)
LEMMA ImmediateStep ==
    ASSUME LocksInv, TypeOK, TypeOK', TreeIntact', nextId' = nextId, UNCHANGED <<pc, job>>,
           DOMAIN rows' \subseteq DOMAIN rows, \A c \in DOMAIN rows' : rows'[c] = rows[c],
           \A q \in Requests : Held(q) \subseteq DOMAIN rows',
           \A q \in Requests : pc[q] \in InThread => threads'[job[q].thread] # "closed"
    PROVE  LocksInv'
  <1>1. \A q \in Requests : Sound(q)' /\ Held(q)' = Held(q)
    BY OtherSound
  <1>2. HeldApart'
    BY <1>1 DEF LocksInv, HeldApart
  <1>3. IdsBelow'
    BY DEF LocksInv, IdsBelow
  <1>4. QED
    BY <1>1, <1>2, <1>3 DEF LocksInv

LEMMA AccountHolds ==
    ASSUME LocksInv, TypeOK, TypeOK', NEW r \in Requests, AccountNext(r)
    PROVE  LocksInv'
  <1>1. ASSUME SoftDeleteOwned(r) PROVE LocksInv'
    <2>0. PICK plan : plan = [c \in job[r].scan \cap Owned(r) |-> SoftDeleted(rows[c].mod)]
      OBVIOUS
    <2>1. /\ rows' = WithModeration(rows, plan) /\ Done(r) /\ UNCHANGED <<nextId, threads>>
          /\ RowsFree(r, job[r].scan)
      BY <1>1, <2>0 DEF SoftDeleteOwned
    <2>2. \A q \in Requests \ {r} : DOMAIN plan \cap Held(q) = {}
      BY <2>0, <2>1 DEF RowsFree, Held
    <2>3. QED
      BY <2>1, <2>2, ModerationStep
  <1>2. ASSUME NEW u, RestoreUser(r, u) PROVE LocksInv'
    <2>1. UNCHANGED <<rows, nextId, threads, pc, job>>
      BY <1>2 DEF RestoreUser, Immediate
    <2>2. TreeIntact' /\ \A q \in Requests : Held(q) \subseteq DOMAIN rows'
      BY <2>1 DEF LocksInv, TreeIntact, WellPlaced, Sound
    <2>3. QED
      BY <2>1, <2>2, ThreadsStay, ImmediateStep
  <1>3. "userSoftDelete" \in UserSoftDeletes /\ "usersSoftDelete" \in UserSoftDeletes
    BY DEF UserSoftDeletes
  <1>4. QED
    BY <1>1, <1>2, <1>3, BeginDeletionHolds, StagingHolds DEF AccountNext

LEMMA ThreadHolds ==
    ASSUME LocksInv, TypeOK, TypeOK', ThreadKnown, NEW r \in Requests, ThreadNext(r)
    PROVE  LocksInv'
  <1>1. ASSUME pc[r] = "idle"
        PROVE  Held(r) = {}
    <2>1. job[r] = NoJob
      BY <1>1 DEF LocksInv, Sound, StepFits, Fits
    <2>2. QED
      BY <1>1, <2>1, NoJobHolds DEF Held, RowsLocked, RowsStaged, InTx
  <1>2. \A q \in Requests : pc[q] \in InThread => job[q].thread \in Threads /\ threads[job[q].thread] # "closed"
    BY DEF LocksInv, Sound, ThreadOpen, ThreadKnown, InThread, CreateSteps
  <1>3. ASSUME NEW S, NEW state, SetThreads(r, S, state) PROVE LocksInv'
    <2>1. /\ UNCHANGED <<rows, nextId, pc, job>> /\ pc[r] = "idle"
          /\ \A t \in S : ThreadFree(r, t)
          /\ threads' = [t \in Threads |-> IF t \in S THEN state ELSE threads[t]]
      BY <1>3 DEF SetThreads, Immediate
    <2>2. TreeIntact' /\ \A q \in Requests : Held(q) \subseteq DOMAIN rows'
      BY <2>1 DEF LocksInv, TreeIntact, WellPlaced, Sound
    <2>3. \A q \in Requests : pc[q] \in InThread => threads'[job[q].thread] # "closed"
      <3>1. \A q \in Requests : pc[q] \in InThread => job[q].thread \notin S
        BY <2>1 DEF ThreadFree, InThread
      <3>2. QED
        BY <1>2, <2>1, <3>1
    <2>4. QED
      BY <2>1, <2>2, <2>3, ImmediateStep
  <1>4. ASSUME NEW S, DeleteThreads(r, S) PROVE LocksInv'
    <2> PICK gone : gone = Cascade(rows, {c \in DOMAIN rows : rows[c].thread \in S})
      OBVIOUS
    <2>1. /\ rows' = DropRows(rows, gone) /\ UNCHANGED <<nextId, pc, job>> /\ pc[r] = "idle"
          /\ RowsFree(r, gone)
          /\ threads' = [t \in Threads |-> IF t \in S THEN "absent" ELSE threads[t]]
      BY <1>4 DEF DeleteThreads, Immediate
    <2>2. /\ DOMAIN rows' = DOMAIN rows \ gone
          /\ \A c \in DOMAIN rows' : rows'[c] = rows[c]
      BY <2>1 DEF DropRows
    <2>3. \A c \in DOMAIN rows : {rows[c].parent, rows[c].root} \cap gone # {} => c \in gone
      BY CascadeCloses
    <2>4. TreeIntact'
      <3>1. NoComment \notin DOMAIN rows
        BY DEF TypeOK, Comments, NoComment
      <3>2. SUFFICES ASSUME NEW c \in DOMAIN rows' PROVE WellPlaced(rows', c)
        BY DEF TreeIntact
      <3>3. c \in DOMAIN rows /\ c \notin gone /\ rows'[c] = rows[c] /\ WellPlaced(rows, c)
        BY <2>2, <3>2 DEF LocksInv, TreeIntact
      <3>4. {rows[c].parent, rows[c].root} \cap gone = {}
        BY <2>3, <3>3
      <3>5. \A d \in {rows[c].parent, rows[c].root} \ {NoComment} :
              d \in DOMAIN rows' /\ rows'[d] = rows[d]
        BY <2>2, <3>3, <3>4 DEF WellPlaced
      <3>6. QED
        BY <3>3, <3>5 DEF WellPlaced
    <2>5. \A q \in Requests : Held(q) \subseteq DOMAIN rows'
      BY <1>1, <2>1, <2>2 DEF LocksInv, Sound, RowsFree, Held
    <2>6. \A q \in Requests : pc[q] \in InThread => threads'[job[q].thread] # "closed"
      BY <1>2, <2>1
    <2>7. QED
      BY <2>1, <2>2, <2>4, <2>5, <2>6, ImmediateStep
  <1>5. QED
    BY <1>3, <1>4 DEF ThreadNext

LEMMA FailHolds ==
    ASSUME LocksInv, TypeOK, TypeOK', NEW r \in Requests, Fail(r)
    PROVE  LocksInv'
  <1>1. Done(r) /\ UNCHANGED <<rows, nextId, threads>>
    BY DEF Fail
  <1>2. TreeIntact' /\ IdsBelow'
    BY <1>1 DEF LocksInv, TreeIntact, WellPlaced, IdsBelow
  <1>3. \A q \in Requests \ {r} : \A c \in Held(q) : c \in DOMAIN rows' /\ rows'[c] = rows[c]
    BY <1>1 DEF LocksInv, Sound
  <1>4. QED
    BY <1>1, <1>2, <1>3, ThreadsStay, DoneStep

LEMMA LocksInit == Init => LocksInv
  <1> SUFFICES ASSUME Init PROVE LocksInv
    OBVIOUS
  <1>1. /\ DOMAIN rows = {}
        /\ \A q \in Requests : pc[q] = "idle" /\ job[q] = NoJob
    BY DEF Init
  <1>2. \A q \in Requests : Held(q) = {}
    BY <1>1, NoJobHolds DEF Held, RowsLocked, RowsStaged, InTx
  <1>3. \A q \in Requests : Sound(q)
    BY <1>1, <1>2, NoJobHolds
    DEF Sound, StepFits, Fits, ThreadOpen, PlaceKnown, BatchCurrent, RootsCut, CreateSteps, HardSteps, SoftSteps, InThread
  <1>4. QED
    BY <1>1, <1>2, <1>3 DEF LocksInv, HeldApart, IdsBelow, TreeIntact

LEMMA LocksNext == LocksInv /\ Inv /\ Inv' /\ [Next]_vars => LocksInv'
  <1> SUFFICES ASSUME LocksInv, Inv, Inv', [Next]_vars PROVE LocksInv'
    OBVIOUS
  <1>1. TypeOK /\ TypeOK' /\ ThreadKnown
    BY DEF Inv
  <1>2. CASE Next
    BY <1>1, <1>2, CreateHolds, ModerationHolds, HardDeleteHolds, AccountHolds, ThreadHolds,
       FailHolds DEF Next
  <1>3. CASE UNCHANGED vars
    <2>1. UNCHANGED <<rows, nextId, threads, pc, job>>
      BY <1>3 DEF vars
    <2>2. TreeIntact' /\ \A q \in Requests : Held(q) \subseteq DOMAIN rows'
      BY <2>1 DEF LocksInv, TreeIntact, WellPlaced, Sound
    <2>3. QED
      BY <1>1, <2>1, <2>2, ThreadsStay, ImmediateStep
  <1>4. QED
    BY <1>2, <1>3

(* The rows that creations, batches and deletions have locked or staged are *)
(* disjoint, and what each has read of its own rows, thread and parent      *)
(* still holds when it writes.                                              *)
THEOREM StoreLocks == Spec => []LocksInv
  BY StoreInvariant, LocksInit, LocksNext, PTL DEF Spec

(* Every reply hangs below a parent of its own thread, one level deeper and *)
(* under the same root, in both dialects and whatever commands run: the     *)
(* insert waits for whoever deletes its parent, and the deletions and their *)
(* cascade leave no reference behind.                                       *)
THEOREM StoreTreeIntact == Spec => []TreeIntact
  <1>1. LocksInv => TreeIntact
    BY DEF LocksInv
  <1>2. QED
    BY <1>1, StoreLocks, PTL

-----------------------------------------------------------------------------
(* Who writes the table of comments. *)

(* The statements that write comments. *)
RowWriter(r) ==
    \/ InsertComment(r) \/ UpdateStatus(r) \/ SetPinned(r) \/ WriteBatch(r)
    \/ Delete(r) \/ SoftDeleteOwned(r)
    \/ \E S : DeleteThreads(r, S)

(* A step of one request. *)
StepOf(r) ==
    \/ CreateNext(r) \/ ModerationNext(r) \/ HardDeleteNext(r)
    \/ AccountNext(r) \/ ThreadNext(r) \/ Fail(r)

LEMMA EveryStepOf == Next <=> \E r \in Requests : StepOf(r)
  BY DEF Next, StepOf

LEMMA WritersOnly ==
    ASSUME NEW r \in Requests, StepOf(r)
    PROVE  UNCHANGED rows \/ RowWriter(r)
  <1>1. CreateNext(r) => UNCHANGED rows \/ InsertComment(r)
    BY DEF CreateNext, BeginCreate, BeginReply, Begin, LockThread, CheckActor, UpdateProfile, LockParent
  <1>2. ModerationNext(r) => UNCHANGED rows \/ UpdateStatus(r) \/ SetPinned(r) \/ WriteBatch(r)
    BY DEF ModerationNext, BeginTransition, BeginPin, BeginBatch, BeginBatchPin, Begin
  <1>3. HardDeleteNext(r) => UNCHANGED rows \/ Delete(r)
    BY DEF HardDeleteNext, BeginHardDelete, BeginBatchHardDelete, BeginUserHardDelete, Begin,
           ScanParents, DetachParents, ScanRoots, DetachRoots
  <1>4. AccountNext(r) => UNCHANGED rows \/ SoftDeleteOwned(r)
    BY DEF AccountNext, BeginUserSoftDelete, Begin, SoftDeleteUsers, ScanOwned, RestoreUser
  <1>5. ThreadNext(r) => UNCHANGED rows \/ \E S : DeleteThreads(r, S)
    BY DEF ThreadNext, SetThreads
  <1>6. Fail(r) => UNCHANGED rows
    BY DEF Fail
  <1>7. QED
    BY <1>1, <1>2, <1>3, <1>4, <1>5, <1>6 DEF StepOf, RowWriter

(* What each of them does to the columns of the comments that stay. *)
LEMMA PlanWrites ==
    ASSUME TypeOK, NEW plan, rows' = WithModeration(rows, plan)
    PROVE  /\ DOMAIN rows' = DOMAIN rows
           /\ \A c \in DOMAIN rows :
                /\ rows'[c].pinned = rows[c].pinned
                /\ rows'[c].user = rows[c].user
                /\ rows'[c].mod = IF c \in DOMAIN plan THEN plan[c] ELSE rows[c].mod
  <1>1. \A c \in DOMAIN rows : rows[c] \in Row
    BY DEF TypeOK
  <1>2. QED
    BY <1>1 DEF WithModeration, Row

LEMMA PinWrites ==
    ASSUME TypeOK, NEW S, NEW pinned, rows' = WithPinned(rows, S, pinned)
    PROVE  /\ DOMAIN rows' = DOMAIN rows
           /\ \A c \in DOMAIN rows :
                /\ rows'[c].mod = rows[c].mod
                /\ rows'[c].user = rows[c].user
                /\ rows'[c].pinned = IF c \in S THEN pinned ELSE rows[c].pinned
  <1>1. \A c \in DOMAIN rows : rows[c] \in Row
    BY DEF TypeOK
  <1>2. QED
    BY <1>1 DEF WithPinned, Row

LEMMA RemovalWrites ==
    ASSUME TypeOK, NEW r \in Requests, Delete(r) \/ \E S : DeleteThreads(r, S)
    PROVE  /\ DOMAIN rows' \subseteq DOMAIN rows
           /\ \A c \in DOMAIN rows' :
                /\ rows'[c].mod = rows[c].mod
                /\ rows'[c].user = rows[c].user
                /\ rows'[c].pinned = rows[c].pinned
  <1>1. \A c \in DOMAIN rows : rows[c] \in Row
    BY DEF TypeOK
  <1>2. CASE Delete(r)
    <2>1. PICK f, gone : f = Detach(rows, job[r].cutParents, job[r].cutRoots) /\ rows' = DropRows(f, gone)
      BY <1>2 DEF Delete
    <2>2. /\ DOMAIN f = DOMAIN rows
          /\ \A c \in DOMAIN rows :
               f[c].mod = rows[c].mod /\ f[c].user = rows[c].user /\ f[c].pinned = rows[c].pinned
      BY <1>1, <2>1 DEF Detach, Row
    <2>3. QED
      BY <2>1, <2>2 DEF DropRows
  <1>3. ASSUME NEW S, DeleteThreads(r, S)
        PROVE  DOMAIN rows' \subseteq DOMAIN rows /\ \A c \in DOMAIN rows' : rows'[c] = rows[c]
    <2>1. PICK gone : rows' = DropRows(rows, gone)
      BY <1>3 DEF DeleteThreads
    <2>2. QED
      BY <2>1 DEF DropRows
  <1>4. QED
    BY <1>2, <1>3

LEMMA InsertWrites ==
    ASSUME LocksInv, TypeOK, TypeOK', ThreadKnown, NEW r \in Requests, InsertComment(r)
    PROVE  /\ nextId \notin DOMAIN rows /\ DOMAIN rows' = DOMAIN rows \cup {nextId}
           /\ \A c \in DOMAIN rows : rows'[c] = rows[c]
           /\ \E u \in job[r].users :
                rows'[nextId] = NewRow(job[r].thread, u, job[r].parent, job[r].root,
                                       job[r].depth, job[r].status)
  <1>1. nextId \notin DOMAIN rows
    BY InsertHolds
  <1>2. PICK u \in job[r].users :
            rows' = AddRow(rows, nextId, NewRow(job[r].thread, u, job[r].parent, job[r].root,
                                                job[r].depth, job[r].status))
    BY DEF InsertComment
  <1>3. QED
    BY <1>1, <1>2 DEF AddRow

(* Only an insertion adds a comment. *)
LEMMA OnlyInsertAdds ==
    ASSUME TypeOK, NEW r \in Requests, StepOf(r), NEW c \in DOMAIN rows' \ DOMAIN rows
    PROVE  InsertComment(r)
  <1>1. RowWriter(r)
    BY WritersOnly
  <1>2. UpdateStatus(r) \/ SetPinned(r) \/ WriteBatch(r) \/ SoftDeleteOwned(r) => DOMAIN rows' = DOMAIN rows
    BY DEF UpdateStatus, SetPinned, WriteBatch, SoftDeleteOwned, WithModeration, WithPinned
  <1>3. Delete(r) \/ (\E S : DeleteThreads(r, S)) => DOMAIN rows' \subseteq DOMAIN rows
    BY RemovalWrites
  <1>4. QED
    BY <1>1, <1>2, <1>3 DEF RowWriter

LEMMA EntryStep ==
    ASSUME LocksInv, Inv, Inv', [Next]_vars, NEW c \in DOMAIN rows' \ DOMAIN rows
    PROVE  /\ threads[rows'[c].thread] # "closed"
           /\ rows'[c].parent # NoComment =>
                /\ rows'[c].parent \in DOMAIN rows
                /\ rows[rows'[c].parent].mod.status = "published"
  <1>1. TypeOK /\ TypeOK' /\ ThreadKnown
    BY DEF Inv
  <1>2. PICK r \in Requests : InsertComment(r)
    BY <1>1, OnlyInsertAdds, EveryStepOf DEF vars
  <1>3. /\ c = nextId
        /\ \E u \in job[r].users :
             rows'[c] = NewRow(job[r].thread, u, job[r].parent, job[r].root, job[r].depth, job[r].status)
    BY <1>1, <1>2, InsertWrites
  <1>4. rows'[c].thread = job[r].thread /\ rows'[c].parent = job[r].parent
    BY <1>3 DEF NewRow
  <1>5. pc[r] = "insert" /\ ThreadOpen(r) /\ PlaceKnown(r)
    BY <1>2 DEF InsertComment, LocksInv, Sound
  <1>6. threads[job[r].thread] # "closed"
    BY <1>5 DEF ThreadOpen, InThread
  <1>7. job[r].parent # NoComment =>
          job[r].parent \in DOMAIN rows /\ rows[job[r].parent].mod.status = "published"
    BY <1>5 DEF PlaceKnown, CreateSteps, ReplyAllowed
  <1>8. QED
    BY <1>4, <1>6, <1>7

(* A comment enters only a thread that is open at its commit: the creation  *)
(* holds the thread's row from the check on, and switching it off waits.    *)
THEOREM CommentsEnterOpenThreads == Spec => EntersOpenThread
  <1>1. LocksInv /\ Inv /\ Inv' /\ [Next]_vars =>
          [\A c \in DOMAIN rows' \ DOMAIN rows : threads[rows'[c].thread] # "closed"]_vars
    BY EntryStep
  <1>2. QED
    BY <1>1, StoreInvariant, StoreLocks, PTL DEF Spec, EntersOpenThread

(* A reply goes only below a parent that is published at its commit: no     *)
(* moderation of the parent comes between its locked read and the insert.   *)
THEOREM RepliesGoBelowPublished == Spec => RepliesToPublished
  <1>1. LocksInv /\ Inv /\ Inv' /\ [Next]_vars =>
          [\A c \in DOMAIN rows' \ DOMAIN rows :
              rows'[c].parent # NoComment =>
                  /\ rows'[c].parent \in DOMAIN rows
                  /\ rows[rows'[c].parent].mod.status = "published"]_vars
    BY EntryStep
  <1>2. QED
    BY <1>1, StoreInvariant, StoreLocks, PTL DEF Spec, RepliesToPublished

-----------------------------------------------------------------------------
(* What moderation and pinning write over. *)

LEMMA RemembersStep ==
    ASSUME "transition" \notin Commands, LocksInv, Inv, Inv', [Next]_vars,
           NEW c \in DOMAIN rows \cap DOMAIN rows',
           rows[c].mod.status # "deleted", rows'[c].mod.status = "deleted"
    PROVE  rows'[c].mod.before = rows[c].mod.status
  <1>1. TypeOK /\ TypeOK' /\ ThreadKnown
    BY DEF Inv
  <1>2. PICK r \in Requests : RowWriter(r)
    BY WritersOnly, EveryStepOf DEF vars
  <1>3. Sound(r) /\ job[r].op \in Commands \cup {"none"}
    BY <1>1 DEF LocksInv, TypeOK, Job
  <1>4. ASSUME InsertComment(r) PROVE FALSE
    BY <1>1, <1>4, InsertWrites
  <1>5. ASSUME UpdateStatus(r) PROVE FALSE
    BY <1>3, <1>5 DEF UpdateStatus, Sound, StepFits, Fits
  <1>6. ASSUME Delete(r) \/ \E S : DeleteThreads(r, S) PROVE FALSE
    BY <1>1, <1>6, RemovalWrites
  <1>7. ASSUME NEW S, NEW pinned, rows' = WithPinned(rows, S, pinned) PROVE FALSE
    BY <1>1, <1>7, PinWrites
  <1>8. CASE WriteBatch(r)
    <2>1. pc[r] = "writeBatch" /\ job[r].op = "batch" /\ rows' = WithModeration(rows, job[r].plan)
      BY <1>3, <1>7, <1>8 DEF WriteBatch, Sound, StepFits, Fits
    <2>2. c \in DOMAIN job[r].plan /\ rows'[c].mod = job[r].plan[c]
      BY <1>1, <2>1, PlanWrites
    <2>3. QED
      BY <1>3, <2>1, <2>2 DEF Sound, BatchCurrent
  <1>9. CASE SoftDeleteOwned(r)
    <2>1. PICK plan : /\ plan = [d \in job[r].scan \cap Owned(r) |-> SoftDeleted(rows[d].mod)]
                      /\ rows' = WithModeration(rows, plan)
      BY <1>9 DEF SoftDeleteOwned
    <2>2. rows'[c].mod = IF c \in DOMAIN plan THEN plan[c] ELSE rows[c].mod
      BY <1>1, <2>1, PlanWrites
    <2>3. c \in job[r].scan \cap Owned(r) /\ rows'[c].mod = SoftDeleted(rows[c].mod)
      BY <2>1, <2>2
    <2>4. QED
      BY <2>3 DEF SoftDeleted
  <1>10. QED
    BY <1>2, <1>4, <1>5, <1>6, <1>7, <1>8, <1>9 DEF RowWriter, SetPinned

LEMMA PinsStep ==
    ASSUME "pin" \notin Commands, LocksInv, Inv, Inv', [Next]_vars,
           NEW c \in DOMAIN rows \cap DOMAIN rows', ~rows[c].pinned, rows'[c].pinned
    PROVE  rows[c].mod.status = "published"
  <1>1. TypeOK /\ TypeOK' /\ ThreadKnown
    BY DEF Inv
  <1>2. PICK r \in Requests : RowWriter(r)
    BY WritersOnly, EveryStepOf DEF vars
  <1>3. Sound(r) /\ job[r].op \in Commands \cup {"none"}
    BY <1>1 DEF LocksInv, TypeOK, Job
  <1>4. ASSUME InsertComment(r) PROVE FALSE
    BY <1>1, <1>4, InsertWrites
  <1>5. ASSUME SetPinned(r) PROVE FALSE
    BY <1>3, <1>5 DEF SetPinned, Sound, StepFits, Fits
  <1>6. ASSUME Delete(r) \/ \E S : DeleteThreads(r, S) PROVE FALSE
    BY <1>1, <1>6, RemovalWrites
  <1>7. ASSUME NEW plan, rows' = WithModeration(rows, plan) PROVE FALSE
    BY <1>1, <1>7, PlanWrites
  <1>8. CASE WriteBatch(r)
    <2>1. /\ pc[r] = "writeBatch" /\ job[r].op = "batchPin"
          /\ rows' = WithPinned(rows, job[r].targets, job[r].pinned)
      BY <1>7, <1>8 DEF WriteBatch
    <2>2. c \in job[r].targets /\ job[r].pinned
      BY <1>1, <2>1, PinWrites
    <2>3. QED
      BY <1>3, <2>1, <2>2 DEF Sound, BatchCurrent
  <1>9. QED
    BY <1>2, <1>4, <1>5, <1>6, <1>7, <1>8 DEF RowWriter, UpdateStatus, SoftDeleteOwned

(* The batch commands and the deletion of users remember the status each    *)
(* comment had when it was deleted.  The single-comment transition is left  *)
(* out: it writes by id what it read earlier, without a transaction, and    *)
(* then remembers a status that may be gone.                                *)
THEOREM BatchDeletionsRemember ==
    ASSUME "transition" \notin Commands
    PROVE  Spec => DeletionRemembersStatus
  <1>1. LocksInv /\ Inv /\ Inv' /\ [Next]_vars =>
          [\A c \in DOMAIN rows \cap DOMAIN rows' :
              rows[c].mod.status # "deleted" /\ rows'[c].mod.status = "deleted" =>
                  rows'[c].mod.before = rows[c].mod.status]_vars
    BY RemembersStep
  <1>2. QED
    BY <1>1, StoreInvariant, StoreLocks, PTL DEF Spec, DeletionRemembersStatus

(* The batch command pins only what is published at that moment.  The       *)
(* single-comment pin is left out: it looks at the comment before, and      *)
(* nothing keeps the comment as it was.                                     *)
THEOREM BatchPinsPublished ==
    ASSUME "pin" \notin Commands
    PROVE  Spec => PinsPublished
  <1>1. LocksInv /\ Inv /\ Inv' /\ [Next]_vars =>
          [\A c \in DOMAIN rows \cap DOMAIN rows' :
              ~rows[c].pinned /\ rows'[c].pinned => rows[c].mod.status = "published"]_vars
    BY PinsStep
  <1>2. QED
    BY <1>1, StoreInvariant, StoreLocks, PTL DEF Spec, PinsPublished

-----------------------------------------------------------------------------
(* What one request does to the others. *)

Others(r) == \A q \in Requests \ {r} : pc'[q] = pc[q] /\ job'[q] = job[q]

LEMMA JobOthers ==
    ASSUME TypeOK, NEW r \in Requests, NEW from, NEW to, NEW j, Go(r, from, to),
           job' = [job EXCEPT ![r] = j]
    PROVE  /\ pc[r] = from /\ pc'[r] = to /\ job'[r] = j /\ Others(r)
  BY GoOthers, TypeOKParts DEF Others, TypeOK

LEMMA SameOthers ==
    ASSUME TypeOK, NEW r \in Requests, NEW from, NEW to, Go(r, from, to), UNCHANGED job
    PROVE  /\ pc[r] = from /\ pc'[r] = to /\ Others(r)
  BY GoOthers, TypeOKParts DEF Others

LEMMA DoneOthers ==
    ASSUME TypeOK, NEW r \in Requests, Done(r)
    PROVE  /\ pc'[r] = "idle" /\ job'[r] = NoJob /\ Others(r)
  BY DoneHolds, TypeOKParts DEF Others

(* Held comments stay as they are: nobody else writes or deletes them. *)
LEMMA HeldUntouched ==
    ASSUME LocksInv, Inv, Inv', NEW r \in Requests, RowWriter(r), NEW q \in Requests \ {r},
           NEW c \in Held(q)
    PROVE  c \in DOMAIN rows' /\ rows'[c] = rows[c]
  <1>1. TypeOK /\ TypeOK' /\ ThreadKnown
    BY DEF Inv
  <1>2. c \in DOMAIN rows /\ c \notin Held(r) /\ Sound(r)
    BY DEF LocksInv, Sound, HeldApart
  <1>3. \A S : RowsFree(r, S) => c \notin S
    BY DEF RowsFree, Held
  <1>4. CASE InsertComment(r)
    BY <1>1, <1>2, <1>4, InsertWrites
  <1>5. ASSUME NEW plan, rows' = WithModeration(rows, plan), c \notin DOMAIN plan
        PROVE  c \in DOMAIN rows' /\ rows'[c] = rows[c]
    BY <1>2, <1>5 DEF WithModeration
  <1>6. ASSUME NEW S, NEW pinned, rows' = WithPinned(rows, S, pinned), c \notin S
        PROVE  c \in DOMAIN rows' /\ rows'[c] = rows[c]
    BY <1>2, <1>6 DEF WithPinned
  <1>7. CASE UpdateStatus(r)
    BY <1>2, <1>3, <1>5, <1>7 DEF UpdateStatus, Sound, StepFits, Fits
  <1>8. CASE SetPinned(r)
    BY <1>3, <1>6, <1>8 DEF SetPinned
  <1>9. CASE WriteBatch(r)
    <2>1. job[r].targets \subseteq Held(r)
      BY <1>2, <1>9 DEF WriteBatch, Sound, StepFits, Fits, Held, RowsLocked, InTx, CommentBatches
    <2>2. c \notin job[r].targets /\ c \notin DOMAIN job[r].plan
      BY <1>2, <2>1 DEF Sound, StepFits, Fits
    <2>3. QED
      BY <1>5, <1>6, <1>9, <2>2 DEF WriteBatch
  <1>10. CASE SoftDeleteOwned(r)
    <2>1. PICK plan : /\ plan = [d \in job[r].scan \cap Owned(r) |-> SoftDeleted(rows[d].mod)]
                      /\ rows' = WithModeration(rows, plan)
      BY <1>10 DEF SoftDeleteOwned
    <2>2. c \notin DOMAIN plan
      BY <1>3, <1>10, <2>1 DEF SoftDeleteOwned
    <2>3. QED
      BY <1>5, <2>1, <2>2
  <1>11. CASE Delete(r)
    <2>1. PICK f, gone : /\ f = Detach(rows, job[r].cutParents, job[r].cutRoots)
                         /\ rows' = DropRows(f, gone) /\ RowsFree(r, gone)
      BY <1>11 DEF Delete
    <2>2. c \notin gone /\ c \notin job[r].cutParents /\ c \notin job[r].cutRoots
      BY <1>2, <1>3, <2>1 DEF Held, RowsStaged
    <2>3. DOMAIN f = DOMAIN rows /\ f[c] = rows[c]
      BY <1>1, <1>2, <2>1, <2>2 DEF Detach, TypeOK, Row
    <2>4. QED
      BY <1>2, <2>1, <2>2, <2>3 DEF DropRows
  <1>12. ASSUME NEW S, DeleteThreads(r, S)
         PROVE  c \in DOMAIN rows' /\ rows'[c] = rows[c]
    <2>1. PICK gone : rows' = DropRows(rows, gone) /\ RowsFree(r, gone)
      BY <1>12 DEF DeleteThreads
    <2>2. QED
      BY <1>2, <1>3, <2>1 DEF DropRows
  <1>13. QED
    BY <1>4, <1>7, <1>8, <1>9, <1>10, <1>11, <1>12 DEF RowWriter

-----------------------------------------------------------------------------
(* The file database: one writer at a time. *)

LEMMA StepOthers ==
    ASSUME TypeOK, NEW r \in Requests, StepOf(r)
    PROVE  Others(r)
  <1>1. \A step, j : Begin(r, step, j) => Others(r)
    BY BeginOthers, TypeOKParts DEF Others
  <1>2. \A from, to : Go(r, from, to) /\ UNCHANGED job => Others(r)
    BY SameOthers
  <1>3. \A from, to, j : Go(r, from, to) /\ job' = [job EXCEPT ![r] = j] => Others(r)
    BY JobOthers
  <1>4. Done(r) => Others(r)
    BY DoneOthers
  <1>5. CASE CreateNext(r)
    <2>1. LockParent(r) => Others(r)
      BY <1>2, <1>3 DEF LockParent
    <2>2. QED
      BY <1>1, <1>2, <1>4, <1>5, <2>1
      DEF CreateNext, BeginCreate, BeginReply, LockThread, CheckActor, UpdateProfile, InsertComment
  <1>6. CASE ModerationNext(r)
    BY <1>1, <1>4, <1>6
    DEF ModerationNext, BeginTransition, BeginPin, BeginBatch, BeginBatchPin, UpdateStatus, SetPinned,
        WriteBatch
  <1>7. CASE HardDeleteNext(r)
    <2>2. ScanParents(r) \/ DetachParents(r) \/ ScanRoots(r) \/ DetachRoots(r) => Others(r)
      BY <1>3 DEF ScanParents, DetachParents, ScanRoots, DetachRoots
    <2>3. QED
      BY <1>1, <1>4, <1>7, <2>2
      DEF HardDeleteNext, BeginHardDelete, BeginBatchHardDelete, BeginUserHardDelete, Delete
  <1>8. CASE AccountNext(r)
    <2>1. ScanOwned(r) => Others(r)
      BY <1>3 DEF ScanOwned
    <2>2. \A u : RestoreUser(r, u) => Others(r)
      BY DEF RestoreUser, Immediate, Others
    <2>3. QED
      BY <1>1, <1>2, <1>4, <1>8, <2>1, <2>2
      DEF AccountNext, BeginUserSoftDelete, SoftDeleteUsers, SoftDeleteOwned
  <1>9. CASE ThreadNext(r)
    BY <1>9 DEF ThreadNext, SetThreads, DeleteThreads, Immediate, Others
  <1>10. CASE Fail(r)
    BY <1>4, <1>10 DEF Fail
  <1>11. QED
    BY <1>5, <1>6, <1>7, <1>8, <1>9, <1>10 DEF StepOf

-----------------------------------------------------------------------------
(* Where one writer excludes the others, what a transaction has read of    *)
(* the accounts and the comments still holds when it commits.              *)

OneWriter == \A p, q \in Requests : InTx(p) /\ InTx(q) => p = q

(* Whoever writes, or is in a transaction, is alone in it. *)
Alone(r) == \A q \in Requests \ {r} : ~InTx(q)
Outside(r) == ~InTx(r)' /\ UNCHANGED <<rows, accounts>>

LEMMA WriteAlone ==
    ASSUME Dialect = "sqlite", NEW r \in Requests, CanWrite(r)
    PROVE  Alone(r)
  BY DEF CanWrite, Alone

LEMMA TxAlone ==
    ASSUME OneWriter, NEW r \in Requests, InTx(r)
    PROVE  Alone(r)
  BY DEF OneWriter, Alone

LEMMA StepAlone ==
    ASSUME Dialect = "sqlite", TypeOK, OneWriter, NEW r \in Requests, StepOf(r)
    PROVE  Alone(r) \/ Outside(r)
  <1>1. CASE CreateNext(r)
    <2>1. ASSUME NEW j, Begin(r, "lockThread", j) PROVE Outside(r)
      BY <2>1, BeginOthers, TypeOKParts DEF Begin, Outside, InTx
    <2>2. CanWrite(r) \/ InTx(r) => Alone(r)
      BY WriteAlone, TxAlone
    <2>3. pc[r] \in {"checkActor", "updateProfile", "lockParent", "insert"} => InTx(r)
      BY DEF InTx
    <2>4. QED
      BY <1>1, <2>1, <2>2, <2>3
      DEF CreateNext, BeginCreate, BeginReply, LockThread, CheckActor, UpdateProfile, LockParent,
          InsertComment, Go
  <1>2. CASE ModerationNext(r)
    <2>1. ASSUME NEW j, NEW step \in {"updateStatus", "setPinned"}, Begin(r, step, j) PROVE Outside(r)
      BY <2>1, BeginOthers, TypeOKParts DEF Begin, Outside, InTx
    <2>2. CanWrite(r) \/ InTx(r) => Alone(r)
      BY WriteAlone, TxAlone
    <2>3. pc[r] = "writeBatch" => InTx(r)
      BY DEF InTx
    <2>4. QED
      BY <1>2, <2>1, <2>2, <2>3
      DEF ModerationNext, BeginTransition, BeginPin, BeginBatch, BeginBatchPin, LockTargets,
          UpdateStatus, SetPinned, WriteBatch
  <1>3. CASE HardDeleteNext(r)
    <2>1. ASSUME NEW c, BeginHardDelete(r, c) PROVE Outside(r)
      <3>1. PICK j : j = [NoJob EXCEPT !.op = "hardDelete", !.targets = {c}]
        OBVIOUS
      <3>2. Begin(r, "scanParents", j) /\ j.op = "hardDelete"
        BY <2>1, <3>1 DEF BeginHardDelete, NoJob
      <3>3. pc'[r] = "scanParents" /\ job'[r] = j /\ UNCHANGED <<rows, accounts>>
        BY <3>2, BeginOthers, TypeOKParts DEF Begin
      <3>4. QED
        BY <3>2, <3>3 DEF Outside, InTx
    <2>2. CanWrite(r) \/ InTx(r) => Alone(r)
      BY WriteAlone, TxAlone
    <2>3. pc[r] \in {"detachParents", "scanRoots", "detachRoots", "delete"} => InTx(r)
      BY DEF InTx
    <2>4. QED
      BY <1>3, <2>1, <2>2, <2>3
      DEF HardDeleteNext, BeginBatchHardDelete, BeginUserHardDelete, LockTargets,
          ScanParents, DetachParents, ScanRoots, DetachRoots, Delete, Go
  <1>4. CASE AccountNext(r) \/ ThreadNext(r)
    <2>1. CanWrite(r) \/ InTx(r) => Alone(r)
      BY WriteAlone, TxAlone
    <2>2. pc[r] \in {"softDeleteUsers", "scanOwned", "softDeleteOwned"} => InTx(r)
      BY DEF InTx
    <2>3. QED
      BY <1>4, <2>1, <2>2
      DEF AccountNext, BeginUserSoftDelete, SoftDeleteUsers, ScanOwned, SoftDeleteOwned, RestoreUser,
          ThreadNext, SetThreads, DeleteThreads, Immediate, Go
  <1>5. CASE Fail(r)
    <2>1. pc'[r] = "idle" /\ UNCHANGED <<rows, accounts>>
      BY <1>5, DoneOthers DEF Fail
    <2>2. QED
      BY <2>1 DEF Outside, InTx
  <1>6. QED
    BY <1>1, <1>2, <1>3, <1>4, <1>5 DEF StepOf

LEMMA OneWriterNext ==
    ASSUME Dialect = "sqlite"
    PROVE  TypeOK /\ OneWriter /\ [Next]_vars => OneWriter'
  <1> SUFFICES ASSUME TypeOK, OneWriter, [Next]_vars PROVE OneWriter'
    OBVIOUS
  <1>1. ASSUME NEW r \in Requests, StepOf(r) PROVE OneWriter'
    <2>1. \A q \in Requests \ {r} : InTx(q)' <=> InTx(q)
      BY <1>1, StepOthers DEF Others, InTx
    <2>2. Alone(r) \/ Outside(r)
      BY <1>1, StepAlone
    <2>3. QED
      BY <2>1, <2>2 DEF OneWriter, Alone, Outside
  <1>2. CASE UNCHANGED vars
    BY <1>2 DEF vars, OneWriter, InTx
  <1>3. QED
    BY <1>1, <1>2, EveryStepOf

(* In the file database at most one request is inside a transaction that    *)
(* writes.                                                                  *)
THEOREM StoreOneWriter ==
    ASSUME Dialect = "sqlite"
    PROVE  Spec => []OneWriter
  <1>1. Init => OneWriter
    BY DEF Init, OneWriter, InTx
  <1>2. TypeOK /\ OneWriter /\ [Next]_vars => OneWriter'
    BY OneWriterNext
  <1>3. QED
    BY <1>1, <1>2, TypeCorrect, PTL DEF Spec

-----------------------------------------------------------------------------
(* What deletions know of the rows they are about to delete. *)

(* The UPDATEs have matched, or written, every row they are meant for. *)
OwnedKnown(q) == pc[q] = "softDeleteOwned" => job[q].scan = Owned(q)

CutsKnown(q) ==
    /\ pc[q] = "detachParents" => ParentRefs(q) \subseteq job[q].scan
    /\ pc[q] \in {"scanRoots", "detachRoots", "delete"} => job[q].cutParents = ParentRefs(q)
    /\ pc[q] = "detachRoots" => RootRefs(q) \subseteq job[q].scan
    /\ pc[q] = "delete" => job[q].cutRoots = RootRefs(q)

Steady(q) == OwnedKnown(q) /\ CutsKnown(q)
AllSteady == \A q \in Requests : Steady(q)

(* The author was not deleted when the creation looked. *)
ActorChecked(q) ==
    pc[q] \in {"updateProfile", "lockParent", "insert"} /\ job[q].op = "create" =>
        \A u \in job[q].users : accounts[u] # "deleted"

(* Outside these steps there is nothing to know. *)
SteadySteps == {"softDeleteOwned", "detachParents", "scanRoots", "detachRoots", "delete"}

LEMMA NothingToKnow ==
    ASSUME NEW q \in Requests, pc'[q] \notin SteadySteps
    PROVE  Steady(q)'
  BY DEF SteadySteps, Steady, OwnedKnown, CutsKnown

LEMMA RefsOfJob ==
    ASSUME NEW q \in Requests, job'[q].op = job[q].op, job'[q].targets = job[q].targets,
           job'[q].users = job[q].users, UNCHANGED rows
    PROVE  /\ ParentRefs(q)' = ParentRefs(q) /\ RootRefs(q)' = RootRefs(q) /\ Owned(q)' = Owned(q)
  BY DEF ParentRefs, RootRefs, Kept, Selected, Owned

(* A request knows what it has read as long as it does nothing but read. *)
LEMMA OwnSteady ==
    ASSUME TypeOK, LocksInv, NEW r \in Requests, StepOf(r), Steady(r)
    PROVE  Steady(r)'
  <1>0. job[r] \in Job
    BY DEF TypeOK
  <1>1. ASSUME NEW j, NEW step \in Steps \ SteadySteps, Begin(r, step, j) PROVE Steady(r)'
    BY <1>1, BeginOthers, TypeOKParts, NothingToKnow
  <1>2. ASSUME Done(r) PROVE Steady(r)'
    <2>1. pc'[r] = "idle"
      BY <1>2, DoneOthers
    <2>2. QED
      BY <2>1, NothingToKnow DEF SteadySteps
  <1>3. {"lockThread", "updateStatus", "setPinned", "writeBatch", "scanParents", "softDeleteUsers"}
            \subseteq Steps \ SteadySteps
    BY DEF Steps, SteadySteps
  <1>4. CASE CreateNext(r)
    <2>1. ASSUME NEW from, NEW to \in CreateSteps, Go(r, from, to) PROVE Steady(r)'
      <3>1. pc'[r] = to
        BY <2>1, GoOthers, TypeOKParts
      <3>2. QED
        BY <3>1, NothingToKnow DEF CreateSteps, SteadySteps
    <2>2. {"checkActor", "updateProfile", "lockParent", "insert"} \subseteq CreateSteps
      BY DEF CreateSteps
    <2>3. LockThread(r) => \E to \in CreateSteps : Go(r, "lockThread", to)
      BY <2>2 DEF LockThread
    <2>4. QED
      BY <1>1, <1>2, <1>3, <1>4, <2>1, <2>2, <2>3
      DEF CreateNext, BeginCreate, BeginReply, CheckActor, UpdateProfile, LockParent, InsertComment
  <1>5. CASE ModerationNext(r)
    BY <1>1, <1>2, <1>3, <1>5
    DEF ModerationNext, BeginTransition, BeginPin, BeginBatch, BeginBatchPin, UpdateStatus, SetPinned,
        WriteBatch
  <1>6. CASE HardDeleteNext(r)
    <2>1. ASSUME NEW from, NEW to, NEW j, Go(r, from, to), job' = [job EXCEPT ![r] = j], UNCHANGED rows,
                 j.op = job[r].op, j.targets = job[r].targets, j.users = job[r].users
          PROVE  /\ pc[r] = from /\ pc'[r] = to /\ job'[r] = j
                 /\ ParentRefs(r)' = ParentRefs(r) /\ RootRefs(r)' = RootRefs(r)
      <3>1. pc[r] = from /\ pc'[r] = to /\ job'[r] = j
        BY <2>1, JobOthers
      <3>2. ParentRefs(r)' = ParentRefs(r) /\ RootRefs(r)' = RootRefs(r)
        BY <2>1, <3>1, RefsOfJob
      <3>3. QED
        BY <3>1, <3>2
    <2>2. ASSUME ScanParents(r) PROVE Steady(r)'
      <3>0. PICK j : j = [job[r] EXCEPT !.scan = ParentRefs(r)]
        OBVIOUS
      <3>1. Go(r, "scanParents", "detachParents") /\ job' = [job EXCEPT ![r] = j] /\ UNCHANGED rows
        BY <2>2, <3>0 DEF ScanParents
      <3>2. /\ j.op = job[r].op /\ j.targets = job[r].targets /\ j.users = job[r].users
            /\ j.scan = ParentRefs(r)
        BY <1>0, <3>0 DEF Job
      <3>3. /\ pc[r] = "scanParents" /\ pc'[r] = "detachParents" /\ job'[r] = j
            /\ ParentRefs(r)' = ParentRefs(r) /\ RootRefs(r)' = RootRefs(r)
        BY <2>1, <3>1, <3>2
      <3>4. QED
        BY <3>2, <3>3 DEF Steady, OwnedKnown, CutsKnown
    <2>3. ASSUME DetachParents(r) PROVE Steady(r)'
      <3>0. PICK j : j = [job[r] EXCEPT !.cutParents = job[r].scan \cap ParentRefs(r), !.scan = {}]
        OBVIOUS
      <3>1. Go(r, "detachParents", "scanRoots") /\ job' = [job EXCEPT ![r] = j] /\ UNCHANGED rows
        BY <2>3, <3>0 DEF DetachParents
      <3>2. /\ j.op = job[r].op /\ j.targets = job[r].targets /\ j.users = job[r].users
            /\ j.cutParents = job[r].scan \cap ParentRefs(r)
        BY <1>0, <3>0 DEF Job
      <3>3. /\ pc[r] = "detachParents" /\ pc'[r] = "scanRoots" /\ job'[r] = j
            /\ ParentRefs(r)' = ParentRefs(r) /\ RootRefs(r)' = RootRefs(r)
        BY <2>1, <3>1, <3>2
      <3>4. QED
        BY <3>2, <3>3 DEF Steady, OwnedKnown, CutsKnown
    <2>4. ASSUME ScanRoots(r) PROVE Steady(r)'
      <3>0. PICK j : j = [job[r] EXCEPT !.scan = RootRefs(r)]
        OBVIOUS
      <3>1. Go(r, "scanRoots", "detachRoots") /\ job' = [job EXCEPT ![r] = j] /\ UNCHANGED rows
        BY <2>4, <3>0 DEF ScanRoots
      <3>2. /\ j.op = job[r].op /\ j.targets = job[r].targets /\ j.users = job[r].users
            /\ j.scan = RootRefs(r) /\ j.cutParents = job[r].cutParents
        BY <1>0, <3>0 DEF Job
      <3>3. /\ pc[r] = "scanRoots" /\ pc'[r] = "detachRoots" /\ job'[r] = j
            /\ ParentRefs(r)' = ParentRefs(r) /\ RootRefs(r)' = RootRefs(r)
        BY <2>1, <3>1, <3>2
      <3>4. QED
        BY <3>2, <3>3 DEF Steady, OwnedKnown, CutsKnown
    <2>5. ASSUME DetachRoots(r) PROVE Steady(r)'
      <3>0. PICK j : j = [job[r] EXCEPT !.cutRoots = job[r].scan \cap RootRefs(r), !.scan = {}]
        OBVIOUS
      <3>1. Go(r, "detachRoots", "delete") /\ job' = [job EXCEPT ![r] = j] /\ UNCHANGED rows
        BY <2>5, <3>0 DEF DetachRoots
      <3>2. /\ j.op = job[r].op /\ j.targets = job[r].targets /\ j.users = job[r].users
            /\ j.cutRoots = job[r].scan \cap RootRefs(r) /\ j.cutParents = job[r].cutParents
        BY <1>0, <3>0 DEF Job
      <3>3. /\ pc[r] = "detachRoots" /\ pc'[r] = "delete" /\ job'[r] = j
            /\ ParentRefs(r)' = ParentRefs(r) /\ RootRefs(r)' = RootRefs(r)
        BY <2>1, <3>1, <3>2
      <3>4. QED
        BY <3>2, <3>3 DEF Steady, OwnedKnown, CutsKnown
    <2>6. QED
      BY <1>1, <1>2, <1>3, <1>6, <2>2, <2>3, <2>4, <2>5
      DEF HardDeleteNext, BeginHardDelete, BeginBatchHardDelete, BeginUserHardDelete, Delete
  <1>7. CASE AccountNext(r)
    <2>1. ASSUME SoftDeleteUsers(r) PROVE Steady(r)'
      <3>1. pc'[r] = "scanOwned"
        BY <2>1, GoOthers, TypeOKParts DEF SoftDeleteUsers
      <3>2. QED
        BY <3>1, NothingToKnow DEF SteadySteps
    <2>2. ASSUME ScanOwned(r) PROVE Steady(r)'
      <3>0. PICK j : j = [job[r] EXCEPT !.scan = Owned(r)]
        OBVIOUS
      <3>1. Go(r, "scanOwned", "softDeleteOwned") /\ job' = [job EXCEPT ![r] = j] /\ UNCHANGED rows
        BY <2>2, <3>0 DEF ScanOwned
      <3>2. /\ j.op = job[r].op /\ j.targets = job[r].targets /\ j.users = job[r].users
            /\ j.scan = Owned(r)
        BY <1>0, <3>0 DEF Job
      <3>3. pc'[r] = "softDeleteOwned" /\ job'[r] = j
        BY <3>1, JobOthers
      <3>4. Owned(r)' = Owned(r)
        BY <3>1, <3>2, <3>3, RefsOfJob
      <3>5. QED
        BY <3>2, <3>3, <3>4 DEF Steady, OwnedKnown, CutsKnown
    <2>3. ASSUME NEW u, RestoreUser(r, u) PROVE Steady(r)'
      <3>1. pc'[r] = "idle"
        BY <2>3 DEF RestoreUser, Immediate
      <3>2. QED
        BY <3>1, NothingToKnow DEF SteadySteps
    <2>4. QED
      BY <1>1, <1>2, <1>3, <1>7, <2>1, <2>2, <2>3 DEF AccountNext, BeginUserSoftDelete, SoftDeleteOwned
  <1>8. CASE ThreadNext(r)
    <2>1. pc'[r] = "idle"
      BY <1>8 DEF ThreadNext, SetThreads, DeleteThreads, Immediate
    <2>2. QED
      BY <2>1, NothingToKnow DEF SteadySteps
  <1>9. CASE Fail(r)
    BY <1>2, <1>9 DEF Fail
  <1>10. QED
    BY <1>4, <1>5, <1>6, <1>7, <1>8, <1>9 DEF StepOf

(* And so does a creation that has looked at its author. *)
LEMMA OwnActor ==
    ASSUME TypeOK, NEW r \in Requests, StepOf(r), ActorChecked(r)
    PROVE  ActorChecked(r)'
  <1>1. ASSUME NEW to, pc'[r] = to, to \notin {"updateProfile", "lockParent", "insert"} PROVE ActorChecked(r)'
    BY <1>1 DEF ActorChecked
  <1>2. ASSUME NEW j, NEW step \in {"lockThread", "updateStatus", "setPinned", "writeBatch", "scanParents",
                                    "softDeleteUsers"}, Begin(r, step, j)
        PROVE  ActorChecked(r)'
    BY <1>1, <1>2, BeginOthers, TypeOKParts
  <1>3. Done(r) => ActorChecked(r)'
    BY <1>1, DoneOthers
  <1>4. ASSUME NEW from, NEW to \in {"detachParents", "scanRoots", "detachRoots", "delete", "scanOwned",
                                     "softDeleteOwned"}, Go(r, from, to)
        PROVE  ActorChecked(r)'
    BY <1>1, <1>4, GoOthers, TypeOKParts
  <1>5. CASE CreateNext(r)
    <2>1. ASSUME LockThread(r) PROVE ActorChecked(r)'
      BY <2>1, <1>4, SameOthers DEF LockThread, ActorChecked
    <2>2. ASSUME CheckActor(r) PROVE ActorChecked(r)'
      BY <2>2, SameOthers DEF CheckActor, ActorChecked
    <2>3. ASSUME UpdateProfile(r) PROVE ActorChecked(r)'
      BY <2>3, SameOthers DEF UpdateProfile, ActorChecked
    <2>4. ASSUME LockParent(r) PROVE ActorChecked(r)'
      <3>1. job'[r].op = job[r].op /\ job'[r].users = job[r].users /\ UNCHANGED accounts
        BY <2>4 DEF LockParent, TypeOK, Job
      <3>2. pc[r] = "lockParent" /\ pc'[r] = "insert"
        BY <2>4, GoOthers, TypeOKParts DEF LockParent
      <3>3. QED
        BY <3>1, <3>2 DEF ActorChecked
    <2>5. QED
      BY <1>2, <1>3, <1>5, <2>1, <2>2, <2>3, <2>4 DEF CreateNext, BeginCreate, BeginReply, InsertComment
  <1>6. CASE ModerationNext(r)
    BY <1>2, <1>3, <1>6
    DEF ModerationNext, BeginTransition, BeginPin, BeginBatch, BeginBatchPin, UpdateStatus, SetPinned,
        WriteBatch
  <1>7. CASE HardDeleteNext(r)
    BY <1>2, <1>3, <1>4, <1>7
    DEF HardDeleteNext, BeginHardDelete, BeginBatchHardDelete, BeginUserHardDelete, ScanParents,
        DetachParents, ScanRoots, DetachRoots, Delete
  <1>8. CASE AccountNext(r) \/ ThreadNext(r)
    <2>1. UNCHANGED pc /\ pc[r] = "idle" => ActorChecked(r)'
      BY <1>1
    <2>2. QED
      BY <1>2, <1>3, <1>4, <1>8, <2>1
      DEF AccountNext, BeginUserSoftDelete, SoftDeleteUsers, ScanOwned, SoftDeleteOwned, RestoreUser,
          ThreadNext, SetThreads, DeleteThreads, Immediate
  <1>9. CASE Fail(r)
    BY <1>3, <1>9 DEF Fail
  <1>10. QED
    BY <1>5, <1>6, <1>7, <1>8, <1>9 DEF StepOf

(* Alone in its transaction, a request keeps what it has read. *)
LEMMA AloneSteady ==
    ASSUME Dialect = "sqlite", TypeOK, OneWriter, NEW r \in Requests, StepOf(r),
           NEW q \in Requests \ {r}
    PROVE  /\ Steady(q) => Steady(q)'
           /\ ActorChecked(q) => ActorChecked(q)'
  <1>1. pc'[q] = pc[q] /\ job'[q] = job[q]
    BY StepOthers DEF Others
  <1>2. CASE InTx(q)
    <2>1. UNCHANGED <<rows, accounts>>
      BY <1>2, StepAlone DEF Alone, Outside
    <2>2. ParentRefs(q)' = ParentRefs(q) /\ RootRefs(q)' = RootRefs(q) /\ Owned(q)' = Owned(q)
      BY <1>1, <2>1, RefsOfJob
    <2>3. Steady(q) => Steady(q)'
      BY <1>1, <2>2 DEF Steady, OwnedKnown, CutsKnown
    <2>4. ActorChecked(q) => ActorChecked(q)'
      BY <1>1, <2>1 DEF ActorChecked
    <2>5. QED
      BY <2>3, <2>4
  <1>3. CASE ~InTx(q)
    <2>1. pc'[q] \notin SteadySteps
      BY <1>1, <1>3 DEF InTx, SteadySteps
    <2>2. ActorChecked(q)'
      BY <1>1, <1>3 DEF InTx, ActorChecked
    <2>3. QED
      BY <2>1, <2>2, NothingToKnow
  <1>4. QED
    BY <1>2, <1>3

(* Under row locks alone, a batch deletion does: no reply to what it has   *)
(* locked can commit, and nobody touches the rows it has staged.           *)
UnlockedCommands == {"hardDelete"} \cup UserDeletes

LEMMA ParentsCleared ==
    ASSUME TypeOK, NEW r \in Requests, StepOf(r), NEW c \in DOMAIN rows \cap DOMAIN rows',
           InsertComment(r) => c # nextId
    PROVE  /\ rows'[c].parent \in {rows[c].parent, NoComment}
           /\ rows'[c].root \in {rows[c].root, NoComment}
           /\ rows'[c].depth = rows[c].depth
  <1>1. rows[c] \in Row
    BY DEF TypeOK
  <1>2. CASE UpdateStatus(r) \/ SetPinned(r) \/ WriteBatch(r) \/ SoftDeleteOwned(r)
    <2>1. \A plan : rows' = WithModeration(rows, plan) =>
                      /\ rows'[c].parent = rows[c].parent /\ rows'[c].root = rows[c].root
                      /\ rows'[c].depth = rows[c].depth
      BY <1>1 DEF WithModeration, Row
    <2>2. \A S, pinned : rows' = WithPinned(rows, S, pinned) =>
                      /\ rows'[c].parent = rows[c].parent /\ rows'[c].root = rows[c].root
                      /\ rows'[c].depth = rows[c].depth
      BY <1>1 DEF WithPinned, Row
    <2>3. QED
      BY <1>2, <2>1, <2>2 DEF UpdateStatus, SetPinned, WriteBatch, SoftDeleteOwned
  <1>3. CASE InsertComment(r)
    BY <1>3 DEF InsertComment, AddRow
  <1>4. CASE Delete(r)
    <2>1. PICK gone : rows' = DropRows(Detach(rows, job[r].cutParents, job[r].cutRoots), gone)
      BY <1>4 DEF Delete
    <2>2. QED
      BY <1>1, <2>1 DEF DropRows, Detach, Row
  <1>5. CASE \E S : DeleteThreads(r, S)
    <2>1. PICK gone : rows' = DropRows(rows, gone)
      BY <1>5 DEF DeleteThreads
    <2>2. QED
      BY <2>1 DEF DropRows
  <1>6. QED
    BY <1>2, <1>3, <1>4, <1>5, WritersOnly DEF RowWriter

LEMMA LockedSteady ==
    ASSUME UnlockedCommands \cap Commands = {}, LocksInv, Inv, Inv', NEW r \in Requests, StepOf(r),
           NEW q \in Requests \ {r}, Steady(q)
    PROVE  Steady(q)'
  <1>1. pc'[q] = pc[q] /\ job'[q] = job[q]
    BY StepOthers DEF Others, Inv
  <1>2. TypeOK /\ TypeOK' /\ job[q] \in Job /\ Sound(q) /\ ThreadKnown
    BY DEF Inv, LocksInv, TypeOK
  <1>3. CASE pc[q] \in {"detachParents", "scanRoots", "detachRoots", "delete"}
    <2> DEFINE T == job[q].targets
    <2>1. job[q].op = "batchHardDelete" /\ T \subseteq Comments
      BY <1>2, <1>3
      DEF Sound, StepFits, Fits, HardSteps, UnlockedCommands, UserDeletes, UserHardDeletes, Job
    <2>2. RowsLocked(q) = T
      BY <1>3, <2>1 DEF RowsLocked, InTx, CommentBatches
    <2>3. /\ ParentRefs(q) = {c \in DOMAIN rows : rows[c].parent \in T}
          /\ RootRefs(q) = {c \in DOMAIN rows : rows[c].root \in T}
          /\ ParentRefs(q)' = {c \in DOMAIN rows' : rows'[c].parent \in T}
          /\ RootRefs(q)' = {c \in DOMAIN rows' : rows'[c].root \in T}
      BY <1>1, <2>1
      DEF ParentRefs, RootRefs, Kept, Selected, ParentIn, RootIn, UserHardDeletes
    <2>4. NoComment \notin T
      BY <2>1 DEF Comments, NoComment
    <2>5. ASSUME NEW c \in DOMAIN rows', rows'[c].parent \in T \/ rows'[c].root \in T
          PROVE  c \in DOMAIN rows
      <3>1. SUFFICES ASSUME c \notin DOMAIN rows PROVE FALSE
        OBVIOUS
      <3>2. InsertComment(r)
        BY <1>2, <3>1, OnlyInsertAdds
      <3>3. c = nextId /\ rows'[c].parent = job[r].parent /\ rows'[c].root = job[r].root
        <4>1. PICK a \in job[r].users :
                  rows'[nextId] = NewRow(job[r].thread, a, job[r].parent, job[r].root,
                                         job[r].depth, job[r].status)
          BY <1>2, <3>2, InsertWrites
        <4>2. DOMAIN rows' = DOMAIN rows \cup {nextId}
          BY <1>2, <3>2, InsertWrites
        <4>3. QED
          BY <3>1, <4>1, <4>2 DEF NewRow
      <3>4. ({job[r].parent, job[r].root} \ {NoComment}) \cap T = {}
        BY <2>2, <3>2 DEF InsertComment, RowsSharable
      <3>5. QED
        BY <2>4, <2>5, <3>3, <3>4
    <2>6. /\ ParentRefs(q)' \subseteq ParentRefs(q)
          /\ RootRefs(q)' \subseteq RootRefs(q)
      <3>1. ASSUME NEW c \in DOMAIN rows', c \in DOMAIN rows
            PROVE  /\ rows'[c].parent \in {rows[c].parent, NoComment}
                   /\ rows'[c].root \in {rows[c].root, NoComment}
        <4>1. InsertComment(r) => nextId \notin DOMAIN rows
          BY <1>2, InsertWrites
        <4>2. QED
          BY <1>2, <3>1, <4>1, ParentsCleared
      <3>2. QED
        BY <2>3, <2>4, <2>5, <3>1
    <2>7. ASSUME NEW c \in Held(q) PROVE c \in DOMAIN rows' /\ rows'[c] = rows[c]
      BY <1>2, WritersOnly, HeldUntouched DEF Sound
    <2>8. job[q].cutParents = ParentRefs(q) => job[q].cutParents = ParentRefs(q)'
      BY <2>3, <2>6, <2>7 DEF Held, RowsStaged
    <2>9. job[q].cutRoots = RootRefs(q) => job[q].cutRoots = RootRefs(q)'
      BY <2>3, <2>6, <2>7 DEF Held, RowsStaged
    <2> HIDE DEF T
    <2>10. QED
      BY <1>1, <1>3, <2>6, <2>8, <2>9 DEF Steady, OwnedKnown, CutsKnown
  <1>4. CASE pc[q] \notin {"detachParents", "scanRoots", "detachRoots", "delete"}
    <2>1. pc[q] # "softDeleteOwned"
      BY <1>2
      DEF Sound, StepFits, Fits, SoftSteps, UnlockedCommands, UserDeletes, UserSoftDeletes, Job
    <2>2. QED
      BY <1>1, <1>4, <2>1, NothingToKnow DEF SteadySteps
  <1>5. QED
    BY <1>3, <1>4

LEMMA SteadySame == UNCHANGED vars /\ AllSteady => AllSteady'
  <1> SUFFICES ASSUME UNCHANGED vars, AllSteady PROVE AllSteady'
    OBVIOUS
  <1>1. \A q \in Requests : ParentRefs(q)' = ParentRefs(q) /\ RootRefs(q)' = RootRefs(q) /\ Owned(q)' = Owned(q)
    BY RefsOfJob DEF vars
  <1>2. QED
    BY <1>1 DEF vars, AllSteady, Steady, OwnedKnown, CutsKnown

(* A deletion's staged set is exactly what its DELETE needs: because other  *)
(* writers are excluded, or because it has locked its targets before.       *)
LEMMA StoreSteady ==
    ASSUME Dialect = "sqlite" \/ UnlockedCommands \cap Commands = {}
    PROVE  Spec => []AllSteady
  <1>1. Init => AllSteady
    BY DEF Init, AllSteady, Steady, OwnedKnown, CutsKnown
  <1>2. CASE Dialect = "sqlite"
    <2>1. TypeOK /\ LocksInv /\ OneWriter /\ AllSteady /\ [Next]_vars => AllSteady'
      BY <1>2, OwnSteady, AloneSteady, SteadySame, EveryStepOf DEF AllSteady
    <2>2. Spec => []OneWriter
      BY <1>2, StoreOneWriter
    <2>3. QED
      BY <1>1, <2>1, <2>2, TypeCorrect, StoreLocks, PTL DEF Spec
  <1>3. CASE UnlockedCommands \cap Commands = {}
    <2>1. Inv /\ Inv' /\ LocksInv /\ AllSteady /\ [Next]_vars => AllSteady'
      BY <1>3, OwnSteady, LockedSteady, SteadySame, EveryStepOf DEF AllSteady, Inv
    <2>2. QED
      BY <1>1, <2>1, StoreInvariant, StoreLocks, PTL DEF Spec
  <1>4. QED
    BY <1>2, <1>3

(* In the file database the author a creation has checked stays so.         *)
LEMMA StoreActors ==
    ASSUME Dialect = "sqlite"
    PROVE  Spec => [](\A q \in Requests : ActorChecked(q))
  <1> DEFINE Checked == \A q \in Requests : ActorChecked(q)
  <1>1. Init => Checked
    BY DEF Init, ActorChecked
  <1>2. TypeOK /\ OneWriter /\ Checked /\ [Next]_vars => Checked'
    <2>1. UNCHANGED vars /\ Checked => Checked'
      BY DEF vars, ActorChecked
    <2>2. QED
      BY <2>1, OwnActor, AloneSteady, EveryStepOf
  <1>3. QED
    BY <1>1, <1>2, TypeCorrect, StoreOneWriter, PTL DEF Spec

-----------------------------------------------------------------------------
(* Deleted authors. *)

LEMMA AccountWriters ==
    ASSUME [Next]_vars
    PROVE  \/ UNCHANGED accounts
           \/ \E r \in Requests : \/ InsertComment(r) \/ Delete(r) \/ SoftDeleteOwned(r)
                                  \/ \E u \in Users : RestoreUser(r, u)
  <1>1. ASSUME NEW r \in Requests, CreateNext(r) PROVE UNCHANGED accounts \/ InsertComment(r)
    BY <1>1 DEF CreateNext, BeginCreate, BeginReply, Begin, LockThread, CheckActor, UpdateProfile,
                LockParent
  <1>2. ASSUME NEW r \in Requests, ModerationNext(r) PROVE UNCHANGED accounts
    BY <1>2 DEF ModerationNext, BeginTransition, BeginPin, BeginBatch, BeginBatchPin, Begin,
                UpdateStatus, SetPinned, WriteBatch
  <1>3. ASSUME NEW r \in Requests, HardDeleteNext(r) PROVE UNCHANGED accounts \/ Delete(r)
    BY <1>3 DEF HardDeleteNext, BeginHardDelete, BeginBatchHardDelete, BeginUserHardDelete, Begin,
                ScanParents, DetachParents, ScanRoots, DetachRoots
  <1>4. ASSUME NEW r \in Requests, AccountNext(r)
        PROVE  UNCHANGED accounts \/ SoftDeleteOwned(r) \/ \E u \in Users : RestoreUser(r, u)
    BY <1>4 DEF AccountNext, BeginUserSoftDelete, Begin, SoftDeleteUsers, ScanOwned
  <1>5. ASSUME NEW r \in Requests, ThreadNext(r) \/ Fail(r) PROVE UNCHANGED accounts
    BY <1>5 DEF ThreadNext, SetThreads, DeleteThreads, Fail
  <1>6. CASE UNCHANGED vars
    BY <1>6 DEF vars
  <1>7. QED
    BY <1>1, <1>2, <1>3, <1>4, <1>5, <1>6 DEF Next

(* Comments that stay as they are, of accounts of which none gets deleted. *)
LEMMA SilentKept ==
    ASSUME TypeOK, DeletedAuthorsSilent, DOMAIN rows' \subseteq DOMAIN rows,
           \A c \in DOMAIN rows' : rows'[c].mod = rows[c].mod /\ rows'[c].user = rows[c].user,
           \A u \in Users : accounts'[u] = "deleted" => accounts[u] = "deleted"
    PROVE  DeletedAuthorsSilent'
  <1>1. \A c \in DOMAIN rows : rows[c].user \in Users
    BY DEF TypeOK, Row
  <1>2. QED
    BY <1>1 DEF DeletedAuthorsSilent

LEMMA SilentStep ==
    ASSUME {"reply", "transition", "batch"} \cap Commands = {},
           LocksInv, Inv, Inv', AllSteady, \A q \in Requests : ActorChecked(q),
           DeletedAuthorsSilent, [Next]_vars
    PROVE  DeletedAuthorsSilent'
  <1>1. TypeOK /\ TypeOK' /\ ThreadKnown
    BY DEF Inv
  <1>2. \A r \in Requests : job[r] \in Job /\ StepFits(r) /\ Steady(r)
    BY <1>1 DEF LocksInv, Sound, AllSteady, TypeOK
  <1>3. \A r \in Requests : job[r].op \notin {"reply", "transition", "batch"}
    BY <1>2 DEF Job
  <1>4. ASSUME NEW r \in Requests, InsertComment(r) PROVE DeletedAuthorsSilent'
    <2>1. pc[r] = "insert" /\ job[r].op = "create"
      BY <1>2, <1>3, <1>4 DEF InsertComment, StepFits, Fits, CreateSteps
    <2>2. job[r].users \subseteq Users /\ \A u \in job[r].users : accounts[u] # "deleted"
      BY <1>2, <2>1 DEF Job, ActorChecked
    <2>3. PICK a \in job[r].users :
              rows'[nextId] = NewRow(job[r].thread, a, job[r].parent, job[r].root,
                                     job[r].depth, job[r].status)
      BY <1>1, <1>4, InsertWrites
    <2>4. rows'[nextId].user \in job[r].users
      BY <2>3 DEF NewRow
    <2>5. DOMAIN rows' = DOMAIN rows \cup {nextId} /\ \A c \in DOMAIN rows : rows'[c] = rows[c]
      BY <1>1, <1>4, InsertWrites
    <2>6. \A u \in Users : accounts'[u] = "deleted" => accounts[u] = "deleted"
      BY <1>4 DEF InsertComment
    <2>7. \A c \in DOMAIN rows : rows[c].user \in Users
      BY <1>1 DEF TypeOK, Row
    <2>8. QED
      BY <2>2, <2>4, <2>5, <2>6, <2>7 DEF DeletedAuthorsSilent
  <1>5. ASSUME NEW r \in Requests, SoftDeleteOwned(r) PROVE DeletedAuthorsSilent'
    <2>1. pc[r] = "softDeleteOwned" /\ job[r].scan = Owned(r)
      BY <1>2, <1>5 DEF SoftDeleteOwned, Steady, OwnedKnown
    <2>2. PICK plan : plan = [c \in job[r].scan \cap Owned(r) |-> SoftDeleted(rows[c].mod)]
      OBVIOUS
    <2>3. /\ rows' = WithModeration(rows, plan)
          /\ accounts' = [u \in Users |-> IF u \in job[r].users THEN "deleted" ELSE accounts[u]]
      BY <1>5, <2>2 DEF SoftDeleteOwned
    <2>4. DOMAIN plan = Owned(r) /\ \A c \in Owned(r) : plan[c].status = "deleted"
      BY <2>1, <2>2 DEF SoftDeleted
    <2>5. /\ DOMAIN rows' = DOMAIN rows
          /\ \A c \in DOMAIN rows :
               /\ rows'[c].user = rows[c].user
               /\ rows'[c].mod = IF c \in Owned(r) THEN plan[c] ELSE rows[c].mod
      BY <1>1, <2>3, <2>4, PlanWrites
    <2>6. \A c \in DOMAIN rows : rows[c].user \in Users
      BY <1>1 DEF TypeOK, Row
    <2>7. QED
      BY <2>3, <2>4, <2>5, <2>6 DEF DeletedAuthorsSilent, Owned
  <1>6. ASSUME NEW r \in Requests, Delete(r) PROVE DeletedAuthorsSilent'
    <2>1. \A u \in Users : accounts'[u] = "deleted" => accounts[u] = "deleted"
      BY <1>6 DEF Delete
    <2>2. QED
      BY <1>1, <1>6, <2>1, RemovalWrites, SilentKept
  <1>7. ASSUME UNCHANGED accounts, ~UNCHANGED rows,
               \A r \in Requests : ~InsertComment(r) /\ ~SoftDeleteOwned(r) /\ ~Delete(r)
        PROVE  DeletedAuthorsSilent'
    <2>1. PICK r \in Requests : RowWriter(r)
      BY <1>7, WritersOnly, EveryStepOf DEF vars
    <2>2. ASSUME UpdateStatus(r) PROVE FALSE
      BY <1>2, <1>3, <2>2 DEF UpdateStatus, StepFits, Fits
    <2>3. ASSUME NEW S, NEW pinned, rows' = WithPinned(rows, S, pinned) PROVE DeletedAuthorsSilent'
      BY <1>1, <1>7, <2>3, PinWrites, SilentKept
    <2>4. CASE SetPinned(r)
      BY <2>3, <2>4 DEF SetPinned
    <2>5. CASE WriteBatch(r)
      <3>1. job[r].op = "batchPin"
        BY <1>2, <1>3, <2>5 DEF WriteBatch, StepFits, Fits
      <3>2. QED
        BY <2>3, <2>5, <3>1 DEF WriteBatch
    <2>6. CASE \E S : DeleteThreads(r, S)
      BY <1>1, <1>7, <2>6, RemovalWrites, SilentKept
    <2>7. QED
      BY <1>7, <2>1, <2>2, <2>4, <2>5, <2>6 DEF RowWriter
  <1>8. ASSUME NEW r \in Requests, NEW u \in Users, RestoreUser(r, u) PROVE DeletedAuthorsSilent'
    <2>1. UNCHANGED rows /\ accounts' = [accounts EXCEPT ![u] = "active"]
      BY <1>8 DEF RestoreUser
    <2>2. \A v \in Users : accounts'[v] = "deleted" => accounts[v] = "deleted"
      BY <1>1, <2>1 DEF TypeOK
    <2>3. QED
      BY <1>1, <2>1, <2>2, SilentKept
  <1>9. CASE UNCHANGED <<rows, accounts>>
    BY <1>9 DEF DeletedAuthorsSilent
  <1>10. QED
    BY <1>4, <1>5, <1>6, <1>7, <1>8, <1>9, AccountWriters

(* In the file database a soft-deleted user has no live comment: the        *)
(* deletion takes all of them and no creation in flight adds one.  The      *)
(* first-party reply, which does not look at its author again in its        *)
(* transaction, and the commands that restore a comment without looking at  *)
(* its author are left out: each gives a deleted author a live comment.     *)
THEOREM DeletedAuthorsStaySilent ==
    ASSUME Dialect = "sqlite", {"reply", "transition", "batch"} \cap Commands = {}
    PROVE  Spec => []DeletedAuthorsSilent
  <1>1. Init => DeletedAuthorsSilent
    BY DEF Init, DeletedAuthorsSilent
  <1>2. LocksInv /\ Inv /\ Inv' /\ AllSteady /\ (\A q \in Requests : ActorChecked(q))
          /\ DeletedAuthorsSilent /\ [Next]_vars => DeletedAuthorsSilent'
    BY SilentStep
  <1>3. QED
    BY <1>1, <1>2, StoreInvariant, StoreLocks, StoreSteady, StoreActors, PTL DEF Spec

-----------------------------------------------------------------------------
(* The store implements the board: every statement is one of the board's   *)
(* commands to the callers, or nothing.                                    *)

(* What a pin or unpin command was given are roots, for as long as they exist. *)
Pinning(q) == pc[q] = "setPinned" \/ (pc[q] = "writeBatch" /\ job[q].op = "batchPin")

PinsRoots ==
    \A q \in Requests : Pinning(q) =>
        \A c \in job[q].targets :
            /\ c < nextId
            /\ c \in DOMAIN rows =>
                rows[c].parent = NoComment /\ rows[c].root = NoComment /\ rows[c].depth = 0

LEMMA IdsGrow ==
    ASSUME TypeOK, NEW r \in Requests, StepOf(r)
    PROVE  nextId' = IF InsertComment(r) THEN nextId + 1 ELSE nextId
  <1>1. CreateNext(r) => nextId' = nextId \/ InsertComment(r)
    BY DEF CreateNext, BeginCreate, BeginReply, Begin, LockThread, CheckActor, UpdateProfile, LockParent
  <1>2. ModerationNext(r) => nextId' = nextId
    BY DEF ModerationNext, BeginTransition, BeginPin, BeginBatch, BeginBatchPin, Begin,
           UpdateStatus, SetPinned, WriteBatch
  <1>3. HardDeleteNext(r) => nextId' = nextId
    BY DEF HardDeleteNext, BeginHardDelete, BeginBatchHardDelete, BeginUserHardDelete, Begin,
           ScanParents, DetachParents, ScanRoots, DetachRoots, Delete
  <1>4. AccountNext(r) => nextId' = nextId
    BY DEF AccountNext, BeginUserSoftDelete, Begin, SoftDeleteUsers, ScanOwned, SoftDeleteOwned,
           RestoreUser, Immediate
  <1>5. ThreadNext(r) \/ Fail(r) => nextId' = nextId
    BY DEF ThreadNext, SetThreads, DeleteThreads, Immediate, Fail
  <1>6. InsertComment(r) => nextId' = nextId + 1
    BY DEF InsertComment
  <1>7. QED
    BY <1>1, <1>2, <1>3, <1>4, <1>5, <1>6 DEF StepOf

LEMMA OwnPins ==
    ASSUME TypeOK, LocksInv, NEW r \in Requests, StepOf(r), Pinning(r)'
    PROVE  /\ job'[r].targets \subseteq DOMAIN rows /\ UNCHANGED <<rows, nextId>>
           /\ \A c \in job'[r].targets :
                rows[c].parent = NoComment /\ rows[c].root = NoComment /\ rows[c].depth = 0
  <1>1. ASSUME NEW c \in DOMAIN rows, NEW pinned, BeginPin(r, c, pinned)
        PROVE  /\ job'[r].targets \subseteq DOMAIN rows /\ UNCHANGED <<rows, nextId>>
               /\ \A d \in job'[r].targets :
                    rows[d].parent = NoComment /\ rows[d].root = NoComment /\ rows[d].depth = 0
    <2>1. PICK j : j = [NoJob EXCEPT !.op = "pin", !.targets = {c}, !.pinned = pinned]
      OBVIOUS
    <2>2. Begin(r, "setPinned", j) /\ j.targets = {c} /\ PinTargetOk(rows[c], pinned)
      BY <1>1, <2>1 DEF BeginPin, NoJob
    <2>3. job'[r] = j /\ UNCHANGED <<rows, nextId>>
      BY <2>2, BeginOthers, TypeOKParts DEF Begin
    <2>4. QED
      BY <2>2, <2>3 DEF PinTargetOk
  <1>2. ASSUME NEW S, NEW pinned, BeginBatchPin(r, S, pinned)
        PROVE  /\ job'[r].targets \subseteq DOMAIN rows /\ UNCHANGED <<rows, nextId>>
               /\ \A d \in job'[r].targets :
                    rows[d].parent = NoComment /\ rows[d].root = NoComment /\ rows[d].depth = 0
    <2>1. PICK j : j = [NoJob EXCEPT !.op = "batchPin", !.targets = S, !.pinned = pinned]
      OBVIOUS
    <2>2. /\ Begin(r, "writeBatch", j) /\ j.targets = S /\ S \subseteq DOMAIN rows
          /\ \A c \in S : PinTargetOk(rows[c], pinned)
      BY <1>2, <2>1 DEF BeginBatchPin, LockTargets, NoJob
    <2>3. job'[r] = j /\ UNCHANGED <<rows, nextId>>
      BY <2>2, BeginOthers, TypeOKParts DEF Begin
    <2>4. QED
      BY <2>2, <2>3 DEF PinTargetOk
  <1>3. ASSUME NEW S, NEW a, BeginBatch(r, S, a) PROVE FALSE
    <2>1. PICK j : /\ j = [NoJob EXCEPT !.op = "batch", !.targets = S,
                             !.plan = [c \in {d \in S : ~BatchUnchanged(rows[d].mod, a)} |->
                                          Transition(rows[c].mod, a)]]
                   /\ Begin(r, "writeBatch", j)
      BY <1>3 DEF BeginBatch
    <2>2. j.op = "batch" /\ pc'[r] = "writeBatch" /\ job'[r] = j
      BY <2>1, BeginOthers, TypeOKParts DEF NoJob
    <2>3. QED
      BY <2>2 DEF Pinning
  <1>4. ASSUME NEW c, NEW a, BeginTransition(r, c, a) PROVE FALSE
    <2>1. pc'[r] = "updateStatus"
      BY <1>4, BeginOthers, TypeOKParts DEF BeginTransition
    <2>2. QED
      BY <2>1 DEF Pinning
  <1>5. ASSUME Done(r) PROVE FALSE
    BY <1>5, DoneOthers DEF Pinning
  <1>6. ASSUME NEW j, NEW step \in {"lockThread", "scanParents", "softDeleteUsers"}, Begin(r, step, j)
        PROVE  FALSE
    BY <1>6, BeginOthers, TypeOKParts DEF Pinning
  <1>7. ASSUME NEW from, NEW to \in CreateSteps \cup HardSteps \cup SoftSteps, Go(r, from, to)
        PROVE  FALSE
    BY <1>7, GoOthers, TypeOKParts DEF Pinning, CreateSteps, HardSteps, SoftSteps
  <1>8. ASSUME UNCHANGED <<pc, job>>, pc[r] = "idle" PROVE FALSE
    BY <1>8 DEF Pinning
  <1>9. ASSUME CreateNext(r) PROVE FALSE
    BY <1>5, <1>6, <1>7, <1>9
    DEF CreateNext, BeginCreate, BeginReply, LockThread, CheckActor, UpdateProfile, LockParent,
        InsertComment, CreateSteps
  <1>10. ASSUME HardDeleteNext(r) PROVE FALSE
    BY <1>5, <1>6, <1>7, <1>10
    DEF HardDeleteNext, BeginHardDelete, BeginBatchHardDelete, BeginUserHardDelete, ScanParents,
        DetachParents, ScanRoots, DetachRoots, Delete, HardSteps
  <1>11. ASSUME AccountNext(r) \/ ThreadNext(r) \/ Fail(r) PROVE FALSE
    BY <1>5, <1>6, <1>7, <1>8, <1>11
    DEF AccountNext, BeginUserSoftDelete, SoftDeleteUsers, ScanOwned, SoftDeleteOwned, RestoreUser,
        ThreadNext, SetThreads, DeleteThreads, Immediate, Fail, SoftSteps
  <1>12. ~(UpdateStatus(r) \/ SetPinned(r) \/ WriteBatch(r))
    BY <1>5 DEF UpdateStatus, SetPinned, WriteBatch
  <1>13. QED
    BY <1>1, <1>2, <1>3, <1>4, <1>9, <1>10, <1>11, <1>12 DEF StepOf, ModerationNext

LEMMA PinsNext == Inv /\ Inv' /\ LocksInv /\ PinsRoots /\ [Next]_vars => PinsRoots'
  <1> SUFFICES ASSUME Inv, Inv', LocksInv, PinsRoots, [Next]_vars PROVE PinsRoots'
    OBVIOUS
  <1>1. TypeOK /\ TypeOK' /\ ThreadKnown
    BY DEF Inv
  <1>2. ASSUME NEW r \in Requests, StepOf(r), NEW q \in Requests, Pinning(q)', NEW c \in job'[q].targets
        PROVE  /\ c < nextId'
               /\ c \in DOMAIN rows' =>
                    rows'[c].parent = NoComment /\ rows'[c].root = NoComment /\ rows'[c].depth = 0
    <2>1. CASE q = r
      <3>1. /\ c \in DOMAIN rows /\ UNCHANGED <<rows, nextId>>
            /\ rows[c].parent = NoComment /\ rows[c].root = NoComment /\ rows[c].depth = 0
        BY <1>1, <1>2, <2>1, OwnPins
      <3>2. QED
        BY <3>1 DEF LocksInv, IdsBelow
    <2>2. CASE q # r
      <3>1. pc'[q] = pc[q] /\ job'[q] = job[q]
        BY <1>1, <1>2, <2>2, StepOthers DEF Others
      <3>2. /\ c < nextId /\ c \in Comments
            /\ c \in DOMAIN rows =>
                 rows[c].parent = NoComment /\ rows[c].root = NoComment /\ rows[c].depth = 0
        BY <1>1, <1>2, <3>1 DEF Pinning, PinsRoots, TypeOK, Job
      <3>3. c < nextId'
        BY <1>1, <1>2, <3>2, IdsGrow DEF TypeOK, Comments
      <3>4. ASSUME c \in DOMAIN rows' PROVE c \in DOMAIN rows
        BY <1>1, <1>2, <3>2, <3>4, OnlyInsertAdds, InsertWrites DEF Comments
      <3>5. c # nextId
        BY <1>1, <3>2 DEF Comments, TypeOK
      <3>6. QED
        BY <1>1, <1>2, <3>2, <3>3, <3>4, <3>5, ParentsCleared
    <2>3. QED
      BY <2>1, <2>2
  <1>3. CASE UNCHANGED vars
    BY <1>3 DEF vars, PinsRoots, Pinning
  <1>4. QED
    BY <1>2, <1>3, EveryStepOf DEF PinsRoots

LEMMA StorePinsRoots == Spec => []PinsRoots
  <1>1. Init => PinsRoots
    BY DEF Init, PinsRoots, Pinning
  <1>2. QED
    BY <1>1, PinsNext, StoreInvariant, StoreLocks, PTL DEF Spec

(* The board states its rules with the same operators. *)
LEMMA SameRules ==
    /\ Board!Comments = Comments /\ Board!NoComment = NoComment
    /\ Board!LiveStatus = LiveStatus /\ Board!Moderation = Moderation
    /\ \A f, n, row : Board!AddRow(f, n, row) = AddRow(f, n, row)
    /\ \A f, p : Board!ReplyRoot(f, p) = ReplyRoot(f, p)
    /\ \A t, u, p, g, d, s : Board!NewRow(t, u, p, g, d, s) = NewRow(t, u, p, g, d, s)
    /\ \A f, plan : Board!WithModeration(f, plan) = WithModeration(f, plan)
    /\ \A f, S, pinned : Board!WithPinned(f, S, pinned) = WithPinned(f, S, pinned)
    /\ \A f, S : Board!DropRows(f, S) = DropRows(f, S)
    /\ \A f, ps, rs : Board!Detach(f, ps, rs) = Detach(f, ps, rs)
    /\ \A f, S : Board!ParentIn(f, S) = ParentIn(f, S) /\ Board!RootIn(f, S) = RootIn(f, S)
    /\ \A m : Board!SoftDeleted(m) = SoftDeleted(m)
  <1>1. /\ Board!Comments = Comments /\ Board!NoComment = NoComment
        /\ Board!LiveStatus = LiveStatus
    BY DEF Board!Comments, Comments, Board!NoComment, NoComment, Board!LiveStatus, LiveStatus
  <1>2. Board!Moderation = Moderation
    BY <1>1 DEF Board!Moderation, Moderation, Board!Status, Status
  <1>3. \A f, n, row : Board!AddRow(f, n, row) = AddRow(f, n, row)
    BY DEF Board!AddRow, AddRow
  <1>4. \A f, p : Board!ReplyRoot(f, p) = ReplyRoot(f, p)
    BY <1>1 DEF Board!ReplyRoot, ReplyRoot
  <1>5. \A t, u, p, g, d, s : Board!NewRow(t, u, p, g, d, s) = NewRow(t, u, p, g, d, s)
    BY DEF Board!NewRow, NewRow, Board!Initial, Initial
  <1>6. \A f, plan : Board!WithModeration(f, plan) = WithModeration(f, plan)
    BY DEF Board!WithModeration, WithModeration
  <1>7. \A f, S, pinned : Board!WithPinned(f, S, pinned) = WithPinned(f, S, pinned)
    BY DEF Board!WithPinned, WithPinned
  <1>8. \A f, S : Board!DropRows(f, S) = DropRows(f, S)
    BY DEF Board!DropRows, DropRows
  <1>9. \A f, ps, rs : Board!Detach(f, ps, rs) = Detach(f, ps, rs)
    BY <1>1 DEF Board!Detach, Detach
  <1>10. \A f, S : Board!ParentIn(f, S) = ParentIn(f, S) /\ Board!RootIn(f, S) = RootIn(f, S)
    BY DEF Board!ParentIn, ParentIn, Board!RootIn, RootIn
  <1>11. \A m : Board!SoftDeleted(m) = SoftDeleted(m)
    BY DEF Board!SoftDeleted, SoftDeleted
  <1>12. QED
    BY <1>1, <1>2, <1>3, <1>4, <1>5, <1>6, <1>7, <1>8, <1>9, <1>10, <1>11

LEMMA SameJudgements ==
    /\ \A row, t : Board!ReplyAllowed(row, t) <=> ReplyAllowed(row, t)
    /\ \A m : Board!Consistent(m) <=> Consistent(m)
  BY DEF Board!ReplyAllowed, ReplyAllowed, Board!Consistent, Consistent

-----------------------------------------------------------------------------
(* What the callers want deleted, as the requests go on. *)

NamedDeletes == {"hardDelete", "batchHardDelete"}

LEMMA WantedOf ==
    /\ wanted = [r \in Requests |-> IF job[r].op \in NamedDeletes THEN job[r].targets ELSE {}]
    /\ wanted' = [r \in Requests |-> IF job'[r].op \in NamedDeletes THEN job'[r].targets ELSE {}]
  BY DEF wanted, NamedDeletes

LEMMA WantedSame ==
    ASSUME NEW r \in Requests, \A q \in Requests \ {r} : job'[q] = job[q],
           wanted'[r] = wanted[r]
    PROVE  wanted' = wanted
  BY WantedOf

LEMMA WantedChange ==
    ASSUME NEW r \in Requests, \A q \in Requests \ {r} : job'[q] = job[q], NEW S, wanted'[r] = S
    PROVE  wanted' = [wanted EXCEPT ![r] = S]
  <1>1. \A q \in Requests \ {r} : wanted'[q] = wanted[q]
    BY WantedOf
  <1>2. DOMAIN wanted = Requests /\ wanted' = [q \in Requests |-> wanted'[q]]
    BY WantedOf
  <1> HIDE DEF wanted
  <1>3. [wanted EXCEPT ![r] = S] = [q \in Requests |-> IF q = r THEN S ELSE wanted[q]]
    BY <1>2
  <1>4. QED
    BY <1>1, <1>2, <1>3

LEMMA Unnoticed ==
    ASSUME UNCHANGED <<rows, nextId, threads, accounts>>, wanted' = wanted
    PROVE  UNCHANGED Board!vars
  BY DEF Board!vars, Board!tables

(* Whoever is idle wants nothing. *)
LEMMA IdleWants ==
    ASSUME LocksInv, NEW r \in Requests, pc[r] = "idle"
    PROVE  wanted[r] = {}
  <1>1. job[r] = NoJob
    BY DEF LocksInv, Sound, StepFits, Fits
  <1>2. QED
    BY <1>1, NoJobHolds, WantedOf DEF NamedDeletes

LEMMA BeginUnnoticed ==
    ASSUME TypeOK, LocksInv, NEW r \in Requests, NEW step, NEW j, Begin(r, step, j),
           j.op \notin NamedDeletes
    PROVE  UNCHANGED Board!vars
  <1>1. /\ pc[r] = "idle" /\ job'[r] = j
        /\ \A q \in Requests \ {r} : job'[q] = job[q]
    BY BeginOthers, TypeOKParts
  <1>2. wanted'[r] = {} /\ wanted[r] = {}
    BY <1>1, IdleWants, WantedOf
  <1>3. QED
    BY <1>1, <1>2, WantedSame, Unnoticed DEF Begin

LEMMA BeginAsks ==
    ASSUME TypeOK, LocksInv, NEW r \in Requests, NEW step, NEW j, Begin(r, step, j),
           j.op \in NamedDeletes, j.targets \subseteq DOMAIN rows
    PROVE  Board!Next
  <1>1. /\ pc[r] = "idle" /\ job'[r] = j
        /\ \A q \in Requests \ {r} : job'[q] = job[q]
        /\ UNCHANGED <<rows, nextId, threads, accounts>>
    BY BeginOthers, TypeOKParts DEF Begin
  <1>2. wanted'[r] = j.targets /\ wanted[r] = {}
    BY <1>1, IdleWants, WantedOf
  <1>3. wanted' = [wanted EXCEPT ![r] = j.targets]
    BY <1>1, <1>2, WantedChange
  <1>4. Board!Ask(r, j.targets)
    BY <1>1, <1>2, <1>3 DEF Board!Ask, Board!tables
  <1>5. QED
    BY <1>4 DEF Board!Next

LEMMA GoUnnoticed ==
    ASSUME TypeOK, NEW r \in Requests, NEW j, job' = [job EXCEPT ![r] = j],
           j.op = job[r].op, j.targets = job[r].targets,
           UNCHANGED <<rows, nextId, threads, accounts>>
    PROVE  UNCHANGED Board!vars
  <1>1. job'[r] = j /\ \A q \in Requests \ {r} : job'[q] = job[q]
    BY DEF TypeOK
  <1>2. wanted'[r] = wanted[r]
    BY <1>1, WantedOf
  <1>3. QED
    BY <1>1, <1>2, WantedSame, Unnoticed

LEMMA ReadUnnoticed ==
    ASSUME UNCHANGED <<rows, nextId, threads, accounts, job>>
    PROVE  UNCHANGED Board!vars
  <1>1. wanted' = wanted
    BY WantedOf
  <1>2. QED
    BY <1>1, Unnoticed

LEMMA DoneWanted ==
    ASSUME TypeOK, NEW r \in Requests, Done(r)
    PROVE  /\ wanted' = [wanted EXCEPT ![r] = {}]
           /\ job[r].op \notin NamedDeletes => wanted' = wanted
  <1>1. job'[r] = NoJob /\ \A q \in Requests \ {r} : job'[q] = job[q]
    BY DoneOthers DEF Others
  <1>2. wanted'[r] = {}
    BY <1>1, NoJobHolds, WantedOf DEF NamedDeletes
  <1>3. job[r].op \notin NamedDeletes => wanted[r] = {}
    BY WantedOf
  <1>4. QED
    BY <1>1, <1>2, <1>3, WantedChange, WantedSame

-----------------------------------------------------------------------------
(* Each writing statement is a command of the board. *)

LEMMA InsertPosts ==
    ASSUME Inv, LocksInv, NEW r \in Requests, InsertComment(r)
    PROVE  Board!Next
  <1>1. TypeOK /\ ThreadKnown /\ job[r] \in Job /\ Sound(r) /\ pc[r] = "insert"
    BY DEF Inv, LocksInv, TypeOK, InsertComment
  <1>2. PICK u \in Users : job[r].users = {u}
    BY <1>1 DEF Sound, StepFits, Fits, CreateSteps
  <1> DEFINE t == job[r].thread
             p == job[r].parent
             s == job[r].status
  <1>3. t \in Threads /\ threads[t] # "closed" /\ s \in LiveStatus
    BY <1>1 DEF Sound, ThreadKnown, ThreadOpen, InThread, CreateSteps, Job
  <1>4. /\ rows' = AddRow(rows, nextId, NewRow(t, u, p, job[r].root, job[r].depth, s))
        /\ nextId \in Comments /\ nextId' = nextId + 1
        /\ threads' = [threads EXCEPT ![t] = "open"]
        /\ Done(r)
    BY <1>2 DEF InsertComment
  <1>5. accounts' = [accounts EXCEPT ![u] = IF @ = "absent" THEN "active" ELSE @]
    <2>1. accounts' = [v \in Users |-> IF v = u /\ accounts[v] = "absent" THEN "active" ELSE accounts[v]]
      BY <1>2 DEF InsertComment
    <2>2. QED
      BY <1>1, <2>1 DEF TypeOK
  <1>6. IF p = NoComment
        THEN job[r].depth = 0 /\ job[r].root = NoComment
        ELSE /\ p \in DOMAIN rows /\ ReplyAllowed(rows[p], t)
             /\ job[r].depth = rows[p].depth + 1 /\ job[r].root = ReplyRoot(rows, p)
    BY <1>1 DEF Sound, PlaceKnown, CreateSteps
  <1>7. rows' = AddRow(rows, nextId, IF p = NoComment THEN NewRow(t, u, NoComment, NoComment, 0, s)
                                     ELSE NewRow(t, u, p, ReplyRoot(rows, p), rows[p].depth + 1, s))
    BY <1>4, <1>6
  <1>8. job[r].op \notin NamedDeletes
    BY <1>1 DEF Sound, StepFits, Fits, CreateSteps, NamedDeletes
  <1>9. wanted' = wanted
    BY <1>1, <1>4, <1>8, DoneWanted
  <1>10. p \in DOMAIN rows \cup {NoComment}
    BY <1>6
  <1>11. Board!Post(u, t, p, s)
    BY <1>3, <1>4, <1>5, <1>6, <1>7, <1>9, SameRules, SameJudgements DEF Board!Post
  <1>12. QED
    BY <1>3, <1>10, <1>11, SameRules DEF Board!Next

LEMMA PlanModerates ==
    ASSUME TypeOK, NEW plan, rows' = WithModeration(rows, plan),
           \A c \in DOMAIN rows \cap DOMAIN plan : plan[c] \in Moderation /\ Consistent(plan[c]),
           UNCHANGED <<nextId, threads, accounts>>, wanted' = wanted
    PROVE  Board!Next
  <1>1. \A c \in DOMAIN rows : rows[c] \in Row
    BY DEF TypeOK
  <1>2. DOMAIN rows' = DOMAIN rows
    BY DEF WithModeration
  <1>3. \A c \in DOMAIN rows :
           /\ rows'[c].mod \in {rows[c].mod} \cup {m \in Moderation : Consistent(m)}
           /\ rows'[c] = [rows[c] EXCEPT !.mod = rows'[c].mod]
    BY <1>1 DEF WithModeration, Row
  <1>4. rows' = [c \in DOMAIN rows |-> rows'[c]]
    BY <1>2 DEF WithModeration
  <1>5. rows' = [c \in DOMAIN rows |-> [rows[c] EXCEPT !.mod = rows'[c].mod]]
    BY <1>3, <1>4
  <1>6. \A c \in DOMAIN rows :
           rows'[c].mod \in {rows[c].mod} \cup {m \in Board!Moderation : Board!Consistent(m)}
    BY <1>3, SameRules, SameJudgements
  <1>7. Board!Moderate
    BY <1>2, <1>5, <1>6 DEF Board!Moderate
  <1>8. QED
    BY <1>7 DEF Board!Next

LEMMA PinPins ==
    ASSUME NEW S, S \subseteq DOMAIN rows, NEW pinned \in BOOLEAN, rows' = WithPinned(rows, S, pinned),
           \A c \in S : rows[c].parent = NoComment /\ rows[c].root = NoComment /\ rows[c].depth = 0,
           UNCHANGED <<nextId, threads, accounts>>, wanted' = wanted
    PROVE  Board!Next
  <1>1. Board!Pin(S, pinned)
    BY SameRules DEF Board!Pin
  <1>2. QED
    BY <1>1 DEF Board!Next

LEMMA ModerationMaps ==
    ASSUME Inv, LocksInv, PinsRoots, NEW r \in Requests, ModerationNext(r)
    PROVE  Board!Next \/ UNCHANGED Board!vars
  <1>1. TypeOK /\ PlansConsistent /\ job[r] \in Job /\ Sound(r)
    BY DEF Inv, LocksInv, TypeOK
  <1>2. \A c \in DOMAIN rows \cap DOMAIN job[r].plan : job[r].plan[c] \in Moderation /\ Consistent(job[r].plan[c])
    BY <1>1, PlanElim DEF PlansConsistent, Job
  <1>3. ASSUME NEW c, NEW a, BeginTransition(r, c, a) PROVE UNCHANGED Board!vars
    <2>1. PICK j : j = [NoJob EXCEPT !.op = "transition", !.targets = {c},
                                     !.plan = [d \in {c} |-> Transition(rows[c].mod, a)]]
      OBVIOUS
    <2>2. Begin(r, "updateStatus", j) /\ j.op = "transition"
      BY <1>3, <2>1 DEF BeginTransition, NoJob
    <2>3. QED
      BY <1>1, <2>2, BeginUnnoticed DEF NamedDeletes
  <1>4. ASSUME NEW c, NEW pinned, BeginPin(r, c, pinned) PROVE UNCHANGED Board!vars
    <2>1. PICK j : j = [NoJob EXCEPT !.op = "pin", !.targets = {c}, !.pinned = pinned]
      OBVIOUS
    <2>2. Begin(r, "setPinned", j) /\ j.op = "pin"
      BY <1>4, <2>1 DEF BeginPin, NoJob
    <2>3. QED
      BY <1>1, <2>2, BeginUnnoticed DEF NamedDeletes
  <1>5. ASSUME NEW S, NEW a, BeginBatch(r, S, a) PROVE UNCHANGED Board!vars
    <2>1. PICK plan : plan = [c \in {d \in S : ~BatchUnchanged(rows[d].mod, a)} |-> Transition(rows[c].mod, a)]
      OBVIOUS
    <2>2. PICK j : j = [NoJob EXCEPT !.op = "batch", !.targets = S, !.plan = plan]
      OBVIOUS
    <2>3. Begin(r, "writeBatch", j) /\ j.op = "batch"
      BY <1>5, <2>1, <2>2 DEF BeginBatch, NoJob
    <2>4. QED
      BY <1>1, <2>3, BeginUnnoticed DEF NamedDeletes
  <1>6. ASSUME NEW S, NEW pinned, BeginBatchPin(r, S, pinned) PROVE UNCHANGED Board!vars
    <2>1. PICK j : j = [NoJob EXCEPT !.op = "batchPin", !.targets = S, !.pinned = pinned]
      OBVIOUS
    <2>2. Begin(r, "writeBatch", j) /\ j.op = "batchPin"
      BY <1>6, <2>1 DEF BeginBatchPin, NoJob
    <2>3. QED
      BY <1>1, <2>2, BeginUnnoticed DEF NamedDeletes
  <1>7. ASSUME pc[r] \in {"updateStatus", "setPinned", "writeBatch"}, Done(r) PROVE wanted' = wanted
    <2>1. job[r].op \notin NamedDeletes
      BY <1>1, <1>7 DEF Sound, StepFits, Fits, NamedDeletes
    <2>2. QED
      BY <1>1, <1>7, <2>1, DoneWanted
  <1>8. CASE UpdateStatus(r)
    <2>1. rows' = WithModeration(rows, job[r].plan) /\ UNCHANGED <<nextId, threads, accounts>> /\ wanted' = wanted
      BY <1>7, <1>8 DEF UpdateStatus
    <2>2. QED
      BY <1>1, <1>2, <2>1, PlanModerates
  <1>9. ASSUME Pinning(r)
        PROVE  \A c \in job[r].targets \cap DOMAIN rows :
                  rows[c].parent = NoComment /\ rows[c].root = NoComment /\ rows[c].depth = 0
    BY <1>9 DEF PinsRoots
  <1>10. CASE SetPinned(r)
    <2>1. /\ rows' = WithPinned(rows, job[r].targets, job[r].pinned)
          /\ UNCHANGED <<nextId, threads, accounts>> /\ wanted' = wanted
          /\ job[r].targets \subseteq DOMAIN rows /\ job[r].pinned \in BOOLEAN
      BY <1>1, <1>7, <1>10 DEF SetPinned, Job
    <2>2. Pinning(r)
      BY <1>10 DEF SetPinned, Pinning
    <2>3. \A c \in job[r].targets : rows[c].parent = NoComment /\ rows[c].root = NoComment /\ rows[c].depth = 0
      BY <1>9, <2>1, <2>2
    <2>4. QED
      BY <2>1, <2>3, PinPins
  <1>11. CASE WriteBatch(r)
    <2>1. /\ pc[r] = "writeBatch" /\ UNCHANGED <<nextId, threads, accounts>> /\ wanted' = wanted
      BY <1>7, <1>11 DEF WriteBatch
    <2>2. CASE job[r].op = "batchPin"
      <3>1. rows' = WithPinned(rows, job[r].targets, job[r].pinned) /\ Pinning(r)
        BY <1>11, <2>1, <2>2 DEF WriteBatch, Pinning
      <3>2. job[r].targets \subseteq DOMAIN rows /\ job[r].pinned \in BOOLEAN
        BY <1>1, <2>1, <2>2 DEF Sound, Held, RowsLocked, InTx, CommentBatches, Job
      <3>3. \A c \in job[r].targets :
               rows[c].parent = NoComment /\ rows[c].root = NoComment /\ rows[c].depth = 0
        BY <1>9, <3>1, <3>2
      <3>4. QED
        BY <2>1, <3>1, <3>2, <3>3, PinPins
    <2>3. CASE job[r].op # "batchPin"
      <3>1. rows' = WithModeration(rows, job[r].plan)
        BY <1>11, <2>3 DEF WriteBatch
      <3>2. QED
        BY <1>1, <1>2, <2>1, <3>1, PlanModerates
    <2>4. QED
      BY <2>2, <2>3
  <1>12. QED
    BY <1>3, <1>4, <1>5, <1>6, <1>8, <1>10, <1>11 DEF ModerationNext

(* The foreign keys take nothing that no row outside refers to. *)
LEMMA CascadeExact ==
    ASSUME NEW f, NEW S, S \subseteq DOMAIN f, CascadeClosed(f, S)
    PROVE  Cascade(f, S) = S
  BY DEF Cascade

(* With every reference staged the deletion takes the selected and leaves  *)
(* their replies: the rows become what the board promises.                 *)
LEMMA DeletesExactly ==
    ASSUME TypeOK, NEW S, S \subseteq DOMAIN rows, NEW kept, DOMAIN rows \ S \subseteq kept, NEW f,
           f = Detach(rows, kept \cap ParentIn(rows, S), kept \cap RootIn(rows, S))
    PROVE  /\ Cascade(f, S) = S
           /\ DropRows(f, S) = DropRows(Detach(rows, ParentIn(rows, S), RootIn(rows, S)), S)
  <1> DEFINE g == Detach(rows, ParentIn(rows, S), RootIn(rows, S))
  <1>1. DOMAIN f = DOMAIN rows /\ DOMAIN g = DOMAIN rows
    BY DEF Detach
  <1>2. \A c \in DOMAIN rows : rows[c] \in Row
    BY DEF TypeOK
  <1>3. NoComment \notin S
    BY DEF TypeOK, Comments, NoComment
  <1>4. \A c \in DOMAIN rows \ S : f[c].parent \notin S /\ f[c].root \notin S
    BY <1>2, <1>3 DEF Detach, ParentIn, RootIn, Row
  <1>5. CascadeClosed(f, S)
    BY <1>1, <1>4 DEF CascadeClosed
  <1>6. Cascade(f, S) = S
    BY <1>1, <1>5, CascadeExact
  <1>7. \A c \in DOMAIN rows \ S : f[c] = g[c]
    BY DEF Detach
  <1> HIDE DEF g
  <1>8. DropRows(f, S) = DropRows(g, S)
    BY <1>1, <1>7 DEF DropRows
  <1>9. QED
    BY <1>6, <1>8 DEF g

LEMMA DeleteRemoves ==
    ASSUME Inv, LocksInv, NEW r \in Requests, Steady(r), Delete(r)
    PROVE  Board!Next
  <1>1. TypeOK /\ job[r] \in Job /\ Sound(r) /\ pc[r] = "delete"
    BY DEF Inv, LocksInv, TypeOK, Delete
  <1>2. PICK S : S = Selected(r)
    OBVIOUS
  <1>3. PICK f : f = Detach(rows, job[r].cutParents, job[r].cutRoots)
    OBVIOUS
  <1>4. /\ rows' = DropRows(f, Cascade(f, S)) /\ job[r].targets \subseteq DOMAIN rows
        /\ accounts' = [u \in Users |-> IF u \in job[r].users THEN "absent" ELSE accounts[u]]
        /\ Done(r) /\ UNCHANGED <<nextId, threads>>
    BY <1>2, <1>3 DEF Delete
  <1>5. S \subseteq DOMAIN rows
    BY <1>2, <1>4 DEF Selected
  <1>6. DOMAIN rows \ S \subseteq Kept(r)
    BY <1>2 DEF Selected, Kept
  <1>7. /\ job[r].cutParents = Kept(r) \cap ParentIn(rows, S)
        /\ job[r].cutRoots = Kept(r) \cap RootIn(rows, S)
    BY <1>1, <1>2 DEF Steady, CutsKnown, ParentRefs, RootRefs
  <1>8. rows' = DropRows(Detach(rows, ParentIn(rows, S), RootIn(rows, S)), S)
    BY <1>1, <1>3, <1>4, <1>5, <1>6, <1>7, DeletesExactly
  <1>9. rows' = Board!Without(S)
    BY <1>8, SameRules DEF Board!Without
  <1>10. CASE job[r].op \in NamedDeletes
    <2>1. job[r].users = {}
      BY <1>1, <1>10 DEF Sound, StepFits, Fits, HardSteps, NamedDeletes, UserHardDeletes
    <2>2. accounts' = accounts
      BY <1>1, <1>4, <2>1 DEF TypeOK
    <2>3. wanted[r] = S
      BY <1>2, <1>10, WantedOf DEF Selected, NamedDeletes, UserHardDeletes
    <2>4. wanted' = [wanted EXCEPT ![r] = {}]
      BY <1>1, <1>4, DoneWanted
    <2>5. Board!Remove(r)
      BY <1>4, <1>5, <1>9, <2>2, <2>3, <2>4 DEF Board!Remove
    <2>6. QED
      BY <2>5 DEF Board!Next
  <1>11. CASE job[r].op \notin NamedDeletes
    <2>1. job[r].op \in UserHardDeletes
      BY <1>1, <1>11 DEF Sound, StepFits, Fits, HardSteps, NamedDeletes
    <2>2. S = Board!Of(job[r].users)
      BY <1>2, <2>1 DEF Selected, Board!Of
    <2>3. wanted' = wanted
      BY <1>1, <1>4, <1>11, DoneWanted
    <2>4. Board!RemoveUsers(job[r].users)
      BY <1>4, <1>9, <2>2, <2>3 DEF Board!RemoveUsers
    <2>5. job[r].users \in SUBSET Users
      BY <1>1 DEF Job
    <2>6. QED
      BY <2>4, <2>5 DEF Board!Next
  <1>12. QED
    BY <1>10, <1>11

LEMMA HardDeleteMaps ==
    ASSUME Inv, LocksInv, NEW r \in Requests, Steady(r), HardDeleteNext(r)
    PROVE  Board!Next \/ UNCHANGED Board!vars
  <1>1. TypeOK /\ job[r] \in Job
    BY DEF Inv, TypeOK
  <1>2. ASSUME NEW c \in DOMAIN rows, BeginHardDelete(r, c) PROVE Board!Next
    <2>1. PICK j : j = [NoJob EXCEPT !.op = "hardDelete", !.targets = {c}]
      OBVIOUS
    <2>2. Begin(r, "scanParents", j) /\ j.op = "hardDelete" /\ j.targets = {c}
      BY <1>2, <2>1 DEF BeginHardDelete, NoJob
    <2>3. QED
      BY <1>1, <2>2, BeginAsks DEF NamedDeletes
  <1>3. ASSUME NEW S \in SUBSET DOMAIN rows, BeginBatchHardDelete(r, S) PROVE Board!Next
    <2>1. PICK j : j = [NoJob EXCEPT !.op = "batchHardDelete", !.targets = S]
      OBVIOUS
    <2>2. Begin(r, "scanParents", j) /\ j.op = "batchHardDelete" /\ j.targets = S
      BY <1>3, <2>1 DEF BeginBatchHardDelete, NoJob
    <2>3. QED
      BY <1>1, <2>2, BeginAsks DEF NamedDeletes
  <1>4. ASSUME NEW U, NEW op \in UserHardDeletes, BeginUserHardDelete(r, U, op)
        PROVE  UNCHANGED Board!vars
    <2>1. PICK j : j = [NoJob EXCEPT !.op = op, !.users = U]
      OBVIOUS
    <2>2. Begin(r, "scanParents", j) /\ j.op = op
      BY <1>4, <2>1 DEF BeginUserHardDelete, NoJob
    <2>3. QED
      BY <1>1, <2>2, BeginUnnoticed DEF NamedDeletes, UserHardDeletes
  <1>5. ASSUME NEW j, job' = [job EXCEPT ![r] = j], j.op = job[r].op, j.targets = job[r].targets,
               UNCHANGED <<rows, nextId, threads, accounts>>
        PROVE  UNCHANGED Board!vars
    BY <1>1, <1>5, GoUnnoticed
  <1>6. CASE ScanParents(r)
    <2>1. PICK j : j = [job[r] EXCEPT !.scan = ParentRefs(r)]
      OBVIOUS
    <2>2. job' = [job EXCEPT ![r] = j] /\ UNCHANGED <<rows, nextId, threads, accounts>>
      BY <1>6, <2>1 DEF ScanParents
    <2>3. j.op = job[r].op /\ j.targets = job[r].targets
      BY <1>1, <2>1 DEF Job
    <2>4. QED
      BY <1>5, <2>2, <2>3
  <1>7. CASE DetachParents(r)
    <2>1. PICK j : j = [job[r] EXCEPT !.cutParents = job[r].scan \cap ParentRefs(r), !.scan = {}]
      OBVIOUS
    <2>2. job' = [job EXCEPT ![r] = j] /\ UNCHANGED <<rows, nextId, threads, accounts>>
      BY <1>7, <2>1 DEF DetachParents
    <2>3. j.op = job[r].op /\ j.targets = job[r].targets
      BY <1>1, <2>1 DEF Job
    <2>4. QED
      BY <1>5, <2>2, <2>3
  <1>8. CASE ScanRoots(r)
    <2>1. PICK j : j = [job[r] EXCEPT !.scan = RootRefs(r)]
      OBVIOUS
    <2>2. job' = [job EXCEPT ![r] = j] /\ UNCHANGED <<rows, nextId, threads, accounts>>
      BY <1>8, <2>1 DEF ScanRoots
    <2>3. j.op = job[r].op /\ j.targets = job[r].targets
      BY <1>1, <2>1 DEF Job
    <2>4. QED
      BY <1>5, <2>2, <2>3
  <1>9. CASE DetachRoots(r)
    <2>1. PICK j : j = [job[r] EXCEPT !.cutRoots = job[r].scan \cap RootRefs(r), !.scan = {}]
      OBVIOUS
    <2>2. job' = [job EXCEPT ![r] = j] /\ UNCHANGED <<rows, nextId, threads, accounts>>
      BY <1>9, <2>1 DEF DetachRoots
    <2>3. j.op = job[r].op /\ j.targets = job[r].targets
      BY <1>1, <2>1 DEF Job
    <2>4. QED
      BY <1>5, <2>2, <2>3
  <1>10. Delete(r) => Board!Next
    BY DeleteRemoves
  <1>11. "userHardDelete" \in UserHardDeletes /\ "usersHardDelete" \in UserHardDeletes
    BY DEF UserHardDeletes
  <1>12. QED
    BY <1>2, <1>3, <1>4, <1>6, <1>7, <1>8, <1>9, <1>10, <1>11 DEF HardDeleteNext

LEMMA CreateMaps ==
    ASSUME Inv, LocksInv, NEW r \in Requests, CreateNext(r)
    PROVE  Board!Next \/ UNCHANGED Board!vars
  <1>1. TypeOK /\ job[r] \in Job
    BY DEF Inv, TypeOK
  <1>2. ASSUME NEW u, NEW t, NEW p, NEW s, BeginCreate(r, u, t, p, s) PROVE UNCHANGED Board!vars
    <2>1. PICK j : j = [NoJob EXCEPT !.op = "create", !.users = {u}, !.thread = t,
                                     !.parent = p, !.status = s]
      OBVIOUS
    <2>2. Begin(r, "lockThread", j) /\ j.op = "create"
      BY <1>2, <2>1 DEF BeginCreate, NoJob
    <2>3. QED
      BY <1>1, <2>2, BeginUnnoticed DEF NamedDeletes
  <1>3. ASSUME NEW u, NEW p, NEW s, BeginReply(r, u, p, s) PROVE UNCHANGED Board!vars
    <2>1. PICK j : j = [NoJob EXCEPT !.op = "reply", !.users = {u}, !.thread = rows[p].thread,
                                     !.parent = p, !.status = s]
      OBVIOUS
    <2>2. Begin(r, "lockThread", j) /\ j.op = "reply"
      BY <1>3, <2>1 DEF BeginReply, NoJob
    <2>3. QED
      BY <1>1, <2>2, BeginUnnoticed DEF NamedDeletes
  <1>4. LockThread(r) \/ CheckActor(r) \/ UpdateProfile(r) => UNCHANGED Board!vars
    BY ReadUnnoticed DEF LockThread, CheckActor, UpdateProfile
  <1>5. CASE LockParent(r)
    <2>1. CASE UNCHANGED job
      BY <1>5, <2>1, ReadUnnoticed DEF LockParent
    <2>2. CASE ~ UNCHANGED job
      <3>1. PICK d, g : job' = [job EXCEPT ![r].depth = d, ![r].root = g]
        BY <1>5, <2>2 DEF LockParent
      <3>2. PICK j : j = [job[r] EXCEPT !.depth = d, !.root = g]
        OBVIOUS
      <3>3. job' = [job EXCEPT ![r] = j]
        BY <1>1, <3>1, <3>2 DEF TypeOK
      <3>4. j.op = job[r].op /\ j.targets = job[r].targets
        BY <1>1, <3>2 DEF Job
      <3>5. UNCHANGED <<rows, nextId, threads, accounts>>
        BY <1>5 DEF LockParent
      <3>6. QED
        BY <1>1, <3>3, <3>4, <3>5, GoUnnoticed
    <2>3. QED
      BY <2>1, <2>2
  <1>6. InsertComment(r) => Board!Next
    BY InsertPosts
  <1>7. QED
    BY <1>2, <1>3, <1>4, <1>5, <1>6 DEF CreateNext

LEMMA AccountMaps ==
    ASSUME Inv, LocksInv, NEW r \in Requests, Steady(r), AccountNext(r)
    PROVE  Board!Next \/ UNCHANGED Board!vars
  <1>1. TypeOK /\ job[r] \in Job /\ Sound(r)
    BY DEF Inv, LocksInv, TypeOK
  <1>2. ASSUME NEW U, NEW op \in UserSoftDeletes, BeginUserSoftDelete(r, U, op)
        PROVE  UNCHANGED Board!vars
    <2>1. PICK j : j = [NoJob EXCEPT !.op = op, !.users = U]
      OBVIOUS
    <2>2. Begin(r, "softDeleteUsers", j) /\ j.op = op
      BY <1>2, <2>1 DEF BeginUserSoftDelete, NoJob
    <2>3. QED
      BY <1>1, <2>2, BeginUnnoticed DEF NamedDeletes, UserSoftDeletes
  <1>3. SoftDeleteUsers(r) => UNCHANGED Board!vars
    BY ReadUnnoticed DEF SoftDeleteUsers
  <1>4. CASE ScanOwned(r)
    <2>1. PICK j : j = [job[r] EXCEPT !.scan = Owned(r)]
      OBVIOUS
    <2>2. job' = [job EXCEPT ![r] = j] /\ UNCHANGED <<rows, nextId, threads, accounts>>
      BY <1>4, <2>1 DEF ScanOwned
    <2>3. j.op = job[r].op /\ j.targets = job[r].targets
      BY <1>1, <2>1 DEF Job
    <2>4. QED
      BY <1>1, <2>2, <2>3, GoUnnoticed
  <1>5. CASE SoftDeleteOwned(r)
    <2> DEFINE U == job[r].users
    <2>1. pc[r] = "softDeleteOwned" /\ Done(r) /\ UNCHANGED <<nextId, threads>>
      BY <1>5 DEF SoftDeleteOwned
    <2>2. job[r].scan \cap Owned(r) = {d \in Board!Of(U) : rows[d].mod.status # "deleted"}
      BY <2>1 DEF Steady, OwnedKnown, Owned, Board!Of
    <2>3. PICK T : T = {d \in Board!Of(U) : rows[d].mod.status # "deleted"}
      OBVIOUS
    <2>4. rows' = WithModeration(rows, [c \in T |-> SoftDeleted(rows[c].mod)])
      BY <1>5, <2>2, <2>3 DEF SoftDeleteOwned
    <2>5. rows' = Board!WithModeration(rows, [c \in T |-> Board!SoftDeleted(rows[c].mod)])
      <3>1. [c \in T |-> SoftDeleted(rows[c].mod)] = [c \in T |-> Board!SoftDeleted(rows[c].mod)]
        BY SameRules
      <3>2. QED
        BY <2>4, <3>1, SameRules
    <2>6. accounts' = [u \in Users |-> IF u \in U THEN "deleted" ELSE accounts[u]]
      BY <1>5 DEF SoftDeleteOwned
    <2>7. job[r].op \notin NamedDeletes /\ U \in SUBSET Users
      BY <1>1, <2>1 DEF Sound, StepFits, Fits, SoftSteps, UserSoftDeletes, NamedDeletes, Job
    <2>8. wanted' = wanted
      BY <1>1, <2>1, <2>7, DoneWanted
    <2>9. Board!HideUsers(U)
      BY <2>1, <2>3, <2>5, <2>6, <2>8 DEF Board!HideUsers
    <2>10. QED
      BY <2>7, <2>9 DEF Board!Next
  <1>6. ASSUME NEW u \in Users, RestoreUser(r, u) PROVE Board!Next
    <2>1. wanted' = wanted
      BY <1>6, WantedOf DEF RestoreUser, Immediate
    <2>2. Board!RestoreUser(u)
      BY <1>6, <2>1 DEF RestoreUser, Immediate, Board!RestoreUser
    <2>3. QED
      BY <2>2 DEF Board!Next
  <1>7. "userSoftDelete" \in UserSoftDeletes /\ "usersSoftDelete" \in UserSoftDeletes
    BY DEF UserSoftDeletes
  <1>8. QED
    BY <1>2, <1>3, <1>4, <1>5, <1>6, <1>7 DEF AccountNext

LEMMA ThreadMaps ==
    ASSUME Inv, LocksInv, NEW r \in Requests, ThreadNext(r)
    PROVE  Board!Next
  <1>1. TypeOK /\ TreeIntact
    BY DEF Inv, LocksInv
  <1>2. UNCHANGED <<nextId, pc, job>>
    BY DEF ThreadNext, SetThreads, DeleteThreads, Immediate
  <1>3. wanted' = wanted
    BY <1>2, WantedOf
  <1>4. ASSUME NEW S \in SUBSET Threads, NEW state \in {"open", "closed"}, SetThreads(r, S, state)
        PROVE  Board!Next
    <2>1. Board!SetThreads(S, state) /\ \A t \in S : threads[t] # "absent"
      BY <1>2, <1>3, <1>4 DEF SetThreads, Board!SetThreads
    <2>2. QED
      BY <2>1 DEF Board!Next
  <1>5. ASSUME NEW S \in SUBSET Threads, DeleteThreads(r, S)
        PROVE  Board!Next
    <2>1. PICK gone : gone = {c \in DOMAIN rows : rows[c].thread \in S}
      OBVIOUS
    <2>2. gone \subseteq DOMAIN rows /\ NoComment \notin gone
      BY <1>1, <2>1 DEF TypeOK, Comments, NoComment
    <2>3. ASSUME NEW c \in DOMAIN rows, {rows[c].parent, rows[c].root} \cap gone # {}
          PROVE  c \in gone
      <3>1. WellPlaced(rows, c)
        BY <1>1 DEF TreeIntact
      <3>2. /\ rows[c].parent # NoComment => rows[rows[c].parent].thread = rows[c].thread
            /\ rows[c].root # NoComment => rows[rows[c].root].thread = rows[c].thread
        BY <3>1 DEF WellPlaced
      <3>3. QED
        BY <2>1, <2>2, <2>3, <3>2
    <2>4. CascadeClosed(rows, gone)
      BY <2>3 DEF CascadeClosed
    <2>5. Cascade(rows, gone) = gone
      BY <2>2, <2>4, CascadeExact
    <2>6. /\ rows' = DropRows(rows, gone)
          /\ threads' = [t \in Threads |-> IF t \in S THEN "absent" ELSE threads[t]]
          /\ UNCHANGED accounts
      BY <1>5, <2>1, <2>5 DEF DeleteThreads
    <2>7. Board!RemoveThreads(S)
      BY <1>2, <1>3, <2>1, <2>6, SameRules DEF Board!RemoveThreads
    <2>8. QED
      BY <2>7 DEF Board!Next
  <1>6. QED
    BY <1>4, <1>5 DEF ThreadNext

LEMMA FailWithdraws ==
    ASSUME TypeOK, NEW r \in Requests, Fail(r)
    PROVE  Board!Next
  <1>1. wanted' = [wanted EXCEPT ![r] = {}] /\ UNCHANGED <<rows, nextId, threads, accounts>>
    BY DoneWanted DEF Fail
  <1>2. Board!Withdraw(r)
    BY <1>1 DEF Board!Withdraw, Board!tables
  <1>3. QED
    BY <1>2 DEF Board!Next

LEMMA StepMaps ==
    ASSUME Inv, LocksInv, AllSteady, PinsRoots, [Next]_vars
    PROVE  [Board!Next]_(Board!vars)
  <1>1. TypeOK
    BY DEF Inv
  <1>2. ASSUME NEW r \in Requests, StepOf(r) PROVE Board!Next \/ UNCHANGED Board!vars
    <2>1. Steady(r)
      BY DEF AllSteady
    <2>2. QED
      BY <1>1, <1>2, <2>1, CreateMaps, ModerationMaps, HardDeleteMaps, AccountMaps, ThreadMaps, FailWithdraws
      DEF StepOf
  <1>3. CASE UNCHANGED vars
    BY <1>3, ReadUnnoticed DEF vars
  <1>4. QED
    BY <1>2, <1>3, EveryStepOf

LEMMA BoardBegins == Init => Board!Init
  <1> SUFFICES ASSUME Init PROVE Board!Init
    OBVIOUS
  <1>1. \A r \in Requests : job[r].op \notin NamedDeletes
    BY NoJobHolds DEF Init, NamedDeletes
  <1>2. wanted = [r \in Requests |-> {}]
    BY <1>1, WantedOf
  <1>3. QED
    BY <1>2 DEF Init, Board!Init

(* To its callers every command is one step: the statements of commands     *)
(* that run at the same time never show, and a deletion takes what it was   *)
(* asked to and no reply to it.  In the file database for all commands; in  *)
(* PostgreSQL without the deletions that do not lock what they are about to *)
(* delete, since a reply may then come between their UPDATEs and their      *)
(* DELETE and go with the cascade.                                          *)
THEOREM StoreImplementsBoard ==
    ASSUME Dialect = "sqlite" \/ UnlockedCommands \cap Commands = {}
    PROVE  Spec => ImplementsBoard
  <1>1. Spec => []AllSteady
    BY StoreSteady
  <1>2. QED
    BY <1>1, StoreInvariant, StoreLocks, StorePinsRoots, BoardBegins, StepMaps, PTL
    DEF Spec, ImplementsBoard, Board!Spec
=============================================================================
