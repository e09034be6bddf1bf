---------------------------- MODULE CommentRules ----------------------------
(***************************************************************************)
(* The stored form of a Furtalk comment and the pure rules the comment     *)
(* service applies to it: the moderation state machine, the plan of a      *)
(* batch command, the place a reply takes in its tree, and the cascade the *)
(* self-referencing foreign keys of table "comments" perform.              *)
(*                                                                         *)
(* A row keeps what the rules read or write.  Body, privacy columns and    *)
(* timestamps other than "is it set" are left out; the parent_id and       *)
(* root_id columns hold 0 for SQL NULL (identities start at 1).            *)
(***************************************************************************)
EXTENDS Naturals

CONSTANTS MaxComments,    \* comments that are ever inserted (bound of the model)
          Threads,        \* page keys of the site
          Users,          \* account ids
          MaxReplyDepth   \* policy: deepest level that may still be replied to, plus one

ASSUME RulesAssumption ==
    /\ MaxComments \in Nat \ {0}
    /\ MaxReplyDepth \in Nat

Comments == 1..MaxComments
NoComment == 0

LiveStatus == {"pending", "published", "spam"}
Status == LiveStatus \cup {"deleted"}

(* The moderation columns of a row: status, status_before_delete and       *)
(* whether published_at and deleted_at are set.                            *)
Moderation == [status : Status, before : LiveStatus \cup {"none"},
               publishedAt : BOOLEAN, deletedAt : BOOLEAN]

Row == [thread : Threads, user : Users,
        parent : Comments \cup {NoComment}, root : Comments \cup {NoComment},
        depth : Nat, pinned : BOOLEAN, mod : Moderation]

-----------------------------------------------------------------------------
(* Moderation *)

AdminActions == {"publish", "pending", "spam", "softDelete", "restore"}

TargetStatus == [publish |-> "published", pending |-> "pending",
                 spam |-> "spam", softDelete |-> "deleted"]

(* deleted may be left for any live status, and entered from any of them. *)
CanTransition(from, to) ==
    /\ from # to
    /\ to \in LiveStatus \/ from \in LiveStatus

Applicable(m, action) ==
    IF action = "restore"
    THEN m.status = "deleted" /\ m.before # "none"
    ELSE CanTransition(m.status, TargetStatus[action])

Initial(status) ==
    [status |-> status, before |-> "none",
     publishedAt |-> status = "published", deletedAt |-> FALSE]

(* The columns UpdateStatus is given for action, computed from the row m   *)
(* that was read.  spam and softDelete keep published_at; restore goes     *)
(* back to status_before_delete and stamps published_at anew.              *)
SpamOf(m) == [Initial("spam") EXCEPT !.publishedAt = m.publishedAt]

SoftDeleted(m) ==
    [status |-> "deleted", before |-> m.status, publishedAt |-> m.publishedAt, deletedAt |-> TRUE]

(* Faulty variant: the deletion mark stays. *)
RestoredKeepingMark(m) == [Initial(m.before) EXCEPT !.deletedAt = TRUE]

Restored(m) == Initial(m.before)

Transition(m, action) ==
    IF action = "softDelete" THEN SoftDeleted(m)
    ELSE IF action = "restore" THEN Restored(m)
    ELSE IF action = "spam" THEN SpamOf(m)
    ELSE Initial(TargetStatus[action])

(* What holds of the moderation columns of every row: the deleted ones, and *)
(* only they, carry status_before_delete and deleted_at; a published row    *)
(* has published_at, a pending one has not, and a deleted one keeps what    *)
(* its former status had.                                                   *)
Consistent(m) ==
    /\ (m.status = "deleted") = (m.before # "none")
    /\ (m.status = "deleted") = m.deletedAt
    /\ "published" \in {m.status, m.before} => m.publishedAt
    /\ "pending" \in {m.status, m.before} => ~m.publishedAt

(* In a batch a target that is already there is left unchanged, not refused. *)
BatchUnchanged(m, action) == action # "restore" /\ m.status = TargetStatus[action]
BatchAccepts(m, action) == BatchUnchanged(m, action) \/ Applicable(m, action)

(* Pinning is for roots, and only a published one may become pinned. *)
PinTargetOk(row, pinned) ==
    /\ row.parent = NoComment /\ row.root = NoComment /\ row.depth = 0
    /\ pinned => row.mod.status = "published"

WithModeration(rows, plan) ==
    [c \in DOMAIN rows |->
        IF c \in DOMAIN plan THEN [rows[c] EXCEPT !.mod = plan[c]] ELSE rows[c]]

WithPinned(rows, S, pinned) ==
    [c \in DOMAIN rows |-> IF c \in S THEN [rows[c] EXCEPT !.pinned = pinned] ELSE rows[c]]

-----------------------------------------------------------------------------
(* Trees *)

(* What createComment requires of the parent it has just locked. *)
ReplyAllowed(row, thread) ==
    /\ row.thread = thread
    /\ row.mod.status = "published"
    /\ row.depth < MaxReplyDepth

(* Faulty variant: the parent always becomes the root. *)
ReplyRootFlat(rows, parent) == parent

ReplyRoot(rows, parent) ==
    IF rows[parent].root # NoComment THEN rows[parent].root ELSE parent

NewRow(thread, user, parent, root, depth, status) ==
    [thread |-> thread, user |-> user, parent |-> parent, root |-> root,
     depth |-> depth, pinned |-> FALSE, mod |-> Initial(status)]

(* rows with parent_id cleared on the set ps and root_id on the set rs. *)
Detach(rows, ps, rs) ==
    [c \in DOMAIN rows |->
        [rows[c] EXCEPT !.parent = IF c \in ps THEN NoComment ELSE @,
                        !.root   = IF c \in rs THEN NoComment ELSE @]]

(* ON DELETE CASCADE on (site_id, parent_id) and (site_id, root_id): the   *)
(* least set of rows that holds the deleted ones and every row that        *)
(* references a member.                                                    *)
CascadeClosed(rows, S) ==
    \A c \in DOMAIN rows : {rows[c].parent, rows[c].root} \cap S # {} => c \in S

Cascade(rows, deleted) ==
    {c \in DOMAIN rows :
        \A S \in SUBSET DOMAIN rows :
            (deleted \cap DOMAIN rows \subseteq S /\ CascadeClosed(rows, S)) => c \in S}

DropRows(rows, gone) == [c \in DOMAIN rows \ gone |-> rows[c]]

(* Rows whose parent, or whose root, is in S. *)
ParentIn(rows, S) == {c \in DOMAIN rows : rows[c].parent \in S}
RootIn(rows, S) == {c \in DOMAIN rows : rows[c].root \in S}

AddRow(rows, id, row) ==
    [c \in DOMAIN rows \cup {id} |-> IF c = id THEN row ELSE rows[c]]

(* What holds of every reply: its parent and its root exist in the same    *)
(* thread, it lies one level below its parent and not deeper than the      *)
(* policy allows, and its root, while it has one, is still its parent's.   *)
WellPlaced(rows, c) ==
    LET p == rows[c].parent
        t == rows[c].root
    IN /\ {p, t} \ {NoComment} \subseteq DOMAIN rows
       /\ p # NoComment =>
            /\ rows[p].thread = rows[c].thread
            /\ rows[c].depth = rows[p].depth + 1
            /\ t \in {NoComment, IF rows[p].root = NoComment THEN p ELSE rows[p].root}
       /\ t # NoComment => rows[t].thread = rows[c].thread
       /\ rows[c].depth <= MaxReplyDepth
=============================================================================
