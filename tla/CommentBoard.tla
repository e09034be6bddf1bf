---------------------------- MODULE CommentBoard ----------------------------
(***************************************************************************)
(* What the comment service promises its callers: every command is one     *)
(* step on the comments, threads and accounts of the site.  In particular  *)
(* deleting comments for good takes the wanted ones and no other: their    *)
(* replies stay and merely lose the reference.                             *)
(*                                                                         *)
(* How long ago a request looked at a comment before it moderates or pins  *)
(* it is not promised, only that the columns it writes fit together.       *)
(***************************************************************************)
EXTENDS CommentRules

CONSTANT Requests

VARIABLES rows, nextId, threads, accounts,
          wanted    \* per request, the comments it was asked to delete for good

tables == <<rows, nextId, threads, accounts>>
vars == <<tables, wanted>>

Init ==
    /\ rows = [c \in {} |-> {}]
    /\ nextId = 1
    /\ threads = [t \in Threads |-> "absent"]
    /\ accounts = [u \in Users |-> "active"]
    /\ wanted = [r \in Requests |-> {}]

(* A comment by u on page t, under parent p unless p is NoComment.  An     *)
(* unknown author gets an account and an unknown page its row.             *)
Post(u, t, p, s) ==
    /\ nextId \in Comments
    /\ p # NoComment => p \in DOMAIN rows /\ ReplyAllowed(rows[p], t)
    /\ threads[t] # "closed"
    /\ rows' = AddRow(rows, nextId,
                      IF p = NoComment THEN NewRow(t, u, NoComment, NoComment, 0, s)
                      ELSE NewRow(t, u, p, ReplyRoot(rows, p), rows[p].depth + 1, s))
    /\ nextId' = nextId + 1
    /\ threads' = [threads EXCEPT ![t] = "open"]
    /\ accounts' = [accounts EXCEPT ![u] = IF @ = "absent" THEN "active" ELSE @]
    /\ UNCHANGED wanted

(* Some comments get new moderation columns. *)
Moderate ==
    /\ DOMAIN rows' = DOMAIN rows
    /\ rows' = [c \in DOMAIN rows |-> [rows[c] EXCEPT !.mod = rows'[c].mod]]
    /\ \A c \in DOMAIN rows :
        rows'[c].mod \in {rows[c].mod} \cup {m \in Moderation : Consistent(m)}
    /\ UNCHANGED <<nextId, threads, accounts, wanted>>

Pin(S, pinned) ==
    /\ \A c \in S : rows[c].parent = NoComment /\ rows[c].root = NoComment /\ rows[c].depth = 0
    /\ rows' = WithPinned(rows, S, pinned)
    /\ UNCHANGED <<nextId, threads, accounts, wanted>>

Without(S) == DropRows(Detach(rows, ParentIn(rows, S), RootIn(rows, S)), S)

(* A request is asked to delete comments, and does so or gives up. *)
Ask(r, S) ==
    /\ wanted[r] = {}
    /\ wanted' = [wanted EXCEPT ![r] = S]
    /\ UNCHANGED tables

Withdraw(r) ==
    /\ wanted' = [wanted EXCEPT ![r] = {}]
    /\ UNCHANGED tables

Remove(r) ==
    /\ wanted[r] \subseteq DOMAIN rows
    /\ rows' = Without(wanted[r])
    /\ wanted' = [wanted EXCEPT ![r] = {}]
    /\ UNCHANGED <<nextId, threads, accounts>>

Of(U) == {c \in DOMAIN rows : rows[c].user \in U}

RemoveUsers(U) ==
    /\ rows' = Without(Of(U))
    /\ accounts' = [u \in Users |-> IF u \in U THEN "absent" ELSE accounts[u]]
    /\ UNCHANGED <<nextId, threads, wanted>>

(* Their comments are hidden, each remembering the status it had. *)
HideUsers(U) ==
    /\ rows' = WithModeration(rows, [c \in {d \in Of(U) : rows[d].mod.status # "deleted"} |->
                                       SoftDeleted(rows[c].mod)])
    /\ accounts' = [u \in Users |-> IF u \in U THEN "deleted" ELSE accounts[u]]
    /\ UNCHANGED <<nextId, threads, wanted>>

RestoreUser(u) ==
    /\ accounts[u] = "deleted"
    /\ accounts' = [accounts EXCEPT ![u] = "active"]
    /\ UNCHANGED <<rows, nextId, threads, wanted>>

SetThreads(T, state) ==
    /\ threads' = [t \in Threads |-> IF t \in T THEN state ELSE threads[t]]
    /\ UNCHANGED <<rows, nextId, accounts, wanted>>

RemoveThreads(T) ==
    /\ rows' = DropRows(rows, {c \in DOMAIN rows : rows[c].thread \in T})
    /\ threads' = [t \in Threads |-> IF t \in T THEN "absent" ELSE threads[t]]
    /\ UNCHANGED <<nextId, accounts, wanted>>

Next ==
    \/ \E u \in Users, t \in Threads, p \in DOMAIN rows \cup {NoComment}, s \in LiveStatus :
        Post(u, t, p, s)
    \/ Moderate
    \/ \E S \in SUBSET DOMAIN rows, pinned \in BOOLEAN : Pin(S, pinned)
    \/ \E r \in Requests :
        \/ \E S \in SUBSET DOMAIN rows : Ask(r, S)
        \/ Withdraw(r)
        \/ Remove(r)
    \/ \E U \in SUBSET Users : RemoveUsers(U) \/ HideUsers(U)
    \/ \E u \in Users : RestoreUser(u)
    \/ \E T \in SUBSET Threads :
        \/ \E state \in {"open", "closed"} :
            (\A t \in T : threads[t] # "absent") /\ SetThreads(T, state)
        \/ RemoveThreads(T)

Spec == Init /\ [][Next]_vars

-----------------------------------------------------------------------------
(* The reply tree stays intact: deleting, from wherever in a tree, leaves  *)
(* no reference behind and no reply above or beside its parent's root.     *)
TreeIntact == \A c \in DOMAIN rows : WellPlaced(rows, c)
=============================================================================
