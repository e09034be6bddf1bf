------------------------- MODULE CommentBoardProofs -------------------------
(***************************************************************************)
(* The reply tree stays intact on the board, for any number of comments,   *)
(* users, threads and requests.                                            *)
(*                                                                         *)
(* TreeIntact is inductive once it is known that rows are typed and that   *)
(* the next identity is not in use.                                        *)
(***************************************************************************)
EXTENDS CommentBoard, TLAPS

RowsOK ==
    /\ nextId \in Nat
    /\ DOMAIN rows \subseteq 1..(nextId - 1)
    /\ DOMAIN rows \subseteq Comments
    /\ rows \in [DOMAIN rows -> Row]

BoardInv == RowsOK /\ TreeIntact

-----------------------------------------------------------------------------
(* What the rules return. *)

LEMMA InitialType ==
    ASSUME NEW s \in LiveStatus
    PROVE  Initial(s) \in Moderation
  BY DEF Initial, Moderation, Status

LEMMA SoftDeleteType ==
    ASSUME NEW m \in Moderation, m.status # "deleted"
    PROVE  SoftDeleted(m) \in Moderation
  BY DEF SoftDeleted, Moderation, Status, LiveStatus

LEMMA NewRowType ==
    ASSUME NEW t \in Threads, NEW u \in Users, NEW p \in Comments \cup {NoComment},
           NEW g \in Comments \cup {NoComment}, NEW d \in Nat, NEW s \in LiveStatus
    PROVE  NewRow(t, u, p, g, d, s) \in Row
  BY InitialType DEF NewRow, Row

(* Dropping a set of rows that the rest does not reference keeps the rest in place. *)
LEMMA DropKeepsPlace ==
    ASSUME NEW f, NEW gone, DOMAIN f \subseteq Comments, f \in [DOMAIN f -> Row],
           \A c \in DOMAIN f : WellPlaced(f, c),
           \A c \in DOMAIN f \ gone : f[c].parent \notin gone /\ f[c].root \notin gone
    PROVE  \A c \in DOMAIN DropRows(f, gone) : WellPlaced(DropRows(f, gone), c)
  BY DEF DropRows, WellPlaced, Row, NoComment, Comments

(* Detaching the rows that reference S, then dropping S, keeps the rest in place. *)
LEMMA WithoutKeepsPlace ==
    ASSUME NEW S, RowsOK, TreeIntact
    PROVE  /\ Without(S) \in [DOMAIN rows \ S -> Row]
           /\ \A c \in DOMAIN rows \ S : WellPlaced(Without(S), c)
  <1> DEFINE cut(c) == [rows[c] EXCEPT !.parent = IF @ \in S THEN NoComment ELSE @,
                                       !.root = IF @ \in S THEN NoComment ELSE @]
  <1>1. Without(S) = [c \in DOMAIN rows \ S |-> cut(c)]
    BY DEF Without, DropRows, Detach, ParentIn, RootIn, RowsOK, Row
  <1>2. \A c \in DOMAIN rows :
          /\ cut(c) \in Row
          /\ cut(c).thread = rows[c].thread /\ cut(c).depth = rows[c].depth
          /\ cut(c).parent = IF rows[c].parent \in S THEN NoComment ELSE rows[c].parent
          /\ cut(c).root = IF rows[c].root \in S THEN NoComment ELSE rows[c].root
    BY DEF RowsOK, Row
  <1> HIDE DEF cut
  <1>3. Without(S) \in [DOMAIN rows \ S -> Row]
    BY <1>1, <1>2
  <1>4. ASSUME NEW c \in DOMAIN rows \ S
        PROVE  WellPlaced(Without(S), c)
    <2> DEFINE p == rows[c].parent
               g == rows[c].root
    <2>1. WellPlaced(rows, c)
      BY DEF TreeIntact
    <2>2. Without(S)[c] = cut(c) /\ DOMAIN Without(S) = DOMAIN rows \ S
      BY <1>1
    <2>3. NoComment \notin DOMAIN rows
      BY DEF RowsOK, Comments, NoComment
    <2>4. ASSUME p \in DOMAIN rows \ S
          PROVE  Without(S)[p] = cut(p)
      BY <1>1, <2>4
    <2>5. ASSUME g \in DOMAIN rows \ S
          PROVE  Without(S)[g] = cut(g)
      BY <1>1, <2>5
    <2>6. QED
      BY <1>2, <2>1, <2>2, <2>3, <2>4, <2>5 DEF WellPlaced
  <1>5. QED
    BY <1>3, <1>4
-----------------------------------------------------------------------------
(* Every step of the board keeps the tree. *)

LEMMA InitBoard == Init => BoardInv
  BY RulesAssumption DEF Init, BoardInv, RowsOK, TreeIntact, Comments

LEMMA PostKeeps ==
    ASSUME NEW u \in Users, NEW t \in Threads, NEW p \in DOMAIN rows \cup {NoComment},
           NEW s \in LiveStatus, BoardInv, Post(u, t, p, s)
    PROVE  BoardInv'
  <1> DEFINE new == IF p = NoComment THEN NewRow(t, u, NoComment, NoComment, 0, s)
                    ELSE NewRow(t, u, p, ReplyRoot(rows, p), rows[p].depth + 1, s)
  <1>1. /\ nextId \in Comments /\ nextId \in Nat
        /\ nextId \notin DOMAIN rows
        /\ NoComment \notin DOMAIN rows
        /\ nextId' = nextId + 1
        /\ rows' = AddRow(rows, nextId, new)
    BY DEF Post, BoardInv, RowsOK, Comments, NoComment
  <1>2. /\ DOMAIN rows' = DOMAIN rows \cup {nextId}
        /\ rows'[nextId] = new
        /\ \A c \in DOMAIN rows : rows'[c] = rows[c]
    BY <1>1 DEF AddRow
  <1>3. CASE p = NoComment
    <2>1. new = NewRow(t, u, NoComment, NoComment, 0, s)
      BY <1>3
    <2>2. new \in Row
      BY <2>1, NewRowType
    <2>3. RowsOK'
      BY <1>1, <1>2, <2>2 DEF BoardInv, RowsOK, AddRow, Comments
    <2>4. WellPlaced(rows', nextId)
      BY <1>2, <2>1, RulesAssumption DEF WellPlaced, NewRow, NoComment
    <2>5. ASSUME NEW c \in DOMAIN rows
          PROVE  WellPlaced(rows', c)
      BY <1>1, <1>2, <2>5 DEF BoardInv, RowsOK, TreeIntact, WellPlaced
    <2>6. QED
      BY <1>2, <2>3, <2>4, <2>5 DEF BoardInv, TreeIntact
  <1>4. CASE p # NoComment
    <2>1. new = NewRow(t, u, p, ReplyRoot(rows, p), rows[p].depth + 1, s)
      BY <1>4
    <2>2. p \in DOMAIN rows /\ ReplyAllowed(rows[p], t) /\ rows[p] \in Row /\ WellPlaced(rows, p)
      BY <1>4 DEF Post, BoardInv, RowsOK, TreeIntact
    <2>3. ReplyRoot(rows, p) \in DOMAIN rows /\ rows[ReplyRoot(rows, p)].thread = t
      BY <2>2 DEF ReplyRoot, ReplyAllowed, WellPlaced
    <2>4. new \in Row
      <3>1. rows[p].depth + 1 \in Nat
        BY <2>2 DEF Row
      <3>2. p \in Comments /\ ReplyRoot(rows, p) \in Comments
        BY <2>2, <2>3 DEF BoardInv, RowsOK
      <3>3. QED
        BY <2>1, <3>1, <3>2, NewRowType
    <2>5. RowsOK'
      BY <1>1, <1>2, <2>4 DEF BoardInv, RowsOK, AddRow, Comments
    <2>6. WellPlaced(rows', nextId)
      <3>1. /\ new.parent = p /\ new.root = ReplyRoot(rows, p) /\ new.thread = t
            /\ new.depth = rows[p].depth + 1
        BY <2>1 DEF NewRow
      <3>2. rows[p].depth + 1 <= MaxReplyDepth
        BY <2>2, RulesAssumption DEF ReplyAllowed, Row
      <3>3. rows[p].thread = t
        BY <2>2 DEF ReplyAllowed
      <3>4. new.root = IF rows[p].root = NoComment THEN p ELSE rows[p].root
        BY <3>1 DEF ReplyRoot
      <3>5. /\ rows'[nextId] = new /\ rows'[p] = rows[p]
            /\ rows'[ReplyRoot(rows, p)] = rows[ReplyRoot(rows, p)]
            /\ {p, ReplyRoot(rows, p)} \subseteq DOMAIN rows'
        BY <1>2, <2>2, <2>3
      <3>6. QED
        BY <1>1, <1>4, <2>2, <2>3, <3>1, <3>2, <3>3, <3>4, <3>5 DEF WellPlaced
    <2>7. ASSUME NEW c \in DOMAIN rows
          PROVE  WellPlaced(rows', c)
      BY <1>1, <1>2, <2>7 DEF BoardInv, RowsOK, TreeIntact, WellPlaced
    <2>8. QED
      BY <1>2, <2>5, <2>6, <2>7 DEF BoardInv, TreeIntact
  <1>5. QED
    BY <1>3, <1>4

LEMMA ModerateKeeps ==
    ASSUME BoardInv, Moderate
    PROVE  BoardInv'
  <1>1. /\ DOMAIN rows' = DOMAIN rows
        /\ nextId' = nextId
        /\ rows' = [c \in DOMAIN rows |-> [rows[c] EXCEPT !.mod = rows'[c].mod]]
    BY DEF Moderate
  <1>2. ASSUME NEW c \in DOMAIN rows
        PROVE  /\ rows'[c] \in Row
               /\ rows'[c].parent = rows[c].parent /\ rows'[c].root = rows[c].root
               /\ rows'[c].thread = rows[c].thread /\ rows'[c].depth = rows[c].depth
    <2>1. rows[c] \in Row /\ rows'[c].mod \in Moderation
      BY DEF Moderate, BoardInv, RowsOK, Row
    <2>2. rows'[c] = [rows[c] EXCEPT !.mod = rows'[c].mod]
      BY <1>1
    <2>3. QED
      BY <2>1, <2>2 DEF Row
  <1>3. RowsOK'
    BY <1>1, <1>2 DEF BoardInv, RowsOK
  <1>4. TreeIntact'
    BY <1>1, <1>2 DEF BoardInv, RowsOK, TreeIntact, WellPlaced, Row
  <1>5. QED
    BY <1>3, <1>4 DEF BoardInv
(* Pinning and hiding rewrite columns that the tree does not consist of. *)
LEMMA ColumnsKeep ==
    ASSUME BoardInv, nextId' = nextId, NEW f,
           rows' = [c \in DOMAIN rows |-> f[c]],
           \A c \in DOMAIN rows :
               /\ f[c] \in Row
               /\ f[c].parent = rows[c].parent /\ f[c].root = rows[c].root
               /\ f[c].thread = rows[c].thread /\ f[c].depth = rows[c].depth
    PROVE  BoardInv'
  <1>1. DOMAIN rows' = DOMAIN rows /\ \A c \in DOMAIN rows : rows'[c] = f[c]
    OBVIOUS
  <1>2. RowsOK'
    BY <1>1 DEF BoardInv, RowsOK
  <1>3. TreeIntact'
    BY <1>1 DEF BoardInv, RowsOK, TreeIntact, WellPlaced
  <1>4. QED
    BY <1>2, <1>3 DEF BoardInv

LEMMA PinKeeps ==
    ASSUME NEW S \in SUBSET DOMAIN rows, NEW pinned \in BOOLEAN, BoardInv, Pin(S, pinned)
    PROVE  BoardInv'
  <1> DEFINE f == WithPinned(rows, S, pinned)
  <1>1. \A c \in DOMAIN rows : rows[c] \in Row
    BY DEF BoardInv, RowsOK
  <1>2. ASSUME NEW c \in DOMAIN rows
        PROVE  /\ f[c] \in Row
               /\ f[c].parent = rows[c].parent /\ f[c].root = rows[c].root
               /\ f[c].thread = rows[c].thread /\ f[c].depth = rows[c].depth
    BY <1>1 DEF WithPinned, Row
  <1>3. nextId' = nextId /\ rows' = [c \in DOMAIN rows |-> f[c]]
    BY DEF Pin, WithPinned
  <1> HIDE DEF f
  <1>4. QED
    BY <1>2, <1>3, ColumnsKeep

LEMMA HideKeeps ==
    ASSUME NEW U \in SUBSET Users, BoardInv, HideUsers(U)
    PROVE  BoardInv'
  <1> DEFINE plan == [c \in {d \in Of(U) : rows[d].mod.status # "deleted"} |->
                        SoftDeleted(rows[c].mod)]
             f == WithModeration(rows, plan)
  <1>1. \A c \in DOMAIN rows : rows[c] \in Row
    BY DEF BoardInv, RowsOK
  <1>2. \A c \in DOMAIN plan : c \in DOMAIN rows /\ plan[c] \in Moderation
    <2> SUFFICES ASSUME NEW c \in Of(U), rows[c].mod.status # "deleted"
                 PROVE  c \in DOMAIN rows /\ SoftDeleted(rows[c].mod) \in Moderation
      OBVIOUS
    <2>1. c \in DOMAIN rows
      BY DEF Of
    <2>2. rows[c].mod \in Moderation
      BY <1>1, <2>1 DEF Row
    <2>3. QED
      BY <2>1, <2>2, SoftDeleteType
  <1>3. nextId' = nextId /\ rows' = [c \in DOMAIN rows |-> f[c]]
    BY DEF HideUsers, WithModeration
  <1> HIDE DEF plan
  <1>4. ASSUME NEW c \in DOMAIN rows
        PROVE  /\ f[c] \in Row
               /\ f[c].parent = rows[c].parent /\ f[c].root = rows[c].root
               /\ f[c].thread = rows[c].thread /\ f[c].depth = rows[c].depth
    BY <1>1, <1>2 DEF WithModeration, Row
  <1> HIDE DEF f
  <1>5. QED
    BY <1>3, <1>4, ColumnsKeep

LEMMA WithoutKeeps ==
    ASSUME NEW S, BoardInv, rows' = Without(S), nextId' = nextId
    PROVE  BoardInv'
  <1>1. RowsOK /\ TreeIntact
    BY DEF BoardInv
  <1>2. DOMAIN rows' = DOMAIN rows \ S /\ rows' \in [DOMAIN rows \ S -> Row]
    BY <1>1, WithoutKeepsPlace
  <1>3. RowsOK'
    BY <1>1, <1>2 DEF RowsOK
  <1>4. TreeIntact'
    BY <1>1, <1>2, WithoutKeepsPlace DEF TreeIntact
  <1>5. QED
    BY <1>3, <1>4 DEF BoardInv

LEMMA RemoveThreadsKeeps ==
    ASSUME NEW T \in SUBSET Threads, BoardInv, RemoveThreads(T)
    PROVE  BoardInv'
  <1> DEFINE gone == {c \in DOMAIN rows : rows[c].thread \in T}
  <1>1. nextId' = nextId /\ rows' = DropRows(rows, gone)
    BY DEF RemoveThreads
  <1>2. \A c \in DOMAIN rows \ gone : rows[c].parent \notin gone /\ rows[c].root \notin gone
    BY DEF BoardInv, RowsOK, TreeIntact, WellPlaced, NoComment, Comments
  <1>3. \A c \in DOMAIN rows' : WellPlaced(rows', c)
    <2> HIDE DEF gone
    <2>1. QED
      BY <1>1, <1>2, DropKeepsPlace DEF BoardInv, RowsOK, TreeIntact
  <1>4. RowsOK'
    BY <1>1 DEF BoardInv, RowsOK, DropRows
  <1>5. QED
    BY <1>3, <1>4 DEF BoardInv, TreeIntact

LEMMA NextKeeps == BoardInv /\ [Next]_vars => BoardInv'
  <1> SUFFICES ASSUME BoardInv, [Next]_vars
               PROVE  BoardInv'
    OBVIOUS
  <1>1. CASE UNCHANGED <<rows, nextId>>
    BY <1>1 DEF BoardInv, RowsOK, TreeIntact
  <1>2. ASSUME NEW u \in Users, NEW t \in Threads, NEW p \in DOMAIN rows \cup {NoComment},
               NEW s \in LiveStatus, Post(u, t, p, s)
        PROVE  BoardInv'
    BY <1>2, PostKeeps
  <1>3. CASE Moderate
    BY <1>3, ModerateKeeps
  <1>4. ASSUME NEW S \in SUBSET DOMAIN rows, NEW pinned \in BOOLEAN, Pin(S, pinned)
        PROVE  BoardInv'
    BY <1>4, PinKeeps
  <1>5. ASSUME NEW r \in Requests, Remove(r)
        PROVE  BoardInv'
    BY <1>5, WithoutKeeps DEF Remove
  <1>6. ASSUME NEW U \in SUBSET Users, RemoveUsers(U)
        PROVE  BoardInv'
    BY <1>6, WithoutKeeps DEF RemoveUsers
  <1>7. ASSUME NEW U \in SUBSET Users, HideUsers(U)
        PROVE  BoardInv'
    BY <1>7, HideKeeps
  <1>8. ASSUME NEW T \in SUBSET Threads, RemoveThreads(T)
        PROVE  BoardInv'
    BY <1>8, RemoveThreadsKeeps
  <1>9. QED
    BY <1>1, <1>2, <1>3, <1>4, <1>5, <1>6, <1>7, <1>8
    DEF Next, vars, tables, Ask, Withdraw, RestoreUser, SetThreads

(* The reply tree of the board stays intact, however comments are posted,  *)
(* moderated and deleted: references lead to rows of the same thread, one  *)
(* level up, and nothing is left of what is deleted.                       *)
THEOREM BoardTreeIntact == Spec => []TreeIntact
  <1>1. Init => BoardInv
    BY InitBoard
  <1>2. BoardInv /\ [Next]_vars => BoardInv'
    BY NextKeeps
  <1>3. BoardInv => TreeIntact
    BY DEF BoardInv
  <1>4. QED
    BY <1>1, <1>2, <1>3, PTL DEF Spec
=============================================================================
