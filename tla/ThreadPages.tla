----------------------------- MODULE ThreadPages -----------------------------
(* What readers see of a page (service/comment query.go, public_pages.go, like.go): *)
(* the published comments, joined over those that are hidden, listed page by page  *)
(* behind a cursor while comments are posted, moderated, pinned, liked and removed.*)
EXTENDS Naturals, FiniteSets

CONSTANTS
  Fans,           \* users who like comments
  PageLimit,      \* rows of a page
  MaxPosts,       \* bound: comments ever posted
  MaxCreated,     \* bound: times a comment may carry, 1..MaxCreated
  MaxPageEdits    \* bound: changes of the page

ASSUME ThreadPagesAssumption ==
  /\ {PageLimit, MaxPosts, MaxCreated, MaxPageEdits} \subseteq Nat /\ PageLimit > 0
  /\ MaxPosts >= 3  \* room for the first rows
  /\ IsFiniteSet(Fans)

VARIABLES
  posts,       \* id -> [thread, parent, depth, published, pinned, created]
  likes,       \* <<id, user>>
  pageThread,  \* the page's thread, 0 while it has none
  walk,        \* the reader's pass over a list
  edits
pagesVars == <<posts, likes, pageThread, walk, edits>>

NoPost == 0
Gone == [thread |-> 0, parent |-> NoPost, depth |-> 0, published |-> FALSE, pinned |-> FALSE, created |-> 0]
PostsOf(thread) == {i \in DOMAIN posts : posts[i].thread = thread /\ thread # 0}

(* ---- the visible tree: an ancestor that is not published is skipped ---- *)
VisRootOfParent(above, p) == above.root
VisRoot(above, p) == IF above.root = NoPost THEN p ELSE above.root
Visible ==
  LET vis[i \in DOMAIN posts] ==
        LET p == posts[i].parent IN
        IF p = NoPost THEN [parent |-> NoPost, root |-> NoPost]
        ELSE IF posts[p].published THEN [parent |-> p, root |-> VisRoot(vis[p], p)]
        ELSE vis[p]
  IN vis
Public(thread) == {i \in PostsOf(thread) : posts[i].published}
Roots(thread) == {i \in Public(thread) : Visible[i].parent = NoPost}
Replies(thread, r) == {i \in Public(thread) : i # r /\ Visible[i].root = r}
HasReplies(thread, r) == Replies(thread, r) # {}

(* ---- lists, their order and their pages ---- *)
Lists == [of : {"mixed", "roots"}, sort : {"asc", "desc", "hot"}, root : {NoPost}]
         \cup [of : {"replies"}, sort : {"asc"}, root : 1..MaxPosts]
Listing(thread, list) ==
  CASE list.of = "mixed" -> Public(thread)
    [] list.of = "roots" -> Roots(thread)
    [] list.of = "replies" -> Replies(thread, list.root)

Place(list, i) ==
  [group |-> IF posts[i].pinned /\ list.of # "replies" THEN 1 ELSE 0,
   likes |-> IF list.sort = "hot" THEN Cardinality({l \in likes : l[1] = i}) ELSE 0,
   created |-> posts[i].created, id |-> i]
Places(thread, list) == {Place(list, i) : i \in Listing(thread, list)}

Earlier(a, b) == a.created < b.created \/ (a.created = b.created /\ a.id < b.id)
EarlierByTime(a, b) == a.created < b.created
Within(sort, a, b) ==
  CASE sort = "asc" -> Earlier(a, b)
    [] sort = "desc" -> Earlier(b, a)
    [] sort = "hot" -> a.likes > b.likes \/ (a.likes = b.likes /\ Earlier(b, a))
Precedes(sort, a, b) == a.group > b.group \/ (a.group = b.group /\ Within(sort, a, b))

Start == [group |-> 2, likes |-> 0, created |-> 0, id |-> NoPost]
After(keys, sort, cursor) == IF cursor = Start THEN keys ELSE {k \in keys : Precedes(sort, cursor, k)}
First(keys, sort, n) == {k \in keys : Cardinality({j \in keys : Precedes(sort, j, k)}) < n}
Last(keys, sort) == CHOOSE k \in keys : \A j \in keys : j = k \/ Precedes(sort, j, k)
(* One row more than the page is fetched; the cursor is the last row returned.    *)
Returned(fetched, sort) == First(fetched, sort, PageLimit)
NextCursorOfExtra(fetched, sort) == Last(fetched, sort)
NextCursor(fetched, sort) == Last(Returned(fetched, sort), sort)

(* ---- a reader ---- *)
NotShown == [id \in 1..MaxPosts |-> 0]
Unread == [state |-> "unread", list |-> [of |-> "mixed", sort |-> "asc", root |-> NoPost], thread |-> 0,
           cursor |-> Start, shown |-> NotShown, steady |-> {}]
(* `steady` are the rows that were listed when the pass began and whose place in   *)
(* the order has not changed since; `shown` counts how often a row was returned.   *)
BeginWalk(list) ==
  /\ walk.state = "unread"
  /\ walk' = [Unread EXCEPT !.state = "reading", !.list = list, !.steady = Places(pageThread, list)]
  /\ UNCHANGED <<posts, likes, pageThread, edits>>
RootExists(list) == list.of = "replies" => list.root \in Roots(pageThread)
(* A cursor of roots or replies names its thread; that of the mixed list does not. *)
CursorFits == walk.cursor = Start \/ walk.list.of = "mixed" \/ walk.thread = pageThread
ReadPage ==
  LET list == walk.list
      fetched == First(After(Places(pageThread, list), list.sort, walk.cursor), list.sort, PageLimit + 1)
      page == Returned(fetched, list.sort)
      more == Cardinality(fetched) > PageLimit IN
  /\ walk.state = "reading"
  /\ IF CursorFits /\ RootExists(list)
     THEN walk' = [walk EXCEPT !.shown = [i \in 1..MaxPosts |-> @[i] + Cardinality({k \in page : k.id = i})],
                               !.cursor = IF more THEN NextCursor(fetched, list.sort) ELSE @, !.thread = pageThread,
                               !.state = IF more THEN @ ELSE "read"]
     ELSE walk' = [walk EXCEPT !.state = "refused"]
  /\ UNCHANGED <<posts, likes, pageThread, edits>>

(* ---- changes of the page ---- *)
Edit ==
  /\ edits < MaxPageEdits /\ edits' = edits + 1
  /\ \E list \in {walk.list} : walk' = [walk EXCEPT !.steady = @ \cap Places(pageThread, list)']
NewRow(p, published, t) ==
  [thread |-> pageThread', parent |-> p, depth |-> IF p = NoPost THEN 0 ELSE posts[p].depth + 1,
   published |-> published, pinned |-> FALSE, created |-> t]
Post(p, published, t) ==
  /\ Cardinality(DOMAIN posts) < MaxPosts
  /\ p = NoPost \/ (p \in Public(pageThread))
  /\ pageThread' = IF pageThread = 0 THEN edits + 2 ELSE pageThread
  /\ posts' = [i \in 1..(Cardinality(DOMAIN posts) + 1) |-> IF i \in DOMAIN posts THEN posts[i] ELSE NewRow(p, published, t)]
  /\ UNCHANGED likes /\ Edit
(* Any other status hides a comment; it keeps its pin, its likes and its replies.  *)
Moderate(i) ==
  /\ i \in PostsOf(pageThread) /\ posts' = [posts EXCEPT ![i].published = ~@]
  /\ UNCHANGED <<likes, pageThread>> /\ Edit
SetPin(i) ==
  /\ i \in PostsOf(pageThread) /\ posts[i].depth = 0 /\ (posts[i].pinned \/ posts[i].published)
  /\ posts' = [posts EXCEPT ![i].pinned = ~@]
  /\ UNCHANGED <<likes, pageThread>> /\ Edit
RemovePost(i) ==
  /\ i \in PostsOf(pageThread)
  /\ posts' = [j \in DOMAIN posts |-> IF j = i THEN Gone ELSE [posts[j] EXCEPT !.parent = IF @ = i THEN NoPost ELSE @]]
  /\ likes' = {l \in likes : l[1] # i}
  /\ UNCHANGED pageThread /\ Edit
DeleteThread ==
  /\ pageThread # 0 /\ pageThread' = 0
  /\ posts' = [i \in DOMAIN posts |-> IF posts[i].thread = pageThread THEN Gone ELSE posts[i]]
  /\ likes' = {l \in likes : posts[l[1]].thread # pageThread}
  /\ Edit
(* Both find the comment published first, and both may be repeated.                *)
AddLike(i, u) ==
  /\ i \in Public(pageThread) /\ likes' = likes \cup {<<i, u>>} /\ UNCHANGED <<posts, pageThread>> /\ Edit
RemoveLike(i, u) ==
  /\ i \in Public(pageThread) /\ likes' = likes \ {<<i, u>>} /\ UNCHANGED <<posts, pageThread>> /\ Edit

(* A page with comments on it. Their times need not follow their ids: the time is  *)
(* taken before the row is inserted, and imported comments bring their own.        *)
FirstRow(i) ==
  {[thread |-> 1, parent |-> p, depth |-> IF p = NoPost THEN 0 ELSE 1, published |-> b, pinned |-> FALSE, created |-> t] :
     p \in 0..(i - 1), b \in BOOLEAN, t \in 1..MaxCreated}
PagesInit ==
  /\ posts \in {<<a, b>> : a \in FirstRow(1), b \in FirstRow(2)}
             \cup {<<a, b, c>> : a \in FirstRow(1), b \in FirstRow(2), c \in FirstRow(3)}
  /\ likes \in SUBSET ({1} \X Fans) /\ pageThread = 1 /\ walk = Unread /\ edits = 0
PagesNext ==
  \/ \E list \in Lists : BeginWalk(list)
  \/ ReadPage
  \/ \E p \in 0..MaxPosts, b \in BOOLEAN, t \in 1..MaxCreated : Post(p, b, t)
  \/ \E i \in 1..MaxPosts :
       \/ Moderate(i) \/ SetPin(i) \/ RemovePost(i)
       \/ \E u \in Fans : AddLike(i, u) \/ RemoveLike(i, u)
  \/ DeleteThread
PagesSpec == PagesInit /\ [][PagesNext]_pagesVars

------------------------------------------------------------------------------
(* A reader who follows the cursor to the end has been shown, exactly once, every  *)
(* comment that was listed all the while and kept its place in the order (pin,     *)
(* likes under hot, time, id), whatever happened to the others between the pages.  *)
SteadyRowsShownOnce ==
  \A k \in walk.steady : walk.shown[k.id] <= 1 /\ (walk.state = "read" => walk.shown[k.id] = 1)

(* The roots and their replies are the whole of the page, however much of it is    *)
(* hidden: a published comment is a root or the reply of exactly one, and what it  *)
(* is shown as an answer to is published and listed with it.                       *)
PageWhole ==
  \A i \in Public(pageThread) :
    /\ Cardinality({r \in Roots(pageThread) : i = r \/ i \in Replies(pageThread, r)}) = 1
    /\ \A r \in Roots(pageThread) : i \in Replies(pageThread, r) =>
         HasReplies(pageThread, r) /\ Visible[i].parent \in {r} \cup Replies(pageThread, r)
=============================================================================
