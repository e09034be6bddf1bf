----------------------------- MODULE ArtalkImport -----------------------------
(* tools/migrate-artalk: an export of another comment system is read, checked and  *)
(* written in one transaction, as often as the operator runs the tool, while the   *)
(* server may be taking comments of its own.                                       *)
EXTENDS Naturals, Sequences, FiniteSets

CONSTANTS
  Records,      \* records of the export, numbered in its order
  Exports,      \* exports: record -> [rid, site, page, author, origin, pending, created]
  Origins,      \* origins of pages; a record may name none
  NoOrigin,
  Score,        \* origin -> how well it suits as a site's address
  FirstSites,   \* addresses of the sites before
  AllAuthors, Pages,
  MaxRuns       \* bound: runs of the tool

ASSUME ArtalkAssumption ==
  /\ MaxRuns \in Nat /\ IsFiniteSet(Records) /\ Records = 1..Cardinality(Records) /\ NoOrigin \notin Origins
  /\ \A e \in Exports : e \in [Records -> [rid : Nat, site : Nat, page : Pages, origin : Origins \cup {NoOrigin},
                                         author : AllAuthors, pending : BOOLEAN, created : Nat \ {0}]]

VARIABLES
  export,       \* the export
  targetSites,  \* addresses of the sites, in the order of their ids
  allowed,      \* <<site, origin>>
  members,      \* author -> time the account carries, 0 without account
  pages,        \* <<site, page>> with a thread
  imported,     \* comments in the order of their ids
  runs
artalkVars == <<export, targetSites, allowed, members, pages, imported, runs>>

NoRecord == 0
SiteKeys == {export[n].site : n \in Records}
RecordsOf(key) == {n \in Records : export[n].site = key}

(* ---- prepare: parents first, else in the order of the export ---- *)
Parent(n) == export[n].rid
Resolvable ==
  \A n \in Records : Parent(n) # NoRecord =>
    /\ Parent(n) \in Records
    /\ export[Parent(n)].site = export[n].site /\ export[Parent(n)].page = export[n].page
(* No record is among its ancestors: of any, one's parent is not one of them.        *)
Acyclic == \A some \in SUBSET Records : some # {} => \E n \in some : Parent(n) \notin some
(* A record comes after its parent, unless it has come with an earlier one.         *)
VisitFrom(order, record) ==
  LET visit[n \in Records] ==
        IF \E i \in DOMAIN order : order[i] = n THEN order
        ELSE Append(IF Parent(n) = NoRecord THEN order ELSE visit[Parent(n)], n)
  IN visit[record]
Visit ==
  LET order[k \in 0..Cardinality(Records)] == IF k = 0 THEN <<>> ELSE VisitFrom(order[k - 1], k)
  IN order[Cardinality(Records)]

(* ---- sites ---- *)
OriginsOf(key, fallback) ==
  LET named == {export[n].origin : n \in RecordsOf(key)} \ {NoOrigin} IN
  IF named = {} THEN {fallback} \ {NoOrigin} ELSE named
(* The best origin, and of equals the one met first.                               *)
Canonical(key, fallback) ==
  LET from == OriginsOf(key, fallback)
      order == Visit
      best == {o \in from : \A p \in from : Score[p] <= Score[o]}
      at(o) == {i \in DOMAIN order : export[order[i]].site = key /\ export[order[i]].origin = o}
      first(o) == CHOOSE i \in at(o) : \A j \in at(o) : i <= j
  IN IF Cardinality(best) = 1 THEN CHOOSE o \in best : TRUE
     ELSE CHOOSE o \in best : \A p \in best : first(o) <= first(p)
SitesAt(list, address) == {i \in DOMAIN list : list[i] = address}
(* Keys are taken in order; one whose address has no site gets a new one.          *)
WithSites(fallback, keys) ==
  LET grown[k \in 0..Len(keys)] ==
        IF k = 0 THEN targetSites
        ELSE LET address == Canonical(keys[k], fallback) IN
             IF SitesAt(grown[k - 1], address) = {} THEN Append(grown[k - 1], address) ELSE grown[k - 1]
  IN grown[Len(keys)]
SortedKeys == CHOOSE s \in [1..Cardinality(SiteKeys) -> SiteKeys] :
  \A i, j \in DOMAIN s : i < j => s[i] < s[j]
TheSite(list, address) == CHOOSE i \in SitesAt(list, address) : TRUE

(* A site that has comments already is not imported into.                          *)
EmptyAnyway(site) == TRUE
Empty(site) == \A i \in DOMAIN imported : imported[i].site # site

(* ---- rows ---- *)
(* The position of a record in the order gives its comment's id; what a reply takes *)
(* from its parent has been computed before.                                         *)
Rows(order, siteOf) ==
  LET at(n) == CHOOSE i \in DOMAIN order : order[i] = n
      id(n) == Len(imported) + at(n)
      row[i \in DOMAIN order] ==
        LET n == order[i]
            r == export[n]
            reply == Parent(n) # NoRecord
            p == row[at(Parent(n))] IN
        [src |-> n, site |-> siteOf[r.site], page |-> r.page, user |-> r.author, published |-> ~r.pending,
         parent |-> IF reply THEN id(Parent(n)) ELSE 0,
         root |-> IF ~reply THEN 0 ELSE IF p.root # 0 THEN p.root ELSE id(Parent(n)),
         depth |-> IF reply THEN p.depth + 1 ELSE 0, replyTo |-> IF reply THEN p.user ELSE 0]
  IN row
Authors == {export[n].author : n \in Records}
(* An account made for an author is as old as the author's oldest comment.         *)
Eldest(a) == LET times == {export[n].created : n \in {m \in Records : export[m].author = a}} IN
             CHOOSE t \in times : \A u \in times : t <= u

Write(sites, siteOf) ==
  /\ targetSites' = sites
  /\ members' = [a \in DOMAIN members |-> IF a \in Authors /\ members[a] = 0 THEN Eldest(a) ELSE members[a]]
  /\ pages' = pages \cup {<<siteOf[export[n].site], export[n].page>> : n \in Records}
  /\ imported' = imported \o Rows(Visit, siteOf)
  /\ UNCHANGED export

Run == runs < MaxRuns /\ runs' = runs + 1
Sound == Resolvable /\ Acyclic
(* Into a site the operator names.                                                 *)
ImportInto(site) ==
  /\ Run /\ Sound /\ Empty(site)
  /\ Write(targetSites, [key \in SiteKeys |-> site]) /\ UNCHANGED allowed
(* Into the sites whose addresses the records give, made where there is none.      *)
ImportByAddress(fallback) ==
  /\ Run /\ Sound
  /\ \A key \in SiteKeys : OriginsOf(key, fallback) # {}
  /\ LET sites == WithSites(fallback, SortedKeys)
         siteOf == [key \in SiteKeys |-> TheSite(sites, Canonical(key, fallback))] IN
       /\ \A key \in SiteKeys : Cardinality(SitesAt(sites, Canonical(key, fallback))) = 1 /\ Empty(siteOf[key])
       /\ allowed' = allowed \cup UNION {{<<siteOf[key], o>> : o \in OriginsOf(key, fallback)} : key \in SiteKeys}
       /\ Write(sites, siteOf)
(* A dry run, and whatever the tool refuses or fails at, is rolled back whole.     *)
RollBack == Run /\ UNCHANGED <<export, targetSites, allowed, members, pages, imported>>

(* Meanwhile a visitor may post on a page of a site.                               *)
ServerTakesComment(site, page) ==
  /\ site \in DOMAIN targetSites /\ \A i \in DOMAIN imported : imported[i].src # NoRecord
  /\ imported' = Append(imported, [src |-> NoRecord, site |-> site, page |-> page, user |-> 0, parent |-> 0, root |-> 0,
                                   depth |-> 0, replyTo |-> 0, published |-> TRUE])
  /\ pages' = pages \cup {<<site, page>>}
  /\ UNCHANGED <<export, targetSites, allowed, members, runs>>

ArtalkInit ==
  /\ export \in Exports /\ targetSites \in FirstSites
  /\ allowed = {} /\ members \in {[a \in AllAuthors |-> IF a \in old THEN 1 ELSE 0] : old \in SUBSET AllAuthors}
  /\ pages = {} /\ imported = <<>> /\ runs = 0
ArtalkNext ==
  \/ \E site \in DOMAIN targetSites : ImportInto(site)
  \/ \E fallback \in Origins \cup {NoOrigin} : ImportByAddress(fallback)
  \/ RollBack
  \/ \E site \in DOMAIN targetSites, page \in Pages : ServerTakesComment(site, page)
ArtalkSpec == ArtalkInit /\ [][ArtalkNext]_artalkVars

------------------------------------------------------------------------------
CommentsFrom(n, site) == {i \in DOMAIN imported : imported[i].src = n /\ imported[i].site = site}
TreeImported(i) ==
  LET c == imported[i]
      up[k \in DOMAIN imported] == IF imported[k].parent = 0 THEN k ELSE up[imported[k].parent] IN
  /\ c.parent < i /\ <<c.site, c.page>> \in pages
  /\ (c.parent = 0) = (export[c.src].rid = NoRecord)
  /\ c.parent # 0 => LET p == imported[c.parent] IN
       /\ p.src = export[c.src].rid /\ p.site = c.site /\ p.page = c.page
       /\ c.depth = p.depth + 1 /\ c.root = up[i] /\ c.replyTo = p.user

(* However often the tool runs, a site holds the export whole or not at all and    *)
(* each record once, and its comments form the tree the records formed: parents    *)
(* before their replies, on the same page of the same site, the root the topmost   *)
(* ancestor, the depth the distance to it.                                         *)
ImportFaithful ==
  /\ \A i \in DOMAIN imported : imported[i].src # NoRecord => TreeImported(i) /\ members[imported[i].user] > 0
  /\ \A site \in DOMAIN targetSites, n \in Records : Cardinality(CommentsFrom(n, site)) <= 1
  /\ \A site \in DOMAIN targetSites, m, n \in Records :
       export[m].site = export[n].site => Cardinality(CommentsFrom(m, site)) = Cardinality(CommentsFrom(n, site))
=============================================================================
