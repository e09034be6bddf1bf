--------------------------- MODULE ServiceProofs ----------------------------
(* The services that share no state, for any number of callers, policies, settings *)
(* and credentials: no subject is granted more than its rate; the settings, their  *)
(* snapshot and the selected captcha provider agree; widget credentials are worth   *)
(* what was authorised; the word list a comment is judged by is one the file had;     *)
(* a reader of a page's lists sees every row that keeps its place, once, and every   *)
(* published comment below its root; an imported export is the tree it was.             *)
EXTENDS RateLimiter, Settings, WidgetAccess, SpamCheck, ThreadPages, ArtalkImport, FiniteSetTheorems, TLAPS

-----------------------------------------------------------------------------
(* Induction up to a bound.  The library's induction theorems take an operator as a  *)
(* parameter; what a recursive definition computes is proved by counting instead.     *)
(* A finite set of numbers that is not empty has a least one: the numbers before it *)
(* are counted from 0 on without a gap.                                               *)
LEMMA LeastNumber ==
  ASSUME NEW S, S \subseteq Nat, IsFiniteSet(S), S # {}
  PROVE  \E x \in S : \A y \in S : x <= y
  <1> DEFINE size == Cardinality(S)
             before(x) == {y \in S : y < x}
             rank == [x \in S |-> Cardinality(before(x))]
  <1>1. size \in Nat /\ size # 0
    BY FS_CardinalityType, FS_EmptySet
  <1>2. ASSUME NEW x \in S PROVE /\ IsFiniteSet(before(x)) /\ Cardinality(before(x)) \in 0..size - 1
    <2>1. before(x) \in SUBSET S /\ x \notin before(x)
      OBVIOUS
    <2>2. before(x) # S
      BY <2>1
    <2> HIDE DEF before
    <2>3. IsFiniteSet(before(x)) /\ Cardinality(before(x)) <= size /\ (size = Cardinality(before(x)) => S = before(x))
      BY <2>1, FS_Subset
    <2>4. Cardinality(before(x)) \in Nat
      BY <2>3, FS_CardinalityType
    <2>5. QED
      BY <1>1, <2>2, <2>3, <2>4
  <1>3. ASSUME NEW x \in S, NEW y \in S, x < y PROVE Cardinality(before(x)) # Cardinality(before(y))
    <2>1. before(x) \in SUBSET before(y)
      <3>1. ASSUME NEW z \in S, z < x PROVE z < y
        <4>1. x \in Nat /\ y \in Nat /\ z \in Nat
          OBVIOUS
        <4>2. QED
          BY <1>3, <3>1, <4>1
      <3>2. QED
        BY <3>1
    <2>2. x \in before(y) /\ x \notin before(x)
      BY <1>3
    <2>3. before(x) # before(y)
      BY <2>2
    <2> HIDE DEF before
    <2>4. QED
      BY <1>2, <2>1, <2>3, FS_Subset
  <1>4. ASSUME NEW x \in S, NEW y \in S, rank[x] = rank[y] PROVE x = y
    <2>1. ~(x < y) /\ ~(y < x)
      BY <1>3, <1>4
    <2>2. QED
      BY <2>1
  <1> HIDE DEF before
  <1>5. rank \in [S -> 0..size - 1]
    BY <1>2
  <1>6. rank \in Injection(S, 0..size - 1)
    BY <1>4, <1>5 DEF Injection, IsInjective
  <1> HIDE DEF rank
  <1>7. IsFiniteSet(0..size - 1) /\ Cardinality(0..size - 1) = size
    BY <1>1, FS_Interval
  <1>8. rank \in Surjection(S, 0..size - 1)
    BY <1>6, <1>7, FS_Injection
  <1>9. 0 \in 0..size - 1
    BY <1>1
  <1>10. PICK x \in S : rank[x] = 0
    BY <1>8, <1>9 DEF Surjection
  <1>11. before(x) = {}
    BY <1>2, <1>10, FS_EmptySet DEF rank
  <1>12. \A y \in S : x <= y
    BY <1>11 DEF before
  <1>13. QED
    BY <1>12

(* What holds of 0 and of the number after each it holds of holds up to any number. *)
LEMMA UpTo ==
  ASSUME NEW N \in Nat, NEW T, 0 \in T, \A n \in 0..N : n \in T /\ n < N => n + 1 \in T
  PROVE  \A n \in 0..N : n \in T
  <1> DEFINE S == {n \in 0..N : n \notin T}
  <1>1. S \subseteq Nat /\ IsFiniteSet(S)
    <2>1. IsFiniteSet(0..N)
      BY FS_Interval
    <2>2. S \in SUBSET (0..N)
      OBVIOUS
    <2> HIDE DEF S
    <2>3. IsFiniteSet(S)
      BY <2>1, <2>2, FS_Subset
    <2>4. QED
      BY <2>2, <2>3
  <1>2. ASSUME S # {} PROVE FALSE
    <2> HIDE DEF S
    <2>1. PICK x \in S : \A y \in S : x <= y
      BY <1>1, <1>2, LeastNumber
    <2> USE DEF S
    <2>2. x \in 0..N /\ x # 0
      BY <2>1
    <2>3. x - 1 \in 0..N /\ x - 1 < N /\ ~(x <= x - 1) /\ (x - 1) + 1 = x
      BY <2>2
    <2>4. x - 1 \in T
      BY <2>1, <2>3
    <2>5. x \in T
      BY <2>3, <2>4
    <2>6. QED
      BY <2>1, <2>5
  <1>3. QED
    BY <1>2

-----------------------------------------------------------------------------
(* The rate limiter.  A bucket accounts for the grants up to now: what it holds, and *)
(* what was granted in any run that ends with the last grant, fit into the burst and *)
(* the refill of the run's span.  A subject the limiter has forgotten has had         *)
(* nothing for so long that a full bucket accounts for it as well.                    *)
(* m is the position of the latest of a run of granted calls. *)
LatestAt(g, i, j, m) == m \in i..j /\ \A k \in i..j : g[k] <= g[m]

RunBound(p, g, i, j, m) == j - i + 1 <= Burst[p] + Rate[p] * (g[m] - g[i])

(* Every run of grants is within the rate. *)
RunsOf(p, g) ==
  \A i, j \in 1..Len(g) : i <= j =>
    /\ \E m \in i..j : LatestAt(g, i, j, m)
    /\ \A m \in i..j : LatestAt(g, i, j, m) => RunBound(p, g, i, j, m)

(* A number of tokens and the runs that end with the last grant fit together. *)
LeftOf(p, g, n, left) ==
  \A i, m \in 1..n : LatestAt(g, i, n, m) => left + (n - i + 1) <= Burst[p] + Rate[p] * (g[m] - g[i])

(* The bucket of a subject accounts for every run of grants up to now: its tokens *)
(* are what the run has left of the burst and the refill.                          *)
Balance(p, g, n, tokens, last) == (\A k \in 1..n : g[k] <= last) /\ LeftOf(p, g, n, tokens)

BucketAccounts(p, s) ==
  LET g == grants[<<p, s>>]  b == buckets[p][s] IN
  b \in [tokens : 0..Burst[p], last : 0..limiterNow] /\ Balance(p, g, Len(g), b.tokens, b.last)

(* A subject without a bucket was granted nothing for so long that its bucket     *)
(* would be full.                                                                   *)
LongIdle(p, s) == \A k \in 1..Len(grants[<<p, s>>]) : grants[<<p, s>>][k] + IdleTimeout < limiterNow

(* A call under way read the clock at most LockDelay ago. *)
CallTimely(c) ==
  asking[c] # NoCall =>
    /\ asking[c].policy \in Registered /\ asking[c].subject \in Subjects
    /\ asking[c].at \in Nat /\ asking[c].at <= limiterNow /\ limiterNow <= asking[c].at + LockDelay

(* No limiter holds more buckets than its capacity. *)
LimiterRoom == \A p \in Registered : IsFiniteSet(KnownSubjects(p)) /\ Cardinality(KnownSubjects(p)) <= BucketCapacity

LimiterShapes ==
  /\ DOMAIN buckets = Registered
  /\ \A p \in Registered : KnownSubjects(p) \subseteq Subjects
  /\ DOMAIN asking = LimiterCalls
  /\ grants \in [Buckets -> Seq(Nat)]
  /\ limiterNow \in Nat /\ sweepAt \in Nat /\ sweepAt <= limiterNow /\ sweepDue \subseteq Registered

RunsBounded == \A b \in Buckets : RunsOf(b[1], grants[b])

LimiterInvariant ==
  /\ LimiterShapes /\ LimiterRoom
  /\ \A c \in LimiterCalls : CallTimely(c)
  /\ RunsBounded
  /\ \A p \in Registered, s \in Subjects : IF s \in KnownSubjects(p) THEN BucketAccounts(p, s) ELSE LongIdle(p, s)

LEMMA LimiterStarts == LimiterInit => LimiterInvariant
  <1> SUFFICES ASSUME LimiterInit PROVE LimiterInvariant
    OBVIOUS
  <1>1. \A p \in Registered : KnownSubjects(p) = {}
    BY DEF LimiterInit, KnownSubjects
  <1>2. \A b \in Buckets : Len(grants[b]) = 0
    BY DEF LimiterInit
  <1>3. \A p \in Registered, s \in Subjects : <<p, s>> \in Buckets
    BY DEF Buckets
  <1>4. LimiterShapes
    BY <1>1 DEF LimiterInit, LimiterShapes
  <1>5. RunsBounded /\ \A p \in Registered, s \in Subjects : LongIdle(p, s)
    BY <1>2, <1>3 DEF RunsBounded, RunsOf, LongIdle
  <1>6. \A c \in LimiterCalls : CallTimely(c)
    BY DEF LimiterInit, CallTimely
  <1>7. LimiterRoom
    <2>1. IsFiniteSet({}) /\ Cardinality({}) = 0
      BY FS_EmptySet
    <2>2. 0 <= BucketCapacity
      BY LimiterConstants
    <2>3. QED
      BY <1>1, <2>1, <2>2 DEF LimiterRoom
  <1>8. QED
    BY <1>1, <1>4, <1>5, <1>6, <1>7 DEF LimiterInvariant

(* The latest of a run is what GrantsWithinRate chooses. *)
LEMMA LatestFound ==
  ASSUME NEW g \in Seq(Nat), NEW i \in 1..Len(g), NEW j \in 1..Len(g), NEW m \in i..j, LatestAt(g, i, j, m)
  PROVE  LatestOf(g, i, j) = g[m]
  <1> DEFINE S == {g[k] : k \in i..j}
  <1>1. \A k \in i..j : k \in 1..Len(g) /\ g[k] \in Nat
    OBVIOUS
  <1>2. g[m] \in S /\ \A k \in i..j : g[k] <= g[m]
    BY DEF LatestAt
  <1>3. \A t \in S : (\A k \in i..j : g[k] <= t) => t = g[m]
    BY <1>1, <1>2
  <1>4. LatestOf(g, i, j) = CHOOSE t \in S : \A k \in i..j : g[k] <= t
    BY DEF LatestOf
  <1> HIDE DEF S
  <1>5. QED
    BY <1>2, <1>3, <1>4

LEMMA LimiterSuffices == LimiterInvariant => GrantsWithinRate
  <1> SUFFICES ASSUME LimiterInvariant, NEW b \in Buckets, NEW i \in 1..Len(grants[b]), NEW j \in 1..Len(grants[b]), i <= j
               PROVE  j - i + 1 <= Burst[b[1]] + Rate[b[1]] * (LatestOf(grants[b], i, j) - grants[b][i])
    BY DEF GrantsWithinRate
  <1>1. PICK m \in i..j : LatestAt(grants[b], i, j, m) /\ RunBound(b[1], grants[b], i, j, m)
    BY DEF LimiterInvariant, RunsBounded, RunsOf
  <1>2. LatestOf(grants[b], i, j) = grants[b][m]
    BY <1>1, LatestFound DEF LimiterInvariant, LimiterShapes
  <1>3. QED
    BY <1>1, <1>2 DEF RunBound

(* Multiplication is monotone and distributes. *)
LEMMA RateTimes ==
  ASSUME NEW r \in Nat
  PROVE  /\ \A x, y \in Int : r * (x + y) = r * x + r * y
         /\ \A x, y \in Int : x <= y => r * x <= r * y
         /\ \A x \in Int : r * x \in Int
  OBVIOUS

(* What a bucket holds and what was granted, over a longer span: the same tokens,   *)
(* refilled ones, and a full bucket after a long pause.                              *)
LEMMA SpanKept ==
  ASSUME NEW r \in Nat, NEW top \in Nat, NEW t \in Nat, NEW k \in Int, NEW first \in Nat, NEW latest \in Nat,
         NEW x \in Nat, t + k <= top + r * (latest - first), latest <= x
  PROVE  t + k <= top + r * (x - first)
  <1>1. r * (latest - first) <= r * (x - first)
    BY RateTimes
  <1>2. r * (latest - first) \in Int /\ r * (x - first) \in Int
    BY RateTimes
  <1>3. QED
    BY <1>1, <1>2

LEMMA SpanRefilled ==
  ASSUME NEW r \in Nat, NEW top \in Nat, NEW t \in Nat, NEW k \in Int, NEW first \in Nat, NEW latest \in Nat,
         NEW last \in Nat, NEW at \in Nat, NEW x \in Nat, NEW left \in Nat,
         t + k <= top + r * (latest - first), latest <= last, last < at, at <= x, left <= t + (at - last) * r
  PROVE  left + k <= top + r * (x - first)
  <1>1. (at - last) + (latest - first) <= x - first /\ (at - last) + (latest - first) \in Int /\ x - first \in Int
    OBVIOUS
  <1>2. r * ((at - last) + (latest - first)) <= r * (x - first)
    BY <1>1, RateTimes
  <1>3. r * ((at - last) + (latest - first)) = r * (at - last) + r * (latest - first)
    BY RateTimes
  <1>4. r * (latest - first) \in Int /\ r * (x - first) \in Int /\ r * (at - last) \in Int
    BY RateTimes
  <1>5. (at - last) * r = r * (at - last)
    OBVIOUS
  <1>6. QED
    BY <1>2, <1>3, <1>4, <1>5

LEMMA SpanIdle ==
  ASSUME NEW r \in Nat, NEW top \in Nat, NEW k \in Int, NEW first \in Nat, NEW latest \in Nat,
         NEW pause \in Int, NEW x \in Nat, k <= top + r * (latest - first), latest + pause <= x, r * pause >= top
  PROVE  top + k <= top + r * (x - first)
  <1>1. pause + (latest - first) <= x - first /\ pause + (latest - first) \in Int /\ x - first \in Int
    OBVIOUS
  <1>2. r * (pause + (latest - first)) <= r * (x - first)
    BY <1>1, RateTimes
  <1>3. r * (pause + (latest - first)) = r * pause + r * (latest - first)
    BY RateTimes
  <1>4. r * (latest - first) \in Int /\ r * (x - first) \in Int /\ r * pause \in Int
    BY RateTimes
  <1>5. QED
    BY <1>2, <1>3, <1>4

LEMMA SpareTokens ==
  ASSUME NEW left \in Nat, NEW k \in Int, NEW x \in Int, left + k <= x
  PROVE  k <= x
  OBVIOUS

LEMMA LongBefore ==
  ASSUME NEW a \in Nat, NEW b \in Nat, NEW pause \in Nat, NEW n \in Nat, a <= b, b + pause < n
  PROVE  a + pause < n
  OBVIOUS

LEMMA PolicyNumbers ==
  ASSUME NEW p \in Registered
  PROVE  /\ Rate[p] \in Nat /\ Burst[p] \in Nat /\ Burst[p] >= 1 /\ Rate[p] >= 1
         /\ IdleTimeout \in Nat /\ LockDelay \in Nat /\ Rate[p] * (IdleTimeout - LockDelay) >= Burst[p]
         /\ \A s \in Subjects : <<p, s>> \in Buckets
  <1>1. Rate[p] \in Nat /\ Burst[p] \in Nat /\ Burst[p] > 0 /\ Rate[p] > 0
    BY LimiterConstants DEF Registered
  <1>2. Rate[p] * (IdleTimeout - LockDelay) >= Burst[p] /\ IdleTimeout \in Nat /\ LockDelay \in Nat
    BY LimiterConstants DEF Registered
  <1>3. QED
    BY <1>1, <1>2 DEF Buckets

(* What a number of tokens, topped up at a time, accounts for later on. *)
AccountsFor(p, g, n, at, tokens, last) ==
  /\ at <= last /\ \A k \in 1..n : g[k] <= last
  /\ \A i, m \in 1..n, x \in Nat : LatestAt(g, i, n, m) /\ x >= at /\ x >= g[m] =>
       tokens + (n - i + 1) <= Burst[p] + Rate[p] * (x - g[i])

LEMMA IntervalGrows ==
  ASSUME NEW n \in Nat, NEW i \in 1..n
  PROVE  \A k \in i..(n + 1) : k \in i..n \/ k = n + 1
  OBVIOUS

(* One more grant: the runs that reach it are within the rate if the tokens it is  *)
(* taken from account for those that reach the grant before.                       *)
LEMMA GrantExtendsRuns ==
  ASSUME NEW p \in Registered, NEW g \in Seq(Nat), NEW at \in Nat, NEW left \in Nat, left + 1 <= Burst[p], RunsOf(p, g),
         NEW last, AccountsFor(p, g, Len(g), at, left + 1, last)
  PROVE  RunsOf(p, Append(g, at)) /\ LeftOf(p, Append(g, at), Len(Append(g, at)), left)
  <1> PICK n \in Nat : n = Len(g)
    OBVIOUS
  <1> PICK h : h = Append(g, at)
    OBVIOUS
  <1>0. \A i, m \in 1..n, x \in Nat : LatestAt(g, i, n, m) /\ x >= at /\ x >= g[m] =>
          left + 1 + (n - i + 1) <= Burst[p] + Rate[p] * (x - g[i])
    BY DEF AccountsFor
  <1>1. /\ n \in Nat /\ Len(h) = n + 1 /\ h[n + 1] = at
        /\ \A k \in 1..n : h[k] = g[k] /\ g[k] \in Nat
        /\ \A k \in 1..(n + 1) : h[k] \in Nat
    OBVIOUS
  <1>2. Rate[p] \in Nat /\ Burst[p] \in Nat
    BY PolicyNumbers
  <1>3. ASSUME NEW i \in 1..n, NEW j \in 1..n, i <= j
        PROVE  /\ \E m \in i..j : LatestAt(h, i, j, m)
               /\ \A m \in i..j : LatestAt(h, i, j, m) => RunBound(p, h, i, j, m)
    <2>1. \A k \in i..j : h[k] = g[k]
      BY <1>1
    <2>2. h[i] = g[i]
      BY <1>1
    <2>3. \A m \in i..j : LatestAt(h, i, j, m) <=> LatestAt(g, i, j, m)
      BY <2>1 DEF LatestAt
    <2>4. \A m \in i..j : RunBound(p, h, i, j, m) <=> RunBound(p, g, i, j, m)
      BY <2>1, <2>2 DEF RunBound
    <2>5. /\ \E m \in i..j : LatestAt(g, i, j, m)
          /\ \A m \in i..j : LatestAt(g, i, j, m) => RunBound(p, g, i, j, m)
      BY <1>3 DEF RunsOf
    <2>6. QED
      BY <2>3, <2>4, <2>5
  <1>4. ASSUME NEW i \in 1..(n + 1)
        PROVE  /\ \E m \in i..(n + 1) : LatestAt(h, i, n + 1, m)
               /\ \A m \in i..(n + 1) : LatestAt(h, i, n + 1, m) =>
                    left + (n + 1 - i + 1) <= Burst[p] + Rate[p] * (h[m] - h[i])
    <2>1. CASE i = n + 1
      <3>1. i..(n + 1) = {n + 1}
        BY <1>1, <2>1
      <3>2. LatestAt(h, i, n + 1, n + 1)
        BY <1>1, <3>1 DEF LatestAt
      <3>3. Rate[p] * (h[n + 1] - h[n + 1]) = 0
        BY <1>1, <1>2
      <3>4. left + (n + 1 - i + 1) <= Burst[p] + 0
        BY <1>1, <1>2, <2>1
      <3>5. QED
        BY <2>1, <3>1, <3>2, <3>3, <3>4
    <2>2. CASE i \in 1..n
      <3>0. i \in 1..Len(g) /\ n \in 1..Len(g) /\ i <= n
        BY <1>1, <2>2
      <3>1. PICK q \in i..n : LatestAt(g, i, n, q)
        BY <3>0 DEF RunsOf
      <3>2. \A k \in i..n : h[k] = g[k] /\ g[k] \in Nat /\ g[k] <= g[q]
        BY <1>1, <2>2, <3>1 DEF LatestAt
      <3>3. q \in 1..n /\ g[q] \in Nat /\ h[q] = g[q] /\ h[i] = g[i]
        BY <1>1, <2>2
      <3>4. \E m \in i..(n + 1) : LatestAt(h, i, n + 1, m)
        <4>1. \A k \in i..(n + 1) : k \in i..n \/ k = n + 1
          BY <2>2, IntervalGrows
        <4>2. CASE at >= g[q]
          <5>1. LatestAt(h, i, n + 1, n + 1)
            BY <1>1, <2>2, <3>2, <3>3, <4>1, <4>2 DEF LatestAt
          <5>2. QED
            BY <1>1, <2>2, <5>1
        <4>3. CASE ~(at >= g[q])
          <5>1. LatestAt(h, i, n + 1, q)
            BY <1>1, <2>2, <3>2, <3>3, <4>1, <4>3 DEF LatestAt
          <5>2. QED
            BY <1>1, <2>2, <5>1
        <4>4. QED
          BY <4>2, <4>3
      <3>5. ASSUME NEW m \in i..(n + 1), LatestAt(h, i, n + 1, m)
            PROVE  left + (n + 1 - i + 1) <= Burst[p] + Rate[p] * (h[m] - h[i])
        <4>0. q \in i..(n + 1) /\ n + 1 \in i..(n + 1) /\ m \in 1..(n + 1)
          BY <1>1, <2>2, <3>5
        <4>1. h[m] >= h[q] /\ h[m] >= h[n + 1] /\ h[m] \in Nat
          BY <1>1, <3>3, <3>5, <4>0 DEF LatestAt
        <4>2. left + 1 + (n - i + 1) <= Burst[p] + Rate[p] * (h[m] - g[i])
          BY <1>0, <1>1, <2>2, <3>1, <3>3, <4>1
        <4>3. left + 1 + (n - i + 1) = left + (n + 1 - i + 1)
          BY <1>1, <2>2
        <4>4. QED
          BY <3>3, <4>2, <4>3
      <3>6. QED
        BY <3>4, <3>5
    <2>3. QED
      BY <1>1, <2>1, <2>2
  <1>5. RunsOf(p, h)
    <2>1. ASSUME NEW i \in 1..(n + 1), NEW m \in i..(n + 1), LatestAt(h, i, n + 1, m)
          PROVE  RunBound(p, h, i, n + 1, m)
      <3>1. left + (n + 1 - i + 1) <= Burst[p] + Rate[p] * (h[m] - h[i])
        BY <1>4, <2>1
      <3>2. h[m] \in Nat /\ h[i] \in Nat
        BY <1>1
      <3>3. Burst[p] + Rate[p] * (h[m] - h[i]) \in Int
        <4>1. h[m] - h[i] \in Int
          BY <3>2
        <4>2. Rate[p] * (h[m] - h[i]) \in Int
          BY <1>2, <4>1
        <4>3. QED
          BY <1>2, <4>2
      <3>4. n + 1 - i + 1 \in Int /\ left \in Nat
        BY <1>1, <1>2
      <3>5. n + 1 - i + 1 <= Burst[p] + Rate[p] * (h[m] - h[i])
        BY <3>1, <3>3, <3>4, SpareTokens
      <3>6. QED
        BY <3>5 DEF RunBound
    <2>2. ASSUME NEW i \in 1..(n + 1), NEW j \in 1..(n + 1), i <= j
          PROVE  /\ \E m \in i..j : LatestAt(h, i, j, m)
                 /\ \A m \in i..j : LatestAt(h, i, j, m) => RunBound(p, h, i, j, m)
      <3>1. CASE j = n + 1
        BY <1>4, <2>1, <3>1
      <3>2. CASE i \in 1..n /\ j \in 1..n
        BY <1>3, <2>2, <3>2
      <3>3. QED
        BY <1>1, <2>2, <3>1, <3>2
    <2>3. QED
      BY <1>1, <2>2 DEF RunsOf
  <1>6. LeftOf(p, h, n + 1, left)
    <2>1. ASSUME NEW i \in 1..(n + 1), NEW m \in 1..(n + 1), LatestAt(h, i, n + 1, m)
          PROVE  left + (n + 1 - i + 1) <= Burst[p] + Rate[p] * (h[m] - h[i])
      <3>1. m \in i..(n + 1)
        BY <2>1 DEF LatestAt
      <3>2. QED
        BY <1>4, <2>1, <3>1
    <2>2. QED
      BY <1>1, <2>1 DEF LeftOf
  <1>7. QED
    BY <1>1, <1>5, <1>6

(* The bucket a call finds, refilled at the time the call read: what it holds      *)
(* accounts for every run of grants up to now and for the span up to that time.     *)
RefilledFor(p, s, at) == Refilled(p, BucketOf(p, s, at), at)

LEMMA RefillAccounts ==
  ASSUME LimiterInvariant, NEW p \in Registered, NEW s \in Subjects, NEW at \in Nat,
         at <= limiterNow, limiterNow <= at + LockDelay
  PROVE  LET g == grants[<<p, s>>]  b == RefilledFor(p, s, at) IN
         b \in [tokens : 0..Burst[p], last : 0..limiterNow] /\ AccountsFor(p, g, Len(g), at, b.tokens, b.last)
  <1> PICK g : g = grants[<<p, s>>]
    OBVIOUS
  <1> PICK b : b = RefilledFor(p, s, at)
    OBVIOUS
  <1> g \in Seq(Nat)
    BY DEF LimiterInvariant, LimiterShapes, Buckets
  <1> PICK n \in Nat : n = Len(g)
    OBVIOUS
  <1> SUFFICES /\ b \in [tokens : 0..Burst[p], last : 0..limiterNow] /\ at <= b.last
               /\ \A k \in 1..n : g[k] <= b.last
               /\ \A i, m \in 1..n, x \in Nat : LatestAt(g, i, n, m) /\ x >= at /\ x >= g[m] =>
                    b.tokens + (n - i + 1) <= Burst[p] + Rate[p] * (x - g[i])
    <2>1. SUFFICES b \in [tokens : 0..Burst[p], last : 0..limiterNow] /\ AccountsFor(p, g, n, at, b.tokens, b.last)
      OBVIOUS
    <2>2. QED
      BY DEF AccountsFor
  <1>1. /\ Rate[p] \in Nat /\ Burst[p] \in Nat /\ Burst[p] >= 1 /\ Rate[p] >= 1
        /\ IdleTimeout \in Nat /\ LockDelay \in Nat /\ LockDelay <= IdleTimeout
        /\ Rate[p] * (IdleTimeout - LockDelay) >= Burst[p]
    BY PolicyNumbers, LimiterConstants
  <1>2. g \in Seq(Nat) /\ limiterNow \in Nat /\ <<p, s>> \in Buckets
    BY DEF LimiterInvariant, LimiterShapes, Buckets
  <1>3. \A k \in 1..n : g[k] \in Nat
    BY <1>2
  <1>4. CASE s \in KnownSubjects(p)
    <2> PICK o : o = buckets[p][s]
      OBVIOUS
    <2>1. BucketAccounts(p, s)
      BY <1>4 DEF LimiterInvariant
    <2>10. o \in [tokens : 0..Burst[p], last : 0..limiterNow] /\ Balance(p, g, n, o.tokens, o.last)
      BY <2>1 DEF BucketAccounts
    <2>2. /\ o \in [tokens : 0..Burst[p], last : 0..limiterNow] /\ \A k \in 1..n : g[k] <= o.last
          /\ \A i, m \in 1..n : LatestAt(g, i, n, m) => o.tokens + (n - i + 1) <= Burst[p] + Rate[p] * (g[m] - g[i])
      BY <2>10 DEF Balance, LeftOf
    <2>3. b = Refilled(p, o, at)
      BY <1>4 DEF RefilledFor, BucketOf
    <2>4. o.tokens \in Nat /\ o.last \in Nat
      BY <1>1, <1>2, <2>2
    <2>5. CASE at <= o.last
      <3>1. b = o
        BY <2>3, <2>5 DEF Refilled
      <3>2. ASSUME NEW i \in 1..n, NEW m \in 1..n, NEW x \in Nat, LatestAt(g, i, n, m), x >= at, x >= g[m]
            PROVE  o.tokens + (n - i + 1) <= Burst[p] + Rate[p] * (x - g[i])
        <4>1. o.tokens + (n - i + 1) <= Burst[p] + Rate[p] * (g[m] - g[i])
          BY <2>2, <3>2
        <4>2. g[m] \in Nat /\ g[i] \in Nat
          BY <1>3
        <4>3. n - i + 1 \in Int
          OBVIOUS
        <4>4. g[m] <= x
          BY <3>2
        <4>5. QED
          BY <1>1, <2>4, <4>1, <4>2, <4>3, <4>4, SpanKept
      <3>3. QED
        BY <2>2, <2>5, <3>1, <3>2
    <2>6. CASE ~(at <= o.last)
      <3> PICK sum : sum = o.tokens + (at - o.last) * Rate[p]
        OBVIOUS
      <3>1. b = [tokens |-> IF sum > Burst[p] THEN Burst[p] ELSE sum, last |-> at]
        BY <2>3, <2>6 DEF Refilled
      <3>2. at > o.last
        BY <2>4, <2>6
      <3>3. sum \in Nat
        <4>1. at - o.last \in Nat
          BY <2>4, <3>2
        <4>2. \A x, y \in Nat : x * y \in Nat
          OBVIOUS
        <4>3. (at - o.last) * Rate[p] \in Nat
          BY <1>1, <4>1, <4>2
        <4>4. QED
          BY <2>4, <4>3
      <3>4. b.tokens \in Nat /\ b.tokens <= sum /\ b.tokens <= Burst[p] /\ b.last = at
        BY <1>1, <3>1, <3>3
      <3>5. b \in [tokens : 0..Burst[p], last : 0..limiterNow]
        BY <1>1, <1>2, <3>1, <3>3
      <3>6. ASSUME NEW i \in 1..n, NEW m \in 1..n, NEW x \in Nat, LatestAt(g, i, n, m), x >= at, x >= g[m]
            PROVE  b.tokens + (n - i + 1) <= Burst[p] + Rate[p] * (x - g[i])
        <4>1. o.tokens + (n - i + 1) <= Burst[p] + Rate[p] * (g[m] - g[i])
          BY <2>2, <3>6
        <4>2. g[m] \in Nat /\ g[i] \in Nat
          BY <1>3
        <4>6. n - i + 1 \in Int
          OBVIOUS
        <4>3. g[m] <= o.last /\ o.last < at /\ at <= x
          BY <2>2, <2>4, <3>2, <3>6
        <4>4. b.tokens <= o.tokens + (at - o.last) * Rate[p]
          BY <3>4
        <4>5. QED
          BY <1>1, <2>4, <3>4, <4>1, <4>2, <4>3, <4>4, <4>6, SpanRefilled
      <3>7. ASSUME NEW k \in 1..n
            PROVE  g[k] <= b.last
        <4>1. g[k] \in Nat /\ g[k] <= o.last
          BY <1>3, <2>2
        <4>2. QED
          BY <2>4, <3>2, <3>4, <4>1
      <3>8. at <= b.last
        BY <3>4
      <3>9. QED
        BY <3>5, <3>6, <3>7, <3>8
    <2>7. QED
      BY <2>5, <2>6
  <1>5. CASE s \notin KnownSubjects(p)
    <2> PICK pause : pause = IdleTimeout - LockDelay
      OBVIOUS
    <2>1. b = [tokens |-> Burst[p], last |-> at]
      BY <1>5 DEF RefilledFor, BucketOf, Refilled
    <2>2. \A k \in 1..n : g[k] + IdleTimeout < limiterNow
      BY <1>5 DEF LimiterInvariant, LongIdle
    <2>3. \A k \in 1..n : g[k] + pause <= at
      <3>1. ASSUME NEW k \in 1..n
            PROVE  g[k] + pause <= at
        <4>1. g[k] \in Nat /\ g[k] + IdleTimeout < limiterNow
          BY <1>3, <2>2
        <4>2. QED
          BY <1>1, <1>2, <4>1
      <3>2. QED
        BY <3>1
    <2>4. pause \in Nat /\ Rate[p] * pause >= Burst[p]
      BY <1>1
    <2>5. ASSUME NEW k \in 1..n
          PROVE  g[k] <= at
      <3>1. g[k] \in Nat /\ g[k] + pause <= at
        BY <1>3, <2>3
      <3>2. QED
        BY <2>4, <3>1
    <2>6. ASSUME NEW i \in 1..n, NEW m \in 1..n, NEW x \in Nat, LatestAt(g, i, n, m), x >= at, x >= g[m]
          PROVE  Burst[p] + (n - i + 1) <= Burst[p] + Rate[p] * (x - g[i])
      <3>1. n \in 1..n /\ i <= n /\ m \in i..n
        BY <2>6 DEF LatestAt
      <3>2. RunBound(p, g, i, n, m)
        BY <1>2, <2>6, <3>1 DEF LimiterInvariant, RunsBounded, RunsOf
      <3>3. n - i + 1 <= Burst[p] + Rate[p] * (g[m] - g[i])
        BY <3>2 DEF RunBound
      <3>4. g[m] \in Nat /\ g[i] \in Nat /\ n - i + 1 \in Int /\ pause \in Int
        BY <1>3, <2>4
      <3>5. g[m] + pause <= x
        <4>1. g[m] + pause <= at /\ at <= x
          BY <2>3, <2>6
        <4>2. QED
          BY <3>4, <4>1
      <3>6. QED
        BY <1>1, <2>4, <3>3, <3>4, <3>5, SpanIdle
    <2>7. Burst[p] \in 0..Burst[p] /\ at \in 0..limiterNow
      BY <1>1, <1>2
    <2>8. b \in [tokens : 0..Burst[p], last : 0..limiterNow] /\ b.tokens = Burst[p] /\ b.last = at /\ at <= b.last
      BY <2>1, <2>7
    <2>9. \A i, m \in 1..n, x \in Nat : LatestAt(g, i, n, m) /\ x >= at /\ x >= g[m] =>
            b.tokens + (n - i + 1) <= Burst[p] + Rate[p] * (x - g[i])
      BY <2>6, <2>8
    <2>10. \A k \in 1..n : g[k] <= b.last
      BY <2>5, <2>8
    <2>11. QED
      BY <2>8, <2>9, <2>10
  <1>6. QED
    BY <1>4, <1>5

(* What putting a bucket back changes. *)
LEMMA PutBucketFacts ==
  ASSUME LimiterShapes, NEW p \in Registered, NEW s \in Subjects, NEW b, NEW B, B = PutBucket(p, s, b)
  PROVE  /\ DOMAIN B = Registered /\ \A q \in Registered \ {p} : B[q] = buckets[q]
         /\ DOMAIN B[p] = KnownSubjects(p) \cup {s} /\ B[p][s] = b
         /\ \A k \in KnownSubjects(p) \ {s} : B[p][k] = buckets[p][k]
  <1>1. DOMAIN buckets = Registered
    BY DEF LimiterShapes
  <1>2. B[p] = [k \in KnownSubjects(p) \cup {s} |-> IF k = s THEN b ELSE buckets[p][k]]
    BY <1>1 DEF PutBucket
  <1>3. DOMAIN B = Registered /\ \A q \in Registered \ {p} : B[q] = buckets[q]
    BY <1>1 DEF PutBucket
  <1>4. QED
    BY <1>2, <1>3

(* A call ends: all but what is granted and remembered of its subject stays. *)
LEMMA FinishKeeps ==
  ASSUME LimiterInvariant, NEW c \in LimiterCalls, FinishAllow(c)
  PROVE  LimiterInvariant'
  <1> PICK p : p = asking[c].policy
    OBVIOUS
  <1> PICK s : s = asking[c].subject
    OBVIOUS
  <1> PICK at : at = asking[c].at
    OBVIOUS
  <1> PICK g : g = grants[<<p, s>>]
    OBVIOUS
  <1> PICK b : b = RefilledFor(p, s, at)
    OBVIOUS
  <1>1. /\ p \in Registered /\ s \in Subjects /\ at \in Nat /\ at <= limiterNow /\ limiterNow <= at + LockDelay
    BY DEF FinishAllow, LimiterInvariant, CallTimely
  <1>2. /\ asking' = [asking EXCEPT ![c] = NoCall]
        /\ sweepAt' = sweepAt /\ sweepDue' = sweepDue /\ limiterNow' = limiterNow
    BY DEF FinishAllow
  <1>3. \/ buckets' = buckets /\ grants' = grants
        \/ ~FullHouse(p, s) /\ b.tokens < 1 /\ buckets' = PutBucket(p, s, b) /\ grants' = grants
        \/ /\ ~FullHouse(p, s) /\ ~(b.tokens < 1)
           /\ buckets' = PutBucket(p, s, [b EXCEPT !.tokens = @ - 1])
           /\ grants' = [grants EXCEPT ![<<p, s>>] = Append(@, at)]
    BY DEF FinishAllow, RefilledFor
  <1>4. /\ LimiterShapes /\ LimiterRoom /\ RunsBounded /\ g \in Seq(Nat) /\ <<p, s>> \in Buckets
        /\ grants \in [Buckets -> Seq(Nat)] /\ limiterNow \in Nat
    BY <1>1 DEF LimiterInvariant, LimiterShapes, Buckets
  <1>5. \A d \in LimiterCalls : CallTimely(d)'
    <2>1. \A d \in LimiterCalls : asking'[d] = NoCall \/ asking'[d] = asking[d]
      BY <1>2, <1>4 DEF LimiterShapes
    <2>2. QED
      BY <1>2, <2>1 DEF LimiterInvariant, CallTimely
  <1>6. DOMAIN asking' = LimiterCalls
    BY <1>2, <1>4 DEF LimiterShapes
  <1>7. CASE buckets' = buckets /\ grants' = grants
    BY <1>2, <1>5, <1>6, <1>7
       DEF LimiterInvariant, LimiterShapes, LimiterRoom, RunsBounded, RunsOf, KnownSubjects, BucketAccounts, LongIdle
  <1>8. PICK n \in Nat : n = Len(g)
    BY <1>4
  <1>0. b \in [tokens : 0..Burst[p], last : 0..limiterNow] /\ AccountsFor(p, g, n, at, b.tokens, b.last)
    BY <1>1, <1>8, RefillAccounts
  <1>9. /\ b \in [tokens : 0..Burst[p], last : 0..limiterNow] /\ at <= b.last
        /\ \A k \in 1..n : g[k] <= b.last
        /\ \A i, m \in 1..n, x \in Nat : LatestAt(g, i, n, m) /\ x >= at /\ x >= g[m] =>
             b.tokens + (n - i + 1) <= Burst[p] + Rate[p] * (x - g[i])
    BY <1>0 DEF AccountsFor
  <1>10. ASSUME NEW e, ~FullHouse(p, s), buckets' = PutBucket(p, s, e),
                \A q \in Buckets \ {<<p, s>>} : grants'[q] = grants[q],
                grants' \in [Buckets -> Seq(Nat)], BucketAccounts(p, s)', RunsOf(p, grants'[<<p, s>>])
         PROVE  LimiterInvariant'
    <2>1. /\ DOMAIN buckets' = Registered /\ \A q \in Registered \ {p} : buckets'[q] = buckets[q]
          /\ DOMAIN buckets'[p] = KnownSubjects(p) \cup {s} /\ buckets'[p][s] = e
          /\ \A k \in KnownSubjects(p) \ {s} : buckets'[p][k] = buckets[p][k]
      BY <1>1, <1>4, <1>10, PutBucketFacts
    <2>2. \A q \in Registered : KnownSubjects(q)' = IF q = p THEN KnownSubjects(p) \cup {s} ELSE KnownSubjects(q)
      BY <2>1 DEF KnownSubjects
    <2>3. LimiterShapes'
      <3>1. \A q \in Registered : KnownSubjects(q)' \subseteq Subjects
        BY <1>1, <1>4, <2>2 DEF LimiterShapes
      <3>2. /\ limiterNow' \in Nat /\ sweepAt' \in Nat /\ sweepAt' <= limiterNow'
            /\ sweepDue' \subseteq Registered
        BY <1>2, <1>4 DEF LimiterShapes
      <3>3. QED
        BY <1>6, <1>10, <2>1, <3>1, <3>2 DEF LimiterShapes
    <2>4. LimiterRoom'
      <3>1. IsFiniteSet(KnownSubjects(p)) /\ Cardinality(KnownSubjects(p)) <= BucketCapacity
        BY <1>1, <1>4 DEF LimiterRoom
      <3>2. Cardinality(KnownSubjects(p)) \in Nat /\ BucketCapacity \in Nat
        BY <3>1, FS_CardinalityType, LimiterConstants
      <3>3. IsFiniteSet(KnownSubjects(p) \cup {s})
        BY <3>1, FS_AddElement
      <3>4. Cardinality(KnownSubjects(p) \cup {s}) <= BucketCapacity
        <4>1. CASE s \in KnownSubjects(p)
          <5>1. KnownSubjects(p) \cup {s} = KnownSubjects(p)
            BY <4>1
          <5>2. QED
            BY <3>1, <5>1
        <4>2. CASE s \notin KnownSubjects(p)
          <5>1. Cardinality(KnownSubjects(p)) < BucketCapacity
            BY <1>10, <3>2, <4>2 DEF FullHouse
          <5>2. Cardinality(KnownSubjects(p) \cup {s}) = Cardinality(KnownSubjects(p)) + 1
            BY <3>1, <4>2, FS_AddElement
          <5>3. QED
            BY <3>2, <5>1, <5>2
        <4>3. QED
          BY <4>1, <4>2
      <3>5. QED
        BY <1>4, <2>2, <3>3, <3>4 DEF LimiterRoom
    <2>5. RunsBounded'
      <3>1. RunsBounded' <=> \A q \in Buckets : RunsOf(q[1], grants'[q])
        BY DEF RunsBounded
      <3>2. \A q \in Buckets : RunsOf(q[1], grants[q])
        BY <1>4 DEF RunsBounded, RunsOf
      <3>3. ASSUME NEW q \in Buckets
            PROVE  RunsOf(q[1], grants'[q])
        <4>1. CASE q = <<p, s>>
          BY <1>10, <4>1
        <4>2. CASE q # <<p, s>>
          <5>1. grants'[q] = grants[q]
            BY <1>10, <4>2
          <5>2. QED
            BY <3>2, <5>1
        <4>3. QED
          BY <4>1, <4>2
      <3>4. QED
        BY <3>1, <3>3
    <2>6. ASSUME NEW q \in Registered, NEW t \in Subjects
          PROVE  IF t \in KnownSubjects(q)' THEN BucketAccounts(q, t)' ELSE LongIdle(q, t)'
      <3>1. CASE q = p /\ t = s
        <4>1. t \in KnownSubjects(q)'
          BY <2>2, <2>6, <3>1
        <4>2. QED
          BY <1>10, <3>1, <4>1
      <3>2. CASE ~(q = p /\ t = s)
        <4>1. <<q, t>> \in Buckets \ {<<p, s>>}
          BY <3>2 DEF Buckets
        <4>2. grants'[<<q, t>>] = grants[<<q, t>>]
          BY <1>10, <4>1
        <4>3. t \in KnownSubjects(q)' <=> t \in KnownSubjects(q)
          BY <2>2, <3>2
        <4>4. t \in KnownSubjects(q) => buckets'[q][t] = buckets[q][t]
          BY <2>1, <3>2
        <4>5. t \in KnownSubjects(q) /\ BucketAccounts(q, t) => BucketAccounts(q, t)'
          BY <1>2, <4>2, <4>4 DEF BucketAccounts
        <4>6. LongIdle(q, t) => LongIdle(q, t)'
          BY <1>2, <4>2 DEF LongIdle
        <4>7. QED
          BY <4>3, <4>5, <4>6 DEF LimiterInvariant
      <3>3. QED
        BY <3>1, <3>2
    <2>7. QED
      BY <1>5, <2>3, <2>4, <2>5, <2>6 DEF LimiterInvariant
  <1>14. RunsOf(p, g)
    <2>1. <<p, s>>[1] = p
      OBVIOUS
    <2>2. QED
      BY <1>4, <2>1 DEF RunsBounded
  <1>11. CASE ~FullHouse(p, s) /\ b.tokens < 1 /\ buckets' = PutBucket(p, s, b) /\ grants' = grants
    <2>1. RunsOf(p, g)
      BY <1>14
    <2>2. buckets'[p][s] = b
      BY <1>1, <1>4, <1>11, PutBucketFacts
    <2>3. b.tokens = 0
      BY <1>1, <1>9, <1>11, PolicyNumbers
    <2>4. ASSUME NEW i \in 1..n, NEW m \in 1..n, LatestAt(g, i, n, m)
          PROVE  0 + (n - i + 1) <= Burst[p] + Rate[p] * (g[m] - g[i])
      <3>1. n \in 1..n /\ i <= n /\ m \in i..n
        BY <2>4 DEF LatestAt
      <3>2. n - i + 1 <= Burst[p] + Rate[p] * (g[m] - g[i])
        BY <1>8, <2>1, <2>4, <3>1 DEF RunsOf, RunBound
      <3>3. 0 + (n - i + 1) = n - i + 1
        OBVIOUS
      <3>4. QED
        BY <3>2, <3>3
    <2>5. BucketAccounts(p, s)'
      <3>1. grants'[<<p, s>>] = g /\ limiterNow' = limiterNow
        BY <1>2, <1>11
      <3>2. Balance(p, g, n, 0, b.last)
        BY <1>9, <2>4 DEF Balance, LeftOf
      <3>3. b \in [tokens : 0..Burst[p], last : 0..limiterNow]
        BY <1>9
      <3>4. QED
        BY <1>8, <2>2, <2>3, <3>1, <3>2, <3>3 DEF BucketAccounts
    <2>6. QED
      BY <1>4, <1>10, <1>11, <2>1, <2>5
  <1>12. CASE /\ ~FullHouse(p, s) /\ ~(b.tokens < 1)
              /\ buckets' = PutBucket(p, s, [b EXCEPT !.tokens = @ - 1])
              /\ grants' = [grants EXCEPT ![<<p, s>>] = Append(@, at)]
    <2>0. PICK e : e = [b EXCEPT !.tokens = @ - 1]
      OBVIOUS
    <2> PICK h : h = Append(g, at)
      OBVIOUS
    <2> PICK left : left = b.tokens - 1
      OBVIOUS
    <2>1. RunsOf(p, g)
      BY <1>14
    <2>2. Burst[p] \in Nat
      BY <1>1, PolicyNumbers
    <2>3. left \in Nat /\ left + 1 = b.tokens /\ left + 1 <= Burst[p]
      BY <1>9, <1>12, <2>2
    <2>4. e.tokens = left /\ e.last = b.last /\ e \in [tokens : 0..Burst[p], last : 0..limiterNow]
      BY <1>9, <2>0, <2>2, <2>3
    <2>5. RunsOf(p, h) /\ LeftOf(p, h, Len(h), left)
      <3>1. AccountsFor(p, g, Len(g), at, left + 1, b.last)
        BY <1>0, <1>8, <2>3
      <3>2. QED
        BY <1>1, <1>4, <2>1, <2>3, <3>1, GrantExtendsRuns
    <2>6. /\ grants'[<<p, s>>] = h /\ grants' \in [Buckets -> Seq(Nat)]
          /\ \A q \in Buckets \ {<<p, s>>} : grants'[q] = grants[q]
      <3>1. h \in Seq(Nat)
        BY <1>1, <1>4
      <3>2. QED
        BY <1>4, <1>12, <3>1
    <2>7. buckets'[p][s] = e
      <3>1. buckets' = PutBucket(p, s, e)
        BY <1>12, <2>0
      <3>2. QED
        BY <1>1, <1>4, <3>1, PutBucketFacts
    <2>8. \A k \in 1..Len(h) : h[k] <= e.last
      <3>1. Len(h) = n + 1 /\ h[n + 1] = at /\ \A k \in 1..n : h[k] = g[k]
        BY <1>1, <1>4, <1>8
      <3>2. \A k \in 1..n : g[k] <= e.last
        BY <1>9, <2>4
      <3>3. at <= e.last
        BY <1>9, <2>4
      <3>4. \A k \in 1..(n + 1) : k \in 1..n \/ k = n + 1
        OBVIOUS
      <3>5. QED
        BY <3>1, <3>2, <3>3, <3>4
    <2>9. BucketAccounts(p, s)'
      <3>1. Balance(p, h, Len(h), left, e.last)
        BY <2>5, <2>8 DEF LeftOf, Balance
      <3>2. grants'[<<p, s>>] = h /\ limiterNow' = limiterNow /\ e \in [tokens : 0..Burst[p], last : 0..limiterNow]
        BY <1>2, <2>4, <2>6
      <3>3. QED
        BY <2>4, <2>7, <3>1, <3>2 DEF BucketAccounts
    <2>10. QED
      <3>1. buckets' = PutBucket(p, s, e)
        BY <1>12, <2>0
      <3>2. QED
        BY <1>4, <1>10, <1>12, <2>5, <2>6, <2>9, <3>1
  <1>13. QED
    BY <1>3, <1>7, <1>11, <1>12

LEMMA SweepKeeps ==
  ASSUME LimiterInvariant, NEW p \in Registered, SweepBuckets(p)
  PROVE  LimiterInvariant'
  <1>1. /\ asking' = asking /\ sweepAt' = sweepAt /\ limiterNow' = limiterNow /\ grants' = grants
        /\ sweepDue' = sweepDue \ {p} /\ buckets' = [buckets EXCEPT ![p] = OnKeys(@, ActiveBuckets(p))]
    BY DEF SweepBuckets
  <1>2. DOMAIN buckets = Registered /\ limiterNow \in Nat /\ sweepAt \in Nat /\ sweepAt <= limiterNow
    BY DEF LimiterInvariant, LimiterShapes
  <1>3. /\ DOMAIN buckets' = Registered /\ \A q \in Registered \ {p} : buckets'[q] = buckets[q]
        /\ buckets'[p] = [k \in ActiveBuckets(p) |-> buckets[p][k]]
    BY <1>1, <1>2 DEF OnKeys
  <1>4. \A q \in Registered : KnownSubjects(q)' = IF q = p THEN ActiveBuckets(p) ELSE KnownSubjects(q)
    BY <1>3 DEF KnownSubjects
  <1>5. ActiveBuckets(p) \subseteq KnownSubjects(p)
    BY DEF ActiveBuckets
  <1>6. LimiterShapes'
    BY <1>1, <1>3, <1>4, <1>5 DEF LimiterInvariant, LimiterShapes
  <1>7. LimiterRoom'
    <2>1. IsFiniteSet(KnownSubjects(p)) /\ Cardinality(KnownSubjects(p)) <= BucketCapacity
      BY DEF LimiterInvariant, LimiterRoom
    <2>2. /\ IsFiniteSet(ActiveBuckets(p)) /\ Cardinality(ActiveBuckets(p)) <= Cardinality(KnownSubjects(p))
          /\ Cardinality(ActiveBuckets(p)) \in Nat /\ Cardinality(KnownSubjects(p)) \in Nat /\ BucketCapacity \in Nat
      BY <1>5, <2>1, FS_Subset, FS_CardinalityType, LimiterConstants
    <2>3. QED
      BY <1>4, <2>1, <2>2 DEF LimiterInvariant, LimiterRoom
  <1>8. RunsBounded' /\ \A c \in LimiterCalls : CallTimely(c)'
    BY <1>1 DEF LimiterInvariant, RunsBounded, RunsOf, CallTimely
  <1>9. ASSUME NEW q \in Registered, NEW t \in Subjects
        PROVE  IF t \in KnownSubjects(q)' THEN BucketAccounts(q, t)' ELSE LongIdle(q, t)'
    <2>1. CASE t \in KnownSubjects(q)'
      <3>1. t \in KnownSubjects(q) /\ buckets'[q][t] = buckets[q][t]
        BY <1>3, <1>4, <1>5, <2>1
      <3>2. BucketAccounts(q, t)
        BY <3>1 DEF LimiterInvariant
      <3>3. QED
        BY <1>1, <2>1, <3>1, <3>2 DEF BucketAccounts
    <2>2. CASE t \notin KnownSubjects(q)'
      <3>1. CASE t \notin KnownSubjects(q)
        <4>1. LongIdle(q, t)
          BY <3>1 DEF LimiterInvariant
        <4>2. QED
          BY <1>1, <2>2, <4>1 DEF LongIdle
      <3>2. CASE t \in KnownSubjects(q)
        <4>1. BucketAccounts(q, t) /\ q = p /\ t \notin ActiveBuckets(p)
          BY <1>4, <2>2, <3>2 DEF LimiterInvariant
        <4>2. ~(sweepAt <= buckets[q][t].last + IdleTimeout)
          BY <3>2, <4>1 DEF ActiveBuckets
        <4> PICK g : g = grants[<<q, t>>]
          OBVIOUS
        <4> PICK last : last = buckets[q][t].last
          OBVIOUS
        <4>3. g \in Seq(Nat) /\ IdleTimeout \in Nat
          BY LimiterConstants DEF LimiterInvariant, LimiterShapes, Buckets
        <4>4. last \in 0..limiterNow /\ \A k \in 1..Len(g) : g[k] <= last
          BY <4>1 DEF BucketAccounts, Balance, LeftOf
        <4>5. \A k \in 1..Len(g) : g[k] \in Nat
          BY <4>3
        <4>6. last \in Nat /\ last + IdleTimeout < limiterNow
          BY <1>2, <4>2, <4>3, <4>4
        <4>7. ASSUME NEW k \in 1..Len(g)
              PROVE  g[k] + IdleTimeout < limiterNow
          <5>1. g[k] \in Nat /\ g[k] <= last
            BY <4>4, <4>5
          <5>2. QED
            BY <1>2, <4>3, <4>6, <5>1, LongBefore
        <4>8. QED
          BY <1>1, <2>2, <4>7 DEF LongIdle
      <3>3. QED
        BY <3>1, <3>2
    <2>3. QED
      BY <2>1, <2>2
  <1>10. QED
    BY <1>6, <1>7, <1>8, <1>9 DEF LimiterInvariant

LEMMA OthersKeep ==
  ASSUME LimiterInvariant
  PROVE  /\ \A c \in LimiterCalls, p \in Policies, s \in CallerNames : StartAllow(c, p, s) => LimiterInvariant'
         /\ StartSweep => LimiterInvariant'
         /\ TimeAdvances => LimiterInvariant'
         /\ UNCHANGED limiterVars => LimiterInvariant'
  <1>1. ASSUME buckets' = buckets, grants' = grants, limiterNow' \in {limiterNow, limiterNow + 1},
               sweepAt' \in Nat, sweepAt' <= limiterNow', sweepDue' \subseteq Registered, DOMAIN asking' = LimiterCalls,
               \A c \in LimiterCalls : CallTimely(c)'
        PROVE  LimiterInvariant'
    <2>1. limiterNow \in Nat /\ limiterNow' \in Nat /\ limiterNow <= limiterNow'
      BY <1>1 DEF LimiterInvariant, LimiterShapes
    <2>2. \A p \in Registered : KnownSubjects(p)' = KnownSubjects(p)
      BY <1>1 DEF KnownSubjects
    <2>3. LimiterShapes' /\ LimiterRoom' /\ RunsBounded'
      BY <1>1, <2>1, <2>2 DEF LimiterInvariant, LimiterShapes, LimiterRoom, RunsBounded, RunsOf
    <2>4. ASSUME NEW p \in Registered, NEW s \in Subjects
          PROVE  IF s \in KnownSubjects(p)' THEN BucketAccounts(p, s)' ELSE LongIdle(p, s)'
      <3>1. CASE s \in KnownSubjects(p)
        <4>1. BucketAccounts(p, s)
          BY <3>1 DEF LimiterInvariant
        <4>2. buckets[p][s] \in [tokens : 0..Burst[p], last : 0..limiterNow']
          BY <2>1, <4>1 DEF BucketAccounts
        <4>3. QED
          BY <1>1, <2>2, <3>1, <4>1, <4>2 DEF BucketAccounts
      <3>2. CASE s \notin KnownSubjects(p)
        <4> PICK g : g = grants[<<p, s>>]
          OBVIOUS
        <4>1. \A k \in 1..Len(g) : g[k] + IdleTimeout < limiterNow
          BY <3>2 DEF LimiterInvariant, LongIdle
        <4>2. \A k \in 1..Len(g) : g[k] \in Nat
          BY DEF LimiterInvariant, LimiterShapes, Buckets
        <4>3. ASSUME NEW k \in 1..Len(g)
              PROVE  g[k] + IdleTimeout < limiterNow'
          <5>1. g[k] \in Nat /\ IdleTimeout \in Nat /\ g[k] + IdleTimeout < limiterNow
            BY <4>1, <4>2, LimiterConstants
          <5>2. QED
            BY <2>1, <5>1
        <4>4. QED
          BY <1>1, <2>2, <3>2, <4>3 DEF LongIdle
      <3>3. QED
        BY <3>1, <3>2
    <2>5. QED
      BY <1>1, <2>3, <2>4 DEF LimiterInvariant
  <1>2. /\ limiterNow \in Nat /\ sweepAt \in Nat /\ sweepAt <= limiterNow /\ sweepDue \subseteq Registered
        /\ DOMAIN asking = LimiterCalls /\ \A c \in LimiterCalls : CallTimely(c)
    BY DEF LimiterInvariant, LimiterShapes
  <1>3. ASSUME NEW c \in LimiterCalls, NEW p \in Policies, NEW s \in CallerNames, StartAllow(c, p, s)
        PROVE  LimiterInvariant'
    <2>1. p \in Registered /\ normalizeSubject(s) \in Subjects
      BY <1>3 DEF StartAllow, Subjects
    <2>2. asking' = [asking EXCEPT ![c] = [policy |-> p, subject |-> normalizeSubject(s), at |-> limiterNow]]
      BY <1>3 DEF StartAllow
    <2>3. buckets' = buckets /\ sweepAt' = sweepAt /\ sweepDue' = sweepDue /\ limiterNow' = limiterNow /\ grants' = grants
      BY <1>3 DEF StartAllow
    <2>4. asking'[c] = [policy |-> p, subject |-> normalizeSubject(s), at |-> limiterNow]
      BY <1>2, <2>2
    <2>5. CallTimely(c)'
      BY <1>2, <2>1, <2>3, <2>4, LimiterConstants DEF CallTimely
    <2>6. \A d \in LimiterCalls \ {c} : asking'[d] = asking[d]
      BY <1>2, <2>2
    <2>7. \A d \in LimiterCalls \ {c} : CallTimely(d)'
      BY <1>2, <2>3, <2>6 DEF CallTimely
    <2>8. DOMAIN asking' = LimiterCalls
      BY <1>2, <2>2
    <2>9. QED
      BY <1>1, <1>2, <2>3, <2>5, <2>7, <2>8
  <1>4. ASSUME StartSweep
        PROVE  LimiterInvariant'
    <2>1. /\ sweepAt' = limiterNow /\ sweepDue' = Registered
          /\ buckets' = buckets /\ asking' = asking /\ limiterNow' = limiterNow /\ grants' = grants
      BY <1>4 DEF StartSweep
    <2>2. \A d \in LimiterCalls : CallTimely(d)'
      BY <1>2, <2>1 DEF CallTimely
    <2>3. QED
      BY <1>1, <1>2, <2>1, <2>2
  <1>5. ASSUME TimeAdvances
        PROVE  LimiterInvariant'
    <2>1. /\ limiterNow' = limiterNow + 1 /\ buckets' = buckets /\ asking' = asking
          /\ sweepAt' = sweepAt /\ sweepDue' = sweepDue /\ grants' = grants
          /\ \A c \in LimiterCalls : asking[c] # NoCall => limiterNow < asking[c].at + LockDelay
      BY <1>5 DEF TimeAdvances
    <2>2. \A d \in LimiterCalls : CallTimely(d)'
      BY <1>2, <2>1, LimiterConstants DEF CallTimely
    <2>3. QED
      BY <1>1, <1>2, <2>1, <2>2
  <1>6. ASSUME UNCHANGED limiterVars
        PROVE  LimiterInvariant'
    <2>1. /\ buckets' = buckets /\ asking' = asking /\ limiterNow' = limiterNow /\ grants' = grants
          /\ sweepAt' = sweepAt /\ sweepDue' = sweepDue
      BY <1>6 DEF limiterVars
    <2>2. \A d \in LimiterCalls : CallTimely(d)'
      BY <1>2, <2>1 DEF CallTimely
    <2>3. QED
      BY <1>1, <1>2, <2>1, <2>2
  <1>7. QED
    BY <1>3, <1>4, <1>5, <1>6

LEMMA LimiterSteps == LimiterInvariant /\ [LimiterNext]_limiterVars => LimiterInvariant'
  <1> SUFFICES ASSUME LimiterInvariant, [LimiterNext]_limiterVars
               PROVE  LimiterInvariant'
    OBVIOUS
  <1>1. sweepDue \subseteq Registered
    BY DEF LimiterInvariant, LimiterShapes
  <1>2. QED
    BY <1>1, FinishKeeps, SweepKeeps, OthersKeep DEF LimiterNext

(* Types; no limiter holds more buckets than its capacity, no bucket more tokens    *)
(* than its burst (platform/ratelimit/ratelimit.go AllowN).                           *)
THEOREM LimiterTypeCorrect == LimiterSpec => []LimiterTypeOK
  <1>1. LimiterInvariant => LimiterTypeOK
    <2> SUFFICES ASSUME LimiterInvariant
                 PROVE  LimiterTypeOK
      OBVIOUS
    <2>1. /\ DOMAIN buckets = Registered /\ \A p \in Registered : KnownSubjects(p) \subseteq Subjects
          /\ sweepAt \in 0..limiterNow /\ sweepDue \subseteq Registered
      BY DEF LimiterInvariant, LimiterShapes
    <2>2. \A p \in Registered : \A s \in KnownSubjects(p) : BucketAccounts(p, s)
      BY <2>1 DEF LimiterInvariant
    <2>3. \A p \in Registered : \A s \in KnownSubjects(p) : buckets[p][s].tokens \in 0..Burst[p] /\ buckets[p][s].last \in 0..limiterNow
      BY <2>2 DEF BucketAccounts
    <2>4. QED
      BY <2>1, <2>3 DEF LimiterTypeOK, LimiterInvariant, LimiterRoom
  <1>2. QED
    BY <1>1, LimiterStarts, LimiterSteps, PTL DEF LimiterSpec

(* Whatever order the calls take the lock in, and whatever the sweep forgets, no run *)
(* of granted calls exceeds the burst and the refill of its span                       *)
(* (platform/ratelimit/ratelimit.go AllowN, Cleanup).                                   *)
THEOREM GrantsStayWithinRate == LimiterSpec => []GrantsWithinRate
  BY LimiterStarts, LimiterSteps, LimiterSuffices, PTL DEF LimiterSpec

-----------------------------------------------------------------------------
(* The settings: what is compared or read under a lock still holds at the write. *)
TypedFields == {"mode", "other", "captcha", "epoch", "consent"}
WorkFields == {"what", "old", "key", "clear"}

SettingsShapes ==
  /\ TypedFields \subseteq DOMAIN typed
  /\ DOMAIN step = Admins /\ DOMAIN work = Admins
  /\ \A a \in Admins : WorkFields \subseteq DOMAIN work[a]

(* A patch that names the mode has it locked from the comparison to the write.  *)
ModePatch(a) == step[a] = "writePatch" /\ work[a].what.mode # Keep
ModesCompared ==
  /\ \A a \in Admins : step[a] = "checkSelection" => ~work[a].clear
  /\ \A a \in Admins : step[a] = "lockMode" => ~work[a].clear /\ work[a].what.mode # Keep
  /\ \A a \in Admins : ModePatch(a) => (work[a].clear = (typed.mode # work[a].what.mode))
  /\ \A a \in Admins : step[a] = "writePatch" /\ work[a].what.mode = Keep => ~work[a].clear
  /\ \A a, b \in Admins : ModePatch(a) /\ ModePatch(b) => a = b

(* A reset has the version locked from reading it to writing the next one.       *)
ResetsCounted ==
  /\ \A a \in Admins : step[a] = "writeConsent" => work[a].what = typed.consent + 1
  /\ \A a, b \in Admins : step[a] = "writeConsent" /\ step[b] = "writeConsent" => a = b

SettingsInvariant == SettingsShapes /\ ModesCompared /\ ResetsCounted /\ SnapshotFresh

LEMMA SettingsStart == SettingsInit => SettingsInvariant
  <1> SUFFICES ASSUME SettingsInit PROVE SettingsInvariant
    OBVIOUS
  <1>1. SettingsShapes
    BY DEF SettingsInit, SettingsShapes, TypedFields, WorkFields, DefaultTyped, NoWork
  <1>2. ModesCompared /\ ResetsCounted /\ SnapshotFresh
    BY DEF SettingsInit, ModesCompared, ModePatch, ResetsCounted, SnapshotFresh
  <1>3. QED
    BY <1>1, <1>2 DEF SettingsInvariant

(* A request takes a step of its own: what it carries must fit what is committed. *)
LEMMA SettingsGo ==
  ASSUME SettingsInvariant, NEW a \in Admins, NEW s, NEW w, Go(a, s, w),
         UNCHANGED <<typed, snapshot, loading, stalled>>,
         WorkFields \subseteq DOMAIN w,
         s \in {"checkSelection", "lockMode"} => ~w.clear,
         s = "lockMode" => w.what.mode # Keep,
         s = "writePatch" /\ w.what.mode = Keep => ~w.clear,
         s = "writePatch" /\ w.what.mode # Keep => (w.clear = (typed.mode # w.what.mode)) /\ ~ModeLocked(a),
         s = "writeConsent" => w.what = typed.consent + 1 /\ ~ConsentLocked(a)
  PROVE  SettingsInvariant'
  <1>1. /\ DOMAIN step' = Admins /\ step'[a] = s /\ \A b \in Admins \ {a} : step'[b] = step[b]
        /\ DOMAIN work' = Admins /\ work'[a] = w /\ \A b \in Admins \ {a} : work'[b] = work[b]
    BY DEF Go, SettingsInvariant, SettingsShapes
  <1>2. SettingsShapes'
    BY <1>1 DEF SettingsInvariant, SettingsShapes
  <1>3. ModesCompared'
    <2>1. \A b \in Admins : step'[b] = "checkSelection" => ~work'[b].clear
      BY <1>1 DEF SettingsInvariant, ModesCompared
    <2>2. \A b \in Admins : step'[b] = "lockMode" => ~work'[b].clear /\ work'[b].what.mode # Keep
      BY <1>1 DEF SettingsInvariant, ModesCompared
    <2>3. \A b \in Admins : ModePatch(b)' => (work'[b].clear = (typed'.mode # work'[b].what.mode))
      BY <1>1 DEF SettingsInvariant, ModesCompared, ModePatch
    <2>4. \A b \in Admins : step'[b] = "writePatch" /\ work'[b].what.mode = Keep => ~work'[b].clear
      BY <1>1 DEF SettingsInvariant, ModesCompared
    <2>5. \A b, c \in Admins : ModePatch(b)' /\ ModePatch(c)' => b = c
      BY <1>1 DEF SettingsInvariant, ModesCompared, ModePatch, ModeLocked
    <2>6. QED
      BY <2>1, <2>2, <2>3, <2>4, <2>5 DEF ModesCompared
  <1>4. ResetsCounted'
    BY <1>1 DEF SettingsInvariant, ResetsCounted, ConsentLocked
  <1>5. SnapshotFresh'
    BY <1>1 DEF SettingsInvariant, SnapshotFresh, View
  <1>6. QED
    BY <1>2, <1>3, <1>4, <1>5 DEF SettingsInvariant

LEMMA SettingsEnds ==
  ASSUME SettingsInvariant, NEW a \in Admins, End(a), UNCHANGED <<typed, snapshot, loading, stalled>>
  PROVE  SettingsInvariant'
  <1>1. WorkFields \subseteq DOMAIN NoWork
    BY DEF WorkFields, NoWork
  <1>2. QED
    BY <1>1, SettingsGo DEF End

(* A commit: the row it changes is not one that another request has compared.     *)
LEMMA SettingsCommits ==
  ASSUME SettingsInvariant, NEW a \in Admins, Committed(a), TypedFields \subseteq DOMAIN typed',
         typed'.mode = typed.mode \/ \A b \in Admins \ {a} : ~ModePatch(b),
         typed'.consent = typed.consent \/ \A b \in Admins \ {a} : step[b] # "writeConsent"
  PROVE  SettingsInvariant'
  <1>1. /\ DOMAIN step' = Admins /\ step'[a] = "invalidate" /\ \A b \in Admins \ {a} : step'[b] = step[b]
        /\ DOMAIN work' = Admins /\ work'[a] = NoWork /\ \A b \in Admins \ {a} : work'[b] = work[b]
        /\ stalled' # {}
    BY DEF Committed, Go, SettingsInvariant, SettingsShapes
  <1>2. WorkFields \subseteq DOMAIN NoWork
    BY DEF WorkFields, NoWork
  <1>3. SettingsShapes'
    BY <1>1, <1>2 DEF SettingsInvariant, SettingsShapes
  <1>4. ModesCompared'
    <2>1. \A b \in Admins : step'[b] \in {"checkSelection", "lockMode", "writePatch"} =>
            b \in Admins \ {a} /\ step'[b] = step[b] /\ work'[b] = work[b]
      BY <1>1
    <2>2. \A b \in Admins : ModePatch(b)' => ModePatch(b) /\ typed'.mode = typed.mode /\ work'[b] = work[b]
      BY <2>1 DEF ModePatch
    <2>3. QED
      BY <2>1, <2>2 DEF SettingsInvariant, ModesCompared
  <1>5. ResetsCounted'
    BY <1>1 DEF SettingsInvariant, ResetsCounted
  <1>6. SnapshotFresh'
    BY <1>1 DEF SnapshotFresh
  <1>7. QED
    BY <1>3, <1>4, <1>5, <1>6 DEF SettingsInvariant

(* ---- what the commits write ---- *)
LEMMA PatchWrites ==
  ASSUME SettingsInvariant, NEW a \in Admins, WritePatch(a)
  PROVE  /\ SettingsInvariant'
         /\ typed'.epoch = IF typed'.mode # typed.mode THEN typed.epoch + 1 ELSE typed.epoch
         /\ typed'.consent = typed.consent
  <1> DEFINE p == work[a].what
  <1>1. /\ step[a] = "writePatch" /\ Committed(a)
        /\ typed' = [Applied(typed, p) EXCEPT !.epoch = IF work[a].clear THEN @ + 1 ELSE @]
    BY DEF WritePatch, Patched
  <1>2. /\ TypedFields \subseteq DOMAIN typed' /\ typed'.mode = Set(typed.mode, p.mode)
        /\ typed'.consent = typed.consent
        /\ typed'.epoch = IF work[a].clear THEN typed.epoch + 1 ELSE typed.epoch
    BY <1>1 DEF Applied, SettingsInvariant, SettingsShapes, TypedFields
  <1>3. CASE p.mode = Keep
    <2>1. typed'.mode = typed.mode /\ ~work[a].clear
      BY <1>1, <1>2, <1>3 DEF Set, SettingsInvariant, ModesCompared
    <2>2. QED
      BY <1>1, <1>2, <2>1, SettingsCommits
  <1>4. CASE p.mode # Keep
    <2>1. /\ typed'.mode = p.mode /\ (work[a].clear = (typed.mode # p.mode))
          /\ \A b \in Admins \ {a} : ~ModePatch(b)
      BY <1>1, <1>2, <1>4 DEF Set, SettingsInvariant, ModesCompared, ModePatch
    <2>2. QED
      BY <1>1, <1>2, <2>1, SettingsCommits
  <1>5. QED
    BY <1>3, <1>4

LEMMA ConsentWrites ==
  ASSUME SettingsInvariant, NEW a \in Admins, WriteConsent(a)
  PROVE  /\ SettingsInvariant'
         /\ typed'.consent = typed.consent + 1
         /\ typed'.mode = typed.mode /\ typed'.epoch = typed.epoch
  <1>1. /\ step[a] = "writeConsent" /\ Committed(a) /\ typed' = [typed EXCEPT !.consent = work[a].what]
    BY DEF WriteConsent
  <1>2. /\ TypedFields \subseteq DOMAIN typed' /\ typed'.mode = typed.mode /\ typed'.epoch = typed.epoch
        /\ typed'.consent = typed.consent + 1 /\ \A b \in Admins \ {a} : step[b] # "writeConsent"
    BY <1>1 DEF SettingsInvariant, SettingsShapes, TypedFields, ResetsCounted
  <1>3. QED
    BY <1>1, <1>2, SettingsCommits

LEMMA DeleteWrites ==
  ASSUME SettingsInvariant, NEW a \in Admins, WriteDelete(a)
  PROVE  /\ SettingsInvariant'
         /\ typed'.mode = typed.mode /\ typed'.epoch = typed.epoch /\ typed'.consent = typed.consent
  <1>1. CASE End(a) /\ Still
    BY <1>1, SettingsEnds DEF Still
  <1>2. CASE Committed(a) /\ typed' = [typed EXCEPT !.captcha = IF work[a].clear THEN Blank ELSE @]
    <2>1. /\ TypedFields \subseteq DOMAIN typed' /\ typed'.mode = typed.mode /\ typed'.epoch = typed.epoch
          /\ typed'.consent = typed.consent
      BY <1>2 DEF SettingsInvariant, SettingsShapes, TypedFields
    <2>2. QED
      BY <1>2, <2>1, SettingsCommits
  <1>3. QED
    BY <1>1, <1>2 DEF WriteDelete

(* ---- steps that leave the typed settings alone ---- *)
LEMMA NoWorkEmpty ==
  ASSUME NEW p
  PROVE  LET w == [NoWork EXCEPT !.what = p] IN
         WorkFields \subseteq DOMAIN w /\ w.what = p /\ ~w.clear
  BY DEF NoWork, WorkFields

LEMMA PatchSteps ==
  ASSUME SettingsInvariant, NEW a \in Admins, NEW p, BeginPatch(a, p) \/ CheckSelection(a) \/ LockMode(a)
  PROVE  SettingsInvariant' /\ typed' = typed
  <1>1. UNCHANGED <<typed, snapshot, loading, stalled>>
    BY DEF BeginPatch, CheckSelection, LockMode, Still
  <1>2. ASSUME BeginPatch(a, p) PROVE SettingsInvariant'
    <2> DEFINE w == [NoWork EXCEPT !.what = p]
               s == IF p.captcha # Keep THEN "checkSelection" ELSE IF p.mode # Keep THEN "lockMode" ELSE "writePatch"
    <2>1. Go(a, s, w)
      BY <1>2 DEF BeginPatch
    <2>2. WorkFields \subseteq DOMAIN w /\ w.what = p /\ ~w.clear
      BY NoWorkEmpty
    <2>3. s \in {"checkSelection", "lockMode", "writePatch"} /\ (s = "lockMode" => p.mode # Keep)
          /\ (s = "writePatch" => p.mode = Keep)
      OBVIOUS
    <2> HIDE DEF w, s
    <2>4. QED
      BY <1>1, <2>1, <2>2, <2>3, SettingsGo
  <1>3. ASSUME CheckSelection(a) PROVE SettingsInvariant'
    <2> DEFINE s == IF work[a].what.mode # Keep THEN "lockMode" ELSE "writePatch"
    <2>1. End(a) \/ Go(a, s, work[a])
      BY <1>3 DEF CheckSelection
    <2>2. WorkFields \subseteq DOMAIN work[a] /\ ~work[a].clear
      BY <1>3 DEF CheckSelection, SettingsInvariant, SettingsShapes, ModesCompared
    <2>3. s \in {"lockMode", "writePatch"} /\ (s = "lockMode" <=> work[a].what.mode # Keep)
      OBVIOUS
    <2> HIDE DEF s
    <2>4. QED
      BY <1>1, <2>1, <2>2, <2>3, SettingsGo, SettingsEnds
  <1>4. ASSUME LockMode(a) PROVE SettingsInvariant'
    <2> DEFINE w == [work[a] EXCEPT !.clear = typed.mode # work[a].what.mode]
    <2>1. Go(a, "writePatch", w) /\ ~ModeLocked(a)
      BY <1>4 DEF LockMode
    <2>2. /\ WorkFields \subseteq DOMAIN w /\ w.what = work[a].what /\ w.what.mode # Keep
          /\ (w.clear = (typed.mode # w.what.mode))
      BY <1>4 DEF LockMode, SettingsInvariant, SettingsShapes, ModesCompared, WorkFields
    <2> HIDE DEF w
    <2>3. QED
      BY <1>1, <2>1, <2>2, SettingsGo
  <1>5. QED
    BY <1>1, <1>2, <1>3, <1>4

LEMMA OtherSteps ==
  ASSUME SettingsInvariant, NEW a \in Admins, NEW s, NEW k,
         \/ BeginReset(a) \/ LockConsent(a) \/ BeginUpsert(a, s) \/ WriteProvider(a) \/ BeginDelete(a, k)
         \/ ReadSelection(a) \/ MigrateSecrets(a) \/ Cancel(a)
  PROVE  SettingsInvariant' /\ typed' = typed
  <1>1. UNCHANGED <<typed, snapshot, loading, stalled>>
    BY DEF BeginReset, LockConsent, BeginUpsert, WriteProvider, BeginDelete, ReadSelection, MigrateSecrets, Cancel, Still
  <1>2. ASSUME NEW to \in {"lockConsent", "writeProvider", "readSelection", "writeDelete"}, NEW w,
               Go(a, to, w), WorkFields \subseteq DOMAIN w
        PROVE  SettingsInvariant'
    BY <1>1, <1>2, SettingsGo
  <1>3. ASSUME BeginReset(a) PROVE SettingsInvariant'
    <2>1. WorkFields \subseteq DOMAIN NoWork
      BY DEF WorkFields, NoWork
    <2>2. QED
      BY <1>2, <1>3, <2>1 DEF BeginReset
  <1>4. ASSUME LockConsent(a) PROVE SettingsInvariant'
    <2> DEFINE w == [NoWork EXCEPT !.what = typed.consent + 1]
    <2>1. Go(a, "writeConsent", w) /\ ~ConsentLocked(a)
      BY <1>4 DEF LockConsent
    <2>2. WorkFields \subseteq DOMAIN w /\ w.what = typed.consent + 1
      BY NoWorkEmpty
    <2> HIDE DEF w
    <2>3. QED
      BY <1>1, <2>1, <2>2, SettingsGo
  <1>5. ASSUME BeginUpsert(a, s) PROVE SettingsInvariant'
    <2> DEFINE row == Replacement(s.key, s.kind, s.enabled, s.config, providers[s.key])
               w == [NoWork EXCEPT !.old = row, !.key = s.key]
    <2>1. Go(a, "writeProvider", w)
      BY <1>5 DEF BeginUpsert
    <2>2. WorkFields \subseteq DOMAIN w
      BY DEF WorkFields, NoWork
    <2> HIDE DEF w
    <2>3. QED
      BY <1>2, <2>1, <2>2
  <1>6. ASSUME WriteProvider(a) \/ Cancel(a) PROVE SettingsInvariant'
    BY <1>1, <1>6, SettingsEnds DEF WriteProvider, Cancel
  <1>7. ASSUME BeginDelete(a, k) PROVE SettingsInvariant'
    <2> DEFINE w == [NoWork EXCEPT !.key = k]
    <2>1. Go(a, "readSelection", w) \/ Go(a, "writeDelete", w)
      BY <1>7 DEF BeginDelete
    <2>2. WorkFields \subseteq DOMAIN w
      BY DEF WorkFields, NoWork
    <2> HIDE DEF w
    <2>3. QED
      BY <1>2, <2>1, <2>2
  <1>8. ASSUME ReadSelection(a) PROVE SettingsInvariant'
    <2> DEFINE w == [work[a] EXCEPT !.clear = typed.captcha = work[a].key]
    <2>1. Go(a, "writeDelete", w)
      BY <1>8 DEF ReadSelection
    <2>2. WorkFields \subseteq DOMAIN w
      BY DEF SettingsInvariant, SettingsShapes
    <2> HIDE DEF w
    <2>3. QED
      BY <1>2, <2>1, <2>2
  <1>9. ASSUME MigrateSecrets(a) PROVE SettingsInvariant'
    BY <1>1, <1>9 DEF MigrateSecrets, SettingsInvariant, SettingsShapes, ModesCompared, ModePatch, ResetsCounted, SnapshotFresh, View
  <1>10. QED
    BY <1>1, <1>3, <1>4, <1>5, <1>6, <1>7, <1>8, <1>9

(* ---- the snapshot ---- *)
LEMMA SnapshotSteps ==
  ASSUME SettingsInvariant, LoadSnapshot \/ StoreSnapshot \/ UNCHANGED settingsVars
  PROVE  SettingsInvariant' /\ typed' = typed
  <1>1. UNCHANGED <<typed, step, work, stalled>>
    BY DEF LoadSnapshot, StoreSnapshot, settingsVars
  <1>2. SettingsShapes' /\ ModesCompared' /\ ResetsCounted'
    BY <1>1 DEF SettingsInvariant, SettingsShapes, ModesCompared, ModePatch, ResetsCounted
  <1>3. SnapshotFresh'
    BY <1>1 DEF LoadSnapshot, StoreSnapshot, settingsVars, SettingsInvariant, SnapshotFresh, View
  <1>4. QED
    BY <1>1, <1>2, <1>3 DEF SettingsInvariant

LEMMA SettingsForgets ==
  ASSUME SettingsInvariant, RestartSettings \/ \E a \in Admins : Invalidate(a)
  PROVE  SettingsInvariant' /\ typed' = typed
  <1>1. WorkFields \subseteq DOMAIN NoWork
    BY DEF WorkFields, NoWork
  <1>2. /\ UNCHANGED typed /\ snapshot' = Nothing /\ loading' = Nothing
        /\ DOMAIN step' = Admins /\ DOMAIN work' = Admins
        /\ \A b \in Admins : (step'[b] = step[b] /\ work'[b] = work[b]) \/ (step'[b] = "idle" /\ work'[b] = NoWork)
    BY DEF RestartSettings, Invalidate, End, Go, SettingsInvariant, SettingsShapes
  <1>3. SettingsShapes'
    BY <1>1, <1>2 DEF SettingsInvariant, SettingsShapes
  <1>4. \A b \in Admins : step'[b] # "idle" => step'[b] = step[b] /\ work'[b] = work[b]
    BY <1>2
  <1>5. ModesCompared' /\ ResetsCounted'
    BY <1>2, <1>4 DEF SettingsInvariant, ModesCompared, ModePatch, ResetsCounted
  <1>6. SnapshotFresh'
    BY <1>2 DEF SnapshotFresh
  <1>7. QED
    BY <1>2, <1>3, <1>5, <1>6 DEF SettingsInvariant

(* ---- the whole ---- *)
LEMMA SettingsSteps ==
  SettingsInvariant /\ [SettingsNext]_settingsVars =>
    /\ SettingsInvariant'
    /\ typed'.epoch = IF typed'.mode # typed.mode THEN typed.epoch + 1 ELSE typed.epoch
    /\ \A a \in Admins : WriteConsent(a) => typed'.consent = typed.consent + 1
  <1> SUFFICES ASSUME SettingsInvariant, [SettingsNext]_settingsVars
               PROVE  /\ SettingsInvariant'
                      /\ typed'.epoch = IF typed'.mode # typed.mode THEN typed.epoch + 1 ELSE typed.epoch
    BY ConsentWrites
  <1>1. ASSUME SettingsInvariant' /\ typed'.mode = typed.mode /\ typed'.epoch = typed.epoch
        PROVE  /\ SettingsInvariant'
               /\ typed'.epoch = IF typed'.mode # typed.mode THEN typed.epoch + 1 ELSE typed.epoch
    BY <1>1
  <1>2. CASE UNCHANGED settingsVars \/ LoadSnapshot \/ StoreSnapshot
    BY <1>1, <1>2, SnapshotSteps
  <1>3. CASE RestartSettings \/ \E a \in Admins : Invalidate(a)
    BY <1>1, <1>3, SettingsForgets
  <1>4. ASSUME NEW a \in Admins, NEW p, BeginPatch(a, p) \/ CheckSelection(a) \/ LockMode(a)
        PROVE  SettingsInvariant' /\ typed' = typed
    BY <1>4, PatchSteps
  <1>5. ASSUME NEW a \in Admins, NEW s, NEW k,
               \/ BeginReset(a) \/ LockConsent(a) \/ BeginUpsert(a, s) \/ WriteProvider(a) \/ BeginDelete(a, k)
               \/ ReadSelection(a) \/ MigrateSecrets(a) \/ Cancel(a)
        PROVE  SettingsInvariant' /\ typed' = typed
    BY <1>5, OtherSteps
  <1>6. ASSUME NEW a \in Admins, WriteConsent(a) \/ WriteDelete(a)
        PROVE  SettingsInvariant' /\ typed'.mode = typed.mode /\ typed'.epoch = typed.epoch
    BY <1>6, ConsentWrites, DeleteWrites
  <1>7. CASE SettingsNext
    <2>1. \/ RestartSettings \/ \E a \in Admins : Invalidate(a)
          \/ LoadSnapshot \/ StoreSnapshot
          \/ \E a \in Admins : \E p : BeginPatch(a, p) \/ CheckSelection(a) \/ LockMode(a)
          \/ \E a \in Admins : WritePatch(a)
          \/ \E a \in Admins : WriteConsent(a) \/ WriteDelete(a)
          \/ \E a \in Admins : \E s, k :
               \/ BeginReset(a) \/ LockConsent(a) \/ BeginUpsert(a, s) \/ WriteProvider(a) \/ BeginDelete(a, k)
               \/ ReadSelection(a) \/ MigrateSecrets(a) \/ Cancel(a)
      BY <1>7, Zenon DEF SettingsNext
    <2>2. CASE \E a \in Admins : WritePatch(a)
      BY <2>2, PatchWrites
    <2>3. CASE \E a \in Admins : WriteConsent(a) \/ WriteDelete(a)
      BY <1>1, <1>6, <2>3
    <2>4. CASE \E a \in Admins : \E p : BeginPatch(a, p) \/ CheckSelection(a) \/ LockMode(a)
      BY <1>1, <1>4, <2>4
    <2>5. CASE \E a \in Admins : \E s, k :
               \/ BeginReset(a) \/ LockConsent(a) \/ BeginUpsert(a, s) \/ WriteProvider(a) \/ BeginDelete(a, k)
               \/ ReadSelection(a) \/ MigrateSecrets(a) \/ Cancel(a)
      BY <1>1, <1>5, <2>5
    <2>6. QED
      BY <1>2, <1>3, <2>1, <2>2, <2>3, <2>4, <2>5
  <1>8. QED
    BY <1>2, <1>7

LEMMA SettingsInductive == SettingsSpec => []SettingsInvariant
  <1>1. SettingsInit => SettingsInvariant
    BY SettingsStart
  <1>2. SettingsInvariant /\ [SettingsNext]_settingsVars => SettingsInvariant'
    BY SettingsSteps
  <1>3. QED
    BY <1>1, <1>2, PTL DEF SettingsSpec

(* What a Get returns from the cache is what is committed, between a commit and  *)
(* its invalidation apart (service/setting/service.go Get, Patch, Invalidate).   *)
THEOREM SnapshotStaysFresh == SettingsSpec => []SnapshotFresh
  <1>1. SettingsInvariant => SnapshotFresh
    BY DEF SettingsInvariant
  <1>2. QED
    BY <1>1, SettingsInductive, PTL

(* The epoch that voids widget credentials goes up by one exactly when the       *)
(* comment mode changes (service/setting/service.go Patch).                      *)
THEOREM EpochCountsModes == SettingsSpec => EpochFollowsMode
  <1>1. SettingsInvariant /\ [SettingsNext]_settingsVars =>
          [typed'.epoch = IF typed'.mode # typed.mode THEN typed.epoch + 1 ELSE typed.epoch]_settingsVars
    BY SettingsSteps
  <1>2. QED
    BY <1>1, SettingsInductive, PTL DEF SettingsSpec, EpochFollowsMode

(* Every reset of the legal consent is a version of its own                      *)
(* (service/setting/service.go ResetLegalConsent).                               *)
THEOREM ConsentResetsCounted == SettingsSpec => ConsentsCounted
  <1>1. SettingsInvariant /\ [SettingsNext]_settingsVars =>
          [\A a \in Admins : WriteConsent(a) => typed'.consent = typed.consent + 1]_settingsVars
    BY SettingsSteps
  <1>2. QED
    BY <1>1, SettingsInductive, PTL DEF SettingsSpec, ConsentsCounted

-----------------------------------------------------------------------------
(* The selected captcha provider. *)
RowFields == {"kind", "secret", "version"}
Usable(rows, k) == k \in ProviderKeys /\ rows[k].kind = "captcha" /\ Opens(rows[k])

(* What may be written under a key: the names of spam and notification providers are *)
(* theirs alone, and a captcha row opens.                                              *)
RowFits(key, row) ==
  /\ RowFields \subseteq DOMAIN row
  /\ row.kind = "captcha" => ~ReservedKey(key) /\ Opens(row)
  /\ row.kind = "captcha" \/ row.kind \in {"oauth", "oidc"} \/ ReservedKey(key)

RowsKept(rows) ==
  /\ DOMAIN rows = ProviderKeys
  /\ \A k \in ProviderKeys : RowFields \subseteq DOMAIN rows[k] /\ (rows[k].kind = "captcha" => ~ReservedKey(k))

(* On SQLite a patch has the provider it selects, and a deletion the selection it has *)
(* read, to itself.                                                                     *)
SelectsUsable(a) ==
  step[a] \in {"lockMode", "writePatch"} /\ work[a].what.captcha \notin {Keep, Blank} => Usable(providers, work[a].what.captcha)
DeletesUnselected(a) ==
  step[a] = "writeDelete" => work[a].clear \/ typed.captcha # work[a].key \/ providers[work[a].key].kind # "captcha"

SelectionInvariant ==
  /\ RowsKept(providers)
  /\ \A a \in Admins : step[a] = "writeProvider" => work[a].key \in ProviderKeys /\ RowFits(work[a].key, work[a].old)
  /\ dialect = "sqlite" => /\ \A a, b \in Admins : InTransaction(a) /\ InTransaction(b) => a = b
                           /\ \A a \in Admins : SelectsUsable(a) /\ DeletesUnselected(a)

LEMMA UsableProviders ==
  ASSUME NEW k
  PROVE  CaptchaProvider(k) # Refused <=> Usable(providers, k)
  <1>1. Refused.kind = "refused"
    BY DEF Refused, NoProvider
  <1>2. QED
    BY <1>1 DEF CaptchaProvider, Usable

LEMMA RowsFilled ==
  ASSUME NEW kind, NEW enabled, NEW public, NEW secret
  PROVE  LET row == Row(kind, enabled, public, secret) IN
         /\ RowFields \subseteq DOMAIN row /\ row.kind = kind
         /\ secret # NoSecret => Opens(row)
         /\ \A old : RowFields \subseteq DOMAIN KeepSecret(row, old) /\ KeepSecret(row, old).kind = kind
  BY DEF Row, RowFields, Opens, KeepSecret

LEMMA PartFilled ==
  ASSUME NEW in, NEW f, Filled(in, f)
  PROVE  Part(in, {f}) # NoSecret
  <1>1. DOMAIN Part(in, {f}) = {f}
    BY DEF Part
  <1>2. DOMAIN NoSecret = {}
    BY DEF NoSecret
  <1>3. QED
    BY <1>1, <1>2

LEMMA ReplacementFits ==
  ASSUME NEW key, NEW kind \in {"captcha", "oauth", "oidc", "spam", "notification"}, NEW enabled, NEW in, NEW old,
         Replacement(key, kind, enabled, in, old) # Refused
  PROVE  RowFits(key, Replacement(key, kind, enabled, in, old))
  <1> PICK row : row = Replacement(key, kind, enabled, in, old)
    OBVIOUS
  <1>1. CASE kind = "captcha"
    <2>1. row = CaptchaRow(key, in) /\ ~ReservedKey(key)
      BY <1>1 DEF Replacement
    <2>2. CaptchaOk(key, in) /\ row = Row("captcha", FALSE, Part(in, {"provider", "site_key", "endpoint"}), Part(in, {"secret_key"}))
      BY <2>1 DEF CaptchaRow
    <2>3. Part(in, {"secret_key"}) # NoSecret
      BY <2>2, PartFilled DEF CaptchaOk
    <2>4. RowFields \subseteq DOMAIN row /\ row.kind = "captcha" /\ Opens(row)
      BY <2>2, <2>3 DEF Row, RowFields, Opens
    <2>5. QED
      BY <2>1, <2>4 DEF RowFits
  <1>2. CASE kind \in {"oauth", "oidc"}
    <2>1. row = AuthRow(key, kind, enabled, in, old)
      BY <1>2 DEF Replacement
    <2>2. \E public, secret : row = Row(kind, enabled, public, secret) \/ row = KeepSecret(Row(kind, enabled, public, secret), old)
      BY <2>1, Zenon DEF AuthRow
    <2>3. RowFields \subseteq DOMAIN row /\ row.kind = kind
      BY <2>2, RowsFilled
    <2>4. QED
      BY <1>2, <2>3 DEF RowFits
  <1>3. CASE kind = "spam"
    <2>1. row = SpamRow(key, enabled, in, old) /\ key \in SpamKeys
      BY <1>3 DEF Replacement
    <2>2. \E public, secret : row = Row("spam", enabled, public, secret) \/ row = KeepSecret(Row("spam", enabled, public, secret), old)
      BY <2>1, Zenon DEF SpamRow
    <2>3. RowFields \subseteq DOMAIN row /\ row.kind = "spam"
      BY <2>2, RowsFilled
    <2>4. QED
      BY <2>1, <2>3 DEF RowFits, ReservedKey
  <1>4. CASE kind = "notification"
    <2>1. row = NotificationRow(key, enabled, in, old) /\ key \in NotificationKeys
      BY <1>4 DEF Replacement
    <2>2. \E public, secret : row = Row("notification", enabled, public, secret)
      BY <2>1, Zenon DEF NotificationRow
    <2>3. RowFields \subseteq DOMAIN row /\ row.kind = "notification"
      BY <2>2, RowsFilled
    <2>4. QED
      BY <2>1, <2>3 DEF RowFits, ReservedKey
  <1>5. QED
    BY <1>1, <1>2, <1>3, <1>4

LEMMA SelectionStarts == SettingsInit => SelectionInvariant
  <1> SUFFICES ASSUME SettingsInit
               PROVE  SelectionInvariant
    OBVIOUS
  <1>1. RowFields \subseteq DOMAIN NoProvider
    BY DEF RowFields, NoProvider
  <1>2. RowsKept(providers)
    BY <1>1, SettingsConstants DEF SettingsInit, RowsKept
  <1>3. \A a \in Admins : step[a] = "idle"
    BY DEF SettingsInit
  <1>4. QED
    BY <1>2, <1>3 DEF SelectionInvariant, InTransaction, SelectsUsable, DeletesUnselected

(* A request takes a step of its own. *)
LEMMA SelectionGo ==
  ASSUME SettingsShapes, SelectionInvariant, NEW a \in Admins, NEW s, NEW w, Go(a, s, w),
         UNCHANGED <<dialect, typed, providers>>,
         s \in {"idle", "invalidate", "writeProvider"} \/ InTransaction(a) \/ Alone(a),
         s = "writeProvider" => w.key \in ProviderKeys /\ RowFits(w.key, w.old),
         dialect = "sqlite" /\ s \in {"lockMode", "writePatch"} /\ w.what.captcha \notin {Keep, Blank} => Usable(providers, w.what.captcha),
         dialect = "sqlite" /\ s = "writeDelete" => w.clear \/ typed.captcha # w.key \/ providers[w.key].kind # "captcha"
  PROVE  SelectionInvariant'
  <1>1. /\ step'[a] = s /\ \A b \in Admins \ {a} : step'[b] = step[b]
        /\ work'[a] = w /\ \A b \in Admins \ {a} : work'[b] = work[b]
    BY DEF Go, SettingsShapes
  <1>2. dialect' = dialect /\ typed' = typed /\ providers' = providers
    OBVIOUS
  <1>3. \A b \in Admins : step'[b] = "writeProvider" => work'[b].key \in ProviderKeys /\ RowFits(work'[b].key, work'[b].old)
    BY <1>1 DEF SelectionInvariant
  <1>4. \A b \in Admins \ {a} : InTransaction(b)' <=> InTransaction(b)
    BY <1>1 DEF InTransaction
  <1>5. InTransaction(a)' => InTransaction(a) \/ Alone(a)
    BY <1>1 DEF InTransaction
  <1>6. ASSUME dialect = "sqlite"
        PROVE  \A b, c \in Admins : InTransaction(b)' /\ InTransaction(c)' => b = c
    <2>1. InTransaction(a)' => \A b \in Admins \ {a} : ~InTransaction(b)
      BY <1>5, <1>6 DEF Alone, SelectionInvariant
    <2>2. QED
      BY <1>4, <1>6, <2>1 DEF SelectionInvariant
  <1>7. ASSUME dialect = "sqlite", NEW b \in Admins
        PROVE  SelectsUsable(b)' /\ DeletesUnselected(b)'
    <2>1. SelectsUsable(b) /\ DeletesUnselected(b)
      BY <1>7 DEF SelectionInvariant
    <2>2. CASE b = a
      BY <1>1, <1>2, <1>7, <2>2 DEF SelectsUsable, DeletesUnselected
    <2>3. CASE b # a
      BY <1>1, <1>2, <2>1, <2>3 DEF SelectsUsable, DeletesUnselected
    <2>4. QED
      BY <2>2, <2>3
  <1>8. QED
    BY <1>2, <1>3, <1>6, <1>7 DEF SelectionInvariant

(* A write that leaves nobody in a transaction on SQLite. *)
LEMMA SelectionWritten ==
  ASSUME SelectionInvariant, dialect' = dialect, RowsKept(providers'),
         \A b \in Admins : (step'[b] = step[b] /\ work'[b] = work[b]) \/ step'[b] \in {"idle", "invalidate"},
         dialect = "sqlite" => \A b \in Admins : ~InTransaction(b)'
  PROVE  SelectionInvariant'
  <1>1. \A b \in Admins : step'[b] = "writeProvider" => work'[b].key \in ProviderKeys /\ RowFits(work'[b].key, work'[b].old)
    BY DEF SelectionInvariant
  <1>2. dialect = "sqlite" => \A b \in Admins : SelectsUsable(b)' /\ DeletesUnselected(b)'
    BY DEF InTransaction, SelectsUsable, DeletesUnselected
  <1>3. QED
    BY <1>1, <1>2 DEF SelectionInvariant

(* The same for a request that ends what it does. *)
LEMMA SelectionEnds ==
  ASSUME SettingsShapes, SelectionInvariant, NEW a \in Admins, InTransaction(a) \/ Alone(a),
         NEW s \in {"idle", "invalidate"}, NEW w, Go(a, s, w),
         dialect' = dialect, RowsKept(providers')
  PROVE  SelectionInvariant'
  <1>1. step'[a] = s /\ \A b \in Admins \ {a} : step'[b] = step[b] /\ work'[b] = work[b]
    BY DEF Go, SettingsShapes
  <1>2. dialect = "sqlite" => \A b \in Admins \ {a} : ~InTransaction(b)
    BY DEF Alone, SelectionInvariant
  <1>3. dialect = "sqlite" => \A b \in Admins : ~InTransaction(b)'
    BY <1>1, <1>2 DEF InTransaction
  <1>4. QED
    BY <1>1, <1>3, SelectionWritten

(* What SelectionUsable says of a step. *)
SelectionStep ==
  dialect = "sqlite" =>
    /\ typed'.captcha # typed.captcha => SelectionOpens'
    /\ SelectionOpens => SelectionOpens' \/ LoginTakes(typed.captcha)

LEMMA OpensMeans ==
  /\ SelectionOpens <=> (typed.captcha # Blank => Usable(providers, typed.captcha))
  /\ SelectionOpens' <=> (typed'.captcha # Blank => Usable(providers', typed'.captcha))
  <1>1. Refused.kind = "refused"
    BY DEF Refused, NoProvider
  <1>2. QED
    BY <1>1 DEF SelectionOpens, CaptchaProvider, Usable

LEMMA SelectionUntouched ==
  ASSUME UNCHANGED <<typed, providers>>
  PROVE  SelectionStep
  BY OpensMeans DEF SelectionStep

LEMMA SelectionPatches ==
  ASSUME SettingsInvariant, SelectionInvariant, NEW a \in Admins, NEW p, BeginPatch(a, p) \/ CheckSelection(a) \/ LockMode(a)
  PROVE  SelectionInvariant' /\ SelectionStep
  <1>0. SettingsShapes
    BY DEF SettingsInvariant
  <1>1. UNCHANGED <<dialect, typed, providers>>
    BY DEF BeginPatch, CheckSelection, LockMode, Still
  <1>2. ASSUME BeginPatch(a, p) PROVE SelectionInvariant'
    <2> DEFINE w == [NoWork EXCEPT !.what = p]
               s == IF p.captcha # Keep THEN "checkSelection" ELSE IF p.mode # Keep THEN "lockMode" ELSE "writePatch"
    <2>1. Go(a, s, w) /\ Alone(a)
      BY <1>2 DEF BeginPatch
    <2>2. w.what = p
      BY NoWorkEmpty
    <2>3. s \in {"checkSelection", "lockMode", "writePatch"} /\ (s # "checkSelection" => p.captcha = Keep)
      OBVIOUS
    <2> HIDE DEF w, s
    <2>4. QED
      BY <1>0, <1>1, <2>1, <2>2, <2>3, SelectionGo
  <1>3. ASSUME CheckSelection(a) PROVE SelectionInvariant'
    <2> DEFINE s == IF work[a].what.mode # Keep THEN "lockMode" ELSE "writePatch"
    <2>1. step[a] = "checkSelection"
      BY <1>3 DEF CheckSelection
    <2>2. InTransaction(a)
      BY <2>1 DEF InTransaction
    <2>3. \/ End(a)
          \/ Go(a, s, work[a]) /\ (work[a].what.captcha # Blank => Usable(providers, work[a].what.captcha))
      BY <1>3, UsableProviders DEF CheckSelection
    <2>4. s \in {"lockMode", "writePatch"}
      OBVIOUS
    <2> HIDE DEF s
    <2>5. QED
      BY <1>0, <1>1, <2>2, <2>3, <2>4, SelectionGo DEF End
  <1>4. ASSUME LockMode(a) PROVE SelectionInvariant'
    <2> DEFINE w == [work[a] EXCEPT !.clear = typed.mode # work[a].what.mode]
    <2>1. Go(a, "writePatch", w) /\ step[a] = "lockMode"
      BY <1>4 DEF LockMode
    <2>2. InTransaction(a)
      BY <2>1 DEF InTransaction
    <2>3. w.what = work[a].what
      BY <1>0 DEF SettingsShapes, WorkFields
    <2>4. dialect = "sqlite" => SelectsUsable(a)
      BY DEF SelectionInvariant
    <2>5. dialect = "sqlite" /\ w.what.captcha \notin {Keep, Blank} => Usable(providers, w.what.captcha)
      BY <2>1, <2>3, <2>4 DEF SelectsUsable
    <2> HIDE DEF w
    <2>6. QED
      BY <1>0, <1>1, <2>1, <2>2, <2>5, SelectionGo
  <1>5. QED
    BY <1>1, <1>2, <1>3, <1>4, SelectionUntouched

LEMMA SelectionResets ==
  ASSUME SettingsInvariant, SelectionInvariant, NEW a \in Admins,
         BeginReset(a) \/ LockConsent(a) \/ Cancel(a) \/ Invalidate(a)
  PROVE  SelectionInvariant' /\ SelectionStep
  <1>0. SettingsShapes
    BY DEF SettingsInvariant
  <1>1. UNCHANGED <<dialect, typed, providers>>
    BY DEF BeginReset, LockConsent, Cancel, Invalidate, Still
  <1>2. ASSUME BeginReset(a) PROVE SelectionInvariant'
    BY <1>0, <1>1, <1>2, SelectionGo DEF BeginReset
  <1>3. ASSUME LockConsent(a) PROVE SelectionInvariant'
    <2>1. PICK w : Go(a, "writeConsent", w) /\ step[a] = "lockConsent"
      BY <1>3 DEF LockConsent
    <2>2. InTransaction(a)
      BY <2>1 DEF InTransaction
    <2>3. QED
      BY <1>0, <1>1, <2>1, <2>2, SelectionGo
  <1>4. ASSUME Cancel(a) \/ Invalidate(a) PROVE SelectionInvariant'
    BY <1>0, <1>1, <1>4, SelectionGo DEF Cancel, Invalidate, End
  <1>5. QED
    BY <1>1, <1>2, <1>3, <1>4, SelectionUntouched

LEMMA SelectionDeletes ==
  ASSUME SettingsInvariant, SelectionInvariant, NEW a \in Admins, NEW k,
         BeginDelete(a, k) \/ ReadSelection(a)
  PROVE  SelectionInvariant' /\ SelectionStep
  <1>0. SettingsShapes
    BY DEF SettingsInvariant
  <1>1. UNCHANGED <<dialect, typed, providers>>
    BY DEF BeginDelete, ReadSelection, Still
  <1>2. ASSUME BeginDelete(a, k) PROVE SelectionInvariant'
    <2> DEFINE w == [NoWork EXCEPT !.key = k]
               s == IF providers[k].kind = "captcha" THEN "readSelection" ELSE "writeDelete"
    <2>1. Go(a, s, w) /\ Alone(a)
      BY <1>2 DEF BeginDelete
    <2>2. w.key = k
      BY DEF NoWork
    <2>3. s \in {"readSelection", "writeDelete"} /\ (s = "writeDelete" => providers[k].kind # "captcha")
      OBVIOUS
    <2> HIDE DEF w, s
    <2>4. QED
      BY <1>0, <1>1, <2>1, <2>2, <2>3, SelectionGo
  <1>3. ASSUME ReadSelection(a) PROVE SelectionInvariant'
    <2> DEFINE w == [work[a] EXCEPT !.clear = typed.captcha = work[a].key]
    <2>1. Go(a, "writeDelete", w) /\ step[a] = "readSelection"
      BY <1>3 DEF ReadSelection
    <2>2. InTransaction(a)
      BY <2>1 DEF InTransaction
    <2>3. w.key = work[a].key /\ (w.clear = (typed.captcha = work[a].key))
      BY <1>0 DEF SettingsShapes, WorkFields
    <2>4. w.clear \/ typed.captcha # w.key
      BY <2>3
    <2> HIDE DEF w
    <2>5. QED
      BY <1>0, <1>1, <2>1, <2>2, <2>4, SelectionGo
  <1>4. QED
    BY <1>1, <1>2, <1>3, SelectionUntouched

(* Commits: of a patch, of a reset and of a deletion. *)
LEMMA SelectionCommits ==
  ASSUME SettingsInvariant, SelectionInvariant, NEW a \in Admins, WritePatch(a) \/ WriteConsent(a)
  PROVE  SelectionInvariant' /\ SelectionStep
  <1>0. SettingsShapes
    BY DEF SettingsInvariant
  <1>1. /\ dialect' = dialect /\ providers' = providers /\ Go(a, "invalidate", NoWork)
        /\ step[a] \in {"writePatch", "writeConsent"}
    BY DEF WritePatch, WriteConsent, Committed
  <1>2. SelectionInvariant'
    <2>1. InTransaction(a)
      BY <1>1 DEF InTransaction
    <2>2. RowsKept(providers')
      BY <1>1 DEF SelectionInvariant
    <2>3. QED
      BY <1>0, <1>1, <2>1, <2>2, SelectionEnds
  <1>3. CASE WriteConsent(a)
    <2>1. typed'.captcha = typed.captcha
      BY <1>0, <1>3 DEF WriteConsent, SettingsShapes, TypedFields
    <2>2. QED
      BY <1>1, <1>2, <2>1, OpensMeans DEF SelectionStep
  <1>4. CASE WritePatch(a)
    <2>1. step[a] = "writePatch" /\ typed' = [Applied(typed, work[a].what) EXCEPT !.epoch = IF work[a].clear THEN @ + 1 ELSE @]
      BY <1>4 DEF WritePatch, Patched
    <2>2. typed'.captcha = Set(typed.captcha, work[a].what.captcha)
      BY <1>0, <2>1 DEF Applied, SettingsShapes, TypedFields
    <2>3. dialect = "sqlite" => SelectsUsable(a)
      BY DEF SelectionInvariant
    <2>4. dialect = "sqlite" /\ typed'.captcha # typed.captcha => SelectionOpens'
      BY <1>1, <2>1, <2>2, <2>3, OpensMeans DEF Set, SelectsUsable
    <2>5. typed'.captcha = typed.captcha => (SelectionOpens <=> SelectionOpens')
      BY <1>1, OpensMeans
    <2>6. QED
      BY <1>2, <2>4, <2>5 DEF SelectionStep
  <1>5. QED
    BY <1>3, <1>4

LEMMA SelectionRemoves ==
  ASSUME SettingsInvariant, SelectionInvariant, NEW a \in Admins, WriteDelete(a)
  PROVE  SelectionInvariant' /\ SelectionStep
  <1>0. SettingsShapes /\ RowsKept(providers)
    BY DEF SettingsInvariant, SelectionInvariant
  <1>1. step[a] = "writeDelete"
    BY DEF WriteDelete
  <1>2. InTransaction(a)
    BY <1>1 DEF InTransaction
  <1>3. CASE End(a) /\ Still
    <2>1. UNCHANGED <<dialect, typed, providers>>
      BY <1>3 DEF Still
    <2>2. QED
      BY <1>0, <1>2, <1>3, <2>1, SelectionGo, SelectionUntouched DEF End
  <1>4. CASE /\ providers' = [providers EXCEPT ![work[a].key] = NoProvider]
             /\ typed' = [typed EXCEPT !.captcha = IF work[a].clear THEN Blank ELSE @]
             /\ Committed(a) /\ dialect' = dialect
    <2> PICK key : key = work[a].key
      OBVIOUS
    <2>1. \A k \in ProviderKeys : providers'[k] = IF k = key THEN NoProvider ELSE providers[k]
      BY <1>0, <1>4 DEF RowsKept
    <2>2. RowFields \subseteq DOMAIN NoProvider /\ NoProvider.kind = "none"
      BY DEF NoProvider, RowFields
    <2>3. DOMAIN providers' = ProviderKeys
      BY <1>0, <1>4 DEF RowsKept
    <2>4. RowsKept(providers')
      BY <1>0, <2>1, <2>2, <2>3 DEF RowsKept
    <2>5. SelectionInvariant'
      BY <1>0, <1>2, <1>4, <2>4, SelectionEnds DEF Committed
    <2>6. typed'.captcha = IF work[a].clear THEN Blank ELSE typed.captcha
      BY <1>0, <1>4 DEF SettingsShapes, TypedFields
    <2>7. dialect = "sqlite" => work[a].clear \/ typed.captcha # key \/ providers[key].kind # "captcha"
      BY <1>1 DEF SelectionInvariant, DeletesUnselected
    <2>8. CASE work[a].clear
      <3>1. SelectionOpens'
        BY <2>6, <2>8, OpensMeans
      <3>2. QED
        BY <2>5, <3>1 DEF SelectionStep
    <2>9. CASE ~work[a].clear
      <3>1. typed'.captcha = typed.captcha
        BY <2>6, <2>9
      <3>2. dialect = "sqlite" /\ Usable(providers, typed.captcha) => Usable(providers', typed.captcha)
        BY <2>1, <2>7, <2>9 DEF Usable
      <3>3. QED
        BY <2>5, <3>1, <3>2, OpensMeans DEF SelectionStep
    <2>10. QED
      BY <2>5, <2>8, <2>9
  <1>5. QED
    BY <1>3, <1>4 DEF WriteDelete

(* Upserts and the migration of secrets. *)
LEMMA SelectionUpserts ==
  ASSUME SettingsInvariant, SelectionInvariant, NEW a \in Admins, NEW s \in Submissions, BeginUpsert(a, s)
  PROVE  SelectionInvariant' /\ SelectionStep
  <1> PICK row : row = Replacement(s.key, s.kind, s.enabled, s.config, providers[s.key])
    OBVIOUS
  <1> DEFINE w == [NoWork EXCEPT !.old = row, !.key = s.key]
  <1>0. SettingsShapes /\ UNCHANGED <<dialect, typed, providers>>
    BY DEF SettingsInvariant, BeginUpsert, Still
  <1>1. row # Refused /\ Go(a, "writeProvider", w)
    BY DEF BeginUpsert
  <1>2. w.key = s.key /\ w.old = row
    BY DEF NoWork
  <1>3. s.kind \in {"captcha", "oauth", "oidc", "spam", "notification"} /\ s.key \in ProviderKeys
    BY SettingsConstants DEF ProviderKeys
  <1>4. RowFits(s.key, row)
    BY <1>1, <1>3, ReplacementFits
  <1> HIDE DEF w
  <1>5. QED
    BY <1>0, <1>1, <1>2, <1>3, <1>4, SelectionGo, SelectionUntouched

LEMMA SelectionReplaced ==
  ASSUME SettingsInvariant, SelectionInvariant, NEW a \in Admins, WriteProvider(a)
  PROVE  SelectionInvariant' /\ SelectionStep
  <1> PICK key : key = work[a].key
    OBVIOUS
  <1> PICK row : row = work[a].old
    OBVIOUS
  <1>0. SettingsShapes /\ RowsKept(providers)
    BY DEF SettingsInvariant, SelectionInvariant
  <1>1. /\ step[a] = "writeProvider" /\ Alone(a) /\ providers' = [providers EXCEPT ![key] = row]
        /\ Go(a, "idle", NoWork) /\ dialect' = dialect /\ typed' = typed
    BY DEF WriteProvider, End
  <1>2. key \in ProviderKeys /\ RowFits(key, row)
    BY <1>1 DEF SelectionInvariant
  <1>3. DOMAIN providers' = ProviderKeys /\ \A k \in ProviderKeys : providers'[k] = IF k = key THEN row ELSE providers[k]
    BY <1>0, <1>1 DEF RowsKept
  <1>4. RowsKept(providers')
    BY <1>0, <1>2, <1>3 DEF RowsKept, RowFits
  <1>5. SelectionInvariant'
    BY <1>0, <1>1, <1>4, SelectionEnds
  <1>6. ASSUME Usable(providers, typed.captcha)
        PROVE  Usable(providers', typed.captcha) \/ LoginTakes(typed.captcha)
    <2>1. typed.captcha \in ProviderKeys /\ ~ReservedKey(typed.captcha)
      BY <1>0, <1>6 DEF Usable, RowsKept
    <2>2. CASE typed.captcha # key
      BY <1>3, <1>6, <2>2 DEF Usable
    <2>3. CASE typed.captcha = key
      <3>1. providers'[typed.captcha] = row
        BY <1>2, <1>3, <2>3
      <3>2. row.kind \in {"oauth", "oidc"} \/ (row.kind = "captcha" /\ Opens(row))
        BY <1>2, <2>1, <2>3 DEF RowFits
      <3>3. QED
        BY <2>1, <3>1, <3>2 DEF Usable, LoginTakes
    <2>4. QED
      BY <2>2, <2>3
  <1>7. QED
    BY <1>1, <1>5, <1>6, OpensMeans DEF SelectionStep

LEMMA SelectionMigrates ==
  ASSUME SettingsInvariant, SelectionInvariant, NEW a \in Admins, MigrateSecrets(a)
  PROVE  SelectionInvariant' /\ SelectionStep
  <1>0. SettingsShapes /\ RowsKept(providers)
    BY DEF SettingsInvariant, SelectionInvariant
  <1>1. /\ step[a] = "idle" /\ Alone(a) /\ providers' = [k \in ProviderKeys |-> Converted(providers[k])]
        /\ UNCHANGED <<dialect, typed, step, work>>
    BY DEF MigrateSecrets
  <1>2. ASSUME NEW k \in ProviderKeys
        PROVE  /\ RowFields \subseteq DOMAIN providers'[k] /\ providers'[k].kind = providers[k].kind
               /\ Opens(providers[k]) => providers'[k] = providers[k]
    <2>1. providers'[k] = Converted(providers[k]) /\ RowFields \subseteq DOMAIN providers[k]
      BY <1>0, <1>1 DEF RowsKept
    <2>2. Envelope # LegacyEnvelope
      BY DEF Envelope, LegacyEnvelope
    <2>3. QED
      BY <2>1, <2>2 DEF Converted, RowFields, Opens
  <1>3. RowsKept(providers')
    BY <1>0, <1>1, <1>2 DEF RowsKept
  <1>4. dialect = "sqlite" => \A b \in Admins : ~InTransaction(b)'
    BY <1>1 DEF Alone, InTransaction
  <1>5. SelectionInvariant'
    BY <1>1, <1>3, <1>4, SelectionWritten
  <1>6. \A k : Usable(providers, k) => Usable(providers', k)
    BY <1>2 DEF Usable
  <1>7. QED
    BY <1>1, <1>5, <1>6, OpensMeans DEF SelectionStep

LEMMA SelectionStays ==
  ASSUME SettingsInvariant, SelectionInvariant, LoadSnapshot \/ StoreSnapshot \/ RestartSettings \/ UNCHANGED settingsVars
  PROVE  SelectionInvariant' /\ SelectionStep
  <1>1. UNCHANGED <<dialect, typed, providers>>
    BY DEF LoadSnapshot, StoreSnapshot, RestartSettings, settingsVars
  <1>2. CASE UNCHANGED <<step, work>>
    <2>1. \A b \in Admins : (InTransaction(b)' => InTransaction(b))
      BY <1>2 DEF InTransaction
    <2>2. \A b \in Admins : (SelectsUsable(b) => SelectsUsable(b)')
      BY <1>1, <1>2 DEF SelectsUsable
    <2>3. \A b \in Admins : (DeletesUnselected(b) => DeletesUnselected(b)')
      BY <1>1, <1>2 DEF DeletesUnselected
    <2>4. QED
      <3>1. RowsKept(providers)' <=> RowsKept(providers)
        BY <1>1 DEF RowsKept
      <3>2. \A b \in Admins : step'[b] = step[b] /\ work'[b] = work[b]
        BY <1>2
      <3>3. SelectionInvariant'
        BY <1>1, <2>1, <2>2, <2>3, <3>1, <3>2 DEF SelectionInvariant
      <3>4. QED
        BY <1>1, <3>3, SelectionUntouched
  <1>3. CASE RestartSettings
    <2>1. \A b \in Admins : step'[b] = "idle"
      BY <1>3 DEF RestartSettings
    <2>2. RowsKept(providers') /\ \A b \in Admins : ~InTransaction(b)'
      BY <1>1, <2>1 DEF SelectionInvariant, InTransaction
    <2>3. QED
      BY <1>1, <2>1, <2>2, SelectionWritten, SelectionUntouched
  <1>4. QED
    BY <1>2, <1>3 DEF LoadSnapshot, StoreSnapshot, settingsVars

LEMMA SelectionSteps ==
  SettingsInvariant /\ SelectionInvariant /\ [SettingsNext]_settingsVars => SelectionInvariant' /\ SelectionStep
  <1> SUFFICES ASSUME SettingsInvariant, SelectionInvariant, [SettingsNext]_settingsVars
               PROVE  SelectionInvariant' /\ SelectionStep
    OBVIOUS
  <1> DEFINE G == SelectionInvariant' /\ SelectionStep
  <1>1. ASSUME NEW a \in Admins, NEW p, BeginPatch(a, p) \/ CheckSelection(a) \/ LockMode(a)
        PROVE  G
    BY <1>1, SelectionPatches
  <1>2. ASSUME NEW a \in Admins, BeginReset(a) \/ LockConsent(a) \/ Cancel(a) \/ Invalidate(a)
        PROVE  G
    BY <1>2, SelectionResets
  <1>3. ASSUME NEW a \in Admins, NEW k, BeginDelete(a, k) \/ ReadSelection(a)
        PROVE  G
    BY <1>3, SelectionDeletes
  <1>4. ASSUME NEW a \in Admins, WritePatch(a) \/ WriteConsent(a)
        PROVE  G
    BY <1>4, SelectionCommits
  <1>5. ASSUME NEW a \in Admins, WriteDelete(a)
        PROVE  G
    BY <1>5, SelectionRemoves
  <1>6. ASSUME NEW a \in Admins, NEW s \in Submissions, BeginUpsert(a, s)
        PROVE  G
    BY <1>6, SelectionUpserts
  <1>7. ASSUME NEW a \in Admins, WriteProvider(a)
        PROVE  G
    BY <1>7, SelectionReplaced
  <1>8. ASSUME NEW a \in Admins, MigrateSecrets(a)
        PROVE  G
    BY <1>8, SelectionMigrates
  <1>9. ASSUME LoadSnapshot \/ StoreSnapshot \/ RestartSettings \/ UNCHANGED settingsVars
         PROVE  G
    BY <1>9, SelectionStays
  <1> HIDE DEF G
  <1>10. G
    <2>1. CASE UNCHANGED settingsVars
      BY <1>9, <2>1
    <2>2. CASE SettingsNext
      <3>1. \/ \E a \in Admins : \E p : BeginPatch(a, p) \/ CheckSelection(a) \/ LockMode(a)
            \/ \E a \in Admins : BeginReset(a) \/ LockConsent(a) \/ Cancel(a) \/ Invalidate(a)
            \/ \E a \in Admins : \E k : BeginDelete(a, k) \/ ReadSelection(a)
            \/ \E a \in Admins : WritePatch(a) \/ WriteConsent(a)
            \/ \E a \in Admins : WriteDelete(a)
            \/ \E a \in Admins : \E s \in Submissions : BeginUpsert(a, s)
            \/ \E a \in Admins : WriteProvider(a)
            \/ \E a \in Admins : MigrateSecrets(a)
            \/ LoadSnapshot \/ StoreSnapshot \/ RestartSettings
        BY <2>2, Zenon DEF SettingsNext
      <3>2. CASE \E a \in Admins : \E p : BeginPatch(a, p) \/ CheckSelection(a) \/ LockMode(a)
        BY <1>1, <3>2
      <3>3. CASE \E a \in Admins : BeginReset(a) \/ LockConsent(a) \/ Cancel(a) \/ Invalidate(a)
        BY <1>2, <3>3
      <3>4. CASE \E a \in Admins : \E k : BeginDelete(a, k) \/ ReadSelection(a)
        BY <1>3, <3>4
      <3>5. CASE \E a \in Admins : \E s \in Submissions : BeginUpsert(a, s)
        BY <1>6, <3>5
      <3>6. QED
        BY <1>4, <1>5, <1>7, <1>8, <1>9, <3>1, <3>2, <3>3, <3>4, <3>5, Zenon
    <2>3. QED
      BY <2>1, <2>2
  <1>11. QED
    BY <1>10 DEF G

(* On SQLite no deletion, update or migration makes the selected captcha provider   *)
(* useless, and only one that can be used is selected: a login provider put under    *)
(* its key apart (service/setting/provider.go Delete, ValidateSelection).             *)
THEOREM SelectionStaysUsable == SettingsSpec => SelectionUsable
  <1>1. SettingsInit => SelectionInvariant
    BY SelectionStarts
  <1>2. SettingsInvariant /\ SelectionInvariant /\ [SettingsNext]_settingsVars => SelectionInvariant' /\ [SelectionStep]_settingsVars
    BY SelectionSteps
  <1>3. SettingsSpec => [][SelectionStep]_settingsVars
    BY <1>1, <1>2, SettingsInductive, PTL DEF SettingsSpec
  <1>4. QED
    BY <1>3 DEF SelectionUsable, SelectionStep

-----------------------------------------------------------------------------
(* Widget credentials. *)
Holding(x) == exchange[x].pc \in {"site", "policy", "principal", "sign"}
Matched(x) == exchange[x].pc \in {"principal", "sign"}
Judging(v) == visit[v].pc \in {"config", "principal", "origin", "serve", "served"}
ExchangeFields == {"pc", "code", "record", "policy"}
VisitFields == {"pc", "route", "site", "cred", "role", "origin", "mode", "began"}

WidgetShapes ==
  /\ widgetPolicy.epoch \in Nat
  /\ DOMAIN issue = Issues /\ DOMAIN authCode = Issues
  /\ DOMAIN exchange = Exchanges /\ DOMAIN visit = Visits
  /\ \A i \in Issues : "pc" \in DOMAIN issue[i] /\ "state" \in DOMAIN authCode[i]
  /\ \A x \in Exchanges : Holding(x) => ExchangeFields \subseteq DOMAIN exchange[x] /\ exchange[x].code \in Issues
  /\ \A v \in Visits : Judging(v) => VisitFields \subseteq DOMAIN visit[v] /\ visit[v].began \in Nat

(* A code is stored once, and once spent it stays spent: who holds it is alone. *)
CodesSpent ==
  /\ \A i \in Issues : issue[i].pc # "done" => authCode[i].state = "none"
  /\ \A x \in Exchanges : Holding(x) =>
       authCode[exchange[x].code].state = "gone" /\ \A c \in cookies : c.code # exchange[x].code
  /\ \A x, y \in Exchanges : Holding(x) /\ Holding(y) /\ exchange[x].code = exchange[y].code => x = y
  /\ \A c \in cookies : c.code \in Issues /\ authCode[c.code].state = "gone"
  /\ \A c, d \in cookies : c.code = d.code => c = d

(* Epochs only grow, so the present one stands for the present mode.            *)
Honest(epoch, mode) ==
  epoch \in Nat /\ epoch <= widgetPolicy.epoch /\ (epoch = widgetPolicy.epoch => mode = widgetPolicy.mode)
EpochsHonest ==
  /\ \A c \in cookies : Honest(c.epoch, c.mode)
  /\ \A x \in Exchanges : Matched(x) => Honest(exchange[x].policy.epoch, exchange[x].record.mode)

Checked(v) == visit[v].pc \in {"principal", "origin", "serve", "served"} /\ visit[v].cred # Unused
Placed(v) == visit[v].pc \in {"origin", "serve", "served"} /\ visit[v].cred # Unused
VisitsEarned ==
  \A v \in Visits :
    /\ Judging(v) => visit[v].began <= widgetPolicy.epoch
    /\ Checked(v) => visit[v].cred.epoch >= visit[v].began
    /\ Placed(v) => visit[v].site = visit[v].cred.site

WidgetInvariant == WidgetShapes /\ CodesSpent /\ EpochsHonest /\ VisitsEarned

LEMMA WidgetStarts == WidgetInit => WidgetInvariant
  <1> SUFFICES ASSUME WidgetInit PROVE WidgetInvariant
    OBVIOUS
  <1>1. widgetPolicy.epoch = 0
    BY DEF WidgetInit
  <1>2. WidgetShapes
    BY <1>1 DEF WidgetInit, WidgetShapes, Unused, NoCode, Holding, Judging
  <1>3. CodesSpent /\ EpochsHonest /\ VisitsEarned
    BY <1>1 DEF WidgetInit, CodesSpent, EpochsHonest, VisitsEarned, Unused, NoCode, Holding, Matched, Judging, Checked, Placed
  <1>4. QED
    BY <1>2, <1>3 DEF WidgetInvariant

(* ---- what changes under way ---- *)
LEMMA WidgetWorldChanges ==
  ASSUME WidgetInvariant, UNCHANGED <<authCode, issue, exchange, cookies, visit>>,
         \/ UNCHANGED widgetPolicy
         \/ widgetPolicy'.epoch = widgetPolicy.epoch + 1
  PROVE  WidgetInvariant'
  <1>1. widgetPolicy'.epoch \in Nat
    BY DEF WidgetInvariant, WidgetShapes
  <1>2. WidgetShapes'
    BY <1>1 DEF WidgetInvariant, WidgetShapes, Holding, Judging
  <1>3. CodesSpent'
    BY DEF WidgetInvariant, CodesSpent, Holding
  <1>4. EpochsHonest'
    BY DEF WidgetInvariant, WidgetShapes, EpochsHonest, Honest, Matched
  <1>5. VisitsEarned'
    BY DEF WidgetInvariant, WidgetShapes, VisitsEarned, Judging, Checked, Placed
  <1>6. QED
    BY <1>2, <1>3, <1>4, <1>5 DEF WidgetInvariant

(* ---- the popup ---- *)
LEMMA WidgetIssues ==
  ASSUME WidgetInvariant, NEW i \in Issues, UNCHANGED <<widgetPolicy, exchange, cookies, visit>>,
         NEW r, "pc" \in DOMAIN r, issue' = [issue EXCEPT ![i] = r],
         \/ UNCHANGED authCode /\ (issue[i].pc # "done" \/ r.pc = "done")
         \/ /\ issue[i].pc # "done" /\ r.pc = "done"
            /\ DOMAIN authCode' = Issues /\ \A j \in Issues \ {i} : authCode'[j] = authCode[j]
            /\ "state" \in DOMAIN authCode'[i]
  PROVE  WidgetInvariant'
  <1>1. /\ DOMAIN issue' = Issues /\ issue'[i] = r /\ \A j \in Issues \ {i} : issue'[j] = issue[j]
    BY DEF WidgetInvariant, WidgetShapes
  <1>2. /\ DOMAIN authCode' = Issues /\ \A j \in Issues \ {i} : authCode'[j] = authCode[j]
        /\ "state" \in DOMAIN authCode'[i]
    BY DEF WidgetInvariant, WidgetShapes
  <1>3. WidgetShapes'
    BY <1>1, <1>2 DEF WidgetInvariant, WidgetShapes, Holding, Judging
  <1>4. CASE UNCHANGED authCode
    <2>1. CodesSpent'
      BY <1>1, <1>4 DEF WidgetInvariant, CodesSpent, Holding
    <2>2. QED
      BY <1>3, <2>1 DEF WidgetInvariant, EpochsHonest, Honest, Matched, VisitsEarned, Judging, Checked, Placed
  <1>5. CASE issue[i].pc # "done" /\ r.pc = "done"
    <2>1. authCode[i].state = "none"
      BY <1>5 DEF WidgetInvariant, CodesSpent
    <2>2. /\ \A x \in Exchanges : Holding(x) => exchange[x].code \in Issues \ {i}
          /\ \A c \in cookies : c.code \in Issues \ {i}
      BY <2>1 DEF WidgetInvariant, WidgetShapes, CodesSpent
    <2>3. CodesSpent'
      BY <1>1, <1>2, <1>5, <2>2 DEF WidgetInvariant, CodesSpent, Holding
    <2>4. QED
      BY <1>3, <2>3 DEF WidgetInvariant, EpochsHonest, Honest, Matched, VisitsEarned, Judging, Checked, Placed
  <1>6. QED
    BY <1>4, <1>5

LEMMA WidgetIssueStep ==
  ASSUME WidgetInvariant, NEW i \in Issues, NEW u, NEW s, NEW o,
         BeginIssue(i, u, s, o) \/ RequireUser(i) \/ ReadIssuePolicy(i) \/ CheckIssueSite(i) \/ StoreCode(i)
  PROVE  WidgetInvariant'
  <1>1. UNCHANGED <<widgetPolicy, exchange, cookies, visit>> /\ issue[i].pc # "done" /\ "pc" \in DOMAIN issue[i]
    BY DEF BeginIssue, RequireUser, ReadIssuePolicy, CheckIssueSite, StoreCode, OnlyIssue, GoIssue, WidgetInvariant, WidgetShapes
  <1>2. CASE \E r : issue' = [issue EXCEPT ![i] = r] /\ "pc" \in DOMAIN r /\ UNCHANGED authCode
    BY <1>1, <1>2, WidgetIssues
  <1>3. CASE \E c, how : /\ issue' = [issue EXCEPT ![i] = Closed(how)]
                         /\ authCode' = [authCode EXCEPT ![i] = c] /\ "state" \in DOMAIN c
    <2>1. PICK c, how : /\ issue' = [issue EXCEPT ![i] = Closed(how)]
                        /\ authCode' = [authCode EXCEPT ![i] = c] /\ "state" \in DOMAIN c
      BY <1>3
    <2>2. "pc" \in DOMAIN Closed(how) /\ Closed(how).pc = "done"
      BY DEF Closed
    <2>3. /\ DOMAIN authCode' = Issues /\ \A j \in Issues \ {i} : authCode'[j] = authCode[j]
          /\ "state" \in DOMAIN authCode'[i]
      BY <2>1 DEF WidgetInvariant, WidgetShapes
    <2>4. QED
      BY <1>1, <2>1, <2>2, <2>3, WidgetIssues
  <1>4. ASSUME BeginIssue(i, u, s, o)
        PROVE  \E r : issue' = [issue EXCEPT ![i] = r] /\ "pc" \in DOMAIN r /\ UNCHANGED authCode
    <2> DEFINE open == [pc |-> "gate", user |-> u, role |-> account[u].role, site |-> s, origin |-> o, mode |-> ""]
    <2>1. /\ issue' = [issue EXCEPT ![i] = Closed("forbidden")] \/ issue' = [issue EXCEPT ![i] = open]
          /\ UNCHANGED authCode
      BY <1>4 DEF BeginIssue, GoIssue
    <2>2. "pc" \in DOMAIN Closed("forbidden") /\ "pc" \in DOMAIN open
      BY DEF Closed
    <2> HIDE DEF open
    <2>3. QED
      BY <2>1, <2>2
  <1>5. ASSUME RequireUser(i) \/ ReadIssuePolicy(i) \/ CheckIssueSite(i)
        PROVE  \E r : issue' = [issue EXCEPT ![i] = r] /\ "pc" \in DOMAIN r /\ UNCHANGED authCode
    BY <1>1, <1>5 DEF RequireUser, ReadIssuePolicy, CheckIssueSite, GoIssue, Closed
  <1>6. ASSUME StoreCode(i)
        PROVE  \/ \E r : issue' = [issue EXCEPT ![i] = r] /\ "pc" \in DOMAIN r /\ UNCHANGED authCode
               \/ \E c, how : /\ issue' = [issue EXCEPT ![i] = Closed(how)]
                              /\ authCode' = [authCode EXCEPT ![i] = c] /\ "state" \in DOMAIN c
    <2> DEFINE stored == [state |-> "good", user |-> issue[i].user, site |-> issue[i].site,
                          origin |-> issue[i].origin, mode |-> issue[i].mode]
    <2>1. \/ issue' = [issue EXCEPT ![i] = Closed("unavailable")] /\ UNCHANGED authCode
          \/ issue' = [issue EXCEPT ![i] = Closed("created")] /\ authCode' = [authCode EXCEPT ![i] = stored]
      BY <1>6 DEF StoreCode, GoIssue
    <2>2. "state" \in DOMAIN stored /\ "pc" \in DOMAIN Closed("unavailable")
      BY DEF Closed
    <2> HIDE DEF stored
    <2>3. QED
      BY <2>1, <2>2
  <1>7. QED
    BY <1>2, <1>3, <1>4, <1>5, <1>6

(* ---- codes age, and are spent ---- *)
LEMMA WidgetCodeEnds ==
  ASSUME WidgetInvariant, NEW i \in Issues, NEW w, UNCHANGED <<widgetPolicy, issue, cookies, visit, exchange>>,
         authCode' = [authCode EXCEPT ![i].state = w], authCode[i].state \in {"good", "late"}
  PROVE  WidgetInvariant'
  <1>1. /\ DOMAIN authCode' = Issues /\ \A j \in Issues \ {i} : authCode'[j] = authCode[j]
        /\ "state" \in DOMAIN authCode'[i]
    BY DEF WidgetInvariant, WidgetShapes
  <1>2. WidgetShapes'
    BY <1>1 DEF WidgetInvariant, WidgetShapes, Holding, Judging
  <1>3. /\ issue[i].pc = "done"
        /\ \A x \in Exchanges : Holding(x) => exchange[x].code \in Issues \ {i}
        /\ \A c \in cookies : c.code \in Issues \ {i}
    BY DEF WidgetInvariant, WidgetShapes, CodesSpent
  <1>4. CodesSpent'
    BY <1>1, <1>3 DEF WidgetInvariant, CodesSpent, Holding
  <1>5. QED
    BY <1>2, <1>4 DEF WidgetInvariant, EpochsHonest, Honest, Matched, VisitsEarned, Judging, Checked, Placed

LEMMA WidgetAges ==
  ASSUME WidgetInvariant, NEW i \in Issues, CodeAges(i)
  PROVE  WidgetInvariant'
  <1>1. /\ authCode' = [authCode EXCEPT ![i].state = IF authCode[i].state = "good" THEN "late" ELSE "gone"]
        /\ authCode[i].state \in {"good", "late"}
        /\ UNCHANGED <<widgetPolicy, issue, cookies, visit, exchange>>
    BY DEF CodeAges, OnlyIssue
  <1>2. QED
    BY <1>1, WidgetCodeEnds

LEMMA WidgetConsumes ==
  ASSUME WidgetInvariant, NEW x \in Exchanges, NEW i \in Issues, NEW o, ConsumeCode(x, i, o)
  PROVE  WidgetInvariant'
  <1> DEFINE took == authCode[i].state = "good" /\ authCode[i].origin = o
             rec == [pc |-> "site", code |-> i, record |-> authCode[i], policy |-> widgetPolicy]
  <1>1. /\ exchange' = [exchange EXCEPT ![x] = IF took THEN rec ELSE NotExchanged]
        /\ authCode' = [authCode EXCEPT ![i].state = IF i \in Held THEN "gone" ELSE @]
        /\ UNCHANGED <<widgetPolicy, issue, cookies, visit>> /\ exchange[x].pc = "new"
    BY DEF ConsumeCode, GoExchange, OnlyExchange
  <1>2. /\ DOMAIN exchange' = Exchanges /\ \A y \in Exchanges \ {x} : exchange'[y] = exchange[y]
        /\ exchange'[x] = IF took THEN rec ELSE NotExchanged
    BY <1>1 DEF WidgetInvariant, WidgetShapes
  <1>3. /\ NotExchanged.pc = "done"
        /\ rec.pc = "site" /\ rec.code = i /\ ExchangeFields \subseteq DOMAIN rec
    BY DEF NotExchanged, Closed, ExchangeFields
  <1> HIDE DEF rec
  <1>4. /\ DOMAIN authCode' = Issues /\ \A j \in Issues \ {i} : authCode'[j] = authCode[j]
        /\ "state" \in DOMAIN authCode'[i]
        /\ authCode'[i].state = IF i \in Held THEN "gone" ELSE authCode[i].state
        /\ took => i \in Held
    BY <1>1 DEF WidgetInvariant, WidgetShapes, Held
  <1>5. WidgetShapes'
    BY <1>1, <1>2, <1>3, <1>4 DEF WidgetInvariant, WidgetShapes, Holding, Judging
  <1>6. i \in Held =>
          /\ issue[i].pc = "done"
          /\ \A y \in Exchanges : Holding(y) => exchange[y].code # i
          /\ \A c \in cookies : c.code # i
    BY DEF WidgetInvariant, WidgetShapes, CodesSpent, Held
  <1>7. CodesSpent'
    <2>1. \A j \in Issues : issue'[j].pc # "done" => authCode'[j].state = "none"
      BY <1>1, <1>4, <1>6 DEF WidgetInvariant, CodesSpent
    <2>2. \A c \in cookies' : c.code \in Issues /\ authCode'[c.code].state = "gone"
      BY <1>1, <1>4, <1>6 DEF WidgetInvariant, CodesSpent
    <2>3. ASSUME NEW y \in Exchanges, Holding(y)'
          PROVE  authCode'[exchange'[y].code].state = "gone" /\ \A c \in cookies' : c.code # exchange'[y].code
      <3>1. CASE y = x
        BY <1>1, <1>2, <1>3, <1>4, <1>6, <2>3, <3>1 DEF Holding
      <3>2. CASE y # x
        <4>1. exchange'[y] = exchange[y] /\ Holding(y) /\ exchange[y].code \in Issues
          BY <1>2, <2>3, <3>2 DEF Holding, WidgetInvariant, WidgetShapes
        <4>2. QED
          BY <1>1, <1>4, <1>6, <4>1 DEF WidgetInvariant, CodesSpent
      <3>3. QED
        BY <3>1, <3>2
    <2>4. \A y, z \in Exchanges : Holding(y)' /\ Holding(z)' /\ exchange'[y].code = exchange'[z].code => y = z
      BY <1>2, <1>3, <1>4, <1>6 DEF WidgetInvariant, CodesSpent, Holding
    <2>5. QED
      BY <1>1, <2>1, <2>2, <2>3, <2>4 DEF WidgetInvariant, CodesSpent
  <1>8. EpochsHonest'
    BY <1>1, <1>2, <1>3 DEF WidgetInvariant, EpochsHonest, Honest, Matched
  <1>9. VisitsEarned'
    BY <1>1 DEF WidgetInvariant, VisitsEarned, Judging, Checked, Placed
  <1>10. QED
    BY <1>5, <1>7, <1>8, <1>9 DEF WidgetInvariant

(* An exchange that goes on keeps its code, and its record and policy unless it  *)
(* has just read a policy that matches.                                          *)
LEMMA WidgetExchanges ==
  ASSUME WidgetInvariant, NEW x \in Exchanges, NEW r, Holding(x),
         UNCHANGED <<widgetPolicy, issue, cookies, visit, authCode>>,
         exchange' = [exchange EXCEPT ![x] = r], "pc" \in DOMAIN r,
         r.pc \in {"site", "policy", "principal", "sign"} => ExchangeFields \subseteq DOMAIN r /\ r.code = exchange[x].code,
         r.pc \in {"principal", "sign"} => Honest(r.policy.epoch, r.record.mode)
  PROVE  WidgetInvariant'
  <1>1. DOMAIN exchange' = Exchanges /\ exchange'[x] = r /\ \A y \in Exchanges \ {x} : exchange'[y] = exchange[y]
    BY DEF WidgetInvariant, WidgetShapes
  <1>2. \A y \in Exchanges : Holding(y)' => Holding(y) /\ exchange'[y].code = exchange[y].code
    BY <1>1 DEF Holding
  <1>3. WidgetShapes'
    BY <1>1, <1>2 DEF WidgetInvariant, WidgetShapes, Holding, Judging
  <1>4. CodesSpent'
    BY <1>2 DEF WidgetInvariant, CodesSpent
  <1>5. EpochsHonest'
    BY <1>1 DEF WidgetInvariant, EpochsHonest, Honest, Matched
  <1>6. VisitsEarned'
    BY DEF WidgetInvariant, VisitsEarned, Judging, Checked, Placed
  <1>7. QED
    BY <1>3, <1>4, <1>5, <1>6 DEF WidgetInvariant

LEMMA WidgetExchangeStep ==
  ASSUME WidgetInvariant, NEW x \in Exchanges, CheckExchangeSite(x) \/ ReadExchangePolicy(x) \/ ResolveAuthorizer(x)
  PROVE  WidgetInvariant'
  <1>1. /\ UNCHANGED <<widgetPolicy, issue, cookies, visit, authCode>> /\ Holding(x)
        /\ ExchangeFields \subseteq DOMAIN exchange[x]
    BY DEF CheckExchangeSite, ReadExchangePolicy, ResolveAuthorizer, GoExchange, OnlyExchange, Holding,
           WidgetInvariant, WidgetShapes
  <1>2. NotExchanged.pc = "done" /\ "pc" \in DOMAIN NotExchanged
    BY DEF NotExchanged, Closed
  <1>3. CASE exchange' = [exchange EXCEPT ![x] = NotExchanged]
    BY <1>1, <1>2, <1>3, WidgetExchanges
  <1>4. CASE exchange[x].pc = "site" /\ exchange' = [exchange EXCEPT ![x] = [exchange[x] EXCEPT !.pc = "policy"]]
    <2> DEFINE r == [exchange[x] EXCEPT !.pc = "policy"]
    <2>1. r.pc = "policy" /\ ExchangeFields \subseteq DOMAIN r /\ "pc" \in DOMAIN r /\ r.code = exchange[x].code
      BY <1>1 DEF ExchangeFields
    <2>2. exchange' = [exchange EXCEPT ![x] = r]
      BY <1>4
    <2> HIDE DEF r
    <2>3. QED
      BY <1>1, <2>1, <2>2, WidgetExchanges
  <1>5. CASE /\ exchange[x].record.mode = widgetPolicy.mode
             /\ exchange' = [exchange EXCEPT ![x] = [exchange[x] EXCEPT !.pc = "principal", !.policy = widgetPolicy]]
    <2> DEFINE r == [exchange[x] EXCEPT !.pc = "principal", !.policy = widgetPolicy]
    <2>1. /\ r.pc = "principal" /\ ExchangeFields \subseteq DOMAIN r /\ "pc" \in DOMAIN r /\ r.code = exchange[x].code
          /\ r.policy = widgetPolicy /\ r.record = exchange[x].record
      BY <1>1 DEF ExchangeFields
    <2>2. exchange' = [exchange EXCEPT ![x] = r]
      BY <1>5
    <2> HIDE DEF r
    <2>3. Honest(r.policy.epoch, r.record.mode)
      BY <1>5, <2>1 DEF Honest, WidgetInvariant, WidgetShapes
    <2>4. QED
      BY <1>1, <2>1, <2>2, <2>3, WidgetExchanges
  <1>6. CASE exchange[x].pc = "principal" /\ exchange' = [exchange EXCEPT ![x] = [exchange[x] EXCEPT !.pc = "sign"]]
    <2> DEFINE r == [exchange[x] EXCEPT !.pc = "sign"]
    <2>1. /\ r.pc = "sign" /\ ExchangeFields \subseteq DOMAIN r /\ "pc" \in DOMAIN r /\ r.code = exchange[x].code
          /\ r.policy = exchange[x].policy /\ r.record = exchange[x].record
      BY <1>1 DEF ExchangeFields
    <2>2. exchange' = [exchange EXCEPT ![x] = r]
      BY <1>6
    <2> HIDE DEF r
    <2>3. Honest(r.policy.epoch, r.record.mode)
      BY <1>6, <2>1 DEF WidgetInvariant, EpochsHonest, Matched
    <2>4. QED
      BY <1>1, <2>1, <2>2, <2>3, WidgetExchanges
  <1>7. QED
    BY <1>3, <1>4, <1>5, <1>6 DEF CheckExchangeSite, ReadExchangePolicy, ResolveAuthorizer, GoExchange

LEMMA WidgetSigns ==
  ASSUME WidgetInvariant, NEW x \in Exchanges, SignWidget(x)
  PROVE  WidgetInvariant'
  <1> DEFINE cookie == [by |-> x, code |-> exchange[x].code, user |-> exchange[x].record.user,
                        site |-> exchange[x].record.site, mode |-> exchange[x].record.mode, epoch |-> SignedEpoch(x)]
  <1>1. /\ UNCHANGED <<widgetPolicy, issue, visit, authCode>> /\ exchange[x].pc = "sign"
        /\ exchange' = [exchange EXCEPT ![x] = Closed("signed")]
        /\ cookies' = cookies \cup {cookie}
    BY DEF SignWidget, GoExchange, OnlyExchange
  <1>2. /\ DOMAIN exchange' = Exchanges /\ exchange'[x].pc = "done" /\ "pc" \in DOMAIN exchange'[x]
        /\ \A y \in Exchanges \ {x} : exchange'[y] = exchange[y]
    BY <1>1 DEF WidgetInvariant, WidgetShapes, Closed
  <1>3. cookie.code = exchange[x].code /\ cookie.mode = exchange[x].record.mode /\ cookie.epoch = exchange[x].policy.epoch
    BY DEF SignedEpoch
  <1> HIDE DEF cookie
  <1>4. /\ Holding(x) /\ Matched(x) /\ exchange[x].code \in Issues /\ authCode[exchange[x].code].state = "gone"
        /\ \A c \in cookies : c.code # cookie.code
        /\ \A y \in Exchanges \ {x} : Holding(y) => exchange[y].code # cookie.code
    BY <1>1, <1>3 DEF Holding, Matched, WidgetInvariant, WidgetShapes, CodesSpent
  <1>5. WidgetShapes'
    BY <1>1, <1>2 DEF WidgetInvariant, WidgetShapes, Holding, Judging
  <1>6. \A y \in Exchanges : Holding(y)' => y # x /\ Holding(y) /\ exchange'[y] = exchange[y]
    BY <1>2 DEF Holding
  <1>7. CodesSpent'
    BY <1>1, <1>3, <1>4, <1>6 DEF WidgetInvariant, CodesSpent
  <1>8. EpochsHonest'
    <2>1. Honest(cookie.epoch, cookie.mode)
      BY <1>3, <1>4 DEF WidgetInvariant, EpochsHonest
    <2>2. \A y \in Exchanges : Matched(y)' => Matched(y) /\ exchange'[y] = exchange[y]
      BY <1>2 DEF Matched
    <2>3. QED
      BY <1>1, <2>1, <2>2 DEF WidgetInvariant, EpochsHonest, Honest
  <1>9. VisitsEarned'
    BY <1>1 DEF WidgetInvariant, VisitsEarned, Judging, Checked, Placed
  <1>10. QED
    BY <1>5, <1>7, <1>8, <1>9 DEF WidgetInvariant

(* ---- requests with the credential ---- *)
LEMMA WidgetVisits ==
  ASSUME WidgetInvariant, NEW v \in Visits, NEW r,
         UNCHANGED <<widgetPolicy, authCode, issue, exchange, cookies>>,
         visit' = [visit EXCEPT ![v] = r],
         r.pc \in {"config", "principal", "origin", "serve", "served"} =>
           VisitFields \subseteq DOMAIN r /\ r.began \in Nat /\ r.began <= widgetPolicy.epoch,
         r.pc \in {"principal", "origin", "serve", "served"} /\ r.cred # Unused => r.cred.epoch >= r.began,
         r.pc \in {"origin", "serve", "served"} /\ r.cred # Unused => r.site = r.cred.site
  PROVE  WidgetInvariant'
  <1>1. DOMAIN visit' = Visits /\ visit'[v] = r /\ \A w \in Visits \ {v} : visit'[w] = visit[w]
    BY DEF WidgetInvariant, WidgetShapes
  <1>2. WidgetShapes'
    BY <1>1 DEF WidgetInvariant, WidgetShapes, Holding, Judging
  <1>3. CodesSpent' /\ EpochsHonest'
    BY DEF WidgetInvariant, CodesSpent, EpochsHonest, Honest, Holding, Matched
  <1>4. VisitsEarned'
    <2>1. ASSUME NEW w \in Visits
          PROVE  /\ Judging(w)' => visit'[w].began <= widgetPolicy'.epoch
                 /\ Checked(w)' => visit'[w].cred.epoch >= visit'[w].began
                 /\ Placed(w)' => visit'[w].site = visit'[w].cred.site
      <3>1. CASE w = v
        BY <1>1, <3>1 DEF Judging, Checked, Placed
      <3>2. CASE w # v
        BY <1>1, <3>2 DEF WidgetInvariant, VisitsEarned, Judging, Checked, Placed
      <3>3. QED
        BY <3>1, <3>2
    <2>2. QED
      BY <2>1 DEF VisitsEarned
  <1>5. QED
    BY <1>2, <1>3, <1>4 DEF WidgetInvariant

LEMMA WidgetVisitBegins ==
  ASSUME WidgetInvariant, NEW v \in Visits, NEW t, NEW s, NEW c, NEW o, BeginVisit(v, t, s, c, o)
  PROVE  WidgetInvariant'
  <1> DEFINE r == [pc |-> IF c = Unused THEN "origin" ELSE "config", route |-> t, site |-> s, cred |-> c, role |-> "none",
                   origin |-> o, mode |-> "", began |-> widgetPolicy.epoch]
  <1>1. /\ UNCHANGED <<widgetPolicy, authCode, issue, exchange, cookies>>
        /\ visit' = [visit EXCEPT ![v] = Closed("unauthorized")] \/ visit' = [visit EXCEPT ![v] = r]
    BY DEF BeginVisit, OnlyVisit
  <1>2. Closed("unauthorized").pc = "done"
    BY DEF Closed
  <1>3. /\ VisitFields \subseteq DOMAIN r /\ r.began = widgetPolicy.epoch /\ widgetPolicy.epoch \in Nat
        /\ r.pc \in {"origin", "config"} /\ r.cred = c /\ (r.pc = "origin" => c = Unused)
    BY DEF VisitFields, WidgetInvariant, WidgetShapes
  <1> HIDE DEF r
  <1>4. CASE visit' = [visit EXCEPT ![v] = Closed("unauthorized")]
    BY <1>1, <1>2, <1>4, WidgetVisits
  <1>5. CASE visit' = [visit EXCEPT ![v] = r]
    <2>1. r.began \in Nat /\ r.began <= widgetPolicy.epoch
      BY <1>3
    <2>2. ~(r.pc \in {"principal", "origin", "serve", "served"} /\ r.cred # Unused)
      BY <1>3
    <2>3. ~(r.pc \in {"origin", "serve", "served"} /\ r.cred # Unused)
      BY <1>3
    <2>4. QED
      BY <1>1, <1>3, <1>5, <2>1, <2>2, <2>3, WidgetVisits
  <1>6. QED
    BY <1>1, <1>4, <1>5

LEMMA WidgetVisitStep ==
  ASSUME WidgetInvariant, NEW v \in Visits,
         ReadWidgetConfig(v) \/ ResolveVisitor(v) \/ RequireAllowedOrigin(v) \/ Serve(v)
  PROVE  WidgetInvariant'
  <1>1. /\ UNCHANGED <<widgetPolicy, authCode, issue, exchange, cookies>> /\ Judging(v)
        /\ VisitFields \subseteq DOMAIN visit[v] /\ visit[v].began \in Nat
        /\ visit[v].began <= widgetPolicy.epoch /\ widgetPolicy.epoch \in Nat
    BY DEF ReadWidgetConfig, ResolveVisitor, RequireAllowedOrigin, Serve, GoVisit, OnlyVisit, Judging,
           WidgetInvariant, WidgetShapes, VisitsEarned
  <1>2. ASSUME NEW how, visit' = [visit EXCEPT ![v] = Closed(how)]
        PROVE  WidgetInvariant'
    <2>1. Closed(how).pc = "done"
      BY DEF Closed
    <2>2. QED
      BY <1>1, <1>2, <2>1, WidgetVisits
  <1>3. CASE visit' = [visit EXCEPT ![v] = Anonymous(v)]
    <2>1. /\ VisitFields \subseteq DOMAIN Anonymous(v) /\ Anonymous(v).cred = Unused
          /\ Anonymous(v).began = visit[v].began
      BY <1>1 DEF Anonymous, VisitFields
    <2>2. QED
      BY <1>1, <1>3, <2>1, WidgetVisits
  <1>4. CASE ReadWidgetConfig(v) /\ visit' = [visit EXCEPT ![v] = [visit[v] EXCEPT !.pc = "principal", !.mode = widgetPolicy.mode]]
    <2> DEFINE r == [visit[v] EXCEPT !.pc = "principal", !.mode = widgetPolicy.mode]
    <2>1. /\ VisitFields \subseteq DOMAIN r /\ r.pc = "principal" /\ r.began = visit[v].began /\ r.cred = visit[v].cred
      BY <1>1 DEF VisitFields
    <2> HIDE DEF r
    <2>2. visit' = [visit EXCEPT ![v] = r]
      BY <1>4 DEF r
    <2>3. CASE visit[v].cred.epoch = widgetPolicy.epoch
      BY <1>1, <2>1, <2>2, <2>3, WidgetVisits
    <2>4. CASE visit[v].cred.epoch # widgetPolicy.epoch
      <3>1. visit' = [visit EXCEPT ![v] = Fails(v, "widget_credential_invalid")]
        BY <1>4, <2>4 DEF ReadWidgetConfig, GoVisit
      <3>2. QED
        BY <1>2, <1>3, <3>1 DEF Fails
    <2>5. QED
      BY <2>3, <2>4
  <1>5. CASE ResolveVisitor(v) /\ visit[v].site = visit[v].cred.site
             /\ visit' = [visit EXCEPT ![v] = [visit[v] EXCEPT !.pc = "origin", !.role = account[visit[v].cred.user].role]]
    <2> DEFINE r == [visit[v] EXCEPT !.pc = "origin", !.role = account[visit[v].cred.user].role]
    <2>1. /\ VisitFields \subseteq DOMAIN r /\ r.pc = "origin" /\ r.began = visit[v].began
          /\ r.cred = visit[v].cred /\ r.site = visit[v].site
      BY <1>1 DEF VisitFields
    <2> HIDE DEF r
    <2>2. visit' = [visit EXCEPT ![v] = r]
      BY <1>5 DEF r
    <2>3. r.cred # Unused => r.cred.epoch >= r.began
      BY <1>5, <2>1 DEF ResolveVisitor, GoVisit, Checked, WidgetInvariant, VisitsEarned
    <2>4. r.site = r.cred.site
      BY <1>5, <2>1
    <2>5. r.began \in Nat /\ r.began <= widgetPolicy.epoch
      BY <1>1, <2>1
    <2>6. QED
      BY <1>1, <2>1, <2>2, <2>3, <2>4, <2>5, WidgetVisits
  <1>6. ASSUME NEW to \in {"serve", "served"}, visit[v].pc \in {"origin", "serve"},
               visit' = [visit EXCEPT ![v] = [visit[v] EXCEPT !.pc = to]]
        PROVE  WidgetInvariant'
    <2> DEFINE r == [visit[v] EXCEPT !.pc = to]
    <2>1. /\ VisitFields \subseteq DOMAIN r /\ r.pc = to /\ r.began = visit[v].began
          /\ r.cred = visit[v].cred /\ r.site = visit[v].site
      BY <1>1 DEF VisitFields
    <2> HIDE DEF r
    <2>2. visit' = [visit EXCEPT ![v] = r]
      BY <1>6 DEF r
    <2>3. r.cred # Unused => r.cred.epoch >= r.began /\ r.site = r.cred.site
      BY <1>6, <2>1 DEF Checked, Placed, WidgetInvariant, VisitsEarned
    <2>4. QED
      BY <1>1, <2>1, <2>2, <2>3, WidgetVisits
  <1>7. ASSUME ReadWidgetConfig(v) PROVE WidgetInvariant'
    <2>1. \/ visit' = [visit EXCEPT ![v] = [visit[v] EXCEPT !.pc = "principal", !.mode = widgetPolicy.mode]]
          \/ visit' = [visit EXCEPT ![v] = Fails(v, "widget_credential_invalid")]
      BY <1>7 DEF ReadWidgetConfig, GoVisit
    <2>2. QED
      BY <1>2, <1>3, <1>4, <1>7, <2>1 DEF Fails
  <1>8. ASSUME ResolveVisitor(v) PROVE WidgetInvariant'
    <2>1. \/ visit' = [visit EXCEPT ![v] = Fails(v, "widget_credential_invalid")]
          \/ visit' = [visit EXCEPT ![v] = Fails(v, "forbidden")]
          \/ /\ visit[v].site = visit[v].cred.site
             /\ visit' = [visit EXCEPT ![v] = [visit[v] EXCEPT !.pc = "origin", !.role = account[visit[v].cred.user].role]]
      BY <1>8 DEF ResolveVisitor, GoVisit
    <2>2. QED
      BY <1>2, <1>3, <1>5, <1>8, <2>1 DEF Fails
  <1>9. ASSUME RequireAllowedOrigin(v) \/ Serve(v) PROVE WidgetInvariant'
    <2>1. \/ visit' = [visit EXCEPT ![v] = Closed("forbidden")]
          \/ visit[v].pc = "origin" /\ visit' = [visit EXCEPT ![v] = [visit[v] EXCEPT !.pc = "serve"]]
          \/ visit[v].pc = "serve" /\ visit' = [visit EXCEPT ![v] = [visit[v] EXCEPT !.pc = "served"]]
      BY <1>9 DEF RequireAllowedOrigin, Serve, GoVisit
    <2>2. QED
      BY <1>2, <1>6, <2>1
  <1>10. QED
    BY <1>7, <1>8, <1>9

(* ---- the whole ---- *)
LEMMA WidgetSteps == WidgetInvariant /\ [WidgetNext]_widgetVars => WidgetInvariant'
  <1> SUFFICES ASSUME WidgetInvariant, [WidgetNext]_widgetVars PROVE WidgetInvariant'
    OBVIOUS
  <1>1. ASSUME UNCHANGED widgetVars PROVE WidgetInvariant'
    BY <1>1, WidgetWorldChanges DEF widgetVars
  <1>2. ASSUME ChangeMode PROVE WidgetInvariant'
    <2>1. UNCHANGED <<authCode, issue, exchange, cookies, visit>> /\ widgetPolicy'.epoch = widgetPolicy.epoch + 1
      BY <1>2 DEF ChangeMode
    <2>2. QED
      BY <2>1, WidgetWorldChanges
  <1>3. ASSUME NEW u \in WidgetUsers, ChangeAccount(u) PROVE WidgetInvariant'
    BY <1>3, WidgetWorldChanges DEF ChangeAccount
  <1>4. ASSUME NEW s \in WidgetSites,
               UpdateSite(s) \/ DeleteSite(s) \/ AddOrigin(s) \/ UpdateOrigin(s) \/ RemoveOrigin(s)
        PROVE  WidgetInvariant'
    <2>1. UNCHANGED <<widgetPolicy, authCode, issue, exchange, cookies, visit>>
      BY <1>4 DEF UpdateSite, DeleteSite, AddOrigin, UpdateOrigin, RemoveOrigin, SetSite
    <2>2. QED
      BY <2>1, WidgetWorldChanges
  <1>5. ASSUME NEW i \in Issues, NEW u, NEW s, NEW o,
               \/ BeginIssue(i, u, s, o) \/ RequireUser(i) \/ ReadIssuePolicy(i) \/ CheckIssueSite(i)
               \/ StoreCode(i) \/ CodeAges(i)
        PROVE  WidgetInvariant'
    BY <1>5, WidgetIssueStep, WidgetAges
  <1>6. ASSUME NEW x \in Exchanges, NEW i \in Issues, NEW o, ConsumeCode(x, i, o)
        PROVE  WidgetInvariant'
    BY <1>6, WidgetConsumes
  <1>7. ASSUME NEW x \in Exchanges, CheckExchangeSite(x) \/ ReadExchangePolicy(x) \/ ResolveAuthorizer(x) \/ SignWidget(x)
        PROVE  WidgetInvariant'
    BY <1>7, WidgetExchangeStep, WidgetSigns
  <1>8. ASSUME NEW v \in Visits, NEW t, NEW s, NEW c, NEW o,
               \/ BeginVisit(v, t, s, c, o)
               \/ ReadWidgetConfig(v) \/ ResolveVisitor(v) \/ RequireAllowedOrigin(v) \/ Serve(v)
        PROVE  WidgetInvariant'
    BY <1>8, WidgetVisitBegins, WidgetVisitStep
  <1>9. ASSUME WidgetNext PROVE WidgetInvariant'
    <2>1. \/ ChangeMode
          \/ \E u \in WidgetUsers : ChangeAccount(u)
          \/ \E s \in WidgetSites : UpdateSite(s) \/ DeleteSite(s) \/ AddOrigin(s) \/ UpdateOrigin(s) \/ RemoveOrigin(s)
          \/ \E i \in Issues : \E u, s, o :
               \/ BeginIssue(i, u, s, o) \/ RequireUser(i) \/ ReadIssuePolicy(i) \/ CheckIssueSite(i)
               \/ StoreCode(i) \/ CodeAges(i)
          \/ \E x \in Exchanges, i \in Issues : \E o : ConsumeCode(x, i, o)
          \/ \E x \in Exchanges : CheckExchangeSite(x) \/ ReadExchangePolicy(x) \/ ResolveAuthorizer(x) \/ SignWidget(x)
          \/ \E v \in Visits : \E t, s, c, o :
               \/ BeginVisit(v, t, s, c, o)
               \/ ReadWidgetConfig(v) \/ ResolveVisitor(v) \/ RequireAllowedOrigin(v) \/ Serve(v)
      BY <1>9, Zenon DEF WidgetNext
    <2>2. QED
      BY <1>2, <1>3, <1>4, <1>5, <1>6, <1>7, <1>8, <2>1
  <1>10. QED
    BY <1>1, <1>9

LEMMA WidgetSuffices == WidgetInvariant => CredentialsEarned
  BY DEF WidgetInvariant, CodesSpent, EpochsHonest, Honest, VisitsEarned, Checked, Placed, CredentialsEarned

(* A credential is worth what was authorised: one for a code, under the mode its *)
(* epoch stands for (service/comment/widget_session.go), and a request served as *)
(* somebody has one for its site (middleware/widget.go).                         *)
THEOREM WidgetCredentialsEarned == WidgetSpec => []CredentialsEarned
  <1>1. WidgetInit => WidgetInvariant
    BY WidgetStarts
  <1>2. WidgetInvariant /\ [WidgetNext]_widgetVars => WidgetInvariant'
    BY WidgetSteps
  <1>3. WidgetInvariant => CredentialsEarned
    BY WidgetSuffices
  <1>4. QED
    BY <1>1, <1>2, <1>3, PTL DEF WidgetSpec

-----------------------------------------------------------------------------
(* The keyword matcher.  Its functions are recursions over the nodes; each is shown   *)
(* to be what a text says of itself: a node fails to the longest shorter end of it      *)
(* that is a node, a node is terminal when a word ends at it, and after each letter      *)
(* the automaton is at the longest end of what was read that is a node.                   *)
Text == Seq(Letters)
(* The last letters of x are m. *)
Ends(x, m) == Len(m) <= Len(x) /\ \A i \in 1..Len(m) : m[i] = x[Len(x) - Len(m) + i]

LEMMA SameText ==
  ASSUME NEW x \in Text, NEW y \in Text, Len(x) = Len(y), \A i \in 1..Len(x) : x[i] = y[i]
  PROVE  x = y
  BY DEF Text

LEMMA TextFacts ==
  ASSUME NEW x \in Text
  PROVE  /\ Len(x) \in Nat /\ DOMAIN x = 1..Len(x) /\ <<>> \in Text
         /\ \A i \in 1..Len(x) : x[i] \in Letters
         /\ Len(x) = 0 <=> x = <<>>
  BY DEF Text

LEMMA LetterAdded ==
  ASSUME NEW x \in Text, NEW r \in Letters
  PROVE  /\ Append(x, r) \in Text /\ Len(Append(x, r)) = Len(x) + 1 /\ Append(x, r) # <<>>
         /\ Append(x, r)[Len(x) + 1] = r
         /\ \A i \in 1..Len(x) : Append(x, r)[i] = x[i]
  BY DEF Text

LEMMA PartOfText ==
  ASSUME NEW x \in Text, NEW i \in 1..Len(x) + 1, NEW j \in 0..Len(x), i <= j + 1
  PROVE  /\ SubSeq(x, i, j) \in Text /\ Len(SubSeq(x, i, j)) = j - i + 1
         /\ \A k \in 1..(j - i + 1) : SubSeq(x, i, j)[k] = x[i + k - 1]
  BY DEF Text

LEMMA RestOfText ==
  ASSUME NEW x \in Text, x # <<>>
  PROVE  /\ Tail(x) \in Text /\ Len(Tail(x)) = Len(x) - 1
         /\ \A i \in 1..Len(x) - 1 : Tail(x)[i] = x[i + 1]
  BY DEF Text

LEMMA LastAdded ==
  ASSUME NEW x \in Text, x # <<>>
  PROVE  /\ SubSeq(x, 1, Len(x) - 1) \in Text /\ Len(SubSeq(x, 1, Len(x) - 1)) = Len(x) - 1
         /\ x[Len(x)] \in Letters
         /\ Append(SubSeq(x, 1, Len(x) - 1), x[Len(x)]) = x
  <1> DEFINE front == SubSeq(x, 1, Len(x) - 1)
             r == x[Len(x)]
  <1>1. Len(x) \in Nat \ {0} /\ r \in Letters
    BY TextFacts
  <1>2. front \in Text /\ Len(front) = Len(x) - 1 /\ \A k \in 1..Len(x) - 1 : front[k] = x[k]
    <2>1. /\ 1 \in 1..Len(x) + 1 /\ Len(x) - 1 \in 0..Len(x) /\ 1 <= (Len(x) - 1) + 1 /\ (Len(x) - 1) - 1 + 1 = Len(x) - 1
          /\ \A k \in 1..Len(x) - 1 : 1 + k - 1 = k
      BY <1>1
    <2>2. /\ front \in Text /\ Len(front) = (Len(x) - 1) - 1 + 1
          /\ \A k \in 1..((Len(x) - 1) - 1 + 1) : front[k] = x[1 + k - 1]
      BY <2>1, PartOfText
    <2> HIDE DEF front
    <2>3. QED
      BY <2>1, <2>2
  <1> HIDE DEF front
  <1>3. Append(front, r) \in Text /\ Len(Append(front, r)) = Len(x)
    BY <1>1, <1>2, LetterAdded
  <1>4. Append(front, r)[Len(x)] = r /\ \A k \in 1..Len(x) - 1 : Append(front, r)[k] = x[k]
    BY <1>1, <1>2, LetterAdded
  <1>5. ASSUME NEW i \in 1..Len(x) PROVE Append(front, r)[i] = x[i]
    <2>1. i \in 1..Len(x) - 1 \/ i = Len(x)
      BY <1>1
    <2>2. QED
      BY <1>4, <2>1
  <1> HIDE DEF r
  <1>6. Append(front, r) = x
    BY <1>3, <1>5, SameText
  <1>7. QED
    BY <1>1, <1>2, <1>6 DEF front, r

(* Ends is an order, and the ends of one text are ends of each other. *)
LEMMA EndsOrder ==
  ASSUME NEW x \in Text, NEW m \in Text
  PROVE  /\ Ends(x, x) /\ Ends(x, <<>>)
         /\ Ends(x, m) /\ Ends(m, x) => m = x
         /\ Ends(x, m) /\ Len(m) = Len(x) => m = x
         /\ \A n \in Text : Ends(x, m) /\ Ends(m, n) => Ends(x, n)
         /\ \A n \in Text : Ends(x, m) /\ Ends(x, n) /\ Len(n) <= Len(m) => Ends(m, n)
  <1>1. Ends(x, x) /\ Ends(x, <<>>)
    BY TextFacts DEF Ends
  <1>2. ASSUME Ends(x, m), Len(m) = Len(x) PROVE m = x
    <2>1. \A i \in 1..Len(m) : m[i] = x[i]
      BY <1>2, TextFacts DEF Ends
    <2>2. QED
      BY <1>2, <2>1, SameText
  <1>3. Ends(x, m) /\ Ends(m, x) => m = x
    BY <1>2, TextFacts DEF Ends
  <1>4. ASSUME NEW n \in Text, Ends(x, m), Ends(m, n) PROVE Ends(x, n)
    <2>1. Len(x) \in Nat /\ Len(m) \in Nat /\ Len(n) \in Nat /\ Len(n) <= Len(m) /\ Len(m) <= Len(x)
      BY <1>4, TextFacts DEF Ends
    <2>2. ASSUME NEW i \in 1..Len(n) PROVE n[i] = x[Len(x) - Len(n) + i]
      <3>1. Len(m) - Len(n) + i \in 1..Len(m) /\ Len(x) - Len(m) + (Len(m) - Len(n) + i) = Len(x) - Len(n) + i
        BY <2>1
      <3>2. n[i] = m[Len(m) - Len(n) + i]
        BY <1>4 DEF Ends
      <3>3. m[Len(m) - Len(n) + i] = x[Len(x) - Len(m) + (Len(m) - Len(n) + i)]
        BY <1>4, <3>1 DEF Ends
      <3>4. QED
        BY <3>1, <3>2, <3>3
    <2>3. QED
      BY <2>1, <2>2 DEF Ends
  <1>5. ASSUME NEW n \in Text, Ends(x, m), Ends(x, n), Len(n) <= Len(m) PROVE Ends(m, n)
    <2>1. Len(x) \in Nat /\ Len(m) \in Nat /\ Len(n) \in Nat /\ Len(n) <= Len(m) /\ Len(m) <= Len(x)
      BY <1>5, TextFacts DEF Ends
    <2>2. ASSUME NEW i \in 1..Len(n) PROVE n[i] = m[Len(m) - Len(n) + i]
      <3>1. Len(m) - Len(n) + i \in 1..Len(m) /\ Len(x) - Len(m) + (Len(m) - Len(n) + i) = Len(x) - Len(n) + i
        BY <2>1
      <3>2. n[i] = x[Len(x) - Len(n) + i]
        BY <1>5 DEF Ends
      <3>3. m[Len(m) - Len(n) + i] = x[Len(x) - Len(m) + (Len(m) - Len(n) + i)]
        BY <1>5, <3>1 DEF Ends
      <3>4. QED
        BY <3>1, <3>2, <3>3
    <2>3. QED
      BY <2>1, <2>2 DEF Ends
  <1>6. QED
    BY <1>1, <1>2, <1>3, <1>4, <1>5

LEMMA EndsOfAppended ==
  ASSUME NEW x \in Text, NEW r \in Letters
  PROVE  /\ \A m \in Text : Ends(x, m) => Ends(Append(x, r), Append(m, r))
         /\ \A m \in Text : Ends(Append(x, r), m) /\ m # <<>> =>
              \E n \in Text : m = Append(n, r) /\ Ends(x, n)
  <1>1. /\ Append(x, r) \in Text /\ Len(Append(x, r)) = Len(x) + 1 /\ Len(x) \in Nat
        /\ Append(x, r)[Len(x) + 1] = r /\ \A i \in 1..Len(x) : Append(x, r)[i] = x[i]
    BY LetterAdded, TextFacts
  <1>2. ASSUME NEW m \in Text, Ends(x, m) PROVE Ends(Append(x, r), Append(m, r))
    <2>1. /\ Len(Append(m, r)) = Len(m) + 1 /\ Len(m) \in Nat /\ Len(m) <= Len(x)
          /\ Append(m, r)[Len(m) + 1] = r /\ \A i \in 1..Len(m) : Append(m, r)[i] = m[i]
      BY <1>2, LetterAdded, TextFacts DEF Ends
    <2>2. ASSUME NEW i \in 1..Len(m) + 1 PROVE Append(m, r)[i] = Append(x, r)[(Len(x) + 1) - (Len(m) + 1) + i]
      <3>1. CASE i = Len(m) + 1
        <4>1. (Len(x) + 1) - (Len(m) + 1) + i = Len(x) + 1
          BY <1>1, <2>1, <3>1
        <4>2. QED
          BY <1>1, <2>1, <3>1, <4>1
      <3>2. CASE i \in 1..Len(m)
        <4>1. (Len(x) + 1) - (Len(m) + 1) + i = Len(x) - Len(m) + i /\ Len(x) - Len(m) + i \in 1..Len(x)
          BY <1>1, <2>1, <3>2
        <4>2. m[i] = x[Len(x) - Len(m) + i]
          BY <1>2, <3>2 DEF Ends
        <4>3. QED
          BY <1>1, <2>1, <3>2, <4>1, <4>2
      <3>3. QED
        BY <2>1, <3>1, <3>2
    <2>3. Len(m) + 1 <= Len(x) + 1
      BY <1>1, <2>1
    <2>4. QED
      BY <1>1, <2>1, <2>2, <2>3 DEF Ends
  <1>3. ASSUME NEW m \in Text, Ends(Append(x, r), m), m # <<>>
        PROVE  \E n \in Text : m = Append(n, r) /\ Ends(x, n)
    <2> DEFINE n == SubSeq(m, 1, Len(m) - 1)
    <2>1. n \in Text /\ Len(n) = Len(m) - 1 /\ Append(n, m[Len(m)]) = m /\ m[Len(m)] \in Letters
      BY <1>3, LastAdded
    <2> HIDE DEF n
    <2>2. Len(m) \in Nat \ {0} /\ Len(m) <= Len(x) + 1
      BY <1>1, <1>3, TextFacts DEF Ends
    <2>3. \A i \in 1..Len(m) : m[i] = Append(x, r)[(Len(x) + 1) - Len(m) + i]
      BY <1>1, <1>3 DEF Ends
    <2>4. m[Len(m)] = r
      <3>1. Len(m) \in 1..Len(m) /\ (Len(x) + 1) - Len(m) + Len(m) = Len(x) + 1
        BY <1>1, <2>2
      <3>2. QED
        BY <1>1, <2>3, <3>1
    <2>5. ASSUME NEW i \in 1..Len(n) PROVE n[i] = x[Len(x) - Len(n) + i]
      <3>1. /\ i \in 1..Len(m) /\ (Len(x) + 1) - Len(m) + i = Len(x) - Len(n) + i
            /\ Len(x) - Len(n) + i \in 1..Len(x)
        BY <1>1, <2>1, <2>2
      <3>2. Append(n, m[Len(m)])[i] = n[i]
        BY <2>1, LetterAdded
      <3>3. n[i] = m[i]
        BY <2>1, <3>2
      <3>4. QED
        BY <1>1, <2>3, <3>1, <3>3
    <2>6. Ends(x, n)
      BY <1>1, <2>1, <2>2, <2>5 DEF Ends
    <2>7. QED
      BY <2>1, <2>4, <2>6
  <1>4. QED
    BY <1>2, <1>3

LEMMA EndsOfRest ==
  ASSUME NEW x \in Text, x # <<>>
  PROVE  /\ Ends(x, Tail(x))
         /\ \A m \in Text : Ends(x, m) => m = x \/ Ends(Tail(x), m)
  <1>1. /\ Tail(x) \in Text /\ Len(Tail(x)) = Len(x) - 1 /\ Len(x) \in Nat \ {0}
        /\ \A i \in 1..Len(x) - 1 : Tail(x)[i] = x[i + 1]
    BY RestOfText, TextFacts
  <1>2. Ends(x, Tail(x))
    BY <1>1 DEF Ends
  <1>3. ASSUME NEW m \in Text, Ends(x, m) PROVE m = x \/ Ends(Tail(x), m)
    <2>1. Len(m) = Len(x) \/ Len(m) <= Len(Tail(x))
      BY <1>1, <1>3, TextFacts DEF Ends
    <2>2. QED
      BY <1>1, <1>2, <1>3, <2>1, EndsOrder
  <1>4. QED
    BY <1>2, <1>3

LEMMA RestOfAppended ==
  ASSUME NEW x \in Text, NEW r \in Letters, x # <<>>
  PROVE  Tail(Append(x, r)) = Append(Tail(x), r)
  BY DEF Text

(* A list of words: texts that are not empty. *)
WordList(words) == \A w \in words : w \in Text /\ w # <<>>

LEMMA NodeFacts ==
  ASSUME NEW words, WordList(words)
  PROVE  /\ <<>> \in Nodes(words) /\ Nodes(words) \subseteq Text /\ words \subseteq Nodes(words)
         /\ \A n \in Text, r \in Letters : Append(n, r) \in Nodes(words) => n \in Nodes(words)
         /\ \A n \in Nodes(words) : n # <<>> => SubSeq(n, 1, Len(n) - 1) \in Nodes(words)
  <1>1. <<>> \in Nodes(words)
    BY DEF Nodes
  <1>2. \A w \in words : w \in Text /\ Len(w) \in Nat \ {0}
    BY TextFacts DEF WordList
  <1>3. ASSUME NEW w \in words, NEW k \in 1..Len(w)
        PROVE  /\ SubSeq(w, 1, k) \in Text /\ Len(SubSeq(w, 1, k)) = k
               /\ \A i \in 1..k : SubSeq(w, 1, k)[i] = w[i]
    <2>1. 1 \in 1..Len(w) + 1 /\ k \in 0..Len(w) /\ 1 <= k + 1 /\ k - 1 + 1 = k /\ \A i \in 1..k : 1 + i - 1 = i
      BY <1>2
    <2>2. /\ SubSeq(w, 1, k) \in Text /\ Len(SubSeq(w, 1, k)) = k - 1 + 1
          /\ \A i \in 1..(k - 1 + 1) : SubSeq(w, 1, k)[i] = w[1 + i - 1]
      BY <1>2, <2>1, PartOfText
    <2>3. QED
      BY <2>1, <2>2
  <1>9. \A n : n \in Nodes(words) <=> n = <<>> \/ \E w \in words : \E k \in 1..Len(w) : n = SubSeq(w, 1, k)
    BY DEF Nodes
  <1>4. Nodes(words) \subseteq Text
    <2>1. <<>> \in Text
      BY DEF Text
    <2>2. ASSUME NEW n \in Nodes(words), n # <<>> PROVE n \in Text
      <3>1. PICK w \in words : \E k \in 1..Len(w) : n = SubSeq(w, 1, k)
        BY <1>9, <2>2
      <3>2. PICK k \in 1..Len(w) : n = SubSeq(w, 1, k)
        BY <3>1
      <3>3. SubSeq(w, 1, k) \in Text
        BY <1>3
      <3>4. QED
        BY <3>2, <3>3
    <2>3. QED
      BY <2>1, <2>2
  <1>5. ASSUME NEW w \in words PROVE w \in Nodes(words)
    <2>1. Len(w) \in 1..Len(w)
      BY <1>2
    <2>2. /\ SubSeq(w, 1, Len(w)) \in Text /\ Len(SubSeq(w, 1, Len(w))) = Len(w)
          /\ \A i \in 1..Len(w) : SubSeq(w, 1, Len(w))[i] = w[i]
      BY <1>3, <2>1
    <2>3. SubSeq(w, 1, Len(w)) = w
      BY <1>2, <2>2, SameText
    <2>4. QED
      BY <1>9, <2>1, <2>3
  <1>6. ASSUME NEW n \in Nodes(words), n # <<>> PROVE SubSeq(n, 1, Len(n) - 1) \in Nodes(words)
    <2>1. PICK w \in words : \E k \in 1..Len(w) : n = SubSeq(w, 1, k)
      BY <1>6, <1>9
    <2>7. PICK k \in 1..Len(w) : n = SubSeq(w, 1, k)
      BY <2>1
    <2>2. n \in Text /\ Len(n) = k /\ \A i \in 1..k : n[i] = w[i]
      BY <1>3, <2>7
    <2>3. k \in Nat /\ (k = 1 \/ k - 1 \in 1..Len(w))
      BY <1>2
    <2>4. CASE k = 1
      <3>1. SubSeq(n, 1, Len(n) - 1) \in Text /\ Len(SubSeq(n, 1, Len(n) - 1)) = 0
        BY <1>6, <2>2, <2>4, LastAdded
      <3>2. QED
        BY <1>1, <3>1, TextFacts
    <2>5. CASE k - 1 \in 1..Len(w)
      <3>1. SubSeq(n, 1, k - 1) \in Text /\ Len(SubSeq(n, 1, k - 1)) = k - 1
        BY <1>6, <2>2, LastAdded
      <3>2. ASSUME NEW i \in 1..(k - 1) PROVE SubSeq(n, 1, k - 1)[i] = w[i]
        <4>1. /\ 1 \in 1..Len(n) + 1 /\ k - 1 \in 0..Len(n) /\ 1 <= (k - 1) + 1 /\ i \in 1..((k - 1) - 1 + 1)
              /\ 1 + i - 1 = i /\ i \in 1..k
          BY <2>2, <2>3
        <4>2. SubSeq(n, 1, k - 1)[i] = n[1 + i - 1]
          BY <2>2, <4>1, PartOfText
        <4>3. QED
          BY <2>2, <4>1, <4>2
      <3>3. SubSeq(w, 1, k - 1) = SubSeq(n, 1, k - 1)
        <4>1. /\ SubSeq(w, 1, k - 1) \in Text /\ Len(SubSeq(w, 1, k - 1)) = k - 1
              /\ \A i \in 1..(k - 1) : SubSeq(w, 1, k - 1)[i] = w[i]
          BY <1>3, <2>5
        <4>2. QED
          BY <3>1, <3>2, <4>1, SameText
      <3>4. QED
        BY <1>9, <2>2, <2>5, <3>3
    <2>6. QED
      BY <2>3, <2>4, <2>5
  <1>7. ASSUME NEW n \in Text, NEW r \in Letters, Append(n, r) \in Nodes(words) PROVE n \in Nodes(words)
    <2> DEFINE m == Append(n, r)
    <2>1. m \in Text /\ m # <<>> /\ Len(m) = Len(n) + 1 /\ Len(n) \in Nat /\ \A i \in 1..Len(n) : m[i] = n[i]
      BY LetterAdded, TextFacts
    <2>2. SubSeq(m, 1, Len(m) - 1) \in Nodes(words)
      BY <1>6, <1>7, <2>1
    <2> HIDE DEF m
    <2>3. SubSeq(m, 1, Len(m) - 1) \in Text /\ Len(SubSeq(m, 1, Len(m) - 1)) = Len(n)
      BY <2>1, LastAdded
    <2>4. ASSUME NEW i \in 1..Len(n) PROVE SubSeq(m, 1, Len(m) - 1)[i] = n[i]
      <3>1. /\ 1 \in 1..Len(m) + 1 /\ Len(m) - 1 \in 0..Len(m) /\ 1 <= (Len(m) - 1) + 1
            /\ i \in 1..((Len(m) - 1) - 1 + 1) /\ 1 + i - 1 = i
        BY <2>1
      <3>2. SubSeq(m, 1, Len(m) - 1)[i] = m[1 + i - 1]
        BY <2>1, <3>1, PartOfText
      <3>3. QED
        BY <2>1, <3>1, <3>2
    <2>5. SubSeq(m, 1, Len(m) - 1) = n
      BY <2>3, <2>4, SameText
    <2>6. QED
      BY <2>2, <2>5
  <1>8. QED
    BY <1>1, <1>4, <1>5, <1>6, <1>7

(* The longest end of a text that is a node: where the automaton is after it. *)
IsLongest(words, x, n) == n \in Nodes(words) /\ Ends(x, n) /\ \A m \in Nodes(words) : Ends(x, m) => Ends(n, m)
Longest(words, x) == CHOOSE n : IsLongest(words, x, n)

LEMMA LongestIs ==
  ASSUME NEW words, WordList(words), NEW x \in Text
  PROVE  IsLongest(words, x, Longest(words, x)) /\ \A n : IsLongest(words, x, n) => n = Longest(words, x)
  <1>1. Nodes(words) \subseteq Text /\ <<>> \in Nodes(words)
    BY NodeFacts
  <1>2. Len(x) \in Nat
    BY TextFacts
  <1> DEFINE S == {d \in 0..Len(x) : \E n \in Nodes(words) : Ends(x, n) /\ Len(n) = Len(x) - d}
  <1>3. S \subseteq Nat /\ IsFiniteSet(S)
    <2>1. S \in SUBSET (0..Len(x)) /\ IsFiniteSet(0..Len(x)) /\ 0..Len(x) \subseteq Nat
      BY <1>2, FS_Interval
    <2> HIDE DEF S
    <2>2. QED
      BY <2>1, FS_Subset
  <1>4. S # {}
    <2>1. Ends(x, <<>>) /\ Len(<<>>) = Len(x) - Len(x) /\ Len(x) \in 0..Len(x)
      BY <1>2, EndsOrder, TextFacts
    <2>2. Len(x) \in S
      BY <1>1, <2>1
    <2>3. QED
      BY <2>2
  <1> HIDE DEF S
  <1>5. PICK d \in S : \A e \in S : d <= e
    BY <1>3, <1>4, LeastNumber
  <1> USE DEF S
  <1>6. PICK n \in Nodes(words) : Ends(x, n) /\ Len(n) = Len(x) - d
    OBVIOUS
  <1>7. ASSUME NEW m \in Nodes(words), Ends(x, m) PROVE Ends(n, m)
    <2>1. Len(m) \in Nat /\ Len(m) <= Len(x)
      BY <1>1, <1>7, TextFacts DEF Ends
    <2>2. Len(x) - Len(m) \in 0..Len(x) /\ Len(m) = Len(x) - (Len(x) - Len(m))
      BY <1>2, <2>1
    <2>3. Len(x) - Len(m) \in S
      BY <1>7, <2>2
    <2>4. d <= Len(x) - Len(m) /\ d \in 0..Len(x)
      BY <1>5, <2>3
    <2>5. Len(m) <= Len(n)
      BY <1>2, <1>6, <2>1, <2>4
    <2>6. QED
      BY <1>1, <1>6, <1>7, <2>5, EndsOrder
  <1>8. IsLongest(words, x, n)
    BY <1>6, <1>7 DEF IsLongest
  <1>9. IsLongest(words, x, Longest(words, x))
    BY <1>8 DEF Longest
  <1>10. ASSUME NEW a, NEW b, IsLongest(words, x, a), IsLongest(words, x, b) PROVE a = b
    <2>1. Ends(a, b) /\ Ends(b, a) /\ a \in Text /\ b \in Text
      BY <1>1, <1>10 DEF IsLongest
    <2>2. QED
      BY <2>1, EndsOrder
  <1>11. QED
    BY <1>9, <1>10

(* A node is where it is; and where the automaton is decides where it goes on to.  *)
LEMMA LongestFacts ==
  ASSUME NEW words, WordList(words), NEW x \in Text
  PROVE  /\ Longest(words, x) \in Nodes(words) /\ Longest(words, x) \in Text
         /\ Len(Longest(words, x)) <= Len(x)
         /\ x \in Nodes(words) => Longest(words, x) = x
         /\ x \notin Nodes(words) /\ x # <<>> => Longest(words, x) = Longest(words, Tail(x))
  <1>1. Nodes(words) \subseteq Text
    BY NodeFacts
  <1>2. IsLongest(words, x, Longest(words, x))
    BY LongestIs
  <1>3. /\ Longest(words, x) \in Nodes(words) /\ Longest(words, x) \in Text
        /\ Len(Longest(words, x)) <= Len(x)
    BY <1>1, <1>2 DEF IsLongest, Ends
  <1>4. ASSUME x \in Nodes(words) PROVE Longest(words, x) = x
    <2>1. IsLongest(words, x, x)
      BY <1>4, EndsOrder DEF IsLongest
    <2>2. QED
      BY <2>1, LongestIs
  <1>5. ASSUME x \notin Nodes(words), x # <<>> PROVE Longest(words, x) = Longest(words, Tail(x))
    <2> DEFINE n == Longest(words, Tail(x))
    <2>1. Tail(x) \in Text /\ Ends(x, Tail(x))
      BY <1>5, RestOfText, EndsOfRest
    <2>2. IsLongest(words, Tail(x), n)
      BY <2>1, LongestIs
    <2> HIDE DEF n
    <2>3. n \in Text /\ Ends(Tail(x), n)
      BY <1>1, <2>2 DEF IsLongest
    <2>4. Ends(x, n)
      BY <2>1, <2>3, EndsOrder
    <2>5. ASSUME NEW m \in Nodes(words), Ends(x, m) PROVE Ends(n, m)
      <3>1. m \in Text /\ m # x
        BY <1>1, <1>5
      <3>2. Ends(Tail(x), m)
        BY <1>5, <2>5, <3>1, EndsOfRest
      <3>3. QED
        BY <2>2, <3>2 DEF IsLongest
    <2>6. IsLongest(words, x, n)
      BY <2>2, <2>4, <2>5 DEF IsLongest
    <2>7. QED
      BY <2>6, LongestIs DEF n
  <1>6. QED
    BY <1>3, <1>4, <1>5

LEMMA LongestGoesOn ==
  ASSUME NEW words, WordList(words), NEW x \in Text, NEW r \in Letters
  PROVE  Longest(words, Append(x, r)) = Longest(words, Append(Longest(words, x), r))
  <1> DEFINE n == Longest(words, x)
             v == Longest(words, Append(n, r))
  <1>1. Nodes(words) \subseteq Text
    BY NodeFacts
  <1>2. IsLongest(words, x, n) /\ n \in Text
    BY LongestIs, LongestFacts
  <1> HIDE DEF n
  <1>3. Append(x, r) \in Text /\ Append(n, r) \in Text
    BY <1>2, LetterAdded
  <1>4. IsLongest(words, Append(n, r), v) /\ v \in Text
    BY <1>3, LongestIs, LongestFacts
  <1> HIDE DEF v
  <1>5. Ends(Append(x, r), v)
    <2>1. Ends(Append(x, r), Append(n, r)) /\ Ends(Append(n, r), v)
      BY <1>2, <1>4, EndsOfAppended DEF IsLongest
    <2>2. QED
      BY <1>3, <1>4, <2>1, EndsOrder
  <1>6. ASSUME NEW m \in Nodes(words), Ends(Append(x, r), m) PROVE Ends(v, m)
    <2>1. CASE m = <<>>
      BY <1>4, <2>1, EndsOrder
    <2>2. CASE m # <<>>
      <3>1. PICK k \in Text : m = Append(k, r) /\ Ends(x, k)
        BY <1>1, <1>6, <2>2, EndsOfAppended
      <3>2. k \in Nodes(words)
        BY <1>6, <3>1, NodeFacts
      <3>3. Ends(n, k)
        BY <1>2, <3>1, <3>2 DEF IsLongest
      <3>4. Ends(Append(n, r), m)
        BY <1>2, <3>1, <3>3, EndsOfAppended
      <3>5. QED
        BY <1>4, <3>4 DEF IsLongest
    <2>3. QED
      BY <2>1, <2>2
  <1>7. IsLongest(words, Append(x, r), v)
    BY <1>4, <1>5, <1>6 DEF IsLongest
  <1>8. QED
    BY <1>3, <1>7, LongestIs DEF n, v

(* One letter on: along an edge, or from the next shorter end of the node.         *)
LEMMA LetterRead ==
  ASSUME NEW words, WordList(words), NEW f \in Nodes(words), NEW r \in Letters
  PROVE  /\ f \in Text /\ Len(f) \in Nat
         /\ Edge(words, f, r) => Longest(words, Append(f, r)) = Append(f, r)
         /\ ~Edge(words, f, r) /\ f = <<>> => Longest(words, Append(f, r)) = <<>>
         /\ f # <<>> => /\ Longest(words, Tail(f)) \in Nodes(words) /\ Len(Longest(words, Tail(f))) < Len(f)
                        /\ ~Edge(words, f, r) =>
                             Longest(words, Append(f, r)) = Longest(words, Append(Longest(words, Tail(f)), r))
  <1>1. f \in Text /\ Len(f) \in Nat
    BY NodeFacts, TextFacts
  <1>2. Append(f, r) \in Text /\ Append(f, r) # <<>>
    BY <1>1, LetterAdded
  <1>3. Edge(words, f, r) => Longest(words, Append(f, r)) = Append(f, r)
    BY <1>2, LongestFacts DEF Edge
  <1>4. ASSUME ~Edge(words, f, r), f = <<>> PROVE Longest(words, Append(f, r)) = <<>>
    <2>1. Longest(words, Append(f, r)) = Longest(words, Tail(Append(f, r)))
      BY <1>2, <1>4, LongestFacts DEF Edge
    <2>2. Tail(Append(f, r)) = <<>>
      BY <1>4
    <2>3. <<>> \in Nodes(words) /\ <<>> \in Text
      BY <1>1, <1>4, NodeFacts
    <2>4. QED
      BY <2>1, <2>2, <2>3, LongestFacts
  <1>5. ASSUME f # <<>>
        PROVE  /\ Longest(words, Tail(f)) \in Nodes(words) /\ Len(Longest(words, Tail(f))) < Len(f)
               /\ ~Edge(words, f, r) =>
                    Longest(words, Append(f, r)) = Longest(words, Append(Longest(words, Tail(f)), r))
    <2>1. Tail(f) \in Text /\ Len(Tail(f)) = Len(f) - 1
      BY <1>1, <1>5, RestOfText
    <2>2. /\ Longest(words, Tail(f)) \in Nodes(words) /\ Longest(words, Tail(f)) \in Text
          /\ Len(Longest(words, Tail(f))) <= Len(Tail(f))
      BY <2>1, LongestFacts
    <2>6. Len(Longest(words, Tail(f))) \in Nat
      BY <2>2, TextFacts
    <2>3. Len(Longest(words, Tail(f))) < Len(f)
      BY <1>1, <2>1, <2>2, <2>6
    <2>4. ASSUME ~Edge(words, f, r)
          PROVE  Longest(words, Append(f, r)) = Longest(words, Append(Longest(words, Tail(f)), r))
      <3>1. Longest(words, Append(f, r)) = Longest(words, Tail(Append(f, r)))
        BY <1>2, <2>4, LongestFacts DEF Edge
      <3>2. Tail(Append(f, r)) = Append(Tail(f), r)
        BY <1>1, <1>5, RestOfAppended
      <3>3. Longest(words, Append(Tail(f), r)) = Longest(words, Append(Longest(words, Tail(f)), r))
        BY <2>1, LongestGoesOn
      <3>4. QED
        BY <3>1, <3>2, <3>3
    <2>5. QED
      BY <2>2, <2>3, <2>4
  <1>6. QED
    BY <1>1, <1>3, <1>4, <1>5

(* What buildAC says of a node, from what it says of shorter ones. *)
AlongAt(words, fail, n, along, f) ==
  IF Edge(words, f, n[Len(n)]) THEN Append(f, n[Len(n)]) ELSE IF f = <<>> THEN <<>> ELSE along[fail[f]]
AlongOf(words, fail, n) ==
  CHOOSE along : along = [f \in Shorter(words, n) |-> AlongAt(words, fail, n, along, f)]
FailAt(words, fail, n) ==
  IF Len(n) = 1 THEN <<>> ELSE AlongOf(words, fail, n)[fail[SubSeq(n, 1, Len(n) - 1)]]

LEMMA FailUnfolds ==
  ASSUME NEW words
  PROVE  Fail(words) = CHOOSE fail : fail = [n \in Nodes(words) \ {<<>>} |-> FailAt(words, fail, n)]
  BY DEF Fail, FailAt, AlongOf, AlongAt

LEMMA AlongFinds ==
  ASSUME NEW words, WordList(words), NEW n \in Nodes(words), n # <<>>, NEW fail,
         \A f \in Shorter(words, n) : f # <<>> => fail[f] = Longest(words, Tail(f))
  PROVE  \A f \in Shorter(words, n) : AlongOf(words, fail, n)[f] = Longest(words, Append(f, n[Len(n)]))
  <1> DEFINE r == n[Len(n)]
             good == [f \in Shorter(words, n) |-> Longest(words, Append(f, r))]
             along == AlongOf(words, fail, n)
  <1>1. n \in Text /\ r \in Letters /\ Len(n) \in Nat
    BY NodeFacts, LastAdded, TextFacts
  <1> HIDE DEF r
  <1>2. ASSUME NEW f \in Shorter(words, n)
        PROVE  /\ f \in Nodes(words) /\ Len(f) \in Nat /\ Len(f) < Len(n)
               /\ f # <<>> => fail[f] \in Shorter(words, n) /\ Len(fail[f]) < Len(f) /\ Len(fail[f]) \in Nat
               /\ Longest(words, Append(f, r)) =
                    IF Edge(words, f, r) THEN Append(f, r) ELSE IF f = <<>> THEN <<>> ELSE Longest(words, Append(fail[f], r))
    <2>1. f \in Nodes(words) /\ Len(f) < Len(n)
      BY DEF Shorter
    <2>2. Len(f) \in Nat
      BY <1>1, <2>1, LetterRead
    <2>3. ASSUME f # <<>>
          PROVE  fail[f] \in Shorter(words, n) /\ Len(fail[f]) < Len(f) /\ Len(fail[f]) \in Nat
      <3>1. fail[f] = Longest(words, Tail(f))
        BY <2>3
      <3>2. fail[f] \in Nodes(words) /\ Len(fail[f]) < Len(f)
        BY <1>1, <2>1, <2>3, <3>1, LetterRead
      <3>3. Len(fail[f]) \in Nat
        BY <1>1, <3>2, LetterRead
      <3>4. Len(fail[f]) < Len(n)
        BY <1>1, <2>1, <2>2, <3>2, <3>3
      <3>5. QED
        BY <3>2, <3>3, <3>4 DEF Shorter
    <2>4. Longest(words, Append(f, r)) =
            IF Edge(words, f, r) THEN Append(f, r) ELSE IF f = <<>> THEN <<>> ELSE Longest(words, Append(fail[f], r))
      BY <1>1, <2>1, LetterRead
    <2>5. QED
      BY <2>1, <2>2, <2>3, <2>4
  <1>3. good = [f \in Shorter(words, n) |-> AlongAt(words, fail, n, good, f)]
    <2>1. ASSUME NEW f \in Shorter(words, n) PROVE AlongAt(words, fail, n, good, f) = Longest(words, Append(f, r))
      <3>1. f # <<>> => good[fail[f]] = Longest(words, Append(fail[f], r))
        BY <1>2
      <3> HIDE DEF good
      <3>2. QED
        BY <1>2, <3>1 DEF AlongAt, r
    <2>2. QED
      BY <2>1
  <1> HIDE DEF good
  <1>4. along = [f \in Shorter(words, n) |-> AlongAt(words, fail, n, along, f)]
    BY <1>3 DEF AlongOf
  <1> HIDE DEF along
  <1>5. \A f \in Shorter(words, n) : along[f] = AlongAt(words, fail, n, along, f)
    BY <1>4
  <1> DEFINE T == {k \in 0..Len(n) : \A f \in Shorter(words, n) : Len(f) < k => along[f] = Longest(words, Append(f, r))}
  <1>6. 0 \in T
    BY <1>1, <1>2
  <1>7. ASSUME NEW k \in 0..Len(n), k \in T, k < Len(n) PROVE k + 1 \in T
    <2>1. ASSUME NEW f \in Shorter(words, n), Len(f) < k + 1 PROVE along[f] = Longest(words, Append(f, r))
      <3>1. f # <<>> => along[fail[f]] = Longest(words, Append(fail[f], r))
        <4>1. f # <<>> => fail[f] \in Shorter(words, n) /\ Len(fail[f]) < k
          BY <1>1, <1>2, <2>1
        <4>2. QED
          BY <1>7, <4>1
      <3>2. along[f] = AlongAt(words, fail, n, along, f)
        BY <1>5
      <3>3. QED
        BY <1>2, <3>1, <3>2 DEF AlongAt, r
    <2>2. k + 1 \in 0..Len(n)
      BY <1>1, <1>7
    <2>3. QED
      BY <2>1, <2>2
  <1> HIDE DEF T
  <1>8. \A k \in 0..Len(n) : k \in T
    BY <1>1, <1>6, <1>7, UpTo
  <1>9. Len(n) \in T
    BY <1>1, <1>8
  <1>10. QED
    BY <1>2, <1>9 DEF T, along, r

(* Every node fails to the longest shorter end of it that is a node.               *)
LEMMA FailFinds ==
  ASSUME NEW words, WordList(words)
  PROVE  \A n \in Nodes(words) : n # <<>> => Fail(words)[n] = Longest(words, Tail(n))
  <1> DEFINE inner == Nodes(words) \ {<<>>}
             good == [n \in inner |-> Longest(words, Tail(n))]
  <1>1. ASSUME NEW n \in inner, NEW fail, \A f \in Shorter(words, n) : f # <<>> => fail[f] = Longest(words, Tail(f))
        PROVE  FailAt(words, fail, n) = Longest(words, Tail(n))
    <2> DEFINE front == SubSeq(n, 1, Len(n) - 1)
               r == n[Len(n)]
    <2>1. n \in Nodes(words) /\ n # <<>> /\ n \in Text /\ Len(n) \in Nat \ {0}
      BY NodeFacts, TextFacts
    <2>2. front \in Nodes(words) /\ front \in Text /\ Len(front) = Len(n) - 1 /\ r \in Letters /\ Append(front, r) = n
      BY <2>1, NodeFacts, LastAdded
    <2>3. CASE Len(n) = 1
      <3>1. Tail(n) \in Text /\ Len(Tail(n)) = 0
        BY <2>1, <2>3, RestOfText
      <3>2. Tail(n) = <<>> /\ <<>> \in Nodes(words)
        BY <3>1, TextFacts, NodeFacts
      <3>3. Longest(words, Tail(n)) = <<>>
        BY <3>1, <3>2, LongestFacts
      <3>4. QED
        BY <2>3, <3>3 DEF FailAt
    <2>4. CASE Len(n) # 1
      <3> HIDE DEF front, r
      <3>1. front # <<>> /\ Len(front) < Len(n) /\ front \in Shorter(words, n)
        BY <2>1, <2>2, <2>4, TextFacts DEF Shorter
      <3>2. fail[front] = Longest(words, Tail(front))
        BY <1>1, <3>1
      <3>3. fail[front] \in Nodes(words) /\ Len(fail[front]) < Len(front) /\ Len(fail[front]) \in Nat
        BY <2>2, <3>1, <3>2, LetterRead
      <3>4. fail[front] \in Shorter(words, n)
        BY <2>1, <2>2, <3>3 DEF Shorter
      <3>5. \A f \in Shorter(words, n) : AlongOf(words, fail, n)[f] = Longest(words, Append(f, n[Len(n)]))
        BY <1>1, <2>1, AlongFinds
      <3>6. AlongOf(words, fail, n)[fail[front]] = Longest(words, Append(fail[front], r))
        BY <3>4, <3>5 DEF r
      <3>7. Tail(front) \in Text
        BY <2>2, <3>1, RestOfText
      <3>8. Longest(words, Append(fail[front], r)) = Longest(words, Append(Tail(front), r))
        BY <2>2, <3>2, <3>7, LongestGoesOn
      <3>9. Tail(n) = Append(Tail(front), r)
        BY <2>2, <3>1, RestOfAppended
      <3>10. FailAt(words, fail, n) = AlongOf(words, fail, n)[fail[front]]
        BY <2>4 DEF FailAt, front
      <3>11. QED
        BY <3>6, <3>8, <3>9, <3>10
    <2>5. QED
      BY <2>3, <2>4
  <1>2. good = [n \in inner |-> FailAt(words, good, n)]
    <2>1. ASSUME NEW n \in inner PROVE FailAt(words, good, n) = Longest(words, Tail(n))
      <3>1. \A f \in Shorter(words, n) : f # <<>> => good[f] = Longest(words, Tail(f))
        BY DEF Shorter
      <3> HIDE DEF good
      <3>2. QED
        BY <1>1, <3>1
    <2>2. QED
      BY <2>1
  <1> DEFINE fail == Fail(words)
  <1> HIDE DEF good
  <1>3. fail = [n \in inner |-> FailAt(words, fail, n)]
    BY <1>2, FailUnfolds
  <1> HIDE DEF fail
  <1>4. \A n \in inner : fail[n] = FailAt(words, fail, n)
    BY <1>3
  <1>5. ASSUME NEW k \in Nat PROVE \A n \in inner : Len(n) <= k => fail[n] = Longest(words, Tail(n))
    <2> DEFINE T == {j \in 0..k : \A n \in inner : Len(n) <= j => fail[n] = Longest(words, Tail(n))}
    <2>1. \A n \in inner : Len(n) \in Nat \ {0}
      BY NodeFacts, TextFacts
    <2> HIDE DEF inner
    <2>2. 0 \in T
      BY <2>1
    <2>3. ASSUME NEW j \in 0..k, j \in T, j < k PROVE j + 1 \in T
      <3>1. ASSUME NEW n \in inner, Len(n) <= j + 1 PROVE fail[n] = Longest(words, Tail(n))
        <4>1. ASSUME NEW f \in Shorter(words, n), f # <<>> PROVE fail[f] = Longest(words, Tail(f))
          <5>1. f \in inner /\ Len(f) < Len(n)
            BY <4>1 DEF inner, Shorter
          <5>2. Len(f) <= j
            BY <2>1, <3>1, <5>1
          <5>3. QED
            BY <2>3, <5>1, <5>2
        <4>2. FailAt(words, fail, n) = Longest(words, Tail(n))
          BY <1>1, <4>1
        <4>3. QED
          BY <1>4, <4>2
      <3>2. j + 1 \in 0..k
        BY <2>3
      <3>3. QED
        BY <3>1, <3>2
    <2> HIDE DEF T
    <2>4. k \in T
      BY <2>2, <2>3, UpTo
    <2>5. QED
      BY <2>4 DEF T
  <1>6. ASSUME NEW n \in Nodes(words), n # <<>> PROVE fail[n] = Longest(words, Tail(n))
    <2>1. n \in inner /\ Len(n) \in Nat /\ Len(n) <= Len(n)
      BY <1>6, NodeFacts, TextFacts
    <2>2. QED
      BY <1>5, <2>1
  <1>7. QED
    BY <1>6 DEF fail

(* A text ends with a word of the list. *)
EndsInWord(words, x) == \E w \in words : Ends(x, w)

LEMMA WordKept ==
  ASSUME NEW words, WordList(words), NEW x \in Text
  PROVE  /\ EndsInWord(words, Longest(words, x)) <=> EndsInWord(words, x)
         /\ EndsInWord(words, x) <=> x # <<>> /\ (x \in words \/ EndsInWord(words, Tail(x)))
  <1>1. words \subseteq Nodes(words) /\ \A w \in words : w \in Text /\ w # <<>>
    BY NodeFacts DEF WordList
  <1>2. IsLongest(words, x, Longest(words, x)) /\ Longest(words, x) \in Text
    BY LongestIs, LongestFacts
  <1>3. ASSUME NEW w \in words PROVE Ends(Longest(words, x), w) <=> Ends(x, w)
    <2>1. Ends(x, w) => Ends(Longest(words, x), w)
      BY <1>1, <1>2 DEF IsLongest
    <2>2. Ends(x, Longest(words, x))
      BY <1>2 DEF IsLongest
    <2>3. w \in Text
      BY <1>1
    <2>4. Ends(Longest(words, x), w) => Ends(x, w)
      BY <1>2, <2>2, <2>3, EndsOrder
    <2>5. QED
      BY <2>1, <2>4
  <1>4. ASSUME NEW w \in words PROVE Ends(x, w) => x # <<>>
    <2>1. Len(w) \in Nat \ {0} /\ Len(x) \in Nat
      BY <1>1, TextFacts
    <2>2. Ends(x, w) => Len(x) # 0
      BY <2>1 DEF Ends
    <2>3. QED
      BY <2>2, TextFacts
  <1>5. ASSUME x # <<>>, NEW w \in words PROVE Ends(x, w) <=> w = x \/ Ends(Tail(x), w)
    <2>1. w \in Text /\ Tail(x) \in Text /\ Ends(x, Tail(x))
      BY <1>1, <1>5, RestOfText, EndsOfRest
    <2>2. Ends(x, w) => w = x \/ Ends(Tail(x), w)
      BY <1>5, <2>1, EndsOfRest
    <2>3. Ends(x, x)
      BY EndsOrder
    <2>4. Ends(Tail(x), w) => Ends(x, w)
      BY <2>1, EndsOrder
    <2>5. QED
      BY <2>2, <2>3, <2>4
  <1>6. EndsInWord(words, Longest(words, x)) <=> EndsInWord(words, x)
    BY <1>3 DEF EndsInWord
  <1>7. EndsInWord(words, x) <=> x # <<>> /\ (x \in words \/ EndsInWord(words, Tail(x)))
    BY <1>4, <1>5 DEF EndsInWord
  <1>8. QED
    BY <1>6, <1>7

(* A node is terminal when a word ends at it. *)
LEMMA TerminalFinds ==
  ASSUME NEW words, WordList(words)
  PROVE  \A n \in Nodes(words) : Terminal(words)[n] <=> EndsInWord(words, n)
  <1> DEFINE ended(end, n) == n # <<>> /\ (n \in words \/ end[Fail(words)[n]])
             good == [n \in Nodes(words) |-> EndsInWord(words, n)]
             end == Terminal(words)
  <1>1. ASSUME NEW n \in Nodes(words)
        PROVE  /\ n \in Text /\ Len(n) \in Nat
               /\ n # <<>> => Fail(words)[n] \in Nodes(words) /\ Len(Fail(words)[n]) < Len(n)
               /\ EndsInWord(words, n) <=> n # <<>> /\ (n \in words \/ EndsInWord(words, Fail(words)[n]))
    <2>1. n \in Text /\ Len(n) \in Nat
      BY NodeFacts, TextFacts
    <2>2. ASSUME n # <<>>
          PROVE  /\ Fail(words)[n] = Longest(words, Tail(n))
                 /\ Fail(words)[n] \in Nodes(words) /\ Len(Fail(words)[n]) < Len(n)
                 /\ EndsInWord(words, Fail(words)[n]) <=> EndsInWord(words, Tail(n))
      <3>1. Fail(words)[n] = Longest(words, Tail(n))
        BY <2>2, FailFinds
      <3>2. n[Len(n)] \in Letters
        BY <2>1, <2>2, LastAdded
      <3>3. Tail(n) \in Text
        BY <2>1, <2>2, RestOfText
      <3>4. QED
        BY <2>2, <3>1, <3>2, <3>3, LetterRead, WordKept
    <2>3. EndsInWord(words, n) <=> n # <<>> /\ (n \in words \/ EndsInWord(words, Tail(n)))
      BY <2>1, WordKept
    <2>4. QED
      BY <2>1, <2>2, <2>3
  <1>2. good = [n \in Nodes(words) |-> ended(good, n)]
    <2>1. ASSUME NEW n \in Nodes(words) PROVE ended(good, n) = EndsInWord(words, n)
      <3>1. n # <<>> => good[Fail(words)[n]] = EndsInWord(words, Fail(words)[n])
        BY <1>1
      <3>2. EndsInWord(words, n) <=> n # <<>> /\ (n \in words \/ EndsInWord(words, Fail(words)[n]))
        BY <1>1
      <3> HIDE DEF good
      <3>3. ended(good, n) <=> EndsInWord(words, n)
        BY <3>1, <3>2
      <3>4. QED
        BY <3>3 DEF EndsInWord
    <2>2. QED
      BY <2>1
  <1> HIDE DEF good
  <1>3. end = CHOOSE e : e = [n \in Nodes(words) |-> ended(e, n)]
    BY DEF Terminal
  <1> HIDE DEF ended
  <1>4. end = [n \in Nodes(words) |-> ended(end, n)]
    BY <1>2, <1>3
  <1> HIDE DEF end
  <1>5. \A n \in Nodes(words) : end[n] = ended(end, n)
    BY <1>4
  <1>6. ASSUME NEW k \in Nat PROVE \A n \in Nodes(words) : Len(n) < k => (end[n] <=> EndsInWord(words, n))
    <2> DEFINE T == {j \in 0..k : \A n \in Nodes(words) : Len(n) < j => (end[n] <=> EndsInWord(words, n))}
    <2>1. 0 \in T
      BY <1>1
    <2>2. ASSUME NEW j \in 0..k, j \in T, j < k PROVE j + 1 \in T
      <3>1. ASSUME NEW n \in Nodes(words), Len(n) < j + 1 PROVE end[n] <=> EndsInWord(words, n)
        <4>1. n # <<>> => Fail(words)[n] \in Nodes(words) /\ Len(Fail(words)[n]) < j
          <5>1. \A m \in Nodes(words) : Len(m) \in Nat
            BY <1>1
          <5>2. n # <<>> => Fail(words)[n] \in Nodes(words) /\ Len(Fail(words)[n]) < Len(n)
            BY <1>1
          <5>3. QED
            BY <3>1, <5>1, <5>2
        <4>2. n # <<>> => (end[Fail(words)[n]] <=> EndsInWord(words, Fail(words)[n]))
          BY <2>2, <4>1
        <4>3. end[n] <=> n # <<>> /\ (n \in words \/ end[Fail(words)[n]])
          BY <1>5 DEF ended
        <4>4. EndsInWord(words, n) <=> n # <<>> /\ (n \in words \/ EndsInWord(words, Fail(words)[n]))
          BY <1>1
        <4>5. QED
          BY <4>2, <4>3, <4>4
      <3>2. j + 1 \in 0..k
        BY <2>2
      <3>3. QED
        BY <3>1, <3>2
    <2> HIDE DEF T
    <2>3. k \in T
      BY <2>1, <2>2, UpTo
    <2>4. QED
      BY <2>3 DEF T
  <1>7. ASSUME NEW n \in Nodes(words) PROVE end[n] <=> EndsInWord(words, n)
    <2>1. Len(n) \in Nat
      BY <1>1
    <2>2. Len(n) + 1 \in Nat /\ Len(n) < Len(n) + 1
      BY <2>1
    <2>3. QED
      BY <1>6, <2>2
  <1>8. QED
    BY <1>7 DEF end

LEMMA FrontOfAppended ==
  ASSUME NEW x \in Text, NEW r \in Letters
  PROVE  SubSeq(Append(x, r), 1, Len(Append(x, r)) - 1) = x
  <1> DEFINE y == Append(x, r)
  <1>1. y \in Text /\ y # <<>> /\ Len(y) = Len(x) + 1 /\ Len(x) \in Nat /\ \A i \in 1..Len(x) : y[i] = x[i]
    BY LetterAdded, TextFacts
  <1> HIDE DEF y
  <1>2. SubSeq(y, 1, Len(y) - 1) \in Text /\ Len(SubSeq(y, 1, Len(y) - 1)) = Len(x)
    BY <1>1, LastAdded
  <1>3. ASSUME NEW i \in 1..Len(x) PROVE SubSeq(y, 1, Len(y) - 1)[i] = x[i]
    <2>1. /\ 1 \in 1..Len(y) + 1 /\ Len(y) - 1 \in 0..Len(y) /\ 1 <= (Len(y) - 1) + 1
          /\ i \in 1..((Len(y) - 1) - 1 + 1) /\ 1 + i - 1 = i
      BY <1>1
    <2>2. SubSeq(y, 1, Len(y) - 1)[i] = y[1 + i - 1]
      BY <1>1, <2>1, PartOfText
    <2>3. QED
      BY <1>1, <2>1, <2>2
  <1>4. QED
    BY <1>2, <1>3, SameText DEF y

(* Falling back until the letter fits, and then taking the edge, goes on to the   *)
(* longest end of what was read with the letter.                                   *)
EdgeTaken(words, node, r) == IF Edge(words, node, r) THEN Append(node, r) ELSE <<>>

LEMMA FallBackFinds ==
  ASSUME NEW words, WordList(words), NEW r \in Letters
  PROVE  \A n \in Nodes(words) : EdgeTaken(words, FallBack(words, n, r), r) = Longest(words, Append(n, r))
  <1> DEFINE fallen(back, n) == IF n = <<>> \/ Edge(words, n, r) THEN n ELSE back[Fail(words)[n]]
             next(n) == Longest(words, Append(n, r))
             good == [n \in Nodes(words) |-> IF next(n) = <<>> THEN <<>> ELSE SubSeq(next(n), 1, Len(next(n)) - 1)]
             back == CHOOSE b : b = [n \in Nodes(words) |-> fallen(b, n)]
  <1>1. ASSUME NEW n \in Nodes(words)
        PROVE  /\ n \in Text /\ Len(n) \in Nat
               /\ Edge(words, n, r) => next(n) = Append(n, r)
               /\ ~Edge(words, n, r) /\ n = <<>> => next(n) = <<>>
               /\ n # <<>> => Fail(words)[n] \in Nodes(words) /\ Len(Fail(words)[n]) < Len(n)
               /\ n # <<>> /\ ~Edge(words, n, r) => next(n) = next(Fail(words)[n])
    <2>1. n # <<>> => Fail(words)[n] = Longest(words, Tail(n))
      BY FailFinds
    <2>2. QED
      BY <2>1, LetterRead
  <1>2. good = [n \in Nodes(words) |-> fallen(good, n)]
    <2>1. ASSUME NEW n \in Nodes(words) PROVE good[n] = fallen(good, n)
      <3>1. CASE Edge(words, n, r)
        <4>1. next(n) = Append(n, r) /\ Append(n, r) # <<>>
          BY <1>1, <3>1, LetterAdded
        <4>2. good[n] = n
          BY <1>1, <4>1, FrontOfAppended
        <4>3. QED
          BY <3>1, <4>2
      <3>2. CASE ~Edge(words, n, r) /\ n = <<>>
        BY <1>1, <3>2
      <3>3. CASE ~Edge(words, n, r) /\ n # <<>>
        <4>1. next(n) = next(Fail(words)[n]) /\ Fail(words)[n] \in Nodes(words)
          BY <1>1, <3>3
        <4> HIDE DEF next
        <4>2. good[n] = good[Fail(words)[n]]
          BY <4>1
        <4> HIDE DEF good
        <4>3. QED
          BY <3>3, <4>2
      <3>4. QED
        BY <3>1, <3>2, <3>3
    <2>2. QED
      BY <2>1
  <1> HIDE DEF good
  <1>3. ASSUME NEW n \in Nodes(words) PROVE FallBack(words, n, r) = back[n]
    BY DEF FallBack
  <1>4. back = [n \in Nodes(words) |-> fallen(back, n)]
    BY <1>2
  <1> HIDE DEF back
  <1>5. \A n \in Nodes(words) : back[n] = fallen(back, n)
    BY <1>4
  <1>6. ASSUME NEW k \in Nat PROVE \A n \in Nodes(words) : Len(n) < k => EdgeTaken(words, back[n], r) = next(n)
    <2> DEFINE T == {j \in 0..k : \A n \in Nodes(words) : Len(n) < j => EdgeTaken(words, back[n], r) = next(n)}
    <2>1. 0 \in T
      BY <1>1
    <2>2. ASSUME NEW j \in 0..k, j \in T, j < k PROVE j + 1 \in T
      <3>1. ASSUME NEW n \in Nodes(words), Len(n) < j + 1 PROVE EdgeTaken(words, back[n], r) = next(n)
        <4>1. CASE n = <<>> \/ Edge(words, n, r)
          <5>1. back[n] = n
            BY <1>5, <4>1
          <5>2. EdgeTaken(words, n, r) = next(n)
            BY <1>1, <4>1 DEF EdgeTaken
          <5>3. QED
            BY <5>1, <5>2
        <4>2. CASE n # <<>> /\ ~Edge(words, n, r)
          <5>1. \A m \in Nodes(words) : Len(m) \in Nat
            BY <1>1
          <5>2. Fail(words)[n] \in Nodes(words) /\ Len(Fail(words)[n]) < Len(n) /\ next(n) = next(Fail(words)[n])
            BY <1>1, <4>2
          <5>3. Len(Fail(words)[n]) < j
            BY <3>1, <5>1, <5>2
          <5>4. EdgeTaken(words, back[Fail(words)[n]], r) = next(Fail(words)[n])
            BY <2>2, <5>2, <5>3
          <5>5. back[n] = back[Fail(words)[n]]
            BY <1>5, <4>2
          <5>6. QED
            BY <5>2, <5>4, <5>5
        <4>3. QED
          BY <4>1, <4>2
      <3>2. j + 1 \in 0..k
        BY <2>2
      <3>3. QED
        BY <3>1, <3>2
    <2> HIDE DEF T
    <2>3. k \in T
      BY <2>1, <2>2, UpTo
    <2>4. QED
      BY <2>3 DEF T
  <1>7. ASSUME NEW n \in Nodes(words) PROVE EdgeTaken(words, back[n], r) = next(n)
    <2>1. Len(n) \in Nat
      BY <1>1
    <2>2. Len(n) + 1 \in Nat /\ Len(n) < Len(n) + 1
      BY <2>1
    <2>3. QED
      BY <1>6, <2>2
  <1>8. QED
    BY <1>3, <1>7

(* After each letter the automaton is at the longest end of what was read that is a *)
(* node, so it meets a terminal node exactly when a word ends there: contains()      *)
(* reports that a word of the list occurs in the text, for every list and text.      *)
THEOREM MatcherFinds ==
  ASSUME NEW words, WordList(words), NEW text \in Text
  PROVE  Contains(words, text) = Holds(words, text)
  <1> DEFINE moved(at, i) == IF i = 0 THEN <<>> ELSE EdgeTaken(words, FallBack(words, at[i - 1], text[i]), text[i])
             read(i) == SubSeq(text, 1, i)
             good == [i \in 0..Len(text) |-> Longest(words, read(i))]
             at == CHOOSE a : a = [i \in 0..Len(text) |-> moved(a, i)]
  <1>1. Len(text) \in Nat
    BY TextFacts
  <1>2. ASSUME NEW i \in 0..Len(text)
        PROVE  read(i) \in Text /\ Len(read(i)) = i /\ \A k \in 1..i : read(i)[k] = text[k]
    <2>1. 1 \in 1..Len(text) + 1 /\ 1 <= i + 1 /\ i - 1 + 1 = i /\ \A k \in 1..i : 1 + k - 1 = k
      BY <1>1
    <2>2. read(i) \in Text /\ Len(read(i)) = i - 1 + 1 /\ \A k \in 1..(i - 1 + 1) : read(i)[k] = text[1 + k - 1]
      BY <2>1, PartOfText
    <2> HIDE DEF read
    <2>3. QED
      BY <2>1, <2>2
  <1>3. ASSUME NEW i \in 1..Len(text)
        PROVE  /\ i - 1 \in 0..Len(text) /\ text[i] \in Letters
               /\ Longest(words, read(i)) = Longest(words, Append(Longest(words, read(i - 1)), text[i]))
    <2>1. i - 1 \in 0..Len(text) /\ i \in 0..Len(text) /\ text[i] \in Letters
      BY <1>1, TextFacts
    <2>2. /\ read(i) \in Text /\ Len(read(i)) = i /\ \A k \in 1..i : read(i)[k] = text[k]
          /\ read(i - 1) \in Text /\ Len(read(i - 1)) = i - 1 /\ \A k \in 1..(i - 1) : read(i - 1)[k] = text[k]
      BY <1>2, <2>1
    <2> HIDE DEF read
    <2>3. /\ Append(read(i - 1), text[i]) \in Text /\ Len(Append(read(i - 1), text[i])) = i
          /\ Append(read(i - 1), text[i])[i] = text[i]
          /\ \A k \in 1..(i - 1) : Append(read(i - 1), text[i])[k] = text[k]
      <3>1. /\ Append(read(i - 1), text[i]) \in Text /\ Len(Append(read(i - 1), text[i])) = (i - 1) + 1
            /\ Append(read(i - 1), text[i])[(i - 1) + 1] = text[i]
            /\ \A k \in 1..(i - 1) : Append(read(i - 1), text[i])[k] = read(i - 1)[k]
        BY <2>1, <2>2, LetterAdded
      <3>2. (i - 1) + 1 = i
        BY <1>1
      <3>3. QED
        BY <2>2, <3>1, <3>2
    <2>4. ASSUME NEW k \in 1..i PROVE read(i)[k] = Append(read(i - 1), text[i])[k]
      <3>1. k = i \/ k \in 1..(i - 1)
        BY <1>1
      <3>2. QED
        BY <2>2, <2>3, <3>1
    <2>5. read(i) = Append(read(i - 1), text[i])
      BY <2>2, <2>3, <2>4, SameText
    <2>6. QED
      BY <2>1, <2>2, <2>5, LongestGoesOn
  <1>4. Longest(words, read(0)) = <<>> /\ <<>> \in Nodes(words)
    <2>1. read(0) = <<>>
      BY <1>1, <1>2, TextFacts
    <2>2. <<>> \in Nodes(words) /\ <<>> \in Text
      BY NodeFacts, TextFacts
    <2>3. QED
      BY <2>1, <2>2, LongestFacts
  <1>5. ASSUME NEW i \in 0..Len(text) PROVE Longest(words, read(i)) \in Nodes(words)
    BY <1>2, LongestFacts
  <1>6. ASSUME NEW i \in 1..Len(text), NEW a, a[i - 1] = Longest(words, read(i - 1))
        PROVE  moved(a, i) = Longest(words, read(i))
    <2>1. EdgeTaken(words, FallBack(words, a[i - 1], text[i]), text[i]) = Longest(words, Append(a[i - 1], text[i]))
      BY <1>3, <1>5, <1>6, FallBackFinds
    <2>2. i # 0
      BY <1>1
    <2> HIDE DEF read
    <2>3. QED
      BY <1>3, <1>6, <2>1, <2>2
  <1> HIDE DEF read
  <1>7. good = [i \in 0..Len(text) |-> moved(good, i)]
    <2>1. ASSUME NEW i \in 0..Len(text) PROVE good[i] = moved(good, i)
      <3>1. CASE i = 0
        BY <1>4, <3>1
      <3>2. CASE i # 0
        <4>1. i \in 1..Len(text) /\ i - 1 \in 0..Len(text)
          BY <1>1, <3>2
        <4>2. good[i - 1] = Longest(words, read(i - 1)) /\ good[i] = Longest(words, read(i))
          BY <4>1
        <4> HIDE DEF good, moved
        <4>3. QED
          BY <1>6, <4>1, <4>2
      <3>3. QED
        BY <3>1, <3>2
    <2> HIDE DEF moved
    <2>2. QED
      BY <2>1
  <1>8. Contains(words, text) = \E i \in 1..Len(text) : Terminal(words)[at[i]]
    BY DEF Contains, EdgeTaken
  <1> HIDE DEF moved, good
  <1>9. at = [i \in 0..Len(text) |-> moved(at, i)]
    BY <1>7
  <1> HIDE DEF at
  <1>10. \A i \in 0..Len(text) : at[i] = moved(at, i)
    BY <1>9
  <1> DEFINE T == {i \in 0..Len(text) : at[i] = Longest(words, read(i))}
  <1>11. 0 \in T
    BY <1>1, <1>4, <1>10 DEF moved
  <1>12. ASSUME NEW i \in 0..Len(text), i \in T, i < Len(text) PROVE i + 1 \in T
    <2>1. i + 1 \in 1..Len(text) /\ (i + 1) - 1 = i /\ i + 1 \in 0..Len(text)
      BY <1>1, <1>12
    <2>2. moved(at, i + 1) = Longest(words, read(i + 1))
      BY <1>6, <1>12, <2>1
    <2>3. QED
      BY <1>10, <2>1, <2>2
  <1> HIDE DEF T
  <1>13. \A i \in 0..Len(text) : i \in T
    BY <1>1, <1>11, <1>12, UpTo
  <1>14. ASSUME NEW i \in 1..Len(text) PROVE Terminal(words)[at[i]] <=> EndsInWord(words, read(i))
    <2>1. i \in 0..Len(text)
      BY <1>1
    <2>2. at[i] = Longest(words, read(i))
      BY <1>13, <2>1 DEF T
    <2>3. Terminal(words)[at[i]] <=> EndsInWord(words, at[i])
      BY <1>5, <2>1, <2>2, TerminalFinds
    <2>4. QED
      BY <1>2, <2>1, <2>2, <2>3, WordKept
  <1>15. ASSUME NEW w \in words
         PROVE  Occurs(w, text) <=> \E i \in 1..Len(text) : Ends(read(i), w)
    <2>1. w \in Text /\ Len(w) \in Nat \ {0}
      BY TextFacts DEF WordList
    <2>2. ASSUME NEW i \in 1..Len(text), Len(w) <= i
          PROVE  Ends(read(i), w) <=> SubSeq(text, i - Len(w) + 1, i) = w
      <3>1. /\ i \in 0..Len(text) /\ i - Len(w) + 1 \in 1..Len(text) + 1 /\ i - Len(w) + 1 <= i + 1
            /\ i - (i - Len(w) + 1) + 1 = Len(w) /\ i - Len(w) + 1 \in 1..Len(text)
        BY <1>1, <2>1, <2>2
      <3>2. /\ read(i) \in Text /\ Len(read(i)) = i /\ \A k \in 1..i : read(i)[k] = text[k]
        BY <1>2, <3>1
      <3> DEFINE part == SubSeq(text, i - Len(w) + 1, i)
      <3>3. /\ part \in Text /\ Len(part) = i - (i - Len(w) + 1) + 1
            /\ \A k \in 1..(i - (i - Len(w) + 1) + 1) : part[k] = text[(i - Len(w) + 1) + k - 1]
        BY <3>1, PartOfText
      <3> HIDE DEF part
      <3>4. Len(part) = Len(w) /\ \A k \in 1..Len(w) : part[k] = text[(i - Len(w) + 1) + k - 1]
        BY <3>1, <3>3
      <3>5. ASSUME NEW k \in 1..Len(w) PROVE read(i)[i - Len(w) + k] = part[k]
        <4>1. i - Len(w) + k \in 1..i /\ (i - Len(w) + 1) + k - 1 = i - Len(w) + k
          BY <2>1, <2>2, <3>1
        <4>2. QED
          BY <3>2, <3>4, <4>1
      <3>6. ASSUME Ends(read(i), w) PROVE part = w
        <4>1. \A k \in 1..Len(w) : part[k] = w[k]
          BY <3>2, <3>5, <3>6 DEF Ends
        <4>2. QED
          BY <2>1, <3>3, <3>4, <4>1, SameText
      <3>7. ASSUME part = w PROVE Ends(read(i), w)
        BY <2>2, <3>2, <3>5, <3>7 DEF Ends
      <3>8. QED
        BY <3>6, <3>7 DEF part
    <2>3. ASSUME NEW j \in 1..Len(text), j + Len(w) - 1 <= Len(text), SubSeq(text, j, j + Len(w) - 1) = w
          PROVE  \E i \in 1..Len(text) : Ends(read(i), w)
      <3>1. /\ j + Len(w) - 1 \in 1..Len(text) /\ Len(w) <= j + Len(w) - 1
            /\ (j + Len(w) - 1) - Len(w) + 1 = j
        BY <1>1, <2>1, <2>3
      <3>2. Ends(read(j + Len(w) - 1), w)
        BY <2>2, <2>3, <3>1
      <3>3. QED
        BY <3>1, <3>2
    <2>4. ASSUME NEW i \in 1..Len(text), Ends(read(i), w) PROVE Occurs(w, text)
      <3>1. Len(w) <= i
        <4>1. i \in 0..Len(text)
          BY <1>1
        <4>2. Len(read(i)) = i
          BY <1>2, <4>1
        <4>3. QED
          BY <2>4, <4>2 DEF Ends
      <3>2. i - Len(w) + 1 \in 1..Len(text) /\ (i - Len(w) + 1) + Len(w) - 1 = i /\ i <= Len(text)
        BY <1>1, <2>1, <3>1
      <3>3. SubSeq(text, i - Len(w) + 1, i) = w
        BY <2>2, <2>4, <3>1
      <3>4. QED
        BY <3>2, <3>3 DEF Occurs
    <2>5. QED
      BY <2>3, <2>4 DEF Occurs
  <1>16. Contains(words, text) <=> Holds(words, text)
    <2>1. Contains(words, text) <=> \E i \in 1..Len(text) : EndsInWord(words, read(i))
      BY <1>8, <1>14
    <2>2. Holds(words, text) <=> \E w \in words : \E i \in 1..Len(text) : Ends(read(i), w)
      BY <1>15 DEF Holds
    <2>3. QED
      BY <2>1, <2>2 DEF EndsInWord
  <1>17. QED
    BY <1>16 DEF Contains, Holds

(* So it is right for every list a keyword file may have and every text. *)
LEMMA KeywordListsMatched == MatcherCorrect
  <1> SUFFICES ASSUME NEW content \in KeywordFiles, NEW text \in Texts
               PROVE  Contains(AllWords(content), text) = Holds(AllWords(content), text)
    BY DEF MatcherCorrect
  <1>1. \A w \in content[1] \cup content[2] : w \in Seq(Letters) /\ w # <<>>
    <2>1. 1 \in 1..2 /\ 2 \in 1..2
      OBVIOUS
    <2>2. QED
      BY <2>1, SpamCheckAssumption
  <1>2. WordList(AllWords(content))
    BY <1>1 DEF WordList, AllWords, Text
  <1>3. text \in Text
    BY SpamCheckAssumption DEF Text
  <1>4. QED
    BY <1>2, <1>3, MatcherFinds

-----------------------------------------------------------------------------
(* The spam chain.  A list of words is known by the signature of its file, which no *)
(* two contents share: the snapshot is what its file says as long as that file does, *)
(* and what a check has read of a file it holds open is that file's as long as the    *)
(* signature it found before stays.  So the list a check matches is one the file had  *)
(* while the check ran.                                                                *)
Newest(n) == n \in Signatures /\ \A m \in Signatures : m <= n

FileStates == [signature : Nat \ {0}, words : KeywordFiles]

(* No two contents share a signature, and the newest has the greatest. *)
FilesDistinct ==
  /\ files \in Seq(FileStates)
  /\ wordFile \in 0..Len(files)
  /\ \A f, g \in 1..Len(files) : files[f].signature = files[g].signature => f = g
  /\ \E n \in Signatures : Newest(n)

Past(signature) == signature \in Nat /\ \E n \in Signatures : signature <= n

(* A list is what the file of its signature says, as long as that file does. *)
ListOf(signature, words) ==
  /\ Past(signature)
  /\ \A f \in 1..Len(files) : files[f].signature = signature => words = AllWords(files[f].words)

SnapshotTrue == lastGood = [signature |-> lastGood.signature, words |-> lastGood.words]
                /\ ListOf(lastGood.signature, lastGood.words)

Verdict(c, r) == \E content \in during[c] : r.blocked = Holds(AllWords(content), r.text)

CheckFields == {"pc", "text", "enabled", "blocked", "judged", "before", "file", "half", "status"}
Asked == {"akismet", "aliyun", "tencent", "end"}
Reading == {"stat", "first", "second", "verify", "stale"}

(* The file a check has open: one the path named during the check. *)
OpenFile(c, r) ==
  /\ r.file \in 1..Len(files) /\ files[r.file].words \in during[c]
  /\ Past(r.before)

(* How far a check has come, and what it has in hand. *)
Fit(c, r) ==
  \/ r = NotBegun
  \/ /\ r.pc \in Reading \cup Asked \cup {"matched", "decided"}
     /\ {"pc", "text", "blocked", "judged", "status"} \subseteq DOMAIN r
     /\ r.pc \notin {"end", "decided"} => CheckFields \subseteq DOMAIN r /\ r.enabled \in Detectors
     /\ r.text \in Texts
     /\ r.pc \in Reading => ~r.blocked /\ ~r.judged
     /\ r.pc \in Asked => ~r.blocked
     /\ r.judged => Verdict(c, r)
     /\ r.pc # "decided" => r.status = "none"
     /\ r.blocked => r.status # "published"
     /\ r.pc = "first" => Past(r.before)
     /\ r.pc = "second" => /\ OpenFile(c, r)
                           /\ files[r.file].signature = r.before => r.half = files[r.file].words[1]
     /\ r.pc = "verify" => /\ OpenFile(c, r)
                           /\ files[r.file].signature = r.before => r.half = AllWords(files[r.file].words)

CurrentKnown == \A c \in Checks : checking[c] # NotBegun /\ wordFile # 0 => files[wordFile].words \in during[c]

SpamInv ==
  /\ FilesDistinct /\ SnapshotTrue /\ CurrentKnown
  /\ DOMAIN checking = Checks /\ DOMAIN during = Checks
  /\ \A c \in Checks : Fit(c, checking[c])

LEMMA WaitingIsNotBegun ==
  ASSUME SpamInv, NEW c \in Checks
  PROVE  AtCheck(c, "waiting") <=> checking[c] = NotBegun
  <1>1. Fit(c, checking[c])
    BY DEF SpamInv
  <1>2. checking[c] = NotBegun \/ checking[c].pc \in Reading \cup Asked \cup {"matched", "decided"}
    BY <1>1 DEF Fit
  <1>3. checking[c].pc \in Reading \cup Asked \cup {"matched", "decided"} => checking[c].pc # "waiting"
    BY DEF Reading, Asked
  <1>4. NotBegun.pc = "waiting"
    BY DEF NotBegun
  <1>5. QED
    BY <1>2, <1>3, <1>4 DEF AtCheck

(* One check goes on; the file and what it has been stay. *)
LEMMA MoveKeeps ==
  ASSUME SpamInv, NEW c \in Checks, NEW r, Move(c, r), KeepFile, SnapshotTrue', checking[c] # NotBegun,
         Fit(c, r)
  PROVE  SpamInv'
  <1>1. /\ checking' = [checking EXCEPT ![c] = r] /\ UNCHANGED <<wordFile, files, during>>
        /\ DOMAIN checking = Checks
    BY DEF Move, KeepFile, SpamInv
  <1>2. FilesDistinct'
    BY <1>1 DEF SpamInv, FilesDistinct, Newest, Signatures
  <1>3. CurrentKnown'
    BY <1>1 DEF SpamInv, CurrentKnown
  <1>4. ASSUME NEW d \in Checks PROVE Fit(d, checking[d])'
    <2>1. \A x : Fit(d, x) => Fit(d, x)'
      BY <1>1 DEF Fit, Verdict, OpenFile, Past, Signatures
    <2>2. Fit(d, checking'[d])
      BY <1>1 DEF SpamInv
    <2>3. QED
      BY <2>1, <2>2
  <1>5. QED
    BY <1>1, <1>2, <1>3, <1>4 DEF SpamInv

LEMMA SnapshotSame ==
  ASSUME SpamInv, UNCHANGED <<files, lastGood>>
  PROVE  SnapshotTrue'
  BY DEF SpamInv, SnapshotTrue, ListOf, Past, Signatures

(* A list that is what some content of the check says gives its verdict. *)
LEMMA MatchKeeps ==
  ASSUME SpamInv, NEW c \in Checks, NEW words, Match(c, words), KeepFile, SnapshotTrue',
         checking[c].pc \in Reading, \E content \in during[c] \cap KeywordFiles : words = AllWords(content)
  PROVE  SpamInv'
  <1> DEFINE old == checking[c]
  <1>1. Fit(c, old) /\ old # NotBegun
    BY DEF SpamInv, Reading, NotBegun
  <1>2. /\ CheckFields \subseteq DOMAIN old /\ old.text \in Texts /\ old.enabled \in Detectors
        /\ old.status = "none"
    BY <1>1 DEF Fit, Reading
  <1>3. PICK content \in during[c] \cap KeywordFiles : words = AllWords(content)
    OBVIOUS
  <1>4. Contains(words, old.text) = Holds(AllWords(content), old.text)
    BY <1>2, <1>3, KeywordListsMatched DEF MatcherCorrect
  <1>5. PICK r : r = [old EXCEPT !.pc = "matched", !.blocked = Contains(words, old.text), !.judged = TRUE]
    OBVIOUS
  <1>6. Move(c, r)
    BY <1>5 DEF Match
  <1>7. /\ r.pc = "matched" /\ r.blocked = Holds(AllWords(content), r.text) /\ r.text \in Texts
        /\ DOMAIN r = DOMAIN old /\ r.enabled = old.enabled /\ r.status = old.status
    BY <1>2, <1>4, <1>5 DEF CheckFields
  <1>8. QED    <2>1. Fit(c, r)
      BY <1>2, <1>3, <1>7 DEF Fit, Verdict, Reading, Asked, CheckFields
    <2>2. QED
      BY <1>1, <1>6, <2>1, MoveKeeps

(* A check goes on without a list, or with the last good one, which is no verdict. *)
LEMMA GoKeeps ==
  ASSUME SpamInv, NEW c \in Checks, NEW pc, MoveTo(c, pc), KeepFile, UNCHANGED lastGood,
         ~checking[c].blocked,
         \/ checking[c].pc \in Reading /\ pc \in {"stale", "akismet"}
         \/ checking[c].pc \in {"matched", "akismet", "aliyun", "tencent"} /\ pc \in Asked
  PROVE  SpamInv'
  <1> DEFINE old == checking[c]
  <1>1. Fit(c, old) /\ old # NotBegun
    BY DEF SpamInv, Reading, NotBegun
  <1>2. PICK r : r = [old EXCEPT !.pc = pc]
    OBVIOUS
  <1>3. Move(c, r)
    BY <1>2 DEF MoveTo
  <1>4. /\ {"pc", "text", "blocked", "judged", "status"} \subseteq DOMAIN old
        /\ CheckFields \subseteq DOMAIN old /\ old.enabled \in Detectors /\ old.status = "none"
        /\ old.text \in Texts /\ (old.judged => Verdict(c, old)) /\ (old.pc \in Reading => ~old.judged)
    BY <1>1 DEF Fit, Reading
  <1>5. /\ r.pc = pc /\ DOMAIN r = DOMAIN old /\ r.enabled = old.enabled /\ r.status = old.status
        /\ r.text = old.text /\ r.judged = old.judged /\ r.blocked = old.blocked
    BY <1>2, <1>4 DEF CheckFields
  <1>6. r.judged => Verdict(c, r)
    BY <1>4, <1>5 DEF Verdict
  <1>7. pc \in Reading \cup Asked /\ pc \notin {"first", "second", "verify", "decided", "matched"}
        /\ (pc \in Reading => old.pc \in Reading)
    BY DEF Reading, Asked
  <1>8. Fit(c, r)
    BY <1>4, <1>5, <1>6, <1>7 DEF Fit
  <1>9. SnapshotTrue'
    BY SnapshotSame DEF KeepFile
  <1>10. QED
    BY <1>1, <1>3, <1>8, <1>9, MoveKeeps

LEMMA KeepLastGoodKeeps ==
  ASSUME SpamInv, NEW c \in Checks, KeepLastGood(c), KeepFile, UNCHANGED lastGood, checking[c].pc \in Reading
  PROVE  SpamInv'
  <1>1. ~checking[c].blocked
    BY DEF SpamInv, Fit, Reading, NotBegun
  <1>2. CASE lastGood.signature # 0
    <2>1. MoveTo(c, "stale")
      BY <1>2 DEF KeepLastGood, MoveTo
    <2>2. QED
      BY <1>1, <2>1, GoKeeps
  <1>3. CASE lastGood.signature = 0
    <2>1. MoveTo(c, "akismet")
      BY <1>3 DEF KeepLastGood
    <2>2. QED
      BY <1>1, <2>1, GoKeeps
  <1>4. QED
    BY <1>2, <1>3

LEMMA StateOfFile ==
  ASSUME SpamInv, NEW f \in 1..Len(files)
  PROVE  files[f].signature \in Nat \ {0} /\ files[f].words \in KeywordFiles
  <1>1. files[f] \in FileStates
    BY DEF SpamInv, FilesDistinct
  <1>2. QED
    BY <1>1 DEF FileStates

(* What the path names now is known to every check that has begun. *)
LEMMA NamedFile ==
  ASSUME SpamInv, wordFile # 0
  PROVE  /\ wordFile \in 1..Len(files) /\ wordFile \in DOMAIN files
         /\ files[wordFile].words \in KeywordFiles /\ Past(files[wordFile].signature)
         /\ \A c \in Checks : checking[c] # NotBegun => files[wordFile].words \in during[c]
  <1>1. wordFile \in 1..Len(files) /\ wordFile \in DOMAIN files
    BY DEF SpamInv, FilesDistinct
  <1>2. files[wordFile].signature \in Nat /\ files[wordFile].words \in KeywordFiles
    BY <1>1, StateOfFile
  <1>3. files[wordFile].signature \in Signatures
    BY <1>1 DEF Signatures
  <1>4. Past(files[wordFile].signature)
    BY <1>2, <1>3 DEF Past
  <1>5. QED
    BY <1>1, <1>2, <1>4 DEF SpamInv, CurrentKnown

LEMMA StatKeeps ==
  ASSUME SpamInv, NEW c \in Checks, Stat(c)
  PROVE  SpamInv'
  <1>1. checking[c].pc = "stat" /\ KeepFile /\ UNCHANGED lastGood /\ checking[c].pc \in Reading
    BY DEF Stat, AtCheck, Reading
  <1>2. SnapshotTrue' /\ checking[c] # NotBegun
    BY <1>1, SnapshotSame DEF KeepFile, NotBegun
  <1>3. CASE wordFile = 0
    BY <1>1, <1>3, KeepLastGoodKeeps DEF Stat
  <1>4. CASE wordFile # 0 /\ lastGood.signature = files[wordFile].signature
    <2>1. Match(c, lastGood.words)
      BY <1>4 DEF Stat
    <2>2. lastGood.words = AllWords(files[wordFile].words)
      BY <1>4, NamedFile DEF SpamInv, SnapshotTrue, ListOf
    <2>3. files[wordFile].words \in during[c] \cap KeywordFiles
      BY <1>2, <1>4, NamedFile
    <2>4. QED
      BY <1>1, <1>2, <2>1, <2>2, <2>3, MatchKeeps
  <1>5. CASE wordFile # 0 /\ lastGood.signature # files[wordFile].signature
    <2> DEFINE old == checking[c]
    <2>1. PICK r : r = [old EXCEPT !.pc = "first", !.before = files[wordFile].signature]
      OBVIOUS
    <2>2. Move(c, r)
      BY <1>5, <2>1 DEF Stat
    <2>3. Fit(c, old)
      BY DEF SpamInv
    <2>4. /\ CheckFields \subseteq DOMAIN old /\ old.enabled \in Detectors /\ old.status = "none"
          /\ old.text \in Texts /\ ~old.blocked /\ ~old.judged
      BY <1>1, <1>2, <2>3 DEF Fit, Reading
    <2>5. /\ r.pc = "first" /\ r.before = files[wordFile].signature
          /\ DOMAIN r = DOMAIN old /\ r.enabled = old.enabled /\ r.status = old.status
          /\ r.text = old.text /\ r.judged = old.judged /\ r.blocked = old.blocked
      BY <2>1, <2>4 DEF CheckFields
    <2>6. Past(r.before)
      BY <1>5, <2>5, NamedFile
    <2>7. Fit(c, r)
      BY <2>4, <2>5, <2>6 DEF Fit, Reading, Asked, CheckFields
    <2>8. QED
      BY <1>1, <1>2, <2>2, <2>7, MoveKeeps
  <1>6. QED
    BY <1>3, <1>4, <1>5

LEMMA ReadHalfKeeps ==
  ASSUME SpamInv, NEW c \in Checks, ReadHalf(c)
  PROVE  SpamInv'
  <1>1. checking[c].pc = "first" /\ KeepFile /\ UNCHANGED lastGood /\ checking[c].pc \in Reading
    BY DEF ReadHalf, AtCheck, Reading
  <1>2. SnapshotTrue' /\ checking[c] # NotBegun
    BY <1>1, SnapshotSame DEF KeepFile, NotBegun
  <1>3. CASE wordFile = 0
    BY <1>1, <1>3, KeepLastGoodKeeps DEF ReadHalf
  <1>4. CASE wordFile # 0
    <2> DEFINE old == checking[c]
    <2>1. PICK r : r = [old EXCEPT !.pc = "second", !.file = wordFile, !.half = files[wordFile].words[1]]
      OBVIOUS
    <2>2. Move(c, r)
      BY <1>4, <2>1 DEF ReadHalf
    <2>3. Fit(c, old)
      BY DEF SpamInv
    <2>4. /\ CheckFields \subseteq DOMAIN old /\ old.enabled \in Detectors /\ old.status = "none"
          /\ old.text \in Texts /\ ~old.blocked /\ ~old.judged /\ Past(old.before)
      BY <1>1, <1>2, <2>3 DEF Fit, Reading
    <2>5. /\ r.pc = "second" /\ r.before = old.before /\ r.file = wordFile
          /\ r.half = files[wordFile].words[1]
          /\ DOMAIN r = DOMAIN old /\ r.enabled = old.enabled /\ r.status = old.status
          /\ r.text = old.text /\ r.judged = old.judged /\ r.blocked = old.blocked
      BY <2>1, <2>4 DEF CheckFields
    <2>6. OpenFile(c, r)
      BY <1>2, <1>4, <2>4, <2>5, NamedFile DEF OpenFile
    <2>7. Fit(c, r)
      BY <2>4, <2>5, <2>6 DEF Fit, Reading, Asked, CheckFields
    <2>8. QED
      BY <1>1, <1>2, <2>2, <2>7, MoveKeeps
  <1>5. QED
    BY <1>3, <1>4

LEMMA ReadRestKeeps ==
  ASSUME SpamInv, NEW c \in Checks, ReadRest(c)
  PROVE  SpamInv'
  <1>1. checking[c].pc = "second" /\ KeepFile /\ UNCHANGED lastGood /\ checking[c].pc \in Reading
    BY DEF ReadRest, AtCheck, Reading
  <1>2. SnapshotTrue' /\ checking[c] # NotBegun
    BY <1>1, SnapshotSame DEF KeepFile, NotBegun
  <1> DEFINE old == checking[c]
  <1>3. PICK r : r = [old EXCEPT !.pc = "verify", !.half = @ \cup files[old.file].words[2]]
    OBVIOUS
  <1>4. Move(c, r)
    BY <1>3 DEF ReadRest
  <1>5. Fit(c, old)
    BY DEF SpamInv
  <1>6. /\ CheckFields \subseteq DOMAIN old /\ old.enabled \in Detectors /\ old.status = "none"
        /\ old.text \in Texts /\ ~old.blocked /\ ~old.judged /\ OpenFile(c, old)
        /\ files[old.file].signature = old.before => old.half = files[old.file].words[1]
    BY <1>1, <1>2, <1>5 DEF Fit, Reading
  <1>7. /\ r.pc = "verify" /\ r.before = old.before /\ r.file = old.file
        /\ r.half = old.half \cup files[old.file].words[2]
        /\ DOMAIN r = DOMAIN old /\ r.enabled = old.enabled /\ r.status = old.status
        /\ r.text = old.text /\ r.judged = old.judged /\ r.blocked = old.blocked
    BY <1>3, <1>6 DEF CheckFields
  <1>8. OpenFile(c, r) /\ (files[r.file].signature = r.before => r.half = AllWords(files[r.file].words))
    BY <1>6, <1>7 DEF OpenFile, AllWords
  <1>9. Fit(c, r)
    BY <1>6, <1>7, <1>8 DEF Fit, Reading, Asked, CheckFields
  <1>10. QED
    BY <1>1, <1>2, <1>4, <1>9, MoveKeeps

LEMMA VerifyKeeps ==
  ASSUME SpamInv, NEW c \in Checks, Verify(c)
  PROVE  SpamInv'
  <1> DEFINE old == checking[c]
  <1>1. old.pc = "verify" /\ KeepFile /\ old.pc \in Reading /\ old # NotBegun
    BY DEF Verify, AtCheck, Reading, NotBegun
  <1>2. Fit(c, old)
    BY DEF SpamInv
  <1>3. /\ OpenFile(c, old)
        /\ files[old.file].signature = old.before => old.half = AllWords(files[old.file].words)
    BY <1>1, <1>2 DEF Fit, Reading
  <1>4. CASE UnchangedSince(c)
    <2>1. lastGood' = [signature |-> old.before, words |-> old.half] /\ Match(c, old.half)
      BY <1>4 DEF Verify
    <2>2. files[old.file].signature = old.before /\ old.half = AllWords(files[old.file].words)
      BY <1>3, <1>4 DEF UnchangedSince
    <2>3. files[old.file].words \in during[c] \cap KeywordFiles
      BY <1>3, StateOfFile DEF OpenFile
    <2>4. ListOf(old.before, old.half)
      BY <1>3, <2>2 DEF ListOf, OpenFile, SpamInv, FilesDistinct
    <2>5. SnapshotTrue'
      <3>1. \A s, w : ListOf(s, w) => ListOf(s, w)'
        BY <1>1 DEF KeepFile, ListOf, Past, Signatures
      <3>2. PICK s, w : s = old.before /\ w = old.half
        OBVIOUS
      <3>3. lastGood' = [signature |-> s, words |-> w] /\ ListOf(s, w)'
        BY <2>1, <2>4, <3>1, <3>2
      <3>4. QED
        BY <3>3 DEF SnapshotTrue
    <2>6. QED
      BY <1>1, <2>1, <2>2, <2>3, <2>5, MatchKeeps
  <1>5. CASE ~UnchangedSince(c)
    BY <1>1, <1>5, KeepLastGoodKeeps DEF Verify
  <1>6. QED
    BY <1>4, <1>5
LEMMA MatchLastGoodKeeps ==
  ASSUME SpamInv, NEW c \in Checks, MatchLastGood(c)
  PROVE  SpamInv'
  <1> DEFINE old == checking[c]
  <1>1. old.pc = "stale" /\ KeepFile /\ UNCHANGED lastGood /\ old # NotBegun
    BY DEF MatchLastGood, AtCheck, NotBegun
  <1>2. PICK b : b = Contains(lastGood.words, old.text)
    OBVIOUS
  <1>3. PICK r : r = [old EXCEPT !.pc = "matched", !.blocked = b]
    OBVIOUS
  <1>4. Move(c, r)
    BY <1>2, <1>3 DEF MatchLastGood
  <1>5. Fit(c, old)
    BY DEF SpamInv
  <1>6. /\ CheckFields \subseteq DOMAIN old /\ old.enabled \in Detectors /\ old.status = "none"
        /\ old.text \in Texts /\ ~old.judged
    BY <1>1, <1>5 DEF Fit, Reading
  <1>7. /\ r.pc = "matched" /\ DOMAIN r = DOMAIN old /\ r.enabled = old.enabled /\ r.status = old.status
        /\ r.text = old.text /\ r.judged = old.judged
    BY <1>3, <1>6 DEF CheckFields
  <1>8. Fit(c, r)
    BY <1>6, <1>7 DEF Fit, Reading, Asked, CheckFields
  <1>9. SnapshotTrue'
    BY <1>1, SnapshotSame DEF KeepFile
  <1>10. QED
    BY <1>1, <1>4, <1>8, <1>9, MoveKeeps

(* A decision, which publishes nothing that was found wanting. *)
LEMMA DecideKeeps ==
  ASSUME SpamInv, NEW c \in Checks, NEW status, Decide(c, status), KeepFile, UNCHANGED lastGood,
         checking[c].pc \in Asked \cup {"matched"},
         checking[c].blocked => status # "published"
  PROVE  SpamInv'
  <1> DEFINE old == checking[c]
  <1>1. Fit(c, old) /\ old # NotBegun
    BY DEF SpamInv, Asked, NotBegun
  <1>2. PICK r : r = [old EXCEPT !.pc = "decided", !.status = status]
    OBVIOUS
  <1>3. Move(c, r)
    BY <1>2 DEF Decide
  <1>4. /\ {"pc", "text", "blocked", "judged", "status"} \subseteq DOMAIN old
        /\ old.text \in Texts /\ (old.judged => Verdict(c, old))
    BY <1>1 DEF Fit
  <1>5. /\ r.pc = "decided" /\ DOMAIN r = DOMAIN old /\ r.status = status
        /\ r.text = old.text /\ r.judged = old.judged /\ r.blocked = old.blocked
    BY <1>2, <1>4
  <1>6. r.judged => Verdict(c, r)
    BY <1>4, <1>5 DEF Verdict
  <1>7. Fit(c, r)
    BY <1>4, <1>5, <1>6 DEF Fit, Reading, Asked
  <1>8. SnapshotTrue'
    BY SnapshotSame DEF KeepFile
  <1>9. QED
    BY <1>1, <1>3, <1>7, <1>8, MoveKeeps

LEMMA ChainKeeps ==
  ASSUME SpamInv, NEW c \in Checks,
         \/ LocalAnswers(c) \/ AkismetAnswers(c) \/ NobodyObjected(c)
         \/ CloudAnswers(c, "aliyun", "tencent") \/ CloudAnswers(c, "tencent", "end")
  PROVE  SpamInv'
  <1> DEFINE old == checking[c]
  <1>1. Fit(c, old)
    BY DEF SpamInv
  <1>2. CASE LocalAnswers(c)
    <2>1. old.pc = "matched" /\ KeepFile /\ UNCHANGED lastGood
      BY <1>2 DEF LocalAnswers, AtCheck
    <2>2. old.enabled \in Detectors
      BY <1>1, <2>1 DEF Fit, NotBegun
    <2>3. old.enabled.action # "published"
      BY <2>2, SpamCheckAssumption
    <2>4. CASE old.blocked
      <3>1. Decide(c, old.enabled.action)
        BY <1>2, <2>4 DEF LocalAnswers
      <3>2. QED
        BY <2>1, <2>3, <3>1, DecideKeeps
    <2>5. CASE ~old.blocked
      <3>1. MoveTo(c, "akismet")
        BY <1>2, <2>5 DEF LocalAnswers
      <3>2. QED
        BY <2>1, <2>5, <3>1, GoKeeps DEF Asked
    <2>6. QED
      BY <2>4, <2>5
  <1>3. ASSUME KeepFile, UNCHANGED lastGood, old.pc \in Asked,
               \/ \E status : Decide(c, status)
               \/ \E pc \in Asked : old.pc # "end" /\ MoveTo(c, pc)
        PROVE  SpamInv'
    <2>1. ~old.blocked
      BY <1>1, <1>3 DEF Fit, Asked, NotBegun
    <2>2. CASE \E status : Decide(c, status)
      BY <1>3, <2>1, <2>2, DecideKeeps
    <2>3. CASE \E pc \in Asked : old.pc # "end" /\ MoveTo(c, pc)
      BY <1>3, <2>1, <2>3, GoKeeps DEF Asked
    <2>4. QED
      BY <1>3, <2>2, <2>3
  <1>4. CASE AkismetAnswers(c)
    BY <1>3, <1>4 DEF AkismetAnswers, AtCheck, Asked
  <1>5. CASE NobodyObjected(c)
    BY <1>3, <1>5 DEF NobodyObjected, AtCheck, Asked
  <1>6. CASE CloudAnswers(c, "aliyun", "tencent")
    BY <1>3, <1>6 DEF CloudAnswers, AtCheck, Asked
  <1>7. CASE CloudAnswers(c, "tencent", "end")
    BY <1>3, <1>7 DEF CloudAnswers, AtCheck, Asked
  <1>8. QED
    BY <1>2, <1>4, <1>5, <1>6, <1>7

(* A check begins and knows the file of now. *)
LEMMA BeginKeeps ==
  ASSUME SpamInv, NEW c \in Checks, NEW r, Move(c, r), checking[c] = NotBegun,
         during' = [during EXCEPT ![c] = {IF wordFile = 0 THEN NoFile ELSE files[wordFile].words}],
         UNCHANGED <<wordFile, files, lastGood>>,
         r # NotBegun, r.pc \in {"stat", "akismet", "end"}, r.text \in Texts, ~r.blocked, ~r.judged, r.status = "none",
         {"pc", "text", "blocked", "judged", "status"} \subseteq DOMAIN r,
         r.pc # "end" => CheckFields \subseteq DOMAIN r /\ r.enabled \in Detectors
  PROVE  SpamInv'
  <1>1. /\ DOMAIN checking = Checks /\ DOMAIN during = Checks
        /\ checking' = [checking EXCEPT ![c] = r]
    BY DEF SpamInv, Move
  <1>2. /\ checking'[c] = r /\ \A d \in Checks \ {c} : checking'[d] = checking[d] /\ during'[d] = during[d]
        /\ DOMAIN checking' = Checks /\ DOMAIN during' = Checks
    BY <1>1
  <1>3. FilesDistinct' /\ SnapshotTrue'
    BY SnapshotSame DEF SpamInv, FilesDistinct, Newest, Signatures
  <1>4. CurrentKnown'
    BY <1>1, <1>2 DEF SpamInv, CurrentKnown
  <1>5. ASSUME NEW d \in Checks PROVE Fit(d, checking[d])'
    <2>1. CASE d = c
      <3>1. Fit(c, r)'
        BY DEF Fit, Reading, Asked
      <3>2. QED
        BY <1>2, <2>1, <3>1
    <2>2. CASE d # c
      <3>1. \A x : Fit(d, x) => Fit(d, x)'
        BY <1>2, <2>2 DEF Fit, Verdict, OpenFile, Past, Signatures
      <3>2. QED
        BY <1>2, <2>2, <3>1 DEF SpamInv
    <2>3. QED
      BY <2>1, <2>2
  <1>6. QED
    BY <1>2, <1>3, <1>4, <1>5 DEF SpamInv

LEMMA BeginCheckKeeps ==
  ASSUME SpamInv, NEW c \in Checks, NEW text \in Texts,
         (\E p \in Detectors : BeginCheck(c, text, p)) \/ DetectorsUnreadable(c, text)
  PROVE  SpamInv'
  <1>1. /\ checking[c] = NotBegun
        /\ during' = [during EXCEPT ![c] = {IF wordFile = 0 THEN NoFile ELSE files[wordFile].words}]
        /\ UNCHANGED <<wordFile, files, lastGood>>
    <2>1. checking[c] = NotBegun <=> AtCheck(c, "waiting")
      BY WaitingIsNotBegun
    <2>2. QED
      BY <2>1 DEF BeginCheck, DetectorsUnreadable
  <1>2. ASSUME NEW p \in Detectors, BeginCheck(c, text, p) PROVE SpamInv'
    <2>1. PICK r : r = [pc |-> IF p.local THEN "stat" ELSE "akismet", text |-> text, enabled |-> p, blocked |-> FALSE,
                        judged |-> FALSE, before |-> 0, file |-> 0, half |-> {}, status |-> "none"]
      OBVIOUS
    <2>2. Move(c, r)
      BY <1>2, <2>1 DEF BeginCheck
    <2>3. /\ r.pc \in {"stat", "akismet"} /\ r.text = text /\ r.enabled = p /\ ~r.blocked /\ ~r.judged
          /\ r.status = "none" /\ DOMAIN r = CheckFields
      BY <2>1 DEF CheckFields
    <2>4. r # NotBegun
      BY <2>3 DEF NotBegun
    <2>5. QED
      BY <1>1, <2>2, <2>3, <2>4, BeginKeeps DEF CheckFields
  <1>3. CASE DetectorsUnreadable(c, text)
    <2>1. PICK r : r = [pc |-> "end", text |-> text, blocked |-> FALSE, judged |-> FALSE, status |-> "none"]
      OBVIOUS
    <2>2. Move(c, r)
      BY <1>3, <2>1 DEF DetectorsUnreadable
    <2>3. /\ r.pc = "end" /\ r.text = text /\ ~r.blocked /\ ~r.judged /\ r.status = "none"
          /\ DOMAIN r = {"pc", "text", "blocked", "judged", "status"}
      BY <2>1
    <2>4. r # NotBegun
      BY <2>3 DEF NotBegun
    <2>5. QED
      BY <1>1, <2>2, <2>3, <2>4, BeginKeeps
  <1>4. QED
    BY <1>2, <1>3

-----------------------------------------------------------------------------
(* The operator. *)

LEMMA NewestFound ==
  ASSUME SpamInv, NEW last, last = CHOOSE n \in Signatures : \A m \in Signatures : m <= n
  PROVE  Newest(last) /\ last \in Nat
  <1>1. \E n \in Signatures : \A m \in Signatures : m <= n
    BY DEF SpamInv, FilesDistinct, Newest
  <1>2. Newest(last)
    BY <1>1 DEF Newest
  <1>3. PICK f \in DOMAIN files : last = files[f].signature
    BY <1>2 DEF Newest, Signatures
  <1>4. f \in 1..Len(files)
    BY DEF SpamInv, FilesDistinct
  <1>5. QED
    BY <1>2, <1>3, <1>4, StateOfFile

(* A file is written: its state is new, and the others stay what they were. *)
LEMMA WriteKeeps ==
  ASSUME SpamInv, NEW content \in KeywordFiles, NEW last, Newest(last), last \in Nat,
         NEW f, f \in 1..Len(files'), wordFile' = f, files' \in Seq(FileStates),
         files'[f].signature = last + 1, files'[f].words = content,
         Len(files) <= Len(files'), \A g \in 1..Len(files') : g # f => g \in 1..Len(files) /\ files'[g] = files[g],
         during' = [c \in Checks |-> IF AtCheck(c, "waiting") THEN {} ELSE during[c] \cup {content}],
         UNCHANGED <<lastGood, checking>>
  PROVE  SpamInv'
  <1>1. \A g \in 1..Len(files) : files[g].signature <= last /\ files[g].signature \in Nat
    <2>1. \A g \in 1..Len(files) : files[g].signature \in Signatures
      BY DEF SpamInv, FilesDistinct, Signatures
    <2>2. QED
      BY <2>1, StateOfFile DEF Newest
  <1>2. last + 1 \in Signatures'
    BY DEF Signatures
  <1>3. \A s \in Signatures' : s <= last + 1
    <2>1. \A g \in 1..Len(files') : files'[g].signature <= last + 1
      BY <1>1
    <2>2. DOMAIN files' = 1..Len(files')
      OBVIOUS
    <2>3. QED
      BY <2>1, <2>2 DEF Signatures
  <1>4. \A s : Past(s) => Past(s)' /\ s # last + 1
    <2>1. \A n \in Signatures : n \in Nat /\ n <= last
      BY <1>1 DEF Signatures, SpamInv, FilesDistinct
    <2>2. \A s : Past(s) => s \in Nat /\ s <= last
      BY <2>1 DEF Past
    <2>3. \A s \in Nat : s <= last => s <= last + 1 /\ s # last + 1
      OBVIOUS
    <2>4. \A s \in Nat : s <= last => Past(s)'
      BY <1>2, <2>3 DEF Past
    <2>5. QED
      BY <2>2, <2>3, <2>4
  <1>5. FilesDistinct'
    <2>1. ASSUME NEW g \in 1..Len(files'), NEW h \in 1..Len(files'), files'[g].signature = files'[h].signature
          PROVE  g = h
      <3>1. \A i, j \in 1..Len(files) : files[i].signature = files[j].signature => i = j
        BY DEF SpamInv, FilesDistinct
      <3>2. ASSUME NEW i \in 1..Len(files'), i # f PROVE i \in 1..Len(files) /\ files'[i].signature # last + 1
        <4>1. i \in 1..Len(files) /\ files'[i] = files[i]
          BY <3>2
        <4>2. files[i].signature <= last /\ files[i].signature \in Nat
          BY <1>1, <4>1
        <4>3. QED
          BY <4>1, <4>2
      <3>3. g = f <=> h = f
        BY <2>1, <3>2
      <3>4. CASE g # f
        <4>1. g \in 1..Len(files) /\ h \in 1..Len(files) /\ files'[g] = files[g] /\ files'[h] = files[h]
          BY <3>3, <3>4
        <4>2. QED
          BY <2>1, <3>1, <4>1
      <3>5. QED
        BY <3>3, <3>4
    <2>2. \E n \in Signatures' : Newest(n)'
      BY <1>2, <1>3 DEF Newest
    <2>3. wordFile' \in 0..Len(files')
      OBVIOUS
    <2>4. QED
      BY <2>1, <2>2, <2>3 DEF FilesDistinct
  <1>6. \A s, w : ListOf(s, w) => ListOf(s, w)'
    BY <1>4 DEF ListOf
  <1>7. SnapshotTrue'
    BY <1>6 DEF SpamInv, SnapshotTrue
  <1>8. \A c \in Checks : checking[c] # NotBegun => during'[c] = during[c] \cup {content}
    <2>1. ASSUME NEW c \in Checks, checking[c] # NotBegun PROVE during'[c] = during[c] \cup {content}
      <3>1. ~AtCheck(c, "waiting")
        BY <2>1, WaitingIsNotBegun
      <3>2. QED
        BY <3>1
    <2>2. QED
      BY <2>1
  <1>9. CurrentKnown'
    BY <1>8 DEF CurrentKnown
  <1>10. ASSUME NEW c \in Checks PROVE Fit(c, checking[c])'
    <2>1. CASE checking[c] = NotBegun
      BY <2>1 DEF Fit
    <2>2. CASE checking[c] # NotBegun
      <3>1. during'[c] = during[c] \cup {content}
        BY <1>8, <2>2
      <3>2. \A r : Verdict(c, r) => Verdict(c, r)'
        BY <3>1 DEF Verdict
      <3>3. \A r : OpenFile(c, r) => OpenFile(c, r)' /\ r.before # last + 1
        BY <1>4, <3>1 DEF OpenFile
      <3>4. \A r : OpenFile(c, r) /\ files'[r.file].signature = r.before => files'[r.file] = files[r.file]
        BY <3>3 DEF OpenFile
      <3>5. \A r : Fit(c, r) => Fit(c, r)'
        BY <1>4, <3>2, <3>3, <3>4 DEF Fit
      <3>6. QED
        BY <3>5 DEF SpamInv
    <2>3. QED
      BY <2>1, <2>2
  <1>11. DOMAIN during' = Checks /\ DOMAIN checking' = Checks
    BY DEF SpamInv
  <1>12. QED
    BY <1>5, <1>7, <1>9, <1>10, <1>11 DEF SpamInv

LEMMA EditFileKeeps ==
  ASSUME SpamInv, NEW content \in KeywordFiles, EditFile(content)
  PROVE  SpamInv'
  <1>1. PICK last : last = CHOOSE n \in Signatures : \A m \in Signatures : m <= n
    OBVIOUS
  <1>2. Newest(last) /\ last \in Nat
    BY <1>1, NewestFound
  <1>3. PICK new : new = [signature |-> last + 1, words |-> content]
    OBVIOUS
  <1>4. new \in FileStates /\ new.signature = last + 1 /\ new.words = content
    BY <1>2, <1>3 DEF FileStates
  <1>5. /\ during' = [c \in Checks |-> IF AtCheck(c, "waiting") THEN {} ELSE during[c] \cup {content}]
        /\ UNCHANGED <<lastGood, checking>>
    BY DEF EditFile
  <1>6. \/ wordFile # 0 /\ files' = [files EXCEPT ![wordFile] = new] /\ UNCHANGED wordFile
        \/ files' = Append(files, new) /\ wordFile' = Len(files) + 1
    BY <1>1, <1>3 DEF EditFile, Edited
  <1>7. files \in Seq(FileStates) /\ wordFile \in 0..Len(files)
    BY DEF SpamInv, FilesDistinct
  <1>8. PICK f : f = wordFile'
    OBVIOUS
  <1>9. /\ f \in 1..Len(files') /\ files' \in Seq(FileStates) /\ files'[f] = new /\ Len(files) <= Len(files')
        /\ \A g \in 1..Len(files') : g # f => g \in 1..Len(files) /\ files'[g] = files[g]
    BY <1>4, <1>6, <1>7, <1>8
  <1>10. QED
    BY <1>2, <1>4, <1>5, <1>8, <1>9, WriteKeeps

LEMMA RemoveFileKeeps ==
  ASSUME SpamInv, RemoveFile
  PROVE  SpamInv'
  <1>1. wordFile' = 0 /\ UNCHANGED <<files, lastGood, checking, during>>
    BY DEF RemoveFile
  <1>2. FilesDistinct'
    <2>1. files \in Seq(FileStates) /\ 0 \in 0..Len(files)
      BY DEF SpamInv, FilesDistinct
    <2>2. QED
      BY <1>1, <2>1 DEF SpamInv, FilesDistinct, Newest, Signatures
  <1>3. SnapshotTrue' /\ CurrentKnown'
    BY <1>1, SnapshotSame DEF CurrentKnown
  <1>4. ASSUME NEW c \in Checks PROVE Fit(c, checking[c])'
    <2>1. \A x : Fit(c, x) => Fit(c, x)'
      BY <1>1 DEF Fit, Verdict, OpenFile, Past, Signatures
    <2>2. QED
      BY <1>1, <2>1 DEF SpamInv
  <1>5. QED
    BY <1>1, <1>2, <1>3, <1>4 DEF SpamInv

LEMMA SpamBegins == SpamInit => SpamInv
  <1> SUFFICES ASSUME SpamInit PROVE SpamInv
    OBVIOUS
  <1>1. PICK content \in FirstFiles : files = <<[signature |-> 1, words |-> content]>>
    BY DEF SpamInit
  <1>2. /\ Len(files) = 1 /\ DOMAIN files = {1} /\ files[1].signature = 1 /\ files[1].words = content
        /\ 1..Len(files) = {1}
    BY <1>1
  <1>3. [signature |-> 1, words |-> content] \in FileStates
    BY SpamCheckAssumption DEF FileStates
  <1>4. files \in Seq(FileStates)
    BY <1>1, <1>3
  <1>5. Signatures = {1}
    BY <1>2 DEF Signatures
  <1>6. FilesDistinct
    BY <1>2, <1>4, <1>5 DEF SpamInit, FilesDistinct, Newest
  <1>7. SnapshotTrue
    BY <1>2, <1>5 DEF SpamInit, SnapshotTrue, ListOf, Past
  <1>8. CurrentKnown /\ \A c \in Checks : Fit(c, checking[c])
    BY DEF SpamInit, CurrentKnown, Fit
  <1>9. QED
    BY <1>6, <1>7, <1>8 DEF SpamInit, SpamInv

LEMMA SpamSteps ==
  SpamInv /\ [SpamNext]_spamVars => SpamInv'
  <1> SUFFICES ASSUME SpamInv, [SpamNext]_spamVars PROVE SpamInv'
    OBVIOUS
  <1>1. CASE SpamNext
    <2>1. ASSUME NEW c \in Checks, NEW text \in Texts,
                 (\E p \in Detectors : BeginCheck(c, text, p)) \/ DetectorsUnreadable(c, text)
          PROVE  SpamInv'
      BY <2>1, BeginCheckKeeps
    <2>2. ASSUME NEW c \in Checks,
                 Stat(c) \/ ReadHalf(c) \/ ReadRest(c) \/ Verify(c) \/ MatchLastGood(c)
          PROVE  SpamInv'
      BY <2>2, StatKeeps, ReadHalfKeeps, ReadRestKeeps, VerifyKeeps, MatchLastGoodKeeps
    <2>3. ASSUME NEW c \in Checks,
                 \/ LocalAnswers(c) \/ AkismetAnswers(c) \/ NobodyObjected(c)
                 \/ CloudAnswers(c, "aliyun", "tencent") \/ CloudAnswers(c, "tencent", "end")
          PROVE  SpamInv'
      BY <2>3, ChainKeeps
    <2>4. QED
      BY <1>1, <2>1, <2>2, <2>3, EditFileKeeps, RemoveFileKeeps DEF SpamNext
  <1>2. CASE UNCHANGED spamVars
    <2>1. UNCHANGED <<wordFile, files, lastGood, checking, during>>
      BY <1>2 DEF spamVars
    <2>2. FilesDistinct'
      BY <2>1 DEF SpamInv, FilesDistinct, Newest, Signatures
    <2>3. SnapshotTrue' /\ CurrentKnown'
      BY <2>1, SnapshotSame DEF SpamInv, CurrentKnown
    <2>4. ASSUME NEW c \in Checks PROVE Fit(c, checking[c])'
      <3>1. \A x : Fit(c, x) => Fit(c, x)'
        BY <2>1 DEF Fit, Verdict, OpenFile, Past, Signatures
      <3>2. QED
        BY <2>1, <3>1 DEF SpamInv
    <2>5. QED
      BY <2>1, <2>2, <2>3, <2>4 DEF SpamInv
  <1>3. QED
    BY <1>1, <1>2

(* However an operator edits, replaces or removes the keyword file while any number *)
(* of checks read it, every verdict of the local detector is the one a content of     *)
(* the file during the check gives, and what it found is not published.                *)
THEOREM KeywordVerdictsHold == SpamSpec => []KeywordsHonoured
  <1>1. SpamInv => KeywordsHonoured
    <2> SUFFICES ASSUME SpamInv, NEW c \in Checks, ~AtCheck(c, "waiting")
                 PROVE  /\ checking[c].judged => \E content \in during[c] :
                             checking[c].blocked = Holds(AllWords(content), checking[c].text)
                        /\ checking[c].blocked => checking[c].status # "published"
      BY DEF KeywordsHonoured
    <2>1. Fit(c, checking[c])
      BY DEF SpamInv
    <2>2. checking[c] # NotBegun
      BY DEF AtCheck, NotBegun
    <2>3. QED
      BY <2>1, <2>2 DEF Fit, Verdict
  <1>2. QED
    BY <1>1, SpamBegins, SpamSteps, PTL DEF SpamSpec

-----------------------------------------------------------------------------
(* The lists of a page.  Their order is strict and total on rows with different ids, *)
(* so the rows that come before a row number it, a page is the rows with the first    *)
(* numbers behind the cursor, and the cursor separates what was shown from what was   *)
(* not, as far as a row keeps its place.                                               *)
Sorts == {"asc", "desc", "hot"}
Keys == [group : 0..1, likes : Nat, created : Nat, id : Nat]
(* The rows of a list: no two have the same id. *)
ListOfRows(keys) == keys \subseteq Keys /\ IsFiniteSet(keys) /\ \A j, k \in keys : j.id = k.id => j = k
Rank(keys, sort, k) == Cardinality({j \in keys : Precedes(sort, j, k)})

LEMMA OrderTransitive ==
  ASSUME NEW sort \in Sorts, NEW a \in Keys, NEW b \in Keys, NEW c \in Keys, Precedes(sort, a, b), Precedes(sort, b, c)
  PROVE  Precedes(sort, a, c)
  <1>1. /\ {a.group, b.group, c.group} \subseteq 0..1
        /\ {a.likes, b.likes, c.likes, a.created, b.created, c.created, a.id, b.id, c.id} \subseteq Nat
    BY DEF Keys
  <1>2. CASE sort = "asc"
    BY <1>1, <1>2 DEF Precedes, Within, Earlier
  <1>3. CASE sort = "desc"
    BY <1>1, <1>3 DEF Precedes, Within, Earlier
  <1>4. CASE sort = "hot"
    BY <1>1, <1>4 DEF Precedes, Within, Earlier
  <1>5. QED
    BY <1>2, <1>3, <1>4 DEF Sorts

LEMMA OrderStrict ==
  ASSUME NEW sort \in Sorts, NEW a \in Keys
  PROVE  ~Precedes(sort, a, a)
  <1>1. a.group \in 0..1 /\ a.likes \in Nat /\ a.created \in Nat /\ a.id \in Nat
    BY DEF Keys
  <1>2. ~Earlier(a, a)
    BY <1>1 DEF Earlier
  <1>3. ~Within(sort, a, a)
    <2>1. ~(a.likes > a.likes)
      BY <1>1
    <2>2. QED
      BY <1>2, <2>1 DEF Within, Sorts
  <1>4. QED
    BY <1>1, <1>3 DEF Precedes

LEMMA OrderTotal ==
  ASSUME NEW sort \in Sorts, NEW a \in Keys, NEW b \in Keys, a.id # b.id
  PROVE  Precedes(sort, a, b) \/ Precedes(sort, b, a)
  <1>1. /\ {a.group, b.group} \subseteq 0..1
        /\ {a.likes, b.likes, a.created, b.created, a.id, b.id} \subseteq Nat
    BY DEF Keys
  <1>2. CASE sort = "asc"
    BY <1>1, <1>2 DEF Precedes, Within, Earlier
  <1>3. CASE sort = "desc"
    BY <1>1, <1>3 DEF Precedes, Within, Earlier
  <1>4. CASE sort = "hot"
    BY <1>1, <1>4 DEF Precedes, Within, Earlier
  <1>5. QED
    BY <1>2, <1>3, <1>4 DEF Sorts

(* An earlier row has fewer rows before it. *)
LEMMA RankGrows ==
  ASSUME NEW keys, ListOfRows(keys), NEW sort \in Sorts, NEW j \in keys, NEW k \in keys, Precedes(sort, j, k)
  PROVE  Rank(keys, sort, j) < Rank(keys, sort, k)
  <1> DEFINE before(x) == {i \in keys : Precedes(sort, i, x)}
  <1>1. IsFiniteSet(before(k)) /\ Cardinality(before(k)) \in Nat
    BY FS_Subset, FS_CardinalityType DEF ListOfRows
  <1>2. before(j) \subseteq before(k)
    BY OrderTransitive DEF ListOfRows
  <1>3. j \in before(k) /\ j \notin before(j)
    BY OrderStrict DEF ListOfRows
  <1>4. before(j) # before(k)
    BY <1>3
  <1> HIDE DEF before
  <1>5. /\ IsFiniteSet(before(j)) /\ Cardinality(before(j)) <= Cardinality(before(k))
        /\ Cardinality(before(k)) = Cardinality(before(j)) => before(k) = before(j)
    BY <1>1, <1>2, FS_Subset
  <1>6. Cardinality(before(j)) \in Nat
    BY <1>5, FS_CardinalityType
  <1>7. Cardinality(before(j)) < Cardinality(before(k))
    BY <1>1, <1>4, <1>5, <1>6
  <1>8. QED
    BY <1>7 DEF before, Rank

(* The rows are numbered from 0 on by how many come before them. *)
LEMMA RanksNumberRows ==
  ASSUME NEW keys, ListOfRows(keys), NEW sort \in Sorts
  PROVE  /\ Cardinality(keys) \in Nat
         /\ \A k \in keys : Rank(keys, sort, k) \in 0..Cardinality(keys) - 1
         /\ \A j, k \in keys : Rank(keys, sort, j) = Rank(keys, sort, k) => j = k
         /\ \A n \in 0..Cardinality(keys) - 1 : \E k \in keys : Rank(keys, sort, k) = n
  <1> DEFINE size == Cardinality(keys)
             rank == [k \in keys |-> Rank(keys, sort, k)]
  <1>1. size \in Nat
    BY FS_CardinalityType DEF ListOfRows
  <1>2. ASSUME NEW k \in keys PROVE Rank(keys, sort, k) \in 0..size - 1
    <2> DEFINE before == {i \in keys : Precedes(sort, i, k)}
    <2>1. before \in SUBSET keys /\ k \notin before
      BY OrderStrict DEF ListOfRows
    <2>2. before # keys
      BY <2>1
    <2> HIDE DEF before
    <2>3. IsFiniteSet(before) /\ Cardinality(before) <= size /\ (size = Cardinality(before) => keys = before)
      BY <2>1, FS_Subset DEF ListOfRows
    <2>4. Cardinality(before) \in Nat
      BY <2>3, FS_CardinalityType
    <2>5. Cardinality(before) \in 0..size - 1
      BY <1>1, <2>2, <2>3, <2>4
    <2>6. QED
      BY <2>5 DEF before, Rank
  <1>3. ASSUME NEW j \in keys, NEW k \in keys, Rank(keys, sort, j) = Rank(keys, sort, k) PROVE j = k
    <2>1. Rank(keys, sort, j) \in Int
      BY <1>2
    <2>2. ~Precedes(sort, j, k) /\ ~Precedes(sort, k, j)
      BY <1>3, <2>1, RankGrows
    <2>3. j \in Keys /\ k \in Keys
      BY DEF ListOfRows
    <2>4. j.id = k.id
      BY <2>2, <2>3, OrderTotal
    <2>5. QED
      BY <2>4 DEF ListOfRows
  <1>4. rank \in Injection(keys, 0..size - 1)
    BY <1>2, <1>3 DEF Injection, IsInjective
  <1>5. IsFiniteSet(0..size - 1) /\ Cardinality(0..size - 1) = size
    BY <1>1, FS_Interval
  <1>6. rank \in Surjection(keys, 0..size - 1)
    BY <1>4, <1>5, FS_Injection
  <1>7. \A n \in 0..size - 1 : \E k \in keys : rank[k] = n
    BY <1>6 DEF Surjection
  <1>8. QED
    BY <1>1, <1>2, <1>3, <1>7

(* The first rows of a list come before the others, there are as many as asked for, *)
(* or all of them.                                                                    *)
LEMMA FirstOfRows ==
  ASSUME NEW keys, ListOfRows(keys), NEW sort \in Sorts, NEW n \in Nat
  PROVE  /\ First(keys, sort, n) \subseteq keys /\ ListOfRows(First(keys, sort, n))
         /\ \A j \in First(keys, sort, n), k \in keys \ First(keys, sort, n) : Precedes(sort, j, k)
         /\ n > 0 /\ keys # {} => First(keys, sort, n) # {}
         /\ Cardinality(keys) <= n => First(keys, sort, n) = keys
         /\ Cardinality(First(keys, sort, n)) < n => First(keys, sort, n) = keys
  <1> DEFINE rows == First(keys, sort, n)
             size == Cardinality(keys)
  <1>1. rows = {k \in keys : Rank(keys, sort, k) < n}
    BY DEF First, Rank
  <1>2. size \in Nat /\ \A k \in keys : Rank(keys, sort, k) \in 0..size - 1
    BY RanksNumberRows
  <1>3. \A i \in 0..size - 1 : \E k \in keys : Rank(keys, sort, k) = i
    BY RanksNumberRows
  <1> HIDE DEF rows, size
  <1>4. rows \subseteq keys
    BY <1>1
  <1>5. ListOfRows(rows)
    <2>1. IsFiniteSet(rows)
      BY <1>4, FS_Subset DEF ListOfRows
    <2>2. QED
      BY <1>4, <2>1 DEF ListOfRows
  <1>6. ASSUME NEW j \in rows, NEW k \in keys \ rows PROVE Precedes(sort, j, k)
    <2>1. Rank(keys, sort, j) < n /\ ~(Rank(keys, sort, k) < n) /\ j \in keys /\ k \in keys
      BY <1>1
    <2>2. Rank(keys, sort, j) \in Int /\ Rank(keys, sort, k) \in Int
      BY <1>2, <2>1
    <2>3. ~Precedes(sort, k, j)
      BY <2>1, <2>2, RankGrows
    <2>4. j # k /\ j \in Keys /\ k \in Keys
      BY <2>1 DEF ListOfRows
    <2>5. j.id # k.id
      BY <2>1, <2>4 DEF ListOfRows
    <2>6. QED
      BY <2>3, <2>4, <2>5, OrderTotal
  <1>7. ASSUME n > 0, keys # {} PROVE rows # {}
    <2>1. PICK k \in keys : TRUE
      BY <1>7
    <2>2. 0 \in 0..size - 1
      BY <1>2, <2>1
    <2>3. PICK j \in keys : Rank(keys, sort, j) = 0
      BY <1>3, <2>2
    <2>4. j \in rows
      BY <1>1, <1>7, <2>3
    <2>5. QED
      BY <2>4
  <1>8. ASSUME size <= n PROVE rows = keys
    <2>1. \A k \in keys : Rank(keys, sort, k) < n
      BY <1>2, <1>8
    <2>2. QED
      BY <1>1, <2>1
  <1>9. ASSUME Cardinality(rows) < n PROVE rows = keys
    <2>1. ASSUME NEW k \in keys, k \notin rows PROVE FALSE
      <3>1. Rank(keys, sort, k) \in 0..size - 1 /\ ~(Rank(keys, sort, k) < n)
        BY <1>1, <1>2, <2>1
      <3>2. 0..n - 1 \subseteq 0..size - 1
        BY <1>2, <3>1
      <3>3. \A i \in 0..n - 1 : \E j \in rows : Rank(keys, sort, j) = i
        <4>1. ASSUME NEW i \in 0..n - 1 PROVE \E j \in rows : Rank(keys, sort, j) = i
          <5>1. PICK j \in keys : Rank(keys, sort, j) = i
            BY <1>3, <3>2
          <5>2. i < n
            OBVIOUS
          <5>3. QED
            BY <1>1, <5>1, <5>2
        <4>2. QED
          BY <4>1
      <3> DEFINE at == [i \in 0..n - 1 |-> CHOOSE j \in rows : Rank(keys, sort, j) = i]
      <3>4. \A i \in 0..n - 1 : at[i] \in rows /\ Rank(keys, sort, at[i]) = i
        BY <3>3
      <3>5. at \in [0..n - 1 -> rows]
        BY <3>4
      <3> HIDE DEF at
      <3>6. \A h, i \in 0..n - 1 : at[h] = at[i] => h = i
        BY <3>4
      <3>7. at \in Injection(0..n - 1, rows)
        BY <3>5, <3>6 DEF Injection, IsInjective
      <3>8. Cardinality(0..n - 1) <= Cardinality(rows)
        BY <1>5, <3>7, FS_Injection DEF ListOfRows
      <3>9. Cardinality(0..n - 1) = n
        BY FS_Interval
      <3>10. Cardinality(rows) \in Nat
        BY <1>5, FS_CardinalityType DEF ListOfRows
      <3>11. QED
        BY <1>9, <3>8, <3>9, <3>10
    <2>2. QED
      BY <1>4, <2>1
  <1>10. QED
    BY <1>4, <1>5, <1>6, <1>7, <1>8, <1>9 DEF rows, size

(* The last row of a list comes after the others. *)
LEMMA LastRow ==
  ASSUME NEW keys, ListOfRows(keys), NEW sort \in Sorts, keys # {}
  PROVE  Last(keys, sort) \in keys /\ \A j \in keys : j = Last(keys, sort) \/ Precedes(sort, j, Last(keys, sort))
  <1> DEFINE size == Cardinality(keys)
  <1>1. size \in Nat /\ \A k \in keys : Rank(keys, sort, k) \in 0..size - 1
    BY RanksNumberRows
  <1>2. PICK x \in keys : TRUE
    OBVIOUS
  <1>3. size - 1 \in 0..size - 1
    BY <1>1, <1>2
  <1>4. PICK k \in keys : Rank(keys, sort, k) = size - 1
    BY <1>3, RanksNumberRows
  <1> HIDE DEF size
  <1>5. ASSUME NEW j \in keys, j # k PROVE Precedes(sort, j, k)
    <2>1. ~Precedes(sort, k, j)
      <3>1. Rank(keys, sort, j) \in 0..size - 1
        BY <1>1
      <3>2. ~(Rank(keys, sort, k) < Rank(keys, sort, j))
        BY <1>1, <1>4, <3>1
      <3>3. QED
        BY <3>2, RankGrows
    <2>2. j \in Keys /\ k \in Keys /\ j.id # k.id
      BY <1>5 DEF ListOfRows
    <2>3. QED
      BY <2>1, <2>2, OrderTotal
  <1>6. \E y \in keys : \A j \in keys : j = y \/ Precedes(sort, j, y)
    BY <1>5
  <1>7. QED
    BY <1>6 DEF Last

(* ---- the page and the pass over it ---- *)
PostRows == [thread : Nat, parent : Nat, depth : Nat, published : BOOLEAN, pinned : BOOLEAN, created : Nat]
PageTyped ==
  /\ \E n \in 0..MaxPosts : posts \in [1..n -> PostRows]
  /\ IsFiniteSet(likes) /\ pageThread \in Nat /\ edits \in Nat

Walks == [state : {"unread", "reading", "read", "refused"}, list : Lists, thread : Nat, cursor : Keys \cup {Start},
          shown : [1..MaxPosts -> Nat], steady : SUBSET Keys]

(* The rows that keep their place are still in the list. *)
SteadyListed == \E list \in Lists : walk.list = list /\ walk.steady \subseteq Places(pageThread, list)

Ahead(k) == walk.cursor = Start \/ Precedes(walk.list.sort, walk.cursor, k)

(* A row that keeps its place was shown once when the cursor has passed it, and not *)
(* before; when the pass is over, it was shown.                                      *)
ShownWhenPassed ==
  \A k \in walk.steady :
    /\ walk.shown[k.id] \in {0, 1}
    /\ walk.state = "reading" => (walk.shown[k.id] = 0 <=> Ahead(k))
    /\ walk.state = "read" => walk.shown[k.id] = 1

PagesInv ==
  /\ PageTyped /\ walk \in Walks /\ SteadyListed /\ ShownWhenPassed
  /\ walk.state = "unread" => walk.steady = {}

LEMMA SortOfList ==
  ASSUME NEW list \in Lists
  PROVE  list.sort \in Sorts
  BY DEF Lists, Sorts

LEMMA ListingOfPosts ==
  ASSUME NEW thread, NEW list \in Lists
  PROVE  Listing(thread, list) \subseteq DOMAIN posts
  <1>1. Public(thread) \subseteq DOMAIN posts
    BY DEF Public, PostsOf
  <1>2. Roots(thread) \subseteq Public(thread)
    BY DEF Roots
  <1>3. \A r : Replies(thread, r) \subseteq Public(thread)
    BY DEF Replies
  <1>4. list.of \in {"mixed", "roots", "replies"}
    BY DEF Lists
  <1>5. QED
    BY <1>1, <1>2, <1>3, <1>4 DEF Listing

LEMMA PlaceOfPost ==
  ASSUME PageTyped, NEW list, NEW i \in DOMAIN posts
  PROVE  Place(list, i) \in Keys /\ Place(list, i).id = i /\ i \in 1..MaxPosts
  <1>1. PICK n \in 0..MaxPosts : posts \in [1..n -> PostRows]
    BY DEF PageTyped
  <1>2. i \in 1..MaxPosts /\ posts[i].created \in Nat
    <2>1. i \in 1..n /\ posts[i] \in PostRows
      BY <1>1
    <2>2. MaxPosts \in Nat
      BY ThreadPagesAssumption
    <2>3. i \in 1..MaxPosts
      BY <2>1, <2>2
    <2>4. posts[i].created \in Nat
      BY <2>1 DEF PostRows
    <2>5. QED
      BY <2>3, <2>4
  <1>3. Cardinality({l \in likes : l[1] = i}) \in Nat
    BY FS_Subset, FS_CardinalityType DEF PageTyped
  <1>4. QED
    BY <1>2, <1>3 DEF Place, Keys

LEMMA PlacesAreRows ==
  ASSUME PageTyped, NEW thread, NEW list \in Lists
  PROVE  ListOfRows(Places(thread, list)) /\ \A k \in Places(thread, list) : k.id \in 1..MaxPosts
  <1> DEFINE from == Listing(thread, list)
             place == [i \in from |-> Place(list, i)]
  <1>1. PICK n \in 0..MaxPosts : posts \in [1..n -> PostRows]
    BY DEF PageTyped
  <1>2. IsFiniteSet(from)
    <2>1. IsFiniteSet(1..n)
      BY FS_Interval
    <2>2. from \subseteq 1..n
      BY <1>1, ListingOfPosts
    <2>3. QED
      BY <2>1, <2>2, FS_Subset
  <1>3. from \subseteq DOMAIN posts
    BY ListingOfPosts
  <1>4. place \in Surjection(from, Places(thread, list))
    BY DEF Surjection, Places
  <1>5. IsFiniteSet(Places(thread, list))
    BY <1>2, <1>4, FS_Surjection
  <1>6. \A k \in Places(thread, list) : \E i \in DOMAIN posts : k = Place(list, i)
    BY <1>3 DEF Places
  <1>7. \A k \in Places(thread, list) : k \in Keys /\ k.id \in 1..MaxPosts /\ k = Place(list, k.id)
    BY <1>6, PlaceOfPost
  <1>8. QED
    BY <1>5, <1>7 DEF ListOfRows

LEMMA PlacesSame ==
  ASSUME UNCHANGED <<posts, likes, pageThread>>, NEW list
  PROVE  Places(pageThread, list)' = Places(pageThread, list)
  BY DEF Places, Place, Listing, Public, Roots, Replies, PostsOf, Visible, VisRoot

LEMMA EditKeeps ==
  ASSUME PagesInv, Edit, PageTyped'
  PROVE  PagesInv'
  <1>1. PICK list \in {walk.list} : walk' = [walk EXCEPT !.steady = @ \cap Places(pageThread, list)']
    BY DEF Edit
  <1>2. list \in Lists /\ walk \in Walks
    BY DEF PagesInv, Walks
  <1>3. /\ walk' \in Walks /\ walk'.list = list /\ walk'.state = walk.state /\ walk'.cursor = walk.cursor
        /\ walk'.shown = walk.shown /\ walk'.steady = walk.steady \cap Places(pageThread, list)'
    BY <1>1, <1>2 DEF Walks
  <1>4. SteadyListed'
    BY <1>2, <1>3 DEF SteadyListed
  <1>5. \A k : Ahead(k)' <=> Ahead(k)
    BY <1>3 DEF Ahead
  <1>6. ShownWhenPassed'
    BY <1>3, <1>5 DEF ShownWhenPassed, PagesInv
  <1>7. QED
    BY <1>3, <1>4, <1>6 DEF PagesInv

LEMMA BeginWalkKeeps ==
  ASSUME PagesInv, NEW list \in Lists, BeginWalk(list)
  PROVE  PagesInv'
  <1>1. UNCHANGED <<posts, likes, pageThread, edits>>
    BY DEF BeginWalk
  <1>2. PageTyped'
    BY <1>1 DEF PagesInv, PageTyped
  <1>3. Places(pageThread, list)' = Places(pageThread, list)
    BY <1>1, PlacesSame
  <1>4. Places(pageThread, list) \subseteq Keys /\ \A k \in Places(pageThread, list) : k.id \in 1..MaxPosts
    BY PlacesAreRows DEF PagesInv, ListOfRows
  <1>5. walk' = [Unread EXCEPT !.state = "reading", !.list = list, !.steady = Places(pageThread, list)]
    BY DEF BeginWalk
  <1> DEFINE all == Places(pageThread, list)
  <1> HIDE DEF all
  <1>6. /\ walk'.state = "reading" /\ walk'.list = list /\ walk'.cursor = Start /\ walk'.shown = NotShown /\ walk'.steady = all
    BY <1>5 DEF Unread, all
  <1>7. walk' \in Walks
    BY <1>4, <1>5 DEF Unread, Walks, NotShown, all
  <1>8. SteadyListed'
    BY <1>3, <1>6 DEF SteadyListed, all
  <1>9. ShownWhenPassed'
    BY <1>4, <1>6 DEF ShownWhenPassed, NotShown, Ahead, all
  <1>10. QED
    BY <1>2, <1>6, <1>7, <1>8, <1>9 DEF PagesInv

(* The rows behind the cursor. *)
LEMMA AfterCursor ==
  ASSUME NEW keys, ListOfRows(keys), NEW sort \in Sorts, NEW cursor
  PROVE  /\ After(keys, sort, cursor) \subseteq keys /\ ListOfRows(After(keys, sort, cursor))
         /\ \A k \in keys : k \in After(keys, sort, cursor) <=> cursor = Start \/ Precedes(sort, cursor, k)
  <1>1. /\ After(keys, sort, cursor) \subseteq keys
        /\ \A k \in keys : k \in After(keys, sort, cursor) <=> cursor = Start \/ Precedes(sort, cursor, k)
    BY DEF After
  <1>2. IsFiniteSet(After(keys, sort, cursor))
    BY <1>1, FS_Subset DEF ListOfRows
  <1>3. QED
    BY <1>1, <1>2 DEF ListOfRows

(* A page counts each of its rows once. *)
LEMMA RowCounted ==
  ASSUME NEW keys, ListOfRows(keys), NEW rows \in SUBSET keys, NEW k \in keys
  PROVE  Cardinality({j \in rows : j.id = k.id}) = IF k \in rows THEN 1 ELSE 0
  <1>1. {j \in rows : j.id = k.id} = IF k \in rows THEN {k} ELSE {}
    BY DEF ListOfRows
  <1>2. QED
    BY <1>1, FS_Singleton, FS_EmptySet

LEMMA ReadPageKeeps ==
  ASSUME PagesInv, ReadPage
  PROVE  PagesInv'
  <1> DEFINE list == walk.list
             all == Places(pageThread, list)
             rest == After(all, list.sort, walk.cursor)
             fetched == First(rest, list.sort, PageLimit + 1)
             page == Returned(fetched, list.sort)
             more == Cardinality(fetched) > PageLimit
             counted == [i \in 1..MaxPosts |-> walk.shown[i] + Cardinality({k \in page : k.id = i})]
  <1>1. UNCHANGED <<posts, likes, pageThread, edits>> /\ walk.state = "reading"
    BY DEF ReadPage
  <1>2. PageTyped'
    BY <1>1 DEF PagesInv, PageTyped
  <1>3. walk \in Walks /\ list \in Lists /\ list.sort \in Sorts
    BY SortOfList DEF PagesInv, Walks
  <1>4. ListOfRows(all) /\ \A k \in all : k.id \in 1..MaxPosts
    BY <1>3, PlacesAreRows DEF PagesInv
  <1>5. walk.steady \subseteq all
    BY DEF PagesInv, SteadyListed
  <1>6. \/ walk' = [walk EXCEPT !.shown = counted, !.cursor = IF more THEN NextCursor(fetched, list.sort) ELSE @,
                                !.thread = pageThread, !.state = IF more THEN @ ELSE "read"]
        \/ walk' = [walk EXCEPT !.state = "refused"]
    BY <1>3 DEF ReadPage, Walks
  <1>7. ASSUME walk'.list = list, walk'.steady = walk.steady PROVE SteadyListed'
    <2>1. \A l : Places(pageThread, l)' = Places(pageThread, l)
      BY <1>1, PlacesSame
    <2>2. PICK l \in Lists : walk.list = l /\ walk.steady \subseteq Places(pageThread, l)
      BY DEF PagesInv, SteadyListed
    <2>3. QED
      BY <1>7, <2>1, <2>2 DEF SteadyListed
  <1>8. CASE walk' = [walk EXCEPT !.state = "refused"]
    <2>1. /\ walk' \in Walks /\ walk'.list = list /\ walk'.steady = walk.steady /\ walk'.shown = walk.shown
          /\ walk'.state = "refused"
      BY <1>3, <1>8 DEF Walks
    <2>2. ShownWhenPassed'
      BY <2>1 DEF PagesInv, ShownWhenPassed
    <2>3. QED
      BY <1>2, <1>7, <2>1, <2>2 DEF PagesInv
  <1>9. CASE walk' = [walk EXCEPT !.shown = counted, !.cursor = IF more THEN NextCursor(fetched, list.sort) ELSE @,
                                !.thread = pageThread, !.state = IF more THEN @ ELSE "read"]
    <2>1. /\ rest \subseteq all /\ ListOfRows(rest)
          /\ \A k \in all : k \in rest <=> Ahead(k)
      BY <1>3, <1>4, AfterCursor DEF Ahead
    <2>2. PageLimit \in Nat /\ PageLimit > 0
      BY ThreadPagesAssumption
    <2> HIDE DEF rest
    <2>3. /\ fetched \subseteq rest /\ ListOfRows(fetched)
          /\ \A j \in fetched, k \in rest \ fetched : Precedes(list.sort, j, k)
          /\ Cardinality(fetched) < PageLimit + 1 => fetched = rest
      BY <1>3, <2>1, <2>2, FirstOfRows
    <2> HIDE DEF fetched
    <2>4. /\ page \subseteq fetched /\ ListOfRows(page)
          /\ \A j \in page, k \in fetched \ page : Precedes(list.sort, j, k)
          /\ fetched # {} => page # {}
          /\ Cardinality(fetched) <= PageLimit => page = fetched
      BY <1>3, <2>2, <2>3, FirstOfRows DEF Returned
    <2> HIDE DEF page
    <2>5. Cardinality(fetched) \in Nat
      BY <2>3, FS_CardinalityType DEF ListOfRows
    <2>6. ~more => page = rest
      BY <2>2, <2>3, <2>4, <2>5
    <2>7. \A k \in all : Cardinality({j \in page : j.id = k.id}) = IF k \in page THEN 1 ELSE 0
      BY <1>4, <2>1, <2>3, <2>4, RowCounted
    <2>8. \A i \in 1..MaxPosts : Cardinality({k \in page : k.id = i}) \in Nat
      BY <2>4, FS_Subset, FS_CardinalityType DEF ListOfRows
    <2>9. counted \in [1..MaxPosts -> Nat]
      <3>1. \A i \in 1..MaxPosts : walk.shown[i] \in Nat
        BY <1>3 DEF Walks
      <3>2. ASSUME NEW i \in 1..MaxPosts PROVE walk.shown[i] + Cardinality({k \in page : k.id = i}) \in Nat
        <4>1. walk.shown[i] \in Nat /\ Cardinality({k \in page : k.id = i}) \in Nat
          BY <2>8, <3>1
        <4>2. QED
          BY <4>1
      <3>3. QED
        BY <3>2
    <2>10. \A k \in walk.steady : counted[k.id] = walk.shown[k.id] + (IF k \in page THEN 1 ELSE 0)
      BY <1>4, <1>5, <2>7
    <2> HIDE DEF counted, all, more
    <2>11. /\ walk'.list = list /\ walk'.steady = walk.steady /\ walk'.shown = counted
           /\ walk'.cursor = IF more THEN NextCursor(fetched, list.sort) ELSE walk.cursor
           /\ walk'.state = IF more THEN "reading" ELSE "read"
      BY <1>1, <1>3, <1>9 DEF Walks
    <2>12. \A k \in walk.steady : walk.shown[k.id] = IF k \in rest THEN 0 ELSE 1
      BY <1>1, <1>5, <2>1 DEF PagesInv, ShownWhenPassed
    <2>13. \A k \in walk.steady : counted[k.id] = IF k \in page THEN 1 ELSE IF k \in rest THEN 0 ELSE 1
      <3>1. ASSUME NEW k \in walk.steady PROVE counted[k.id] = IF k \in page THEN 1 ELSE IF k \in rest THEN 0 ELSE 1
        <4>1. k \in page => k \in rest
          BY <2>3, <2>4
        <4>2. QED
          BY <2>10, <2>12, <4>1
      <3>2. QED
        BY <3>1
    <2>14. CASE ~more
      <3>1. walk' \in Walks
        BY <1>3, <1>9, <2>9, <2>14 DEF Walks, PagesInv, PageTyped
      <3>2. ShownWhenPassed'
        BY <2>6, <2>11, <2>13, <2>14 DEF ShownWhenPassed
      <3>3. QED
        BY <1>2, <1>7, <2>11, <2>14, <3>1, <3>2 DEF PagesInv
    <2>15. CASE more
      <3> DEFINE next == NextCursor(fetched, list.sort)
      <3>1. page # {}
        <4>1. fetched # {}
          BY <2>2, <2>15, FS_EmptySet DEF more
        <4>2. QED
          BY <2>4, <4>1
      <3>2. next \in page /\ \A j \in page : j = next \/ Precedes(list.sort, j, next)
        BY <1>3, <2>4, <3>1, LastRow DEF NextCursor, page
      <3>3. next \in Keys /\ next # Start
        <4>1. next \in Keys
          BY <2>4, <3>2 DEF ListOfRows
        <4>2. QED
          BY <4>1 DEF Keys, Start
      <3>4. walk'.cursor = next /\ walk'.state = "reading"
        BY <2>11, <2>15
      <3> HIDE DEF next
      <3>5. walk' \in Walks
        BY <1>3, <1>9, <2>9, <2>15, <3>3 DEF Walks, PagesInv, PageTyped, next
      <3>6. ASSUME NEW k \in walk.steady
            PROVE  Precedes(list.sort, next, k) <=> k \in rest /\ k \notin page
        <4>1. k \in Keys /\ k \in all
          BY <1>4, <1>5 DEF ListOfRows
        <4>2. CASE k \in page
          <5>1. ASSUME Precedes(list.sort, next, k) PROVE FALSE
            <6>1. k = next \/ Precedes(list.sort, k, next)
              BY <3>2, <4>2
            <6>2. Precedes(list.sort, next, next)
              BY <1>3, <3>3, <4>1, <5>1, <6>1, OrderTransitive
            <6>3. QED
              BY <1>3, <3>3, <6>2, OrderStrict
          <5>2. QED
            BY <4>2, <5>1
        <4>3. CASE k \in rest /\ k \notin page
          <5>1. next \in fetched
            BY <2>4, <3>2
          <5>2. QED
            BY <2>3, <2>4, <3>2, <4>3, <5>1
        <4>4. CASE k \notin rest
          <5>1. ASSUME Precedes(list.sort, next, k) PROVE FALSE
            <6>1. next \in rest /\ next \in all
              BY <2>1, <2>3, <2>4, <3>2
            <6>2. ~Ahead(k) /\ Ahead(next)
              BY <2>1, <4>1, <4>4, <6>1
            <6>3. walk.cursor # Start /\ walk.cursor \in Keys
              BY <1>3, <6>2 DEF Ahead, Walks
            <6>4. Precedes(list.sort, walk.cursor, next)
              BY <6>2, <6>3 DEF Ahead
            <6>5. Precedes(list.sort, walk.cursor, k)
              BY <1>3, <3>3, <4>1, <5>1, <6>3, <6>4, OrderTransitive
            <6>6. QED
              BY <6>2, <6>5 DEF Ahead
          <5>2. QED
            BY <4>4, <5>1
        <4>5. QED
          BY <4>2, <4>3, <4>4
      <3>7. \A k \in walk.steady : Ahead(k)' <=> k \in rest /\ k \notin page
        BY <2>11, <3>3, <3>4, <3>6 DEF Ahead
      <3>8. ShownWhenPassed'
        BY <2>11, <2>13, <3>4, <3>7 DEF ShownWhenPassed
      <3>9. QED
        BY <1>2, <1>7, <2>11, <3>4, <3>5, <3>8 DEF PagesInv
    <2>16. QED
      BY <2>14, <2>15
  <1>10. QED
    BY <1>6, <1>8, <1>9

LEMMA PostKeeps ==
  ASSUME PagesInv, NEW p \in 0..MaxPosts, NEW b \in BOOLEAN, NEW t \in 1..MaxCreated, Post(p, b, t)
  PROVE  PagesInv'
  <1>1. PICK n \in 0..MaxPosts : posts \in [1..n -> PostRows]
    BY DEF PagesInv, PageTyped
  <1>2. Cardinality(DOMAIN posts) = n /\ DOMAIN posts = 1..n
    BY <1>1, FS_Interval
  <1>3. pageThread \in Nat /\ edits \in Nat /\ MaxCreated \in Nat /\ MaxPosts \in Nat
    BY ThreadPagesAssumption DEF PagesInv, PageTyped
  <1>4. pageThread' \in Nat /\ edits' \in Nat /\ likes' = likes /\ n + 1 \in 0..MaxPosts
    BY <1>2, <1>3 DEF Post, Edit
  <1>5. p = NoPost \/ p \in 1..n
    BY <1>2 DEF Post, Public, PostsOf
  <1>6. NewRow(p, b, t) \in PostRows
    <2>1. p # NoPost => posts[p].depth \in Nat
      BY <1>1, <1>5 DEF PostRows
    <2>2. (IF p = NoPost THEN 0 ELSE posts[p].depth + 1) \in Nat
      BY <2>1
    <2>3. p \in Nat /\ t \in Nat
      BY <1>3
    <2>4. QED
      BY <1>4, <2>2, <2>3 DEF NewRow, PostRows
  <1> DEFINE new == NewRow(p, b, t)
  <1>7. posts' = [i \in 1..(n + 1) |-> IF i \in 1..n THEN posts[i] ELSE new]
    BY <1>2 DEF Post
  <1> HIDE DEF new
  <1>8. posts' \in [1..(n + 1) -> PostRows]
    BY <1>1, <1>6, <1>7 DEF new
  <1>9. PageTyped'
    BY <1>4, <1>8 DEF PagesInv, PageTyped
  <1>10. QED
    BY <1>9, EditKeeps DEF Post

(* Comments, likes and the thread as they are after a change of one of them. *)
LEMMA TypesKept ==
  ASSUME PagesInv, Edit, pageThread' \in Nat, IsFiniteSet(likes'),
         \A n \in 0..MaxPosts : posts \in [1..n -> PostRows] => posts' \in [1..n -> PostRows]
  PROVE  PageTyped'
  <1>1. edits' \in Nat
    BY DEF PagesInv, PageTyped, Edit
  <1>2. PICK n \in 0..MaxPosts : posts \in [1..n -> PostRows]
    BY DEF PagesInv, PageTyped
  <1>3. posts' \in [1..n -> PostRows]
    BY <1>2
  <1>4. QED
    BY <1>1, <1>3 DEF PageTyped

LEMMA ModerateKeeps ==
  ASSUME PagesInv, NEW i, Moderate(i) \/ SetPin(i)
  PROVE  PagesInv'
  <1>1. Edit /\ likes' = likes /\ pageThread' = pageThread
    BY DEF Moderate, SetPin
  <1>2. ASSUME NEW n \in 0..MaxPosts, posts \in [1..n -> PostRows] PROVE posts' \in [1..n -> PostRows]
    <2>1. \/ posts' = [posts EXCEPT ![i].published = ~@]
          \/ posts' = [posts EXCEPT ![i].pinned = ~@]
      BY DEF Moderate, SetPin
    <2>2. ASSUME NEW row \in PostRows
          PROVE  [row EXCEPT !.published = ~@] \in PostRows /\ [row EXCEPT !.pinned = ~@] \in PostRows
      BY DEF PostRows
    <2>3. QED
      BY <1>2, <2>1, <2>2
  <1>3. PageTyped'
    BY <1>1, <1>2, TypesKept DEF PagesInv, PageTyped
  <1>4. QED
    BY <1>1, <1>3, EditKeeps

LEMMA RowsGone ==
  ASSUME NEW row \in PostRows
  PROVE  Gone \in PostRows /\ [row EXCEPT !.parent = NoPost] \in PostRows
  BY DEF Gone, NoPost, PostRows

LEMMA RemovePostKeeps ==
  ASSUME PagesInv, NEW i, RemovePost(i)
  PROVE  PagesInv'
  <1>1. Edit /\ likes' \subseteq likes /\ pageThread' = pageThread
    BY DEF RemovePost
  <1>2. ASSUME NEW n \in 0..MaxPosts, posts \in [1..n -> PostRows] PROVE posts' \in [1..n -> PostRows]
    <2>1. posts' = [j \in 1..n |-> IF j = i THEN Gone ELSE [posts[j] EXCEPT !.parent = IF @ = i THEN NoPost ELSE @]]
      BY <1>2 DEF RemovePost
    <2>2. ASSUME NEW j \in 1..n
          PROVE  (IF j = i THEN Gone ELSE [posts[j] EXCEPT !.parent = IF @ = i THEN NoPost ELSE @]) \in PostRows
      <3>1. posts[j] \in PostRows
        BY <1>2
      <3>2. Gone \in PostRows
        BY <3>1, RowsGone
      <3>3. [posts[j] EXCEPT !.parent = IF @ = i THEN NoPost ELSE @] \in PostRows
        BY <3>1 DEF PostRows, NoPost
      <3>4. QED
        BY <3>2, <3>3
    <2>3. QED
      BY <2>1, <2>2
  <1>3. IsFiniteSet(likes')
    BY <1>1, FS_Subset DEF PagesInv, PageTyped
  <1>4. PageTyped'
    BY <1>1, <1>2, <1>3, TypesKept DEF PagesInv, PageTyped
  <1>5. QED
    BY <1>1, <1>4, EditKeeps

LEMMA DeleteThreadKeeps ==
  ASSUME PagesInv, DeleteThread
  PROVE  PagesInv'
  <1>1. Edit /\ likes' \subseteq likes /\ pageThread' = 0
    BY DEF DeleteThread
  <1>2. ASSUME NEW n \in 0..MaxPosts, posts \in [1..n -> PostRows] PROVE posts' \in [1..n -> PostRows]
    <2>1. posts' = [j \in 1..n |-> IF posts[j].thread = pageThread THEN Gone ELSE posts[j]]
      BY <1>2 DEF DeleteThread
    <2>2. ASSUME NEW j \in 1..n PROVE posts[j] \in PostRows /\ Gone \in PostRows
      BY <1>2, RowsGone
    <2>3. QED
      BY <2>1, <2>2
  <1>3. IsFiniteSet(likes')
    BY <1>1, FS_Subset DEF PagesInv, PageTyped
  <1>4. PageTyped'
    BY <1>1, <1>2, <1>3, TypesKept
  <1>5. QED
    BY <1>1, <1>4, EditKeeps

LEMMA LikeKeeps ==
  ASSUME PagesInv, NEW i, NEW u, AddLike(i, u) \/ RemoveLike(i, u)
  PROVE  PagesInv'
  <1>1. Edit /\ posts' = posts /\ pageThread' = pageThread
    BY DEF AddLike, RemoveLike
  <1>2. likes' = likes \cup {<<i, u>>} \/ likes' = likes \ {<<i, u>>}
    BY DEF AddLike, RemoveLike
  <1>3. IsFiniteSet(likes)
    BY DEF PagesInv, PageTyped
  <1>4. IsFiniteSet(likes \cup {<<i, u>>}) /\ IsFiniteSet(likes \ {<<i, u>>})
    BY <1>3, FS_AddElement, FS_RemoveElement
  <1>5. PageTyped'
    BY <1>1, <1>2, <1>4, TypesKept DEF PagesInv, PageTyped
  <1>6. QED
    BY <1>1, <1>5, EditKeeps

LEMMA PagesBegin ==
  ASSUME PagesInit
  PROVE  PagesInv
  <1>1. MaxCreated \in Nat /\ MaxPosts \in Nat /\ MaxPosts >= 3 /\ IsFiniteSet(Fans)
    BY ThreadPagesAssumption
  <1>2. \A i \in 1..3 : FirstRow(i) \subseteq PostRows
    <2>1. ASSUME NEW i \in 1..3, NEW p \in 0..(i - 1), NEW b \in BOOLEAN, NEW t \in 1..MaxCreated
          PROVE  [thread |-> 1, parent |-> p, depth |-> IF p = NoPost THEN 0 ELSE 1,
                  published |-> b, pinned |-> FALSE, created |-> t] \in PostRows
      <3>1. p \in Nat /\ t \in Nat
        BY <1>1
      <3>2. QED
        BY <3>1 DEF PostRows
    <2>2. QED
      BY <2>1 DEF FirstRow
  <1>3. \E n \in 0..MaxPosts : posts \in [1..n -> PostRows]
    <2>1. CASE posts \in {<<a, b>> : a \in FirstRow(1), b \in FirstRow(2)}
      <3>1. posts \in [1..2 -> PostRows]
        BY <1>2, <2>1
      <3>2. QED
        BY <1>1, <3>1
    <2>2. CASE posts \in {<<a, b, c>> : a \in FirstRow(1), b \in FirstRow(2), c \in FirstRow(3)}
      <3>1. posts \in [1..3 -> PostRows]
        BY <1>2, <2>2
      <3>2. QED
        BY <1>1, <3>1
    <2>3. QED
      BY <2>1, <2>2 DEF PagesInit
  <1>4. IsFiniteSet(likes)
    <2>1. IsFiniteSet({1} \X Fans)
      BY <1>1, FS_Product, FS_Singleton
    <2>2. QED
      BY <2>1, FS_Subset DEF PagesInit
  <1>5. PageTyped
    BY <1>3, <1>4 DEF PagesInit, PageTyped
  <1>6. walk = Unread /\ Unread.list \in Lists
    BY DEF PagesInit, Unread, Lists, NoPost
  <1>7. walk \in Walks /\ walk.steady = {}
    BY <1>6 DEF Unread, Walks, NotShown
  <1>8. SteadyListed /\ ShownWhenPassed
    BY <1>6, <1>7 DEF SteadyListed, ShownWhenPassed
  <1>9. QED
    BY <1>5, <1>7, <1>8 DEF PagesInv

LEMMA PagesSteps ==
  ASSUME PagesInv, [PagesNext]_pagesVars
  PROVE  PagesInv'
  <1>1. CASE PagesNext
    <2>1. \A list \in Lists : BeginWalk(list) => PagesInv'
      BY BeginWalkKeeps
    <2>2. \A p \in 0..MaxPosts, b \in BOOLEAN, t \in 1..MaxCreated : Post(p, b, t) => PagesInv'
      BY PostKeeps
    <2>3. \A i : Moderate(i) \/ SetPin(i) \/ RemovePost(i) => PagesInv'
      BY ModerateKeeps, RemovePostKeeps
    <2>4. \A i, u : AddLike(i, u) \/ RemoveLike(i, u) => PagesInv'
      BY LikeKeeps
    <2>5. QED
      BY <1>1, <2>1, <2>2, <2>3, <2>4, ReadPageKeeps, DeleteThreadKeeps DEF PagesNext
  <1>2. CASE UNCHANGED pagesVars
    <2>1. UNCHANGED <<posts, likes, pageThread, walk, edits>>
      BY <1>2 DEF pagesVars
    <2>2. PageTyped'
      BY <2>1 DEF PagesInv, PageTyped
    <2>3. SteadyListed'
      <3>1. \A list : Places(pageThread, list)' = Places(pageThread, list)
        BY <2>1, PlacesSame
      <3>2. QED
        BY <2>1, <3>1 DEF PagesInv, SteadyListed
    <2>4. ShownWhenPassed'
      BY <2>1 DEF PagesInv, ShownWhenPassed, Ahead
    <2>5. QED
      BY <2>1, <2>2, <2>3, <2>4 DEF PagesInv
  <1>3. QED
    BY <1>1, <1>2

(* Whatever is posted, hidden, pinned, liked or removed between the pages, a reader *)
(* who follows the cursor of any list in any order is shown every comment that      *)
(* keeps its place, and none of them twice, for any length of the pages.             *)
THEOREM PagesShowSteadyRowsOnce == PagesSpec => []SteadyRowsShownOnce
  <1>1. PagesInv => SteadyRowsShownOnce
    BY DEF PagesInv, ShownWhenPassed, SteadyRowsShownOnce
  <1>2. QED
    BY <1>1, PagesBegin, PagesSteps, PTL DEF PagesSpec

-----------------------------------------------------------------------------
(* The visible tree of a page.  Replying makes parents older than their children, and *)
(* nothing turns them round; so the tree is what its recursive definition says,         *)
(* comment by comment.                                                                    *)
(* A parent is an older comment of the same thread. *)
ParentsBelow ==
  \A i \in DOMAIN posts : posts[i].parent # NoPost =>
    /\ posts[i].parent \in DOMAIN posts /\ posts[i].parent < i
    /\ posts[posts[i].parent].thread = posts[i].thread

(* What the tree says of a comment, from what it says of its parent. *)
SeenAt(vis, i) ==
  IF posts[i].parent = NoPost THEN [parent |-> NoPost, root |-> NoPost]
  ELSE IF posts[posts[i].parent].published THEN [parent |-> posts[i].parent, root |-> VisRoot(vis[posts[i].parent], posts[i].parent)]
  ELSE vis[posts[i].parent]

LEMMA TreeUpTo ==
  ASSUME NEW n \in Nat, posts \in [1..n -> PostRows], ParentsBelow
  PROVE  \E vis : vis = [i \in 1..n |-> SeenAt(vis, i)]
  <1> DEFINE T == {m \in 0..n : \E vis : vis = [i \in 1..m |-> SeenAt(vis, i)]}
  <1>1. 0 \in T
    <2>1. PICK vis : vis = [i \in 1..0 |-> NoPost]
      OBVIOUS
    <2>2. vis = [i \in 1..0 |-> SeenAt(vis, i)]
      BY <2>1
    <2>3. 0 \in 0..n
      OBVIOUS
    <2>4. QED
      BY <2>2, <2>3
  <1>2. ASSUME NEW m \in 0..n, m \in T, m < n PROVE m + 1 \in T
    <2>1. PICK vis : vis = [i \in 1..m |-> SeenAt(vis, i)]
      BY <1>2
    <2>2. PICK more : more = [i \in 1..(m + 1) |-> IF i \in 1..m THEN vis[i] ELSE SeenAt(vis, i)]
      OBVIOUS
    <2>3. ASSUME NEW i \in 1..(m + 1) PROVE SeenAt(more, i) = SeenAt(vis, i)
      <3>1. posts[i].parent # NoPost => posts[i].parent \in 1..m
        <4>1. i \in DOMAIN posts /\ DOMAIN posts = 1..n
          BY <1>2
        <4>2. posts[i].parent # NoPost => posts[i].parent \in 1..n /\ posts[i].parent < i
          BY <4>1 DEF ParentsBelow
        <4>3. QED
          BY <4>2
      <3>2. posts[i].parent # NoPost => more[posts[i].parent] = vis[posts[i].parent]
        BY <2>2, <3>1
      <3>3. QED
        BY <3>2 DEF SeenAt
    <2>4. \A i \in 1..m : vis[i] = SeenAt(vis, i)
      BY <2>1
    <2>5. more = [i \in 1..(m + 1) |-> SeenAt(vis, i)]
      BY <2>2, <2>4
    <2>6. more = [i \in 1..(m + 1) |-> SeenAt(more, i)]
      BY <2>3, <2>5
    <2>7. m + 1 \in 0..n
      BY <1>2
    <2>8. QED
      BY <2>6, <2>7
  <1> HIDE DEF T
  <1>3. n \in T
    BY <1>1, <1>2, UpTo
  <1>4. QED
    BY <1>3 DEF T

LEMMA VisibleUnfolds ==
  ASSUME PageTyped, ParentsBelow
  PROVE  Visible = [i \in DOMAIN posts |-> SeenAt(Visible, i)]
  <1>1. PICK n \in 0..MaxPosts : posts \in [1..n -> PostRows]
    BY DEF PageTyped
  <1>2. n \in Nat /\ DOMAIN posts = 1..n
    BY <1>1, ThreadPagesAssumption
  <1>3. \E vis : vis = [i \in DOMAIN posts |-> SeenAt(vis, i)]
    BY <1>1, <1>2, TreeUpTo
  <1>4. Visible = CHOOSE vis : vis = [i \in DOMAIN posts |-> SeenAt(vis, i)]
    BY DEF Visible, SeenAt
  <1>5. QED
    BY <1>3, <1>4

(* A published older comment of the same thread. *)
Above(j, i) == j \in DOMAIN posts /\ j < i /\ posts[j].published /\ posts[j].thread = posts[i].thread

(* Who has a visible parent has a visible root, which has none, and hangs below it *)
(* through the parent.                                                               *)
HangsBelow(v, i) ==
  /\ v.parent = NoPost <=> v.root = NoPost
  /\ v.root # NoPost =>
       /\ Above(v.root, i) /\ Visible[v.root].parent = NoPost
       /\ Above(v.parent, i) /\ (v.parent = v.root \/ Visible[v.parent].root = v.root)

LEMMA VisibleSound ==
  ASSUME PageTyped, ParentsBelow
  PROVE  \A i \in DOMAIN posts : HangsBelow(Visible[i], i)
  <1>1. PICK n \in 0..MaxPosts : posts \in [1..n -> PostRows]
    BY DEF PageTyped
  <1>2. n \in Nat /\ DOMAIN posts = 1..n
    BY <1>1, ThreadPagesAssumption
  <1>3. \A i \in 1..n : Visible[i] = SeenAt(Visible, i)
    <2>1. Visible = [i \in DOMAIN posts |-> SeenAt(Visible, i)]
      BY VisibleUnfolds
    <2>2. QED
      BY <1>2, <2>1
  <1> DEFINE T == {m \in 0..n : \A i \in 1..m : HangsBelow(Visible[i], i)}
  <1>4. 0 \in T
    BY <1>2
  <1>5. ASSUME NEW m \in 0..n, m \in T, m < n PROVE m + 1 \in T
    <2> DEFINE i == m + 1
               p == posts[i].parent
               v == Visible[i]
    <2>1. i \in 1..n /\ i \in DOMAIN posts /\ v = SeenAt(Visible, i)
      BY <1>2, <1>3, <1>5
    <2>2. p # NoPost => /\ p \in 1..m /\ p \in DOMAIN posts /\ p < i
                        /\ posts[p].thread = posts[i].thread
                        /\ HangsBelow(Visible[p], p)
      <3>1. p # NoPost => p \in DOMAIN posts /\ p < i /\ posts[p].thread = posts[i].thread
        BY <2>1 DEF ParentsBelow
      <3>2. p # NoPost => p \in 1..m
        BY <1>2, <2>1, <3>1
      <3>3. QED
        BY <1>5, <3>1, <3>2
    <2>3. ASSUME p # NoPost, NEW j, Above(j, p) PROVE Above(j, i)
      <3>1. j \in 1..n /\ p \in 1..n
        BY <1>2, <2>2, <2>3 DEF Above
      <3>2. j < i
        BY <1>2, <2>1, <2>2, <2>3, <3>1 DEF Above
      <3>3. QED
        BY <2>2, <2>3, <3>2 DEF Above
    <2> HIDE DEF v
    <2>4. HangsBelow(v, i)
      <3>1. CASE p = NoPost
        BY <2>1, <3>1 DEF HangsBelow, SeenAt
      <3>2. CASE p # NoPost /\ posts[p].published
        <4>1. Above(p, i)
          BY <2>2, <3>2 DEF Above
        <4>2. v.parent = p /\ v.root = VisRoot(Visible[p], p)
          BY <2>1, <3>2 DEF SeenAt
        <4>3. CASE Visible[p].root = NoPost
          BY <2>2, <3>2, <4>1, <4>2, <4>3 DEF HangsBelow, VisRoot
        <4>4. CASE Visible[p].root # NoPost
          <5>1. v.root = Visible[p].root
            BY <4>2, <4>4 DEF VisRoot
          <5>2. Above(v.root, i) /\ Visible[v.root].parent = NoPost
            BY <2>2, <2>3, <3>2, <4>4, <5>1 DEF HangsBelow
          <5>3. QED
            BY <3>2, <4>1, <4>2, <4>4, <5>1, <5>2 DEF HangsBelow
        <4>5. QED
          BY <4>3, <4>4
      <3>3. CASE p # NoPost /\ ~posts[p].published
        <4>1. v = Visible[p]
          BY <2>1, <3>3 DEF SeenAt
        <4>2. QED
          BY <2>2, <2>3, <3>3, <4>1 DEF HangsBelow
      <3>4. QED
        BY <3>1, <3>2, <3>3
    <2>5. \A k \in 1..(m + 1) : HangsBelow(Visible[k], k)
      <3>1. ASSUME NEW k \in 1..(m + 1) PROVE k \in 1..m \/ k = i
        BY <1>2
      <3>2. QED
        BY <1>5, <2>4, <3>1 DEF v
    <2>6. m + 1 \in 0..n
      BY <1>2, <1>5
    <2>7. QED
      BY <2>5, <2>6
  <1> HIDE DEF T
  <1>6. n \in T
    <2>1. \A m \in 0..n : m \in T /\ m < n => m + 1 \in T
      BY <1>5
    <2>2. \A m \in 0..n : m \in T
      BY <1>2, <1>4, <2>1, UpTo
    <2>3. QED
      BY <1>2, <2>2
  <1>7. QED
    BY <1>2, <1>6 DEF T

LEMMA WholeWhileParentsBelow ==
  ASSUME PageTyped, ParentsBelow
  PROVE  PageWhole
  <1> SUFFICES ASSUME NEW i \in Public(pageThread)
               PROVE  /\ Cardinality({r \in Roots(pageThread) : i = r \/ i \in Replies(pageThread, r)}) = 1
                      /\ \A r \in Roots(pageThread) : i \in Replies(pageThread, r) =>
                           HasReplies(pageThread, r) /\ Visible[i].parent \in {r} \cup Replies(pageThread, r)
    BY DEF PageWhole
  <1> DEFINE v == Visible[i]
             of == {r \in Roots(pageThread) : i = r \/ i \in Replies(pageThread, r)}
  <1>1. i \in DOMAIN posts /\ posts[i].published /\ posts[i].thread = pageThread /\ pageThread # 0
    BY DEF Public, PostsOf
  <1>2. HangsBelow(v, i)
    BY <1>1, VisibleSound
  <1>3. \A j : Above(j, i) => j \in Public(pageThread) /\ j # i
    <2>1. \A j : j \in DOMAIN posts => j \in Nat
      BY DEF PageTyped
    <2>2. QED
      BY <1>1, <2>1 DEF Above, Public, PostsOf
  <1>4. NoPost \notin DOMAIN posts
    BY DEF PageTyped, NoPost
  <1>5. \A r \in Roots(pageThread) : r # NoPost
    BY <1>4 DEF Roots, Public, PostsOf
  <1>6. \A r : i \in Replies(pageThread, r) <=> i # r /\ v.root = r
    BY DEF Replies
  <1> HIDE DEF v
  <1>7. v.root # NoPost => v.root \in Roots(pageThread) /\ v.root # i
    BY <1>2, <1>3 DEF HangsBelow, Roots
  <1>8. Cardinality(of) = 1
    <2>1. CASE v.root = NoPost
      <3>1. i \in Roots(pageThread)
        BY <1>2, <2>1 DEF HangsBelow, Roots, v
      <3>2. of = {i}
        BY <1>5, <1>6, <2>1, <3>1
      <3>3. QED
        BY <3>2, FS_Singleton
    <2>2. CASE v.root # NoPost
      <3>1. i \notin Roots(pageThread)
        BY <1>2, <2>2 DEF HangsBelow, Roots, v
      <3>2. of = {v.root}
        BY <1>6, <1>7, <2>2, <3>1
      <3>3. QED
        BY <3>2, FS_Singleton
    <2>3. QED
      BY <2>1, <2>2
  <1>9. ASSUME NEW r \in Roots(pageThread), i \in Replies(pageThread, r)
        PROVE  HasReplies(pageThread, r) /\ v.parent \in {r} \cup Replies(pageThread, r)
    <2>1. HasReplies(pageThread, r)
      BY <1>9 DEF HasReplies
    <2>2. v.root = r /\ r # NoPost
      BY <1>5, <1>6, <1>9
    <2>3. v.parent \in Public(pageThread)
      BY <1>2, <1>3, <2>2 DEF HangsBelow
    <2>4. v.parent = r \/ (v.parent # r /\ Visible[v.parent].root = r)
      BY <1>2, <2>2 DEF HangsBelow
    <2>5. QED
      BY <2>1, <2>3, <2>4 DEF Replies
  <1>10. QED
    BY <1>8, <1>9 DEF v

LEMMA ParentsBelowKept ==
  ASSUME PagesInv, ParentsBelow, [PagesNext]_pagesVars
  PROVE  ParentsBelow'
  <1>1. PICK n \in 0..MaxPosts : posts \in [1..n -> PostRows]
    BY DEF PagesInv, PageTyped
  <1>2. n \in Nat /\ DOMAIN posts = 1..n
    BY <1>1, ThreadPagesAssumption
  <1>3. \A j \in 1..n : posts[j] \in PostRows
    BY <1>1
  <1>4. CASE UNCHANGED posts
    BY <1>4 DEF ParentsBelow
  <1>5. ASSUME NEW p \in 0..MaxPosts, NEW b \in BOOLEAN, NEW t \in 1..MaxCreated, Post(p, b, t) PROVE ParentsBelow'
    <2> DEFINE new == NewRow(p, b, t)
    <2>1. Cardinality(DOMAIN posts) = n
      BY <1>2, FS_Interval
    <2>2. posts' = [i \in 1..(n + 1) |-> IF i \in 1..n THEN posts[i] ELSE new]
      BY <1>2, <1>5, <2>1 DEF Post
    <2>3. p # NoPost => p \in 1..n /\ posts[p].thread = new.thread
      BY <1>2, <1>5 DEF Post, Public, PostsOf, NewRow
    <2>4. new.parent = p
      BY DEF NewRow
    <2> HIDE DEF new
    <2>5. DOMAIN posts' = 1..(n + 1) /\ (\A i \in 1..n : posts'[i] = posts[i]) /\ posts'[n + 1] = new
      BY <1>2, <2>2
    <2>6. ASSUME NEW i \in 1..(n + 1), posts'[i].parent # NoPost
          PROVE  /\ posts'[i].parent \in 1..n /\ posts'[i].parent < i
                 /\ posts'[posts'[i].parent].thread = posts'[i].thread
      <3>1. CASE i \in 1..n
        <4>1. /\ posts[i].parent \in DOMAIN posts /\ posts[i].parent < i
              /\ posts[posts[i].parent].thread = posts[i].thread
          BY <1>2, <2>5, <2>6, <3>1 DEF ParentsBelow
        <4>2. QED
          BY <1>2, <2>5, <3>1, <4>1
      <3>2. CASE i = n + 1
        BY <1>2, <2>3, <2>4, <2>5, <2>6, <3>2
      <3>3. QED
        BY <1>2, <3>1, <3>2
    <2>7. \A i \in 1..n : i \in 1..(n + 1)
      BY <1>2
    <2>8. QED
      BY <2>5, <2>6, <2>7 DEF ParentsBelow
  <1>6. ASSUME NEW i, Moderate(i) \/ SetPin(i) PROVE ParentsBelow'
    <2>1. \/ posts' = [posts EXCEPT ![i].published = ~@]
          \/ posts' = [posts EXCEPT ![i].pinned = ~@]
      BY <1>6 DEF Moderate, SetPin
    <2>2. ASSUME NEW row \in PostRows
          PROVE  /\ [row EXCEPT !.published = ~@].parent = row.parent /\ [row EXCEPT !.published = ~@].thread = row.thread
                 /\ [row EXCEPT !.pinned = ~@].parent = row.parent /\ [row EXCEPT !.pinned = ~@].thread = row.thread
      BY DEF PostRows
    <2>3. /\ DOMAIN posts' = DOMAIN posts
          /\ \A j \in 1..n : posts'[j].parent = posts[j].parent /\ posts'[j].thread = posts[j].thread
      <3>1. DOMAIN posts' = DOMAIN posts
        BY <2>1
      <3>2. ASSUME NEW j \in 1..n
            PROVE  \/ posts'[j] = posts[j]
                   \/ posts'[j] = [posts[j] EXCEPT !.published = ~@]
                   \/ posts'[j] = [posts[j] EXCEPT !.pinned = ~@]
        BY <1>2, <2>1
      <3>3. QED
        BY <1>3, <2>2, <3>1, <3>2
    <2>4. QED
      BY <1>2, <2>3 DEF ParentsBelow
  <1>7. ASSUME NEW i, RemovePost(i) PROVE ParentsBelow'
    <2>1. posts' = [j \in 1..n |-> IF j = i THEN Gone ELSE [posts[j] EXCEPT !.parent = IF @ = i THEN NoPost ELSE @]]
      BY <1>2, <1>7 DEF RemovePost
    <2>2. DOMAIN posts' = 1..n
      BY <2>1
    <2>3. ASSUME NEW j \in 1..n, j # i
          PROVE  posts'[j].parent = (IF posts[j].parent = i THEN NoPost ELSE posts[j].parent) /\ posts'[j].thread = posts[j].thread
      <3>1. posts'[j] = [posts[j] EXCEPT !.parent = IF @ = i THEN NoPost ELSE @]
        BY <2>1, <2>3
      <3>2. QED
        BY <1>3, <3>1 DEF PostRows
    <2>4. posts'[i].parent = NoPost \/ i \notin 1..n
      BY <2>1 DEF Gone
    <2>5. ASSUME NEW j \in 1..n, posts'[j].parent # NoPost
          PROVE  /\ posts'[j].parent \in 1..n /\ posts'[j].parent < j
                 /\ posts'[posts'[j].parent].thread = posts'[j].thread
      <3>1. j # i /\ posts'[j].parent = posts[j].parent /\ posts[j].parent # i
        BY <2>3, <2>4, <2>5
      <3>2. posts[j].parent \in 1..n /\ posts[j].parent < j /\ posts[posts[j].parent].thread = posts[j].thread
        BY <1>2, <2>5, <3>1 DEF ParentsBelow
      <3>3. QED
        BY <2>3, <3>1, <3>2
    <2>6. QED
      BY <2>2, <2>5 DEF ParentsBelow
  <1>8. ASSUME DeleteThread PROVE ParentsBelow'
    <2>1. posts' = [j \in 1..n |-> IF posts[j].thread = pageThread THEN Gone ELSE posts[j]]
      BY <1>2, <1>8 DEF DeleteThread
    <2>2. DOMAIN posts' = 1..n
      BY <2>1
    <2>3. ASSUME NEW j \in 1..n, posts'[j].parent # NoPost
          PROVE  /\ posts'[j].parent \in 1..n /\ posts'[j].parent < j
                 /\ posts'[posts'[j].parent].thread = posts'[j].thread
      <3>1. posts[j].thread # pageThread /\ posts'[j] = posts[j]
        BY <2>1, <2>3 DEF Gone
      <3>2. posts[j].parent \in 1..n /\ posts[j].parent < j /\ posts[posts[j].parent].thread = posts[j].thread
        BY <1>2, <2>3, <3>1 DEF ParentsBelow
      <3>3. QED
        BY <2>1, <3>1, <3>2
    <2>4. QED
      BY <2>2, <2>3 DEF ParentsBelow
  <1>9. ASSUME NEW i, NEW u, AddLike(i, u) \/ RemoveLike(i, u) PROVE UNCHANGED posts
    BY <1>9 DEF AddLike, RemoveLike
  <1>10. ASSUME NEW list, BeginWalk(list) PROVE UNCHANGED posts
    BY <1>10 DEF BeginWalk
  <1>11. ReadPage => UNCHANGED posts
    BY DEF ReadPage
  <1>12. CASE UNCHANGED pagesVars
    BY <1>4, <1>12 DEF pagesVars
  <1>13. QED
    BY <1>4, <1>5, <1>6, <1>7, <1>8, <1>9, <1>10, <1>11, <1>12 DEF PagesNext

LEMMA ParentsBegin ==
  ASSUME PagesInit
  PROVE  ParentsBelow
  <1>1. ASSUME NEW i \in 1..3, NEW row \in FirstRow(i) PROVE row.thread = 1 /\ row.parent \in 0..(i - 1)
    BY DEF FirstRow
  <1>2. \E n \in 2..3 : DOMAIN posts = 1..n /\ \A i \in 1..n : posts[i] \in FirstRow(i)
    <2>1. CASE posts \in {<<a, b>> : a \in FirstRow(1), b \in FirstRow(2)}
      BY <2>1
    <2>2. CASE posts \in {<<a, b, c>> : a \in FirstRow(1), b \in FirstRow(2), c \in FirstRow(3)}
      BY <2>2
    <2>3. QED
      BY <2>1, <2>2 DEF PagesInit
  <1>3. PICK n \in 2..3 : DOMAIN posts = 1..n /\ \A i \in 1..n : posts[i] \in FirstRow(i)
    BY <1>2
  <1>4. \A i \in 1..n : posts[i].thread = 1 /\ posts[i].parent \in 0..(i - 1)
    BY <1>1, <1>3
  <1>5. QED
    BY <1>3, <1>4 DEF ParentsBelow, NoPost

(* However much of a page is hidden, its roots and their replies are the whole  *)
(* of it: a published comment is a root or the reply of exactly one, and hangs  *)
(* below it through comments that are listed with it.                            *)
THEOREM PagesStayWhole == PagesSpec => []PageWhole
  <1>1. PagesInit => PagesInv /\ ParentsBelow
    BY PagesBegin, ParentsBegin
  <1>2. PagesInv /\ ParentsBelow /\ [PagesNext]_pagesVars => PagesInv' /\ ParentsBelow'
    BY PagesSteps, ParentsBelowKept
  <1>3. PagesInv /\ ParentsBelow => PageWhole
    BY WholeWhileParentsBelow DEF PagesInv
  <1>4. QED
    BY <1>1, <1>2, <1>3, PTL DEF PagesSpec

-----------------------------------------------------------------------------
(* The import of an Artalk export.                                                     *)
In(order, n) == \E i \in DOMAIN order : order[i] = n

(* Parents first, and each record once. *)
Ordered(order) ==
  /\ order \in Seq(Records)
  /\ \A i, j \in 1..Len(order) : order[i] = order[j] => i = j
  /\ \A i \in 1..Len(order) : Parent(order[i]) # NoRecord => \E j \in 1..(i - 1) : order[j] = Parent(order[i])

VisitAt(order, orderOf, n) ==
  IF \E i \in DOMAIN order : order[i] = n THEN order
  ELSE Append(IF Parent(n) = NoRecord THEN order ELSE orderOf[Parent(n)], n)

LEMMA RecordNumbers ==
  /\ IsFiniteSet(Records) /\ Cardinality(Records) \in Nat /\ Records = 1..Cardinality(Records)
  /\ NoRecord \notin Records
  <1>1. IsFiniteSet(Records) /\ Records = 1..Cardinality(Records)
    BY ArtalkAssumption
  <1>2. Cardinality(Records) \in Nat
    BY <1>1, FS_CardinalityType
  <1>3. NoRecord \notin 1..Cardinality(Records)
    BY <1>2 DEF NoRecord
  <1>4. QED
    BY <1>1, <1>2, <1>3

(* The records a solution is known of grow by one whose parent is among them, until *)
(* it is known of all.                                                               *)
Known(order, D) ==
  /\ \A n \in D : Parent(n) = NoRecord \/ Parent(n) \in D
  /\ \E orderOf : orderOf = [n \in D |-> VisitAt(order, orderOf, n)]

LEMMA VisitSolved ==
  ASSUME Acyclic, Resolvable, NEW order
  PROVE  \E orderOf : orderOf = [n \in Records |-> VisitAt(order, orderOf, n)]
  <1> DEFINE N == Cardinality(Records)
             T == {k \in 0..N : \E D \in SUBSET Records : Cardinality(D) = k /\ Known(order, D)}
  <1>1. N \in Nat /\ IsFiniteSet(Records)
    BY RecordNumbers
  <1>2. 0 \in T
    <2>1. PICK orderOf : orderOf = [n \in {} |-> NoRecord]
      OBVIOUS
    <2>2. orderOf = [n \in {} |-> VisitAt(order, orderOf, n)]
      BY <2>1
    <2>3. Known(order, {})
      BY <2>2 DEF Known
    <2>4. {} \in SUBSET Records /\ Cardinality({}) = 0 /\ 0 \in 0..N
      BY <1>1, FS_EmptySet
    <2>5. QED
      BY <2>3, <2>4
  <1>3. ASSUME NEW k \in 0..N, k \in T, k < N PROVE k + 1 \in T
    <2>1. PICK D \in SUBSET Records : Cardinality(D) = k /\ Known(order, D)
      BY <1>3
    <2>2. D # Records /\ IsFiniteSet(D)
      BY <1>1, <1>3, <2>1, FS_Subset
    <2>3. PICK n \in Records \ D : Parent(n) \notin Records \ D
      BY <2>2 DEF Acyclic
    <2>4. Parent(n) = NoRecord \/ Parent(n) \in D
      BY <2>3 DEF Resolvable
    <2>5. PICK orderOf : orderOf = [m \in D |-> VisitAt(order, orderOf, m)]
      BY <2>1 DEF Known
    <2>6. PICK more : more = [m \in D \cup {n} |-> IF m \in D THEN orderOf[m] ELSE VisitAt(order, orderOf, m)]
      OBVIOUS
    <2>7. \A m \in D \cup {n} : Parent(m) = NoRecord \/ Parent(m) \in D
      BY <2>1, <2>4 DEF Known
    <2>8. ASSUME NEW m \in D \cup {n} PROVE VisitAt(order, more, m) = VisitAt(order, orderOf, m)
      <3>1. Parent(m) # NoRecord => more[Parent(m)] = orderOf[Parent(m)]
        BY <2>6, <2>7
      <3>2. QED
        BY <3>1 DEF VisitAt
    <2>9. \A m \in D : orderOf[m] = VisitAt(order, orderOf, m)
      BY <2>5
    <2>10. more = [m \in D \cup {n} |-> VisitAt(order, more, m)]
      BY <2>6, <2>8, <2>9
    <2>11. Known(order, D \cup {n})
      BY <2>7, <2>10 DEF Known
    <2>12. Cardinality(D \cup {n}) = k + 1
      BY <2>1, <2>2, <2>3, FS_AddElement
    <2>13. k + 1 \in 0..N /\ D \cup {n} \in SUBSET Records
      BY <1>1, <1>3, <2>3
    <2>14. QED
      BY <2>11, <2>12, <2>13
  <1> HIDE DEF T
  <1>4. N \in T
    <2>1. \A k \in 0..N : k \in T /\ k < N => k + 1 \in T
      BY <1>3
    <2>2. \A k \in 0..N : k \in T
      BY <1>1, <1>2, <2>1, UpTo
    <2>3. QED
      BY <1>1, <2>2
  <1>5. PICK D \in SUBSET Records : Cardinality(D) = N /\ Known(order, D)
    BY <1>4 DEF T
  <1>6. D = Records
    BY <1>1, <1>5, FS_Subset
  <1>7. QED
    BY <1>5, <1>6 DEF Known

LEMMA VisitUnfolds ==
  ASSUME Acyclic, Resolvable, NEW order
  PROVE  \E orderOf : /\ orderOf = [n \in Records |-> VisitAt(order, orderOf, n)]
                    /\ \A n \in Records : VisitFrom(order, n) = orderOf[n]
  <1> DEFINE orderOf == CHOOSE v : v = [n \in Records |-> VisitAt(order, v, n)]
  <1>1. orderOf = [n \in Records |-> VisitAt(order, orderOf, n)]
    BY VisitSolved
  <1>2. \A n \in Records : VisitFrom(order, n) = orderOf[n]
    BY DEF VisitFrom, VisitAt
  <1> HIDE DEF orderOf
  <1>3. QED
    BY <1>1, <1>2

LEMMA OrderedGrows ==
  ASSUME NEW order, Ordered(order), NEW n \in Records, ~In(order, n),
         Parent(n) = NoRecord \/ In(order, Parent(n))
  PROVE  /\ Ordered(Append(order, n)) /\ Len(Append(order, n)) = Len(order) + 1 /\ Len(order) \in Nat
         /\ \A m : In(Append(order, n), m) <=> In(order, m) \/ m = n
  <1> DEFINE more == Append(order, n)
  <1>1. order \in Seq(Records) /\ DOMAIN order = 1..Len(order) /\ Len(order) \in Nat
    BY DEF Ordered
  <1>2. /\ more \in Seq(Records) /\ Len(more) = Len(order) + 1 /\ DOMAIN more = 1..(Len(order) + 1)
        /\ more[Len(order) + 1] = n /\ \A i \in 1..Len(order) : more[i] = order[i]
    BY <1>1
  <1> HIDE DEF more
  <1>3. \A i \in 1..(Len(order) + 1) : i \in 1..Len(order) \/ i = Len(order) + 1
    BY <1>1
  <1>4. \A m : In(more, m) <=> In(order, m) \/ m = n
    <2>1. 1..Len(order) \subseteq 1..(Len(order) + 1) /\ Len(order) + 1 \in 1..(Len(order) + 1)
      BY <1>1
    <2>2. QED
      BY <1>1, <1>2, <1>3, <2>1 DEF In
  <1>5. ASSUME NEW i \in 1..Len(more), NEW j \in 1..Len(more), more[i] = more[j] PROVE i = j
    <2>1. \A l \in 1..Len(order) : order[l] # n
      BY <1>1 DEF In
    <2>2. QED
      BY <1>2, <1>3, <1>5, <2>1 DEF Ordered
  <1>6. ASSUME NEW i \in 1..Len(more), Parent(more[i]) # NoRecord
        PROVE  \E j \in 1..(i - 1) : more[j] = Parent(more[i])
    <2>1. CASE i \in 1..Len(order)
      <3>1. PICK j \in 1..(i - 1) : order[j] = Parent(order[i])
        BY <1>2, <1>6, <2>1 DEF Ordered
      <3>2. j \in 1..Len(order)
        BY <1>1, <2>1
      <3>3. QED
        BY <1>2, <2>1, <3>1, <3>2
    <2>2. CASE i = Len(order) + 1
      <3>1. PICK j \in 1..Len(order) : order[j] = Parent(n)
        BY <1>1, <1>2, <1>6, <2>2 DEF In
      <3>2. j \in 1..(i - 1) /\ more[j] = Parent(more[i])
        BY <1>1, <1>2, <2>2, <3>1
      <3>3. QED
        BY <3>2
    <2>3. QED
      BY <1>2, <1>3, <2>1, <2>2
  <1>7. Ordered(more)
    BY <1>2, <1>5, <1>6 DEF Ordered
  <1>8. QED
    BY <1>1, <1>2, <1>4, <1>7 DEF more

(* One visit: the record is there, and what has come with it is not longer in coming. *)
VisitedWell(order, orderOf, n) ==
  /\ Ordered(orderOf[n]) /\ In(orderOf[n], n)
  /\ \A m \in Records : In(order, m) => In(orderOf[n], m)
  /\ \A m \in Records : In(orderOf[n], m) => In(order, m) \/ Len(orderOf[m]) <= Len(orderOf[n])

LEMMA VisitOrders ==
  ASSUME Acyclic, Resolvable, NEW order, Ordered(order), NEW k \in Records
  PROVE  /\ Ordered(VisitFrom(order, k)) /\ In(VisitFrom(order, k), k)
         /\ \A m \in Records : In(order, m) => In(VisitFrom(order, k), m)
  <1>1. PICK orderOf : /\ orderOf = [n \in Records |-> VisitAt(order, orderOf, n)]
                     /\ \A n \in Records : VisitFrom(order, n) = orderOf[n]
    BY VisitUnfolds
  <1>2. \A n \in Records : orderOf[n] = VisitAt(order, orderOf, n)
    BY <1>1
  <1>3. ASSUME NEW n \in Records, Parent(n) = NoRecord \/ (Parent(n) \in Records /\ VisitedWell(order, orderOf, Parent(n)))
        PROVE  VisitedWell(order, orderOf, n)
    <2>1. CASE In(order, n)
      <3>1. orderOf[n] = order
        BY <1>2, <2>1 DEF VisitAt, In
      <3>2. QED
        BY <2>1, <3>1 DEF VisitedWell
    <2>2. CASE ~In(order, n)
      <3> DEFINE before == IF Parent(n) = NoRecord THEN order ELSE orderOf[Parent(n)]
      <3>1. orderOf[n] = Append(before, n)
        BY <1>2, <2>2 DEF VisitAt, In
      <3>2. /\ Ordered(before)
            /\ Parent(n) = NoRecord \/ In(before, Parent(n))
            /\ \A m \in Records : In(order, m) => In(before, m)
            /\ \A m \in Records : In(before, m) => In(order, m) \/ Len(orderOf[m]) <= Len(before)
        BY <1>3 DEF VisitedWell
      <3> HIDE DEF before
      <3>3. Len(before) \in Nat /\ Len(Append(before, n)) = Len(before) + 1
        BY <3>2 DEF Ordered
      <3>4. ~In(before, n)
        BY <2>2, <3>1, <3>2, <3>3
      <3>5. Ordered(orderOf[n]) /\ \A m : In(orderOf[n], m) <=> In(before, m) \/ m = n
        BY <3>1, <3>2, <3>4, OrderedGrows
      <3>6. ASSUME NEW m \in Records, In(orderOf[n], m) PROVE In(order, m) \/ Len(orderOf[m]) <= Len(orderOf[n])
        <4>1. CASE m = n
          BY <3>1, <3>3, <4>1
        <4>2. CASE m # n /\ ~In(order, m)
          <5>1. Len(orderOf[m]) <= Len(before)
            BY <3>2, <3>5, <3>6, <4>2
          <5>2. In(before, m)
            BY <3>5, <3>6, <4>2
          <5>3. QED
            BY <3>1, <3>3, <5>1
        <4>3. QED
          BY <4>1, <4>2
      <3>7. QED
        BY <3>2, <3>5, <3>6 DEF VisitedWell
    <2>3. QED
      BY <2>1, <2>2
  <1>4. \A n \in Records : VisitedWell(order, orderOf, n)
    <2> DEFINE S == {n \in Records : ~VisitedWell(order, orderOf, n)}
    <2>1. ASSUME S # {} PROVE FALSE
      <3>1. PICK n \in S : Parent(n) \notin S
        BY <2>1 DEF Acyclic
      <3>2. Parent(n) = NoRecord \/ (Parent(n) \in Records /\ VisitedWell(order, orderOf, Parent(n)))
        BY <3>1 DEF Resolvable
      <3>3. QED
        BY <1>3, <3>1, <3>2
    <2>2. QED
      BY <2>1
  <1>5. QED
    BY <1>1, <1>4 DEF VisitedWell

LEMMA OrderComplete ==
  ASSUME Acyclic, Resolvable
  PROVE  Ordered(Visit) /\ \A n \in Records : In(Visit, n)
  <1> DEFINE N == Cardinality(Records)
             next(order, k) == IF k = 0 THEN <<>> ELSE VisitFrom(order[k - 1], k)
             all == CHOOSE order : order = [k \in 0..N |-> next(order, k)]
  <1>1. N \in Nat /\ Records = 1..N
    BY RecordNumbers
  <1>2. \E order : order = [k \in 0..N |-> next(order, k)]
    <2> DEFINE T == {m \in 0..N : \E order : order = [k \in 0..m |-> next(order, k)]}
    <2>1. 0 \in T
      <3>1. PICK order : order = [k \in 0..0 |-> <<>>]
        OBVIOUS
      <3>2. \A k \in 0..0 : k = 0
        OBVIOUS
      <3>3. order = [k \in 0..0 |-> next(order, k)]
        BY <3>1, <3>2
      <3>4. 0 \in 0..N
        BY <1>1
      <3>5. QED
        BY <3>3, <3>4
    <2>2. ASSUME NEW m \in 0..N, m \in T, m < N PROVE m + 1 \in T
      <3>1. PICK order : order = [k \in 0..m |-> next(order, k)]
        BY <2>2
      <3>2. PICK more : more = [k \in 0..(m + 1) |-> IF k \in 0..m THEN order[k] ELSE next(order, k)]
        OBVIOUS
      <3>3. ASSUME NEW k \in 0..(m + 1) PROVE next(more, k) = next(order, k)
        <4>1. k # 0 => k - 1 \in 0..m /\ k - 1 \in 0..(m + 1)
          BY <2>2
        <4>2. k # 0 => more[k - 1] = order[k - 1]
          BY <3>2, <4>1
        <4>3. QED
          BY <4>2
      <3>4. \A k \in 0..m : order[k] = next(order, k)
        BY <3>1
      <3> HIDE DEF next
      <3>5. more = [k \in 0..(m + 1) |-> next(more, k)]
        BY <3>2, <3>3, <3>4
      <3>6. m + 1 \in 0..N
        BY <1>1, <2>2
      <3>7. QED
        BY <3>5, <3>6
    <2> HIDE DEF T
    <2>3. N \in T
      <3>1. \A m \in 0..N : m \in T /\ m < N => m + 1 \in T
        BY <2>2
      <3>2. \A m \in 0..N : m \in T
        BY <1>1, <2>1, <3>1, UpTo
      <3>3. QED
        BY <1>1, <3>2
    <2>4. QED
      BY <2>3 DEF T
  <1>3. Visit = all[N]
    BY DEF Visit
  <1> HIDE DEF next
  <1>4. all = [k \in 0..N |-> next(all, k)]
    BY <1>2
  <1> HIDE DEF all
  <1>5. \A k \in 0..N : all[k] = next(all, k)
    BY <1>4
  <1> DEFINE T == {k \in 0..N : Ordered(all[k]) /\ \A n \in 1..k : In(all[k], n)}
  <1>6. 0 \in T
    <2>1. 0 \in 0..N /\ all[0] = <<>>
      BY <1>1, <1>5 DEF next
    <2>2. Ordered(<<>>)
      BY DEF Ordered
    <2>3. QED
      BY <2>1, <2>2
  <1>7. ASSUME NEW k \in 0..N, k \in T, k < N PROVE k + 1 \in T
    <2>1. k + 1 \in 1..N /\ k + 1 \in 0..N /\ k + 1 # 0 /\ (k + 1) - 1 = k /\ k + 1 \in Records
      BY <1>1, <1>7
    <2>2. all[k + 1] = VisitFrom(all[k], k + 1)
      BY <1>5, <2>1 DEF next
    <2>3. Ordered(all[k]) /\ \A n \in 1..k : In(all[k], n)
      BY <1>7
    <2>4. /\ Ordered(all[k + 1]) /\ In(all[k + 1], k + 1)
          /\ \A m \in Records : In(all[k], m) => In(all[k + 1], m)
      BY <2>1, <2>2, <2>3, VisitOrders
    <2>5. ASSUME NEW n \in 1..(k + 1) PROVE In(all[k + 1], n)
      <3>1. n = k + 1 \/ (n \in 1..k /\ n \in Records)
        BY <1>1, <2>1
      <3>2. QED
        BY <2>3, <2>4, <3>1
    <2>6. QED
      BY <2>1, <2>4, <2>5
  <1> HIDE DEF T
  <1>8. N \in T
    <2>1. \A k \in 0..N : k \in T /\ k < N => k + 1 \in T
      BY <1>7
    <2>2. \A k \in 0..N : k \in T
      BY <1>1, <1>6, <2>1, UpTo
    <2>3. QED
      BY <1>1, <2>2
  <1>9. QED
    BY <1>1, <1>3, <1>8 DEF T

PlaceIn(order, n) == CHOOSE i \in DOMAIN order : order[i] = n
RowAt(order, siteOf, row, i) ==
  LET n == order[i]
      r == export[n]
      reply == Parent(n) # NoRecord
      id == Len(imported) + PlaceIn(order, Parent(n))
      p == row[PlaceIn(order, Parent(n))] IN
  [src |-> n, site |-> siteOf[r.site], page |-> r.page, user |-> r.author, published |-> ~r.pending,
   parent |-> IF reply THEN id ELSE 0,
   root |-> IF ~reply THEN 0 ELSE IF p.root # 0 THEN p.root ELSE id,
   depth |-> IF reply THEN p.depth + 1 ELSE 0, replyTo |-> IF reply THEN p.user ELSE 0]

LEMMA PlaceFound ==
  ASSUME NEW order, Ordered(order), NEW n, In(order, n)
  PROVE  /\ PlaceIn(order, n) \in 1..Len(order) /\ order[PlaceIn(order, n)] = n
         /\ \A i \in 1..Len(order) : order[i] = n => i = PlaceIn(order, n)
  <1>1. DOMAIN order = 1..Len(order)
    BY DEF Ordered
  <1>2. PlaceIn(order, n) \in DOMAIN order /\ order[PlaceIn(order, n)] = n
    BY DEF PlaceIn, In
  <1>3. QED
    BY <1>1, <1>2 DEF Ordered

LEMMA RowsUnfold ==
  ASSUME NEW order, Ordered(order), NEW siteOf
  PROVE  LET row == Rows(order, siteOf) IN row = [i \in 1..Len(order) |-> RowAt(order, siteOf, row, i)]
  <1> DEFINE N == Len(order)
             row == Rows(order, siteOf)
  <1>1. N \in Nat /\ DOMAIN order = 1..N
    BY DEF Ordered
  <1>2. ASSUME NEW i \in 1..N, Parent(order[i]) # NoRecord PROVE PlaceIn(order, Parent(order[i])) \in 1..(i - 1)
    <2>1. PICK j \in 1..(i - 1) : order[j] = Parent(order[i])
      BY <1>2 DEF Ordered
    <2>2. j \in 1..N
      BY <1>1
    <2>3. In(order, Parent(order[i]))
      BY <1>1, <2>1, <2>2 DEF In
    <2>4. j = PlaceIn(order, Parent(order[i]))
      BY <2>1, <2>2, <2>3, PlaceFound
    <2>5. QED
      BY <2>4
  <1>3. \E r : r = [i \in 1..N |-> RowAt(order, siteOf, r, i)]
    <2> DEFINE T == {m \in 0..N : \E r : r = [i \in 1..m |-> RowAt(order, siteOf, r, i)]}
    <2>1. 0 \in T
      <3>1. PICK r : r = [i \in 1..0 |-> NoRecord]
        OBVIOUS
      <3>2. r = [i \in 1..0 |-> RowAt(order, siteOf, r, i)]
        BY <3>1
      <3>3. 0 \in 0..N
        BY <1>1
      <3>4. QED
        BY <3>2, <3>3
    <2>2. ASSUME NEW m \in 0..N, m \in T, m < N PROVE m + 1 \in T
      <3>1. PICK r : r = [i \in 1..m |-> RowAt(order, siteOf, r, i)]
        BY <2>2
      <3>2. PICK more : more = [i \in 1..(m + 1) |-> IF i \in 1..m THEN r[i] ELSE RowAt(order, siteOf, r, i)]
        OBVIOUS
      <3>3. ASSUME NEW i \in 1..(m + 1) PROVE RowAt(order, siteOf, more, i) = RowAt(order, siteOf, r, i)
        <4>1. i \in 1..N /\ 1..(i - 1) \subseteq 1..m /\ 1..(i - 1) \subseteq 1..(m + 1)
          BY <1>1, <2>2
        <4>2. ASSUME Parent(order[i]) # NoRecord
              PROVE  more[PlaceIn(order, Parent(order[i]))] = r[PlaceIn(order, Parent(order[i]))]
          <5>1. PlaceIn(order, Parent(order[i])) \in 1..(i - 1)
            BY <1>2, <4>1, <4>2
          <5>2. QED
            BY <3>2, <4>1, <5>1
        <4>3. QED
          BY <4>2 DEF RowAt
      <3>4. \A i \in 1..m : r[i] = RowAt(order, siteOf, r, i)
        BY <3>1
      <3>5. more = [i \in 1..(m + 1) |-> RowAt(order, siteOf, more, i)]
        BY <3>2, <3>3, <3>4
      <3>6. m + 1 \in 0..N
        BY <1>1, <2>2
      <3>7. QED
        BY <3>5, <3>6
    <2> HIDE DEF T
    <2>3. N \in T
      <3>1. \A m \in 0..N : m \in T /\ m < N => m + 1 \in T
        BY <2>2
      <3>2. \A m \in 0..N : m \in T
        BY <1>1, <2>1, <3>1, UpTo
      <3>3. QED
        BY <1>1, <3>2
    <2>4. QED
      BY <2>3 DEF T
  <1>4. row = CHOOSE r : r = [i \in DOMAIN order |-> RowAt(order, siteOf, r, i)]
    BY DEF Rows, RowAt, PlaceIn
  <1>5. QED
    BY <1>1, <1>3, <1>4

(* A comment of the import is its record, below the comment of its parent. *)
FromRecord(c) ==
  /\ c.src \in Records /\ c.page = export[c.src].page /\ c.user = export[c.src].author /\ <<c.site, c.page>> \in pages
  /\ c.parent = NoRecord <=> Parent(c.src) = NoRecord
BelowParent(c, p, parent) ==
  /\ p.src = Parent(c.src) /\ p.site = c.site /\ p.page = c.page /\ p.src # NoRecord
  /\ c.depth = p.depth + 1 /\ c.replyTo = p.user
  /\ c.root = IF p.root = 0 THEN parent ELSE p.root
RowSound(i) ==
  LET c == imported[i] IN
  /\ c.src # NoRecord => FromRecord(c)
  /\ c.parent = 0 => c.root = 0
  /\ c.parent # 0 => /\ c.src # NoRecord /\ c.parent \in 1..(i - 1) /\ BelowParent(c, imported[c.parent], c.parent)

(* What a site has of a record it has once, and with it the records of the same key. *)
EachOnce ==
  \A i, j \in DOMAIN imported :
    imported[i].src # NoRecord /\ imported[i].src = imported[j].src /\ imported[i].site = imported[j].site => i = j
AllOrNone ==
  \A i \in DOMAIN imported, n \in Records :
    imported[i].src # NoRecord /\ export[n].site = export[imported[i].src].site =>
      \E j \in DOMAIN imported : imported[j].src = n /\ imported[j].site = imported[i].site

IsList(s) == Len(s) \in Nat /\ s \in [1..Len(s) -> {s[i] : i \in DOMAIN s}]

ImportInv ==
  /\ export \in Exports /\ members \in [AllAuthors -> Nat]
  /\ IsList(imported) /\ \A i \in 1..Len(imported) : RowSound(i)
  /\ EachOnce /\ AllOrNone
  /\ \A i \in 1..Len(imported) : imported[i].src # NoRecord => members[imported[i].user] > 0

LEMMA ListsJoin ==
  ASSUME NEW a, NEW b, IsList(a), IsList(b)
  PROVE  /\ IsList(a \o b) /\ Len(a \o b) = Len(a) + Len(b)
         /\ \A i \in 1..Len(a) : (a \o b)[i] = a[i]
         /\ \A i \in 1..Len(b) : (a \o b)[Len(a) + i] = b[i]
         /\ \A k \in 1..(Len(a) + Len(b)) : k \in 1..Len(a) \/ \E i \in 1..Len(b) : k = Len(a) + i
  <1> DEFINE S == {a[i] : i \in DOMAIN a} \cup {b[i] : i \in DOMAIN b}
             c == a \o b
  <1>1. a \in Seq(S) /\ b \in Seq(S) /\ Len(a) \in Nat /\ Len(b) \in Nat
    <2>1. a \in [1..Len(a) -> S] /\ b \in [1..Len(b) -> S] /\ Len(a) \in Nat /\ Len(b) \in Nat
      BY DEF IsList
    <2> HIDE DEF S
    <2>2. QED
      BY <2>1
  <1> HIDE DEF S
  <1>2. /\ c \in Seq(S) /\ Len(c) = Len(a) + Len(b)
        /\ \A i \in 1..Len(c) : c[i] = IF i <= Len(a) THEN a[i] ELSE b[i - Len(a)]
    BY <1>1
  <1> HIDE DEF c
  <1>3. DOMAIN c = 1..Len(c) /\ Len(c) \in Nat
    BY <1>2
  <1>4. IsList(c)
    <2>1. \A i \in 1..Len(c) : c[i] \in {c[k] : k \in DOMAIN c}
      BY <1>3
    <2>2. c = [i \in 1..Len(c) |-> c[i]]
      BY <1>2
    <2>3. QED
      BY <1>3, <2>1, <2>2 DEF IsList
  <1>5. \A i \in 1..Len(a) : i \in 1..Len(c) /\ i <= Len(a)
    BY <1>1, <1>2
  <1>6. \A i \in 1..Len(b) : Len(a) + i \in 1..Len(c) /\ ~(Len(a) + i <= Len(a)) /\ (Len(a) + i) - Len(a) = i
    BY <1>1, <1>2
  <1>7. ASSUME NEW k \in 1..(Len(a) + Len(b)) PROVE k \in 1..Len(a) \/ \E i \in 1..Len(b) : k = Len(a) + i
    <2>1. CASE k <= Len(a)
      BY <1>1, <2>1
    <2>2. CASE ~(k <= Len(a))
      <3>1. k - Len(a) \in 1..Len(b) /\ k = Len(a) + (k - Len(a))
        BY <1>1, <2>2
      <3>2. QED
        BY <3>1
    <2>3. QED
      BY <2>1, <2>2
  <1>8. QED
    BY <1>2, <1>4, <1>5, <1>6, <1>7 DEF c

LEMMA RecordFields ==
  ASSUME export \in Exports, NEW n \in Records
  PROVE  /\ export[n].rid \in Nat /\ export[n].author \in AllAuthors /\ export[n].created \in Nat \ {0}
         /\ export[n].site \in SiteKeys
  BY ArtalkAssumption DEF SiteKeys

LEMMA EldestFound ==
  ASSUME export \in Exports, NEW a \in Authors
  PROVE  Eldest(a) \in Nat /\ Eldest(a) > 0
  <1> DEFINE mine == {m \in Records : export[m].author = a}
             times == {export[n].created : n \in mine}
  <1>1. times \subseteq Nat \ {0} /\ times # {}
    BY RecordFields DEF Authors
  <1>2. IsFiniteSet(times)
    <2>1. mine \in SUBSET Records
      OBVIOUS
    <2> HIDE DEF mine
    <2>2. IsFiniteSet(mine)
      BY <2>1, RecordNumbers, FS_Subset
    <2> DEFINE created == [n \in mine |-> export[n].created]
    <2>3. created \in Surjection(mine, times)
      BY DEF Surjection
    <2>4. QED
      BY <2>2, <2>3, FS_Surjection
  <1> HIDE DEF times
  <1>3. \E t \in times : \A u \in times : t <= u
    BY <1>1, <1>2, LeastNumber
  <1>4. Eldest(a) \in times
    <2>1. Eldest(a) = CHOOSE t \in times : \A u \in times : t <= u
      BY DEF Eldest, times
    <2>2. QED
      BY <1>3, <2>1
  <1>5. \A t \in Nat \ {0} : t \in Nat /\ t > 0
    OBVIOUS
  <1>6. QED
    BY <1>1, <1>4, <1>5

(* The rows of a run, for a list of the sites that holds no comments yet. *)
LEMMA RowsSound ==
  ASSUME ImportInv, Sound, NEW siteOf, DOMAIN siteOf = SiteKeys
  PROVE  LET rows == Rows(Visit, siteOf) IN
         /\ IsList(rows) /\ Len(rows) = Len(Visit) /\ Len(Visit) \in Nat
         /\ \A i \in 1..Len(rows) : rows[i] = RowAt(Visit, siteOf, rows, i) /\ Visit[i] \in Records
         /\ \A n \in Records : PlaceIn(Visit, n) \in 1..Len(rows) /\ Visit[PlaceIn(Visit, n)] = n
         /\ \A i \in 1..Len(rows) : i = PlaceIn(Visit, Visit[i])
         /\ \A i \in 1..Len(rows) : Parent(Visit[i]) # NoRecord =>
              Parent(Visit[i]) \in Records /\ PlaceIn(Visit, Parent(Visit[i])) \in 1..(i - 1)
  <1> DEFINE order == Visit
             rows == Rows(order, siteOf)
  <1>1. Ordered(order) /\ \A n \in Records : In(order, n)
    BY OrderComplete DEF Sound
  <1>2. rows = [i \in 1..Len(order) |-> RowAt(order, siteOf, rows, i)]
    BY <1>1, RowsUnfold
  <1> HIDE DEF order, rows
  <1>3. Len(order) \in Nat /\ DOMAIN order = 1..Len(order) /\ \A i \in 1..Len(order) : order[i] \in Records
    BY <1>1 DEF Ordered
  <1>4. DOMAIN rows = 1..Len(order) /\ \A i \in 1..Len(order) : rows[i] = RowAt(order, siteOf, rows, i)
    BY <1>2
  <1>5. IsList(rows) /\ Len(rows) = Len(order)
    <2>1. \A i \in 1..Len(order) : rows[i] \in {rows[k] : k \in DOMAIN rows}
      BY <1>4
    <2>2. rows = [i \in 1..Len(order) |-> rows[i]]
      BY <1>2, <1>4
    <2>3. rows \in [1..Len(order) -> {rows[k] : k \in DOMAIN rows}]
      BY <2>1, <2>2
    <2>4. rows \in Seq({rows[k] : k \in DOMAIN rows}) /\ Len(rows) = Len(order)
      BY <1>3, <2>3
    <2>5. QED
      BY <1>3, <2>3, <2>4 DEF IsList
  <1>6. \A n \in Records : PlaceIn(order, n) \in 1..Len(order) /\ order[PlaceIn(order, n)] = n
    BY <1>1, PlaceFound
  <1>7. \A i \in 1..Len(order) : i = PlaceIn(order, order[i])
    BY <1>1, <1>3, PlaceFound
  <1>8. ASSUME NEW i \in 1..Len(order), Parent(order[i]) # NoRecord
        PROVE  Parent(order[i]) \in Records /\ PlaceIn(order, Parent(order[i])) \in 1..(i - 1)
    <2>1. PICK j \in 1..(i - 1) : order[j] = Parent(order[i])
      BY <1>1, <1>8 DEF Ordered
    <2>2. j \in 1..Len(order)
      BY <1>3
    <2>3. j = PlaceIn(order, order[j])
      BY <1>7, <2>2
    <2>4. QED
      BY <1>3, <2>1, <2>2, <2>3
  <1>9. QED
    BY <1>3, <1>4, <1>5, <1>6, <1>7, <1>8 DEF order, rows

(* A run writes into sites without comments, and keeps what the others have. *)
LEMMA RunWritesKeep ==
  ASSUME ImportInv, Sound, NEW sites, NEW siteOf, DOMAIN siteOf = SiteKeys, Write(sites, siteOf),
         \A key \in SiteKeys : Empty(siteOf[key])
  PROVE  ImportInv'
  <1> DEFINE order == Visit
             rows == Rows(order, siteOf)
             old == Len(imported)
             new == Len(rows)
             all == imported \o rows
  <1>1. /\ export \in Exports /\ members \in [AllAuthors -> Nat]
        /\ IsList(imported) /\ \A i \in 1..old : RowSound(i)
        /\ EachOnce /\ AllOrNone
        /\ \A i \in 1..old : imported[i].src # NoRecord => members[imported[i].user] > 0
    BY DEF ImportInv
  <1>2. /\ IsList(rows) /\ new \in Nat
        /\ \A i \in 1..new : rows[i] = RowAt(order, siteOf, rows, i) /\ order[i] \in Records
        /\ \A n \in Records : PlaceIn(order, n) \in 1..new /\ order[PlaceIn(order, n)] = n
        /\ \A i \in 1..new : i = PlaceIn(order, order[i])
        /\ \A i \in 1..new : Parent(order[i]) # NoRecord =>
             Parent(order[i]) \in Records /\ PlaceIn(order, Parent(order[i])) \in 1..(i - 1)
    BY RowsSound
  <1>3. /\ UNCHANGED export
        /\ members' = [a \in DOMAIN members |-> IF a \in Authors /\ members[a] = 0 THEN Eldest(a) ELSE members[a]]
        /\ pages' = pages \cup {<<siteOf[export[n].site], export[n].page>> : n \in Records}
        /\ imported' = all
    BY DEF Write
  <1> HIDE DEF order, rows
  <1>4. /\ IsList(all) /\ Len(all) = old + new /\ old \in Nat
        /\ \A i \in 1..old : all[i] = imported[i]
        /\ \A i \in 1..new : all[old + i] = rows[i]
        /\ \A k \in 1..(old + new) : k \in 1..old \/ \E i \in 1..new : k = old + i
    BY <1>1, <1>2, ListsJoin DEF IsList
  <1> HIDE DEF old, new, all
  <1>5. DOMAIN imported = 1..old /\ DOMAIN all = 1..(old + new)
    BY <1>1, <1>4 DEF IsList, old
  <1>6. ASSUME NEW i \in 1..new
        PROVE  LET n == order[i]
                   c == rows[i]
                   p == rows[PlaceIn(order, Parent(n))] IN
               /\ n \in Records /\ c.src = n /\ c.site = siteOf[export[n].site] /\ c.page = export[n].page
               /\ c.user = export[n].author
               /\ c.parent = IF Parent(n) # NoRecord THEN old + PlaceIn(order, Parent(n)) ELSE 0
               /\ Parent(n) = NoRecord => c.root = 0
               /\ Parent(n) # NoRecord =>
                    /\ c.depth = p.depth + 1 /\ c.replyTo = p.user
                    /\ c.root = IF p.root # 0 THEN p.root ELSE old + PlaceIn(order, Parent(n))
    <2> DEFINE n == order[i]
               c == rows[i]
               place == PlaceIn(order, Parent(n))
               p == rows[place]
               reply == Parent(n) # NoRecord
    <2>1. c = RowAt(order, siteOf, rows, i) /\ n \in Records
      BY <1>2
    <2> HIDE DEF c
    <2>2. c = [src |-> n, site |-> siteOf[export[n].site], page |-> export[n].page, user |-> export[n].author,
               published |-> ~export[n].pending, parent |-> IF reply THEN old + place ELSE 0,
               root |-> IF ~reply THEN 0 ELSE IF p.root # 0 THEN p.root ELSE old + place,
               depth |-> IF reply THEN p.depth + 1 ELSE 0, replyTo |-> IF reply THEN p.user ELSE 0]
      BY <2>1 DEF RowAt, old
    <2> HIDE DEF n, place, p, reply
    <2>3. /\ c.src = n /\ c.site = siteOf[export[n].site] /\ c.page = export[n].page /\ c.user = export[n].author
          /\ c.parent = (IF reply THEN old + place ELSE 0)
          /\ c.root = (IF ~reply THEN 0 ELSE IF p.root # 0 THEN p.root ELSE old + place)
          /\ reply => c.depth = p.depth + 1 /\ c.replyTo = p.user
      BY <2>2
    <2>4. QED
      BY <2>1, <2>3 DEF n, c, place, p, reply
  <1>7. \A i \in 1..new, j \in 1..old : imported[j].site # rows[i].site
    <2>1. ASSUME NEW i \in 1..new, NEW j \in 1..old PROVE imported[j].site # rows[i].site
      <3>1. rows[i].site = siteOf[export[order[i]].site] /\ order[i] \in Records
        BY <1>6
      <3>2. export[order[i]].site \in SiteKeys
        BY <3>1 DEF SiteKeys
      <3>3. QED
        BY <1>5, <3>1, <3>2 DEF Empty
    <2>2. QED
      BY <2>1
  <1>8. ASSUME NEW k \in 1..old PROVE RowSound(k)'
    <2>1. RowSound(k) /\ imported'[k] = imported[k] /\ pages \subseteq pages'
      BY <1>1, <1>3, <1>4
    <2>2. \A j \in 1..(k - 1) : imported'[j] = imported[j]
      BY <1>3, <1>4
    <2>3. \A c : FromRecord(c) => FromRecord(c)'
      BY <1>3, <2>1 DEF FromRecord, Parent
    <2>4. \A c, p, parent : BelowParent(c, p, parent) => BelowParent(c, p, parent)'
      BY <1>3 DEF BelowParent, Parent
    <2>5. QED
      BY <2>1, <2>2, <2>3, <2>4 DEF RowSound
  <1>9. ASSUME NEW k, NEW i \in 1..new, k = old + i PROVE RowSound(k)'
    <2>1. PICK n \in Records : n = order[i]
      BY <1>6
    <2>2. PICK c : c = rows[i]
      OBVIOUS
    <2>3. PICK place : place = PlaceIn(order, Parent(n))
      OBVIOUS
    <2>4. PICK parent : parent = old + place
      OBVIOUS
    <2>5. /\ imported'[k] = c /\ c.src = n /\ c.src # NoRecord
          /\ c.site = siteOf[export[n].site] /\ c.page = export[n].page /\ c.user = export[n].author
          /\ c.parent = (IF Parent(n) # NoRecord THEN parent ELSE 0)
      BY <1>3, <1>4, <1>6, <1>9, <2>1, <2>2, <2>3, <2>4, RecordNumbers
    <2>6. ASSUME Parent(n) # NoRecord
          PROVE  /\ place \in 1..(i - 1) /\ place \in 1..new /\ Parent(n) \in Records /\ order[place] = Parent(n)
                 /\ parent \in 1..(k - 1) /\ parent # 0
      <3>1. place \in 1..(i - 1) /\ place \in 1..new /\ Parent(n) \in Records /\ order[place] = Parent(n)
        BY <1>2, <2>1, <2>3, <2>6
      <3>2. QED
        BY <1>2, <1>4, <1>9, <2>4, <3>1
    <2>7. FromRecord(c)'
      <3>1. <<c.site, c.page>> \in pages'
        BY <1>3, <2>5
      <3>2. c.parent = NoRecord <=> Parent(n) = NoRecord
        BY <2>5, <2>6 DEF NoRecord
      <3>3. QED
        BY <1>3, <2>5, <3>1, <3>2 DEF FromRecord, Parent
    <2>8. CASE Parent(n) = NoRecord
      <3>1. c.parent = 0 /\ c.root = 0
        BY <1>6, <2>1, <2>2, <2>5, <2>8
      <3>2. QED
        BY <2>5, <2>7, <3>1 DEF RowSound
    <2>9. CASE Parent(n) # NoRecord
      <3>1. PICK p : p = rows[place]
        OBVIOUS
      <3>2. /\ c.depth = p.depth + 1 /\ c.replyTo = p.user
            /\ c.root = (IF p.root # 0 THEN p.root ELSE parent)
        BY <1>6, <2>1, <2>2, <2>3, <2>4, <2>9, <3>1
      <3>3. p.src = Parent(n) /\ p.site = siteOf[export[Parent(n)].site] /\ p.page = export[Parent(n)].page
        BY <1>6, <2>6, <2>9, <3>1
      <3>4. export[Parent(n)].site = export[n].site /\ export[Parent(n)].page = export[n].page
        BY <2>9 DEF Sound, Resolvable
      <3>5. imported'[parent] = p
        BY <1>3, <1>4, <2>4, <2>6, <2>9, <3>1
      <3>6. BelowParent(c, p, parent)'
        BY <1>3, <2>5, <2>9, <3>2, <3>3, <3>4 DEF BelowParent, Parent
      <3>7. QED
        BY <2>5, <2>6, <2>7, <2>9, <3>5, <3>6 DEF RowSound
    <2>10. QED
      BY <2>8, <2>9
  <1>10. EachOnce'
    <2>1. ASSUME NEW i \in 1..(old + new), NEW j \in 1..(old + new),
                 all[i].src # NoRecord, all[i].src = all[j].src, all[i].site = all[j].site
          PROVE  i = j
      <3>1. CASE i \in 1..old /\ j \in 1..old
        BY <1>1, <1>4, <1>5, <2>1, <3>1 DEF EachOnce
      <3>2. ASSUME NEW k \in 1..new, NEW l \in 1..new, i = old + k, j = old + l PROVE i = j
        <4>1. order[k] = order[l]
          BY <1>4, <1>6, <2>1, <3>2
        <4>2. k = l
          BY <1>2, <4>1
        <4>3. QED
          BY <3>2, <4>2
      <3>3. ASSUME NEW k \in 1..new, NEW l \in 1..old, (i = old + k /\ j = l) \/ (i = l /\ j = old + k) PROVE FALSE
        BY <1>4, <1>7, <2>1, <3>3
      <3>4. QED
        BY <1>4, <3>1, <3>2, <3>3
    <2>2. QED
      BY <1>3, <1>5, <2>1 DEF EachOnce
  <1>11. AllOrNone'
    <2>1. ASSUME NEW i \in 1..(old + new), NEW n \in Records, all[i].src # NoRecord,
                 export[n].site = export[all[i].src].site
          PROVE  \E j \in 1..(old + new) : all[j].src = n /\ all[j].site = all[i].site
      <3>1. CASE i \in 1..old
        <4>1. all[i] = imported[i]
          BY <1>4, <3>1
        <4>2. PICK j \in 1..old : imported[j].src = n /\ imported[j].site = imported[i].site
          BY <1>1, <1>5, <2>1, <3>1, <4>1 DEF AllOrNone
        <4>3. all[j] = imported[j] /\ j \in 1..(old + new)
          BY <1>2, <1>4
        <4>4. QED
          BY <4>1, <4>2, <4>3
      <3>2. ASSUME NEW k \in 1..new, i = old + k PROVE \E j \in 1..(old + new) : all[j].src = n /\ all[j].site = all[i].site
        <4>1. all[i] = rows[k] /\ rows[k].src = order[k] /\ rows[k].site = siteOf[export[order[k]].site]
          BY <1>4, <1>6, <3>2
        <4> DEFINE l == PlaceIn(order, n)
        <4>2. l \in 1..new /\ order[l] = n
          BY <1>2
        <4> HIDE DEF l
        <4>3. rows[l].src = n /\ rows[l].site = siteOf[export[n].site]
          BY <1>6, <4>2
        <4>4. all[old + l] = rows[l] /\ old + l \in 1..(old + new)
          BY <1>2, <1>4, <4>2
        <4>5. QED
          BY <2>1, <4>1, <4>3, <4>4
      <3>3. QED
        BY <1>4, <3>1, <3>2
    <2>2. QED
      BY <1>3, <1>5, <2>1 DEF AllOrNone
  <1>12. members' \in [AllAuthors -> Nat] /\ \A a \in AllAuthors : members'[a] > 0 \/ (members[a] = 0 /\ a \notin Authors)
    <2>1. \A a \in Authors : Eldest(a) \in Nat /\ Eldest(a) > 0
      BY <1>1, EldestFound
    <2>2. DOMAIN members = AllAuthors /\ \A a \in AllAuthors : members[a] \in Nat
      BY <1>1
    <2>3. \A a \in AllAuthors : members'[a] = IF a \in Authors /\ members[a] = 0 THEN Eldest(a) ELSE members[a]
      BY <1>3, <2>2
    <2>4. \A a \in AllAuthors : members'[a] \in Nat /\ (members'[a] > 0 \/ (members[a] = 0 /\ a \notin Authors))
      <3>1. \A x \in Nat : x > 0 \/ x = 0
        OBVIOUS
      <3>2. QED
        BY <2>1, <2>2, <2>3, <3>1
    <2>5. QED
      BY <1>3, <2>2, <2>4
  <1>13. ASSUME NEW k \in 1..(old + new), all[k].src # NoRecord PROVE members'[all[k].user] > 0
    <2>1. CASE k \in 1..old
      <3>1. all[k] = imported[k] /\ members[imported[k].user] > 0
        BY <1>1, <1>4, <1>13, <2>1 DEF old
      <3>2. imported[k].user \in AllAuthors
        <4>1. FromRecord(imported[k])
          BY <1>1, <1>13, <2>1, <3>1 DEF RowSound
        <4>2. QED
          BY <1>1, <4>1, RecordFields DEF FromRecord
      <3>3. members[imported[k].user] # 0
        BY <1>1, <3>1, <3>2
      <3>4. QED
        BY <1>12, <3>1, <3>2, <3>3
    <2>2. ASSUME NEW i \in 1..new, k = old + i PROVE members'[all[k].user] > 0
      <3>1. all[k].user = export[order[i]].author /\ order[i] \in Records
        BY <1>4, <1>6, <2>2
      <3>2. all[k].user \in Authors /\ all[k].user \in AllAuthors
        BY <1>1, <3>1, RecordFields DEF Authors
      <3>3. QED
        BY <1>12, <3>2
    <2>3. QED
      BY <1>4, <2>1, <2>2
  <1>14. \A k \in 1..(old + new) : RowSound(k)'
    BY <1>4, <1>8, <1>9
  <1>15. QED
    <2>1. IsList(imported)' /\ Len(imported') = old + new
      BY <1>3, <1>4
    <2>2. export' \in Exports
      BY <1>1, <1>3
    <2>3. \A k \in 1..Len(imported') : imported'[k].src # NoRecord => members'[imported'[k].user] > 0
      BY <1>3, <1>13, <2>1
    <2>4. \A k \in 1..Len(imported') : RowSound(k)'
      BY <1>14, <2>1
    <2>5. QED
      BY <1>10, <1>11, <1>12, <2>1, <2>2, <2>3, <2>4 DEF ImportInv

(* A comment of a visitor is of no record and replies to none. *)
LEMMA VisitorKeeps ==
  ASSUME ImportInv, NEW site, NEW page, ServerTakesComment(site, page)
  PROVE  ImportInv'
  <1> DEFINE old == Len(imported)
             c == [src |-> NoRecord, site |-> site, page |-> page, user |-> 0, parent |-> 0, root |-> 0,
                   depth |-> 0, replyTo |-> 0, published |-> TRUE]
             all == Append(imported, c)
  <1>1. /\ export \in Exports /\ members \in [AllAuthors -> Nat]
        /\ IsList(imported) /\ \A i \in 1..old : RowSound(i)
        /\ EachOnce /\ AllOrNone
        /\ \A i \in 1..old : imported[i].src # NoRecord => members[imported[i].user] > 0
    BY DEF ImportInv
  <1>2. imported' = all /\ UNCHANGED <<export, members>> /\ pages \subseteq pages'
    BY DEF ServerTakesComment
  <1>3. c.src = NoRecord /\ c.parent = 0 /\ c.root = 0
    OBVIOUS
  <1> HIDE DEF c
  <1>4. /\ IsList(all) /\ Len(all) = old + 1 /\ old \in Nat /\ DOMAIN imported = 1..old /\ DOMAIN all = 1..(old + 1)
        /\ all[old + 1] = c /\ \A i \in 1..old : all[i] = imported[i]
    <2> DEFINE S == {imported[i] : i \in DOMAIN imported} \cup {c}
    <2>1. imported \in Seq(S) /\ old \in Nat /\ c \in S /\ DOMAIN imported = 1..old
      <3>1. imported \in [1..old -> S] /\ old \in Nat /\ c \in S
        BY <1>1 DEF IsList
      <3> HIDE DEF S
      <3>2. QED
        BY <3>1
    <2> HIDE DEF S
    <2>2. /\ all \in Seq(S) /\ Len(all) = old + 1 /\ DOMAIN all = 1..(old + 1)
          /\ all[old + 1] = c /\ \A i \in 1..old : all[i] = imported[i]
      BY <2>1
    <2> HIDE DEF all
    <2>3. \A i \in 1..Len(all) : all[i] \in {all[k] : k \in DOMAIN all}
      BY <2>2
    <2>4. all = [i \in 1..Len(all) |-> all[i]]
      BY <2>2
    <2>5. Len(all) \in Nat
      BY <2>1, <2>2
    <2>6. IsList(all)
      BY <2>3, <2>4, <2>5 DEF IsList
    <2>7. QED
      BY <2>1, <2>2, <2>6
  <1> HIDE DEF all, old
  <1>5. \A k \in 1..(old + 1) : k \in 1..old \/ k = old + 1
    BY <1>4
  <1>6. \A k \in 1..old : k \in 1..(old + 1)
    BY <1>4
  <1>7. ASSUME NEW k \in 1..(old + 1) PROVE RowSound(k)'
    <2>1. CASE k \in 1..old
      <3>1. RowSound(k) /\ imported'[k] = imported[k]
        BY <1>1, <1>2, <1>4, <2>1
      <3>2. \A j \in 1..(k - 1) : imported'[j] = imported[j]
        BY <1>2, <1>4, <2>1
      <3>3. \A x : FromRecord(x) => FromRecord(x)'
        BY <1>2 DEF FromRecord, Parent
      <3>4. \A x, p, parent : BelowParent(x, p, parent) => BelowParent(x, p, parent)'
        BY <1>2 DEF BelowParent, Parent
      <3>5. QED
        BY <3>1, <3>2, <3>3, <3>4 DEF RowSound
    <2>2. CASE k = old + 1
      <3>1. imported'[k].src = NoRecord /\ imported'[k].parent = 0 /\ imported'[k].root = 0
        BY <1>2, <1>3, <1>4, <2>2
      <3>2. QED
        BY <3>1 DEF RowSound
    <2>3. QED
      BY <1>5, <2>1, <2>2
  <1>8. EachOnce'
    <2>1. ASSUME NEW i \in 1..(old + 1), NEW j \in 1..(old + 1),
                 all[i].src # NoRecord, all[i].src = all[j].src, all[i].site = all[j].site
          PROVE  i = j
      <3>1. i \in 1..old /\ j \in 1..old
        BY <1>3, <1>4, <1>5, <2>1
      <3>2. QED
        BY <1>1, <1>4, <2>1, <3>1 DEF EachOnce
    <2>2. QED
      BY <1>2, <1>4, <2>1 DEF EachOnce
  <1>9. AllOrNone'
    <2>1. ASSUME NEW i \in 1..(old + 1), NEW n \in Records, all[i].src # NoRecord,
                 export[n].site = export[all[i].src].site
          PROVE  \E j \in 1..(old + 1) : all[j].src = n /\ all[j].site = all[i].site
      <3>1. i \in 1..old /\ all[i] = imported[i]
        BY <1>3, <1>4, <1>5, <2>1
      <3>2. PICK j \in 1..old : imported[j].src = n /\ imported[j].site = imported[i].site
        BY <1>1, <1>4, <2>1, <3>1 DEF AllOrNone
      <3>3. QED
        BY <1>4, <1>6, <3>1, <3>2
    <2>2. QED
      BY <1>2, <1>4, <2>1 DEF AllOrNone
  <1>10. \A k \in 1..(old + 1) : all[k].src # NoRecord => members'[all[k].user] > 0
    BY <1>1, <1>2, <1>3, <1>4, <1>5 DEF old
  <1>11. QED
    <2>1. IsList(imported)' /\ Len(imported') = old + 1
      BY <1>2, <1>4
    <2>2. export' \in Exports /\ members' \in [AllAuthors -> Nat]
      BY <1>1, <1>2
    <2>3. \A k \in 1..Len(imported') : imported'[k].src # NoRecord => members'[imported'[k].user] > 0
      BY <1>2, <1>10, <2>1
    <2>4. \A k \in 1..Len(imported') : RowSound(k)'
      BY <1>7, <2>1
    <2>5. QED
      BY <1>8, <1>9, <2>1, <2>2, <2>3, <2>4 DEF ImportInv

LEMMA ImportBegins == ArtalkInit => ImportInv
  <1> SUFFICES ASSUME ArtalkInit PROVE ImportInv
    OBVIOUS
  <1>1. imported = <<>> /\ export \in Exports
    BY DEF ArtalkInit
  <1>2. members \in [AllAuthors -> Nat]
    BY DEF ArtalkInit
  <1>3. Len(imported) = 0 /\ DOMAIN imported = {} /\ 1..0 = {}
    BY <1>1
  <1>4. IsList(imported)
    BY <1>1, <1>3 DEF IsList
  <1>5. QED
    BY <1>1, <1>2, <1>3, <1>4 DEF ImportInv, EachOnce, AllOrNone

LEMMA ImportSteps == ImportInv /\ [ArtalkNext]_artalkVars => ImportInv'
  <1> SUFFICES ASSUME ImportInv, [ArtalkNext]_artalkVars PROVE ImportInv'
    OBVIOUS
  <1>1. ASSUME NEW site \in DOMAIN targetSites, ImportInto(site) PROVE ImportInv'
    <2> DEFINE siteOf == [key \in SiteKeys |-> site]
    <2>1. Sound /\ Write(targetSites, siteOf) /\ \A key \in SiteKeys : Empty(siteOf[key])
      BY <1>1 DEF ImportInto
    <2>2. DOMAIN siteOf = SiteKeys
      OBVIOUS
    <2> HIDE DEF siteOf
    <2>3. QED
      BY <2>1, <2>2, RunWritesKeep
  <1>2. ASSUME NEW fallback \in Origins \cup {NoOrigin}, ImportByAddress(fallback) PROVE ImportInv'
    <2> DEFINE sites == WithSites(fallback, SortedKeys)
               siteOf == [key \in SiteKeys |-> TheSite(sites, Canonical(key, fallback))]
    <2>1. Sound /\ Write(sites, siteOf) /\ \A key \in SiteKeys : Empty(siteOf[key])
      BY <1>2 DEF ImportByAddress
    <2>2. DOMAIN siteOf = SiteKeys
      OBVIOUS
    <2> HIDE DEF sites, siteOf
    <2>3. QED
      BY <2>1, <2>2, RunWritesKeep
  <1>3. CASE UNCHANGED <<export, members, pages, imported>>
    <2>1. \A c : FromRecord(c) <=> FromRecord(c)'
      BY <1>3 DEF FromRecord, Parent
    <2>2. \A c, p, parent : BelowParent(c, p, parent) <=> BelowParent(c, p, parent)'
      BY <1>3 DEF BelowParent, Parent
    <2>3. \A i : RowSound(i) => RowSound(i)'
      BY <1>3, <2>1, <2>2 DEF RowSound
    <2>4. QED
      BY <1>3, <2>3 DEF ImportInv, EachOnce, AllOrNone
  <1>4. QED
    BY <1>1, <1>2, <1>3, VisitorKeeps DEF ArtalkNext, RollBack, artalkVars

(* The topmost ancestor of an imported comment is its root, or itself. *)
TopAt(up, k) == IF imported[k].parent = 0 THEN k ELSE up[imported[k].parent]

LEMMA TopFound ==
  ASSUME ImportInv, NEW up, up = CHOOSE u : u = [k \in DOMAIN imported |-> TopAt(u, k)]
  PROVE  \A i \in 1..Len(imported) : up[i] = IF imported[i].root = 0 THEN i ELSE imported[i].root
  <1> DEFINE N == Len(imported)
  <1>1. N \in Nat /\ DOMAIN imported = 1..N
    BY DEF ImportInv, IsList
  <1>2. \A i \in 1..N : RowSound(i)
    BY DEF ImportInv
  <1> HIDE DEF N
  <1>3. \A i \in 1..N : imported[i].parent # 0 => imported[i].parent \in 1..(i - 1)
    BY <1>2 DEF RowSound
  <1>4. \E u : u = [k \in 1..N |-> TopAt(u, k)]
    <2> DEFINE T == {m \in 0..N : \E u : u = [k \in 1..m |-> TopAt(u, k)]}
    <2>1. 0 \in T
      <3>1. PICK u : u = [k \in 1..0 |-> NoRecord]
        OBVIOUS
      <3>2. u = [k \in 1..0 |-> TopAt(u, k)]
        BY <3>1
      <3>3. 0 \in 0..N
        BY <1>1
      <3>4. QED
        BY <3>2, <3>3
    <2>2. ASSUME NEW m \in 0..N, m \in T, m < N PROVE m + 1 \in T
      <3>1. PICK u : u = [k \in 1..m |-> TopAt(u, k)]
        BY <2>2
      <3>2. PICK more : more = [k \in 1..(m + 1) |-> IF k \in 1..m THEN u[k] ELSE TopAt(u, k)]
        OBVIOUS
      <3>3. ASSUME NEW k \in 1..(m + 1) PROVE TopAt(more, k) = TopAt(u, k)
        <4>1. k \in 1..N /\ 1..(k - 1) \subseteq 1..m /\ 1..(k - 1) \subseteq 1..(m + 1)
          BY <1>1, <2>2
        <4>2. ASSUME imported[k].parent # 0 PROVE more[imported[k].parent] = u[imported[k].parent]
          <5>1. imported[k].parent \in 1..(k - 1)
            BY <1>3, <4>1, <4>2
          <5>2. QED
            BY <3>2, <4>1, <5>1
        <4>3. QED
          BY <4>2 DEF TopAt
      <3>4. \A k \in 1..m : u[k] = TopAt(u, k)
        BY <3>1
      <3>5. more = [k \in 1..(m + 1) |-> TopAt(more, k)]
        BY <3>2, <3>3, <3>4
      <3>6. m + 1 \in 0..N
        BY <1>1, <2>2
      <3>7. QED
        BY <3>5, <3>6
    <2> HIDE DEF T
    <2>3. \A m \in 0..N : m \in T /\ m < N => m + 1 \in T
      BY <2>2
    <2>4. \A m \in 0..N : m \in T
      BY <1>1, <2>1, <2>3, UpTo
    <2>5. N \in T
      BY <1>1, <2>4
    <2>6. QED
      BY <2>5 DEF T
  <1>5. up = [k \in 1..N |-> TopAt(up, k)]
    BY <1>1, <1>4
  <1>6. \A k \in 1..N : up[k] = TopAt(up, k)
    BY <1>5
  <1> DEFINE T == {m \in 0..N : \A i \in 1..m : up[i] = IF imported[i].root = 0 THEN i ELSE imported[i].root}
  <1>7. 0 \in T
    BY <1>1
  <1>8. ASSUME NEW m \in 0..N, m \in T, m < N PROVE m + 1 \in T
    <2> DEFINE i == m + 1
               c == imported[i]
    <2>1. i \in 1..N /\ i \in 0..N
      BY <1>1, <1>8
    <2>2. up[i] = IF c.root = 0 THEN i ELSE c.root
      <3>1. CASE c.parent = 0
        <4>1. up[i] = i
          BY <1>6, <2>1, <3>1 DEF TopAt
        <4>2. c.root = 0
          BY <1>2, <2>1, <3>1 DEF RowSound
        <4>3. QED
          BY <4>1, <4>2
      <3>2. CASE c.parent # 0
        <4>1. c.parent \in 1..m /\ c.parent # 0
          BY <1>3, <1>8, <2>1, <3>2
        <4>2. up[i] = up[c.parent]
          BY <1>6, <2>1, <3>2 DEF TopAt
        <4>3. up[c.parent] = IF imported[c.parent].root = 0 THEN c.parent ELSE imported[c.parent].root
          BY <1>8, <4>1
        <4>4. c.root = IF imported[c.parent].root = 0 THEN c.parent ELSE imported[c.parent].root
          BY <1>2, <2>1, <3>2 DEF RowSound, BelowParent
        <4> HIDE DEF c, i
        <4>5. QED
          BY <4>1, <4>2, <4>3, <4>4
      <3>3. QED
        BY <3>1, <3>2
    <2>3. \A k \in 1..(m + 1) : k \in 1..m \/ k = i
      BY <1>8
    <2>4. QED
      BY <1>8, <2>1, <2>2, <2>3
  <1> HIDE DEF T
  <1>9. \A m \in 0..N : m \in T /\ m < N => m + 1 \in T
    BY <1>8
  <1>10. \A m \in 0..N : m \in T
    BY <1>1, <1>7, <1>9, UpTo
  <1>11. N \in T
    BY <1>1, <1>10
  <1>12. QED
    BY <1>11 DEF T, N

LEMMA ImportSuffices == ImportInv => ImportFaithful
  <1> SUFFICES ASSUME ImportInv PROVE ImportFaithful
    OBVIOUS
  <1>1. DOMAIN imported = 1..Len(imported) /\ Len(imported) \in Nat
    BY DEF ImportInv, IsList
  <1>2. ASSUME NEW i \in DOMAIN imported, imported[i].src # NoRecord
        PROVE  TreeImported(i) /\ members[imported[i].user] > 0
    <2> DEFINE c == imported[i]
               up == CHOOSE u : u = [k \in DOMAIN imported |-> TopAt(u, k)]
    <2>1. RowSound(i) /\ FromRecord(c) /\ i \in 1..Len(imported)
      BY <1>1, <1>2 DEF ImportInv, RowSound
    <2>2. up[i] = IF c.root = 0 THEN i ELSE c.root
      BY <2>1, TopFound
    <2>3. c.parent < i /\ <<c.site, c.page>> \in pages /\ (c.parent = 0 <=> export[c.src].rid = NoRecord)
      BY <1>1, <2>1 DEF RowSound, FromRecord, NoRecord, Parent
    <2>4. ASSUME c.parent # 0
          PROVE  LET p == imported[c.parent] IN
                 /\ p.src = export[c.src].rid /\ p.site = c.site /\ p.page = c.page
                 /\ c.depth = p.depth + 1 /\ c.root = up[i] /\ c.replyTo = p.user
      <3>1. c.parent \in 1..(i - 1) /\ BelowParent(c, imported[c.parent], c.parent)
        BY <2>1, <2>4 DEF RowSound
      <3>2. c.root # 0
        BY <2>4, <3>1 DEF BelowParent
      <3> HIDE DEF up
      <3>3. QED
        BY <2>2, <3>1, <3>2 DEF BelowParent, Parent
    <2>5. TreeImported(i)
      BY <2>3, <2>4 DEF TreeImported, TopAt
    <2>6. QED
      BY <1>2, <2>1, <2>5 DEF ImportInv
  <1>3. ASSUME NEW site, NEW n \in Records PROVE CommentsFrom(n, site) = {} \/ \E i : CommentsFrom(n, site) = {i}
    <2>1. EachOnce /\ n # NoRecord
      BY RecordNumbers DEF ImportInv
    <2>2. \A i, j \in CommentsFrom(n, site) : i = j
      BY <2>1 DEF CommentsFrom, EachOnce
    <2>3. QED
      BY <2>2
  <1>4. ASSUME NEW site, NEW m \in Records, NEW n \in Records, export[m].site = export[n].site, CommentsFrom(m, site) # {}
        PROVE  CommentsFrom(n, site) # {}
    <2>1. PICK i \in DOMAIN imported : imported[i].src = m /\ imported[i].site = site
      BY <1>4 DEF CommentsFrom
    <2>2. m # NoRecord
      BY RecordNumbers
    <2>3. \E j \in DOMAIN imported : imported[j].src = n /\ imported[j].site = site
      BY <1>4, <2>1, <2>2 DEF ImportInv, AllOrNone
    <2>4. QED
      BY <2>3 DEF CommentsFrom
  <1>5. \A i : Cardinality({i}) = 1
    BY FS_Singleton
  <1>6. Cardinality({}) = 0
    BY FS_EmptySet
  <1>7. ASSUME NEW site, NEW n \in Records PROVE Cardinality(CommentsFrom(n, site)) = IF CommentsFrom(n, site) = {} THEN 0 ELSE 1
    BY <1>3, <1>5, <1>6
  <1>8. QED
    <2>1. \A site \in DOMAIN targetSites, n \in Records : Cardinality(CommentsFrom(n, site)) <= 1
      BY <1>7
    <2>2. \A site \in DOMAIN targetSites, m, n \in Records :
            export[m].site = export[n].site => Cardinality(CommentsFrom(m, site)) = Cardinality(CommentsFrom(n, site))
      BY <1>4, <1>7
    <2>3. QED
      BY <1>2, <2>1, <2>2 DEF ImportFaithful

(* However often the tool runs, for an export of any size and shape and while      *)
(* visitors post, a site holds the export whole or not at all and each record       *)
(* once, and what it holds forms the tree the records formed.                        *)
THEOREM ImportStaysFaithful == ArtalkSpec => []ImportFaithful
  BY ImportBegins, ImportSteps, ImportSuffices, PTL DEF ArtalkSpec
=============================================================================
