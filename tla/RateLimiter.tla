---------------------------- MODULE RateLimiter -----------------------------
(* The token buckets of platform/ratelimit: one limiter per policy, one bucket   *)
(* per subject.  A call reads the clock before it takes the lock, so calls reach  *)
(* a bucket out of the order of their timestamps; idle buckets are swept away     *)
(* and come back full.                                                            *)
EXTENDS Naturals, Sequences, FiniteSets

CONSTANTS
  Policies, Rate, Burst,   \* tokens per tick and at most, of every configured policy
  CallerNames, NoSubject, UnknownSubject, \* what callers pass as subject; a blank one counts as Unknown
  BucketCapacity, IdleTimeout,
  LimiterCalls,            \* calls under way at once
  LockDelay,               \* ticks a call may wait for the lock
  LimiterMaxTime, MaxGrants \* bounds

(* Fast limiters only: an idle bucket has filled up before it is swept.  The       *)
(* built-in policies refill at least 120 tokens in the ten minutes of idleTimeout. *)
ASSUME LimiterConstants ==
  /\ Rate \in [Policies -> Nat] /\ Burst \in [Policies -> Nat]
  /\ NoSubject \in CallerNames /\ UnknownSubject \notin CallerNames
  /\ BucketCapacity \in Nat \ {0} /\ IdleTimeout \in Nat /\ LockDelay \in Nat
  /\ LockDelay <= IdleTimeout /\ LimiterMaxTime \in Nat /\ MaxGrants \in Nat
  /\ \A p \in Policies : Rate[p] * (IdleTimeout - LockDelay) >= Burst[p]

(* NewPolicyRegistry skips what has no positive rate and burst. *)
Registered == {p \in Policies : Rate[p] > 0 /\ Burst[p] > 0}
normalizeSubject(s) == IF s = NoSubject THEN UnknownSubject ELSE s
Subjects == {normalizeSubject(s) : s \in CallerNames}
Buckets == Registered \X Subjects

VARIABLES
  buckets,  \* of every registered policy: tokens and last refill of the known subjects
  asking,    \* the calls under way: policy, subject and the time they read
  sweepAt, sweepDue,  \* the time the clean-up read and the limiters it has yet to visit
  limiterNow,
  grants    \* history: time read and bucket time of every token handed out, in lock order

limiterVars == <<buckets, asking, sweepAt, sweepDue, limiterNow, grants>>

NoCall == [policy |-> NoSubject, subject |-> NoSubject, at |-> 0]
OnKeys(f, keys) == [k \in keys |-> f[k]]

LimiterInit ==
  /\ buckets = [p \in Registered |-> <<>>]
  /\ asking = [c \in LimiterCalls |-> NoCall]
  /\ sweepAt = 0 /\ sweepDue = {} /\ limiterNow = 0
  /\ grants = [b \in Buckets |-> <<>>]

Handed(p, s) == Len(grants[<<p, s>>])
Waiting(p, s) == Cardinality({c \in LimiterCalls : asking[c].policy = p /\ asking[c].subject = s})

(* Allow: an unknown policy is refused at once, otherwise the clock is read. *)
StartAllow(c, p, s) ==
  /\ asking[c] = NoCall /\ p \in Registered
  /\ Handed(p, normalizeSubject(s)) + Waiting(p, normalizeSubject(s)) < MaxGrants
  /\ asking' = [asking EXCEPT ![c] = [policy |-> p, subject |-> normalizeSubject(s), at |-> limiterNow]]
  /\ UNCHANGED <<buckets, sweepAt, sweepDue, limiterNow, grants>>

KnownSubjects(p) == DOMAIN buckets[p]
BucketOf(p, s, at) == IF s \in KnownSubjects(p) THEN buckets[p][s] ELSE [tokens |-> Burst[p], last |-> at]
FullHouse(p, s) == s \notin KnownSubjects(p) /\ Cardinality(KnownSubjects(p)) >= BucketCapacity

(* Faulty variant: every call sets the bucket's time, also backwards. *)
RefilledBackwards(p, b, at) ==
  LET elapsed == IF at > b.last THEN at - b.last ELSE 0
      sum == b.tokens + elapsed * Rate[p] IN
  [tokens |-> IF sum > Burst[p] THEN Burst[p] ELSE sum, last |-> at]

(* A timestamp older than the bucket's adds nothing and does not turn it back. *)
Refilled(p, b, at) ==
  IF at <= b.last THEN b
  ELSE LET sum == b.tokens + (at - b.last) * Rate[p] IN
       [tokens |-> IF sum > Burst[p] THEN Burst[p] ELSE sum, last |-> at]

PutBucket(p, s, b) == [buckets EXCEPT ![p] = [k \in KnownSubjects(p) \cup {s} |-> IF k = s THEN b ELSE @[k]]]

(* AllowN, under the lock of the limiter. *)
FinishAllow(c) ==
  LET p == asking[c].policy
      s == asking[c].subject
      at == asking[c].at
      b == Refilled(p, BucketOf(p, s, at), at) IN
  /\ asking[c] # NoCall
  /\ asking' = [asking EXCEPT ![c] = NoCall]
  /\ IF FullHouse(p, s) THEN UNCHANGED <<buckets, grants>>
     ELSE IF b.tokens < 1 THEN buckets' = PutBucket(p, s, b) /\ UNCHANGED grants
     ELSE /\ buckets' = PutBucket(p, s, [b EXCEPT !.tokens = @ - 1])
          /\ grants' = [grants EXCEPT ![<<p, s>>] = Append(@, at)]
  /\ UNCHANGED <<sweepAt, sweepDue, limiterNow>>

(* CleanupLoop: one reading of the clock, then limiter by limiter. *)
StartSweep ==
  /\ sweepDue = {} /\ sweepAt # limiterNow
  /\ sweepAt' = limiterNow /\ sweepDue' = Registered
  /\ UNCHANGED <<buckets, asking, limiterNow, grants>>

ActiveBuckets(p) == {s \in KnownSubjects(p) : sweepAt <= buckets[p][s].last + IdleTimeout}

SweepBuckets(p) ==
  /\ p \in sweepDue /\ sweepDue' = sweepDue \ {p}
  /\ buckets' = [buckets EXCEPT ![p] = OnKeys(@, ActiveBuckets(p))]
  /\ UNCHANGED <<asking, sweepAt, limiterNow, grants>>

TimeAdvances ==
  /\ limiterNow < LimiterMaxTime /\ limiterNow' = limiterNow + 1
  /\ \A c \in LimiterCalls : asking[c] # NoCall => limiterNow < asking[c].at + LockDelay
  /\ UNCHANGED <<buckets, asking, sweepAt, sweepDue, grants>>

LimiterNext ==
  \/ \E c \in LimiterCalls :
       \/ \E p \in Policies, s \in CallerNames : StartAllow(c, p, s)
       \/ FinishAllow(c)
  \/ StartSweep
  \/ \E p \in sweepDue : SweepBuckets(p)
  \/ TimeAdvances

LimiterSpec == LimiterInit /\ [][LimiterNext]_limiterVars

-----------------------------------------------------------------------------
(* Types; no limiter holds more buckets than its capacity or more tokens than its *)
(* burst.                                                                           *)
LimiterTypeOK ==
  /\ DOMAIN buckets = Registered
  /\ \A p \in Registered :
       /\ KnownSubjects(p) \subseteq Subjects /\ Cardinality(KnownSubjects(p)) <= BucketCapacity
       /\ \A s \in KnownSubjects(p) : buckets[p][s].tokens \in 0..Burst[p] /\ buckets[p][s].last \in 0..limiterNow
  /\ sweepDue \subseteq Registered /\ sweepAt \in 0..limiterNow

LatestOf(g, i, j) == CHOOSE t \in {g[k] : k \in i..j} : \A k \in i..j : g[k] <= t

(* Whatever order the calls take the lock in, and whatever the sweep forgets, no    *)
(* subject gets more than the burst and the refill of the span between the first    *)
(* and the latest of any run of granted calls (ratelimit.go:173).                   *)
GrantsWithinRate ==
  \A b \in Buckets :
    LET g == grants[b] IN
    \A i, j \in 1..Len(g) :
      i <= j => j - i + 1 <= Burst[b[1]] + Rate[b[1]] * (LatestOf(g, i, j) - g[i])
=============================================================================
