-------------------------- MODULE OneTimeCodeAtomic --------------------------
(***************************************************************************)
(* What the one-time store promises for the code of one address: issuing,  *)
(* deleting and verifying each happen at one instant, although the store   *)
(* verifies by reading, comparing and writing back.                        *)
(*                                                                         *)
(* The stored record is the digest, the failures counted so far and        *)
(* ExpiresAt; the serial number of its issue stands for the latter, which  *)
(* no two issues share.  used is history: how often the code of each issue *)
(* was accepted, and how often something else was turned down.             *)
(***************************************************************************)
EXTENDS Naturals

CONSTANTS Codes,          \* digests of codes
          MaxAttempts,    \* failures after which a code is void
          MaxIssues       \* bound of the model: codes ever issued for the address

ASSUME CodeAssumption == MaxAttempts \in Nat \ {0} /\ MaxIssues \in Nat

VARIABLES record,   \* what the cache holds for the address
          issued,   \* serial number of the latest issue
          lapsed,   \* ExpiresAt of the stored record has passed
          used      \* history per issue

atomicVars == <<record, issued, lapsed, used>>

Issues == 1..MaxIssues
NoRecord == [issue |-> 0, code |-> "none", attempts |-> 0]
Record == [issue : Issues, code : Codes, attempts : 0..(MaxAttempts - 1)]

Stored == record # NoRecord

Init ==
    /\ record = NoRecord
    /\ issued = 0
    /\ lapsed = FALSE
    /\ used = [i \in Issues |-> [right |-> 0, wrong |-> 0]]

(* A new code replaces the old one and all that was counted against it. *)
Issue(code) ==
    /\ issued < MaxIssues
    /\ issued' = issued + 1
    /\ record' = [issue |-> issued + 1, code |-> code, attempts |-> 0]
    /\ lapsed' = FALSE
    /\ UNCHANGED used

(* By the sender, by the cache at the end of its TTL, or because it lapsed. *)
Discard ==
    /\ record' = NoRecord
    /\ lapsed' = FALSE
    /\ UNCHANGED <<issued, used>>

Lapse ==
    /\ Stored
    /\ lapsed' = TRUE
    /\ UNCHANGED <<record, issued, used>>

OneMore(entry, outcome) ==
    IF outcome = "right" THEN [entry EXCEPT !.right = entry.right + 1]
                         ELSE [entry EXCEPT !.wrong = entry.wrong + 1]

Count(outcome) ==
    used' = [used EXCEPT ![record.issue] = OneMore(used[record.issue], outcome)]

Accept(code) ==
    /\ Stored /\ code = record.code
    /\ record' = NoRecord
    /\ lapsed' = FALSE
    /\ Count("right")
    /\ UNCHANGED issued

(* The last failure allowed voids the code. *)
Refuse(code) ==
    /\ Stored /\ code # record.code
    /\ IF record.attempts + 1 < MaxAttempts
       THEN /\ record' = [record EXCEPT !.attempts = @ + 1]
            /\ UNCHANGED lapsed
       ELSE /\ record' = NoRecord
            /\ lapsed' = FALSE
    /\ Count("wrong")
    /\ UNCHANGED issued

Next ==
    \/ \E code \in Codes : Issue(code) \/ Accept(code) \/ Refuse(code)
    \/ Discard
    \/ Lapse

Spec == Init /\ [][Next]_atomicVars

-----------------------------------------------------------------------------
(* A code is accepted at most once, and never after the failures allowed   *)
(* were spent on it, however many requests try at the same time.           *)
AcceptedOnce == \A i \in Issues : used[i].right <= 1

GuessesBounded ==
    \A i \in Issues : used[i].wrong <= MaxAttempts /\ (used[i].right > 0 => used[i].wrong < MaxAttempts)

(* No failure is lost or counted twice. *)
AttemptsExact == Stored => record.attempts = used[record.issue].wrong
=============================================================================
