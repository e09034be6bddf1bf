----------------------------- MODULE OneTimeCode -----------------------------
(***************************************************************************)
(* The one-time store of platform/onetime at work for one e-mail address:  *)
(* senders issue codes and mail them, verifiers run the loop of            *)
(* VerifyAndConsume, and the cache underneath offers single atomic         *)
(* operations only: Set, Delete, GetRawJSON, CompareAndSwapJSON and        *)
(* CompareAndDeleteJSON.  Both caches (memory under its mutex, Redis by a  *)
(* script) run each of them in one step.                                   *)
(***************************************************************************)
EXTENDS OneTimeCodeAtomic

CONSTANTS Senders,    \* requests that issue a code
          Verifiers,  \* requests that submit one
          Purpose     \* "login" or "passwordReset"

ASSUME PurposeAssumption == Purpose \in {"login", "passwordReset"}

VARIABLES sending,    \* senders between SetEmailCode and the end of the mail delivery
          pc,         \* per verifier
          submitted,  \* the digest it was given
          seen,       \* the record it has read
          verdict     \* what it is about to do to that record

vars == <<record, issued, lapsed, used, sending, pc, submitted, seen, verdict>>
verifierVars == <<pc, submitted, seen, verdict>>

Verdicts == {"drop", "accept", "void", "count"}

CodeInit ==
    /\ Init
    /\ sending = {}
    /\ pc = [v \in Verifiers |-> "idle"]
    /\ submitted = [v \in Verifiers |-> "none"]
    /\ seen = [v \in Verifiers |-> NoRecord]
    /\ verdict = [v \in Verifiers |-> "drop"]

-----------------------------------------------------------------------------
(* Senders: SendEmailCode and RequestPasswordReset *)

SetEmailCode(s, code) ==
    /\ s \notin sending
    /\ Issue(code)
    /\ sending' = sending \cup {s}
    /\ UNCHANGED verifierVars

(* The mail is out, or could not be sent and the code stays. *)
FinishSending(s) ==
    /\ s \in sending
    /\ sending' = sending \ {s}
    /\ UNCHANGED <<record, issued, lapsed, used, verifierVars>>

(* A reset code that could not be sent is deleted, by address. *)
DeleteEmailCode(s) ==
    /\ Purpose = "passwordReset"
    /\ s \in sending
    /\ sending' = sending \ {s}
    /\ Discard
    /\ UNCHANGED verifierVars

-----------------------------------------------------------------------------
(* Time *)

ExpiresAtPasses ==
    /\ ~lapsed
    /\ Lapse
    /\ UNCHANGED <<sending, verifierVars>>

CacheTTLEnds ==
    /\ Stored
    /\ Discard
    /\ UNCHANGED <<sending, verifierVars>>

-----------------------------------------------------------------------------
(* VerifyAndConsume *)

Submit(v, code) ==
    /\ pc[v] = "idle"
    /\ pc' = [pc EXCEPT ![v] = "read"]
    /\ submitted' = [submitted EXCEPT ![v] = code]
    /\ UNCHANGED <<record, issued, lapsed, used, sending, seen, verdict>>

Verdict(code) ==
    IF lapsed \/ record.attempts >= MaxAttempts THEN "drop"
    ELSE IF code = record.code THEN "accept"
    ELSE IF record.attempts + 1 >= MaxAttempts THEN "void" ELSE "count"

Leave(v) ==
    /\ pc' = [pc EXCEPT ![v] = "idle"]
    /\ submitted' = [submitted EXCEPT ![v] = "none"]
    /\ seen' = [seen EXCEPT ![v] = NoRecord]
    /\ verdict' = [verdict EXCEPT ![v] = "drop"]

(* GetRawJSON and the decision on what it returns. *)
Read(v) ==
    /\ pc[v] = "read"
    /\ IF Stored
       THEN /\ pc' = [pc EXCEPT ![v] = "write"]
            /\ seen' = [seen EXCEPT ![v] = record]
            /\ verdict' = [verdict EXCEPT ![v] = Verdict(submitted[v])]
            /\ UNCHANGED submitted
       ELSE Leave(v)
    /\ UNCHANGED <<record, issued, lapsed, used, sending>>

(* Faulty variants of the comparison: by address alone, by code alone. *)
UnchangedSinceAny(v) == Stored
UnchangedSinceCode(v) == Stored /\ record.code = seen[v].code

UnchangedSince(v) == record = seen[v]

(* CompareAndSwapJSON for "count", CompareAndDeleteJSON otherwise. *)
Apply(v) ==
    /\ IF verdict[v] = "count"
       THEN /\ record' = [seen[v] EXCEPT !.attempts = @ + 1]
            /\ UNCHANGED lapsed
       ELSE /\ record' = NoRecord
            /\ lapsed' = FALSE
    /\ used' = IF verdict[v] = "drop" THEN used
               ELSE [used EXCEPT ![seen[v].issue] =
                        OneMore(used[seen[v].issue], IF verdict[v] = "accept" THEN "right" ELSE "wrong")]

Write(v) ==
    /\ pc[v] = "write"
    /\ UnchangedSince(v)
    /\ Apply(v)
    /\ Leave(v)
    /\ UNCHANGED <<issued, sending>>

(* Faulty variant: the loop tries the same comparison again. *)
RetryWithoutReading(v) ==
    /\ pc[v] = "write"
    /\ ~UnchangedSince(v)
    /\ UNCHANGED vars

(* The record changed since it was read: once more from the beginning. *)
Retry(v) ==
    /\ pc[v] = "write"
    /\ ~UnchangedSince(v)
    /\ pc' = [pc EXCEPT ![v] = "read"]
    /\ UNCHANGED <<record, issued, lapsed, used, sending, submitted, seen, verdict>>

(* The context is cancelled or the cache fails before the write. *)
Abort(v) ==
    /\ pc[v] # "idle"
    /\ Leave(v)
    /\ UNCHANGED <<record, issued, lapsed, used, sending>>

-----------------------------------------------------------------------------

VerifierNext(v) ==
    \/ \E code \in Codes : Submit(v, code)
    \/ Read(v)
    \/ Write(v)
    \/ Retry(v)
    \/ Abort(v)

SenderNext(s) ==
    \/ \E code \in Codes : SetEmailCode(s, code)
    \/ FinishSending(s)
    \/ DeleteEmailCode(s)

CodeNext ==
    \/ \E v \in Verifiers : VerifierNext(v)
    \/ \E s \in Senders : SenderNext(s)
    \/ ExpiresAtPasses
    \/ CacheTTLEnds

(* A verifier that can go on does: it is one goroutine of a request. *)
Fairness == \A v \in Verifiers : WF_vars(Read(v) \/ Write(v) \/ Retry(v))

CodeSpec == CodeInit /\ [][CodeNext]_vars
FairCodeSpec == CodeSpec /\ Fairness

-----------------------------------------------------------------------------
(* Properties; AcceptedOnce, GuessesBounded and AttemptsExact are those of *)
(* OneTimeCodeAtomic.                                                      *)

(* Type invariant; a verdict always fits the record it was reached on. *)
CodeTypeOK ==
    /\ record \in Record \cup {NoRecord}
    /\ issued \in 0..MaxIssues
    /\ lapsed \in BOOLEAN
    /\ used \in [Issues -> [right : Nat, wrong : Nat]]
    /\ sending \subseteq Senders
    /\ pc \in [Verifiers -> {"idle", "read", "write"}]
    /\ submitted \in [Verifiers -> Codes \cup {"none"}]
    /\ seen \in [Verifiers -> Record \cup {NoRecord}]
    /\ verdict \in [Verifiers -> Verdicts]

(* To everyone else a verification happens at one instant. *)
ImplementsAtomic == Spec

(* The loop ends: every comparison it loses is lost to a change of the     *)
(* record, and an issue allows finitely many of those.                     *)
Answered == \A v \in Verifiers : pc[v] # "idle" ~> pc[v] = "idle"
=============================================================================
