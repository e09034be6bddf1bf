------------------------------- MODULE SignIn -------------------------------
(* How an account is entered and by what (service/identity): passwords, e-mailed *)
(* codes, passkeys and external accounts, each request a sequence of reads and   *)
(* writes interleaved with the others; and how a method is added and removed.    *)
(* A session carries the version its account had when the request read it; an    *)
(* account accepts sessions of its present version only.                         *)
EXTENDS Naturals, FiniteSets

CONSTANTS
  People,      \* accounts, each with an e-mail address of its own
  Passwords, NoPassword,
  ExternalAccounts,    \* accounts at a provider that may register here
  Passkeys,        \* passkeys authenticators may create, each registered once
  Nobody,
  Flows,       \* requests, each made once
  MaxChanges,  \* bound: changes of accounts by other requests
  MaxTickets,  \* bound: one-time states and challenges issued
  MaxRows      \* bound: rows of external identities ever inserted

ASSUME SignInAssumption ==
  /\ {MaxChanges, MaxTickets, MaxRows} \subseteq Nat
  /\ {Nobody, "deleted"} \cap People = {} /\ NoPassword \notin Passwords
  /\ IsFiniteSet(Passkeys) /\ IsFiniteSet(ExternalAccounts) /\ Passkeys \cap ExternalAccounts = {}

VARIABLES
  person,    \* account -> [state, active, version, password]
  bound,     \* subject -> [owner, row], row 0 when unbound
  rows,      \* identity rows inserted so far
  passkey,   \* key -> owner; Nobody before registration, "deleted" after removal
  tickets,   \* one-time states and challenges, [n, kind, user]
  issued,    \* tickets issued so far
  handoffs,  \* tickets Apple's form post has handed over and nobody has taken up
  sessions,  \* sessions signed, [user, version, how, proof, ticket]
  flow,      \* request -> its progress
  elsewhere    \* changes by other requests so far
signInVars == <<person, bound, rows, passkey, tickets, issued, handoffs, sessions, flow, elsewhere>>

NewPerson == [state |-> "none", active |-> TRUE, version |-> 0, password |-> NoPassword]
Member(pw) == [state |-> "live", active |-> TRUE, version |-> 1, password |-> pw]
Unbound == [owner |-> Nobody, row |-> 0]
NoTicket == [n |-> 0, kind |-> "none", user |-> Nobody]
Idle == [pc |-> "idle"]
Ended == [pc |-> "ended"]

SignInInit ==
  /\ person \in [People -> {NewPerson} \cup {Member(pw) : pw \in Passwords \cup {NoPassword}}]
  /\ bound \in [ExternalAccounts -> {Unbound} \cup {[owner |-> u, row |-> 1] : u \in People}] /\ rows = 1
  /\ passkey \in [Passkeys -> People \cup {Nobody}]
  /\ \A u \in People : person[u].state = "none" => u \notin {bound[x].owner : x \in ExternalAccounts} \cup {passkey[k] : k \in Passkeys}
  /\ tickets = {} /\ issued = 0 /\ handoffs = {} /\ sessions = {}
  /\ flow = [f \in Flows |-> Idle] /\ elsewhere = 0

OtherRequest == elsewhere < MaxChanges /\ elsewhere' = elsewhere + 1
Live(u) == person[u].state = "live"
(* Rows locked by a removal in its transaction; other writers of the row wait.   *)
Locked(u) == \E f \in Flows : flow[f].pc \in {"count", "remove"} /\ flow[f].user = u

At(f, pc) == flow[f].pc = pc
Proceed(f, r) == flow' = [flow EXCEPT ![f] = r]
To(f, pc) == Proceed(f, [flow[f] EXCEPT !.pc = pc])
Refuse(f) == Proceed(f, Ended)
(* What every sign-in ends with: the account as it was read, the proof, and the  *)
(* binding it was found by.                                                      *)
Reading(u, how, proof, ticket, pc) ==
  [pc |-> pc, user |-> u, version |-> person[u].version, active |-> person[u].active,
   how |-> how, proof |-> proof, ticket |-> ticket, row |-> Unbound]
OnlyFlow == UNCHANGED <<person, bound, rows, passkey, tickets, issued, handoffs, sessions, elsewhere>>

(* completeLogin: an account that is not active, or a user while the site takes   *)
(* only administrators, is refused; else a token with the version read before.   *)
SignedVersionNow(f) == person[flow[f].user].version
SignedVersion(f) == flow[f].version
CompleteLogin(f) ==
  /\ At(f, "complete") /\ Refuse(f)
  /\ \/ /\ flow[f].active
        /\ sessions' = sessions \cup
             {[user |-> flow[f].user, version |-> SignedVersion(f), how |-> flow[f].how, proof |-> flow[f].proof,
               ticket |-> flow[f].ticket]}
     \/ UNCHANGED sessions
  /\ UNCHANGED <<person, bound, rows, passkey, tickets, issued, handoffs, elsewhere>>

(* ---- passwords ---- *)
BeginPasswordLogin(f, u, pw) ==
  /\ At(f, "idle") /\ Live(u) /\ Proceed(f, Reading(u, "password", pw, NoTicket, "hash")) /\ OnlyFlow
VerifyHash(f) ==
  /\ At(f, "hash")
  /\ IF Live(flow[f].user) /\ person[flow[f].user].password = flow[f].proof THEN To(f, "complete") ELSE Refuse(f)
  /\ OnlyFlow
(* A signed-in user sets a password; one who has one proves it first.            *)
BeginChangePassword(f, u, current, new) ==
  /\ At(f, "idle") /\ Live(u)
  /\ IF person[u].password \in {NoPassword, current} THEN Proceed(f, Reading(u, "change", new, NoTicket, "set")) ELSE Refuse(f)
  /\ OnlyFlow
NewPassword(u, pw) == person' = [person EXCEPT ![u].password = pw, ![u].version = @ + 1]
SetPassword(f) ==
  LET u == flow[f].user IN
  /\ At(f, "set") /\ ~Locked(u)
  /\ IF Live(u)
     THEN /\ NewPassword(u, flow[f].proof)
          /\ Proceed(f, [flow[f] EXCEPT !.pc = "complete", !.active = TRUE, !.version = person[u].version + 1])
     ELSE Refuse(f) /\ UNCHANGED person
  /\ UNCHANGED <<bound, rows, passkey, tickets, issued, handoffs, sessions, elsewhere>>
(* With a code from the mail (OneTimeCode), or by an administrator.              *)
ResetPassword(u, pw) ==
  /\ OtherRequest /\ Live(u) /\ ~Locked(u) /\ NewPassword(u, pw)
  /\ UNCHANGED <<bound, rows, passkey, tickets, issued, handoffs, sessions, flow>>
RevokeAllSessions(u) ==
  /\ OtherRequest /\ Live(u) /\ ~Locked(u)
  /\ person' = [person EXCEPT ![u].version = @ + 1]
  /\ UNCHANGED <<bound, rows, passkey, tickets, issued, handoffs, sessions, flow>>

(* ---- e-mailed codes: whoever holds one enters, or registers ---- *)
LoginWithEmailCode(f, u) ==
  /\ At(f, "idle")
  /\ IF Live(u) THEN Proceed(f, Reading(u, "code", Nobody, NoTicket, "complete")) /\ UNCHANGED person
     ELSE /\ person[u].state = "none" /\ person' = [person EXCEPT ![u] = Member(NoPassword)]
          /\ Proceed(f, [pc |-> "complete", user |-> u, version |-> 1, active |-> TRUE, how |-> "code", proof |-> Nobody, ticket |-> NoTicket])
  /\ UNCHANGED <<bound, rows, passkey, tickets, issued, handoffs, sessions, elsewhere>>

(* ---- one-time states and challenges ---- *)
Issue(kind, u) ==
  /\ issued < MaxTickets /\ issued' = issued + 1
  /\ tickets' = tickets \cup {[n |-> issued + 1, kind |-> kind, user |-> u]}
  /\ UNCHANGED <<person, bound, rows, passkey, handoffs, sessions, flow, elsewhere>>
(* purpose login or register, and bind for a signed-in user.                     *)
BeginOAuth(purpose, u) == (purpose = "bind" => Live(u)) /\ Issue(purpose, IF purpose = "bind" THEN u ELSE Nobody)
BeginPasskeyRegistration(u) == Live(u) /\ Issue("registration", u)
BeginPasskeyLogin == Issue("assertion", Nobody)
(* Apple posts its answer to the server, which hands the browser a one-time key. *)
CreateOAuthHandoff(t) ==
  /\ t \in tickets /\ t.kind \in {"login", "bind"} /\ handoffs' = handoffs \cup {t}
  /\ UNCHANGED <<person, bound, rows, passkey, tickets, issued, sessions, flow, elsewhere>>
ConsumeOAuthHandoff(f, t) ==
  /\ At(f, "idle") /\ t \in handoffs /\ handoffs' = handoffs \ {t}
  /\ Proceed(f, [pc |-> "state", ticket |-> t])
  /\ UNCHANGED <<person, bound, rows, passkey, tickets, issued, sessions, elsewhere>>
(* Denied at the provider: the state is spent and nobody enters.                 *)
OAuthAccessDenied(t) ==
  /\ t \in tickets /\ t.kind \in {"login", "bind"} /\ tickets' = tickets \ {t}
  /\ UNCHANGED <<person, bound, rows, passkey, issued, handoffs, sessions, flow, elsewhere>>

(* ---- external accounts ---- *)
(* The callback spends the state, then asks the provider for the subject.        *)
FinishOAuth(f, t) ==
  /\ \/ At(f, "state") /\ flow[f].ticket = t
     \/ At(f, "idle") /\ t \in tickets /\ t.kind \in {"login", "bind"}
  /\ tickets' = tickets \ {t}
  /\ IF t \in tickets THEN Proceed(f, [pc |-> "exchange", ticket |-> t]) ELSE Refuse(f)
  /\ UNCHANGED <<person, bound, rows, passkey, issued, handoffs, sessions, elsewhere>>
ExchangeCode(f) ==
  /\ At(f, "exchange")
  /\ \/ Refuse(f)
     \/ \E x \in ExternalAccounts : Proceed(f, [pc |-> "lookup", ticket |-> flow[f].ticket, subject |-> x])
  /\ OnlyFlow
Binding(f) == flow[f].ticket.kind = "bind"
(* resolveOAuthIdentity: a bound subject enters its owner's account, but a user  *)
(* who is binding must be the owner; an unbound one is bound, or registered.     *)
LookupSubject(f) ==
  /\ At(f, "lookup")
  /\ LET b == bound[flow[f].subject] IN
       CASE b.row # 0 /\ Binding(f) /\ b.owner # flow[f].ticket.user -> Refuse(f)
         [] b.row # 0 /\ ~(Binding(f) /\ b.owner # flow[f].ticket.user) ->
              Proceed(f, [pc |-> "owner", ticket |-> flow[f].ticket, subject |-> flow[f].subject, row |-> b])
         [] b.row = 0 -> To(f, IF Binding(f) THEN "binder" ELSE "email")
  /\ OnlyFlow
Through(f, u, pc) == Reading(u, "subject", flow[f].subject, flow[f].ticket, pc)
ReadOwner(f) ==
  /\ At(f, "owner")
  /\ IF Live(flow[f].row.owner)
     THEN Proceed(f, [Through(f, flow[f].row.owner, "touch") EXCEPT !.row = flow[f].row]) ELSE Refuse(f)
  /\ OnlyFlow
(* The login is recorded in the row that was read: gone, the login fails.        *)
TouchLastLogin(f) ==
  /\ At(f, "touch")
  /\ IF bound[flow[f].proof] = flow[f].row THEN To(f, "complete") ELSE Refuse(f)
  /\ OnlyFlow
ReadBinder(f) ==
  /\ At(f, "binder")
  /\ IF Live(flow[f].ticket.user) THEN Proceed(f, Through(f, flow[f].ticket.user, "bind")) ELSE Refuse(f)
  /\ OnlyFlow
BindTo(x, u) == bound' = [bound EXCEPT ![x] = [owner |-> u, row |-> rows + 1]] /\ rows' = rows + 1
(* One row per subject, and only for an account that exists.                     *)
BindOAuthIdentity(f) ==
  /\ At(f, "bind") /\ rows < MaxRows
  /\ IF bound[flow[f].proof] = Unbound /\ Live(flow[f].user)
     THEN BindTo(flow[f].proof, flow[f].user) /\ To(f, "complete")
     ELSE Refuse(f) /\ UNCHANGED <<bound, rows, elsewhere>>
  /\ UNCHANGED <<person, passkey, tickets, issued, handoffs, sessions, elsewhere>>
(* Nobody is bound and the provider's e-mail is verified: an address that has an *)
(* account is refused, a new one registers with the subject in one transaction.  *)
RegisterOAuthUser(f) ==
  /\ At(f, "email") /\ rows < MaxRows
  /\ \/ \E u \in People :
          /\ person[u].state = "none" /\ bound[flow[f].subject] = Unbound
          /\ person' = [person EXCEPT ![u] = Member(NoPassword)]
          /\ BindTo(flow[f].subject, u)
          /\ Proceed(f, [pc |-> "complete", user |-> u, version |-> 1, active |-> TRUE,
                    how |-> "subject", proof |-> flow[f].subject, ticket |-> flow[f].ticket])
     \/ Refuse(f) /\ UNCHANGED <<person, bound, rows, elsewhere>>
  /\ UNCHANGED <<passkey, tickets, issued, handoffs, sessions, elsewhere>>

(* ---- passkeys ---- *)
FinishPasskeyRegistration(f, t, k) ==
  /\ At(f, "idle") /\ t \in tickets /\ t.kind = "registration" /\ tickets' = tickets \ {t} /\ Refuse(f)
  /\ Live(t.user) /\ passkey[k] = Nobody /\ passkey' = [passkey EXCEPT ![k] = t.user]
  /\ UNCHANGED <<person, bound, rows, issued, handoffs, sessions, elsewhere>>
Usable(k) == passkey[k] \in People
(* The assertion is verified against the key as stored, for its owner.           *)
VerifyAssertion(f, t, k) ==
  /\ At(f, "idle") /\ t \in tickets /\ t.kind = "assertion" /\ tickets' = tickets \ {t}
  /\ IF Usable(k) THEN Proceed(f, [pc |-> "record", key |-> k, ticket |-> t]) ELSE Refuse(f)
  /\ UNCHANGED <<person, bound, rows, passkey, issued, handoffs, sessions, elsewhere>>
(* The key is read again and the login recorded in its row: gone, it fails.      *)
UpdateLoginState(f) ==
  /\ At(f, "record")
  /\ IF Usable(flow[f].key)
     THEN Proceed(f, [pc |-> "holder", key |-> flow[f].key, ticket |-> flow[f].ticket, user |-> passkey[flow[f].key]])
     ELSE Refuse(f)
  /\ OnlyFlow
ReadHolder(f) ==
  /\ At(f, "holder")
  /\ IF Live(flow[f].user) THEN Proceed(f, Reading(flow[f].user, "key", flow[f].key, flow[f].ticket, "complete")) ELSE Refuse(f)
  /\ OnlyFlow

(* ---- removing a method ---- *)
KeysOf(u) == {k \in Passkeys : passkey[k] = u}
SubjectsOf(u) == {x \in ExternalAccounts : bound[x].owner = u}
LoginMethodCount(u) ==
  Cardinality(KeysOf(u)) + Cardinality(SubjectsOf(u)) + (IF person[u].password = NoPassword THEN 0 ELSE 1)
(* The account's row is locked for the whole transaction (on SQLite the whole    *)
(* database is), and in its process the account's credential lock is held.       *)
MayLockAnyway(u) == TRUE
MayLock(u) == ~Locked(u)
LockAccount(f, u, m) ==
  /\ At(f, "idle") /\ Live(u) /\ MayLock(u) /\ m \in KeysOf(u) \cup SubjectsOf(u)
  /\ Proceed(f, [pc |-> "count", user |-> u, method |-> m]) /\ OnlyFlow
CountMethods(f) ==
  /\ At(f, "count")
  /\ IF LoginMethodCount(flow[f].user) <= 1 THEN Refuse(f) ELSE To(f, "remove")
  /\ OnlyFlow
RemoveMethod(f) ==
  LET u == flow[f].user  m == flow[f].method IN
  /\ At(f, "remove") /\ Refuse(f)
  /\ passkey' = [k \in Passkeys |-> IF k = m /\ passkey[k] = u THEN "deleted" ELSE passkey[k]]
  /\ bound' = [x \in ExternalAccounts |-> IF x = m /\ bound[x].owner = u THEN Unbound ELSE bound[x]]
  /\ UNCHANGED <<person, rows, tickets, issued, handoffs, sessions, elsewhere>>

(* ---- accounts change under way (AdminAccounts) ---- *)
Suspend(u) ==
  /\ OtherRequest /\ Live(u) /\ ~Locked(u) /\ person[u].active /\ person' = [person EXCEPT ![u].active = FALSE]
  /\ UNCHANGED <<bound, rows, passkey, tickets, issued, handoffs, sessions, flow>>
RemovePerson(u) ==
  /\ OtherRequest /\ Live(u) /\ ~Locked(u) /\ person' = [person EXCEPT ![u].state = "gone"]
  /\ passkey' = [k \in Passkeys |-> IF passkey[k] = u THEN "deleted" ELSE passkey[k]]
  /\ bound' = [x \in ExternalAccounts |-> IF bound[x].owner = u THEN Unbound ELSE bound[x]]
  /\ UNCHANGED <<rows, tickets, issued, handoffs, sessions, flow>>

SignInNext ==
  \/ \E f \in Flows :
       \/ CompleteLogin(f) \/ VerifyHash(f) \/ SetPassword(f)
       \/ ExchangeCode(f) \/ LookupSubject(f) \/ ReadOwner(f) \/ TouchLastLogin(f) \/ ReadBinder(f)
       \/ BindOAuthIdentity(f) \/ RegisterOAuthUser(f) \/ UpdateLoginState(f) \/ ReadHolder(f)
       \/ CountMethods(f) \/ RemoveMethod(f)
       \/ \E u \in People :
            \/ \E pw \in Passwords : BeginPasswordLogin(f, u, pw) \/ \E new \in Passwords : BeginChangePassword(f, u, pw, new)
            \/ LoginWithEmailCode(f, u)
            \/ \E m \in Passkeys \cup ExternalAccounts : LockAccount(f, u, m)
       \/ \E t \in tickets \cup handoffs : FinishOAuth(f, t) \/ ConsumeOAuthHandoff(f, t)
       \/ flow[f].pc = "state" /\ FinishOAuth(f, flow[f].ticket)
       \/ \E t \in tickets, k \in Passkeys : FinishPasskeyRegistration(f, t, k) \/ VerifyAssertion(f, t, k)
  \/ \E u \in People :
       \/ \E pw \in Passwords : ResetPassword(u, pw)
       \/ RevokeAllSessions(u) \/ BeginPasskeyRegistration(u) \/ Suspend(u) \/ RemovePerson(u)
       \/ \E purpose \in {"login", "bind"} : BeginOAuth(purpose, u)
  \/ BeginPasskeyLogin
  \/ \E t \in tickets : CreateOAuthHandoff(t) \/ OAuthAccessDenied(t)

SignInSpec == SignInInit /\ [][SignInNext]_signInVars

(* An account that can be entered by a password, a key or an external account    *)
(* does not lose the last of them while it exists: removals count and delete     *)
(* with the account's row locked (credential.go).                                *)
MethodRemains ==
  [][\A u \in People : Live(u) /\ Live(u)' /\ LoginMethodCount(u) > 0 => LoginMethodCount(u)' > 0]_signInVars

(* A session an account still accepts was earned: a password session with the    *)
(* password the account has now, so a change shuts out everyone who knew the old *)
(* one; no two sessions came of one state or challenge, and binding signed in    *)
(* nobody but the user who began it.                                             *)
SessionsEarned ==
  /\ \A s \in sessions :
       s.how \in {"password", "change"} /\ s.version = person[s.user].version => s.proof = person[s.user].password
  /\ \A s, t \in sessions : s.ticket # NoTicket /\ s.ticket = t.ticket => s = t
  /\ \A s \in sessions : s.ticket.kind = "bind" => s.user = s.ticket.user
=============================================================================
