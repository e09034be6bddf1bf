---------------------------- MODULE SessionProofs -----------------------------
(* Sessions are earned and requests act by what their account was during the     *)
(* request, for any number of accounts, keys, tickets, requests and changes.     *)
EXTENDS SignIn, FirstParty, FiniteSetTheorems, TLAPS

(* ---- sign-ins ---- *)
Entering == {"hash", "set", "touch", "bind", "complete"}
Carrying == {"exchange", "lookup", "owner", "binder", "email", "record", "holder"}
Removing == {"count", "remove"}
AllPcs == Entering \cup Carrying \cup Removing \cup {"idle", "ended", "state"}

Persons == [state: {"none", "live", "gone"}, active: BOOLEAN, version: Nat,
            password: Passwords \cup {NoPassword}]
Tickets == {t \in [n: Nat \ {0}, kind: {"login", "bind", "registration", "assertion"}, user: People \cup {Nobody}] :
              t.kind = "bind" => t.user \in People}
Rows == {Unbound} \cup [owner: People, row: Nat \ {0}]

SignInTyped ==
  /\ person \in [People -> Persons]
  /\ \A u \in People : person[u].state = "none" => person[u] = NewPerson
  /\ bound \in [ExternalAccounts -> Rows] /\ rows \in Nat \ {0}
  /\ passkey \in [Passkeys -> People \cup {Nobody, "deleted"}]
  /\ tickets \subseteq Tickets /\ handoffs \subseteq Tickets /\ issued \in Nat
  /\ \A t \in tickets \cup handoffs : t.n <= issued
  /\ DOMAIN flow = Flows

(* The password somebody proved is the account's, unless it has changed since: then *)
(* the version has, too.                                                            *)
ProvesPassword(r) ==
  r.how \in {"password", "change"} /\ r.version = person[r.user].version => r.proof = person[r.user].password

(* What a request carries between its reads and writes. *)
TicketKnown(t) == t = NoTicket \/ (t \in Tickets /\ t.n <= issued)
Sound(r) ==
  /\ "pc" \in DOMAIN r /\ r.pc \in AllPcs
  /\ r.pc \in Entering =>
       /\ {"user", "version", "active", "how", "proof", "ticket"} \subseteq DOMAIN r
       /\ r.user \in People /\ r.version \in Nat /\ r.version <= person[r.user].version
       /\ r.ticket.kind = "bind" => r.user = r.ticket.user
  /\ r.pc \in {"touch", "bind"} => r.how = "subject"
  /\ r.pc = "set" => r.how = "change" /\ r.proof \in Passwords
  /\ r.pc = "complete" => ProvesPassword(r)
  /\ r.pc \in Carrying \cup {"state"} => "ticket" \in DOMAIN r /\ r.ticket \in Tickets
  /\ r.pc \in Carrying \cup Entering \cup {"state"} => TicketKnown(r.ticket)
  /\ r.pc \in {"lookup", "owner", "binder", "email"} => "subject" \in DOMAIN r /\ r.subject \in ExternalAccounts
  /\ r.pc = "owner" => r.row.owner \in People /\ (r.ticket.kind = "bind" => r.row.owner = r.ticket.user)
  /\ r.pc = "binder" => r.ticket.kind = "bind"
  /\ r.pc \in {"email", "record", "holder"} => r.ticket.kind # "bind"
  /\ r.pc \in {"holder"} \cup Removing => "user" \in DOMAIN r /\ r.user \in People
RequestsSound == \A f \in Flows : Sound(flow[f])

(* A state or challenge is issued, or spent by one request, which may have signed. *)
Spends(r) == r.pc \in Entering \cup Carrying /\ r.ticket # NoTicket
SpentOnce ==
  /\ \A f \in Flows : Spends(flow[f]) => flow[f].ticket \notin tickets
  /\ \A f, g \in Flows : Spends(flow[f]) /\ Spends(flow[g]) /\ flow[f].ticket = flow[g].ticket => f = g
  /\ \A s \in sessions : s.ticket # NoTicket =>
       /\ s.ticket \notin tickets
       /\ \A f \in Flows : Spends(flow[f]) => flow[f].ticket # s.ticket
  /\ \A s, t \in sessions : s.ticket # NoTicket /\ s.ticket = t.ticket => s = t

SessionsSound ==
  \A s \in sessions :
    /\ s.user \in People /\ s.version \in Nat /\ s.version <= person[s.user].version
    /\ ProvesPassword(s) /\ TicketKnown(s.ticket)
    /\ s.ticket.kind = "bind" => s.user = s.ticket.user

SignInInvariant == SignInTyped /\ RequestsSound /\ SpentOnce /\ SessionsSound

(* How accounts change: whatever changes the password changes the version. *)
PersonsMoveOn ==
  /\ person' \in [People -> Persons]
  /\ \A u \in People : /\ person'[u].state = "none" => person'[u] = NewPerson
                       /\ person[u].version <= person'[u].version
                       /\ person'[u].password # person[u].password => person[u].version < person'[u].version

LEMMA VersionsMoveOn ==
  ASSUME SignInInvariant, PersonsMoveOn, NEW u \in People, NEW n \in Nat, n <= person[u].version
  PROVE  /\ n <= person'[u].version
         /\ n = person'[u].version => n = person[u].version /\ person'[u].password = person[u].password
  <1>1. person[u].version \in Nat /\ person'[u].version \in Nat
    BY DEF PersonsMoveOn, SignInInvariant, SignInTyped, Persons
  <1>2. /\ person[u].version <= person'[u].version
        /\ person'[u].password # person[u].password => person[u].version < person'[u].version
    BY DEF PersonsMoveOn
  <1>3. QED
    BY <1>1, <1>2

LEMMA StillSound ==
  ASSUME SignInInvariant, PersonsMoveOn, issued <= issued', issued' \in Nat, NEW r, Sound(r)
  PROVE  Sound(r)'
  <1>1. \A u \in People, n \in Nat : n <= person[u].version =>
          /\ n <= person'[u].version
          /\ n = person'[u].version => n = person[u].version /\ person'[u].password = person[u].password
    BY VersionsMoveOn
  <1>2. TicketKnown(r.ticket) => TicketKnown(r.ticket)'
    BY DEF TicketKnown, Tickets, SignInInvariant, SignInTyped
  <1>3. r.pc \in Entering => r.version <= person'[r.user].version
    BY <1>1 DEF Sound
  <1>4. r.pc = "complete" => ProvesPassword(r)'
    BY <1>1 DEF Sound, ProvesPassword, Entering
  <1>5. QED
    BY <1>2, <1>3, <1>4 DEF Sound

LEMMA SessionsStillSound ==
  ASSUME SignInInvariant, PersonsMoveOn, issued <= issued', issued' \in Nat, UNCHANGED sessions
  PROVE  SessionsSound'
  <1>1. \A u \in People, n \in Nat : n <= person[u].version =>
          /\ n <= person'[u].version
          /\ n = person'[u].version => n = person[u].version /\ person'[u].password = person[u].password
    BY VersionsMoveOn
  <1>2. ASSUME NEW s \in sessions
        PROVE  /\ s.version <= person'[s.user].version
               /\ ProvesPassword(s)' /\ TicketKnown(s.ticket)'
    BY <1>1, <1>2 DEF ProvesPassword, TicketKnown, Tickets, SignInInvariant, SessionsSound, SignInTyped
  <1>3. QED
    BY <1>2 DEF SessionsSound, SignInInvariant

(* A step of one request that signs nothing. *)
LEMMA FlowStep ==
  ASSUME SignInInvariant, NEW f \in Flows, NEW r, Proceed(f, r), PersonsMoveOn,
         tickets' \subseteq tickets, handoffs' \subseteq handoffs, UNCHANGED <<issued, sessions>>,
         bound' \in [ExternalAccounts -> Rows], rows' \in Nat \ {0},
         passkey' \in [Passkeys -> People \cup {Nobody, "deleted"}],
         Sound(r)',
         Spends(r) => r.ticket \in tickets \ tickets' \/ (Spends(flow[f]) /\ flow[f].ticket = r.ticket)
  PROVE  SignInInvariant'
  <1>1. /\ DOMAIN flow' = Flows /\ flow'[f] = r
        /\ \A g \in Flows \ {f} : flow'[g] = flow[g]
    BY DEF SignInInvariant, SignInTyped, Proceed
  <1>2. SignInTyped'
    BY <1>1 DEF SignInInvariant, SignInTyped, PersonsMoveOn
  <1>3. RequestsSound'
    <2>1. ASSUME NEW g \in Flows \ {f}, NEW q, q = flow[g]
          PROVE  Sound(q)'
      BY <2>1, StillSound DEF SignInInvariant, RequestsSound, SignInTyped
    <2>2. QED
      BY <1>1, <2>1 DEF RequestsSound
  <1>4. SpentOnce'
    BY <1>1 DEF SignInInvariant, SpentOnce, Spends
  <1>5. SessionsSound'
    BY SessionsStillSound DEF SignInInvariant, SignInTyped
  <1>6. QED
    BY <1>2, <1>3, <1>4, <1>5 DEF SignInInvariant

(* A step of somebody else. *)
LEMMA OtherStep ==
  ASSUME SignInInvariant, PersonsMoveOn, issued <= issued', issued' \in Nat, UNCHANGED <<flow, sessions>>,
         tickets' \subseteq Tickets, handoffs' \subseteq Tickets,
         \A t \in tickets' \cup handoffs' : t.n <= issued',
         \A t \in tickets' : t \in tickets \/ issued < t.n,
         bound' \in [ExternalAccounts -> Rows], rows' \in Nat \ {0},
         passkey' \in [Passkeys -> People \cup {Nobody, "deleted"}]
  PROVE  SignInInvariant'
  <1>2. SignInTyped'
    BY DEF SignInInvariant, SignInTyped, PersonsMoveOn
  <1>3. RequestsSound'
    BY StillSound DEF SignInInvariant, RequestsSound
  <1>4. SpentOnce'
    <2>1. \A t : (t \in Tickets /\ t.n <= issued /\ t \notin tickets) => t \notin tickets'
      BY DEF Tickets, SignInInvariant, SignInTyped
    <2>2. \A f \in Flows : Spends(flow[f]) => flow[f].ticket \in Tickets /\ flow[f].ticket.n <= issued
      BY DEF SignInInvariant, RequestsSound, Sound, Spends, TicketKnown
    <2>3. QED
      BY <2>1, <2>2 DEF SignInInvariant, SpentOnce, SessionsSound, TicketKnown, Spends
  <1>5. SessionsSound'
    BY SessionsStillSound
  <1>6. QED
    BY <1>2, <1>3, <1>4, <1>5 DEF SignInInvariant

-----------------------------------------------------------------------------
LEMMA PersonsRest == SignInInvariant /\ UNCHANGED person => PersonsMoveOn
  BY DEF SignInInvariant, SignInTyped, PersonsMoveOn, Persons

(* A step of a request that touches nothing but its own progress. *)
LEMMA OwnStep ==
  ASSUME SignInInvariant, NEW f \in Flows, NEW r, Proceed(f, r), OnlyFlow, Sound(r),
         Spends(r) => Spends(flow[f]) /\ flow[f].ticket = r.ticket
  PROVE  SignInInvariant'
  <1>1. PersonsMoveOn
    BY PersonsRest DEF OnlyFlow
  <1>2. Sound(r)'
    BY <1>1, StillSound DEF OnlyFlow, SignInInvariant, SignInTyped
  <1>3. QED
    BY <1>1, <1>2, FlowStep DEF OnlyFlow, SignInInvariant, SignInTyped

LEMMA EndedSound == Sound(Ended) /\ Sound(Ended)' /\ ~Spends(Ended)
  BY DEF Sound, Ended, Spends, Entering, Carrying, Removing, AllPcs

(* To leaves all but the place. *)
LEMMA ToSound ==
  ASSUME SignInInvariant, NEW f \in Flows, NEW pc, To(f, pc), OnlyFlow,
         Sound([flow[f] EXCEPT !.pc = pc]), pc \in Entering \cup Carrying => flow[f].pc \in Entering \cup Carrying
  PROVE  SignInInvariant'
  <1> DEFINE r == [flow[f] EXCEPT !.pc = pc]
  <1>1. Sound(flow[f])
    BY DEF SignInInvariant, RequestsSound
  <1>2. r.pc = pc /\ ("ticket" \in DOMAIN flow[f] => r.ticket = flow[f].ticket)
    BY <1>1 DEF Sound
  <1>3. Spends(r) => Spends(flow[f]) /\ flow[f].ticket = r.ticket
    BY <1>1, <1>2 DEF Sound, Spends, Entering, Carrying
  <1>4. QED
    BY <1>3, OwnStep DEF To

(* What a request reads of an account. *)
LEMMA ReadingSound ==
  ASSUME SignInInvariant, NEW u \in People, NEW how, NEW proof, NEW ticket, NEW pc \in Entering,
         TicketKnown(ticket), ticket.kind = "bind" => u = ticket.user,
         pc \in {"touch", "bind"} => how = "subject",
         pc = "set" => how = "change" /\ proof \in Passwords,
         pc = "complete" => how \notin {"password", "change"}
  PROVE  Sound(Reading(u, how, proof, ticket, pc))
  <1> DEFINE r == Reading(u, how, proof, ticket, pc)
  <1>1. /\ r.pc = pc /\ r.user = u /\ r.version = person[u].version /\ r.how = how /\ r.proof = proof
        /\ r.ticket = ticket
        /\ {"pc", "user", "version", "active", "how", "proof", "ticket"} \subseteq DOMAIN r
    BY DEF Reading
  <1>2. person[u].version \in Nat
    BY DEF SignInInvariant, SignInTyped, Persons
  <1> HIDE DEF r
  <1>3. Sound(r)
    BY <1>1, <1>2 DEF Sound, ProvesPassword, Entering, Carrying, Removing, AllPcs
  <1>4. QED
    BY <1>3 DEF r

LEMMA RefuseStep ==
  ASSUME SignInInvariant, NEW f \in Flows, Refuse(f), OnlyFlow
  PROVE  SignInInvariant'
  BY OwnStep, EndedSound DEF Refuse

LEMMA KnownTickets ==
  ASSUME SignInInvariant
  PROVE  /\ TicketKnown(NoTicket) /\ NoTicket.kind = "none"
         /\ \A t \in tickets \cup handoffs : TicketKnown(t) /\ t \in Tickets
         /\ \A f \in Flows : Sound(flow[f])
  BY DEF SignInInvariant, SignInTyped, RequestsSound, TicketKnown, NoTicket

(* Reads. *)
LEMMA PasswordReads ==
  ASSUME SignInInvariant, NEW f \in Flows, NEW u \in People, NEW pw \in Passwords, NEW new \in Passwords,
         BeginPasswordLogin(f, u, pw) \/ BeginChangePassword(f, u, pw, new)
  PROVE  SignInInvariant'
  <1>1. /\ Sound(Reading(u, "password", pw, NoTicket, "hash"))
        /\ Sound(Reading(u, "change", new, NoTicket, "set"))
    BY KnownTickets, ReadingSound DEF Entering
  <1>2. /\ ~Spends(Reading(u, "password", pw, NoTicket, "hash"))
        /\ ~Spends(Reading(u, "change", new, NoTicket, "set"))
    BY DEF Spends, Reading
  <1>3. QED
    BY <1>1, <1>2, OwnStep, RefuseStep DEF BeginPasswordLogin, BeginChangePassword

LEMMA HashVerified ==
  ASSUME SignInInvariant, NEW f \in Flows, VerifyHash(f)
  PROVE  SignInInvariant'
  <1>1. CASE Refuse(f)
    BY <1>1, RefuseStep DEF VerifyHash
  <1>2. CASE person[flow[f].user].password = flow[f].proof /\ To(f, "complete")
    <2> DEFINE r == [flow[f] EXCEPT !.pc = "complete"]
    <2>1. Sound(flow[f]) /\ flow[f].pc = "hash"
      BY KnownTickets DEF VerifyHash, At
    <2>2. /\ r.pc = "complete" /\ DOMAIN r = DOMAIN flow[f]
          /\ \A x \in DOMAIN flow[f] \ {"pc"} : r[x] = flow[f][x]
      BY <2>1 DEF Sound
    <2> HIDE DEF r
    <2>3. Sound(r)
      BY <1>2, <2>1, <2>2 DEF Sound, ProvesPassword, Entering, Carrying, Removing, AllPcs
    <2>4. QED
      BY <1>2, <2>1, <2>3, ToSound DEF r, VerifyHash, Entering
  <1>3. QED
    BY <1>1, <1>2 DEF VerifyHash

LEMMA CodeExchanged ==
  ASSUME SignInInvariant, NEW f \in Flows, ExchangeCode(f)
  PROVE  SignInInvariant'
  <1>1. CASE Refuse(f)
    BY <1>1, RefuseStep DEF ExchangeCode
  <1>2. ASSUME NEW x \in ExternalAccounts, Proceed(f, [pc |-> "lookup", ticket |-> flow[f].ticket, subject |-> x])
        PROVE  SignInInvariant'
    <2>1. Sound(flow[f]) /\ flow[f].pc = "exchange" /\ OnlyFlow
      BY KnownTickets DEF ExchangeCode, At
    <2>2. Sound([pc |-> "lookup", ticket |-> flow[f].ticket, subject |-> x])
      BY <2>1 DEF Sound, Entering, Carrying, Removing, AllPcs
    <2>3. QED
      BY <1>2, <2>1, <2>2, OwnStep DEF Spends, Carrying
  <1>3. QED
    BY <1>1, <1>2 DEF ExchangeCode

LEMMA SubjectLooked ==
  ASSUME SignInInvariant, NEW f \in Flows, LookupSubject(f)
  PROVE  SignInInvariant'
  <1> DEFINE b == bound[flow[f].subject]
  <1>1. Sound(flow[f]) /\ flow[f].pc = "lookup" /\ OnlyFlow
    BY KnownTickets DEF LookupSubject, At
  <1>2. /\ flow[f].subject \in ExternalAccounts /\ b \in Rows /\ flow[f].ticket \in Tickets
        /\ TicketKnown(flow[f].ticket) /\ {"pc", "ticket", "subject"} \subseteq DOMAIN flow[f]
    BY <1>1 DEF Sound, Carrying, SignInInvariant, SignInTyped
  <1>3. CASE Refuse(f)
    BY <1>1, <1>3, RefuseStep
  <1>4. CASE /\ b.row # 0 /\ ~(Binding(f) /\ b.owner # flow[f].ticket.user)
             /\ Proceed(f, [pc |-> "owner", ticket |-> flow[f].ticket, subject |-> flow[f].subject, row |-> b])
    <2> DEFINE r == [pc |-> "owner", ticket |-> flow[f].ticket, subject |-> flow[f].subject, row |-> b]
    <2>1. b.owner \in People
      BY <1>2, <1>4 DEF Rows, Unbound
    <2>2. Sound(r)
      BY <1>2, <1>4, <2>1 DEF Sound, Entering, Carrying, Removing, AllPcs, Binding
    <2>3. Spends(r) => Spends(flow[f]) /\ flow[f].ticket = r.ticket
      BY <1>1 DEF Spends, Carrying
    <2>4. QED
      BY <1>1, <1>4, <2>2, <2>3, OwnStep
  <1>5. ASSUME NEW pc \in {"binder", "email"}, To(f, pc), pc = "binder" <=> Binding(f)
        PROVE  SignInInvariant'
    <2> DEFINE r == [flow[f] EXCEPT !.pc = pc]
    <2>1. /\ r.pc = pc /\ {"pc", "ticket", "subject"} \subseteq DOMAIN r
          /\ r.ticket = flow[f].ticket /\ r.subject = flow[f].subject
      BY <1>2
    <2> HIDE DEF r
    <2>2. Sound(r)
      BY <1>2, <1>5, <2>1 DEF Sound, Entering, Carrying, Removing, AllPcs, Binding
    <2>3. QED
      BY <1>1, <1>5, <2>2, ToSound DEF r, Carrying
  <1>6. QED
    BY <1>3, <1>4, <1>5 DEF LookupSubject

LEMMA OwnerRead ==
  ASSUME SignInInvariant, NEW f \in Flows, ReadOwner(f)
  PROVE  SignInInvariant'
  <1> DEFINE o == flow[f].row.owner
             t == Through(f, o, "touch")
             r == [t EXCEPT !.row = flow[f].row]
  <1>1. Sound(flow[f]) /\ flow[f].pc = "owner" /\ OnlyFlow
    BY KnownTickets DEF ReadOwner, At
  <1>2. Sound(t) /\ t.ticket = flow[f].ticket /\ t.pc = "touch"
    <2>1. o \in People /\ TicketKnown(flow[f].ticket) /\ (flow[f].ticket.kind = "bind" => o = flow[f].ticket.user)
      BY <1>1 DEF Sound, Carrying
    <2>2. Sound(Reading(o, "subject", flow[f].subject, flow[f].ticket, "touch"))
      BY <2>1, ReadingSound DEF Entering
    <2>3. QED
      BY <2>2 DEF Through, Reading
  <1>3. /\ DOMAIN t = DOMAIN r /\ \A x \in DOMAIN t \ {"row"} : r[x] = t[x]
        /\ {"pc", "user", "version", "active", "how", "proof", "ticket"} \subseteq DOMAIN t
    <2>1. {"pc", "user", "version", "active", "how", "proof", "ticket"} \subseteq DOMAIN t
      BY DEF Through, Reading
    <2> HIDE DEF t
    <2>2. QED
      BY <2>1
  <1>4. CASE Refuse(f)
    BY <1>1, <1>4, RefuseStep
  <1>5. CASE Proceed(f, r)
    <2> HIDE DEF t, r
    <2>1. Sound(r)
      BY <1>2, <1>3 DEF Sound, Entering, Carrying, Removing
    <2>2. Spends(r) => Spends(flow[f]) /\ flow[f].ticket = r.ticket
      BY <1>1, <1>2, <1>3 DEF Spends, Carrying
    <2>3. QED
      BY <1>1, <1>5, <2>1, <2>2, OwnStep
  <1>6. QED
    BY <1>4, <1>5 DEF ReadOwner

LEMMA LoginTouched ==
  ASSUME SignInInvariant, NEW f \in Flows, TouchLastLogin(f)
  PROVE  SignInInvariant'
  <1>1. CASE Refuse(f)
    BY <1>1, RefuseStep DEF TouchLastLogin
  <1>2. CASE To(f, "complete")
    <2> DEFINE r == [flow[f] EXCEPT !.pc = "complete"]
    <2>1. Sound(flow[f]) /\ flow[f].pc = "touch"
      BY KnownTickets DEF TouchLastLogin, At
    <2>2. /\ r.pc = "complete" /\ DOMAIN r = DOMAIN flow[f]
          /\ \A x \in DOMAIN flow[f] \ {"pc"} : r[x] = flow[f][x]
      BY <2>1 DEF Sound
    <2> HIDE DEF r
    <2>3. Sound(r)
      BY <2>1, <2>2 DEF Sound, ProvesPassword, Entering, Carrying, Removing, AllPcs
    <2>4. QED
      BY <1>2, <2>1, <2>3, ToSound DEF r, TouchLastLogin, Entering
  <1>3. QED
    BY <1>1, <1>2 DEF TouchLastLogin

LEMMA BinderRead ==
  ASSUME SignInInvariant, NEW f \in Flows, ReadBinder(f)
  PROVE  SignInInvariant'
  <1> DEFINE u == flow[f].ticket.user
             r == Through(f, u, "bind")
  <1>1. Sound(flow[f]) /\ flow[f].pc = "binder" /\ OnlyFlow
    BY KnownTickets DEF ReadBinder, At
  <1>2. u \in People /\ TicketKnown(flow[f].ticket)
    BY <1>1 DEF Sound, Carrying, Tickets
  <1>3. Sound(r)
    BY <1>2, ReadingSound DEF Through, Entering
  <1>4. Spends(r) => Spends(flow[f]) /\ flow[f].ticket = r.ticket
    BY <1>1 DEF Spends, Carrying, Through, Reading
  <1>5. QED
    BY <1>1, <1>3, <1>4, OwnStep, RefuseStep DEF ReadBinder

LEMMA KeyUsed ==
  ASSUME SignInInvariant, NEW f \in Flows, UpdateLoginState(f)
  PROVE  SignInInvariant'
  <1> DEFINE r == [pc |-> "holder", key |-> flow[f].key, ticket |-> flow[f].ticket, user |-> passkey[flow[f].key]]
  <1>1. Sound(flow[f]) /\ flow[f].pc = "record" /\ OnlyFlow
    BY KnownTickets DEF UpdateLoginState, At
  <1>2. CASE Usable(flow[f].key) /\ Proceed(f, r)
    <2>1. Sound(r)
      BY <1>1, <1>2 DEF Sound, Entering, Carrying, Removing, AllPcs, Usable
    <2>2. QED
      BY <1>1, <1>2, <2>1, OwnStep DEF Spends, Carrying
  <1>3. QED
    BY <1>1, <1>2, RefuseStep DEF UpdateLoginState

LEMMA HolderRead ==
  ASSUME SignInInvariant, NEW f \in Flows, ReadHolder(f)
  PROVE  SignInInvariant'
  <1> DEFINE r == Reading(flow[f].user, "key", flow[f].key, flow[f].ticket, "complete")
  <1>1. Sound(flow[f]) /\ flow[f].pc = "holder" /\ OnlyFlow
    BY KnownTickets DEF ReadHolder, At
  <1>2. Sound(r)
    BY <1>1, ReadingSound DEF Sound, Entering, Carrying
  <1>3. Spends(r) => Spends(flow[f]) /\ flow[f].ticket = r.ticket
    BY <1>1 DEF Spends, Carrying, Reading
  <1>4. QED
    BY <1>1, <1>2, <1>3, OwnStep, RefuseStep DEF ReadHolder

LEMMA RemovalSteps ==
  ASSUME SignInInvariant, NEW f \in Flows,
         CountMethods(f) \/ \E u \in People : \E m \in Passkeys \cup ExternalAccounts : LockAccount(f, u, m)
  PROVE  SignInInvariant'
  <1>1. ASSUME NEW u \in People, NEW m, LockAccount(f, u, m)
        PROVE  SignInInvariant'
    <2>1. Sound([pc |-> "count", user |-> u, method |-> m])
      BY DEF Sound, Entering, Carrying, Removing, AllPcs
    <2>2. QED
      BY <1>1, <2>1, OwnStep DEF LockAccount, Spends, Entering, Carrying
  <1>2. CASE CountMethods(f) /\ To(f, "remove")
    <2> DEFINE r == [flow[f] EXCEPT !.pc = "remove"]
    <2>1. Sound(flow[f]) /\ flow[f].pc = "count" /\ OnlyFlow
      BY <1>2, KnownTickets DEF CountMethods, At
    <2>2. r.pc = "remove" /\ {"pc", "user"} \subseteq DOMAIN r /\ r.user = flow[f].user
      BY <2>1 DEF Sound, Removing
    <2> HIDE DEF r
    <2>3. Sound(r)
      BY <2>1, <2>2 DEF Sound, Entering, Carrying, Removing, AllPcs
    <2>4. QED
      BY <1>2, <2>1, <2>3, ToSound DEF r, Entering, Carrying
  <1>3. QED
    BY <1>1, <1>2, RefuseStep DEF CountMethods

-----------------------------------------------------------------------------
(* Writes. *)
LEMMA LoginCompleted ==
  ASSUME SignInInvariant, NEW f \in Flows, CompleteLogin(f)
  PROVE  SignInInvariant'
  <1> DEFINE s == [user |-> flow[f].user, version |-> flow[f].version, how |-> flow[f].how,
                   proof |-> flow[f].proof, ticket |-> flow[f].ticket]
  <1>1. Sound(flow[f]) /\ flow[f].pc = "complete"
    BY KnownTickets DEF CompleteLogin, At
  <1>2. UNCHANGED <<person, bound, rows, passkey, tickets, issued, handoffs>> /\ sessions' \in {sessions, sessions \cup {s}}
    BY DEF CompleteLogin, SignedVersion
  <1>3. CASE UNCHANGED sessions
    BY <1>2, <1>3, RefuseStep DEF CompleteLogin, OnlyFlow
  <1>4. CASE sessions' = sessions \cup {s}
    <2>0. /\ s.user = flow[f].user /\ s.version = flow[f].version /\ s.how = flow[f].how
          /\ s.proof = flow[f].proof /\ s.ticket = flow[f].ticket
      OBVIOUS
    <2> HIDE DEF s
    <2>1. /\ DOMAIN flow' = Flows /\ flow'[f] = Ended
          /\ \A g \in Flows \ {f} : flow'[g] = flow[g]
      BY DEF SignInInvariant, SignInTyped, CompleteLogin, Refuse, Proceed
    <2>2. SignInTyped'
      BY <1>2, <2>1 DEF SignInInvariant, SignInTyped
    <2>3. RequestsSound'
      <3>1. \A r : Sound(r)' <=> Sound(r)
        BY <1>2 DEF Sound, ProvesPassword, TicketKnown
      <3>2. QED
        BY <2>1, <3>1, EndedSound DEF SignInInvariant, RequestsSound
    <2>4. SpentOnce'
      BY <1>1, <1>2, <1>4, <2>0, <2>1, EndedSound DEF SignInInvariant, SpentOnce, Spends, Entering, Carrying
    <2>5. SessionsSound'
      BY <1>1, <1>2, <1>4, <2>0 DEF SignInInvariant, SessionsSound, Sound, ProvesPassword, TicketKnown, Entering
    <2>6. QED
      BY <2>2, <2>3, <2>4, <2>5 DEF SignInInvariant
  <1>5. QED
    BY <1>2, <1>3, <1>4

(* A changed account moves on. *)
LEMMA OnePersonMoves ==
  ASSUME SignInInvariant, NEW u \in People, NEW p \in Persons, person' = [person EXCEPT ![u] = p],
         p.state # "none", person[u].version <= p.version,
         p.password # person[u].password => person[u].version < p.version
  PROVE  PersonsMoveOn
  <1>1. person' \in [People -> Persons] /\ person'[u] = p /\ \A v \in People \ {u} : person'[v] = person[v]
    BY DEF SignInInvariant, SignInTyped
  <1>2. \A v \in People : person[v].version \in Nat
    BY DEF SignInInvariant, SignInTyped, Persons
  <1>3. QED
    BY <1>1, <1>2 DEF SignInInvariant, SignInTyped, PersonsMoveOn

Repassworded(p, pw) == [p EXCEPT !.password = pw, !.version = @ + 1]
LEMMA RepasswordedFields ==
  ASSUME NEW p \in Persons, NEW pw \in Passwords
  PROVE  /\ Repassworded(p, pw) \in Persons /\ Repassworded(p, pw).state = p.state
         /\ Repassworded(p, pw).version = p.version + 1 /\ Repassworded(p, pw).password = pw
  <1>1. ASSUME NEW v \in Nat
        PROVE  /\ [p EXCEPT !.password = pw, !.version = v] \in Persons
               /\ [p EXCEPT !.password = pw, !.version = v].state = p.state
               /\ [p EXCEPT !.password = pw, !.version = v].version = v
               /\ [p EXCEPT !.password = pw, !.version = v].password = pw
    BY DEF Persons
  <1>2. p.version + 1 \in Nat
    BY DEF Persons
  <1>3. QED
    BY <1>1, <1>2, Zenon DEF Repassworded

LEMMA PersonFacts ==
  ASSUME SignInInvariant, NEW u \in People
  PROVE  /\ person \in [People -> Persons] /\ person[u] \in Persons /\ person[u].version \in Nat
         /\ person[u].version <= person[u].version /\ person[u].version < person[u].version + 1
         /\ person[u].version <= person[u].version + 1 /\ person[u].version + 1 \in Nat
         /\ Live(u) => person[u].state # "none"
  BY DEF SignInInvariant, SignInTyped, Persons, Live

LEMMA PasswordChanges ==
  ASSUME SignInInvariant, NEW u \in People, Live(u), NEW pw \in Passwords, NewPassword(u, pw)
  PROVE  PersonsMoveOn /\ person'[u].version = person[u].version + 1 /\ person'[u].password = pw
  <1> DEFINE q == Repassworded(person[u], pw)
  <1>1. /\ q \in Persons /\ q.state = person[u].state /\ q.version = person[u].version + 1 /\ q.password = pw
    BY PersonFacts, RepasswordedFields
  <1>2. person' = [person EXCEPT ![u] = q]
    BY PersonFacts DEF NewPassword, Repassworded
  <1> HIDE DEF q
  <1>3. q.state # "none" /\ person[u].version <= q.version /\ person[u].version < q.version
    BY <1>1, PersonFacts
  <1>4. PersonsMoveOn
    BY <1>1, <1>2, <1>3, OnePersonMoves, Zenon
  <1>5. person'[u] = q
    BY <1>2, PersonFacts
  <1>6. QED
    BY <1>1, <1>4, <1>5

LEMMA PersonChanges ==
  ASSUME SignInInvariant, NEW u \in People, Live(u),
         \/ person' = [person EXCEPT ![u].version = @ + 1]
         \/ person' = [person EXCEPT ![u].active = FALSE]
         \/ person' = [person EXCEPT ![u].state = "gone"]
  PROVE  PersonsMoveOn
  <1>1. ASSUME NEW p \in Persons, NEW v \in Nat, NEW q, q = [p EXCEPT !.version = v]
        PROVE  q \in Persons /\ q.state = p.state /\ q.version = v /\ q.password = p.password
    BY <1>1 DEF Persons
  <1>2. ASSUME NEW q, q \in {[person[u] EXCEPT !.version = person[u].version + 1],
                             [person[u] EXCEPT !.active = FALSE], [person[u] EXCEPT !.state = "gone"]}
        PROVE  /\ q \in Persons /\ q.state # "none" /\ person[u].version <= q.version
               /\ q.password = person[u].password
    <2>1. CASE q = [person[u] EXCEPT !.version = person[u].version + 1]
      <3>1. PICK v \in Nat : v = person[u].version + 1 /\ person[u].version <= v
        BY PersonFacts
      <3>2. q = [person[u] EXCEPT !.version = v] /\ person[u] \in Persons
        BY <2>1, <3>1, PersonFacts
      <3>3. q \in Persons /\ q.state = person[u].state /\ q.version = v /\ q.password = person[u].password
        BY <1>1, <3>1, <3>2
      <3>4. QED
        BY <3>1, <3>3, PersonFacts, Zenon
    <2>2. CASE q = [person[u] EXCEPT !.active = FALSE]
      BY <2>2, PersonFacts DEF Persons
    <2>3. CASE q = [person[u] EXCEPT !.state = "gone"]
      BY <2>3, PersonFacts DEF Persons
    <2>4. QED
      BY <1>2, <2>1, <2>2, <2>3
  <1>3. PICK q \in {[person[u] EXCEPT !.version = person[u].version + 1],
                    [person[u] EXCEPT !.active = FALSE], [person[u] EXCEPT !.state = "gone"]} :
          person' = [person EXCEPT ![u] = q]
    BY PersonFacts
  <1>4. QED
    BY <1>2, <1>3, OnePersonMoves, Zenon

LEMMA PersonRegisters ==
  ASSUME SignInInvariant, NEW u \in People, person[u].state = "none",
         person' = [person EXCEPT ![u] = Member(NoPassword)]
  PROVE  /\ PersonsMoveOn /\ person'[u] = Member(NoPassword)
         /\ person'[u].version = 1
  <1>1. Member(NoPassword) \in Persons /\ Member(NoPassword).state = "live" /\ Member(NoPassword).version = 1
        /\ Member(NoPassword).password = NoPassword
    BY DEF Member, Persons
  <1>2. person[u].version = 0 /\ person[u].password = NoPassword
    BY DEF SignInInvariant, SignInTyped, NewPerson
  <1>3. PersonsMoveOn
    <2>1. person[u].version <= Member(NoPassword).version /\ Member(NoPassword).password = person[u].password
      BY <1>1, <1>2
    <2>2. Member(NoPassword).state # "none"
      BY <1>1
    <2>3. QED
      BY <1>1, <2>1, <2>2, OnePersonMoves, Zenon
  <1>4. QED
    BY <1>1, <1>3 DEF SignInInvariant, SignInTyped

LEMMA PasswordSet ==
  ASSUME SignInInvariant, NEW f \in Flows, SetPassword(f)
  PROVE  SignInInvariant'
  <1> DEFINE u == flow[f].user
  <1>1. Sound(flow[f]) /\ flow[f].pc = "set"
    BY KnownTickets DEF SetPassword, At
  <1>2. CASE Refuse(f) /\ UNCHANGED person
    BY <1>2, RefuseStep DEF SetPassword, OnlyFlow
  <1>3. ASSUME NEW r, r = [flow[f] EXCEPT !.pc = "complete", !.active = TRUE, !.version = person[u].version + 1],
               Live(u), NewPassword(u, flow[f].proof), Proceed(f, r)
        PROVE  SignInInvariant'
    <2>1. u \in People /\ flow[f].proof \in Passwords /\ flow[f].how = "change" /\ TicketKnown(flow[f].ticket)
      BY <1>1 DEF Sound, Entering
    <2>2. /\ PersonsMoveOn /\ person'[u].version = person[u].version + 1
          /\ person'[u].password = flow[f].proof
      BY <1>3, <2>1, PasswordChanges
    <2>3. /\ r.pc = "complete" /\ DOMAIN r = DOMAIN flow[f] /\ r.version = person[u].version + 1
          /\ \A x \in DOMAIN flow[f] \ {"pc", "active", "version"} : r[x] = flow[f][x]
          /\ {"user", "version", "active", "how", "proof", "ticket"} \subseteq DOMAIN flow[f]
      BY <1>1, <1>3 DEF Sound, Entering
    <2>4. UNCHANGED <<bound, rows, passkey, tickets, issued, handoffs, sessions>>
      BY DEF SetPassword
    <2>5. r.user = u /\ r.proof = flow[f].proof /\ r.ticket = flow[f].ticket
      BY <2>3
    <2>6. r.version \in Nat /\ r.version <= person'[u].version
      BY <2>1, <2>2, <2>3, PersonFacts
    <2>7. Sound(r)'
      BY <1>1, <2>1, <2>2, <2>3, <2>4, <2>5, <2>6
         DEF Sound, ProvesPassword, TicketKnown, Entering, Carrying, Removing, AllPcs
    <2>8. Spends(r) => Spends(flow[f]) /\ flow[f].ticket = r.ticket
      BY <1>1, <2>5 DEF Spends, Entering
    <2>9. QED
      BY <1>3, <2>2, <2>4, <2>7, <2>8, FlowStep DEF SignInInvariant, SignInTyped
  <1>4. QED
    BY <1>2, <1>3 DEF SetPassword

LEMMA CodeEnters ==
  ASSUME SignInInvariant, NEW f \in Flows, NEW u \in People, LoginWithEmailCode(f, u)
  PROVE  SignInInvariant'
  <1>1. UNCHANGED <<bound, rows, passkey, tickets, issued, handoffs, sessions>>
    BY DEF LoginWithEmailCode
  <1>2. ASSUME NEW r, r = Reading(u, "code", Nobody, NoTicket, "complete"), Proceed(f, r), UNCHANGED person
        PROVE  SignInInvariant'
    <2>1. Sound(r)
      BY <1>2, KnownTickets, ReadingSound DEF Entering
    <2>2. ~Spends(r)
      BY <1>2 DEF Spends, Reading
    <2>3. QED
      BY <1>1, <1>2, <2>1, <2>2, OwnStep DEF LoginWithEmailCode, OnlyFlow
  <1>3. ASSUME NEW r, r = [pc |-> "complete", user |-> u, version |-> 1, active |-> TRUE, how |-> "code",
                           proof |-> Nobody, ticket |-> NoTicket],
               Proceed(f, r), person[u].state = "none", person' = [person EXCEPT ![u] = Member(NoPassword)]
        PROVE  SignInInvariant'
    <2>1. PersonsMoveOn /\ person'[u].version = 1
      BY <1>3, PersonRegisters
    <2>2. Sound(r)'
      BY <1>1, <1>3, <2>1, KnownTickets
         DEF Sound, ProvesPassword, TicketKnown, NoTicket, Entering, Carrying, Removing, AllPcs
    <2>3. ~Spends(r)
      BY <1>3 DEF Spends
    <2>4. QED
      BY <1>1, <1>3, <2>1, <2>2, <2>3, FlowStep DEF SignInInvariant, SignInTyped
  <1>4. QED
    BY <1>1, <1>2, <1>3 DEF LoginWithEmailCode

LEMMA CallbackSpends ==
  ASSUME SignInInvariant, NEW f \in Flows, NEW t, FinishOAuth(f, t)
  PROVE  SignInInvariant'
  <1>1. UNCHANGED <<person, bound, rows, passkey, issued, handoffs, sessions>> /\ tickets' = tickets \ {t}
    BY DEF FinishOAuth
  <1>2. PersonsMoveOn
    BY <1>1, PersonsRest
  <1>3. CASE Refuse(f)
    BY <1>1, <1>2, <1>3, FlowStep, EndedSound DEF Refuse, SignInInvariant, SignInTyped
  <1>4. ASSUME NEW r, r = [pc |-> "exchange", ticket |-> t], t \in tickets, Proceed(f, r)
        PROVE  SignInInvariant'
    <2>1. Sound(r)'
      BY <1>1, <1>4, KnownTickets DEF Sound, TicketKnown, Entering, Carrying, Removing, AllPcs
    <2>2. Spends(r) => r.ticket \in tickets \ tickets'
      BY <1>1, <1>4
    <2>3. QED
      BY <1>1, <1>2, <1>4, <2>1, <2>2, FlowStep DEF SignInInvariant, SignInTyped
  <1>5. QED
    BY <1>3, <1>4 DEF FinishOAuth

LEMMA HandoffTaken ==
  ASSUME SignInInvariant, NEW f \in Flows, NEW t, ConsumeOAuthHandoff(f, t)
  PROVE  SignInInvariant'
  <1>1. UNCHANGED <<person, bound, rows, passkey, tickets, issued, sessions>> /\ handoffs' = handoffs \ {t}
    BY DEF ConsumeOAuthHandoff
  <1>2. PersonsMoveOn
    BY <1>1, PersonsRest
  <1>3. ASSUME NEW r, r = [pc |-> "state", ticket |-> t], Proceed(f, r)
        PROVE  SignInInvariant'
    <2>1. Sound(r)'
      BY <1>1, <1>3, KnownTickets DEF Sound, TicketKnown, Entering, Carrying, Removing, AllPcs, ConsumeOAuthHandoff
    <2>2. ~Spends(r)
      BY <1>3 DEF Spends, Entering, Carrying
    <2>3. QED
      BY <1>1, <1>2, <1>3, <2>1, <2>2, FlowStep DEF SignInInvariant, SignInTyped
  <1>4. QED
    BY <1>3 DEF ConsumeOAuthHandoff

LEMMA AssertionSpends ==
  ASSUME SignInInvariant, NEW f \in Flows, NEW t, NEW k \in Passkeys, VerifyAssertion(f, t, k)
  PROVE  SignInInvariant'
  <1>1. /\ UNCHANGED <<person, bound, rows, passkey, issued, handoffs, sessions>>
        /\ tickets' = tickets \ {t} /\ t \in tickets /\ t.kind = "assertion"
    BY DEF VerifyAssertion
  <1>2. PersonsMoveOn
    BY <1>1, PersonsRest
  <1>3. CASE Refuse(f)
    BY <1>1, <1>2, <1>3, FlowStep, EndedSound DEF Refuse, SignInInvariant, SignInTyped
  <1>4. ASSUME NEW r, r = [pc |-> "record", key |-> k, ticket |-> t], Proceed(f, r)
        PROVE  SignInInvariant'
    <2>1. Sound(r)'
      BY <1>1, <1>4, KnownTickets DEF Sound, TicketKnown, Entering, Carrying, Removing, AllPcs
    <2>2. Spends(r) => r.ticket \in tickets \ tickets'
      BY <1>1, <1>4
    <2>3. QED
      BY <1>1, <1>2, <1>4, <2>1, <2>2, FlowStep DEF SignInInvariant, SignInTyped
  <1>5. QED
    BY <1>3, <1>4 DEF VerifyAssertion

LEMMA KeyRegisters ==
  ASSUME SignInInvariant, NEW f \in Flows, NEW t, NEW k \in Passkeys, FinishPasskeyRegistration(f, t, k)
  PROVE  SignInInvariant'
  <1>1. /\ UNCHANGED <<person, bound, rows, issued, handoffs, sessions>>
        /\ tickets' = tickets \ {t} /\ t \in tickets /\ t.user \in People \cup {Nobody}
        /\ passkey' = [passkey EXCEPT ![k] = t.user] /\ Refuse(f)
    BY KnownTickets DEF FinishPasskeyRegistration, Tickets
  <1>2. PersonsMoveOn
    BY <1>1, PersonsRest
  <1>3. passkey' \in [Passkeys -> People \cup {Nobody, "deleted"}]
    BY <1>1 DEF SignInInvariant, SignInTyped
  <1>4. QED
    BY <1>1, <1>2, <1>3, FlowStep, EndedSound DEF Refuse, SignInInvariant, SignInTyped

(* A subject is bound to an account, or to one that registers with it. *)
LEMMA BoundRows ==
  ASSUME SignInInvariant, NEW x, NEW u \in People, BindTo(x, u)
  PROVE  bound' \in [ExternalAccounts -> Rows] /\ rows' \in Nat \ {0}
  <1>1. [owner |-> u, row |-> rows + 1] \in Rows /\ rows + 1 \in Nat \ {0}
    BY DEF SignInInvariant, SignInTyped, Rows
  <1>2. QED
    BY <1>1 DEF BindTo, SignInInvariant, SignInTyped

LEMMA SubjectBinds ==
  ASSUME SignInInvariant, NEW f \in Flows, BindOAuthIdentity(f)
  PROVE  SignInInvariant'
  <1>1. UNCHANGED <<person, passkey, tickets, issued, handoffs, sessions>>
    BY DEF BindOAuthIdentity
  <1>2. PersonsMoveOn
    BY <1>1, PersonsRest
  <1>3. Sound(flow[f]) /\ flow[f].pc = "bind"
    BY KnownTickets DEF BindOAuthIdentity, At
  <1>4. CASE Refuse(f) /\ UNCHANGED <<bound, rows>>
    BY <1>1, <1>2, <1>4, FlowStep, EndedSound DEF Refuse, SignInInvariant, SignInTyped
  <1>5. ASSUME NEW r, r = [flow[f] EXCEPT !.pc = "complete"], Proceed(f, r), BindTo(flow[f].proof, flow[f].user)
        PROVE  SignInInvariant'
    <2>1. /\ r.pc = "complete" /\ DOMAIN r = DOMAIN flow[f]
          /\ \A x \in DOMAIN flow[f] \ {"pc"} : r[x] = flow[f][x]
      BY <1>3, <1>5 DEF Sound
    <2>2. Sound(r)
      BY <1>3, <2>1 DEF Sound, ProvesPassword, Entering, Carrying, Removing, AllPcs
    <2>3. Sound(r)'
      BY <1>1, <1>2, <2>2, StillSound DEF SignInInvariant, SignInTyped
    <2>4. Spends(r) => Spends(flow[f]) /\ flow[f].ticket = r.ticket
      BY <1>3, <2>1 DEF Sound, Spends, Entering
    <2>5. bound' \in [ExternalAccounts -> Rows] /\ rows' \in Nat \ {0}
      BY <1>3, <1>5, BoundRows DEF Sound, Entering
    <2>6. QED
      BY <1>1, <1>2, <1>5, <2>3, <2>4, <2>5, FlowStep DEF SignInInvariant, SignInTyped
  <1>6. QED
    BY <1>4, <1>5 DEF BindOAuthIdentity, To

LEMMA SubjectRegisters ==
  ASSUME SignInInvariant, NEW f \in Flows, RegisterOAuthUser(f)
  PROVE  SignInInvariant'
  <1>1. UNCHANGED <<passkey, tickets, issued, handoffs, sessions>>
    BY DEF RegisterOAuthUser
  <1>2. Sound(flow[f]) /\ flow[f].pc = "email"
    BY KnownTickets DEF RegisterOAuthUser, At
  <1>3. CASE Refuse(f) /\ UNCHANGED <<person, bound, rows>>
    BY <1>1, <1>3, PersonsRest, FlowStep, EndedSound DEF Refuse, SignInInvariant, SignInTyped
  <1>4. ASSUME NEW u \in People, NEW r, person[u].state = "none",
               r = [pc |-> "complete", user |-> u, version |-> 1, active |-> TRUE,
                    how |-> "subject", proof |-> flow[f].subject, ticket |-> flow[f].ticket],
               person' = [person EXCEPT ![u] = Member(NoPassword)], BindTo(flow[f].subject, u), Proceed(f, r)
        PROVE  SignInInvariant'
    <2>1. PersonsMoveOn /\ person'[u].version = 1
      BY <1>4, PersonRegisters
    <2>2. TicketKnown(flow[f].ticket) /\ flow[f].ticket.kind # "bind"
      BY <1>2 DEF Sound, Carrying
    <2>3. Sound(r)'
      BY <1>1, <1>4, <2>1, <2>2
         DEF Sound, ProvesPassword, TicketKnown, Entering, Carrying, Removing, AllPcs
    <2>4. Spends(r) => Spends(flow[f]) /\ flow[f].ticket = r.ticket
      BY <1>2, <1>4 DEF Spends, Carrying
    <2>5. bound' \in [ExternalAccounts -> Rows] /\ rows' \in Nat \ {0}
      BY <1>4, BoundRows
    <2>6. QED
      BY <1>1, <1>4, <2>1, <2>3, <2>4, <2>5, FlowStep DEF SignInInvariant, SignInTyped
  <1>5. QED
    BY <1>3, <1>4 DEF RegisterOAuthUser

LEMMA MethodRemoved ==
  ASSUME SignInInvariant, NEW f \in Flows, RemoveMethod(f)
  PROVE  SignInInvariant'
  <1>1. UNCHANGED <<person, rows, tickets, issued, handoffs, sessions>> /\ Refuse(f)
    BY DEF RemoveMethod
  <1>2. passkey' \in [Passkeys -> People \cup {Nobody, "deleted"}] /\ bound' \in [ExternalAccounts -> Rows]
    BY DEF RemoveMethod, SignInInvariant, SignInTyped, Rows
  <1>3. QED
    BY <1>1, <1>2, PersonsRest, FlowStep, EndedSound DEF Refuse, SignInInvariant, SignInTyped

(* Other requests: accounts change, states and challenges are issued. *)
LEMMA AccountsChange ==
  ASSUME SignInInvariant, NEW u \in People,
         (\E pw \in Passwords : ResetPassword(u, pw)) \/ RevokeAllSessions(u) \/ Suspend(u) \/ RemovePerson(u)
  PROVE  SignInInvariant'
  <1>1. UNCHANGED <<rows, tickets, issued, handoffs, sessions, flow>>
    BY DEF ResetPassword, RevokeAllSessions, Suspend, RemovePerson
  <1>2. PersonsMoveOn
    BY PasswordChanges, PersonChanges DEF ResetPassword, RevokeAllSessions, Suspend, RemovePerson
  <1>3. passkey' \in [Passkeys -> People \cup {Nobody, "deleted"}] /\ bound' \in [ExternalAccounts -> Rows]
    BY DEF ResetPassword, RevokeAllSessions, Suspend, RemovePerson, SignInInvariant, SignInTyped, Rows
  <1>4. issued \in Nat /\ issued <= issued /\ \A t \in tickets \cup handoffs : t.n <= issued
    BY DEF SignInInvariant, SignInTyped
  <1>5. QED
    BY <1>1, <1>2, <1>3, <1>4, OtherStep DEF SignInInvariant, SignInTyped

LEMMA TicketIssued ==
  ASSUME SignInInvariant, NEW kind \in {"login", "bind", "registration", "assertion"},
         NEW u \in People \cup {Nobody}, kind = "bind" => u \in People, Issue(kind, u)
  PROVE  SignInInvariant'
  <1> DEFINE t == [n |-> issued + 1, kind |-> kind, user |-> u]
  <1>1. UNCHANGED <<person, bound, rows, passkey, handoffs, sessions, flow>>
    BY DEF Issue
  <1>2. issued' = issued + 1 /\ tickets' = tickets \cup {t}
    BY DEF Issue
  <1>3. issued \in Nat /\ \A q \in tickets \cup handoffs : q.n <= issued /\ q \in Tickets /\ q.n \in Nat
    BY DEF SignInInvariant, SignInTyped, Tickets
  <1>4. t \in Tickets /\ t.n = issued + 1
    BY <1>3 DEF Tickets
  <1> HIDE DEF t
  <1>5. /\ issued <= issued' /\ issued' \in Nat /\ tickets' \subseteq Tickets
        /\ \A q \in tickets' \cup handoffs' : q.n <= issued'
        /\ \A q \in tickets' : q \in tickets \/ issued < q.n
    BY <1>1, <1>2, <1>3, <1>4
  <1>6. QED
    BY <1>1, <1>5, PersonsRest, OtherStep DEF SignInInvariant, SignInTyped

LEMMA TicketsIssued ==
  ASSUME SignInInvariant,
         \/ BeginPasskeyLogin
         \/ \E u \in People : \/ BeginPasskeyRegistration(u)
                             \/ \E purpose \in {"login", "bind"} : BeginOAuth(purpose, u)
  PROVE  SignInInvariant'
  BY TicketIssued DEF BeginPasskeyLogin, BeginPasskeyRegistration, BeginOAuth

LEMMA TicketsHandled ==
  ASSUME SignInInvariant, NEW t \in tickets, CreateOAuthHandoff(t) \/ OAuthAccessDenied(t)
  PROVE  SignInInvariant'
  <1>1. UNCHANGED <<person, bound, rows, passkey, issued, sessions, flow>>
    BY DEF CreateOAuthHandoff, OAuthAccessDenied
  <1>2. tickets' \subseteq tickets /\ handoffs' \subseteq handoffs \cup tickets
    BY DEF CreateOAuthHandoff, OAuthAccessDenied
  <1>3. issued \in Nat /\ issued <= issued
    BY DEF SignInInvariant, SignInTyped
  <1>4. QED
    BY <1>1, <1>2, <1>3, PersonsRest, OtherStep DEF SignInInvariant, SignInTyped

LEMMA SignInStarts == SignInInit => SignInInvariant
  <1> SUFFICES ASSUME SignInInit PROVE SignInInvariant
    OBVIOUS
  <1> DEFINE first == {NewPerson} \cup {Member(pw) : pw \in Passwords \cup {NoPassword}}
  <1>1. first \subseteq Persons /\ \A p \in first : p.state = "none" => p = NewPerson
    <2>1. NewPerson \in Persons
      BY DEF NewPerson, Persons
    <2>2. ASSUME NEW pw \in Passwords \cup {NoPassword}
          PROVE  Member(pw) \in Persons /\ Member(pw).state # "none"
      BY DEF Member, Persons
    <2>3. QED
      BY <2>1, <2>2
  <1>2. person \in [People -> first]
    BY DEF SignInInit
  <1>3. person \in [People -> Persons] /\ \A u \in People : person[u].state = "none" => person[u] = NewPerson
    <2> HIDE DEF first
    <2> QED BY <1>1, <1>2
  <1>4. SignInTyped
    BY <1>3 DEF SignInInit, SignInTyped, Rows
  <1>5. RequestsSound
    BY DEF SignInInit, RequestsSound, Sound, Idle, AllPcs, Entering, Carrying, Removing
  <1>6. QED
    BY <1>4, <1>5 DEF SignInInit, SignInInvariant, SpentOnce, Spends, SessionsSound, Idle, Entering, Carrying

LEMMA SignInSteps == SignInInvariant /\ [SignInNext]_signInVars => SignInInvariant'
  <1> SUFFICES ASSUME SignInInvariant, [SignInNext]_signInVars
               PROVE  SignInInvariant'
    OBVIOUS
  <1>1. CASE UNCHANGED signInVars
    <2>1. issued \in Nat /\ issued <= issued
      BY DEF SignInInvariant, SignInTyped
    <2>2. QED
      BY <1>1, <2>1, PersonsRest, OtherStep DEF signInVars, SignInInvariant, SignInTyped
  <1>2. CASE SignInNext
    BY <1>2, LoginCompleted, HashVerified, PasswordSet, CodeExchanged, SubjectLooked, OwnerRead, LoginTouched,
       BinderRead, SubjectBinds, SubjectRegisters, KeyUsed, HolderRead, RemovalSteps, MethodRemoved,
       PasswordReads, CodeEnters, CallbackSpends, HandoffTaken, AssertionSpends, KeyRegisters,
       AccountsChange, TicketsIssued, TicketsHandled DEF SignInNext
  <1>3. QED
    BY <1>1, <1>2

(* A session an account still accepts was earned by its present password or by a *)
(* proof of its own, came alone of its state or challenge, and is the binder's    *)
(* (completeLogin, oauth.go, passkey.go), for any number of accounts and requests. *)
THEOREM SignInsEarned == SignInSpec => []SessionsEarned
  <1>1. SignInInvariant => SessionsEarned
    BY DEF SignInInvariant, SessionsSound, SpentOnce, SessionsEarned, ProvesPassword
  <1>2. QED
    BY <1>1, SignInStarts, SignInSteps, PTL DEF SignInSpec

-----------------------------------------------------------------------------
(* A removal holds its account's row from the count on, and what it counted stays. *)
RemovalsAlone ==
  /\ \A f, g \in Flows : flow[f].pc \in Removing /\ flow[g].pc \in Removing /\ flow[f].user = flow[g].user => f = g
  /\ \A f \in Flows : flow[f].pc = "remove" => LoginMethodCount(flow[f].user) >= 2

MethodsKept(u) ==
  /\ KeysOf(u) \subseteq KeysOf(u)' /\ SubjectsOf(u) \subseteq SubjectsOf(u)'
  /\ person[u].password # NoPassword => person'[u].password # NoPassword
NoNewRemoval == \A f \in Flows : flow'[f].pc \in Removing => flow'[f] = flow[f]

LEMMA CountsOfSets ==
  /\ \A u \in People : LoginMethodCount(u) \in Nat
  /\ \A u \in People : LoginMethodCount(u)' \in Nat
  <1>1. \A u : IsFiniteSet(KeysOf(u)) /\ IsFiniteSet(SubjectsOf(u)) /\ IsFiniteSet(KeysOf(u)') /\ IsFiniteSet(SubjectsOf(u)')
    <2>1. ASSUME NEW u PROVE /\ KeysOf(u) \subseteq Passkeys /\ KeysOf(u)' \subseteq Passkeys
                             /\ SubjectsOf(u) \subseteq ExternalAccounts /\ SubjectsOf(u)' \subseteq ExternalAccounts
      BY DEF KeysOf, SubjectsOf
    <2>2. QED
      BY <2>1, FS_Subset, SignInAssumption
  <1>2. \A u : /\ Cardinality(KeysOf(u)) \in Nat /\ Cardinality(SubjectsOf(u)) \in Nat
               /\ Cardinality(KeysOf(u)') \in Nat /\ Cardinality(SubjectsOf(u)') \in Nat
    BY <1>1, FS_CardinalityType
  <1>3. QED
    BY <1>2 DEF LoginMethodCount

LEMMA KeptCounts ==
  ASSUME NEW u \in People, MethodsKept(u)
  PROVE  LoginMethodCount(u) <= LoginMethodCount(u)'
  <1>1. IsFiniteSet(KeysOf(u)') /\ IsFiniteSet(SubjectsOf(u)')
    <2>1. KeysOf(u)' \subseteq Passkeys /\ SubjectsOf(u)' \subseteq ExternalAccounts
      BY DEF KeysOf, SubjectsOf
    <2>2. QED
      BY <2>1, FS_Subset, SignInAssumption
  <1>2. IsFiniteSet(KeysOf(u)) /\ IsFiniteSet(SubjectsOf(u))
    BY <1>1, FS_Subset DEF MethodsKept
  <1>3. /\ Cardinality(KeysOf(u)) <= Cardinality(KeysOf(u)')
        /\ Cardinality(SubjectsOf(u)) <= Cardinality(SubjectsOf(u)')
    BY <1>1, FS_Subset DEF MethodsKept
  <1>4. /\ Cardinality(KeysOf(u)) \in Nat /\ Cardinality(SubjectsOf(u)) \in Nat
        /\ Cardinality(KeysOf(u)') \in Nat /\ Cardinality(SubjectsOf(u)') \in Nat
    BY <1>1, <1>2, FS_CardinalityType
  <1> DEFINE pw == IF person[u].password = NoPassword THEN 0 ELSE 1
             pw2 == IF person'[u].password = NoPassword THEN 0 ELSE 1
  <1>5. pw <= pw2 /\ pw \in Nat /\ pw2 \in Nat
    BY DEF MethodsKept
  <1>6. LoginMethodCount(u) = Cardinality(KeysOf(u)) + Cardinality(SubjectsOf(u)) + pw
    BY DEF LoginMethodCount
  <1>7. LoginMethodCount(u)' = Cardinality(KeysOf(u)') + Cardinality(SubjectsOf(u)') + pw2
    BY DEF LoginMethodCount
  <1> HIDE DEF pw, pw2
  <1>8. QED
    BY <1>3, <1>4, <1>5, <1>6, <1>7

(* One method goes at a time: a passkey is no external account. *)
LEMMA OneLess ==
  ASSUME SignInInvariant, NEW u \in People, NEW m,
         KeysOf(u)' = KeysOf(u) \ {m}, SubjectsOf(u)' = SubjectsOf(u) \ {m}, UNCHANGED person
  PROVE  LoginMethodCount(u)' >= LoginMethodCount(u) - 1
  <1>1. IsFiniteSet(KeysOf(u)) /\ IsFiniteSet(SubjectsOf(u)) /\ (m \notin KeysOf(u) \/ m \notin SubjectsOf(u))
    <2>1. KeysOf(u) \subseteq Passkeys /\ SubjectsOf(u) \subseteq ExternalAccounts
      BY DEF KeysOf, SubjectsOf
    <2>2. QED
      BY <2>1, FS_Subset, SignInAssumption
  <1> DEFINE K == KeysOf(u)  X == SubjectsOf(u)  pw == IF person[u].password = NoPassword THEN 0 ELSE 1
  <1>2. /\ Cardinality(K \ {m}) = IF m \in K THEN Cardinality(K) - 1 ELSE Cardinality(K)
        /\ Cardinality(X \ {m}) = IF m \in X THEN Cardinality(X) - 1 ELSE Cardinality(X)
        /\ Cardinality(K) \in Nat /\ Cardinality(X) \in Nat /\ pw \in Nat
    BY <1>1, FS_RemoveElement, FS_CardinalityType
  <1>3. LoginMethodCount(u) = Cardinality(K) + Cardinality(X) + pw
    BY DEF LoginMethodCount
  <1>4. LoginMethodCount(u)' = Cardinality(K \ {m}) + Cardinality(X \ {m}) + pw
    BY DEF LoginMethodCount
  <1>5. m \notin K \/ m \notin X
    BY <1>1
  <1> HIDE DEF K, X, pw
  <1>6. QED
    BY <1>2, <1>3, <1>4, <1>5

(* Nothing but a removal and the end of an account takes a method from anybody. *)
LEMMA AllRest ==
  ASSUME UNCHANGED <<person, bound, passkey>>, NEW u
  PROVE  MethodsKept(u)
  BY DEF MethodsKept, KeysOf, SubjectsOf

LEMMA NothingRemoves ==
  ASSUME SignInInvariant, NEW f \in Flows, NEW r, Proceed(f, r), r.pc \notin Removing
  PROVE  NoNewRemoval
  BY DEF NoNewRemoval, Proceed, SignInInvariant, SignInTyped

LEMMA ToRemovesNothing ==
  ASSUME SignInInvariant, NEW f \in Flows, NEW pc, To(f, pc), pc \notin Removing
  PROVE  NoNewRemoval
  <1>1. [flow[f] EXCEPT !.pc = pc].pc = pc
    BY DEF SignInInvariant, RequestsSound, Sound
  <1>2. QED
    BY <1>1, NothingRemoves DEF To

LEMMA RefusingRemovesNothing ==
  ASSUME SignInInvariant, NEW f \in Flows, Refuse(f)
  PROVE  NoNewRemoval
  <1>1. Ended.pc \notin Removing
    BY DEF Ended, Removing
  <1>2. QED
    BY <1>1, NothingRemoves DEF Refuse

LEMMA ReadersRemoveNothing ==
  ASSUME SignInInvariant, NEW f \in Flows, NEW u, NEW pw, NEW new, NEW t, NEW k,
         \/ CompleteLogin(f) \/ VerifyHash(f)
         \/ ExchangeCode(f) \/ LookupSubject(f) \/ ReadOwner(f) \/ TouchLastLogin(f) \/ ReadBinder(f)
         \/ UpdateLoginState(f) \/ ReadHolder(f)
         \/ BeginPasswordLogin(f, u, pw) \/ BeginChangePassword(f, u, pw, new)
         \/ FinishOAuth(f, t) \/ ConsumeOAuthHandoff(f, t) \/ VerifyAssertion(f, t, k)
  PROVE  NoNewRemoval /\ \A v \in People : MethodsKept(v)
  <1>1. UNCHANGED <<person, bound, passkey>>
    BY DEF CompleteLogin, VerifyHash, ExchangeCode, LookupSubject, ReadOwner, TouchLastLogin, ReadBinder, UpdateLoginState,
       ReadHolder, BeginPasswordLogin, BeginChangePassword, FinishOAuth, ConsumeOAuthHandoff, VerifyAssertion, OnlyFlow
  <1>2. \/ Refuse(f) \/ \E pc \in {"complete", "binder", "email"} : To(f, pc)
        \/ \E r : Proceed(f, r) /\ r.pc \notin Removing
    <2>1. CASE CompleteLogin(f) \/ VerifyHash(f) \/ TouchLastLogin(f)
      BY <2>1 DEF CompleteLogin, VerifyHash, TouchLastLogin
    <2>2. CASE ExchangeCode(f) \/ FinishOAuth(f, t) \/ ConsumeOAuthHandoff(f, t) \/ VerifyAssertion(f, t, k)
               \/ UpdateLoginState(f)
      <3>1. CASE ExchangeCode(f)
        <4> DEFINE r(x) == [pc |-> "lookup", ticket |-> flow[f].ticket, subject |-> x]
        <4>1. Refuse(f) \/ \E x \in ExternalAccounts : Proceed(f, r(x))
          BY <3>1 DEF ExchangeCode
        <4>2. \A x : r(x).pc \notin Removing
          BY DEF Removing
        <4>3. QED
          BY <4>1, <4>2
      <3>2. CASE FinishOAuth(f, t)
        BY <3>2 DEF FinishOAuth, Removing
      <3>3. CASE ConsumeOAuthHandoff(f, t)
        BY <3>3 DEF ConsumeOAuthHandoff, Removing
      <3>4. CASE VerifyAssertion(f, t, k)
        BY <3>4 DEF VerifyAssertion, Removing
      <3>5. CASE UpdateLoginState(f)
        BY <3>5 DEF UpdateLoginState, Removing
      <3>6. QED
        BY <2>2, <3>1, <3>2, <3>3, <3>4, <3>5
    <2>3. CASE LookupSubject(f)
      <3> DEFINE b == bound[flow[f].subject]
                 r == [pc |-> "owner", ticket |-> flow[f].ticket, subject |-> flow[f].subject, row |-> b]
      <3>1. b.row = 0 \/ b.row # 0
        OBVIOUS
      <3>2. Refuse(f) \/ Proceed(f, r) \/ To(f, IF Binding(f) THEN "binder" ELSE "email")
        BY <2>3 DEF LookupSubject
      <3>3. r.pc \notin Removing
        BY DEF Removing
      <3>4. QED
        BY <3>2, <3>3
    <2>4. \A v, how, proof, ticket, pc : Reading(v, how, proof, ticket, pc).pc = pc
      BY DEF Reading
    <2>5. CASE ReadHolder(f) \/ BeginPasswordLogin(f, u, pw) \/ BeginChangePassword(f, u, pw, new) \/ ReadBinder(f)
      BY <2>4, <2>5 DEF ReadHolder, BeginPasswordLogin, BeginChangePassword, ReadBinder, Through, Removing
    <2>6. CASE ReadOwner(f)
      <3>1. [Through(f, flow[f].row.owner, "touch") EXCEPT !.row = flow[f].row].pc = "touch"
        BY DEF Through, Reading
      <3>2. QED
        BY <2>6, <3>1 DEF ReadOwner, Removing
    <2>7. QED
      BY <2>1, <2>2, <2>3, <2>5, <2>6
  <1>3. {"complete", "binder", "email"} \cap Removing = {}
    BY DEF Removing
  <1>4. QED
    BY <1>1, <1>2, <1>3, AllRest, NothingRemoves, ToRemovesNothing, RefusingRemovesNothing

LEMMA PasswordsKept ==
  ASSUME SignInInvariant, NEW u \in People, UNCHANGED <<bound, passkey>>,
         \/ \E pw \in Passwords : NewPassword(u, pw)
         \/ person' = [person EXCEPT ![u].version = @ + 1]
         \/ person' = [person EXCEPT ![u].active = FALSE]
  PROVE  \A v \in People : MethodsKept(v)
  <1>1. \A v \in People \ {u} : person'[v] = person[v]
    BY DEF NewPassword, SignInInvariant, SignInTyped
  <1>2. person'[u].password \in Passwords \cup {person[u].password}
    BY DEF NewPassword, SignInInvariant, SignInTyped, Persons
  <1>3. \A v \in People : person[v].password # NoPassword => person'[v].password # NoPassword
    BY <1>1, <1>2, SignInAssumption
  <1>4. QED
    BY <1>3 DEF MethodsKept, KeysOf, SubjectsOf

LEMMA NewcomersHadNone ==
  ASSUME SignInInvariant, NEW u \in People, person[u].state = "none", person' = [person EXCEPT ![u] = Member(NoPassword)],
         UNCHANGED passkey, \A v \in People : SubjectsOf(v) \subseteq SubjectsOf(v)'
  PROVE  \A v \in People : MethodsKept(v)
  <1>1. person[u].password = NoPassword /\ \A v \in People \ {u} : person'[v] = person[v]
    BY DEF SignInInvariant, SignInTyped, NewPerson
  <1>2. QED
    BY <1>1 DEF MethodsKept, KeysOf

LEMMA BindingKeeps ==
  ASSUME SignInInvariant, NEW x \in ExternalAccounts, NEW u \in People, bound[x] = Unbound, BindTo(x, u), NEW v \in People
  PROVE  SubjectsOf(v) \subseteq SubjectsOf(v)'
  <1>1. bound[x].owner # v
    BY SignInAssumption DEF Unbound
  <1>2. \A y \in ExternalAccounts \ {x} : bound'[y] = bound[y]
    BY DEF BindTo, SignInInvariant, SignInTyped
  <1>3. QED
    BY <1>1, <1>2 DEF SubjectsOf

LEMMA EntrantsRemoveNothing ==
  ASSUME SignInInvariant, NEW f \in Flows, NEW u,
         SetPassword(f) \/ (u \in People /\ LoginWithEmailCode(f, u)) \/ BindOAuthIdentity(f) \/ RegisterOAuthUser(f)
  PROVE  NoNewRemoval /\ \A v \in People : MethodsKept(v)
  <1>1. Sound(flow[f])
    BY DEF SignInInvariant, RequestsSound
  <1>2. CASE SetPassword(f)
    <2> DEFINE w == flow[f].user  r == [flow[f] EXCEPT !.pc = "complete", !.active = TRUE, !.version = person[w].version + 1]
    <2>1. w \in People /\ flow[f].proof \in Passwords /\ "pc" \in DOMAIN flow[f]
      BY <1>1, <1>2 DEF SetPassword, At, Sound, Entering
    <2>2. r.pc = "complete" /\ "complete" \notin Removing
      BY <2>1 DEF Removing
    <2>3. UNCHANGED <<bound, passkey>>
      BY <1>2 DEF SetPassword
    <2>4. \/ Refuse(f) /\ UNCHANGED person
          \/ Proceed(f, r) /\ NewPassword(w, flow[f].proof)
      BY <1>2 DEF SetPassword
    <2> HIDE DEF r, w
    <2>5. QED
      BY <2>1, <2>2, <2>3, <2>4, PasswordsKept, AllRest, NothingRemoves, RefusingRemovesNothing
  <1>3. CASE u \in People /\ LoginWithEmailCode(f, u)
    <2> DEFINE r == Reading(u, "code", Nobody, NoTicket, "complete")
               r2 == [pc |-> "complete", user |-> u, version |-> 1, active |-> TRUE, how |-> "code", proof |-> Nobody, ticket |-> NoTicket]
    <2>1. r.pc \notin Removing /\ r2.pc \notin Removing
      BY DEF Removing, Reading
    <2>2. UNCHANGED <<bound, passkey>>
      BY <1>3 DEF LoginWithEmailCode
    <2>3. \/ Proceed(f, r) /\ UNCHANGED person
          \/ Proceed(f, r2) /\ person[u].state = "none" /\ person' = [person EXCEPT ![u] = Member(NoPassword)]
      BY <1>3 DEF LoginWithEmailCode
    <2>4. \A v \in People : SubjectsOf(v) \subseteq SubjectsOf(v)'
      BY <2>2 DEF SubjectsOf
    <2>5. u \in People
      BY <1>3
    <2> HIDE DEF r, r2
    <2>6. QED
      BY <2>1, <2>2, <2>3, <2>4, <2>5, NewcomersHadNone, AllRest, NothingRemoves
  <1>4. CASE BindOAuthIdentity(f)
    <2>1. UNCHANGED <<person, passkey>>
      BY <1>4 DEF BindOAuthIdentity
    <2>2. flow[f].pc = "bind"
      BY <1>4 DEF BindOAuthIdentity, At
    <2>3. CASE Refuse(f) /\ UNCHANGED bound
      BY <2>1, <2>3, AllRest, RefusingRemovesNothing
    <2>4. CASE bound[flow[f].proof] = Unbound /\ BindTo(flow[f].proof, flow[f].user) /\ To(f, "complete")
      <3>1. flow[f].user \in People
        BY <1>1, <2>2 DEF Sound, Entering
      <3>2. \A v \in People : SubjectsOf(v) \subseteq SubjectsOf(v)'
        <4>1. CASE flow[f].proof \in ExternalAccounts
          BY <2>4, <3>1, <4>1, BindingKeeps
        <4>2. CASE flow[f].proof \notin ExternalAccounts
          BY <2>4, <4>2 DEF BindTo, SubjectsOf, SignInInvariant, SignInTyped
        <4>3. QED
          BY <4>1, <4>2
      <3>3. \A v \in People : MethodsKept(v)
        BY <2>1, <3>2 DEF MethodsKept, KeysOf
      <3>4. QED
        BY <2>4, <3>3, ToRemovesNothing DEF Removing
    <2>5. QED
      BY <1>4, <2>3, <2>4 DEF BindOAuthIdentity
  <1>5. CASE RegisterOAuthUser(f)
    <2>1. UNCHANGED passkey
      BY <1>5 DEF RegisterOAuthUser
    <2>2. flow[f].subject \in ExternalAccounts
      BY <1>1, <1>5 DEF RegisterOAuthUser, At, Sound
    <2>3. CASE Refuse(f) /\ UNCHANGED <<person, bound>>
      BY <2>1, <2>3, AllRest, RefusingRemovesNothing
    <2>4. ASSUME NEW w \in People, person[w].state = "none", bound[flow[f].subject] = Unbound,
                 person' = [person EXCEPT ![w] = Member(NoPassword)], BindTo(flow[f].subject, w),
                 Proceed(f, [pc |-> "complete", user |-> w, version |-> 1, active |-> TRUE,
                    how |-> "subject", proof |-> flow[f].subject, ticket |-> flow[f].ticket])
          PROVE  NoNewRemoval /\ \A v \in People : MethodsKept(v)
      <3>1. \A v \in People : SubjectsOf(v) \subseteq SubjectsOf(v)'
        BY <2>2, <2>4, BindingKeeps
      <3>2. \A v \in People : MethodsKept(v)
        BY <2>1, <2>4, <3>1, NewcomersHadNone
      <3>3. NoNewRemoval
        <4> DEFINE r == [pc |-> "complete", user |-> w, version |-> 1, active |-> TRUE,
                    how |-> "subject", proof |-> flow[f].subject, ticket |-> flow[f].ticket]
        <4>1. r.pc \notin Removing /\ Proceed(f, r)
          BY <2>4 DEF Removing
        <4> HIDE DEF r
        <4>2. QED
          BY <4>1, NothingRemoves
      <3>4. QED
        BY <3>2, <3>3
    <2>5. QED
      BY <1>5, <2>3, <2>4 DEF RegisterOAuthUser
  <1>6. QED
    BY <1>2, <1>3, <1>4, <1>5

LEMMA KeyIsAdded ==
  ASSUME SignInInvariant, NEW f \in Flows, NEW t \in tickets, NEW k \in Passkeys, FinishPasskeyRegistration(f, t, k)
  PROVE  NoNewRemoval /\ \A v \in People : MethodsKept(v)
  <1>1. NoNewRemoval
    BY RefusingRemovesNothing DEF FinishPasskeyRegistration
  <1>2. ASSUME NEW v \in People PROVE KeysOf(v) \subseteq KeysOf(v)'
    <2>1. passkey[k] # v
      BY SignInAssumption DEF FinishPasskeyRegistration
    <2>2. QED
      BY <2>1 DEF FinishPasskeyRegistration, KeysOf, SignInInvariant, SignInTyped
  <1>3. QED
    BY <1>1, <1>2 DEF FinishPasskeyRegistration, MethodsKept, SubjectsOf

LEMMA OthersRemoveNothing ==
  ASSUME SignInInvariant,
         \/ \E u \in People : \/ \E pw \in Passwords : ResetPassword(u, pw)
                             \/ RevokeAllSessions(u) \/ BeginPasskeyRegistration(u) \/ Suspend(u)
                             \/ \E purpose \in {"login", "bind"} : BeginOAuth(purpose, u)
         \/ BeginPasskeyLogin
         \/ \E t \in tickets : CreateOAuthHandoff(t) \/ OAuthAccessDenied(t)
         \/ UNCHANGED signInVars
  PROVE  NoNewRemoval /\ \A v \in People : MethodsKept(v)
  <1>1. UNCHANGED <<flow, bound, passkey>>
    BY DEF ResetPassword, RevokeAllSessions, Suspend, BeginPasskeyRegistration, BeginOAuth, BeginPasskeyLogin, Issue,
           CreateOAuthHandoff, OAuthAccessDenied, signInVars
  <1>2. NoNewRemoval
    BY <1>1 DEF NoNewRemoval
  <1>3. \/ UNCHANGED person
        \/ \E u \in People : \/ \E pw \in Passwords : NewPassword(u, pw)
                             \/ person' = [person EXCEPT ![u].version = @ + 1]
                             \/ person' = [person EXCEPT ![u].active = FALSE]
    BY DEF ResetPassword, RevokeAllSessions, Suspend, BeginPasskeyRegistration, BeginOAuth, BeginPasskeyLogin, Issue,
           CreateOAuthHandoff, OAuthAccessDenied, signInVars
  <1>4. QED
    BY <1>1, <1>2, <1>3, AllRest, PasswordsKept

(* One step keeps a method for every account that stays. *)
OneRemains(u) == Live(u) /\ Live(u)' /\ LoginMethodCount(u) > 0 => LoginMethodCount(u)' > 0

LEMMA NothingTaken ==
  ASSUME SignInInvariant, RemovalsAlone, NoNewRemoval, \A v \in People : MethodsKept(v)
  PROVE  RemovalsAlone' /\ \A u \in People : OneRemains(u)
  <1>1. \A u \in People : LoginMethodCount(u) <= LoginMethodCount(u)' /\ LoginMethodCount(u) \in Nat /\ LoginMethodCount(u)' \in Nat
    BY KeptCounts, CountsOfSets
  <1>2. \A u \in People : OneRemains(u)
    BY <1>1 DEF OneRemains
  <1>3. \A f \in Flows : flow[f].pc = "remove" => flow[f].user \in People
    BY DEF SignInInvariant, RequestsSound, Sound, Removing
  <1>4. ASSUME NEW f \in Flows, NEW q, q = flow[f], flow'[f].pc = "remove"
        PROVE  LoginMethodCount(q.user)' >= 2 /\ flow'[f] = q
    <2>1. flow'[f] = q
      BY <1>4 DEF NoNewRemoval, Removing
    <2>2. q.user \in People /\ LoginMethodCount(q.user) >= 2
      BY <1>3, <1>4, <2>1 DEF RemovalsAlone
    <2>3. QED
      BY <1>1, <2>1, <2>2
  <1>5. RemovalsAlone'
    <2>1. ASSUME NEW f \in Flows, flow'[f].pc = "remove"
          PROVE  (LoginMethodCount(flow[f].user) >= 2)'
      BY <1>4, <2>1
    <2>2. QED
      BY <2>1 DEF RemovalsAlone, NoNewRemoval
  <1>6. QED
    BY <1>2, <1>5

LEMMA RemovalLocks ==
  ASSUME SignInInvariant, RemovalsAlone, NEW f \in Flows, NEW u \in People, NEW m, LockAccount(f, u, m)
  PROVE  RemovalsAlone' /\ \A v \in People : OneRemains(v)
  <1> DEFINE r == [pc |-> "count", user |-> u, method |-> m]
  <1>1. flow' = [flow EXCEPT ![f] = r] /\ UNCHANGED <<person, bound, passkey>> /\ r.pc = "count" /\ r.user = u
    BY DEF LockAccount, Proceed, OnlyFlow
  <1>2. \A g \in Flows : flow[g].pc \in Removing => flow[g].user # u
    BY DEF LockAccount, MayLock, Locked, Removing
  <1>3. flow'[f] = r /\ \A g \in Flows \ {f} : flow'[g] = flow[g]
    BY <1>1 DEF SignInInvariant, SignInTyped
  <1> HIDE DEF r
  <1>4. \A v : LoginMethodCount(v)' = LoginMethodCount(v) /\ Live(v)' = Live(v)
    BY <1>1 DEF LoginMethodCount, KeysOf, SubjectsOf, Live
  <1>5. \A v \in People : OneRemains(v)
    BY <1>4 DEF OneRemains
  <1>6. \A g, h \in Flows : flow'[g].pc \in Removing /\ flow'[h].pc \in Removing /\ flow'[g].user = flow'[h].user => g = h
    BY <1>1, <1>2, <1>3 DEF RemovalsAlone
  <1>7. ASSUME NEW g \in Flows, NEW q, q = flow'[g], q.pc = "remove" PROVE LoginMethodCount(q.user)' >= 2
    BY <1>1, <1>3, <1>4, <1>7 DEF RemovalsAlone
  <1>8. \A g \in Flows : flow'[g].pc = "remove" => (LoginMethodCount(flow[g].user) >= 2)'
    BY <1>7
  <1>9. QED
    BY <1>5, <1>6, <1>8 DEF RemovalsAlone

LEMMA RemovalCounts ==
  ASSUME SignInInvariant, RemovalsAlone, NEW f \in Flows, CountMethods(f)
  PROVE  RemovalsAlone' /\ \A v \in People : OneRemains(v)
  <1>1. UNCHANGED <<person, bound, passkey>> /\ flow[f].pc = "count"
    BY DEF CountMethods, OnlyFlow, At
  <1>2. CASE Refuse(f)
    BY <1>1, <1>2, AllRest, RefusingRemovesNothing, NothingTaken
  <1>3. CASE ~(LoginMethodCount(flow[f].user) <= 1) /\ To(f, "remove")
    <2> DEFINE r == [flow[f] EXCEPT !.pc = "remove"]
    <2>1. Sound(flow[f])
      BY DEF SignInInvariant, RequestsSound
    <2>2. r.pc = "remove" /\ r.user = flow[f].user /\ flow[f].user \in People
      BY <1>1, <2>1 DEF Sound, Removing
    <2>3. flow'[f] = r /\ \A g \in Flows \ {f} : flow'[g] = flow[g]
      BY <1>3 DEF To, Proceed, SignInInvariant, SignInTyped
    <2> HIDE DEF r
    <2>4. \A v : LoginMethodCount(v)' = LoginMethodCount(v) /\ Live(v)' = Live(v)
      BY <1>1 DEF LoginMethodCount, KeysOf, SubjectsOf, Live
    <2>5. \A v \in People : OneRemains(v)
      BY <2>4 DEF OneRemains
    <2>6. "count" \in Removing /\ "remove" \in Removing
      BY DEF Removing
    <2>7. \A g, h \in Flows : flow'[g].pc \in Removing /\ flow'[h].pc \in Removing /\ flow'[g].user = flow'[h].user => g = h
      BY <1>1, <2>2, <2>3, <2>6 DEF RemovalsAlone
    <2>8. LoginMethodCount(flow[f].user) >= 2
      BY <1>3, <2>2, CountsOfSets
    <2>9. ASSUME NEW g \in Flows, NEW q, q = flow'[g], q.pc = "remove" PROVE LoginMethodCount(q.user)' >= 2
      BY <2>2, <2>3, <2>4, <2>8, <2>9 DEF RemovalsAlone
    <2>10. \A g \in Flows : flow'[g].pc = "remove" => (LoginMethodCount(flow[g].user) >= 2)'
      BY <2>9
    <2>11. QED
      BY <2>5, <2>7, <2>10 DEF RemovalsAlone
  <1>4. QED
    BY <1>2, <1>3 DEF CountMethods

(* One account's methods go while no other removal is about that account. *)
LEMMA OneAccountLoses ==
  ASSUME SignInInvariant, RemovalsAlone, NEW u \in People, NoNewRemoval,
         \A f \in Flows : flow'[f].pc = "remove" => flow'[f].user # u,
         \A v \in People \ {u} : MethodsKept(v), OneRemains(u)
  PROVE  RemovalsAlone' /\ \A v \in People : OneRemains(v)
  <1>1. \A v \in People \ {u} : LoginMethodCount(v) <= LoginMethodCount(v)' /\ LoginMethodCount(v) \in Nat /\ LoginMethodCount(v)' \in Nat
    BY KeptCounts, CountsOfSets
  <1>2. \A v \in People : OneRemains(v)
    BY <1>1 DEF OneRemains
  <1>3. \A f \in Flows : flow[f].pc = "remove" => flow[f].user \in People
    BY DEF SignInInvariant, RequestsSound, Sound, Removing
  <1>4. ASSUME NEW f \in Flows, NEW q, q = flow[f], flow'[f].pc = "remove"
        PROVE  LoginMethodCount(q.user)' >= 2 /\ flow'[f] = q
    <2>1. flow'[f] = q
      BY <1>4 DEF NoNewRemoval, Removing
    <2>2. q.user \in People \ {u} /\ LoginMethodCount(q.user) >= 2
      BY <1>3, <1>4, <2>1 DEF RemovalsAlone
    <2>3. QED
      BY <1>1, <2>1, <2>2
  <1>5. \A f \in Flows : flow'[f].pc = "remove" => (LoginMethodCount(flow[f].user) >= 2)'
    BY <1>4
  <1>6. QED
    BY <1>2, <1>5 DEF RemovalsAlone, NoNewRemoval

LEMMA RemovalRemoves ==
  ASSUME SignInInvariant, RemovalsAlone, NEW f \in Flows, NEW u, u = flow[f].user, RemoveMethod(f)
  PROVE  RemovalsAlone' /\ \A v \in People : OneRemains(v)
  <1>1. flow[f].pc = "remove" /\ Refuse(f) /\ UNCHANGED person
    BY DEF RemoveMethod, At
  <1>2. u \in People /\ LoginMethodCount(u) >= 2
    BY <1>1 DEF SignInInvariant, RequestsSound, Sound, Removing, RemovalsAlone
  <1>3. NoNewRemoval
    BY <1>1, RefusingRemovesNothing
  <1>4. flow'[f].pc = "ended"
    BY <1>1 DEF Refuse, Proceed, Ended, SignInInvariant, SignInTyped
  <1>5. \A g \in Flows : flow'[g].pc = "remove" => flow'[g].user # u
    BY <1>1, <1>3, <1>4 DEF NoNewRemoval, RemovalsAlone, Removing
  <1>6. ASSUME NEW v \in People \ {u} PROVE MethodsKept(v)
    BY <1>1 DEF MethodsKept, RemoveMethod, KeysOf, SubjectsOf
  <1>7. PICK m : m = flow[f].method
    OBVIOUS
  <1>8. KeysOf(u)' = KeysOf(u) \ {m} /\ SubjectsOf(u)' = SubjectsOf(u) \ {m}
    <2>1. u # "deleted" /\ Unbound.owner # u
      BY <1>2, SignInAssumption DEF Unbound
    <2>2. \A k \in Passkeys : passkey'[k] = IF k = m /\ passkey[k] = u THEN "deleted" ELSE passkey[k]
      BY <1>7 DEF RemoveMethod
    <2>3. \A x \in ExternalAccounts : bound'[x] = IF x = m /\ bound[x].owner = u THEN Unbound ELSE bound[x]
      BY <1>7 DEF RemoveMethod
    <2>4. QED
      BY <2>1, <2>2, <2>3 DEF KeysOf, SubjectsOf
  <1>9. OneRemains(u)
    <2>1. LoginMethodCount(u)' >= LoginMethodCount(u) - 1
      BY <1>1, <1>2, <1>8, OneLess
    <2>2. QED
      BY <1>2, <2>1, CountsOfSets DEF OneRemains
  <1>10. QED
    BY <1>2, <1>3, <1>5, <1>6, <1>9, OneAccountLoses

LEMMA PersonLeaves ==
  ASSUME SignInInvariant, RemovalsAlone, NEW u \in People, RemovePerson(u)
  PROVE  RemovalsAlone' /\ \A v \in People : OneRemains(v)
  <1>1. NoNewRemoval /\ UNCHANGED flow
    BY DEF RemovePerson, NoNewRemoval
  <1>2. \A f \in Flows : flow'[f].pc = "remove" => flow'[f].user # u
    BY <1>1 DEF RemovePerson, Locked
  <1>3. ASSUME NEW v \in People \ {u} PROVE MethodsKept(v)
    <2>1. person'[v] = person[v]
      BY DEF RemovePerson, SignInInvariant, SignInTyped
    <2>2. QED
      BY <2>1 DEF RemovePerson, MethodsKept, KeysOf, SubjectsOf
  <1>4. person'[u].state = "gone"
    BY DEF RemovePerson, SignInInvariant, SignInTyped, Persons
  <1>5. OneRemains(u)
    BY <1>4 DEF OneRemains, Live
  <1>6. QED
    BY <1>1, <1>2, <1>3, <1>5, OneAccountLoses

LEMMA RemovalsStep ==
  ASSUME SignInInvariant, RemovalsAlone, [SignInNext]_signInVars
  PROVE  RemovalsAlone' /\ \A v \in People : OneRemains(v)
  <1>1. CASE UNCHANGED signInVars
    BY <1>1, OthersRemoveNothing, NothingTaken
  <1> DEFINE G == RemovalsAlone' /\ \A v \in People : OneRemains(v)
  <1>2. NoNewRemoval /\ (\A v \in People : MethodsKept(v)) => G
    BY NothingTaken
  <1>3. ASSUME NEW f \in Flows, CompleteLogin(f) \/ VerifyHash(f) \/ ExchangeCode(f) \/ LookupSubject(f) \/ ReadOwner(f)
                               \/ TouchLastLogin(f) \/ ReadBinder(f) \/ UpdateLoginState(f) \/ ReadHolder(f)
        PROVE  G
    BY <1>2, <1>3, ReadersRemoveNothing
  <1>4. ASSUME NEW f \in Flows, NEW t, FinishOAuth(f, t) \/ ConsumeOAuthHandoff(f, t) \/ \E k \in Passkeys : VerifyAssertion(f, t, k)
        PROVE  G
    BY <1>2, <1>4, ReadersRemoveNothing
  <1>5. ASSUME NEW f \in Flows, NEW u \in People, NEW pw \in Passwords,
               BeginPasswordLogin(f, u, pw) \/ \E new \in Passwords : BeginChangePassword(f, u, pw, new)
        PROVE  G
    BY <1>2, <1>5, ReadersRemoveNothing
  <1>6. ASSUME NEW f \in Flows, \/ SetPassword(f) \/ BindOAuthIdentity(f) \/ RegisterOAuthUser(f)
                               \/ \E u \in People : LoginWithEmailCode(f, u)
        PROVE  G
    BY <1>2, <1>6, EntrantsRemoveNothing
  <1>7. ASSUME NEW f \in Flows, NEW t \in tickets, NEW k \in Passkeys, FinishPasskeyRegistration(f, t, k)
        PROVE  G
    BY <1>2, <1>7, KeyIsAdded
  <1>8. ASSUME NEW f \in Flows, \/ CountMethods(f) \/ RemoveMethod(f)
                               \/ \E u \in People, m \in Passkeys \cup ExternalAccounts : LockAccount(f, u, m)
        PROVE  G
    BY <1>8, RemovalLocks, RemovalCounts, RemovalRemoves
  <1>9. ASSUME \/ \E u \in People : \/ \E pw \in Passwords : ResetPassword(u, pw)
                                   \/ RevokeAllSessions(u) \/ BeginPasskeyRegistration(u) \/ Suspend(u)
                                   \/ \E purpose \in {"login", "bind"} : BeginOAuth(purpose, u)
               \/ BeginPasskeyLogin
               \/ \E t \in tickets : CreateOAuthHandoff(t) \/ OAuthAccessDenied(t)
        PROVE  G
    BY <1>2, <1>9, OthersRemoveNothing
  <1>10. ASSUME NEW u \in People, RemovePerson(u) PROVE G
    BY <1>10, PersonLeaves
  <1> SUFFICES G
    OBVIOUS
  <1> HIDE DEF G
  <1>11. CASE SignInNext
    <2>1. CASE \E f \in Flows : \E u \in People :
                 \/ \E pw \in Passwords : BeginPasswordLogin(f, u, pw) \/ \E new \in Passwords : BeginChangePassword(f, u, pw, new)
                 \/ LoginWithEmailCode(f, u)
                 \/ \E m \in Passkeys \cup ExternalAccounts : LockAccount(f, u, m)
      BY <2>1, <1>5, <1>6, <1>8
    <2>2. CASE \E f \in Flows : \E t \in tickets, k \in Passkeys : FinishPasskeyRegistration(f, t, k) \/ VerifyAssertion(f, t, k)
      BY <2>2, <1>4, <1>7
    <2>3. CASE \E f \in Flows : \/ \E t \in tickets \cup handoffs : FinishOAuth(f, t) \/ ConsumeOAuthHandoff(f, t)
                                \/ flow[f].pc = "state" /\ FinishOAuth(f, flow[f].ticket)
      BY <2>3, <1>4
    <2>4. QED
      BY <1>11, <2>1, <2>2, <2>3, <1>3, <1>6, <1>8, <1>9, <1>10 DEF SignInNext
  <1>12. QED
    BY <1>1, <1>11 DEF G

(* Removing a method never leaves an account that could be entered without any   *)
(* way in: the count and the deletion are made with the account's row held       *)
(* (credential.go).                                                              *)
THEOREM LastMethodStays == SignInSpec => MethodRemains
  <1>1. SignInInit => RemovalsAlone
    BY DEF SignInInit, RemovalsAlone, Idle, Removing
  <1>2. SignInInvariant /\ RemovalsAlone /\ [SignInNext]_signInVars
        => [\A u \in People : Live(u) /\ Live(u)' /\ LoginMethodCount(u) > 0 => LoginMethodCount(u)' > 0]_signInVars
    BY RemovalsStep DEF OneRemains
  <1>3. SignInInvariant /\ RemovalsAlone /\ [SignInNext]_signInVars => RemovalsAlone'
    BY RemovalsStep
  <1>4. QED
    BY <1>1, <1>2, <1>3, SignInStarts, SignInSteps, PTL DEF SignInSpec, MethodRemains

-----------------------------------------------------------------------------
(* ---- requests ---- *)
Asked(q) == click[q].session # NoSession /\ click[q].route.gate # "anybody"

(* A cached principal is the row, or what a change not yet answered replaced;  *)
(* a request under way knows all of that about its account.                    *)
PrincipalsAdmissible ==
  \A u \in Holders : principal[u] # NotCached => principal[u] \in Admissible(u)
KnowsOf(q) ==
    /\ click[q] = [pc |-> "sent", route |-> click[q].route, session |-> click[q].session, known |-> click[q].known]
    /\ click[q].session # NoSession => click[q].session.user \in Holders
    /\ click[q].route.gate \in {"anybody", "user", "admin"}
    /\ Asked(q) => Admissible(click[q].session.user) \subseteq click[q].known
RequestsKnow == \A q \in Clicks : Sent(q) => KnowsOf(q)
RequestInvariant ==
  /\ DOMAIN click = Clicks /\ DOMAIN principal = Holders /\ DOMAIN holder = Holders
  /\ PrincipalsAdmissible /\ RequestsKnow

LEMMA RequestsInit == FirstPartyInit => RequestInvariant
  BY DEF FirstPartyInit, RequestInvariant, PrincipalsAdmissible, RequestsKnow, Sent, NoClick

(* Steps that keep the rows and neither begin, commit nor answer a change.      *)
LEMMA RequestRests ==
  ASSUME RequestInvariant, NEW r \in Clicks, NEW rec, click[r].pc # "invalidate",
         rec.pc \notin {"invalidate", "sent"}, Become(r, rec), UNCHANGED holder,
         DOMAIN principal' = Holders,
         \A u \in Holders : principal'[u] \in {NotCached, principal[u]} \cup Admissible(u)
  PROVE  RequestInvariant'
  <1>1. /\ DOMAIN click' = Clicks /\ click'[r] = rec
        /\ \A q \in Clicks \ {r} : click'[q] = click[q]
    BY DEF RequestInvariant, Become
  <1>2. \A u : Unanswered(u)' = Unanswered(u)
    BY <1>1 DEF Unanswered
  <1>3. ASSUME NEW u PROVE Admissible(u)' = Admissible(u)
    <2>1. r \notin Unanswered(u) /\ Unanswered(u) \subseteq Clicks
      BY DEF Unanswered
    <2>2. \A q \in Unanswered(u) : click'[q] = click[q]
      BY <1>1, <2>1
    <2>3. QED
      BY <1>2, <2>2 DEF Admissible
  <1>4. PrincipalsAdmissible'
    BY <1>3 DEF RequestInvariant, PrincipalsAdmissible
  <1>5. RequestsKnow'
    BY <1>1, <1>3 DEF RequestInvariant, RequestsKnow, KnowsOf, Sent, Asked
  <1>6. QED
    BY <1>1, <1>4, <1>5 DEF RequestInvariant

LEMMA RequestSent ==
  ASSUME RequestInvariant, NEW r \in Clicks, NEW route \in AllRoutes, NEW session \in Sessions, Send(r, route, session)
  PROVE  RequestInvariant'
  <1> DEFINE rec == [pc |-> "sent", route |-> route, session |-> session,
                     known |-> IF session = NoSession \/ route.gate = "anybody" THEN {} ELSE Admissible(session.user)]
  <1>1. /\ DOMAIN click' = Clicks /\ click'[r] = rec /\ click[r].pc = "none"
        /\ \A q \in Clicks \ {r} : click'[q] = click[q]
        /\ UNCHANGED <<holder, principal>>
    BY DEF RequestInvariant, Become, Send, NoClick
  <1>2. \A u : Unanswered(u)' = Unanswered(u)
    BY <1>1 DEF Unanswered
  <1>3. ASSUME NEW u PROVE Admissible(u)' = Admissible(u)
    <2>1. r \notin Unanswered(u) /\ Unanswered(u) \subseteq Clicks
      BY <1>1 DEF Unanswered
    <2>2. \A q \in Unanswered(u) : click'[q] = click[q]
      BY <1>1, <2>1
    <2>3. QED
      BY <1>1, <1>2, <2>2 DEF Admissible
  <1>4. PrincipalsAdmissible'
    BY <1>1, <1>3 DEF RequestInvariant, PrincipalsAdmissible
  <1>5. RequestsKnow'
    <2>1. session # NoSession => session.user \in Holders
      BY DEF Sessions, Session
    <2>2. route.gate \in {"anybody", "user", "admin"}
      <3>1. \E g \in {"anybody", "user", "admin"} : \E e : route = [gate |-> g, effect |-> e]
        BY DEF AllRoutes, AuthRoutes, MeRoutes, CommentRoutes, AdminRoutes, AdminUserRoutes, AdminCommentRoutes, Route
      <3>2. QED
        BY <3>1
    <2>3. SUFFICES ASSUME NEW q \in Clicks, Sent(q)'
                   PROVE  KnowsOf(q)'
      BY DEF RequestsKnow
    <2>4. CASE q = r
      <3>1. /\ click'[q] = [pc |-> "sent", route |-> route, session |-> session, known |-> rec.known]
            /\ click'[q].session = session /\ click'[q].route = route /\ click'[q].known = rec.known
        BY <1>1, <2>4
      <3>2. Asked(q)' => rec.known = Admissible(session.user)
        BY <3>1 DEF Asked
      <3> HIDE DEF rec
      <3>3. QED
        BY <1>3, <2>1, <2>2, <3>1, <3>2 DEF KnowsOf
    <2>5. CASE q # r
      <3>1. click'[q] = click[q] /\ Sent(q) /\ (Asked(q)' <=> Asked(q))
        BY <1>1, <2>3, <2>5 DEF Sent, Asked
      <3>2. KnowsOf(q)
        BY <3>1 DEF RequestInvariant, RequestsKnow
      <3>3. QED
        BY <1>3, <3>1, <3>2 DEF KnowsOf
    <2>6. QED
      BY <2>4, <2>5
  <1>6. QED
    BY <1>1, <1>4, <1>5 DEF RequestInvariant

(* What admits a request is admissible about its account.                       *)
LEMMA RequestResolved ==
  ASSUME RequestInvariant, NEW r \in Clicks, ResolvePrincipal(r)
  PROVE  /\ RequestInvariant'
         /\ Admitted(r) => \E info \in click[r].known : Earns(click[r].session, click[r].route.gate, info)
         /\ \A q \in Clicks \ {r} : click'[q] = click[q]
  <1> DEFINE u == click[r].session.user
             info == Resolved(u)
             admission == [pc |-> "act", effect |-> click[r].route.effect,
                           self |-> IF click[r].route.gate = "anybody" THEN "nobody" ELSE u]
  <1>1. Sent(r) /\ u \in Holders /\ click[r].session # NoSession
    BY DEF ResolvePrincipal, RequestInvariant, RequestsKnow, KnowsOf
  <1>2. info \in Admissible(u)
    BY <1>1 DEF Resolved, Admissible, RequestInvariant, PrincipalsAdmissible
  <1>3. Become(r, NoClick) \/ Become(r, admission)
    BY DEF ResolvePrincipal, AsNobody, Admit, End
  <1>4. /\ UNCHANGED holder /\ DOMAIN principal' = Holders
        /\ \A w \in Holders : principal'[w] \in {NotCached, principal[w]} \cup Admissible(w)
    <2>1. principal' = IF info.status = "gone" THEN principal ELSE [principal EXCEPT ![u] = info]
      BY DEF ResolvePrincipal
    <2>2. DOMAIN principal = Holders /\ UNCHANGED holder
      BY DEF ResolvePrincipal, RequestInvariant
    <2> HIDE DEF info, u
    <2>3. QED
      BY <1>1, <1>2, <2>1, <2>2
  <1>5. RequestInvariant'
    <2>1. click[r].pc # "invalidate" /\ NoClick.pc = "none" /\ admission.pc = "act"
      BY <1>1 DEF Sent, NoClick
    <2> HIDE DEF admission
    <2>2. QED
      BY <1>3, <1>4, <2>1, RequestRests
  <1>6. ASSUME Admitted(r)
        PROVE  \E i \in click[r].known : Earns(click[r].session, click[r].route.gate, i)
    <2>1. click'[r] # NoClick /\ click[r].route.gate # "anybody"
      BY <1>6 DEF Admitted, NoClick
    <2>2. ~Become(r, NoClick)
      BY <2>1 DEF Become, RequestInvariant
    <2>3. SessionMatches(click[r].session, info) /\ \E b \in BOOLEAN : Permitted(click[r].route.gate, info, b)
      BY <2>1, <2>2 DEF ResolvePrincipal, AsNobody, End
    <2>4. info \in click[r].known
      BY <1>1, <1>2, <2>1 DEF RequestInvariant, RequestsKnow, KnowsOf, Asked
    <2>5. click[r].route.gate \in {"user", "admin", "anybody"} => Earns(click[r].session, click[r].route.gate, info)
      BY <2>1, <2>3 DEF SessionMatches, Permitted, RequireUser, RequireAdmin, Earns
    <2>6. click[r].route.gate \in {"user", "admin", "anybody"}
      BY <1>1 DEF RequestInvariant, RequestsKnow, KnowsOf
    <2>7. QED
      BY <2>4, <2>5, <2>6
  <1>7. \A q \in Clicks \ {r} : click'[q] = click[q]
    BY <1>3 DEF Become, RequestInvariant
  <1>8. QED
    BY <1>5, <1>6, <1>7

(* A commit adds one row to what is admissible, and the requests learn it.      *)
LEMMA RequestCommits ==
  ASSUME RequestInvariant, NEW r \in Clicks, NEW u, NEW info, click[r].pc = "act", CommitChange(r, u, info)
  PROVE  /\ RequestInvariant'
         /\ click'[r].pc = "invalidate" /\ \A q \in Clicks \ {r} : click'[q].pc = click[q].pc
  <1>1. /\ DOMAIN click' = Clicks /\ click'[r] = [pc |-> "invalidate", target |-> u, was |-> holder[u]]
        /\ \A q \in Clicks \ {r} : click'[q] = Learn(q, u, info)
        /\ holder' = [holder EXCEPT ![u] = info] /\ UNCHANGED principal
    BY DEF CommitChange
  <1>2. /\ click'[r].pc = "invalidate" /\ click'[r].target = u /\ click'[r].was = holder[u]
        /\ r \notin Unanswered(u) /\ ~Sent(r)
    BY <1>1 DEF Unanswered, Sent
  <1>3. ASSUME NEW q \in Clicks \ {r}, Sent(q), click[q].session.user = u
        PROVE  click'[q] = [pc |-> "sent", route |-> click[q].route, session |-> click[q].session,
                            known |-> click[q].known \cup {info}]
    <2>1. click'[q] = [click[q] EXCEPT !.known = @ \cup {info}]
      BY <1>1, <1>3 DEF Learn
    <2>2. click[q] = [pc |-> "sent", route |-> click[q].route, session |-> click[q].session, known |-> click[q].known]
      BY <1>3 DEF RequestInvariant, RequestsKnow, KnowsOf
    <2>3. QED
      BY <2>1, <2>2
  <1>4. ASSUME NEW q \in Clicks \ {r}, ~(Sent(q) /\ click[q].session.user = u)
        PROVE  click'[q] = click[q]
    BY <1>1, <1>4 DEF Learn
  <1>5. ASSUME NEW q \in Clicks \ {r} PROVE click'[q].pc = click[q].pc
    <2>1. CASE Sent(q) /\ click[q].session.user = u
      <3> DEFINE more == click[q].known \cup {info}
      <3>1. click'[q] = [pc |-> "sent", route |-> click[q].route, session |-> click[q].session, known |-> more]
        BY <1>3, <2>1
      <3> HIDE DEF more
      <3>2. QED
        BY <2>1, <3>1 DEF Sent
    <2>2. QED
      BY <1>4, <2>1
  <1>6. ASSUME NEW w PROVE Unanswered(w)' = Unanswered(w) \cup (IF w = u THEN {r} ELSE {})
    <2>1. \A q \in Clicks \ {r} : q \in Unanswered(w)' <=> q \in Unanswered(w)
      BY <1>3, <1>4, <1>5 DEF Unanswered, Sent
    <2>2. r \in Unanswered(w)' <=> w = u
      BY <1>2 DEF Unanswered
    <2>3. r \notin Unanswered(w)
      BY DEF Unanswered
    <2>4. QED
      BY <2>1, <2>2, <2>3 DEF Unanswered
  <1>7. \A w : \A q \in Unanswered(w) : click'[q] = click[q]
    BY <1>2, <1>4 DEF Unanswered, Sent
  <1>8. /\ \A w : w # u => Admissible(w)' = Admissible(w)
        /\ u \in Holders => /\ Admissible(u) \subseteq Admissible(u)'
                            /\ Admissible(u)' \subseteq Admissible(u) \cup {info}
    <2>1. ASSUME NEW w, w # u PROVE Admissible(w)' = Admissible(w)
      BY <1>1, <1>6, <1>7, <2>1 DEF Admissible
    <2>2. Admissible(u)' = {holder'[u]} \cup {holder[u]} \cup {click[q].was : q \in Unanswered(u)}
      BY <1>2, <1>6, <1>7 DEF Admissible
    <2>3. u \in Holders => holder'[u] = info
      BY <1>1 DEF RequestInvariant
    <2>4. QED
      BY <2>1, <2>2, <2>3 DEF Admissible
  <1>9. PrincipalsAdmissible'
    BY <1>1, <1>8 DEF RequestInvariant, PrincipalsAdmissible
  <1>10. RequestsKnow'
    <2>1. SUFFICES ASSUME NEW q \in Clicks, Sent(q)' PROVE KnowsOf(q)'
      BY DEF RequestsKnow
    <2>2. q # r /\ Sent(q)
      BY <1>2, <1>5, <2>1 DEF Sent
    <2>3. KnowsOf(q)
      BY <2>2 DEF RequestInvariant, RequestsKnow
    <2>4. CASE click[q].session.user = u
      <3>1. /\ click'[q] = [pc |-> "sent", route |-> click'[q].route, session |-> click'[q].session, known |-> click'[q].known]
            /\ click'[q].session = click[q].session /\ click'[q].route = click[q].route
            /\ click'[q].known = click[q].known \cup {info} /\ (Asked(q)' <=> Asked(q))
        <4> DEFINE more == click[q].known \cup {info}
        <4>1. click'[q] = [pc |-> "sent", route |-> click[q].route, session |-> click[q].session, known |-> more]
          BY <1>3, <2>2, <2>4
        <4> HIDE DEF more
        <4>2. /\ click'[q] = [pc |-> "sent", route |-> click'[q].route, session |-> click'[q].session, known |-> click'[q].known]
              /\ click'[q].session = click[q].session /\ click'[q].route = click[q].route /\ click'[q].known = more
          BY <4>1
        <4>3. QED
          BY <4>2 DEF Asked, more
      <3>2. Asked(q) => u \in Holders /\ Admissible(u) \subseteq click[q].known
        BY <2>3, <2>4 DEF KnowsOf, Asked
      <3>3. Asked(q) => Admissible(u)' \subseteq click'[q].known
        BY <1>8, <3>1, <3>2
      <3>4. click'[q].session.user = u
        BY <2>4, <3>1
      <3>5. Asked(q)' => Admissible(click[q].session.user)' \subseteq click'[q].known
        BY <3>1, <3>3, <3>4
      <3>6. QED
        BY <2>3, <3>1, <3>5 DEF KnowsOf
    <2>5. CASE click[q].session.user # u
      <3>1. click'[q] = click[q] /\ (Asked(q)' <=> Asked(q))
        BY <1>4, <2>2, <2>5 DEF Asked
      <3>2. QED
        BY <1>8, <2>3, <2>5, <3>1 DEF KnowsOf
    <2>6. QED
      BY <2>4, <2>5
  <1>11. QED
    <2>1. DOMAIN holder' = Holders /\ DOMAIN principal' = Holders
      BY <1>1 DEF RequestInvariant
    <2>2. QED
      BY <1>1, <1>2, <1>5, <1>9, <1>10, <2>1 DEF RequestInvariant

(* An answer takes back what its change had replaced, and the principal with it. *)
LEMMA RequestAnswered ==
  ASSUME RequestInvariant, NEW r \in Clicks, InvalidateAuthz(r)
  PROVE  RequestInvariant'
  <1> DEFINE u == click[r].target
  <1>1. /\ DOMAIN click' = Clicks /\ click'[r] = NoClick /\ \A q \in Clicks \ {r} : click'[q] = click[q]
        /\ click[r].pc = "invalidate" /\ UNCHANGED holder
        /\ principal' = [principal EXCEPT ![u] = NotCached]
    BY DEF RequestInvariant, InvalidateAuthz, Dropped, End, Become
  <1>2. click'[r].pc = "none"
    BY <1>1 DEF NoClick
  <1>3. \A w : Unanswered(w)' = Unanswered(w) \ {r}
    BY <1>1, <1>2 DEF Unanswered
  <1>4. \A w : Admissible(w)' \subseteq Admissible(w) /\ (w # u => Admissible(w) \subseteq Admissible(w)')
    <2>1. ASSUME NEW w PROVE Admissible(w)' = {holder[w]} \cup {click[q].was : q \in Unanswered(w) \ {r}}
      <3>1. \A q \in Unanswered(w) \ {r} : click'[q] = click[q]
        BY <1>1 DEF Unanswered
      <3>2. QED
        BY <1>1, <1>3, <3>1 DEF Admissible
    <2>2. ASSUME NEW w, w # u PROVE r \notin Unanswered(w)
      BY <2>2 DEF Unanswered
    <2>3. ASSUME NEW w PROVE Admissible(w) = {holder[w]} \cup {click[q].was : q \in Unanswered(w)}
      BY DEF Admissible
    <2>4. \A w : {click[q].was : q \in Unanswered(w) \ {r}} \subseteq {click[q].was : q \in Unanswered(w)}
      OBVIOUS
    <2>5. \A w : w # u => Unanswered(w) \ {r} = Unanswered(w)
      BY <2>2
    <2>6. QED
      BY <2>1, <2>3, <2>4, <2>5
  <1>5. PrincipalsAdmissible'
    BY <1>1, <1>4 DEF RequestInvariant, PrincipalsAdmissible
  <1>6. RequestsKnow'
    BY <1>1, <1>2, <1>4 DEF RequestInvariant, RequestsKnow, KnowsOf, Sent, Asked
  <1>7. DOMAIN principal' = Holders
    BY <1>1 DEF RequestInvariant
  <1>8. QED
    BY <1>1, <1>5, <1>6, <1>7 DEF RequestInvariant

LEMMA RequestForgotten ==
  ASSUME RequestInvariant, UNCHANGED <<holder, click>>, DOMAIN principal' = Holders,
         \A u \in Holders : principal'[u] \in {NotCached, principal[u]}
  PROVE  RequestInvariant'
  <1>1. \A u : Admissible(u)' = Admissible(u)
    BY DEF Admissible, Unanswered
  <1>2. PrincipalsAdmissible'
    BY <1>1 DEF RequestInvariant, PrincipalsAdmissible
  <1>3. RequestsKnow'
    BY <1>1 DEF RequestInvariant, RequestsKnow, KnowsOf, Sent, Asked
  <1>4. QED
    BY <1>2, <1>3 DEF RequestInvariant

(* The conclusion each action is proved to have.                                *)
Admissions ==
  \A r \in Clicks : Admitted(r) =>
    \E info \in click[r].known : Earns(click[r].session, click[r].route.gate, info)

LEMMA RequestStep ==
  ASSUME RequestInvariant, [FirstPartyNext]_firstPartyVars
  PROVE  RequestInvariant' /\ Admissions
  <1>1. ASSUME NEW r \in Clicks, NEW route \in AllRoutes, NEW session \in Sessions, Send(r, route, session)
        PROVE  RequestInvariant' /\ Admissions
    <2>1. \A q \in Clicks : click'[q] = click[q] \/ click'[q].pc = "sent"
      BY <1>1 DEF Send, Become, RequestInvariant
    <2>2. QED
      BY <1>1, <2>1, RequestSent DEF Admissions, Admitted
  <1>2. ASSUME NEW r \in Clicks, ResolvePrincipal(r)
        PROVE  RequestInvariant' /\ Admissions
    BY <1>2, RequestResolved DEF Admissions, Admitted
  <1>3. ASSUME NEW r \in Clicks, NoClaims(r) \/ Refused(r) \/ Serve(r)
        PROVE  RequestInvariant' /\ Admissions
    <2> DEFINE admission == [pc |-> "act", effect |-> click[r].route.effect,
                             self |-> IF click[r].route.gate = "anybody" THEN "nobody" ELSE click[r].session.user]
    <2>1. /\ UNCHANGED <<holder, principal>> /\ click[r].pc \in {"sent", "act"}
          /\ Become(r, NoClick) \/ (click[r].route.gate = "anybody" /\ Become(r, admission))
      BY <1>3 DEF NoClaims, Refused, Serve, AsNobody, Admit, End, Sent, Acting
    <2>2. NoClick.pc = "none" /\ admission.pc = "act"
      BY DEF NoClick
    <2> HIDE DEF admission
    <2>3. RequestInvariant'
      BY <2>1, <2>2, RequestRests DEF RequestInvariant
    <2>4. Admissions
      <3>1. \A q \in Clicks \ {r} : click'[q] = click[q]
        BY <2>1 DEF Become, RequestInvariant
      <3>2. ~Admitted(r)
        BY <2>1, <2>2 DEF Admitted, Become, RequestInvariant
      <3>3. QED
        BY <3>1, <3>2 DEF Admissions, Admitted
    <2>5. QED
      BY <2>3, <2>4
  <1>4. ASSUME NEW r \in Clicks, NEW u, NEW info, click[r].pc = "act", CommitChange(r, u, info)
        PROVE  RequestInvariant' /\ Admissions
    BY <1>4, RequestCommits DEF Admissions, Admitted
  <1>5. ASSUME NEW r \in Clicks, InvalidateAuthz(r)
        PROVE  RequestInvariant' /\ Admissions
    <2>1. \A q \in Clicks : click'[q] = click[q] \/ click'[q] = NoClick
      BY <1>5 DEF InvalidateAuthz, End, Become, RequestInvariant
    <2>2. QED
      BY <1>5, <2>1, RequestAnswered DEF Admissions, Admitted, NoClick
  <1>6. ASSUME NEW u \in Holders, PrincipalExpires(u)
        PROVE  RequestInvariant' /\ Admissions
    BY <1>6, RequestForgotten DEF PrincipalExpires, RequestInvariant, Admissions, Admitted
  <1>7. CASE UNCHANGED firstPartyVars
    BY <1>7, RequestForgotten DEF firstPartyVars, RequestInvariant, Admissions, Admitted
  <1>8. CASE \E r \in Clicks : \E u, info : click[r].pc = "act" /\ CommitChange(r, u, info)
    BY <1>4, <1>8
  <1>9. ASSUME NEW r \in Clicks, ChangePassword(r) \/ RevokeSessions(r)
        PROVE  \E u, info : click[r].pc = "act" /\ CommitChange(r, u, info)
    BY <1>9 DEF ChangePassword, RevokeSessions, Acting
  <1>10. ASSUME NEW r \in Clicks, NEW u \in Holders,
                \/ ResetWithCode(r, u) \/ AdminResetPassword(r, u)
                \/ \E status \in {"active", "disabled"} :
                     AdminRestore(r, u, status) \/ \E role \in {"user", "admin"} : AdminUpdate(r, u, role, status)
                \/ \E status \in {"deleted", "gone"} : AdminDelete(r, u, status)
         PROVE  \E w, info : click[r].pc = "act" /\ CommitChange(r, w, info)
    BY <1>10 DEF ResetWithCode, AdminResetPassword, AdminRestore, AdminUpdate, AdminDelete, Acting
  <1>11. QED
    BY <1>1, <1>2, <1>3, <1>5, <1>6, <1>7, <1>8, <1>9, <1>10 DEF FirstPartyNext

(* Once a password change, a revocation, a demotion or a removal is answered, no *)
(* request sent later acts by what it ended (middleware/auth.go and               *)
(* invalidateAuthz), for any number of accounts, requests and changes.            *)
THEOREM RequestsActAsEarned == FirstPartySpec => ActsAsEarned
  <1>1. FirstPartyInit => RequestInvariant
    BY RequestsInit
  <1>2. RequestInvariant /\ [FirstPartyNext]_firstPartyVars => RequestInvariant'
    BY RequestStep
  <1>3. RequestInvariant /\ [FirstPartyNext]_firstPartyVars =>
          [\A r \in Clicks : Admitted(r) =>
             \E info \in click[r].known : Earns(click[r].session, click[r].route.gate, info)]_firstPartyVars
    BY RequestStep DEF Admissions
  <1>4. QED
    BY <1>1, <1>2, <1>3, PTL DEF FirstPartySpec, ActsAsEarned
=============================================================================
