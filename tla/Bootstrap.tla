------------------------------ MODULE Bootstrap ------------------------------
(* The first administrator (service/bootstrap): every process that starts on an *)
(* uninitialised database draws a setup token of its own, and whoever presents   *)
(* one creates the administrator and the singleton row in one transaction.       *)
(* Several processes share the database.                                         *)
EXTENDS Naturals, FiniteSets

CONSTANTS
  Processes,     \* processes serving one database
  SetupCalls,    \* requests to create the first administrator
  SetupEmails,   \* normalised addresses
  MaxTokens,     \* bound: setup tokens drawn
  SetupTTL,      \* time until a token expires
  SetupMaxTime   \* bound of the clock

ASSUME BootstrapAssumption ==
  MaxTokens \in Nat /\ SetupTTL \in Nat /\ SetupMaxTime \in Nat /\ "register" \notin SetupCalls

VARIABLES
  setupNow,   \* the clock
  server,     \* process -> [up, token, expires, used]; token 0 is none
  drawn,      \* number of tokens drawn so far
  people,     \* user rows, [email, by]: by is the call that wrote the row, or "register"
  singleton,  \* rows of bootstrap_state: the calls that wrote them
  setup,      \* call -> [pc, at, email, answer]
  tries       \* history: token -> calls it let through
bootstrapVars == <<setupNow, server, drawn, people, singleton, setup, tries>>

Down == [up |-> FALSE, token |-> 0, expires |-> 0, used |-> FALSE]
Fresh == [pc |-> "new", at |-> 0, email |-> 0, answer |-> "none"]

BootstrapInit ==
  /\ setupNow = 0 /\ drawn = 0 /\ people = {} /\ singleton = {}
  /\ server = [p \in Processes |-> Down]
  /\ setup = [c \in SetupCalls |-> Fresh]
  /\ tries = [t \in 1..MaxTokens |-> 0]

(* A process starts: with the state row absent it draws a token; present, or     *)
(* unreadable, it serves without one.                                            *)
StartServer(p) ==
  /\ ~server[p].up
  /\ \/ /\ singleton = {} /\ drawn < MaxTokens
        /\ drawn' = drawn + 1
        /\ server' = [server EXCEPT ![p] =
             [up |-> TRUE, token |-> drawn + 1, expires |-> setupNow + SetupTTL, used |-> FALSE]]
     \/ server' = [server EXCEPT ![p] = [Down EXCEPT !.up = TRUE]] /\ UNCHANGED drawn
  /\ UNCHANGED <<setupNow, people, singleton, setup, tries>>

Working(c) == setup[c].pc \notin {"new", "done"}

(* A process dies: its token is gone and its open transactions are rolled back.  *)
StopServer(p) ==
  /\ server[p].up
  /\ server' = [server EXCEPT ![p] = Down]
  /\ setup' = [c \in SetupCalls |->
       IF Working(c) /\ setup[c].at = p THEN [setup[c] EXCEPT !.pc = "done", !.answer = "lost"] ELSE setup[c]]
  /\ UNCHANGED <<setupNow, drawn, people, singleton, tries>>

(* setupToken.verify: the token of this process, unused and not past its expiry; *)
(* it is spent here, before the transaction that may still fail.                 *)
Spendable(p, t) ==
  server[p].token # 0 /\ ~server[p].used /\ setupNow <= server[p].expires /\ t = server[p].token
Spend(p) == [server EXCEPT ![p].used = TRUE]

(* CreateAdmin up to the transaction. Input that does not validate is refused    *)
(* before the token is looked at; t is the token presented, of any process, and  *)
(* 0 stands for everything that is none.                                         *)
Answer(c, what) == setup' = [setup EXCEPT ![c].pc = "done", ![c].answer = what]
BeginCreateAdmin(c, p, t, e) ==
  /\ setup[c].pc = "new" /\ server[p].up
  /\ IF Spendable(p, t)
     THEN /\ server' = Spend(p)
          /\ tries' = [tries EXCEPT ![t] = @ + 1]
          /\ setup' = [setup EXCEPT ![c] = [pc |-> "initialized?", at |-> p, email |-> e, answer |-> "none"]]
     ELSE Answer(c, "token invalid") /\ UNCHANGED <<server, tries>>
  /\ UNCHANGED <<setupNow, drawn, people, singleton>>
RefuseInput(c) ==
  /\ setup[c].pc = "new" /\ Answer(c, "validation")
  /\ UNCHANGED <<setupNow, server, drawn, people, singleton, tries>>

Step(c, from, to) == setup[c].pc = from /\ setup' = [setup EXCEPT ![c].pc = to]

(* The transaction, a statement a step; what it inserted is visible to others     *)
(* when it commits, and a unique key makes the second writer wait for the first. *)
ReadInitialized(c) ==
  /\ setup[c].pc = "initialized?"
  /\ IF singleton = {} THEN Step(c, "initialized?", "email?") ELSE Answer(c, "already initialized")
  /\ UNCHANGED <<setupNow, server, drawn, people, singleton, tries>>

EmailTaken(e) == \E u \in people : u.email = e
ReadEmail(c) ==
  /\ setup[c].pc = "email?"
  /\ IF EmailTaken(setup[c].email) THEN Answer(c, "email exists") ELSE Step(c, "email?", "user")
  /\ UNCHANGED <<setupNow, server, drawn, people, singleton, tries>>

InsertingEmail(e, calls) == \E d \in calls : setup[d].pc \in {"row", "commit"} /\ setup[d].email = e
InsertAdmin(c) ==
  /\ setup[c].pc = "user" /\ ~InsertingEmail(setup[c].email, SetupCalls \ {c})
  /\ IF EmailTaken(setup[c].email) THEN Answer(c, "already initialized") ELSE Step(c, "user", "row")
  /\ UNCHANGED <<setupNow, server, drawn, people, singleton, tries>>

RowTakenOnce(c) == c \in singleton
RowTaken(c) == singleton # {}
InsertRow(c) ==
  /\ setup[c].pc = "row"
  /\ \A d \in SetupCalls : setup[d].pc # "commit"
  /\ IF RowTaken(c) THEN Answer(c, "already initialized") ELSE Step(c, "row", "commit")
  /\ UNCHANGED <<setupNow, server, drawn, people, singleton, tries>>

CommitAdmin(c) ==
  /\ setup[c].pc = "commit"
  /\ people' = people \cup {[email |-> setup[c].email, by |-> c]}
  /\ singleton' = singleton \cup {c}
  /\ Answer(c, "created")
  /\ UNCHANGED <<setupNow, server, drawn, tries>>

(* Any statement may fail or the caller go away: the transaction is rolled back. *)
AbortCreate(c) ==
  /\ Working(c) /\ Answer(c, "error")
  /\ UNCHANGED <<setupNow, server, drawn, people, singleton, tries>>

(* Somebody registers meanwhile: the insertion waits for one of the same address. *)
RegisterSomebody(e) ==
  /\ ~EmailTaken(e) /\ ~InsertingEmail(e, SetupCalls)
  /\ people' = people \cup {[email |-> e, by |-> "register"]}
  /\ UNCHANGED <<setupNow, server, drawn, singleton, setup, tries>>

SetupTimePasses ==
  /\ setupNow < SetupMaxTime /\ setupNow' = setupNow + 1
  /\ UNCHANGED <<server, drawn, people, singleton, setup, tries>>

BootstrapNext ==
  \/ \E p \in Processes : StartServer(p) \/ StopServer(p)
  \/ \E c \in SetupCalls :
       \/ \E p \in Processes, t \in 0..MaxTokens, e \in SetupEmails : BeginCreateAdmin(c, p, t, e)
       \/ RefuseInput(c) \/ ReadInitialized(c) \/ ReadEmail(c) \/ InsertAdmin(c) \/ InsertRow(c)
       \/ CommitAdmin(c) \/ AbortCreate(c)
  \/ \E e \in SetupEmails : RegisterSomebody(e)
  \/ SetupTimePasses

BootstrapSpec == BootstrapInit /\ [][BootstrapNext]_bootstrapVars

(* There is one first administrator at most, and never the state row without the *)
(* account or the account without the row, however many processes hold a token   *)
(* and whatever fails (service.go: the row's fixed key decides); a token lets    *)
(* one request through, also when that request comes to nothing.                 *)
FirstAdminOnce ==
  /\ Cardinality(singleton) <= 1
  /\ {u.by : u \in people} \ {"register"} = singleton
  /\ \A t \in 1..MaxTokens : tries[t] <= 1
=============================================================================
