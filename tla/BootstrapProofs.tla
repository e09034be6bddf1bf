--------------------------- MODULE BootstrapProofs ---------------------------
(* One first administrator, for any number of processes, requests and tokens.  *)
EXTENDS Bootstrap, FiniteSetTheorems, TLAPS

BootstrapTypeOK ==
  /\ drawn \in 0..MaxTokens
  /\ server \in [Processes -> [up : BOOLEAN, token : 0..drawn, expires : Nat, used : BOOLEAN]]
  /\ DOMAIN setup = SetupCalls /\ \A c \in SetupCalls : "pc" \in DOMAIN setup[c]
  /\ tries \in [1..MaxTokens -> Nat]
  /\ setupNow \in Nat

(* A token that can still be spent let nobody through, and belongs to one       *)
(* process; tokens to come let nobody through either.                           *)
TokensSpentOnce ==
  /\ \A t \in 1..MaxTokens : tries[t] <= 1 /\ (t > drawn => tries[t] = 0)
  /\ \A p \in Processes : server[p].token # 0 /\ ~server[p].used => tries[server[p].token] = 0
  /\ \A p, q \in Processes : server[p].token # 0 /\ server[p].token = server[q].token => p = q

(* Who stands before the commit holds the only row there can be.                *)
Committing(c) == setup[c].pc = "commit"
OneRow ==
  /\ \A c, d \in SetupCalls : Committing(c) /\ Committing(d) => c = d
  /\ \A c \in SetupCalls : Committing(c) => singleton = {}
  /\ singleton \subseteq SetupCalls
  /\ \A c, d \in singleton : c = d
  /\ {u.by : u \in people} \ {"register"} = singleton

SetupInvariant == BootstrapTypeOK /\ TokensSpentOnce /\ OneRow

LEMMA SetupInit == BootstrapInit => SetupInvariant
  <1> SUFFICES ASSUME BootstrapInit PROVE SetupInvariant
    OBVIOUS
  <1>1. BootstrapTypeOK
    BY BootstrapAssumption DEF BootstrapInit, BootstrapTypeOK, Down, Fresh
  <1>2. TokensSpentOnce
    BY BootstrapAssumption DEF BootstrapInit, TokensSpentOnce, Down
  <1>3. OneRow
    BY DEF BootstrapInit, OneRow, Committing, Fresh
  <1>4. QED
    BY <1>1, <1>2, <1>3 DEF SetupInvariant

LEMMA AuthorsGrow ==
  ASSUME NEW old, NEW e, NEW by
  PROVE  {u.by : u \in old \cup {[email |-> e, by |-> by]}} = {u.by : u \in old} \cup {by}
  <1> DEFINE row == [email |-> e, by |-> by]
  <1>1. row.by = by
    OBVIOUS
  <1> HIDE DEF row
  <1>2. {u.by : u \in old \cup {row}} = {u.by : u \in old} \cup {row.by}
    OBVIOUS
  <1>3. QED
    BY <1>1, <1>2 DEF row

(* A step that touches neither rows nor tokens and makes nobody commit.         *)
LEMMA SetupRests ==
  ASSUME SetupInvariant, UNCHANGED <<server, drawn, singleton, tries>>, setupNow' \in Nat,
         {u.by : u \in people'} \ {"register"} = {u.by : u \in people} \ {"register"},
         DOMAIN setup' = SetupCalls,
         \A c \in SetupCalls : "pc" \in DOMAIN setup'[c] /\ (setup'[c].pc = "commit" => setup[c].pc = "commit")
  PROVE  SetupInvariant'
  <1>1. BootstrapTypeOK'
    BY DEF SetupInvariant, BootstrapTypeOK
  <1>2. TokensSpentOnce'
    BY DEF SetupInvariant, TokensSpentOnce
  <1>3. OneRow'
    BY DEF SetupInvariant, OneRow, Committing
  <1>4. QED
    BY <1>1, <1>2, <1>3 DEF SetupInvariant

LEMMA SetupAnswered ==
  ASSUME SetupInvariant, NEW c \in SetupCalls, NEW what, Answer(c, what)
  PROVE  /\ DOMAIN setup' = SetupCalls
         /\ \A d \in SetupCalls : "pc" \in DOMAIN setup'[d] /\ (setup'[d].pc = "commit" => setup[d].pc = "commit")
         /\ setup'[c].pc = "done"
         /\ \A d \in SetupCalls \ {c} : setup'[d] = setup[d]
  BY DEF SetupInvariant, BootstrapTypeOK, Answer

LEMMA SetupStepped ==
  ASSUME SetupInvariant, NEW c \in SetupCalls, NEW from, NEW to, Step(c, from, to)
  PROVE  /\ DOMAIN setup' = SetupCalls
         /\ \A d \in SetupCalls : "pc" \in DOMAIN setup'[d]
         /\ setup'[c].pc = to
         /\ \A d \in SetupCalls \ {c} : setup'[d] = setup[d]
  BY DEF SetupInvariant, BootstrapTypeOK, Step

LEMMA SetupStart ==
  ASSUME SetupInvariant, NEW p \in Processes, StartServer(p)
  PROVE  SetupInvariant'
  <1>1. CASE /\ singleton = {} /\ drawn < MaxTokens
             /\ drawn' = drawn + 1
             /\ server' = [server EXCEPT ![p] =
                  [up |-> TRUE, token |-> drawn + 1, expires |-> setupNow + SetupTTL, used |-> FALSE]]
    <2>1. /\ drawn' \in 0..MaxTokens /\ drawn + 1 \in 1..MaxTokens
          /\ 0..drawn \subseteq 0..drawn'
      BY <1>1, BootstrapAssumption DEF SetupInvariant, BootstrapTypeOK
    <2>2. BootstrapTypeOK'
      BY <1>1, <2>1, BootstrapAssumption DEF SetupInvariant, BootstrapTypeOK, StartServer
    <2>3. /\ \A q \in Processes \ {p} : server'[q] = server[q] /\ server[q].token \in 0..drawn
          /\ server'[p].token = drawn + 1
      BY <1>1 DEF SetupInvariant, BootstrapTypeOK
    <2>4. TokensSpentOnce'
      BY <1>1, <2>1, <2>3, BootstrapAssumption DEF SetupInvariant, TokensSpentOnce, BootstrapTypeOK, StartServer
    <2>5. OneRow'
      BY DEF SetupInvariant, OneRow, Committing, StartServer
    <2>6. QED
      BY <2>2, <2>4, <2>5 DEF SetupInvariant
  <1>2. CASE server' = [server EXCEPT ![p] = [Down EXCEPT !.up = TRUE]] /\ UNCHANGED drawn
    <2>1. /\ server'[p] = [up |-> TRUE, token |-> 0, expires |-> 0, used |-> FALSE]
          /\ \A q \in Processes \ {p} : server'[q] = server[q]
      BY <1>2 DEF SetupInvariant, BootstrapTypeOK, Down
    <2>2. BootstrapTypeOK'
      <3>1. server'[p] \in [up : BOOLEAN, token : 0..drawn, expires : Nat, used : BOOLEAN]
        BY <2>1 DEF SetupInvariant, BootstrapTypeOK
      <3>2. server' \in [Processes -> [up : BOOLEAN, token : 0..drawn, expires : Nat, used : BOOLEAN]]
        BY <1>2, <2>1, <3>1 DEF SetupInvariant, BootstrapTypeOK
      <3>3. QED
        BY <1>2, <3>2 DEF SetupInvariant, BootstrapTypeOK, StartServer
    <2>3. TokensSpentOnce'
      BY <1>2, <2>1 DEF SetupInvariant, TokensSpentOnce, StartServer
    <2>4. OneRow'
      BY DEF SetupInvariant, OneRow, Committing, StartServer
    <2>5. QED
      BY <2>2, <2>3, <2>4 DEF SetupInvariant
  <1>3. QED
    BY <1>1, <1>2 DEF StartServer

LEMMA SetupStop ==
  ASSUME SetupInvariant, NEW p \in Processes, StopServer(p)
  PROVE  SetupInvariant'
  <1>1. /\ server'[p] = [up |-> FALSE, token |-> 0, expires |-> 0, used |-> FALSE]
        /\ \A q \in Processes \ {p} : server'[q] = server[q]
        /\ DOMAIN server' = Processes /\ server' = [q \in Processes |-> server'[q]]
        /\ UNCHANGED <<setupNow, drawn, people, singleton, tries>>
    BY DEF SetupInvariant, BootstrapTypeOK, StopServer, Down
  <1>2. /\ DOMAIN setup' = SetupCalls
        /\ \A c \in SetupCalls : "pc" \in DOMAIN setup'[c] /\ (setup'[c].pc = "commit" => setup[c].pc = "commit")
    BY DEF SetupInvariant, BootstrapTypeOK, StopServer
  <1>3. BootstrapTypeOK'
    <2>1. server'[p] \in [up : BOOLEAN, token : 0..drawn, expires : Nat, used : BOOLEAN]
      BY <1>1 DEF SetupInvariant, BootstrapTypeOK
    <2>2. server' \in [Processes -> [up : BOOLEAN, token : 0..drawn, expires : Nat, used : BOOLEAN]]
      BY <1>1, <2>1 DEF SetupInvariant, BootstrapTypeOK
    <2>3. QED
      BY <1>1, <1>2, <2>2 DEF SetupInvariant, BootstrapTypeOK
  <1>4. TokensSpentOnce'
    BY <1>1 DEF SetupInvariant, TokensSpentOnce
  <1>5. OneRow'
    BY <1>2 DEF SetupInvariant, OneRow, Committing, StopServer
  <1>6. QED
    BY <1>3, <1>4, <1>5 DEF SetupInvariant

LEMMA SetupBegin ==
  ASSUME SetupInvariant, NEW c \in SetupCalls, NEW p \in Processes, NEW t \in 0..MaxTokens,
         NEW e \in SetupEmails, BeginCreateAdmin(c, p, t, e)
  PROVE  SetupInvariant'
  <1>1. CASE Spendable(p, t)
    <2>1. /\ server' = [server EXCEPT ![p].used = TRUE] /\ tries' = [tries EXCEPT ![t] = @ + 1]
          /\ setup' = [setup EXCEPT ![c] = [pc |-> "initialized?", at |-> p, email |-> e, answer |-> "none"]]
          /\ UNCHANGED <<setupNow, drawn, people, singleton>>
      BY <1>1 DEF BeginCreateAdmin, Spend
    <2>2. t # 0 /\ t = server[p].token /\ ~server[p].used /\ t \in 1..MaxTokens /\ tries[t] = 0
      BY <1>1, BootstrapAssumption DEF Spendable, SetupInvariant, BootstrapTypeOK, TokensSpentOnce
    <2>3. /\ server'[p].used /\ server'[p].token = t
          /\ \A q \in Processes \ {p} : server'[q] = server[q]
          /\ tries'[t] = 1 /\ \A s \in 1..MaxTokens \ {t} : tries'[s] = tries[s]
      BY <2>1, <2>2, BootstrapAssumption DEF SetupInvariant, BootstrapTypeOK
    <2>4. BootstrapTypeOK'
      <3>1. DOMAIN setup' = SetupCalls /\ \A d \in SetupCalls : "pc" \in DOMAIN setup'[d]
        BY <2>1 DEF SetupInvariant, BootstrapTypeOK
      <3>2. tries' \in [1..MaxTokens -> Nat]
        BY <2>1, <2>2 DEF SetupInvariant, BootstrapTypeOK
      <3>3. server' \in [Processes -> [up : BOOLEAN, token : 0..drawn, expires : Nat, used : BOOLEAN]]
        BY <2>1 DEF SetupInvariant, BootstrapTypeOK
      <3>4. QED
        BY <2>1, <3>1, <3>2, <3>3 DEF SetupInvariant, BootstrapTypeOK
    <2>5. TokensSpentOnce'
      <3>1. \A s \in 1..MaxTokens : tries'[s] <= 1 /\ (s > drawn' => tries'[s] = 0)
        BY <2>1, <2>2, <2>3, BootstrapAssumption DEF SetupInvariant, BootstrapTypeOK, TokensSpentOnce
      <3>2. \A q \in Processes : server'[q].token = server[q].token
        BY <2>2, <2>3
      <3>3. \A q \in Processes : server'[q].token # 0 /\ ~server'[q].used => tries'[server'[q].token] = 0
        <4> SUFFICES ASSUME NEW q \in Processes, server'[q].token # 0, ~server'[q].used
                     PROVE  tries'[server'[q].token] = 0
          OBVIOUS
        <4>1. q # p /\ server'[q] = server[q]
          BY <2>3
        <4>2. server[q].token # t /\ server[q].token \in 1..MaxTokens
          BY <4>1, <2>2, BootstrapAssumption DEF SetupInvariant, BootstrapTypeOK, TokensSpentOnce
        <4>3. QED
          BY <4>1, <4>2, <2>3 DEF SetupInvariant, TokensSpentOnce
      <3>4. QED
        BY <3>1, <3>2, <3>3 DEF SetupInvariant, TokensSpentOnce
    <2>6. OneRow'
      BY <2>1 DEF SetupInvariant, BootstrapTypeOK, OneRow, Committing
    <2>7. QED
      BY <2>4, <2>5, <2>6 DEF SetupInvariant
  <1>2. CASE ~Spendable(p, t)
    <2>1. Answer(c, "token invalid") /\ UNCHANGED <<setupNow, server, drawn, people, singleton, tries>>
      BY <1>2 DEF BeginCreateAdmin
    <2>2. QED
      BY <2>1, SetupAnswered, SetupRests DEF SetupInvariant, BootstrapTypeOK
  <1>3. QED
    BY <1>1, <1>2

(* The steps of a call that neither take the row nor commit.                    *)
LEMMA SetupQuiet ==
  ASSUME SetupInvariant, NEW c \in SetupCalls,
         RefuseInput(c) \/ ReadInitialized(c) \/ ReadEmail(c) \/ InsertAdmin(c) \/ AbortCreate(c)
  PROVE  SetupInvariant'
  <1>1. UNCHANGED <<setupNow, server, drawn, people, singleton, tries>>
    BY DEF RefuseInput, ReadInitialized, ReadEmail, InsertAdmin, AbortCreate
  <1>2. CASE \E what : Answer(c, what)
    BY <1>1, <1>2, SetupAnswered, SetupRests DEF SetupInvariant, BootstrapTypeOK
  <1>3. CASE \E from, to : to # "commit" /\ Step(c, from, to)
    <2>1. PICK from, to : to # "commit" /\ Step(c, from, to)
      BY <1>3
    <2>2. /\ DOMAIN setup' = SetupCalls /\ setup'[c].pc # "commit"
          /\ \A d \in SetupCalls : "pc" \in DOMAIN setup'[d]
          /\ \A d \in SetupCalls \ {c} : setup'[d] = setup[d]
      BY <2>1, SetupStepped
    <2>3. QED
      BY <1>1, <2>2, SetupRests DEF SetupInvariant, BootstrapTypeOK
  <1>4. (\E what : Answer(c, what)) \/ (\E from, to : to # "commit" /\ Step(c, from, to))
    BY DEF RefuseInput, ReadInitialized, ReadEmail, InsertAdmin, AbortCreate
  <1>5. QED
    BY <1>2, <1>3, <1>4

LEMMA SetupInsertRow ==
  ASSUME SetupInvariant, NEW c \in SetupCalls, InsertRow(c)
  PROVE  SetupInvariant'
  <1>1. UNCHANGED <<setupNow, server, drawn, people, singleton, tries>>
    BY DEF InsertRow
  <1>2. CASE RowTaken(c)
    BY <1>1, <1>2, SetupAnswered, SetupRests DEF InsertRow, SetupInvariant, BootstrapTypeOK
  <1>3. CASE ~RowTaken(c)
    <2>1. /\ DOMAIN setup' = SetupCalls /\ \A d \in SetupCalls : "pc" \in DOMAIN setup'[d]
          /\ \A d \in SetupCalls \ {c} : setup'[d] = setup[d]
      BY <1>3, SetupStepped DEF InsertRow
    <2>2. singleton = {} /\ \A d \in SetupCalls : setup[d].pc # "commit"
      BY <1>3 DEF InsertRow, RowTaken
    <2>3. BootstrapTypeOK'
      BY <1>1, <2>1 DEF SetupInvariant, BootstrapTypeOK
    <2>4. TokensSpentOnce'
      BY <1>1 DEF SetupInvariant, TokensSpentOnce
    <2>5. OneRow'
      BY <1>1, <2>1, <2>2 DEF SetupInvariant, OneRow, Committing
    <2>6. QED
      BY <2>3, <2>4, <2>5 DEF SetupInvariant
  <1>4. QED
    BY <1>2, <1>3

LEMMA SetupCommit ==
  ASSUME SetupInvariant, NEW c \in SetupCalls, CommitAdmin(c)
  PROVE  SetupInvariant'
  <1>1. /\ people' = people \cup {[email |-> setup[c].email, by |-> c]}
        /\ singleton' = singleton \cup {c} /\ Answer(c, "created")
        /\ UNCHANGED <<setupNow, server, drawn, tries>>
    BY DEF CommitAdmin
  <1>2. singleton = {} /\ c # "register"
    BY BootstrapAssumption DEF CommitAdmin, SetupInvariant, OneRow, Committing
  <1>3. /\ DOMAIN setup' = SetupCalls /\ \A d \in SetupCalls : "pc" \in DOMAIN setup'[d]
        /\ setup'[c].pc = "done" /\ \A d \in SetupCalls \ {c} : setup'[d] = setup[d]
    BY <1>1, SetupAnswered
  <1>4. \A d \in SetupCalls : ~Committing(d)'
    BY <1>3 DEF CommitAdmin, SetupInvariant, OneRow, Committing
  <1>5. {u.by : u \in people'} = {u.by : u \in people} \cup {c}
    BY <1>1, AuthorsGrow
  <1>6. BootstrapTypeOK'
    BY <1>1, <1>3 DEF SetupInvariant, BootstrapTypeOK
  <1>7. TokensSpentOnce'
    BY <1>1 DEF SetupInvariant, TokensSpentOnce
  <1>8. OneRow'
    <2>1. {u.by : u \in people'} \ {"register"} = singleton'
      BY <1>1, <1>2, <1>5 DEF SetupInvariant, OneRow
    <2>2. singleton' = {c}
      BY <1>1, <1>2
    <2>3. QED
      BY <1>4, <2>1, <2>2 DEF OneRow
  <1>9. QED
    BY <1>6, <1>7, <1>8 DEF SetupInvariant

LEMMA SetupNext ==
  ASSUME SetupInvariant, [BootstrapNext]_bootstrapVars
  PROVE  SetupInvariant'
  <1>1. ASSUME NEW e \in SetupEmails, RegisterSomebody(e) PROVE SetupInvariant'
    <2>1. {u.by : u \in people'} = {u.by : u \in people} \cup {"register"}
      BY <1>1, AuthorsGrow DEF RegisterSomebody
    <2>2. QED
      BY <1>1, <2>1, SetupRests DEF RegisterSomebody, SetupInvariant, BootstrapTypeOK
  <1>2. CASE SetupTimePasses
    BY <1>2, SetupRests DEF SetupTimePasses, SetupInvariant, BootstrapTypeOK
  <1>3. CASE UNCHANGED bootstrapVars
    BY <1>3, SetupRests DEF bootstrapVars, SetupInvariant, BootstrapTypeOK
  <1>4. QED
    BY <1>1, <1>2, <1>3, SetupStart, SetupStop, SetupBegin, SetupQuiet, SetupInsertRow, SetupCommit
    DEF BootstrapNext

LEMMA SetupSafe == SetupInvariant => FirstAdminOnce
  <1> SUFFICES ASSUME SetupInvariant PROVE FirstAdminOnce
    OBVIOUS
  <1>1. singleton = {} \/ \E c : singleton = {c}
    BY DEF SetupInvariant, OneRow
  <1>2. Cardinality(singleton) <= 1
    <2>1. CASE singleton = {}
      BY <2>1, FS_EmptySet
    <2>2. CASE \E c : singleton = {c}
      <3>1. PICK c : singleton = {c}
        BY <2>2
      <3>2. Cardinality({c}) = 1
        BY FS_Singleton, Zenon
      <3>3. QED
        BY <3>1, <3>2
    <2>3. QED
      BY <1>1, <2>1, <2>2
  <1>3. QED
    BY <1>2 DEF SetupInvariant, OneRow, TokensSpentOnce, FirstAdminOnce

(* However many processes hold a setup token and whatever fails or restarts, one *)
(* administrator is created at most, with the state row and never without it,     *)
(* and a token lets one request through (bootstrap/service.go, CreateAdmin).       *)
THEOREM OneFirstAdministrator == BootstrapSpec => []FirstAdminOnce
  <1>1. BootstrapInit => SetupInvariant
    BY SetupInit
  <1>2. SetupInvariant /\ [BootstrapNext]_bootstrapVars => SetupInvariant'
    BY SetupNext
  <1>3. SetupInvariant => FirstAdminOnce
    BY SetupSafe
  <1>4. QED
    BY <1>1, <1>2, <1>3, PTL DEF BootstrapSpec
=============================================================================
