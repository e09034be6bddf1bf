--------------------------- MODULE DeliveryProofs ---------------------------
(* Proofs about the notification pipeline and about the start and stop of the  *)
(* process, for any number of users, comments, workers, events and jobs.        *)
EXTENDS Notification, Lifecycle, TLAPS

-----------------------------------------------------------------------------
(* Notification: the inductive invariant. *)

Handling == {"load", "admins", "mailing", "reply", "channels", "sending"}
Tasks == [pc: Handling \cup {"idle", "stopping", "stopped"}, ev: Events \cup {None},
          status: Statuses \cup Absent, todo: SUBSET Users, sending: SUBSET Providers]

UnsubStates == {None, Exited} \cup [user: Choosers, row: [Kinds -> BOOLEAN]]

(* TypeOK with the types of what it leaves open. *)
NotificationTyped ==
  /\ TypeOK
  /\ admins \subseteq Users /\ events \in Nat /\ task \in Tasks
  /\ task.pc \in Handling => task.ev \in Events
  /\ silent \subseteq Choosers \X Kinds
  /\ unsub \in [Requests -> UnsubStates]

(* An event is in one place at a time: with its request, on the bus, or taken. *)
Left(n) ==
  /\ n <= events
  /\ \A e \in outgoing : e.id # n
  /\ \A i \in 1..Len(queue) : queue[i].id # n

OnePlace ==
  /\ \A e \in outgoing : e.id <= events /\ \A i \in 1..Len(queue) : e.id # queue[i].id
  /\ \A e, f \in outgoing : e.id = f.id => e = f
  /\ \A i \in 1..Len(queue) : queue[i].id <= events
  /\ \A i, j \in 1..Len(queue) : queue[i].id = queue[j].id => i = j
  /\ \A i \in 1..Len(mails) : Left(mails[i].ev)
  /\ task.pc \in Handling => Left(task.ev.id)

(* The comment of an event, and the parent of a comment, were created; they may be gone. *)
Created ==
  /\ \A c \in Comments : rows[c] # None /\ Parent[c] # None => rows[Parent[c]] # None
  /\ \A e \in outgoing : rows[e.comment] # None
  /\ \A i \in 1..Len(queue) : rows[queue[i].comment] # None
  /\ task.pc \in Handling => rows[task.ev.comment] # None

Sent(u) == \E i \in 1..Len(mails) : mails[i].ev = task.ev.id /\ mails[i].to = u

(* What the mails of the event that is being handled leave for the rest of it. *)
NoSecondMail ==
  /\ task.pc \in {"load", "admins"} => \A u \in Users : ~Sent(u)
  /\ task.pc = "mailing" => \A u \in task.todo : ~Sent(u)
  /\ \/ task.pc = "mailing" /\ task.status = "published"
     \/ task.pc = "reply"
     => \A u \in ReplyRecipient(task.ev.comment) :
          Sent(u) \/ (task.pc = "mailing" /\ u \in task.todo) => task.ev.id \in misread

SilentOff == \A s \in silent : ~PrefOf(s[1])[s[2]]

NotificationInvariant ==
  NotificationTyped /\ OnePlace /\ Created /\ NoSecondMail /\ OneMailPerEvent
  /\ SilentOff /\ QuietAfterStop

-----------------------------------------------------------------------------
(* What the steps of the consumer have in common, and those of everybody else. *)

Tell == LoadCreated \/ ListAdmins \/ MailAdmin \/ MailedAdmins \/ LoadPublished \/ SendReply
Channel == SendChannels \/ (\E p \in Providers : DispatchChannel(p)) \/ ChannelsDone
Stopping == ConsumeReturns \/ StopDispatcher
Requesting ==
  \/ \E c \in Comments : (\E s \in Statuses \ {"deleted"} : CreateComment(c, s))
                         \/ DecidePublish(c) \/ PublishComment(c)
  \/ \E c \in Comments \cup Roots : \E s \in Moves : ChangeRow(c, s)
  \/ \E e \in outgoing : PublishEvent(e)
Preferring ==
  \E r \in Requests :
     \/ \E u \in Choosers, k \in Kinds : UnsubscribeRead(r, u, k)
     \/ UnsubscribeWrite(r)
     \/ \E u \in Choosers, p \in [Kinds -> BOOLEAN] : UpdateNotificationPreferences(r, u, p)
Delivering == \E w \in Workers : Worker(w)
Ending == CancelJob \/ CloseBus \/ Terminated \/ UNCHANGED vars

LEMMA StepKinds ==
  ASSUME [Next]_vars
  PROVE  TakeEvent \/ Tell \/ Channel \/ Stopping \/ Requesting \/ Preferring \/ Delivering \/ Ending
  BY DEF Next, Consumer, Tell, Channel, Stopping, Requesting, Preferring, Delivering, Ending

(* Where handling goes on: with the same event, or with none. *)
Continues(t, u) == t \in Tasks /\ t.pc \in Handling \cup {"idle"} /\ (t.pc \in Handling => t.ev = u.ev)

LEMMA NextTasks ==
  ASSUME NEW t \in Tasks, t.ev \in Events
  PROVE  /\ Continues(Idle, t) /\ Continues(ToChannels(t), t) /\ Continues(ToReply(t), t)
         /\ ToChannels(t).pc \in {"channels", "idle"}
         /\ ToReply(t).pc \in {"reply", "channels", "idle"}
         /\ ToReply(t).pc = "reply" => t.status = "published"
  <1> USE DEF Tasks, Idle, Handling, Absent, Continues
  <1>1. Continues(Idle, t) /\ Idle.pc = "idle"
    OBVIOUS
  <1>2. Continues(ToChannels(t), t) /\ ToChannels(t).pc \in {"channels", "idle"}
    BY <1>1 DEF ToChannels
  <1>3. CASE config.mailer /\ t.status = "published"
    BY <1>1, <1>2, <1>3 DEF ToReply
  <1>4. CASE ~(config.mailer /\ t.status = "published")
    BY <1>1, <1>2, <1>4 DEF ToReply
  <1>5. QED
    BY <1>3, <1>4

LEMMA CommentFacts ==
  ASSUME NotificationTyped, task.pc \in Handling
  PROVE  /\ task.ev.comment \in Comments /\ rows[task.ev.comment] \in Statuses \cup Absent
         /\ Author[task.ev.comment] \in Users /\ task.ev.id \in 1..MaxEvents
         /\ ReplyRecipient(task.ev.comment) \subseteq Users
  BY ConstantsOk DEF NotificationTyped, TypeOK, Events, ReplyRecipient

LEMMA NumbersOfEvents ==
  ASSUME NotificationTyped
  PROVE  /\ \A i \in 1..Len(mails) : mails[i].ev \in Nat
         /\ \A i \in 1..Len(queue) : queue[i].id \in Nat
         /\ \A e \in outgoing : e.id \in Nat
         /\ task.pc \in Handling => task.ev.id \in Nat
  <1>1. \A e \in Events : e.id \in Nat
    BY ConstantsOk DEF Events
  <1>2. \A m \in Mails : m.ev \in Nat
    BY ConstantsOk DEF Mails
  <1>3. QED
    BY <1>1, <1>2 DEF NotificationTyped, TypeOK

(* What a step that tells somebody writes. *)
OneMore(u, k) == mails' \in {mails, Append(mails, Mail(u, k))} 
                 /\ (mails' # mails => Len(mails) - taken < MailCapacity)
Frame == UNCHANGED <<config, world, prefs, queue, busClosed, cancelled, taken, worker, unsub, silent>>

LEMMA LoadCreatedEffect ==
  ASSUME NotificationTyped, LoadCreated
  PROVE  /\ Frame /\ UNCHANGED <<mails, misread>> /\ Continues(task', task) /\ task.pc = "load"
         /\ task'.pc # "mailing"
  <1> DEFINE t == [task EXCEPT !.status = rows[task.ev.comment]]
             u == [t EXCEPT !.pc = "admins"]
  <1>1. task \in Tasks /\ task.ev \in Events
    BY DEF NotificationTyped, LoadCreated, Handling
  <1>2. t \in Tasks /\ t.ev = task.ev /\ t.pc = task.pc
    BY <1>1, CommentFacts DEF Tasks, LoadCreated, Handling
  <1>3. u \in Tasks /\ u.ev = task.ev /\ u.pc = "admins"
    BY <1>2 DEF Tasks, Handling
  <1>4. Continues(Idle, task) /\ Continues(u, task)
    BY <1>1, <1>3, NextTasks DEF Continues, Handling
  <1>5. Continues(ToReply(t), task) /\ ToReply(t).pc # "mailing"
    BY <1>1, <1>2, NextTasks DEF Continues
  <1>6. task' \in {Idle, u, ToReply(t)}
    BY DEF LoadCreated, ConsumerStep
  <1>7. Frame /\ UNCHANGED <<mails, misread>> /\ task.pc = "load"
    BY DEF LoadCreated, ConsumerStep, Frame
  <1>8. Idle.pc = "idle"
    BY DEF Idle
  <1> HIDE DEF t, u
  <1>9. QED
    BY <1>3, <1>4, <1>5, <1>6, <1>7, <1>8

LEMMA ListAdminsEffect ==
  ASSUME NotificationTyped, Created, ListAdmins
  PROVE  /\ Frame /\ UNCHANGED mails /\ Continues(task', task) /\ task.pc = "admins"
         /\ misread \subseteq misread'
         /\ task'.pc = "mailing" =>
              /\ task'.status = task.status
              /\ task.status = "published" => \A u \in ReplyRecipient(task.ev.comment) :
                                      u \in task'.todo => task.ev.id \in misread'
  <1>1. task \in Tasks /\ task.ev \in Events /\ task.pc = "admins"
    BY DEF NotificationTyped, ListAdmins, Handling
  <1>2. Frame /\ UNCHANGED mails
    BY DEF ListAdmins, ConsumerStep, Frame
  <1>3. CASE task' = ToReply(task) /\ UNCHANGED misread
    BY <1>1, <1>2, <1>3, NextTasks
  <1>4. ASSUME NEW readable \in BOOLEAN, NEW to,
               to = (admins \cap Mailable) \ ({Author[task.ev.comment]} \cup ReplyParentUser(readable)),
               task' = [task EXCEPT !.pc = "mailing", !.todo = FirstRecipients(to)],
               misread' = IF readable THEN misread ELSE misread \cup {task.ev.id}
        PROVE  /\ Continues(task', task) /\ misread \subseteq misread'
               /\ task'.status = task.status
               /\ task.status = "published" => \A u \in ReplyRecipient(task.ev.comment) :
                                      u \in task'.todo => task.ev.id \in misread'
    <2>1. FirstRecipients(to) \subseteq to /\ to \subseteq Users
      BY <1>4, ConstantsOk DEF FirstRecipients
    <2>2. /\ task' \in Tasks /\ task'.todo = FirstRecipients(to) /\ task'.ev = task.ev
          /\ task'.status = task.status /\ task'.pc = "mailing"
      BY <1>1, <1>4, <2>1 DEF Tasks, Handling
    <2>3. ASSUME task.status = "published", NEW u \in ReplyRecipient(task.ev.comment), u \in to
          PROVE  ~readable
      BY <1>4, <2>3 DEF ReplyRecipient, ReplyParentUser
    <2>4. QED
      BY <1>4, <2>1, <2>2, <2>3 DEF Continues, Handling
  <1>5. QED
    BY <1>2, <1>3, <1>4, <1>1 DEF ListAdmins, ConsumerStep

LEMMA MailAdminEffect ==
  ASSUME NotificationTyped, MailAdmin
  PROVE  /\ Frame /\ UNCHANGED misread /\ Continues(task', task) /\ task.pc = "mailing"
         /\ task'.pc = "mailing" /\ task'.status = task.status
         /\ \E u \in task.todo : task'.todo = task.todo \ {u} /\ OneMore(u, "admin")
  <1>1. task \in Tasks /\ task.ev \in Events /\ task.pc = "mailing"
    BY DEF NotificationTyped, MailAdmin, Handling
  <1>2. PICK u \in task.todo : Submit(Mail(u, "admin")) /\ ConsumerStep([task EXCEPT !.todo = @ \ {u}])
    BY DEF MailAdmin
  <1>3. OneMore(u, "admin") /\ Frame /\ UNCHANGED misread
    BY <1>2 DEF Submit, OneMore, ConsumerStep, Frame, MailAdmin
  <1>4. /\ Continues(task', task) /\ task'.todo = task.todo \ {u}
        /\ task'.pc = "mailing" /\ task'.status = task.status
    BY <1>1, <1>2 DEF ConsumerStep, Continues, Tasks, Handling
  <1>5. QED
    BY <1>1, <1>3, <1>4

LEMMA MailedAdminsEffect ==
  ASSUME NotificationTyped, MailedAdmins
  PROVE  /\ Frame /\ UNCHANGED <<mails, misread>> /\ Continues(task', task) /\ task.pc = "mailing"
         /\ task'.pc \in {"reply", "channels", "idle"}
         /\ task'.pc = "reply" => task.status = "published"
  <1>1. task \in Tasks /\ task.ev \in Events /\ task.pc = "mailing"
    BY DEF NotificationTyped, MailedAdmins, Handling
  <1>2. Frame /\ UNCHANGED <<mails, misread>> /\ task' = ToReply(task)
    BY DEF MailedAdmins, ConsumerStep, Frame
  <1>3. QED
    BY <1>1, <1>2, NextTasks

LEMMA LoadPublishedEffect ==
  ASSUME NotificationTyped, LoadPublished
  PROVE  /\ Frame /\ UNCHANGED misread /\ Continues(task', task) /\ task.pc = "load"
         /\ task'.pc \in {"reply", "idle"}
         /\ \/ UNCHANGED mails
            \/ /\ PrefOf(Author[task.ev.comment])["moderation"]
               /\ OneMore(Author[task.ev.comment], "moderation")
  <1>1. task \in Tasks /\ task.ev \in Events /\ task.pc = "load"
    BY DEF NotificationTyped, LoadPublished, Handling
  <1>2. Frame /\ UNCHANGED misread
    BY DEF LoadPublished, ConsumerStep, Frame
  <1>3. CASE task' = Idle /\ UNCHANGED mails
    BY <1>1, <1>2, <1>3, NextTasks DEF Idle
  <1>4. CASE /\ task' = [task EXCEPT !.status = rows[task.ev.comment], !.pc = "reply"]
             /\ \E readable \in BOOLEAN :
                  IF Author[task.ev.comment] \in Mailable
                     /\ NotificationEnabled(Author[task.ev.comment], "moderation", readable)
                  THEN Submit(Mail(Author[task.ev.comment], "moderation")) ELSE UNCHANGED mails
    <2>1. Continues(task', task) /\ task'.pc = "reply"
      BY <1>1, <1>4, CommentFacts DEF Continues, Tasks, Handling
    <2>2. \/ UNCHANGED mails
          \/ /\ PrefOf(Author[task.ev.comment])["moderation"]
             /\ OneMore(Author[task.ev.comment], "moderation")
      BY <1>4 DEF NotificationEnabled, Submit, OneMore
    <2>3. QED
      BY <1>1, <1>2, <2>1, <2>2
  <1>5. QED
    BY <1>3, <1>4 DEF LoadPublished, ConsumerStep

LEMMA SendReplyEffect ==
  ASSUME NotificationTyped, SendReply
  PROVE  /\ Frame /\ UNCHANGED misread /\ Continues(task', task) /\ task.pc = "reply"
         /\ task'.pc \in {"channels", "idle"}
         /\ \/ UNCHANGED mails
            \/ \E u \in ReplyRecipient(task.ev.comment) : PrefOf(u)["reply"] /\ OneMore(u, "reply")
  <1>1. task \in Tasks /\ task.ev \in Events /\ task.pc = "reply"
    BY DEF NotificationTyped, SendReply, Handling
  <1>2. Frame /\ UNCHANGED misread /\ task' = ToChannels(task)
    BY DEF SendReply, ConsumerStep, Frame
  <1>3. \/ UNCHANGED mails
        \/ \E u \in ReplyRecipient(task.ev.comment) : PrefOf(u)["reply"] /\ OneMore(u, "reply")
    BY DEF SendReply, NotificationEnabled, Submit, OneMore
  <1>4. QED
    BY <1>1, <1>2, <1>3, NextTasks

(* A step of these six adds at most one mail, of the event at hand, for a user *)
(* who had none of it, unless the exclusion was misread.                       *)
LEMMA TellEffect ==
  ASSUME NotificationInvariant, Tell
  PROVE  /\ Frame /\ Continues(task', task) /\ task.pc \in Handling /\ misread \subseteq misread'
         /\ \/ UNCHANGED mails
            \/ \E u \in Users : \E k \in Kinds \cup {"admin"} :
                 /\ OneMore(u, k) /\ (Sent(u) => task.ev.id \in misread)
                 /\ k # "admin" => PrefOf(u)[k]
  <1> USE DEF NotificationInvariant, NoSecondMail, Handling
  <1>0. task \in Tasks
    BY DEF NotificationTyped
  <1>1. CASE LoadCreated
    BY <1>1, LoadCreatedEffect
  <1>2. CASE ListAdmins
    BY <1>2, ListAdminsEffect
  <1>3. CASE MailAdmin
    BY <1>0, <1>3, MailAdminEffect DEF Tasks
  <1>4. CASE MailedAdmins
    BY <1>4, MailedAdminsEffect
  <1>5. CASE LoadPublished
    BY <1>5, LoadPublishedEffect, CommentFacts DEF Kinds
  <1>6. CASE SendReply
    BY <1>6, SendReplyEffect, CommentFacts DEF Kinds
  <1>7. QED
    BY <1>1, <1>2, <1>3, <1>4, <1>5, <1>6 DEF Tell

LEMMA TellTyped ==
  ASSUME NotificationInvariant, Tell
  PROVE  NotificationTyped'
  <1> USE DEF NotificationInvariant, NotificationTyped
  <1>1. task' \in Tasks /\ (task'.pc \in Handling => task'.ev \in Events)
    BY TellEffect DEF Continues
  <1>2. Frame
    BY TellEffect
  <1>3. /\ mails' \in Seq(Mails) /\ Len(mails') \in Nat
        /\ taken <= Len(mails') /\ Len(mails') - taken <= MailCapacity
    <2>1. \A u \in Users : \A k \in Kinds \cup {"admin"} : Mail(u, k) \in Mails
      BY TellEffect, CommentFacts DEF Mail, Mails
    <2>2. CASE UNCHANGED mails
      BY <2>2 DEF TypeOK
    <2>3. ASSUME NEW u \in Users, NEW k \in Kinds \cup {"admin"}, OneMore(u, k)
          PROVE  <1>3!:
      <3>1. CASE mails' = mails
        BY <3>1 DEF TypeOK
      <3>2. CASE mails' # mails
        <4>1. Len(mails) - taken < MailCapacity /\ mails' = Append(mails, Mail(u, k))
          BY <2>3, <3>2 DEF OneMore
        <4>2. Len(mails') = Len(mails) + 1 /\ mails' \in Seq(Mails)
          BY <2>1, <4>1 DEF TypeOK
        <4>3. QED
          BY <4>1, <4>2, ConstantsOk DEF TypeOK
      <3>3. QED
        BY <3>1, <3>2
    <2>4. QED
      BY <2>2, <2>3, TellEffect
  <1>4. TypeOK'
    BY <1>1, <1>2, <1>3 DEF TypeOK, Frame, world, Tasks
  <1>5. QED
    BY <1>1, <1>2, <1>4 DEF Frame, world

(* Appending one mail of the event at hand. *)
LEMMA TellMails ==
  ASSUME NotificationInvariant, Tell
  PROVE  /\ OneMailPerEvent'
         /\ \A i \in 1..Len(mails') : \/ i \in 1..Len(mails) /\ mails'[i] = mails[i]
                                     \/ mails'[i].ev = task.ev.id
  <1> USE DEF NotificationInvariant
  <1>0. mails \in Seq(Mails) /\ misread \subseteq misread'
    BY TellEffect DEF NotificationTyped, TypeOK
  <1>1. CASE UNCHANGED mails
    BY <1>0, <1>1 DEF OneMailPerEvent
  <1>2. ASSUME NEW u \in Users, NEW k \in Kinds \cup {"admin"},
               mails' = Append(mails, Mail(u, k)), Sent(u) => task.ev.id \in misread
        PROVE  /\ OneMailPerEvent'
               /\ \A i \in 1..Len(mails') : \/ i \in 1..Len(mails) /\ mails'[i] = mails[i]
                                           \/ mails'[i].ev = task.ev.id
    <2> DEFINE m == Mail(u, k)
    <2>1. m.ev = task.ev.id /\ m.to = u /\ m \in Mails
      BY TellEffect, CommentFacts DEF Mail, Mails
    <2>2. /\ Len(mails') = Len(mails) + 1 /\ mails'[Len(mails) + 1] = m
          /\ \A i \in 1..Len(mails) : mails'[i] = mails[i]
      BY <1>0, <1>2, <2>1
    <2> HIDE DEF m
    <2>3. \A i \in 1..Len(mails) : mails[i].ev = m.ev /\ mails[i].to = m.to => m.ev \in misread
      BY <1>2, <2>1 DEF Sent
    <2>4. Len(mails) \in Nat
      BY <1>0
    <2>5. OneMailPerEvent'
      BY <1>0, <2>2, <2>3, <2>4 DEF OneMailPerEvent
    <2>6. QED
      BY <2>1, <2>2, <2>4, <2>5
  <1>3. QED
    BY <1>1, <1>2, TellEffect DEF OneMore

(* Whoever was sent a mail of the event at hand now, was so before or got the new one. *)
LEMMA SentGrows ==
  ASSUME NotificationInvariant, Tell, task'.pc \in Handling, NEW u \in Users,
         NEW k \in Kinds \cup {"admin"}, OneMore(u, k), NEW v, Sent(v)'
  PROVE  Sent(v) \/ v = u
  <1> DEFINE m == Mail(u, k)
  <1>1. m.to = u /\ m \in Mails /\ mails \in Seq(Mails)
    BY TellEffect, CommentFacts DEF Mail, Mails, NotificationInvariant, NotificationTyped, TypeOK
  <1>2. mails' \in {mails, Append(mails, m)}
    BY DEF OneMore
  <1> HIDE DEF m
  <1>3. task'.ev = task.ev
    BY TellEffect DEF Continues
  <1>4. PICK i \in 1..Len(mails') : mails'[i].ev = task.ev.id /\ mails'[i].to = v
    BY <1>3 DEF Sent
  <1>5. \/ i \in 1..Len(mails) /\ mails'[i] = mails[i]
        \/ mails'[i] = m
    BY <1>1, <1>2, <1>4
  <1>6. QED
    BY <1>1, <1>4, <1>5 DEF Sent

LEMMA TellNoSecondMail ==
  ASSUME NotificationInvariant, Tell
  PROVE  NoSecondMail'
  <1> USE DEF NotificationInvariant, Handling
  <1>a. task \in Tasks /\ task.pc \in Handling /\ task.ev.id = task.ev.id
    BY TellEffect DEF NotificationTyped
  <1>b. misread \subseteq misread' /\ Continues(task', task)
    BY TellEffect
  <1>c. task'.pc \in Handling => ReplyRecipient(task.ev.comment)' = ReplyRecipient(task.ev.comment)
    BY TellEffect DEF Continues, ReplyRecipient, Frame, world
  <1>d. ReplyRecipient(task.ev.comment) \subseteq Users /\ mails \in Seq(Mails)
    BY <1>a, CommentFacts DEF NotificationTyped, TypeOK
  (* Nothing sent, the same event: nobody has become one who was sent a mail. *)
  <1>e. ASSUME UNCHANGED mails, task'.pc \in Handling, NEW u, Sent(u)'
        PROVE  Sent(u)
    BY <1>b, <1>e DEF Sent, Continues
  <1>1. CASE LoadCreated
    BY <1>1, <1>b, <1>c, <1>d, <1>e, LoadCreatedEffect DEF NoSecondMail
  <1>2. CASE ListAdmins
    <2>1. \A u \in Users : ~Sent(u)
      BY <1>2, ListAdminsEffect DEF NoSecondMail
    <2>2. task'.pc \in Handling => \A u \in Users : ~Sent(u)'
      BY <1>2, <1>e, <2>1, ListAdminsEffect
    <2>3. task'.pc = "mailing" => task'.ev = task.ev /\ task'.todo \subseteq Users
      BY <1>b DEF Continues, Tasks
    <2>4. QED
      BY <1>2, <1>b, <1>c, <1>d, <2>2, <2>3, ListAdminsEffect DEF NoSecondMail
  <1>3. CASE MailAdmin
    <2>1. PICK u \in task.todo : task'.todo = task.todo \ {u} /\ OneMore(u, "admin")
      BY <1>3, MailAdminEffect
    <2>2. task'.ev = task.ev /\ task'.pc = "mailing" /\ task.pc = "mailing" /\ task'.status = task.status
      BY <1>3, <1>b, MailAdminEffect DEF Continues
    <2>3. \A v : Sent(v)' => Sent(v) \/ v = u
      BY <1>a, <2>1, <2>2, SentGrows DEF Tasks
    <2>4. QED
      BY <1>b, <1>c, <1>d, <2>1, <2>2, <2>3 DEF NoSecondMail
  <1>4. CASE MailedAdmins
    BY <1>4, <1>b, <1>c, <1>e, MailedAdminsEffect DEF NoSecondMail, Continues
  <1>5. CASE LoadPublished
    <2>1. \A u \in Users : ~Sent(u)
      BY <1>5, LoadPublishedEffect DEF NoSecondMail
    <2>2. \A u \in ReplyRecipient(task.ev.comment) : u \in Users /\ u # Author[task.ev.comment]
      BY <1>d DEF ReplyRecipient
    <2>3. ASSUME task'.pc = "reply", NEW u \in Users, Sent(u)'
          PROVE  u = Author[task.ev.comment]
      <3>1. CASE UNCHANGED mails
        BY <2>1, <2>3, <3>1, <1>e
      <3>2. CASE OneMore(Author[task.ev.comment], "moderation")
        BY <2>1, <2>3, <3>2, <1>a, SentGrows, CommentFacts DEF Kinds
      <3>3. QED
        BY <1>5, <3>1, <3>2, LoadPublishedEffect
    <2>4. QED
      BY <1>5, <1>c, <1>b, <2>2, <2>3, LoadPublishedEffect DEF NoSecondMail, Continues
  <1>6. CASE SendReply
    BY <1>6, SendReplyEffect DEF NoSecondMail
  <1>7. QED
    BY <1>1, <1>2, <1>3, <1>4, <1>5, <1>6 DEF Tell

LEMMA TellStep ==
  ASSUME NotificationInvariant, Tell
  PROVE  NotificationInvariant'
  <1>0. /\ Frame /\ Continues(task', task) /\ task.pc \in Handling
    BY TellEffect
  <1>1. OnePlace'
    BY <1>0, TellMails DEF NotificationInvariant, OnePlace, Left, Continues, Frame, world
  <1>2. Created'
    BY <1>0 DEF NotificationInvariant, Created, Continues, Frame, world
  <1>3. SilentOff'
    BY <1>0 DEF NotificationInvariant, SilentOff, PrefOf, Frame
  <1>4. QuietAfterStop'
    BY <1>0 DEF QuietAfterStop, Continues, Handling
  <1>5. QED
    BY <1>1, <1>2, <1>3, <1>4, TellTyped, TellMails, TellNoSecondMail DEF NotificationInvariant

(* The consumer elsewhere: channels, the next event, and the end. *)
LEMMA ChannelStep ==
  ASSUME NotificationInvariant, Channel
  PROVE  NotificationInvariant'
  <1>1. Frame /\ UNCHANGED <<mails, misread>>
    BY DEF Channel, SendChannels, DispatchChannel, ChannelsDone, ConsumerStep, Frame
  <1>2. /\ task' \in Tasks /\ task'.pc \in {"channels", "sending", "idle"}
        /\ task.pc \in {"channels", "sending"} /\ (task'.pc \in Handling => task'.ev = task.ev)
    <2> USE DEF ConsumerStep, Idle, Handling, Absent, Tasks
    <2>0. task \in Tasks
      BY DEF NotificationInvariant, NotificationTyped
    <2>1. CASE SendChannels
      <3>1. CASE task' = Idle
        BY <2>1, <3>1 DEF SendChannels
      <3>2. CASE task' = [task EXCEPT !.pc = "sending", !.sending = Providers]
        BY <2>0, <2>1, <3>2 DEF SendChannels
      <3>3. QED
        BY <2>1, <3>1, <3>2 DEF SendChannels
    <2>2. CASE \E p \in Providers : DispatchChannel(p)
      BY <2>0, <2>2 DEF DispatchChannel
    <2>3. CASE ChannelsDone
      BY <2>0, <2>3 DEF ChannelsDone
    <2>4. QED
      BY <2>1, <2>2, <2>3 DEF Channel
  <1> USE DEF NotificationInvariant, Handling
  <1>3. NotificationTyped'
    BY <1>1, <1>2 DEF NotificationTyped, TypeOK, Tasks, Frame, world
  <1>4. OnePlace' /\ Created'
    BY <1>1, <1>2 DEF OnePlace, Left, Created, Frame, world
  <1>5. NoSecondMail' /\ QuietAfterStop'
    BY <1>1, <1>2 DEF NoSecondMail, QuietAfterStop
  <1>6. SilentOff' /\ OneMailPerEvent'
    BY <1>1 DEF SilentOff, PrefOf, Frame, OneMailPerEvent
  <1>7. QED
    BY <1>3, <1>4, <1>5, <1>6

LEMMA TakeStep ==
  ASSUME NotificationInvariant, TakeEvent
  PROVE  NotificationInvariant'
  <1> USE DEF NotificationInvariant
  <1>1. queue \in Seq(Events) /\ queue # <<>> /\ outgoing \subseteq Events
    BY DEF NotificationTyped, TypeOK, TakeEvent
  <1>2. /\ Head(queue) = queue[1] /\ Head(queue) \in Events /\ queue' \in Seq(Events)
        /\ Len(queue') = Len(queue) - 1 /\ 1 \in 1..Len(queue)
        /\ \A i \in 1..Len(queue') : queue'[i] = queue[i + 1] /\ i + 1 \in 1..Len(queue) /\ i + 1 # 1
    BY <1>1 DEF TakeEvent
  <1>3. /\ task' \in Tasks /\ task'.pc = "load" /\ task'.ev = queue[1]
    BY <1>2 DEF TakeEvent, Idle, Tasks, Handling, Absent
  <1>4. UNCHANGED <<config, world, prefs, mails, taken, worker, unsub, misread>> /\ silent' = Silenced
    BY DEF TakeEvent
  <1>5. NotificationTyped'
    <2>1. Len(queue') <= BusCapacity
      BY <1>1, <1>2, ConstantsOk DEF NotificationTyped, TypeOK
    <2>2. QED
      BY <1>2, <1>3, <1>4, <2>1 DEF NotificationTyped, TypeOK, world, Tasks, Handling, Silenced
  <1>6. OnePlace'
    <2>1. \A n \in Nat : Left(n) => Left(n)'
      BY <1>2, <1>4 DEF Left, world
    <2>2. \A n \in Nat : n = queue[1].id => Left(n)'
      BY <1>2, <1>4 DEF Left, OnePlace, world
    <2>3. outgoing' = outgoing /\ events' = events /\ mails' = mails
      BY <1>4 DEF world
    <2>4. \A e \in outgoing' : e.id <= events' /\ \A i \in 1..Len(queue') : e.id # queue'[i].id
      BY <1>2, <2>3 DEF OnePlace
    <2>5. \A e, f \in outgoing' : e.id = f.id => e = f
      BY <2>3 DEF OnePlace
    <2>6. \A i \in 1..Len(queue') : queue'[i].id <= events'
      BY <1>2, <2>3 DEF OnePlace
    <2>7. \A i, j \in 1..Len(queue') : queue'[i].id = queue'[j].id => i = j
      BY <1>1, <1>2 DEF OnePlace
    <2>8. \A i \in 1..Len(mails') : Left(mails[i].ev)'
      BY <2>1, <2>3, NumbersOfEvents DEF OnePlace
    <2>9. Left(task.ev.id)'
      BY <1>2, <1>3, <2>2, NumbersOfEvents
    <2>10. QED
      BY <2>4, <2>5, <2>6, <2>7, <2>8, <2>9 DEF OnePlace
  <1>7. Created'
    BY <1>2, <1>3, <1>4 DEF Created, world
  <1>8. NoSecondMail'
    <2>1. \A i \in 1..Len(mails) : mails[i].ev # queue[1].id
      BY <1>2 DEF OnePlace, Left
    <2>2. \A u \in Users : ~Sent(u)'
      BY <1>3, <1>4, <2>1 DEF Sent
    <2>3. QED
      BY <1>3, <2>2 DEF NoSecondMail
  <1>9. OneMailPerEvent' /\ SilentOff' /\ QuietAfterStop'
    BY <1>3, <1>4 DEF OneMailPerEvent, SilentOff, QuietAfterStop, Silenced, PrefOf
  <1>10. QED
    BY <1>5, <1>6, <1>7, <1>8, <1>9

LEMMA StoppingStep ==
  ASSUME NotificationInvariant, Stopping
  PROVE  NotificationInvariant'
  <1>1. Frame /\ UNCHANGED <<mails, misread>>
    BY DEF Stopping, ConsumeReturns, StopDispatcher, ConsumerStep, Frame
  <1>2. /\ task' \in Tasks /\ task'.pc \in {"stopping", "stopped"}
        /\ task'.pc = "stopped" => \A w \in Workers : worker[w] = Exited
    BY DEF Tasks, Stopping, ConsumeReturns, StopDispatcher, ConsumerStep, Idle, Absent
  <1> USE DEF NotificationInvariant, Handling
  <1>3. NotificationTyped'
    BY <1>1, <1>2 DEF NotificationTyped, TypeOK, Tasks, Frame, world
  <1>4. OnePlace' /\ Created'
    BY <1>1, <1>2 DEF OnePlace, Left, Created, Frame, world
  <1>5. NoSecondMail' /\ QuietAfterStop'
    BY <1>1, <1>2 DEF NoSecondMail, QuietAfterStop, Frame
  <1>6. SilentOff' /\ OneMailPerEvent'
    BY <1>1 DEF SilentOff, PrefOf, Frame, OneMailPerEvent
  <1>7. QED
    BY <1>3, <1>4, <1>5, <1>6

(* Everybody else. *)
LEMMA RequestingStep ==
  ASSUME NotificationInvariant, Requesting
  PROVE  NotificationInvariant'
  <1> USE DEF NotificationInvariant, Handling
  <1>0. UNCHANGED <<config, admins, prefs, task, mails, taken, worker, unsub, silent, misread>>
    BY DEF Requesting, CreateComment, DecidePublish, PublishComment, ChangeRow, PublishEvent
  <1>1. rows \in [Comments \cup Roots -> Statuses \cup Absent]
    BY DEF NotificationTyped, TypeOK
  <1>2. /\ rows' \in [Comments \cup Roots -> Statuses \cup Absent]
        /\ \A c \in Comments \cup Roots : /\ rows[c] # None => rows'[c] # None
                                          /\ rows[c] = "gone" => rows'[c] = "gone"
    <2> USE DEF Absent, Statuses
    <2>1. ASSUME NEW c \in Comments, NEW s \in Statuses \ {"deleted"}, CreateComment(c, s)
          PROVE  <1>2!:
      BY <1>1, <2>1, ConstantsOk DEF CreateComment
    <2>2. ASSUME NEW c \in Comments, PublishComment(c)
          PROVE  <1>2!:
      BY <1>1, <2>2, ConstantsOk DEF PublishComment
    <2>3. ASSUME NEW c \in Comments \cup Roots, NEW s \in Moves, ChangeRow(c, s)
          PROVE  <1>2!:
      BY <1>1, <2>3, ConstantsOk DEF ChangeRow
    <2>4. ASSUME UNCHANGED rows
          PROVE  <1>2!:
      BY <1>1, <2>4
    <2>5. QED
      BY <2>1, <2>2, <2>3, <2>4 DEF Requesting, DecidePublish, PublishEvent
  <1>3. /\ outgoing \subseteq Events /\ queue \in Seq(Events) /\ events \in Nat
        /\ Len(queue) <= BusCapacity /\ Len(queue) \in Nat
    BY DEF NotificationTyped, TypeOK
  (* A commit, a call of Publish, or neither. *)
  <1>4. \/ \E type \in EventTypes : \E c \in Comments :
              Commit(type, c) /\ rows'[c] # None /\ UNCHANGED queue
        \/ \E e \in outgoing : PublishEvent(e)
        \/ UNCHANGED <<outgoing, events, queue>>
    <2> USE DEF EventTypes, Absent, Statuses
    <2>1. ASSUME NEW c \in Comments, NEW s \in Statuses \ {"deleted"}, CreateComment(c, s)
          PROVE  \E type \in EventTypes : Commit(type, c) /\ rows'[c] # None /\ UNCHANGED queue
      BY <1>1, <2>1, ConstantsOk DEF CreateComment
    <2>2. ASSUME NEW c \in Comments, PublishComment(c)
          PROVE  \/ \E type \in EventTypes : Commit(type, c) /\ rows'[c] # None /\ UNCHANGED queue
                 \/ UNCHANGED <<outgoing, events, queue>>
      BY <1>1, <2>2, ConstantsOk DEF PublishComment
    <2>3. QED
      BY <2>1, <2>2 DEF Requesting, DecidePublish, ChangeRow
  <1>5. Created' /\ NotificationTyped' /\ OnePlace'
    <2>1. \A c \in Comments : rows'[c] # None /\ Parent[c] # None => rows'[Parent[c]] # None
      <3>1. \A c \in Comments : Parent[c] # None => Parent[c] \in Comments \cup Roots
        BY ConstantsOk
      <3>2. ASSUME NEW c \in Comments, NEW s \in Statuses \ {"deleted"}, CreateComment(c, s)
            PROVE  <2>1!:
        BY <1>1, <1>2, <3>1, <3>2, ConstantsOk DEF CreateComment, Created, Statuses
      <3>3. ASSUME \A c \in Comments : rows'[c] # None => rows[c] # None
            PROVE  <2>1!:
        BY <1>2, <3>1, <3>3 DEF Created
      <3>4. ASSUME NEW c \in Comments, PublishComment(c)
            PROVE  <2>1!:
        BY <1>1, <3>3, <3>4 DEF PublishComment, Absent
      <3>5. ASSUME NEW c \in Comments \cup Roots, NEW s \in Moves, ChangeRow(c, s)
            PROVE  <2>1!:
        BY <1>1, <3>3, <3>5 DEF ChangeRow, Absent
      <3>6. QED
        BY <3>2, <3>3, <3>4, <3>5 DEF Requesting, DecidePublish, PublishEvent
    <2>2. task.pc \in Handling => rows'[task.ev.comment] # None
      BY <1>2, CommentFacts DEF Created
    <2>3. \A e \in Events : rows[e.comment] # None => rows'[e.comment] # None
      BY <1>2 DEF Events
    <2> HIDE DEF NotificationInvariant
    <2>4. ASSUME NEW type \in EventTypes, NEW c \in Comments, Commit(type, c), rows'[c] # None,
                 UNCHANGED queue
          PROVE  <1>5!:
      <3> DEFINE e == [id |-> events + 1, type |-> type, comment |-> c]
      <3>1. e.id = events + 1 /\ e.comment = c /\ e \in Events
        BY <1>3, <2>4, ConstantsOk DEF Commit, Events
      <3>2. outgoing' = outgoing \cup {e} /\ events' = events + 1
        BY <2>4 DEF Commit
      <3> HIDE DEF e
      <3>3. NotificationTyped'
        BY <1>0, <1>2, <1>3, <3>1, <3>2, <2>4 DEF NotificationInvariant, NotificationTyped, TypeOK
      <3>4. Created'
        BY <1>0, <1>3, <2>1, <2>2, <2>3, <2>4, <3>1, <3>2 DEF NotificationInvariant, Created
      <3>5. OnePlace'
        <4>1. \A n \in Nat : Left(n) => Left(n)'
          BY <1>3, <2>4, <3>1, <3>2 DEF Left
        <4>2. OnePlace /\ events \in Nat
          BY <1>0 DEF NotificationInvariant, NotificationTyped
        <4>3. /\ \A f \in outgoing : f.id \in Nat /\ f.id <= events
              /\ \A i \in 1..Len(queue) : queue[i].id \in Nat /\ queue[i].id <= events
          BY <1>0, <4>2, NumbersOfEvents DEF NotificationInvariant, OnePlace
        <4>4. \A f \in outgoing' : f.id <= events' /\ \A i \in 1..Len(queue') : f.id # queue'[i].id
          BY <2>4, <3>1, <3>2, <4>2, <4>3 DEF OnePlace
        <4>5. \A f, g \in outgoing' : f.id = g.id => f = g
          BY <3>1, <3>2, <4>2, <4>3 DEF OnePlace
        <4>6. /\ \A i \in 1..Len(queue') : queue'[i].id <= events'
              /\ \A i, j \in 1..Len(queue') : queue'[i].id = queue'[j].id => i = j
          BY <2>4, <3>2, <4>2, <4>3 DEF OnePlace
        <4>7. (/\ \A i \in 1..Len(mails) : Left(mails[i].ev)
               /\ task.pc \in Handling => Left(task.ev.id))'
          BY <1>0, <1>3, <4>1, <4>2, NumbersOfEvents DEF NotificationInvariant, OnePlace
        <4>8. QED
          BY <4>4, <4>5, <4>6, <4>7 DEF OnePlace
      <3>6. QED
        BY <3>3, <3>4, <3>5
    <2>5. ASSUME NEW e \in outgoing, PublishEvent(e)
          PROVE  <1>5!:
      <3>1. outgoing' = outgoing \ {e} /\ UNCHANGED events /\ e \in Events
        BY <1>3, <2>5 DEF PublishEvent
      <3>2. \/ queue' = queue
            \/ queue' = Append(queue, e) /\ Len(queue) < BusCapacity
        BY <2>5 DEF PublishEvent
      <3>3. /\ queue' \in Seq(Events) /\ Len(queue') <= BusCapacity
            /\ \A i \in 1..Len(queue') : (i \in 1..Len(queue) /\ queue'[i] = queue[i]) \/ queue'[i] = e
            /\ \A i \in 1..Len(queue') : i \notin 1..Len(queue) => i = Len(queue) + 1
        <4>1. CASE queue' = queue
          BY <1>3, <4>1, ConstantsOk
        <4>2. CASE queue' = Append(queue, e) /\ Len(queue) < BusCapacity
          BY <1>3, <3>1, <4>2, ConstantsOk
        <4>3. QED
          BY <3>2, <4>1, <4>2
      <3>4. NotificationTyped'
        BY <1>0, <1>2, <1>3, <3>1, <3>3 DEF NotificationInvariant, NotificationTyped, TypeOK
      <3>5. Created'
        BY <1>0, <1>3, <2>1, <2>2, <2>3, <3>1, <3>3 DEF NotificationInvariant, Created
      <3>6. OnePlace'
        <4>1. \A n \in Nat : Left(n) => Left(n)'
          BY <1>3, <3>1, <3>3 DEF Left
        <4>2. OnePlace /\ NotificationTyped
          BY DEF NotificationInvariant
        <4>3. \A f \in outgoing' : f.id <= events' /\ \A i \in 1..Len(queue') : f.id # queue'[i].id
          BY <3>1, <3>3, <4>2 DEF OnePlace
        <4>4. \A f, g \in outgoing' : f.id = g.id => f = g
          BY <3>1, <4>2 DEF OnePlace
        <4>5. \A i \in 1..Len(queue') : queue'[i].id <= events'
          BY <3>1, <3>3, <4>2 DEF OnePlace
        <4>6. ASSUME NEW i \in 1..Len(queue'), NEW j \in 1..Len(queue'), queue'[i].id = queue'[j].id
              PROVE  i = j
          <5>1. \A k \in 1..Len(queue) : queue[k].id # e.id
            BY <4>2 DEF OnePlace
          <5>2. CASE i \in 1..Len(queue) /\ j \in 1..Len(queue)
            <6>1. queue'[i] = queue[i] /\ queue'[j] = queue[j]
              BY <3>1, <3>2, <5>2, <1>3
            <6>2. QED
              BY <4>2, <4>6, <5>2, <6>1 DEF OnePlace
          <5>3. CASE i \notin 1..Len(queue) /\ j \in 1..Len(queue)
            BY <3>2, <3>3, <4>6, <5>1, <5>3, <1>3
          <5>4. CASE i \in 1..Len(queue) /\ j \notin 1..Len(queue)
            BY <3>2, <3>3, <4>6, <5>1, <5>4, <1>3
          <5>5. QED
            BY <3>3, <5>2, <5>3, <5>4
        <4>7. \A i \in 1..Len(mails') : Left(mails[i].ev)'
          BY <1>0, <4>1, <4>2, NumbersOfEvents DEF OnePlace
        <4>8. task'.pc \in Handling => Left(task.ev.id)'
          BY <1>0, <4>1, <4>2, NumbersOfEvents DEF OnePlace
        <4>9. QED
          BY <4>3, <4>4, <4>5, <4>6, <4>7, <4>8 DEF OnePlace
      <3>7. QED
        BY <3>4, <3>5, <3>6
    <2>6. ASSUME UNCHANGED <<outgoing, events, queue>>
          PROVE  <1>5!:
      <3>1. NotificationTyped'
        BY <1>0, <1>2, <1>3, <2>6 DEF NotificationInvariant, NotificationTyped, TypeOK
      <3>2. Created'
        BY <1>0, <1>3, <2>1, <2>2, <2>3, <2>6 DEF NotificationInvariant, Created
      <3>3. OnePlace'
        BY <1>0, <2>6 DEF NotificationInvariant, OnePlace, Left
      <3>4. QED
        BY <3>1, <3>2, <3>3
    <2>7. QED
      BY <1>4, <2>4, <2>5, <2>6
  <1>6. NoSecondMail'
    <2>1. task.pc \in Handling => ReplyRecipient(task.ev.comment)' \subseteq ReplyRecipient(task.ev.comment)
      <3>1. ASSUME task.pc \in Handling, Parent[task.ev.comment] # None,
                   rows[Parent[task.ev.comment]] \in Absent
            PROVE  rows'[Parent[task.ev.comment]] \in Absent
        <4>1. rows[Parent[task.ev.comment]] = "gone" /\ Parent[task.ev.comment] \in Comments \cup Roots
          BY <3>1, CommentFacts, ConstantsOk DEF Created, Absent
        <4>2. QED
          BY <1>2, <4>1 DEF Absent
      <3>2. QED
        BY <1>0, <3>1 DEF ReplyRecipient
    <2>2. \A u : Sent(u)' <=> Sent(u)
      BY <1>0 DEF Sent
    <2>3. QED
      BY <1>0, <2>1, <2>2 DEF NoSecondMail
  <1>7. OneMailPerEvent' /\ SilentOff' /\ QuietAfterStop'
    BY <1>0 DEF OneMailPerEvent, SilentOff, PrefOf, QuietAfterStop
  <1>8. QED
    BY <1>5, <1>6, <1>7

LEMMA PreferringStep ==
  ASSUME NotificationInvariant, Preferring
  PROVE  NotificationInvariant'
  <1> USE DEF NotificationInvariant
  <1>0. UNCHANGED <<config, world, queue, task, mails, taken, worker, misread>>
    BY DEF Preferring, UnsubscribeRead, UnsubscribeWrite, UpdateNotificationPreferences
  <1>1. /\ prefs \in [Users -> [Kinds -> BOOLEAN] \cup {None}]
        /\ unsub \in [Requests -> UnsubStates]
        /\ silent \subseteq Choosers \X Kinds
    BY DEF NotificationTyped, TypeOK
  <1>2. \/ UNCHANGED <<prefs, silent>> /\ unsub' \in [Requests -> UnsubStates]
        \/ \E u \in Choosers : \E p \in [Kinds -> BOOLEAN] :
              SavePrefs(u, p) /\ unsub' \in [Requests -> UnsubStates]
    <2>1. ASSUME NEW r \in Requests, NEW u \in Choosers, NEW k \in Kinds, UnsubscribeRead(r, u, k)
          PROVE  <1>2!1
      <3>1. PrefOf(u) \in [Kinds -> BOOLEAN]
        BY <1>1, ConstantsOk DEF PrefOf
      <3>2. [PrefOf(u) EXCEPT ![k] = FALSE] \in [Kinds -> BOOLEAN]
        BY <3>1
      <3>3. QED
        BY <1>1, <2>1, <3>2 DEF UnsubscribeRead, UnsubStates
    <2>2. ASSUME NEW r \in Requests, UnsubscribeWrite(r)
          PROVE  <1>2!2
      <3>1. unsub[r] \in [user: Choosers, row: [Kinds -> BOOLEAN]]
        BY <1>1, <2>2 DEF UnsubscribeWrite, UnsubStates
      <3>2. unsub' \in [Requests -> UnsubStates]
        BY <1>1, <2>2 DEF UnsubscribeWrite, SavePrefs, UnsubStates
      <3>3. QED
        BY <2>2, <3>1, <3>2 DEF UnsubscribeWrite
    <2>3. ASSUME NEW r \in Requests, NEW u \in Choosers, NEW p \in [Kinds -> BOOLEAN],
                 UpdateNotificationPreferences(r, u, p)
          PROVE  <1>2!2
      BY <1>1, <2>3 DEF UpdateNotificationPreferences, UnsubStates
    <2>4. QED
      BY <2>1, <2>2, <2>3 DEF Preferring
  <1>3. ASSUME NEW u \in Choosers, NEW p \in [Kinds -> BOOLEAN], SavePrefs(u, p)
        PROVE  /\ prefs' \in [Users -> [Kinds -> BOOLEAN] \cup {None}]
               /\ silent' \subseteq silent /\ SilentOff'
    <2>1. prefs' = [prefs EXCEPT ![u] = p] /\ u \in Users /\ p # None
      BY <1>3, ConstantsOk DEF SavePrefs
    <2>2. silent' = {s \in silent : s[1] = u => ~p[s[2]]}
      BY <1>3 DEF SavePrefs
    <2>3. ASSUME NEW s \in silent'
          PROVE  ~PrefOf(s[1])[s[2]]'
      <3>0. \A x \in Choosers \X Kinds : x[1] \in Choosers
        OBVIOUS
      <3>1. s \in silent /\ s \in Choosers \X Kinds /\ s[1] \in Users /\ (s[1] = u => ~p[s[2]])
        BY <1>1, <2>2, <2>3, <3>0, ConstantsOk
      <3>2. CASE s[1] = u
        <4>1. prefs'[s[1]] = p
          BY <1>1, <2>1, <3>2
        <4>2. QED
          BY <2>1, <3>1, <3>2, <4>1 DEF PrefOf
      <3>3. CASE s[1] # u
        <4>1. prefs'[s[1]] = prefs[s[1]]
          BY <1>1, <2>1, <3>1, <3>3
        <4>2. QED
          BY <3>1, <4>1 DEF PrefOf, SilentOff
      <3>4. QED
        BY <3>2, <3>3
    <2>4. prefs' \in [Users -> [Kinds -> BOOLEAN] \cup {None}] /\ silent' \subseteq silent
      BY <1>1, <2>1, <2>2
    <2>5. QED
      BY <2>3, <2>4 DEF SilentOff
  <1>4. /\ prefs' \in [Users -> [Kinds -> BOOLEAN] \cup {None}] /\ silent' \subseteq silent /\ SilentOff'
        /\ unsub' \in [Requests -> UnsubStates]
    BY <1>1, <1>2, <1>3 DEF SilentOff, PrefOf
  <1>5. NotificationTyped'
    BY <1>0, <1>1, <1>4 DEF NotificationTyped, TypeOK, world
  <1>6. OnePlace' /\ Created' /\ QuietAfterStop' /\ OneMailPerEvent'
    BY <1>0 DEF OnePlace, Left, Created, QuietAfterStop, OneMailPerEvent, world
  <1>7. NoSecondMail'
    BY <1>0 DEF NoSecondMail, Sent, ReplyRecipient, world
  <1>8. QED
    BY <1>4, <1>5, <1>6, <1>7

LEMMA DeliveringStep ==
  ASSUME NotificationInvariant, Delivering
  PROVE  NotificationInvariant'
  <1> USE DEF NotificationInvariant
  <1>0. /\ UNCHANGED <<config, world, prefs, queue, task, mails, unsub, silent, misread>>
    BY DEF Delivering, Worker, WorkerTake, DeliverMail, WorkerExit, WorkerStep
  <1>1. /\ mails \in Seq(Mails) /\ taken \in 0..Len(mails) /\ Len(mails) - taken <= MailCapacity
        /\ worker \in [Workers -> Mails \cup {None, Exited}]
    BY DEF NotificationTyped, TypeOK
  <1>2. ASSUME NEW w \in Workers, Worker(w)
        PROVE  /\ taken' \in 0..Len(mails) /\ Len(mails) - taken' <= MailCapacity
               /\ worker' \in [Workers -> Mails \cup {None, Exited}]
               /\ \A v \in Workers : worker[v] = Exited => worker'[v] = Exited
    <2>1. CASE WorkerTake(w)
      BY <1>1, <2>1, ConstantsOk DEF WorkerTake
    <2>2. CASE DeliverMail(w) \/ WorkerExit(w)
      BY <1>1, <2>2, ConstantsOk DEF DeliverMail, WorkerExit, WorkerStep
    <2>3. QED
      BY <1>2, <2>1, <2>2 DEF Worker
  <1>3. /\ taken' \in 0..Len(mails) /\ Len(mails) - taken' <= MailCapacity
        /\ worker' \in [Workers -> Mails \cup {None, Exited}] /\ QuietAfterStop'
    BY <1>0, <1>2 DEF Delivering, QuietAfterStop
  <1>4. NotificationTyped'
    BY <1>0, <1>1, <1>3 DEF NotificationTyped, TypeOK, world
  <1>5. OnePlace' /\ Created' /\ OneMailPerEvent' /\ SilentOff'
    BY <1>0 DEF OnePlace, Left, Created, OneMailPerEvent, SilentOff, PrefOf, world
  <1>6. NoSecondMail'
    BY <1>0 DEF NoSecondMail, Sent, ReplyRecipient, world
  <1>7. QED
    BY <1>3, <1>4, <1>5, <1>6

LEMMA EndingStep ==
  ASSUME NotificationInvariant, Ending
  PROVE  NotificationInvariant'
  <1>1. UNCHANGED <<config, world, prefs, queue, task, mails, taken, worker, unsub, silent, misread>>
    BY DEF Ending, CancelJob, CloseBus, Terminated, vars
  <1> USE <1>1 DEF NotificationInvariant, world
  <1>2. NotificationTyped'
    BY DEF NotificationTyped, TypeOK
  <1>3. OnePlace' /\ Created' /\ OneMailPerEvent' /\ SilentOff' /\ QuietAfterStop'
    BY DEF OnePlace, Left, Created, OneMailPerEvent, SilentOff, PrefOf, QuietAfterStop
  <1>4. NoSecondMail'
    BY DEF NoSecondMail, Sent, ReplyRecipient
  <1>5. QED
    BY <1>2, <1>3, <1>4

LEMMA NotificationStarts == Init => NotificationInvariant
  <1> SUFFICES ASSUME Init PROVE NotificationInvariant
    OBVIOUS
  <1> USE DEF Init, Idle
  <1>1. /\ task.pc = "idle" /\ task \in Tasks /\ mails = <<>> /\ queue = <<>> /\ outgoing = {} /\ silent = {}
    BY DEF Tasks, Absent
  <1>2. NotificationTyped
    BY <1>1, ConstantsOk DEF NotificationTyped, TypeOK, Handling, Statuses, Absent, UnsubStates
  <1>3. Created
    BY <1>1, ConstantsOk DEF Created, Handling
  <1>4. QED
    BY <1>1, <1>2, <1>3 DEF NotificationInvariant, OnePlace, NoSecondMail, OneMailPerEvent, SilentOff,
                            QuietAfterStop, Handling

LEMMA NotificationSteps == NotificationInvariant /\ [Next]_vars => NotificationInvariant'
  BY StepKinds, TellStep, ChannelStep, TakeStep, StoppingStep, RequestingStep, PreferringStep,
     DeliveringStep, EndingStep

(* The inductive invariant of the pipeline. *)
THEOREM DeliveryInvariant == Spec => []NotificationInvariant
  BY NotificationStarts, NotificationSteps, PTL DEF Spec

(* Types, the capacity of the bus and of the mail queue. *)
THEOREM DeliveryTypeCorrect == Spec => []TypeOK
  <1>1. NotificationInvariant => TypeOK
    BY DEF NotificationInvariant, NotificationTyped
  <1>2. QED
    BY <1>1, DeliveryInvariant, PTL

(* One event sends nobody two mails, whatever happens to rows and preferences meanwhile. *)
THEOREM EventsMailOnce == Spec => []OneMailPerEvent
  <1>1. NotificationInvariant => OneMailPerEvent
    BY DEF NotificationInvariant
  <1>2. QED
    BY <1>1, DeliveryInvariant, PTL

(* No worker runs once the background job has returned. *)
THEOREM StoppedIsQuiet == Spec => []QuietAfterStop
  <1>1. NotificationInvariant => QuietAfterStop
    BY DEF NotificationInvariant
  <1>2. QED
    BY <1>1, DeliveryInvariant, PTL

(* What is appended is a mail to a user who has that kind switched on by now. *)
THEOREM SwitchedOffIsSilent == Spec => UnsubscribedSilent
  <1> DEFINE Kept == Len(mails') > Len(mails) =>
                       LET m == mails'[Len(mails')] IN <<m.to, m.kind>> \notin silent
  <1>1. ASSUME NotificationInvariant, [Next]_vars
        PROVE  Kept
    <2>0. mails \in Seq(Mails) /\ Len(mails) \in Nat
      BY <1>1 DEF NotificationInvariant, NotificationTyped, TypeOK
    <2>1. CASE UNCHANGED mails
      BY <2>0, <2>1
    <2>2. CASE Tell
      <3>1. ASSUME NEW u \in Users, NEW k \in Kinds \cup {"admin"}, OneMore(u, k),
                   k # "admin" => PrefOf(u)[k]
            PROVE  Kept
        <4> DEFINE m == Mail(u, k)
        <4>1. m.to = u /\ m.kind = k /\ m \in Mails
          BY <1>1, <2>2, TellEffect, CommentFacts DEF Mail, Mails, NotificationInvariant
        <4>2. mails' \in {mails, Append(mails, m)}
          BY <3>1 DEF OneMore
        <4> HIDE DEF m
        <4>3. <<u, k>> \notin silent
          BY <1>1, <3>1 DEF NotificationInvariant, NotificationTyped, SilentOff, Kinds
        <4>4. CASE mails' = Append(mails, m)
          <5>1. mails'[Len(mails')] = m
            BY <2>0, <4>1, <4>4
          <5>2. QED
            BY <4>1, <4>3, <5>1
        <4>5. QED
          BY <2>1, <4>2, <4>4
      <3>2. QED
        BY <1>1, <2>1, <2>2, <3>1, TellEffect
    <2>3. CASE TakeEvent \/ Channel \/ Stopping
      BY <2>1, <2>3 DEF TakeEvent, Channel, SendChannels, DispatchChannel, ChannelsDone, Stopping,
                        ConsumeReturns, StopDispatcher
    <2>4. CASE Requesting
      BY <2>1, <2>4 DEF Requesting, CreateComment, DecidePublish, PublishComment, ChangeRow, PublishEvent
    <2>5. CASE Preferring
      BY <2>1, <2>5 DEF Preferring, UnsubscribeRead, UnsubscribeWrite, UpdateNotificationPreferences
    <2>6. CASE Delivering \/ Ending
      BY <2>1, <2>6 DEF Delivering, Worker, WorkerTake, DeliverMail, WorkerExit, WorkerStep,
                        Ending, CancelJob, CloseBus, Terminated, vars
    <2>7. QED
      BY <1>1, <2>2, <2>3, <2>4, <2>5, <2>6, StepKinds
  <1>2. QED
    BY <1>1, DeliveryInvariant, PTL DEF Spec, UnsubscribedSilent

-----------------------------------------------------------------------------
(* Lifecycle: what the hooks that are started say about jobs, requests and resources. *)

AllOpen == {"db", "cache", "bus"}
Stopped == {"stopping", "exited"}

(* Where the runner stands in the hooks, by number: 4 is the jobs', 5 the server's. *)
HookOrder ==
  /\ phase \in Phases /\ started \in 0..5 /\ inflight \in Nat
  /\ job \in [Jobs -> JobStates]
  /\ phase = "starting" => started <= 4
  /\ phase = "running" => started = 5
  /\ open # AllOpen => phase \in Stopped /\ started < 3

(* Jobs run between their hook's start and its stop, unless the stop context ended. *)
JobsWithinHook ==
  /\ phase = "starting" /\ started <= 3 => \A j \in Jobs : job[j] = "off"
  /\ phase \in Stopped /\ started <= 3 => (\A j \in Jobs : job[j] = "gone") \/ stopExpired
  /\ open # AllOpen => \A j \in Jobs : job[j] = "gone"

(* Requests exist while the server serves or drains, and later past its grace only. *)
RequestsWithinServer ==
  /\ phase = "starting" /\ ~listening => server = "off"
  /\ phase \in Stopped /\ started <= 4 => server \in {"off", "returned"}
  /\ server = "off" => inflight = 0
  /\ server = "returned" /\ inflight > 0 => graceExpired
  /\ phase = "starting" /\ started <= 3 => ~listening
  
LifecycleInvariant == HookOrder /\ JobsWithinHook /\ RequestsWithinServer

LEMMA HookAt ==
  ASSUME NEW n \in 1..5
  PROVE  /\ Hooks[n] = "db" <=> n = 1
         /\ Hooks[n] = "cache" <=> n = 2
         /\ Hooks[n] = "bus" <=> n = 3
         /\ Hooks[n] = "jobs" <=> n = 4
         /\ Hooks[n] = "http" <=> n = 5
         /\ Len(Hooks) = 5
  BY DEF Hooks

LEMMA LifecycleStarts == LifecycleInit => LifecycleInvariant
  BY DEF LifecycleInit, LifecycleInvariant, HookOrder, JobsWithinHook, RequestsWithinServer, Phases,
         JobStates, AllOpen, Stopped

LEMMA LifecycleSteps == LifecycleInvariant /\ [LifecycleNext]_lifecycleVars => LifecycleInvariant'
  <1> SUFFICES ASSUME LifecycleInvariant, [LifecycleNext]_lifecycleVars
               PROVE  LifecycleInvariant'
    OBVIOUS
  <1> USE DEF LifecycleInvariant, HookOrder, JobsWithinHook, RequestsWithinServer, Phases, JobStates,
              AllOpen, Stopped, fx, sup, http, probe
  <1>1. CASE StartCleanup
    BY <1>1, HookAt DEF StartCleanup, NextHook
  <1>2. CASE StartJobs
    BY <1>2, HookAt DEF StartJobs, NextHook
  <1>3. CASE BindHTTP
    BY <1>3, HookAt DEF BindHTTP, NextHook
  <1>4. CASE BindFails
    BY <1>4, HookAt DEF BindFails, NextHook
  <1>5. CASE MarkReady
    BY <1>5, HookAt DEF MarkReady, NextHook
  <1>6. CASE BeginStop
    BY <1>6 DEF BeginStop
  <1>7. CASE StopHTTP
    BY <1>7, HookAt DEF StopHTTP, LastHook
  <1>8. CASE HTTPStopped
    <2>1. inflight' > 0 => graceExpired'
      BY <1>8 DEF HTTPStopped
    <2>2. /\ server' = "returned" /\ started = 5 /\ started' = 4 /\ phase = "stopping" /\ inflight' = inflight
          /\ UNCHANGED <<phase, job, stopExpired, open, listening>>
      BY <1>8, HookAt DEF HTTPStopped, LastHook
    <2>3. QED
      BY <2>1, <2>2
  <1>9. CASE StopJobs
    BY <1>9, HookAt DEF StopJobs, LastHook
  <1>10. CASE JobsStopped
    BY <1>10, HookAt DEF JobsStopped, LastHook, JobsDone
  <1>11. CASE StopCleanup
    BY <1>11, HookAt DEF StopCleanup, LastHook
  <1>12. CASE Exit
    BY <1>12 DEF Exit
  <1>13. CASE Supervisor
    BY <1>13 DEF Supervisor, WatchError, WatchCancelled, WatcherCancels
  <1>14. CASE FatalSteps
    BY <1>14 DEF FatalSteps, FatalMarksNotReady, FatalShutsDown
  <1>15. CASE \E j \in Jobs : JobReturns(j) \/ JobRuns(j)
    BY <1>15 DEF JobReturns, JobRuns, JobReports, JobObeys, JobStep
  <1>16. CASE Signal \/ ServeFails \/ RequestStarts \/ RequestEnds \/ StopExpires
    BY <1>16 DEF Signal, ServeFails, RequestStarts, RequestEnds, StopExpires
  <1>17. CASE UNCHANGED lifecycleVars
    BY <1>17 DEF lifecycleVars
  <1>18. QED
    BY <1>1, <1>2, <1>3, <1>4, <1>5, <1>6, <1>7, <1>8, <1>9, <1>10, <1>11, <1>12, <1>13, <1>14,
       <1>15, <1>16, <1>17
       DEF LifecycleNext, Runner, ProcessGone

(* Jobs and, within the grace period, requests end before what they use is closed. *)
THEOREM ResourcesOutliveTheirUsers == LifecycleSpec => []NothingOutlived
  <1>1. LifecycleInvariant => NothingOutlived
    BY DEF LifecycleInvariant, HookOrder, JobsWithinHook, RequestsWithinServer, NothingOutlived,
           AllOpen, Stopped
  <1>2. QED
    BY <1>1, LifecycleStarts, LifecycleSteps, PTL DEF LifecycleSpec
=============================================================================
