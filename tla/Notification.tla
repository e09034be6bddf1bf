---------------------------- MODULE Notification ----------------------------
(* The way of a comment event from the request that committed it to the      *)
(* mails and channel messages it causes: the non-blocking bus                *)
(* (platform/eventbus), the consumer (service/notification), its bounded mail *)
(* dispatcher, the fan-out to channels and the unsubscription link.  Every    *)
(* database read of the consumer is a step of its own or may fail, so rows    *)
(* change between the event and the mail.                                     *)
EXTENDS Naturals, Sequences, FiniteSets

CONSTANTS Users,          \* user ids, numbers
          Comments,       \* comments requests create or moderate
          Roots,          \* published comments that exist from the start
          Author,         \* author of every comment
          Parent,         \* parent of every comment of Comments, None of a root
          None, Exited,   \* no row, idle; a worker or a request that is gone
          Mailable,       \* users with an e-mail address
          Choosers,       \* bound: users who change their preferences
          AdminSets,      \* bound: the sets of active administrators looked at
          Moves,          \* bound: statuses other requests move a comment to
          Workers, Providers,
          Requests,       \* bound: preference requests, each used once
          BusCapacity, MailCapacity, RecipientLimit,
          MaxEvents,      \* bound: events created in a behaviour
          Configs         \* [mailer, moderation, replies, channels : BOOLEAN]

Kinds == {"reply", "moderation"}
EventTypes == {"comment.created", "comment.published"}
Statuses == {"published", "pending", "spam", "deleted"}
Absent == {None, "gone"}    \* never created, hard-deleted
Mails == [ev: 1..MaxEvents, to: Users, kind: Kinds \cup {"admin"}]
Events == [id: 1..MaxEvents, type: EventTypes, comment: Comments]

ASSUME ConstantsOk ==
  /\ Users \subseteq Nat /\ Mailable \subseteq Users /\ Choosers \subseteq Users
  /\ AdminSets \subseteq SUBSET Users /\ Moves \subseteq (Statuses \cup {"gone"}) \ {"published"}
  /\ BusCapacity \in Nat \ {0} /\ MailCapacity \in Nat \ {0}
  /\ RecipientLimit \in Nat \ {0} /\ MaxEvents \in Nat
  /\ Author \in [Comments \cup Roots -> Users]
  /\ Parent \in [Comments -> Comments \cup Roots \cup {None}]
  /\ Comments \cap Roots = {}
  /\ None \notin Comments \cup Roots \cup Statuses \cup {"gone", Exited}
  /\ {None, Exited} \cap (Mails \cup [Kinds -> BOOLEAN]) = {}

VARIABLES
  config,      \* dynamic settings and wiring of the process
  rows,        \* status of every comment, None before its creation
  admins,      \* active administrators
  prefs,       \* stored notification preferences, None when there is no row
  outgoing,    \* events committed by requests that have not called Publish yet
  events,      \* number of events so far
  queue,       \* the bus
  busClosed,
  cancelled,   \* the context of the background job is cancelled
  task,        \* the consumer
  mails,       \* every mail the dispatcher accepted, in order
  taken,       \* how many of them workers took
  worker,      \* mail every worker delivers, None when idle
  unsub,       \* unsubscription requests
  deciding,    \* moderators that read a comment they are going to publish
  silent,      \* history: preferences off since the consumer took its event
  misread      \* history: events whose exclusion read failed

world == <<rows, admins, outgoing, events, deciding>>
vars == <<config, world, prefs, queue, busClosed, cancelled, task, mails, taken,
          worker, unsub, silent, misread>>

Idle == [pc |-> "idle", ev |-> None, status |-> None, todo |-> {}, sending |-> {}]

Init ==
  /\ config \in Configs
  /\ rows = [c \in Comments \cup Roots |-> IF c \in Roots THEN "published" ELSE None]
  /\ admins \in AdminSets
  /\ prefs = [u \in Users |-> None]
  /\ outgoing = {} /\ events = 0 /\ queue = <<>>
  /\ busClosed = FALSE /\ cancelled = FALSE
  /\ task = Idle
  /\ mails = <<>> /\ taken = 0
  /\ worker = [w \in Workers |-> None]
  /\ unsub = [r \in Requests |-> None]
  /\ deciding = {} /\ silent = {} /\ misread = {}

-----------------------------------------------------------------------------
(* Requests: the commit comes first, Publish is a later call. *)

Commit(type, c) ==
  /\ events < MaxEvents
  /\ events' = events + 1
  /\ outgoing' = outgoing \cup {[id |-> events + 1, type |-> type, comment |-> c]}

(* A comment is created with the status the policy and the spam chain chose. *)
CreateComment(c, status) ==
  /\ rows[c] = None
  /\ Parent[c] # None => rows[Parent[c]] = "published"
  /\ rows' = [rows EXCEPT ![c] = status]
  /\ Commit("comment.created", c)
  /\ UNCHANGED <<config, admins, deciding, prefs, queue, busClosed, cancelled, task,
                 mails, taken, worker, unsub, silent, misread>>

(* AdminPublish reads the comment outside any transaction ... *)
DecidePublish(c) ==
  /\ rows[c] \in {"pending", "spam", "deleted"} /\ c \notin deciding
  /\ deciding' = deciding \cup {c}
  /\ UNCHANGED <<config, rows, admins, outgoing, events, prefs, queue, busClosed,
                 cancelled, task, mails, taken, worker, unsub, silent, misread>>

(* ... and writes it later; the event follows the commit, when the policy that is *)
(* read then demands a review.                                                     *)
PublishComment(c) ==
  /\ c \in deciding /\ rows[c] \notin Absent
  /\ deciding' = deciding \ {c}
  /\ rows' = [rows EXCEPT ![c] = "published"]
  /\ Commit("comment.published", c) \/ UNCHANGED <<events, outgoing>>
  /\ UNCHANGED <<config, admins, prefs, queue, busClosed, cancelled, task, mails,
                 taken, worker, unsub, silent, misread>>

(* Other moderation and deletion, which cause no event. *)
ChangeRow(c, status) ==
  /\ rows[c] \notin Absent \cup {status}
  /\ rows' = [rows EXCEPT ![c] = status]
  /\ UNCHANGED <<config, admins, outgoing, events, deciding, prefs, queue, busClosed,
                 cancelled, task, mails, taken, worker, unsub, silent, misread>>

(* Bus.Publish: never waits, drops the event when closed or full. *)
PublishEvent(e) ==
  /\ e \in outgoing
  /\ outgoing' = outgoing \ {e}
  /\ queue' = IF ~busClosed /\ Len(queue) < BusCapacity THEN Append(queue, e) ELSE queue
  /\ UNCHANGED <<config, rows, admins, events, deciding, prefs, busClosed, cancelled,
                 task, mails, taken, worker, unsub, silent, misread>>

-----------------------------------------------------------------------------
(* Preferences. *)

PrefOf(u) == IF prefs[u] = None THEN [k \in Kinds |-> TRUE] ELSE prefs[u]

SavePrefs(u, p) ==
  /\ prefs' = [prefs EXCEPT ![u] = p]
  /\ silent' = {s \in silent : s[1] = u => ~p[s[2]]}

(* Unsubscribe reads the row ... *)
UnsubscribeRead(r, u, kind) ==
  /\ unsub[r] = None
  /\ unsub' = [unsub EXCEPT ![r] = [user |-> u, row |-> [PrefOf(u) EXCEPT ![kind] = FALSE]]]
  /\ UNCHANGED <<config, world, prefs, queue, busClosed, cancelled, task, mails, taken,
                 worker, silent, misread>>

(* ... and upserts all of it. *)
UnsubscribeWrite(r) ==
  /\ unsub[r] \notin {None, Exited}
  /\ SavePrefs(unsub[r].user, unsub[r].row)
  /\ unsub' = [unsub EXCEPT ![r] = Exited]
  /\ UNCHANGED <<config, world, queue, busClosed, cancelled, task, mails, taken, worker,
                 misread>>

UpdateNotificationPreferences(r, u, p) ==
  /\ unsub[r] = None
  /\ SavePrefs(u, p)
  /\ unsub' = [unsub EXCEPT ![r] = Exited]
  /\ UNCHANGED <<config, world, queue, busClosed, cancelled, task, mails, taken, worker,
                 misread>>

(* Faulty variant: a failing read lets the mail through. *)
NotificationEnabledOpen(u, kind, readable) == readable => PrefOf(u)[kind]

(* notificationEnabled: a failing read silences the user. *)
NotificationEnabled(u, kind, readable) == readable /\ PrefOf(u)[kind]

-----------------------------------------------------------------------------
(* The consumer. *)

Submit(mail) ==
  mails' = IF Len(mails) - taken < MailCapacity THEN Append(mails, mail) ELSE mails

Mail(u, kind) == [ev |-> task.ev.id, to |-> u, kind |-> kind]

Silenced == {s \in Choosers \X Kinds : ~PrefOf(s[1])[s[2]]}

(* Faulty variant: the event is looked at and stays on the bus. *)
TakeEventKeeping ==
  /\ task.pc = "idle" /\ queue # <<>>
  /\ task' = [Idle EXCEPT !.pc = "load", !.ev = Head(queue)]
  /\ silent' = Silenced
  /\ UNCHANGED <<config, world, prefs, queue, busClosed, cancelled, mails, taken, worker,
                 unsub, misread>>

(* Consume takes the next event, also when the context is done already: select *)
(* chooses among the ready cases.                                              *)
TakeEvent ==
  /\ task.pc = "idle" /\ queue # <<>>
  /\ task' = [Idle EXCEPT !.pc = "load", !.ev = Head(queue)]
  /\ queue' = Tail(queue)
  /\ silent' = Silenced
  /\ UNCHANGED <<config, world, prefs, busClosed, cancelled, mails, taken, worker, unsub,
                 misread>>

ConsumerStep(t) ==
  /\ task' = t
  /\ UNCHANGED <<config, world, prefs, queue, busClosed, cancelled, taken, worker, unsub,
                 silent>>

(* What handleCreated does after the moderation mails, and after the reply mail. *)
Channelled(status) == config.channels /\ status \in {"published", "pending"}
ToChannels(t) ==
  IF t.ev.type = "comment.created" /\ Channelled(t.status)
  THEN [t EXCEPT !.pc = "channels"] ELSE Idle
ToReply(t) ==
  IF config.mailer /\ t.status = "published" THEN [t EXCEPT !.pc = "reply"]
  ELSE ToChannels(t)

(* Settings, comment and author are read; one failing read ends the event. *)
LoadCreated ==
  /\ task.pc = "load" /\ task.ev.type = "comment.created"
  /\ LET t == [task EXCEPT !.status = rows[task.ev.comment]] IN
     \/ ConsumerStep(Idle)
     \/ /\ t.status \notin Absent
        /\ ConsumerStep(IF config.mailer /\ config.moderation
                        THEN [t EXCEPT !.pc = "admins"] ELSE ToReply(t))
  /\ UNCHANGED <<mails, misread>>

(* Faulty variant: the author who gets the reply mail is not left out. *)
ReplyParentUserNobody(readable) == {}

(* replyParentUserID: nobody is excluded when the parent cannot be read. *)
ReplyParentUser(readable) ==
  LET c == task.ev.comment IN
  IF Parent[c] # None /\ task.status = "published" /\ readable /\ rows[Parent[c]] \notin Absent
  THEN {Author[Parent[c]]} ELSE {}

FirstRecipients(s) == {u \in s : Cardinality({v \in s : v < u}) < RecipientLimit}

ListAdmins ==
  /\ task.pc = "admins"
  /\ \/ ConsumerStep(ToReply(task)) /\ UNCHANGED misread
     \/ \E readable \in BOOLEAN :
          LET to == (admins \cap Mailable)
                       \ ({Author[task.ev.comment]} \cup ReplyParentUser(readable)) IN
          /\ ConsumerStep([task EXCEPT !.pc = "mailing", !.todo = FirstRecipients(to)])
          /\ misread' = IF readable THEN misread ELSE misread \cup {task.ev.id}
  /\ UNCHANGED mails

MailAdmin ==
  /\ task.pc = "mailing"
  /\ \E u \in task.todo :
       /\ \A v \in task.todo : u <= v
       /\ Submit(Mail(u, "admin"))
       /\ ConsumerStep([task EXCEPT !.todo = @ \ {u}])
  /\ UNCHANGED misread

MailedAdmins ==
  /\ task.pc = "mailing" /\ task.todo = {}
  /\ ConsumerStep(ToReply(task))
  /\ UNCHANGED <<mails, misread>>

(* handlePublished does not look at the status the comment has by now. *)
LoadPublished ==
  /\ task.pc = "load" /\ task.ev.type = "comment.published"
  /\ LET c == task.ev.comment IN
     \/ ConsumerStep(Idle) /\ UNCHANGED mails
     \/ /\ config.mailer /\ rows[c] \notin Absent
        /\ ConsumerStep([task EXCEPT !.status = rows[c], !.pc = "reply"])
        /\ \E readable \in BOOLEAN :
             IF Author[c] \in Mailable /\ NotificationEnabled(Author[c], "moderation", readable)
             THEN Submit(Mail(Author[c], "moderation")) ELSE UNCHANGED mails
  /\ UNCHANGED misread

(* sendReplyNotification: settings, parent, its author and the preference. *)
ReplyRecipient(c) ==
  IF Parent[c] # None /\ config.replies /\ rows[Parent[c]] \notin Absent
  THEN ({Author[Parent[c]]} \cap Mailable) \ {Author[c]} ELSE {}

SendReply ==
  /\ task.pc = "reply"
  /\ \E readable \in BOOLEAN :
       LET to == {u \in ReplyRecipient(task.ev.comment) :
                    NotificationEnabled(u, "reply", readable)} IN
       IF to = {} THEN UNCHANGED mails
       ELSE \E u \in to : Submit(Mail(u, "reply"))
  /\ ConsumerStep(ToChannels(task))
  /\ UNCHANGED misread

(* sendChannels: one goroutine per enabled provider, and Wait for all of them. *)
SendChannels ==
  /\ task.pc = "channels"
  /\ \/ ConsumerStep(Idle)
     \/ ConsumerStep([task EXCEPT !.pc = "sending", !.sending = Providers])
  /\ UNCHANGED <<mails, misread>>

(* Faulty variant: a channel is waited for without a limit. *)
DispatchChannelWaiting(p) ==
  /\ task.pc = "sending" /\ p \in task.sending
  /\ ConsumerStep(task)
  /\ UNCHANGED <<mails, misread>>

DispatchChannel(p) ==
  /\ task.pc = "sending" /\ p \in task.sending
  /\ ConsumerStep([task EXCEPT !.sending = @ \ {p}])
  /\ UNCHANGED <<mails, misread>>

ChannelsDone ==
  /\ task.pc = "sending" /\ task.sending = {}
  /\ ConsumerStep(Idle)
  /\ UNCHANGED <<mails, misread>>

(* Consume returns; the deferred stop cancels the workers and waits for them. *)
ConsumeReturns ==
  /\ task.pc = "idle" /\ (cancelled \/ busClosed)
  /\ ConsumerStep([Idle EXCEPT !.pc = "stopping"])
  /\ UNCHANGED <<mails, misread>>

(* Faulty variant: stop cancels the workers and does not wait. *)
StopDispatcherAtOnce ==
  /\ task.pc = "stopping"
  /\ ConsumerStep([Idle EXCEPT !.pc = "stopped"])
  /\ UNCHANGED <<mails, misread>>

StopDispatcher ==
  /\ task.pc = "stopping" /\ \A w \in Workers : worker[w] = Exited
  /\ ConsumerStep([Idle EXCEPT !.pc = "stopped"])
  /\ UNCHANGED <<mails, misread>>

-----------------------------------------------------------------------------
(* Mail workers. *)

WorkersCancelled == cancelled \/ task.pc \in {"stopping", "stopped"}

WorkerTake(w) ==
  /\ worker[w] = None /\ taken < Len(mails)
  /\ taken' = taken + 1
  /\ worker' = [worker EXCEPT ![w] = mails[taken + 1]]
  /\ UNCHANGED <<config, world, prefs, queue, busClosed, cancelled, task, mails, unsub,
                 silent, misread>>

WorkerStep(w, s) ==
  /\ worker' = [worker EXCEPT ![w] = s]
  /\ UNCHANGED <<config, world, prefs, queue, busClosed, cancelled, task, mails, taken,
                 unsub, silent, misread>>

(* deliverMail ends within its timeout, sent or not. *)
DeliverMail(w) == worker[w] \notin {None, Exited} /\ WorkerStep(w, None)
WorkerExit(w) == worker[w] = None /\ WorkersCancelled /\ WorkerStep(w, Exited)

-----------------------------------------------------------------------------
(* The life cycle cancels the job and closes the bus when it has returned. *)

CancelJob ==
  /\ ~cancelled /\ cancelled' = TRUE
  /\ UNCHANGED <<config, world, prefs, queue, busClosed, task, mails, taken, worker,
                 unsub, silent, misread>>

CloseBus ==
  /\ task.pc = "stopped" /\ ~busClosed /\ busClosed' = TRUE
  /\ UNCHANGED <<config, world, prefs, queue, cancelled, task, mails, taken, worker,
                 unsub, silent, misread>>

Consumer ==
  \/ TakeEvent \/ LoadCreated \/ ListAdmins \/ MailAdmin \/ MailedAdmins
  \/ LoadPublished \/ SendReply \/ SendChannels \/ (\E p \in Providers : DispatchChannel(p))
  \/ ChannelsDone \/ ConsumeReturns \/ StopDispatcher

Worker(w) == WorkerTake(w) \/ DeliverMail(w) \/ WorkerExit(w)

(* Nothing has to happen any more once the job has returned. *)
Terminated == busClosed /\ UNCHANGED vars

Next ==
  \/ \E c \in Comments : (\E s \in Statuses \ {"deleted"} : CreateComment(c, s))
                         \/ DecidePublish(c) \/ PublishComment(c)
  \/ \E c \in Comments \cup Roots : \E s \in Moves : ChangeRow(c, s)
  \/ \E e \in outgoing : PublishEvent(e)
  \/ \E r \in Requests :
       \/ \E u \in Choosers, k \in Kinds : UnsubscribeRead(r, u, k)
       \/ UnsubscribeWrite(r)
       \/ \E u \in Choosers, p \in [Kinds -> BOOLEAN] : UpdateNotificationPreferences(r, u, p)
  \/ Consumer
  \/ \E w \in Workers : Worker(w)
  \/ CancelJob \/ CloseBus \/ Terminated

(* Goroutines run: the consumer, the workers and a request that committed. *)
Fairness ==
  /\ WF_vars(Consumer)
  /\ \A w \in Workers : WF_vars(Worker(w))
  /\ WF_vars(\E e \in outgoing : PublishEvent(e))
  /\ WF_vars(CloseBus)

Spec == Init /\ [][Next]_vars /\ Fairness

-----------------------------------------------------------------------------
(* Types of the state. *)
TypeOK ==
  /\ config \in Configs
  /\ rows \in [Comments \cup Roots -> Statuses \cup Absent]
  /\ prefs \in [Users -> [Kinds -> BOOLEAN] \cup {None}]
  /\ outgoing \subseteq Events /\ queue \in Seq(Events)
  /\ Len(queue) <= BusCapacity
  /\ mails \in Seq(Mails) /\ taken \in 0..Len(mails)
  /\ Len(mails) - taken <= MailCapacity
  /\ task.todo \subseteq Users /\ task.sending \subseteq Providers
  /\ worker \in [Workers -> Mails \cup {None, Exited}]

(* One event never sends the same person two mails: an administrator whose     *)
(* comment was answered gets the reply mail and no moderation mail             *)
(* (replyParentUserID), whatever happens to rows and preferences meanwhile.    *)
(* Only a failing read of the parent breaks the rule.                          *)
OneMailPerEvent ==
  \A i, j \in 1..Len(mails) :
    i # j /\ mails[i].ev = mails[j].ev /\ mails[i].to = mails[j].to
      => mails[i].ev \in misread

(* A kind of mail a user has switched off when the consumer takes an event, and *)
(* keeps off, is not sent for that event (notificationEnabled is asked for the  *)
(* recipient and the kind of the mail itself).                                  *)
UnsubscribedSilent ==
  [][Len(mails') > Len(mails) =>
       LET m == mails'[Len(mails')] IN <<m.to, m.kind>> \notin silent]_vars

(* When the background job has returned, nothing of it runs any more: every     *)
(* worker has exited, so the cache and the database may be closed.              *)
QuietAfterStop ==
  task.pc = "stopped" => \A w \in Workers : worker[w] = Exited

(* An accepted event is handled unless the process stops. *)
AcceptedHandled == queue # <<>> ~> queue = <<>> \/ cancelled

(* Once cancelled, the job returns. *)
StopTerminates == cancelled ~> task.pc = "stopped"
=============================================================================
