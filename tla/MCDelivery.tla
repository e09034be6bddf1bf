----------------------------- MODULE MCDelivery -----------------------------
(* The two halves of what happens after a commit, checked side by side: the    *)
(* notification pipeline on a small mail queue, and the start and stop of the   *)
(* process.  Every behaviour belongs to one of them; the other stays as it is.  *)
EXTENDS Notification, Lifecycle, TLC

CONSTANTS root, reply

VARIABLE part

MCAuthor == root :> 1 @@ reply :> 2
MCParent == reply :> root
MCAdminSets == {{1, 3}}
MCConfigs == {[mailer |-> m, moderation |-> TRUE, replies |-> TRUE, channels |-> TRUE] :
                m \in BOOLEAN}

MCInit == Init /\ LifecycleInit /\ part \in {"notification", "lifecycle"}

MCNext ==
  \/ part = "notification" /\ Next /\ UNCHANGED <<part, lifecycleVars>>
  \/ part = "lifecycle" /\ LifecycleNext /\ UNCHANGED <<part, vars>>

Delivering == part = "notification"
Running == part = "lifecycle"

(* The fairness of each half, for the behaviours that belong to it. *)
MCSpec ==
  /\ MCInit /\ [][MCNext]_<<part, vars, lifecycleVars>>
  /\ WF_vars(Delivering /\ Consumer)
  /\ \A w \in Workers : WF_vars(Delivering /\ Worker(w))
  /\ WF_vars(Delivering /\ \E e \in outgoing : PublishEvent(e))
  /\ WF_vars(Delivering /\ CloseBus)
  /\ WF_lifecycleVars(Running /\ Alive /\ Runner)
  /\ WF_lifecycleVars(Running /\ Alive /\ Supervisor)
  /\ WF_lifecycleVars(Running /\ Alive /\ FatalSteps)
  /\ \A j \in Jobs : WF_lifecycleVars(Running /\ Alive /\ JobRuns(j))
=============================================================================
