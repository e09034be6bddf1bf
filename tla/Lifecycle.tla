----------------------------- MODULE Lifecycle ------------------------------
(* Start and stop of the process: the hooks in the order registerLifecycle     *)
(* appends them, the supervisor of the background jobs, the HTTP server, the   *)
(* readiness flag and the coordinator of fatal errors.  The hook runner itself *)
(* (fx) is external: it starts hooks in order, stops the started ones in       *)
(* reverse order, and skips the remaining ones when its stop context is over.  *)
EXTENDS Naturals, Sequences, SequencesExt, FiniteSets

CONSTANTS Jobs,        \* background jobs
          MaxRequests  \* bound: HTTP requests in flight at a time

Hooks == <<"db", "cache", "bus", "jobs", "http">>

ASSUME BoundOk == MaxRequests \in Nat /\ Jobs # {}

VARIABLES
  phase,        \* what fx is doing
  started,      \* number of hooks that are started
  open,         \* resources in use: database, cache, bus
  job,          \* state of every background job
  errors,       \* the supervisor's error channel
  watcher,      \* the goroutine that waits for the first job error
  jobsCancelled,    \* the jobs' shared context is cancelled
  stopping,     \* the supervisor's flag
  listening,    \* listener bound
  server,       \* Serve: off, serving, draining, returned
  serveError,   \* Serve ended with an error
  inflight,     \* HTTP requests being served
  ready,
  fatal,        \* how far Fatal has come: none, called, done
  exit,         \* exit code of the first shutdown request, None when there is none
  stopExpired,  \* the stop context is over
  graceExpired  \* history: the server gave up waiting for requests

fx == <<phase, started, exit, stopExpired>>
sup == <<job, errors, watcher, jobsCancelled, stopping>>
http == <<listening, server, serveError, inflight, graceExpired>>
probe == <<ready, fatal>>
lifecycleVars == <<fx, sup, http, probe, open>>

Phases == {"starting", "running", "stopping", "exited"}
JobStates == {"off", "running", "failed", "reported", "gone"}
NoExit == 9

LifecycleInit ==
  /\ phase = "starting" /\ started = 0 /\ open = {"db", "cache", "bus"}
  /\ job = [j \in Jobs |-> "off"] /\ errors = 0 /\ watcher = "off"
  /\ jobsCancelled = FALSE /\ stopping = FALSE
  /\ listening = FALSE /\ server = "off" /\ serveError = FALSE /\ inflight = 0
  /\ ready = FALSE /\ fatal = "none" /\ exit = NoExit
  /\ stopExpired = FALSE /\ graceExpired = FALSE

-----------------------------------------------------------------------------
(* Starting. *)

NextHook(h) == phase = "starting" /\ started < Len(Hooks) /\ Hooks[started + 1] = h

StartCleanup ==
  /\ \E h \in {"db", "cache", "bus"} : NextHook(h)
  /\ started' = started + 1
  /\ UNCHANGED <<phase, exit, stopExpired, sup, http, probe, open>>

StartJobs ==
  /\ NextHook("jobs")
  /\ started' = started + 1
  /\ job' = [j \in Jobs |-> "running"]
  /\ watcher' = "waiting"
  /\ UNCHANGED <<phase, exit, stopExpired, errors, jobsCancelled, stopping, http, probe, open>>

(* The listener is bound and Serve runs before the flag is set. *)
BindHTTP ==
  /\ NextHook("http") /\ ~listening
  /\ listening' = TRUE /\ server' = "serving"
  /\ UNCHANGED <<fx, sup, serveError, inflight, graceExpired, probe, open>>

(* A hook that fails ends the start: fx stops what it started. *)
BindFails ==
  /\ NextHook("http") /\ ~listening
  /\ phase' = "stopping"
  /\ exit' = IF exit = NoExit THEN 1 ELSE exit
  /\ UNCHANGED <<started, stopExpired, sup, http, probe, open>>

MarkReady ==
  /\ NextHook("http") /\ listening
  /\ ready' = TRUE /\ started' = started + 1 /\ phase' = "running"
  /\ UNCHANGED <<exit, stopExpired, sup, http, fatal, open>>

-----------------------------------------------------------------------------
(* Jobs and their supervision. *)

JobStep(j, s) ==
  /\ job' = [job EXCEPT ![j] = s]
  /\ UNCHANGED <<fx, watcher, jobsCancelled, stopping, http, probe, open>>

(* Run returns on its own, with an error or without. *)
JobReturns(j) ==
  /\ job[j] = "running"
  /\ JobStep(j, "failed") /\ UNCHANGED errors

(* A return is reported unless the context is done by then. *)
JobReports(j) ==
  /\ job[j] = "failed"
  /\ JobStep(j, IF jobsCancelled THEN "gone" ELSE "reported")
  /\ errors' = IF jobsCancelled THEN errors ELSE errors + 1

(* A cancelled job returns. *)
JobObeys(j) ==
  /\ \/ job[j] = "running" /\ jobsCancelled
     \/ job[j] = "reported"
  /\ JobStep(j, "gone") /\ UNCHANGED errors

JobsDone == \A j \in Jobs : job[j] = "gone"

(* Faulty variant: the error is taken and nobody is told. *)
WatchErrorSilently ==
  /\ watcher = "waiting" /\ errors > 0
  /\ errors' = errors - 1 /\ watcher' = "gone"
  /\ UNCHANGED <<fx, job, jobsCancelled, stopping, http, probe, open>>

(* select: an error and a cancelled context may both be ready. *)
WatchError ==
  /\ watcher = "waiting" /\ errors > 0
  /\ errors' = errors - 1
  /\ watcher' = IF stopping THEN "gone" ELSE "fatal"
  /\ UNCHANGED <<fx, job, jobsCancelled, stopping, http, probe, open>>

WatchCancelled ==
  /\ watcher = "waiting" /\ jobsCancelled
  /\ watcher' = "gone"
  /\ UNCHANGED <<fx, job, errors, jobsCancelled, stopping, http, probe, open>>

WatcherCancels ==
  /\ watcher = "fatal" /\ fatal = "done"
  /\ watcher' = "gone" /\ jobsCancelled' = TRUE
  /\ UNCHANGED <<fx, job, errors, stopping, http, probe, open>>

-----------------------------------------------------------------------------
(* Fatal: once; the flag first, then the request to shut down. *)

FatalMarksNotReady ==
  /\ fatal = "none" /\ (watcher = "fatal" \/ serveError)
  /\ fatal' = "called" /\ ready' = FALSE
  /\ UNCHANGED <<fx, sup, http, open>>

FatalShutsDown ==
  /\ fatal = "called"
  /\ fatal' = "done"
  /\ exit' = IF exit = NoExit THEN 1 ELSE exit
  /\ UNCHANGED <<phase, started, stopExpired, sup, http, ready, open>>

Signal ==
  /\ phase = "running" /\ exit = NoExit
  /\ exit' = 0
  /\ UNCHANGED <<phase, started, stopExpired, sup, http, probe, open>>

ServeFails ==
  /\ server = "serving" /\ server' = "failed" /\ serveError' = TRUE
  /\ UNCHANGED <<fx, sup, listening, inflight, graceExpired, probe, open>>

-----------------------------------------------------------------------------
(* Requests. *)

RequestStarts ==
  /\ server = "serving" /\ inflight < MaxRequests
  /\ inflight' = inflight + 1
  /\ UNCHANGED <<fx, sup, listening, server, serveError, graceExpired, probe, open>>

RequestEnds ==
  /\ inflight > 0 /\ inflight' = inflight - 1
  /\ UNCHANGED <<fx, sup, listening, server, serveError, graceExpired, probe, open>>

-----------------------------------------------------------------------------
(* Stopping: hooks in reverse order while the stop context lasts. *)

BeginStop ==
  /\ phase = "running" /\ exit # NoExit
  /\ phase' = "stopping"
  /\ UNCHANGED <<started, exit, stopExpired, sup, http, probe, open>>

StopExpires ==
  /\ phase = "stopping" /\ ~stopExpired /\ stopExpired' = TRUE
  /\ UNCHANGED <<phase, started, exit, sup, http, probe, open>>

LastHook(h) == phase = "stopping" /\ started > 0 /\ Hooks[started] = h

StopHTTP ==
  /\ LastHook("http") /\ server \in {"serving", "failed"} /\ ~stopExpired /\ ready' = FALSE
  /\ server' = "draining" /\ listening' = FALSE
  /\ UNCHANGED <<fx, sup, serveError, inflight, graceExpired, fatal, open>>

(* Faulty variant: the hook starts the shutdown and does not wait for it. *)
HTTPStoppedAtOnce ==
  /\ LastHook("http") /\ server = "draining"
  /\ started' = started - 1 /\ server' = "returned"
  /\ UNCHANGED <<phase, exit, stopExpired, sup, listening, serveError, inflight, graceExpired, probe, open>>

(* Shutdown returns when the last request ended, or with an error when the grace *)
(* period or the stop context is over; the hook is finished either way.          *)
HTTPStopped ==
  /\ LastHook("http") /\ server = "draining"
  /\ started' = started - 1 /\ server' = "returned"
  /\ graceExpired' = (graceExpired \/ inflight > 0)
  /\ UNCHANGED <<phase, exit, stopExpired, sup, listening, serveError, inflight, probe, open>>

StopJobs ==
  /\ LastHook("jobs") /\ ~stopping /\ ~stopExpired
  /\ stopping' = TRUE /\ jobsCancelled' = TRUE
  /\ UNCHANGED <<fx, job, errors, watcher, http, probe, open>>

(* Faulty variant: the supervisor cancels the jobs and does not wait. *)
JobsStoppedAtOnce ==
  /\ LastHook("jobs") /\ stopping
  /\ started' = started - 1
  /\ UNCHANGED <<phase, exit, stopExpired, sup, http, probe, open>>

JobsStopped ==
  /\ LastHook("jobs") /\ stopping /\ (JobsDone \/ stopExpired)
  /\ started' = started - 1
  /\ UNCHANGED <<phase, exit, stopExpired, sup, http, probe, open>>

(* The event bus, the cache and the database are closed in this order. *)
StopCleanup ==
  /\ \E h \in {"db", "cache", "bus"} : LastHook(h) /\ open' = open \ {h}
  /\ ~stopExpired
  /\ started' = started - 1
  /\ UNCHANGED <<phase, exit, stopExpired, sup, http, probe>>

BetweenHooks ==
  started > 0 => /\ Hooks[started] = "http" => server # "draining"
                 /\ Hooks[started] = "jobs" => ~stopping

Exit ==
  /\ phase = "stopping" /\ (started = 0 \/ (stopExpired /\ BetweenHooks))
  /\ phase' = "exited"
  /\ UNCHANGED <<started, exit, stopExpired, sup, http, probe, open>>

-----------------------------------------------------------------------------

Alive == phase # "exited"

Runner ==
  \/ StartCleanup \/ StartJobs \/ BindHTTP \/ BindFails \/ MarkReady
  \/ BeginStop \/ StopHTTP \/ HTTPStopped \/ StopJobs \/ JobsStopped \/ StopCleanup \/ Exit
Supervisor == WatchError \/ WatchCancelled \/ WatcherCancels
FatalSteps == FatalMarksNotReady \/ FatalShutsDown
JobRuns(j) == JobReports(j) \/ JobObeys(j)

ProcessGone == ~Alive /\ UNCHANGED lifecycleVars

LifecycleNext ==
  \/ /\ Alive
     /\ \/ Runner \/ Supervisor \/ FatalSteps
        \/ \E j \in Jobs : JobReturns(j) \/ JobRuns(j)
        \/ Signal \/ ServeFails \/ RequestStarts \/ RequestEnds \/ StopExpires
  \/ ProcessGone

(* Goroutines run; jobs honour their context.  Nothing forces a signal, a failure, *)
(* a request to end or a context to expire.                                        *)
LifecycleFairness ==
  /\ WF_lifecycleVars(Alive /\ Runner)
  /\ WF_lifecycleVars(Alive /\ Supervisor)
  /\ WF_lifecycleVars(Alive /\ FatalSteps)
  /\ \A j \in Jobs : WF_lifecycleVars(Alive /\ JobRuns(j))

LifecycleSpec == LifecycleInit /\ [][LifecycleNext]_lifecycleVars /\ LifecycleFairness

-----------------------------------------------------------------------------
(* Types of the state; the error channel has a place for every job, so none waits. *)
LifecycleTypeOK ==
  /\ phase \in Phases /\ started \in 0..Len(Hooks)
  /\ open \subseteq {"db", "cache", "bus"}
  /\ job \in [Jobs -> JobStates] /\ errors \in 0..Cardinality(Jobs)
  /\ watcher \in {"off", "waiting", "fatal", "gone"}
  /\ server \in {"off", "serving", "failed", "draining", "returned"}
  /\ inflight \in 0..MaxRequests
  /\ exit \in {0, 1, NoExit}

(* No background job finds the bus, the cache or the database closed, not even when *)
(* it hangs until the stop context is over: then they are not closed at all. And a  *)
(* request finds them closed only when it outlasted the grace period.               *)
NothingOutlived ==
  open # {"db", "cache", "bus"} =>
    /\ \A j \in Jobs : job[j] \in {"off", "gone"}
    /\ inflight > 0 => graceExpired

(* A job that ends by itself ends the process: it never goes on serving without it. *)
JobDeathStops == \A j \in Jobs : job[j] = "failed" ~> phase = "exited"

=============================================================================
