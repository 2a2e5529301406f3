------------------------------ MODULE SelfUpdate ------------------------------
(***************************************************************************)
(* Updating the tool from its own page.  The server puts a request where   *)
(* systemd sees it (src/core/self-update.ts), deploy/update.sh on the host *)
(* takes it away, pulls, restarts the server and writes how far it is, and *)
(* the page reads that every two seconds (web/src/stores/update.ts).       *)
(*                                                                         *)
(* Only the order of times matters: whether the run that wrote the status  *)
(* file began before the request, and whether a waiting request or a run   *)
(* has been silent for too long.  The updater is installed.                *)
(***************************************************************************)
EXTENDS Naturals

CONSTANT MaxRequests     \* bound of the model: requests, and updates by hand
\* Assumed of them.
UpdateConstants == MaxRequests \in Nat

VARIABLES
  request,     \* request.json: none, new, or stale
  script,      \* the run of update.sh: what it does, who started it, and whether
               \* there has been a request since
  status,      \* status.json: state, step, older than the request, stale
  serving,     \* the server can be reached
  polls,       \* a reply, a timer or neither is due at the page
  shown,       \* the page
  requests     \* bound of the model

updateVars == <<request, script, status, serving, polls, shown, requests>>

NoStatus == [state |-> "idle", step |-> "", old |-> TRUE, stale |-> FALSE]
NoRun == [at |-> "idle", by |-> "none", old |-> FALSE]
Run(by) == [at |-> "begin", by |-> by, old |-> FALSE]
NotShown == [state |-> "idle", stale |-> FALSE, loaded |-> FALSE, unreachable |-> FALSE,
             finished |-> FALSE]

-----------------------------------------------------------------------------
(***************************************************************************)
(* The server.                                                             *)
(***************************************************************************)
\* status(): a request that no run has begun after is pending.
Status ==
  IF request # "none" /\ status.old THEN [state |-> "pending", stale |-> request = "stale"]
  ELSE [state |-> status.state, stale |-> status.stale]

Updating(s) == s.state \in {"pending", "running"}

\* What is under way is not requested again, unless it is stuck.
MayRequest == Updating(Status) => Status.stale

\* request().
Requested ==
  /\ request' = "new"
  /\ status' = [status EXCEPT !.old = TRUE]
  /\ script' = [script EXCEPT !.old = script # NoRun]

-----------------------------------------------------------------------------
(***************************************************************************)
(* The host.  The request goes first, so that systemd does not start the   *)
(* script over and over; it never runs it twice at once, and a second run  *)
(* beside one started by hand finds the lock taken and stops.              *)
(***************************************************************************)
SystemdStarts ==
  /\ request # "none" /\ script.by # "systemd"
  /\ request' = "none"
  /\ script' = IF script = NoRun THEN Run("systemd") ELSE script
  /\ UNCHANGED <<status, serving, polls, shown, requests>>

StartedByHand ==
  /\ requests < MaxRequests /\ requests' = requests + 1
  /\ request' = "none"
  /\ script' = IF script = NoRun THEN Run("hand") ELSE script
  /\ UNCHANGED <<status, serving, polls, shown>>

\* write_status, when a step begins: the run may be older than a request.
Step(from, to, state) ==
  /\ script.at \in from
  /\ status' = [state |-> state, step |-> to, old |-> script.old, stale |-> FALSE]
  /\ script' = IF to = "" \/ state = "failed" THEN NoRun ELSE [script EXCEPT !.at = to]

GitPull == Step({"begin"}, "git", "running")
ImagePull == Step({"git"}, "pull", "running")
Up == Step({"git", "pull"}, "up", "running")      \* a build from source pulls no image
Done == serving /\ Step({"up", "restart"}, "", "done")
Fail == \E step \in {"git", "pull", "up", "restart"} : Step({step}, step, "failed")

ScriptStep ==
  /\ GitPull \/ ImagePull \/ Up \/ Done \/ Fail
  /\ UNCHANGED <<request, serving, polls, shown, requests>>

\* The run is killed (30 minutes are up, the host goes down), and says nothing.
Killed ==
  /\ script # NoRun /\ script' = NoRun
  /\ UNCHANGED <<request, status, serving, polls, shown, requests>>

\* The server is built anew; the wait for it to be healthy may fail.
Down ==
  /\ script.at = "up"
  /\ script' = [script EXCEPT !.at = "restart"] /\ serving' = FALSE
  /\ UNCHANGED <<request, status, polls, shown, requests>>

ServerUp ==
  /\ ~serving /\ serving' = TRUE
  /\ UNCHANGED <<request, script, status, polls, shown, requests>>

\* 90 seconds without anyone taking the request, 35 minutes without progress.
TooLong ==
  /\ \/ request = "new" /\ request' = "stale" /\ UNCHANGED status
     \/ /\ status.state = "running" /\ ~status.stale /\ script = NoRun
        /\ status' = [status EXCEPT !.stale = TRUE] /\ UNCHANGED request
  /\ UNCHANGED <<script, serving, polls, shown, requests>>

-----------------------------------------------------------------------------
(***************************************************************************)
(* The page.                                                               *)
(***************************************************************************)
\* applyProgress.
Applied(s) ==
  [state |-> s.state, stale |-> s.stale, loaded |-> TRUE, unreachable |-> FALSE,
   finished |-> IF Updating(shown) /\ ~Updating(s) THEN s.state = "done"
                ELSE shown.finished \/ (~shown.loaded /\ s.state = "done")]

\* Mutant: a reading that fails is the last one.
ScheduleIfRead == polls' = IF Updating(shown') /\ ~shown'.unreachable THEN "timer" ELSE "none"

\* scheduleProgress: once more in two seconds, as long as it updates.
Schedule == polls' = IF Updating(shown') THEN "timer" ELSE "none"

\* loadSelfUpdate, by the timer, every hour, and when the socket connects.
Load ==
  /\ polls = "timer" \/ serving
  /\ shown' = IF serving THEN Applied(Status)
              ELSE [shown EXCEPT !.unreachable = @ \/ Updating(shown)]
  /\ Schedule
  /\ UNCHANGED <<request, script, status, serving, requests>>

\* applyUpdate: the server refuses, or the reply has the state after the request.
ApplyUpdate ==
  /\ requests < MaxRequests /\ requests' = requests + 1
  /\ serving /\ MayRequest /\ (Updating(shown) => shown.stale)
  /\ Requested
  /\ shown' = Applied([state |-> "pending", stale |-> FALSE])
  /\ Schedule
  /\ UNCHANGED serving

DismissFinish ==
  /\ shown.finished
  /\ shown' = [shown EXCEPT !.finished = FALSE]
  /\ UNCHANGED <<request, script, status, serving, polls, requests>>

-----------------------------------------------------------------------------
UpdateInit ==
  /\ request = "none" /\ script = NoRun /\ serving = TRUE /\ polls = "none" /\ requests = 0
  /\ status \in {NoStatus, [NoStatus EXCEPT !.state = "done"]} /\ shown = NotShown

UpdateNext ==
  \/ SystemdStarts \/ StartedByHand \/ ScriptStep \/ Killed \/ Down \/ ServerUp \/ TooLong
  \/ Load \/ ApplyUpdate \/ DismissFinish

UpdateSpec == UpdateInit /\ [][UpdateNext]_updateVars

\* systemd and the script go on, docker brings the server up again, the timer of
\* the page fires, and time passes.
HostDue == SystemdStarts \/ ScriptStep \/ ServerUp
PageDue == polls = "timer" /\ Load
UpdateFairSpec ==
  UpdateSpec /\ WF_updateVars(HostDue) /\ WF_updateVars(PageDue) /\ WF_updateVars(TooLong)

-----------------------------------------------------------------------------
UpdateTypeOK ==
  /\ request \in {"none", "new", "stale"} /\ script.at \in {"idle", "begin", "git", "pull", "up", "restart"}
  /\ status.state \in {"idle", "running", "done", "failed"} /\ serving \in BOOLEAN
  /\ polls \in {"none", "timer"} /\ shown.state \in {"idle", "pending", "running", "done", "failed"}

\* Whoever watches an update is told in the end how it went, or that nobody
\* takes it on, though the server is away in the middle of it, the request is
\* taken by a run that is killed, or by one that stops at the lock.
Awaited == Updating(shown) /\ ~shown.stale
UpdateSettles == Awaited ~> ~Awaited
=============================================================================
