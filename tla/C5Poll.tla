-------------------------------- MODULE C5Poll --------------------------------
(***************************************************************************)
(* The scheduler of src/c5/index.ts: one timer, the cycle it starts, and   *)
(* the serial queue on which cycles and manual jobs take turns.  What a    *)
(* cycle does is C5Sweeper; here it succeeds, fails, or is cut off when    *)
(* the process dies.                                                       *)
(*                                                                         *)
(* The promise chain "tail" is the queue "jobs": its head is running, the  *)
(* rest wait for it.  tick() sets "cycling" when it hands its cycle to the *)
(* queue and clears it when that cycle is over, so a cycle may wait behind *)
(* manual jobs while run state, settings and app-key change.               *)
(***************************************************************************)
EXTENDS Integers, Sequences

CONSTANT MaxJobs   \* bound of the model: jobs in the queue

ASSUME PollConstants == MaxJobs \in Nat \ {0}

VARIABLES
  run,       \* "stopped" or "sweeping"
  key,       \* is an app-key configured
  blocked,   \* sweepBlocker(settings): no trade link or no budget
  shutDown,  \* stop() was called
  timer,     \* Off, or the delay it was set to, in poll intervals
  cycling,   \* a tick has handed its cycle to the queue
  jobs,      \* the queue
  errors     \* cycle.errors: cycles failed in a row

vars == <<run, key, blocked, shutDown, timer, cycling, jobs, errors>>

Off == -1
JobKinds == {"cycle", "manual"}
MaxErrors == 5     \* the delay does not grow beyond this many failures

ActiveWith(r, k) == ~shutDown /\ r # "stopped" /\ k
Active == ActiveWith(run, key)

\* Mutant: kick does not look whether a cycle is out.
KickAlways(r, k) == IF ActiveWith(r, k) THEN 0 ELSE timer

\* kick: at once if active, unless a cycle is out, whose end schedules the
\* next.  r and k are what the handler made of run and key.
Kick(r, k) == IF ActiveWith(r, k) /\ ~cycling THEN 0 ELSE timer

\* Mutant: the delay is not capped.
BackoffUncapped(n) == <<1, 2, 4, 8, 16, 32>>[n + 1]

\* Successive failures double the delay, up to 20 intervals.
Backoff(n) == <<1, 2, 4, 8, 16, 20>>[n + 1]

Init ==
  /\ run = "stopped" /\ key \in BOOLEAN /\ blocked \in BOOLEAN
  /\ shutDown = FALSE
  /\ timer = Off /\ cycling = FALSE /\ jobs = <<>> /\ errors = 0

-----------------------------------------------------------------------------
(***************************************************************************)
(* The timer and the queue.                                                *)
(***************************************************************************)

\* Mutant: tick() does not remember that a cycle is out.
TickUnlatched ==
  /\ timer # Off
  /\ timer' = Off
  /\ jobs' = IF Active /\ ~cycling THEN Append(jobs, "cycle") ELSE jobs
  /\ UNCHANGED <<run, key, blocked, shutDown, cycling, errors>>

\* The timer fires: tick() hands a cycle to the queue.
Tick ==
  /\ timer # Off
  /\ timer' = Off
  /\ IF Active /\ ~cycling
     THEN cycling' = TRUE /\ jobs' = Append(jobs, "cycle")
     ELSE UNCHANGED <<cycling, jobs>>
  /\ UNCHANGED <<run, key, blocked, shutDown, errors>>

\* Mutant: a cycle that failed does not schedule the next.
CycleEndsOnSuccess(n) ==
  /\ jobs # <<>> /\ Head(jobs) = "cycle"
  /\ jobs' = Tail(jobs)
  /\ cycling' = FALSE
  /\ errors' = n
  /\ timer' = IF Active /\ n = 0 THEN Backoff(n) ELSE timer
  /\ UNCHANGED <<run, key, blocked, shutDown>>

\* The running cycle ends, and tick() schedules the next one.
CycleEnds(n) ==
  /\ jobs # <<>> /\ Head(jobs) = "cycle"
  /\ jobs' = Tail(jobs)
  /\ cycling' = FALSE
  /\ errors' = n
  /\ timer' = IF Active THEN Backoff(n) ELSE timer
  /\ UNCHANGED <<run, key, blocked, shutDown>>

CycleSucceeds == CycleEnds(0)
CycleFails == CycleEnds(IF errors < MaxErrors THEN errors + 1 ELSE errors)

\* refreshOrders or resolvePurchase: a page asks for a job.
ManualJob ==
  /\ Len(jobs) < MaxJobs
  /\ jobs' = Append(jobs, "manual")
  /\ UNCHANGED <<run, key, blocked, shutDown, timer, cycling, errors>>

ManualEnds ==
  /\ jobs # <<>> /\ Head(jobs) = "manual"
  /\ jobs' = Tail(jobs)
  /\ UNCHANGED <<run, key, blocked, shutDown, timer, cycling, errors>>

-----------------------------------------------------------------------------
(***************************************************************************)
(* The page, which may act at any moment.                                  *)
(***************************************************************************)
Stop == run' = "stopped" /\ timer' = Off

SetRun(next) ==
  /\ next = "sweeping" => key /\ ~blocked
  /\ IF next = "stopped" /\ run # next THEN Stop
     ELSE run' = next /\ timer' = Kick(next, key)
  /\ UNCHANGED <<key, blocked, shutDown, cycling, jobs, errors>>

\* Mutant: saved without looking whether the sweeper is on.
SaveSettingsUnchecked(k, b) ==
  /\ key' = k /\ blocked' = b
  /\ IF ~k /\ run # "stopped" THEN Stop
     ELSE run' = run /\ timer' = Kick(run, k)
  /\ UNCHANGED <<shutDown, cycling, jobs, errors>>

\* saveSettings: the settings, and with them a new app-key or its deletion.
SaveSettings(k, b) ==
  /\ run = "sweeping" /\ k => ~b
  /\ key' = k /\ blocked' = b
  /\ IF ~k /\ run # "stopped" THEN Stop
     ELSE run' = run /\ timer' = Kick(run, k)
  /\ UNCHANGED <<shutDown, cycling, jobs, errors>>

SaveWatchlist ==
  /\ timer' = Kick(run, key)
  /\ UNCHANGED <<run, key, blocked, shutDown, cycling, jobs, errors>>

-----------------------------------------------------------------------------
(***************************************************************************)
(* The process: orderly stop, and death followed by start().  Run state,   *)
(* settings and app-key are in the database.                               *)
(***************************************************************************)
StopService ==
  /\ shutDown' = TRUE /\ timer' = Off
  /\ UNCHANGED <<run, key, blocked, cycling, jobs, errors>>

Restart ==
  /\ shutDown' = FALSE /\ cycling' = FALSE /\ jobs' = <<>> /\ errors' = 0
  /\ run' = IF run = "sweeping" /\ key /\ ~blocked THEN run ELSE "stopped"
  /\ timer' = IF run' = "sweeping" THEN 0 ELSE Off
  /\ UNCHANGED <<key, blocked>>

-----------------------------------------------------------------------------
Page == \/ \E next \in {"stopped", "sweeping"} : SetRun(next)
        \/ \E k, b \in BOOLEAN : SaveSettings(k, b)
        \/ SaveWatchlist

Next == \/ Tick \/ CycleSucceeds \/ CycleFails \/ ManualJob \/ ManualEnds
        \/ Page \/ StopService \/ Restart

Spec == Init /\ [][Next]_vars

-----------------------------------------------------------------------------
\* Delays are backoff steps and the queue holds jobs, in every state.
PollTypeOK ==
  /\ run \in {"stopped", "sweeping"}
  /\ key \in BOOLEAN /\ blocked \in BOOLEAN /\ shutDown \in BOOLEAN
  /\ timer \in {Off, 0, 1, 2, 4, 8, 16, 20}
  /\ cycling \in BOOLEAN
  /\ jobs \in Seq(JobKinds)
  /\ errors \in 0..MaxErrors

\* Every order of page actions, ticks and slow cycles leaves exactly one way
\* for polling to go on: while active, either the timer is armed or a cycle is
\* out, never neither (polling would stop for good), and never both (two
\* chains of cycles would poll side by side).  When not active, nothing is
\* armed.
OneWakeup == (timer # Off) <=> (Active /\ ~cycling)

\* The queue holds a cycle exactly while tick() waits for one, and never two:
\* slow cycles do not pile up behind manual jobs.
OneCycle ==
  /\ cycling <=> \E i \in DOMAIN jobs : jobs[i] = "cycle"
  /\ \A i, j \in DOMAIN jobs : jobs[i] = "cycle" /\ jobs[j] = "cycle" => i = j

\* Whatever order settings, app-key and run state are saved in, and whatever a
\* restart finds: it never sweeps without an app-key, a trade link and a budget.
NeverUnbudgeted == run = "sweeping" => key /\ ~blocked

\* The polling of src/c5/index.ts: one way on, one cycle, and only with a budget.
PollSound == OneWakeup /\ OneCycle /\ NeverUnbudgeted

-----------------------------------------------------------------------------
(***************************************************************************)
(* Liveness.  The timer fires and every job ends (requests time out).      *)
(***************************************************************************)
JobEnds == CycleSucceeds \/ CycleFails \/ ManualEnds
FairSpec == Spec /\ WF_vars(Tick) /\ WF_vars(JobEnds)

\* As long as the sweeper stays on and the process lives, one cycle after
\* another is run, however often the page saves something in between and
\* however many manual jobs are queued.
KeepsPolling ==
  <>[]Active /\ <>[][~Restart]_vars
    => []<><<CycleSucceeds \/ CycleFails>>_vars
=============================================================================
