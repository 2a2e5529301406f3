------------------------------ MODULE LoginLimit ------------------------------
(***************************************************************************)
(* The login rate limit of one proxy: createLoginLimiter of                *)
(* src/proxy/login-limit.ts.  At most limit() logons start within a        *)
(* window; the others queue in order of arrival and a timer lets them go.  *)
(*                                                                         *)
(* A start is kept as the time until it leaves the window, so that the     *)
(* clock needs no bound; "recent" remembers, for the properties, what      *)
(* really started, also what the limiter does not record.                  *)
(***************************************************************************)
EXTENDS Integers, Sequences, FiniteSets

CONSTANTS
  Logons,      \* the logons that may be under way at once
  Limits,      \* what the user may set the limit to, 0 for none
  Window,      \* WINDOW_MS, in steps of the clock
  MaxRecent    \* bound of the model: logons started within a window

ASSUME LimitConstants == /\ IsFiniteSet(Logons) /\ Limits \subseteq Nat
                         /\ Window \in Nat \ {0} /\ MaxRecent \in Nat

VARIABLES
  limit,      \* the limit in force
  starts,     \* recorded starts, oldest first
  queue,      \* the waiters
  cancelled,  \* waiters nobody wants any more
  wake,      \* time until pump runs, or Unarmed
  recent,     \* history: starts within the window
  steady      \* history: how long the limit has not changed, up to Window

limitVars == <<limit, starts, queue, cancelled, wake, recent, steady>>
history == <<recent, steady>>

Unarmed == -1
Elements(s) == {s[i] : i \in DOMAIN s}
Times(n) == [i \in 1..n |-> Window]

LimitInit ==
  /\ limit \in Limits
  /\ starts = <<>> /\ queue = <<>> /\ cancelled = {} /\ wake = Unarmed
  /\ recent = <<>> /\ steady = Window

-----------------------------------------------------------------------------
\* prune filters the starts for those still within the window.  Starts are in
\* the order of time (LimitInv of ServicesProofs), so the others are in front.
InWindow(s) == SubSeq(s, Cardinality({i \in DOMAIN s : s[i] <= 0}) + 1, Len(s))

\* Mutant: one too many.
HasRoomForOneMore(max, started) == max = 0 \/ started <= max

HasRoom(max, started) == max = 0 \/ started < max

\* pump: take waiters from the front while there is room, skip the cancelled
\* ones, and set the timer for the rest.
Live(q, n) == Cardinality({i \in 1..n : q[i] \notin cancelled})
Popped(q, max, started) ==
  CHOOSE n \in 0..Len(q) :
    /\ \A i \in 0..n-1 : HasRoom(max, started + Live(q, i))
    /\ n < Len(q) => ~HasRoom(max, started + Live(q, n))

\* Mutant: the timer waits for the newest start to leave the window.
RearmTooLate(rest, now, max) == IF rest = <<>> THEN Unarmed ELSE now[Len(now)]

\* Mutant: the last waiter gets no timer.
RearmExceptLast(rest, now, max) == IF Len(rest) <= 1 THEN Unarmed ELSE now[Len(now) - max + 1]

\* The timer: when the next start leaves room for one more.
Rearm(rest, now, max) == IF rest = <<>> THEN Unarmed ELSE now[Len(now) - max + 1]

Pump(q, max) ==
  LET kept == InWindow(starts)
      n    == Popped(q, max, Len(kept))
      now  == kept \o Times(Live(q, n))
      rest == SubSeq(q, n + 1, Len(q))
  IN  /\ Len(recent) + Live(q, n) <= MaxRecent
      /\ starts' = now
      /\ queue' = rest
      /\ cancelled' = cancelled \cap Elements(rest)
      /\ wake' = Rearm(rest, now, max)
      /\ recent' = recent \o Times(Live(q, n))

\* acquire: start at once if nobody waits and there is room; else queue.
AcquireNow ==
  /\ queue = <<>> /\ HasRoom(limit, Len(InWindow(starts)))
  /\ Len(recent) < MaxRecent
  /\ starts' = InWindow(starts) \o Times(IF limit > 0 THEN 1 ELSE 0)
  /\ recent' = recent \o Times(1)
  /\ UNCHANGED <<limit, queue, cancelled, wake, steady>>

AcquireLater(w) ==
  /\ w \notin Elements(queue)
  /\ queue # <<>> \/ ~HasRoom(limit, Len(InWindow(starts)))
  /\ Pump(Append(queue, w), limit)
  /\ UNCHANGED <<limit, steady>>

\* The session of a waiter is deleted, logged out, or online by itself.
Cancel(w) ==
  /\ w \in Elements(queue) \ cancelled
  /\ cancelled' = cancelled \cup {w}
  /\ UNCHANGED <<limit, starts, queue, wake, history>>

TimerFires ==
  /\ wake = 0
  /\ Pump(queue, limit)
  /\ UNCHANGED <<limit, steady>>

\* The user changes the limit; update() pumps under the new one.
SetLimit(max) ==
  /\ max # limit
  /\ limit' = max
  /\ Pump(queue, max)
  /\ steady' = 0

\* Time passes; a timer that is due may be late.
Later(t) == IF t > 0 THEN t - 1 ELSE t
TimePasses ==
  /\ starts' = [i \in DOMAIN starts |-> Later(starts[i])]
  /\ recent' = InWindow([i \in DOMAIN recent |-> Later(recent[i])])
  /\ wake' = Later(wake)
  /\ steady' = IF steady < Window THEN steady + 1 ELSE steady
  /\ UNCHANGED <<limit, queue, cancelled>>

LimitNext == \/ AcquireNow \/ TimerFires \/ TimePasses
        \/ \E w \in Logons : AcquireLater(w) \/ Cancel(w)
        \/ \E max \in Limits : SetLimit(max)

LimitSpec == LimitInit /\ [][LimitNext]_limitVars

-----------------------------------------------------------------------------
\* The limiter's own bookkeeping: cancelled waiters are in the queue, the timer
\* never waits longer than the window.
LimitTypeOK ==
  /\ limit \in Limits
  /\ starts \in Seq(0..Window) /\ recent \in Seq(1..Window)
  /\ queue \in Seq(Logons) /\ cancelled \subseteq Elements(queue)
  /\ wake \in {Unarmed} \cup 0..Window
  /\ steady \in 0..Window

\* However logons, cancellations, late timers and changes of the limit fall:
\* once the limit has stood for a whole window, no more logons than it allows
\* started within the last window.
WindowKept == limit > 0 /\ steady = Window => Len(recent) <= limit

\* No waiter is forgotten: while somebody waits the timer is armed, and it is
\* due as soon as there is room.
NobodyForgotten ==
  queue # <<>> => /\ wake # Unarmed
                  /\ wake > 0 => ~HasRoom(limit, Len(InWindow(starts)))

\* The limit of createLoginLimiter: neither too many nor too few get through.
LimitKept == WindowKept /\ NobodyForgotten

-----------------------------------------------------------------------------
\* Time passes and the timer fires.
LimitFairSpec == LimitSpec /\ WF_limitVars(TimePasses) /\ WF_limitVars(TimerFires)

\* Everyone who waits is let go or found cancelled in the end, however many
\* queue up behind and however often the limit changes.
EveryoneLeaves == \A w \in Logons : w \in Elements(queue) ~> w \notin Elements(queue)
=============================================================================
