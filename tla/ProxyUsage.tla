------------------------------ MODULE ProxyUsage ------------------------------
(***************************************************************************)
(* What goes over each proxy: createUsageMeter of src/proxy/usage.ts.      *)
(* Requests are counted in memory, a timer (and every report) writes the   *)
(* counts into the database, where they are kept for KeepDays days.        *)
(*                                                                         *)
(* One proxy, account and kind stands for all; a count stands for the      *)
(* requests and the bytes.                                                 *)
(***************************************************************************)
EXTENDS Integers

CONSTANTS
  KeepDays,    \* KEEP_DAYS
  LastDay,     \* bounds of the model: days, and requests a day
  MaxRequests

ASSUME UsageConstants == KeepDays \in Nat \ {0} /\ LastDay \in Nat /\ MaxRequests \in Nat

VARIABLES
  today,       \* utcDay(now())
  pending,     \* by day, counted and not written
  usage,       \* by day, the rows of proxy_usage
  prunedDay,   \* the day old rows were last deleted, or NoDay
  made,        \* history: by day, the requests made
  dropped      \* history: by day, counts lost by a failed write or a crash

usageVars == <<today, pending, usage, prunedDay, made, dropped>>

NoDay == -1
Days  == 0..LastDay
Zero  == [d \in Days |-> 0]
Plus(f, g) == [d \in Days |-> f[d] + g[d]]

-----------------------------------------------------------------------------
Record ==
  /\ made[today] < MaxRequests
  /\ pending' = [pending EXCEPT ![today] = @ + 1]
  /\ made' = [made EXCEPT ![today] = @ + 1]
  /\ UNCHANGED <<today, usage, prunedDay, dropped>>

\* Mutant: the first of the days to keep goes too.
PrunedLate(rows) == [d \in Days |-> IF d <= today - (KeepDays - 1) THEN 0 ELSE rows[d]]

\* The days before the last KeepDays ones go, once a day.
Pruned(rows) == [d \in Days |-> IF d < today - (KeepDays - 1) THEN 0 ELSE rows[d]]

\* flush: the counts leave memory before they are written.  One transaction
\* writes them and deletes what is old; if it fails they are gone, and if it
\* fails at its end the old rows stay till the next day.
Flush ==
  /\ pending # Zero \/ prunedDay # today
  /\ pending' = Zero
  /\ \/ /\ usage' = IF prunedDay # today THEN Pruned(Plus(usage, pending)) ELSE Plus(usage, pending)
        /\ prunedDay' = today
        /\ UNCHANGED dropped
     \/ /\ dropped' = Plus(dropped, pending)
        /\ prunedDay' \in {prunedDay, today}
        /\ UNCHANGED usage
  /\ UNCHANGED <<today, made>>

\* stop flushes; a crash does not.
MeterCrash ==
  /\ dropped' = Plus(dropped, pending)
  /\ pending' = Zero /\ prunedDay' = NoDay
  /\ UNCHANGED <<today, usage, made>>

NextDay ==
  /\ today < LastDay
  /\ today' = today + 1
  /\ UNCHANGED <<pending, usage, prunedDay, made, dropped>>

UsageInit ==
  /\ today = 0 /\ prunedDay = NoDay
  /\ pending = Zero /\ usage = Zero /\ made = Zero /\ dropped = Zero

UsageNext == Record \/ Flush \/ MeterCrash \/ NextDay

UsageSpec == UsageInit /\ [][UsageNext]_usageVars

-----------------------------------------------------------------------------
UsageTypeOK ==
  /\ today \in Days /\ prunedDay \in Days \cup {NoDay}
  /\ \A f \in {pending, usage, made, dropped} : f \in [Days -> 0..MaxRequests]

\* report(days), of a day: it flushes first, so what is still pending counts.
Reported(d) == usage[d] + pending[d]

\* Of every day that may be asked for, the report has each request once, on the
\* day it was made, whenever writes fail, the process crashes or the day turns
\* between the request and the write; only a failed write or a crash loses any.
UsageCounted ==
  \A d \in Days : d > today - KeepDays => Reported(d) + dropped[d] = made[d]
=============================================================================
