--------------------------- MODULE ServicesProofs ---------------------------
(***************************************************************************)
(* What the services that spend money keep: the poll of the C5 sweeper for *)
(* a queue of any length, purchases in games for any number of tasks, and  *)
(* the batches of purchases and of redemptions for any number of entries,  *)
(* workers and polls; the login rate limit for any number of logons; and   *)
(* the types of all of them together.                                      *)
(***************************************************************************)
EXTENDS MC_Services, FiniteSetTheorems, SequenceTheorems, WellFoundedInduction, TLAPS

-----------------------------------------------------------------------------
(* The poll for listings. *)

\* The type invariant in two halves: Boolean values are for Zenon, the rest
\* for SMT.
Flags == key \in BOOLEAN /\ blocked \in BOOLEAN /\ shutDown \in BOOLEAN /\ cycling \in BOOLEAN
Values == /\ run \in {"stopped", "sweeping"}
          /\ timer \in {Off, 0, 1, 2, 4, 8, 16, 20}
          /\ jobs \in Seq(JobKinds)
          /\ errors \in 0..MaxErrors

\* Together the halves are the type invariant.
LEMMA FlagsAndValues == PollTypeOK <=> Flags /\ Values
  BY Zenon DEF PollTypeOK, Flags, Values

\* No handler, timer or job makes a flag anything but a Boolean.
LEMMA FlagsStep == Flags /\ [Next]_vars => Flags'
<1> SUFFICES ASSUME Flags, [Next]_vars PROVE Flags'
  OBVIOUS
<1> USE DEF Flags
<1>1. CASE Tick
  BY <1>1, Zenon DEF Tick
<1>2. CASE CycleSucceeds \/ CycleFails
  BY <1>2, Zenon DEF CycleSucceeds, CycleFails, CycleEnds
<1>3. CASE ManualJob \/ ManualEnds
  BY <1>3, Zenon DEF ManualJob, ManualEnds
<1>4. CASE Page
  BY <1>4, Zenon DEF Page, SetRun, SaveSettings, SaveWatchlist
<1>5. CASE StopService \/ Restart
  BY <1>5, Zenon DEF StopService, Restart
<1>6. CASE UNCHANGED vars
  BY <1>6, Zenon DEF vars
<1> QED BY <1>1, <1>2, <1>3, <1>4, <1>5, <1>6 DEF Next

\* Nor does one take run state, delay, queue or error count out of range.
LEMMA ValuesStep == Values /\ [Next]_vars => Values'
<1> SUFFICES ASSUME Values, [Next]_vars PROVE Values'
  OBVIOUS
<1> USE DEF Values, Off, MaxErrors, JobKinds
<1>1. CASE Tick
  BY <1>1 DEF Tick
<1>2. ASSUME NEW n \in 0..5, CycleEnds(n) PROVE Values'
  <2>1. Backoff(n) \in {1, 2, 4, 8, 16, 20}
    BY DEF Backoff
  <2> QED BY <1>2, <2>1 DEF CycleEnds
<1>3. CASE CycleSucceeds \/ CycleFails
  <2>1. (IF errors < 5 THEN errors + 1 ELSE errors) \in 0..5
    OBVIOUS
  <2> QED BY <1>2, <1>3, <2>1 DEF CycleSucceeds, CycleFails
<1>4. CASE ManualJob \/ ManualEnds
  BY <1>4, SMTT(30) DEF ManualJob, ManualEnds
<1>5. CASE Page
  <2>1. \A r, k : Kick(r, k) \in {0, timer}
    BY Zenon DEF Kick
  <2>2. ASSUME NEW next \in {"stopped", "sweeping"}, SetRun(next) PROVE Values'
    BY <2>1, <2>2 DEF SetRun, Stop
  <2>3. ASSUME NEW k \in BOOLEAN, NEW b \in BOOLEAN, SaveSettings(k, b) PROVE Values'
    BY <2>1, <2>3 DEF SaveSettings, Stop
  <2>4. CASE SaveWatchlist
    BY <2>1, <2>4 DEF SaveWatchlist
  <2> QED BY <1>5, <2>2, <2>3, <2>4 DEF Page
<1>6. CASE StopService \/ Restart
  <2>1. CASE StopService
    BY <2>1 DEF StopService
  <2>2. CASE Restart
    <3>1. run' \in {"stopped", "sweeping"}
      BY <2>2, Zenon DEF Restart
    <3>2. timer' \in {0, -1}
      BY <2>2, Zenon DEF Restart
    <3> QED BY <2>2, <3>1, <3>2 DEF Restart
  <2> QED BY <1>6, <2>1, <2>2
<1>7. CASE UNCHANGED vars
  BY <1>7 DEF vars
<1> QED BY <1>1, <1>3, <1>4, <1>5, <1>6, <1>7 DEF Next

\* The state the poll starts in is of its types.
LEMMA PollStarts == Init => Flags /\ Values
<1>1. Init => Flags
  BY Zenon DEF Init, Flags
<1>2. Init => Values
  BY DEF Init, Values, MaxErrors, JobKinds, Off
<1> QED BY <1>1, <1>2

\* Type correctness of the scheduler: the delay is Off or one of the backoff
\* steps, the queue a sequence of jobs.
THEOREM PollTypeCorrect == Spec => []PollTypeOK
<1>1. Init => Flags /\ Values
  BY PollStarts
<1>2. (Flags /\ Values) /\ [Next]_vars => (Flags /\ Values)'
  BY FlagsStep, ValuesStep
<1> QED BY <1>1, <1>2, FlagsAndValues, PTL DEF Spec

\* No order of page actions, ticks and slow cycles loses the wake-up of the
\* poller or gives it two.
THEOREM PollNeverLost == Spec => []OneWakeup
<1>1. Init => OneWakeup
  BY DEF Init, OneWakeup, Active, ActiveWith, Off
<1>2. PollTypeOK /\ PollTypeOK' /\ OneWakeup /\ [Next]_vars => OneWakeup'
  <2> SUFFICES ASSUME PollTypeOK, PollTypeOK', OneWakeup, [Next]_vars PROVE OneWakeup'
    OBVIOUS
  <2> USE DEF PollTypeOK, OneWakeup, Active, ActiveWith, Off
  <2>1. CASE Tick
    BY <2>1 DEF Tick
  <2>2. ASSUME NEW n \in 0..5, CycleEnds(n) PROVE OneWakeup'
    <3>1. Backoff(n) # -1
      BY DEF Backoff
    <3> QED BY <2>2, <3>1 DEF CycleEnds
  <2>3. CASE CycleSucceeds \/ CycleFails
    BY <2>2, <2>3 DEF CycleSucceeds, CycleFails, MaxErrors
  <2>4. CASE ManualJob \/ ManualEnds
    BY <2>4 DEF ManualJob, ManualEnds
  <2>5. CASE Page
    BY <2>5 DEF Page, SetRun, SaveSettings, SaveWatchlist, Stop, Kick
  <2>6. CASE StopService
    BY <2>6 DEF StopService
  <2>7. CASE Restart
    BY <2>7 DEF Restart
  <2>8. CASE UNCHANGED vars
    BY <2>8 DEF vars
  <2> QED BY <2>1, <2>3, <2>4, <2>5, <2>6, <2>7, <2>8 DEF Next
<1> QED BY <1>1, <1>2, PollTypeCorrect, PTL DEF Spec

\* tick() and the serial queue agree on whether a cycle is out, and there is
\* never a second one.
THEOREM CyclesNeverPileUp == Spec => []OneCycle
<1>1. Init => OneCycle
  BY DEF Init, OneCycle
<1>2. PollTypeOK /\ OneCycle /\ [Next]_vars => OneCycle'
  <2> SUFFICES ASSUME PollTypeOK, OneCycle, [Next]_vars PROVE OneCycle'
    OBVIOUS
  <2> USE DEF OneCycle
  <2>0. jobs \in Seq(JobKinds) /\ "cycle" # "manual"
    BY DEF PollTypeOK
  <2>1. CASE Tick
    <3>1. CASE Active /\ ~cycling
      <4>1. jobs' = Append(jobs, "cycle") /\ cycling' = TRUE
        BY <2>1, <3>1 DEF Tick
      <4>2. \A i \in DOMAIN jobs : jobs[i] # "cycle"
        BY <3>1
      <4>3. \A i \in DOMAIN jobs' : jobs'[i] = "cycle" <=> i = Len(jobs) + 1
        BY <2>0, <4>1, <4>2
      <4>4. Len(jobs) + 1 \in DOMAIN jobs'
        BY <2>0, <4>1
      <4> QED BY <4>1, <4>3, <4>4
    <3>2. CASE ~(Active /\ ~cycling)
      BY <2>1, <3>2 DEF Tick
    <3> QED BY <3>1, <3>2
  <2>2. ASSUME NEW n, CycleEnds(n) PROVE OneCycle'
    <3>1. jobs # <<>> /\ jobs[1] = "cycle" /\ jobs' = Tail(jobs) /\ cycling' = FALSE
      BY <2>0, <2>2 DEF CycleEnds
    <3>2. \A i \in DOMAIN jobs' : i + 1 \in DOMAIN jobs /\ jobs'[i] = jobs[i + 1] /\ i + 1 # 1
      BY <2>0, <3>1
    <3>3. \A i \in DOMAIN jobs' : jobs'[i] # "cycle"
      BY <2>0, <3>1, <3>2
    <3> QED BY <3>1, <3>3
  <2>3. CASE CycleSucceeds \/ CycleFails
    BY <2>2, <2>3 DEF CycleSucceeds, CycleFails
  <2>4. CASE ManualJob
    <3>1. jobs' = Append(jobs, "manual") /\ cycling' = cycling
      BY <2>4 DEF ManualJob
    <3>2. DOMAIN jobs \subseteq DOMAIN jobs'
      BY <2>0, <3>1
    <3>3. \A i \in DOMAIN jobs' : jobs'[i] = "cycle" => i \in DOMAIN jobs
      BY <2>0, <3>1
    <3>4. \A i \in DOMAIN jobs : jobs'[i] = jobs[i]
      BY <2>0, <3>1
    <3> QED BY <3>1, <3>2, <3>3, <3>4
  <2>5. CASE ManualEnds
    <3>1. jobs # <<>> /\ jobs[1] = "manual" /\ jobs' = Tail(jobs) /\ cycling' = cycling
      BY <2>0, <2>5 DEF ManualEnds
    <3>2. \A i \in DOMAIN jobs' : i \in Nat /\ i + 1 \in DOMAIN jobs /\ jobs'[i] = jobs[i + 1]
      BY <2>0, <3>1
    <3>3. \A i \in DOMAIN jobs : i # 1 => i - 1 \in DOMAIN jobs' /\ jobs'[i - 1] = jobs[i]
      BY <2>0, <3>1
    <3>4. cycling => \E i \in DOMAIN jobs' : jobs'[i] = "cycle"
      BY <2>0, <3>1, <3>3
    <3>5. ~cycling => \A i \in DOMAIN jobs' : jobs'[i] # "cycle"
      BY <3>2
    <3>6. \A i, j \in DOMAIN jobs' : jobs'[i] = "cycle" /\ jobs'[j] = "cycle" => i = j
      <4> SUFFICES ASSUME NEW i \in DOMAIN jobs', NEW j \in DOMAIN jobs',
                          jobs'[i] = "cycle", jobs'[j] = "cycle"
                   PROVE  i = j
        OBVIOUS
      <4>1. i + 1 = j + 1
        BY <3>2
      <4> QED BY <3>2, <4>1
    <3> QED BY <3>1, <3>4, <3>5, <3>6
  <2>6. CASE Page
    BY <2>6 DEF Page, SetRun, SaveSettings, SaveWatchlist
  <2>7. CASE StopService
    BY <2>7 DEF StopService
  <2>8. CASE Restart
    BY <2>8 DEF Restart
  <2>9. CASE UNCHANGED vars
    BY <2>9 DEF vars
  <2> QED BY <2>1, <2>3, <2>4, <2>5, <2>6, <2>7, <2>8, <2>9 DEF Next
<1> QED BY <1>1, <1>2, PollTypeCorrect, PTL DEF Spec

\* No order of saving settings, app-key and run state, and no restart, makes
\* the sweeper sweep without an app-key, a trade link and a budget.
THEOREM SweepsOnlyWithBudget == Spec => []NeverUnbudgeted
<1>1. Init => NeverUnbudgeted
  BY DEF Init, NeverUnbudgeted
<1>2. NeverUnbudgeted /\ [Next]_vars => NeverUnbudgeted'
  <2> SUFFICES ASSUME NeverUnbudgeted, [Next]_vars PROVE NeverUnbudgeted'
    OBVIOUS
  <2> USE DEF NeverUnbudgeted
  <2>1. CASE Tick \/ ManualJob \/ ManualEnds \/ StopService \/ UNCHANGED vars
    BY <2>1, Zenon DEF Tick, ManualJob, ManualEnds, StopService, vars
  <2>2. CASE CycleSucceeds \/ CycleFails
    BY <2>2, Zenon DEF CycleSucceeds, CycleFails, CycleEnds
  <2>3. CASE Page
    BY <2>3 DEF Page, SetRun, SaveSettings, SaveWatchlist, Stop
  <2>4. CASE Restart
    BY <2>4 DEF Restart
  <2> QED BY <2>1, <2>2, <2>3, <2>4 DEF Next
<1> QED BY <1>1, <1>2, PTL DEF Spec

\* The three together: polling goes on in one chain of cycles, and only with a
\* budget.
THEOREM PollIsSound == Spec => []PollSound
  BY PollNeverLost, CyclesNeverPileUp, SweepsOnlyWithBudget, PTL DEF PollSound

-----------------------------------------------------------------------------
(* The pool. *)

\* Inductive: what the workers are at lies before the cursor.
PoolInv ==
  /\ cursor \in 1..Entries + 1 /\ at \in [Workers -> Batch \cup {Idle}]
  /\ EachByOne

PoolStep == (\E w \in Workers : Take(w)) \/ (\E i \in Batch : Leave(i)) \/ UNCHANGED poolVars

\* Nothing is taken when the cursor is at the first entry.
LEMMA PoolStarts == PoolInit => PoolInv
  BY PoolConstants DEF PoolInit, PoolInv, EachByOne, Idle, Batch

\* Taking the entry at the cursor gives it to one worker only, since what the
\* others are at lies before the cursor.
LEMMA PoolKept == PoolInv /\ PoolStep => PoolInv'
<1> SUFFICES ASSUME PoolInv, PoolStep PROVE PoolInv'
  OBVIOUS
<1> USE PoolConstants DEF PoolInv, EachByOne, Idle, Batch
<1>1. ASSUME NEW w \in Workers, Take(w) PROVE PoolInv'
  BY <1>1 DEF Take
<1>2. ASSUME NEW i \in Batch, Leave(i) PROVE PoolInv'
  BY <1>2 DEF Leave
<1>3. CASE UNCHANGED poolVars
  BY <1>3 DEF poolVars
<1> QED BY <1>1, <1>2, <1>3 DEF PoolStep

\* No step of a purchase moves cursor or workers but by taking or leaving an entry.
LEMMA BuyGameUsesPool == [BuyGameNext]_buyGameVars => PoolStep
<1> SUFFICES ASSUME [BuyGameNext]_buyGameVars PROVE PoolStep
  OBVIOUS
<1> USE DEF PoolStep
<1>1. ASSUME NEW w \in Workers, StartEntry(w) PROVE PoolStep
  BY <1>1 DEF StartEntry
<1>2. ASSUME NEW i \in Batch, EntrySteps(i) PROVE PoolStep
  BY <1>2 DEF EntrySteps, CartFilled, InitTransaction, FinalPrice, AfterPrice,
              FinalizeTransaction, TransactionStatus, GoesOn, Fails, EndsAs
<1>3. ASSUME NEW i \in Batch, SteamCharges(i) PROVE PoolStep
  BY <1>3 DEF SteamCharges
<1>4. CASE FinishTask \/ UNCHANGED buyGameVars
  BY <1>4 DEF FinishTask, buyGameVars
<1> QED BY <1>1, <1>2, <1>3, <1>4 DEF BuyGameNext

\* However many accounts a task has and however many are bought for at once:
\* none is taken twice and none is skipped.
THEOREM BoughtByOne == BuyGameSpec => []EachByOne
<1>1. BuyGameInit => PoolInv
  BY PoolStarts DEF BuyGameInit
<1>2. PoolInv /\ [BuyGameNext]_buyGameVars => PoolInv'
  BY PoolKept, BuyGameUsesPool
<1>3. PoolInv => EachByOne
  BY DEF PoolInv
<1> QED BY <1>1, <1>2, <1>3, PTL DEF BuyGameSpec

\* The same of a redemption.
LEMMA RedeemUsesPool == [RedeemNext]_redeemVars => PoolStep
<1> SUFFICES ASSUME [RedeemNext]_redeemVars PROVE PoolStep
  OBVIOUS
<1> USE DEF PoolStep
<1>1. ASSUME NEW w \in Workers, StartPair(w) PROVE PoolStep
  BY <1>1 DEF StartPair
<1>2. ASSUME NEW i \in Batch, PairSteps(i) PROVE PoolStep
  BY <1>2 DEF PairSteps, SlotReady, LoginFails, Redeem, EndPair
<1>3. ASSUME NEW i \in Batch, LoggedOn(i) \/ WebSession(i) \/ ClientError(i) PROVE PoolStep
  BY <1>3 DEF LoggedOn, WebSession, ClientError
<1>4. CASE PushDone \/ UNCHANGED redeemVars
  BY <1>4 DEF PushDone, redeemVars
<1> QED BY <1>1, <1>2, <1>3, <1>4 DEF RedeemNext

\* Nor is a code given to two workers, or left out.
THEOREM RedeemedByOne == RedeemSpec => []EachByOne
<1>1. RedeemInit => PoolInv
  BY PoolStarts DEF RedeemInit
<1>2. PoolInv /\ [RedeemNext]_redeemVars => PoolInv'
  BY PoolKept, RedeemUsesPool
<1>3. PoolInv => EachByOne
  BY DEF PoolInv
<1> QED BY <1>1, <1>2, <1>3, PTL DEF RedeemSpec

-----------------------------------------------------------------------------
(* Purchases in the store. *)

Statuses == {"queued"} \cup Checkout \cup EntryEnds
Transactions == {"none", "open", "charging", "paid", "refused"}

\* Inductive: no entry that has been bought is sent to Steam again.
PaidInv == entry \in [Batch -> Statuses] /\ trans \in [Batch -> Transactions] /\ BoughtIsPaid

\* Neither a request nor what Steam does reports a purchase that is not paid.
LEMMA BoughtStep == PaidInv /\ [BuyGameNext]_buyGameVars => PaidInv'
<1> SUFFICES ASSUME PaidInv, [BuyGameNext]_buyGameVars PROVE PaidInv'
  OBVIOUS
<1> USE DEF PaidInv, BoughtIsPaid, Transactions, Statuses, Checkout, EntryEnds, GoesOn, EndsAs, Fails
<1>1. ASSUME NEW w \in Workers, StartEntry(w) PROVE PaidInv'
  BY <1>1 DEF StartEntry
<1>2. ASSUME NEW i \in Batch, CartFilled(i) \/ FinalPrice(i) PROVE PaidInv'
  BY <1>2 DEF CartFilled, FinalPrice, AfterPrice
<1>3. ASSUME NEW i \in Batch, InitTransaction(i) PROVE PaidInv'
  BY <1>3 DEF InitTransaction
<1>4. ASSUME NEW i \in Batch, FinalizeTransaction(i) PROVE PaidInv'
  BY <1>4 DEF FinalizeTransaction
<1>5. ASSUME NEW i \in Batch, TransactionStatus(i) PROVE PaidInv'
  BY <1>5 DEF TransactionStatus, StatusSays
<1>6. ASSUME NEW i \in Batch, SteamCharges(i) PROVE PaidInv'
  BY <1>6 DEF SteamCharges
<1>7. CASE FinishTask \/ UNCHANGED buyGameVars
  BY <1>7 DEF FinishTask, buyGameVars
<1> QED BY <1>1, <1>2, <1>3, <1>4, <1>5, <1>6, <1>7 DEF BuyGameNext, EntrySteps

\* No lost answer and no interleaving of workers makes the page report an entry
\* as bought that Steam has not charged for.
THEOREM SuccessIsPaid == BuyGameSpec => []BoughtIsPaid
<1>1. BuyGameInit => PaidInv
  BY DEF BuyGameInit, PaidInv, BoughtIsPaid, Transactions, Statuses
<1>2. PaidInv /\ [BuyGameNext]_buyGameVars => PaidInv'
  BY BoughtStep
<1>3. PaidInv => BoughtIsPaid
  BY DEF PaidInv
<1> QED BY <1>1, <1>2, <1>3, PTL DEF BuyGameSpec

\* Inductive: a dry run never comes to the requests that charge.
FreeInv ==
  /\ entry \in [Batch -> Statuses] /\ trans \in [Batch -> Transactions]
  /\ DryRunIsFree
  /\ dryRun => \A i \in Batch : entry[i] \notin {"finalize", "status"}

\* A dry run costs nothing, whichever of its requests fail.
THEOREM DryRunsAreFree == BuyGameSpec => []DryRunIsFree
<1>1. BuyGameInit => FreeInv
  BY DEF BuyGameInit, FreeInv, DryRunIsFree, Transactions, Statuses
<1>2. FreeInv /\ [BuyGameNext]_buyGameVars => FreeInv'
  <2> SUFFICES ASSUME FreeInv, [BuyGameNext]_buyGameVars PROVE FreeInv'
    OBVIOUS
  <2> USE DEF FreeInv, DryRunIsFree, Transactions, Statuses, Checkout, EntryEnds, GoesOn, EndsAs, Fails
  <2>1. ASSUME NEW w \in Workers, StartEntry(w) PROVE FreeInv'
    BY <2>1 DEF StartEntry
  <2>2. ASSUME NEW i \in Batch, CartFilled(i) \/ FinalPrice(i) PROVE FreeInv'
    BY <2>2 DEF CartFilled, FinalPrice, AfterPrice
  <2>3. ASSUME NEW i \in Batch, InitTransaction(i) PROVE FreeInv'
    BY <2>3 DEF InitTransaction
  <2>4. ASSUME NEW i \in Batch, FinalizeTransaction(i) PROVE FreeInv'
    BY <2>4 DEF FinalizeTransaction
  <2>5. ASSUME NEW i \in Batch, TransactionStatus(i) PROVE FreeInv'
    BY <2>5 DEF TransactionStatus, StatusSays
  <2>6. ASSUME NEW i \in Batch, SteamCharges(i) PROVE FreeInv'
    BY <2>6 DEF SteamCharges
  <2>7. CASE FinishTask \/ UNCHANGED buyGameVars
    BY <2>7 DEF FinishTask, buyGameVars
  <2> QED BY <2>1, <2>2, <2>3, <2>4, <2>5, <2>6, <2>7 DEF BuyGameNext, EntrySteps
<1>3. FreeInv => DryRunIsFree
  BY DEF FreeInv
<1> QED BY <1>1, <1>2, <1>3, PTL DEF BuyGameSpec

-----------------------------------------------------------------------------
(* Redemptions. *)

\* Inductive: a pair that has ended has its client logged off, one that has not
\* begun to log on has none, and one not taken yet is queued.
ClientInv ==
  /\ PoolInv
  /\ pair \in [Batch -> {"queued", "slot", "login", "redeem"} \cup PairEnds]
  /\ conn \in [Batch -> {"none", "trying", "loggedOn", "off"}]
  /\ NoClientStays
  /\ \A i \in Batch : pair[i] \in {"queued", "slot"} => conn[i] = "none"
  /\ \A i \in Batch : i >= cursor => pair[i] = "queued"

\* However a redemption ends, its client is logged off.
THEOREM ClientsLeave == RedeemSpec => []NoClientStays
<1>1. RedeemInit => ClientInv
  BY PoolStarts DEF RedeemInit, ClientInv, NoClientStays, PairEnds
<1>2. ClientInv /\ [RedeemNext]_redeemVars => ClientInv'
  <2> SUFFICES ASSUME ClientInv, [RedeemNext]_redeemVars PROVE ClientInv'
    OBVIOUS
  <2>0. PoolInv /\ PoolInv'
    BY PoolKept, RedeemUsesPool DEF ClientInv
  <2>a. cursor \in Int /\ cursor' \in Int /\ Batch \subseteq Int
    BY <2>0, PoolConstants DEF PoolInv, Batch
  <2> USE <2>0, <2>a DEF ClientInv, NoClientStays, PairEnds, EndPair
  <2>1. ASSUME NEW w \in Workers, StartPair(w) PROVE ClientInv'
    <3>1. cursor' = cursor + 1 /\ cursor \in Batch /\ pair[cursor] = "queued"
      BY <2>1, PoolConstants DEF StartPair, Take, PoolInv, Batch
    <3>2. pair' = [pair EXCEPT ![cursor] = "slot"] /\ conn' = conn
      BY <2>1 DEF StartPair
    <3> QED BY <3>1, <3>2
  <2>2. ASSUME NEW i \in Batch, SlotReady(i) PROVE ClientInv'
    BY <2>2 DEF SlotReady, Leave, poolVars
  <2>3. ASSUME NEW i \in Batch, LoginFails(i) PROVE ClientInv'
    BY <2>3 DEF LoginFails, Leave
  <2>4. ASSUME NEW i \in Batch, Redeem(i) PROVE ClientInv'
    BY <2>4 DEF Redeem, Leave
  <2>5. ASSUME NEW i \in Batch, LoggedOn(i) \/ WebSession(i) \/ ClientError(i) PROVE ClientInv'
    BY <2>5 DEF LoggedOn, WebSession, ClientError, poolVars
  <2>6. CASE PushDone \/ UNCHANGED redeemVars
    BY <2>6 DEF PushDone, redeemVars, poolVars
  <2> QED BY <2>1, <2>2, <2>3, <2>4, <2>5, <2>6 DEF RedeemNext, PairSteps
<1>3. ClientInv => NoClientStays
  BY DEF ClientInv
<1> QED BY <1>1, <1>2, <1>3, PTL DEF RedeemSpec

\* Inductive as it stands, over pairs and codes of the right shape.
SuccessInv ==
  /\ pair \in [Batch -> {"queued", "slot", "login", "redeem"} \cup PairEnds]
  /\ code \in [Batch -> {"unused", "redeemed", "bad"}]
  /\ SuccessIsRedeemed

\* What is reported as redeemed has been redeemed: no refusal passes for success.
THEOREM SuccessIsReal == RedeemSpec => []SuccessIsRedeemed
<1>1. RedeemInit => SuccessInv
  BY DEF RedeemInit, SuccessInv, SuccessIsRedeemed, PairEnds
<1>2. SuccessInv /\ [RedeemNext]_redeemVars => SuccessInv'
  <2> SUFFICES ASSUME SuccessInv, [RedeemNext]_redeemVars PROVE SuccessInv'
    OBVIOUS
  <2> USE DEF SuccessInv, SuccessIsRedeemed, PairEnds, EndPair
  <2>1. ASSUME NEW w \in Workers, StartPair(w) PROVE SuccessInv'
    BY <2>1 DEF StartPair
  <2>2. ASSUME NEW i \in Batch, SlotReady(i) PROVE SuccessInv'
    BY <2>2 DEF SlotReady
  <2>3. ASSUME NEW i \in Batch, LoginFails(i) PROVE SuccessInv'
    BY <2>3 DEF LoginFails
  <2>4. ASSUME NEW i \in Batch, Redeem(i) PROVE SuccessInv'
    <3>1. code' = code \/ code' = [code EXCEPT ![i] = "redeemed"]
      BY <2>4 DEF Redeem
    <3>2. pair' = [pair EXCEPT ![i] = "error"]
            \/ (pair' = [pair EXCEPT ![i] = "success"] /\ code' = [code EXCEPT ![i] = "redeemed"])
      BY <2>4 DEF Redeem, SaysRedeemed
    <3> QED BY <3>1, <3>2
  <2>5. ASSUME NEW i \in Batch, LoggedOn(i) \/ WebSession(i) \/ ClientError(i) PROVE SuccessInv'
    BY <2>5 DEF LoggedOn, WebSession, ClientError
  <2>6. CASE PushDone \/ UNCHANGED redeemVars
    BY <2>6 DEF PushDone, redeemVars
  <2> QED BY <2>1, <2>2, <2>3, <2>4, <2>5, <2>6 DEF RedeemNext, PairSteps
<1>3. SuccessInv => SuccessIsRedeemed
  BY DEF SuccessInv
<1> QED BY <1>1, <1>2, <1>3, PTL DEF RedeemSpec

\* A batch in the store: each account buys once, what is reported was paid, and a
\* dry run charges nothing.
THEOREM BuyGameIsHonest == BuyGameSpec => []BuyGameHonest
  BY BoughtByOne, SuccessIsPaid, DryRunsAreFree, PTL DEF BuyGameHonest

\* A job of codes: each is used once, what is reported was redeemed, and no client
\* stays.
THEOREM RedeemIsHonest == RedeemSpec => []RedeemHonest
  BY RedeemedByOne, SuccessIsReal, ClientsLeave, PTL DEF RedeemHonest

-----------------------------------------------------------------------------
(* Purchases in games. *)

Requests == [kind : {"query", "init", "authorize", "finalize"}, task : Tasks, about : Tasks \cup {None}]
Replies == [kind : {"query", "init", "authorize", "finalize"}, task : Tasks, about : Tasks \cup {None},
            ok : BOOLEAN, event : BOOLEAN]
OrderStates == {"none", "open", "paid", "delivered"}
Early == {"queued", "gc", "query", "priced"}
Placed == {"microtxn", "authorize", "finalize"}

\* Whoever works for an order works for its own; an order is made by the one
\* request that places it, and is open till the one request that pays for it.
RequestsKept ==
  \A m \in sent :
    /\ m.kind # "query" => m.about = m.task
    /\ m.kind = "init" => order[m.task] = "none" /\ pc[m.task] \in {"init", "failed"}
    /\ m.kind = "authorize" => order[m.task] = "open" /\ m.task \notin asks \cup stash
RepliesKept ==
  \A m \in replies :
    /\ m.kind # "query" => m.about = m.task
    /\ m.event => MayBroadcast(m)
    /\ m.ok /\ m.kind = "init" => order[m.task] # "none"
    /\ m.ok /\ m.kind = "finalize" => order[m.task] = "delivered"
AsksKept ==
  /\ asks \cap stash = {}
  /\ \A x \in asks \cup stash : order[x] = "open"
TasksKept ==
  \A t \in Tasks :
    /\ pc[t] \in Early => order[t] = "none"
    /\ pc[t] \in Placed => txn[t] = t

PurchaseInv ==
  /\ pc \in [Tasks -> Pcs] /\ txn \in [Tasks -> Tasks \cup {None}]
  /\ order \in [Tasks -> OrderStates]
  /\ sent \subseteq Requests /\ replies \subseteq Replies
  /\ asks \subseteq Tasks /\ stash \subseteq Tasks
  /\ RequestsKept /\ RepliesKept /\ AsksKept /\ TasksKept /\ CompletedIsPaid

Pays == \A m \in Spending' \ Spending : m.about = m.task /\ order[m.task] = "open"

\* A request that is sent is new to what is kept of requests.
LEMMA NewRequest ==
  ASSUME NEW t \in Tasks, NEW kind \in {"query", "init", "authorize", "finalize"}, NEW about \in Tasks \cup {None}
  PROVE  /\ Request(t, kind, about) \in Requests
         /\ Request(t, kind, about).task = t /\ Request(t, kind, about).kind = kind
         /\ Request(t, kind, about).about = about
  BY DEF Request, Requests

\* A reply is taken by the task it was asked for.
LEMMA OnlyTaker ==
  ASSUME PurchaseInv, NEW m \in replies, NEW t \in Takers(m)
  PROVE  t = m.task /\ pc[t] = m.kind /\ t \in Tasks
  BY DEF PurchaseInv, RepliesKept, Takers, MayBroadcast, Replies

\* A task that waits for its transaction or later fails, or goes on as it may.
LEMMA TasksMove ==
  ASSUME PurchaseInv, NEW ts \in SUBSET Tasks, NEW to \in Pcs, pc' = Moved(ts, to)
  PROVE  /\ pc' \in [Tasks -> Pcs]
         /\ \A t \in Tasks : (t \in ts => pc'[t] = to) /\ (t \notin ts => pc'[t] = pc[t])
  BY DEF PurchaseInv, Moved

\* Requests and replies are records of their fields.
LEMMA MessageTypes ==
  ASSUME PurchaseInv
  PROVE  /\ \A m \in sent : m.task \in Tasks /\ m \in Requests
         /\ \A m \in replies : m.task \in Tasks /\ m \in Replies
  BY DEF PurchaseInv, Requests, Replies

\* The game a task was created for is not changed.
LEMMA SameGames == ASSUME UNCHANGED gameOf, NEW m PROVE MayBroadcast(m)' <=> MayBroadcast(m)
  BY DEF MayBroadcast

\* What is there goes on or stops; no new order, no new payment.
LEMMA FailingKeeps ==
  ASSUME PurchaseInv, pc' \in [Tasks -> Pcs],
         \A t \in Tasks : pc'[t] = pc[t] \/ pc'[t] = "failed" \/ (pc[t] = "wallet" /\ pc'[t] = "completed")
                            \/ (pc[t] \in Early /\ pc'[t] \in Early),
         sent' \subseteq sent \cup {m \in Requests : m.kind = "query"}, replies' \subseteq replies,
         asks' \cup stash' \subseteq asks \cup stash, asks' \cap stash' = {}, UNCHANGED <<gameOf, txn, order>>
  PROVE  PurchaseInv' /\ Pays
<1>1. RequestsKept'
  <2> SUFFICES ASSUME NEW m \in sent'
               PROVE  /\ m.kind # "query" => m.about = m.task
                      /\ m.kind = "init" => order[m.task] = "none" /\ pc'[m.task] \in {"init", "failed"}
                      /\ m.kind = "authorize" => order[m.task] = "open" /\ m.task \notin asks' \cup stash'
    BY DEF RequestsKept
  <2>1. CASE m.kind = "query"
    BY <2>1
  <2>2. CASE m \in sent
    <3>1. m.task \in Tasks
      BY <2>2, MessageTypes
    <3>2. pc[m.task] \in {"init", "failed"} => pc'[m.task] \in {"init", "failed"}
      BY <3>1 DEF Early
    <3> QED BY <2>2, <3>2 DEF PurchaseInv, RequestsKept
  <2> QED BY <2>1, <2>2
<1>2. RepliesKept'
  BY SameGames DEF PurchaseInv, RepliesKept
<1>3. AsksKept'
  BY DEF PurchaseInv, AsksKept
<1>4. TasksKept' /\ CompletedIsPaid'
  BY DEF PurchaseInv, TasksKept, CompletedIsPaid, Early, Placed
<1>5. Pays
  BY DEF Pays, Spending
<1> QED BY <1>1, <1>2, <1>3, <1>4, <1>5 DEF PurchaseInv

\* A task begins.
LEMMA BeginKeeps ==
  ASSUME PurchaseInv, NEW t \in Tasks, Begin(t)
  PROVE  PurchaseInv' /\ Pays
<1>1. pc[t] = "queued" /\ UNCHANGED <<gameOf, txn, order, replies, asks, stash>>
  BY DEF Begin, steam
<1>2. /\ pc' = [pc EXCEPT ![t] = pc'[t]] /\ pc'[t] \in {"failed", "query", "gc"}
      /\ sent' \in {sent, sent \cup {Request(t, "query", None)}}
  BY DEF Begin, Send, PurchaseInv
<1>3. pc' \in [Tasks -> Pcs]
  BY <1>2 DEF PurchaseInv, Pcs, Waits, Ends
<1>4. \A u \in Tasks : pc'[u] = pc[u] \/ pc'[u] = "failed" \/ (pc[u] \in Early /\ pc'[u] \in Early)
  BY <1>1, <1>2 DEF PurchaseInv, Early
<1>5. Request(t, "query", None) \in {m \in Requests : m.kind = "query"}
  BY NewRequest
<1> QED BY <1>1, <1>2, <1>3, <1>4, <1>5, FailingKeeps DEF PurchaseInv, AsksKept

\* It orders what it can pay for.
LEMMA PriceCartKeeps ==
  ASSUME PurchaseInv, NEW t \in Tasks, PriceCart(t)
  PROVE  PurchaseInv' /\ Pays
<1> DEFINE r == Request(t, "init", t)
<1>1. pc[t] = "priced" /\ UNCHANGED <<gameOf, txn, order, replies, asks, stash>>
  BY DEF PriceCart, steam
<1>2. \/ pc' = [pc EXCEPT ![t] = "failed"] /\ sent' = sent
      \/ pc' = [pc EXCEPT ![t] = "init"] /\ sent' = sent \cup {r}
  BY DEF PriceCart, Send
<1>3. pc' \in [Tasks -> Pcs] /\ \A u \in Tasks : u # t => pc'[u] = pc[u]
  BY <1>2 DEF PurchaseInv, Pcs, Waits, Ends
<1>4. r \in Requests /\ r.kind = "init" /\ r.task = t /\ r.about = t
  BY NewRequest
<1> HIDE DEF r
<1>5. CASE pc' = [pc EXCEPT ![t] = "failed"] /\ sent' = sent
  BY <1>1, <1>3, <1>5, FailingKeeps DEF PurchaseInv, AsksKept
<1>6. CASE pc' = [pc EXCEPT ![t] = "init"] /\ sent' = sent \cup {r}
  <2>1. pc'[t] = "init" /\ order[t] = "none"
    BY <1>1, <1>6 DEF PurchaseInv, TasksKept, Early
  <2>2. RequestsKept'
    <3>1. ASSUME NEW m \in sent
          PROVE  /\ m.kind # "query" => m.about = m.task
                 /\ m.kind = "init" => order[m.task] = "none" /\ pc'[m.task] \in {"init", "failed"}
                 /\ m.kind = "authorize" => order[m.task] = "open" /\ m.task \notin asks \cup stash
      <4>1. m.task \in Tasks
        BY MessageTypes
      <4> QED BY <1>3, <2>1, <4>1 DEF PurchaseInv, RequestsKept
    <3> QED BY <1>1, <1>4, <1>6, <2>1, <3>1 DEF RequestsKept
  <2>3. RepliesKept' /\ AsksKept'
    BY <1>1, SameGames DEF PurchaseInv, RepliesKept, AsksKept
  <2>4. TasksKept' /\ CompletedIsPaid'
    BY <1>1, <1>3, <2>1 DEF PurchaseInv, TasksKept, CompletedIsPaid, Early, Placed
  <2>5. Pays
    BY <1>4, <1>6 DEF Pays, Spending
  <2> QED BY <1>1, <1>3, <1>4, <1>6, <2>2, <2>3, <2>4, <2>5 DEF PurchaseInv
<1> QED BY <1>2, <1>5, <1>6

\* Payments: tasks that wait for their transaction agree to it.
LEMMA AgreeKeeps ==
  ASSUME PurchaseInv, pc' \in [Tasks -> Pcs], txn' \in [Tasks -> Tasks \cup {None}],
         NEW ts \in SUBSET Tasks, NEW agree \in SUBSET ts,
         \A t \in Tasks : t \notin ts => pc'[t] = pc[t] /\ txn'[t] = txn[t],
         \A t \in ts : /\ pc[t] \in Placed \cup {"init"} /\ txn'[t] = t
                       /\ order[t] # "none"
                       /\ pc'[t] \in {"failed"} \cup Placed,
         sent' \subseteq sent \cup {m \in Requests : /\ m.kind \in {"authorize", "finalize"}
                                                     /\ m.about = m.task /\ m.task \in ts
                                                     /\ m.kind = "authorize" => m.task \in agree},
         agree \cap (asks' \cup stash') = {}, \A t \in agree : order[t] = "open",
         replies' \subseteq replies,
         asks' \cup stash' \subseteq asks \cup stash, asks' \cap stash' = {}, UNCHANGED <<gameOf, order>>
  PROVE  PurchaseInv' /\ Pays
<1>1. RequestsKept'
  <2> SUFFICES ASSUME NEW m \in sent'
               PROVE  /\ m.kind # "query" => m.about = m.task
                      /\ m.kind = "init" => order[m.task] = "none" /\ pc'[m.task] \in {"init", "failed"}
                      /\ m.kind = "authorize" => order[m.task] = "open" /\ m.task \notin asks' \cup stash'
    BY DEF RequestsKept
  <2>1. CASE m \in sent
    <3>1. m.task \in Tasks
      BY <2>1, MessageTypes
    <3>2. m.kind = "init" => pc'[m.task] \in {"init", "failed"}
      BY <2>1, <3>1 DEF PurchaseInv, RequestsKept, Placed
    <3> QED BY <2>1, <3>2 DEF PurchaseInv, RequestsKept
  <2> QED BY <2>1
<1>2. RepliesKept'
  BY SameGames DEF PurchaseInv, RepliesKept
<1>3. AsksKept'
  BY DEF PurchaseInv, AsksKept
<1>4. TasksKept' /\ CompletedIsPaid'
  BY DEF PurchaseInv, TasksKept, CompletedIsPaid, Early, Placed
<1>5. Pays
  BY DEF Pays, Spending
<1> QED BY <1>1, <1>2, <1>3, <1>4, <1>5 DEF PurchaseInv

\* Steam agreed: the items are asked for.
LEMMA FinalizeKeeps ==
  ASSUME PurchaseInv, pc' \in [Tasks -> Pcs], NEW ts \in SUBSET Tasks,
         \A t \in Tasks : t \notin ts => pc'[t] = pc[t],
         \A t \in ts : pc[t] = "authorize" /\ pc'[t] \in {"finalize", "failed"},
         \A r \in sent' : r \in sent \/ (r \in Requests /\ r.kind = "finalize" /\ r.about = r.task),
         replies' \subseteq replies, UNCHANGED <<gameOf, order, txn, asks, stash>>
  PROVE  PurchaseInv' /\ Pays
<1>1. ASSUME NEW m \in sent' PROVE m.kind = "init" => m \in sent /\ pc'[m.task] \in {"init", "failed"}
  <2>1. m \in sent => m.task \in Tasks
    BY MessageTypes
  <2> QED BY <2>1 DEF PurchaseInv, RequestsKept
<1>2. RequestsKept'
  BY <1>1 DEF PurchaseInv, RequestsKept
<1>3. RepliesKept'
  BY SameGames DEF PurchaseInv, RepliesKept
<1>4. TasksKept' /\ CompletedIsPaid' /\ AsksKept'
  BY DEF PurchaseInv, TasksKept, CompletedIsPaid, AsksKept, Early, Placed
<1>5. Pays /\ sent' \subseteq Requests
  BY DEF Pays, Spending, PurchaseInv
<1> QED BY <1>2, <1>3, <1>4, <1>5 DEF PurchaseInv

\* The items are there.
LEMMA DeliveryKeeps ==
  ASSUME PurchaseInv, pc' \in [Tasks -> Pcs], NEW ts \in SUBSET Tasks,
         \A t \in Tasks : t \notin ts => pc'[t] = pc[t],
         \A t \in ts : pc[t] = "finalize" /\ pc'[t] = "wallet" /\ order[t] = "delivered",
         replies' \subseteq replies, UNCHANGED <<gameOf, order, txn, asks, stash, sent>>
  PROVE  PurchaseInv' /\ Pays
<1>1. RequestsKept'
  <2>1. \A m \in sent : m.task \in Tasks
    BY MessageTypes
  <2> QED BY <2>1 DEF PurchaseInv, RequestsKept
<1>2. RepliesKept'
  BY SameGames DEF PurchaseInv, RepliesKept
<1>3. TasksKept' /\ CompletedIsPaid' /\ AsksKept' /\ Pays
  BY DEF PurchaseInv, TasksKept, CompletedIsPaid, AsksKept, Early, Placed, Pays, Spending
<1> QED BY <1>1, <1>2, <1>3 DEF PurchaseInv

\* A reply takes its task a step further.
LEMMA ReplyKeeps ==
  ASSUME PurchaseInv, NEW m \in replies, Reply(m)
  PROVE  PurchaseInv' /\ Pays
<1> DEFINE ts == Takers(m)
<1>0. /\ \A t \in ts : t = m.task /\ pc[t] = m.kind
      /\ ts \in SUBSET Tasks /\ m \in Replies /\ m.task \in Tasks
      /\ m.kind # "query" => m.about = m.task
      /\ m.ok /\ m.kind = "init" => order[m.task] # "none"
      /\ m.ok /\ m.kind = "finalize" => order[m.task] = "delivered"
  BY OnlyTaker, MessageTypes DEF Takers, PurchaseInv, RepliesKept
<1>1. UNCHANGED <<gameOf, asks, order>> /\ replies' \subseteq replies
  BY DEF Reply, steam
<1> HIDE DEF ts
<1>2. CASE pc' = Moved(ts, "failed") /\ UNCHANGED <<txn, stash, sent>>
  <2>1. pc' \in [Tasks -> Pcs] /\ \A t \in Tasks : pc'[t] = pc[t] \/ pc'[t] = "failed"
    BY <1>0, <1>2, TasksMove DEF Pcs, Ends
  <2> QED BY <1>1, <1>2, <2>1, FailingKeeps DEF PurchaseInv, AsksKept
<1>3. CASE m.ok /\ m.kind = "query" /\ pc' = Moved(ts, "priced") /\ UNCHANGED <<txn, stash, sent>>
  <2>1. pc' \in [Tasks -> Pcs] /\ \A t \in Tasks : pc'[t] = pc[t] \/ (pc[t] \in Early /\ pc'[t] \in Early)
    <3>1. pc' \in [Tasks -> Pcs] /\ \A t \in Tasks : (t \in ts => pc'[t] = "priced") /\ (t \notin ts => pc'[t] = pc[t])
      BY <1>0, <1>3, TasksMove DEF Pcs
    <3> QED BY <1>0, <1>3, <3>1 DEF Early
  <2> QED BY <1>1, <1>3, <2>1, FailingKeeps DEF PurchaseInv, AsksKept
<1>4. CASE m.ok /\ m.kind = "init" /\ Ordered(ts, m.about)
  <2>1. \A t \in ts : t = m.task /\ pc[t] = "init" /\ order[t] # "none" /\ m.about = t /\ t \in Tasks
    BY <1>0, <1>4
  <2>2. txn' = [t \in Tasks |-> IF t \in ts THEN m.about ELSE txn[t]]
    BY <1>4 DEF Ordered
  <2>3. /\ txn' \in [Tasks -> Tasks \cup {None}]
        /\ \A t \in ts : txn'[t] = t
        /\ \A t \in Tasks : t \notin ts => txn'[t] = txn[t]
    BY <2>1, <2>2 DEF PurchaseInv
  <2>4. CASE pc' = Moved(ts, "microtxn") /\ UNCHANGED <<stash, sent>>
    <3>1. /\ pc' \in [Tasks -> Pcs]
          /\ \A t \in Tasks : (t \in ts => pc'[t] = "microtxn") /\ (t \notin ts => pc'[t] = pc[t])
      BY <1>0, <2>4, TasksMove DEF Pcs, Waits
    <3> DEFINE nobody == {t \in ts : FALSE}
    <3>2. /\ nobody \in SUBSET ts /\ nobody \cap (asks' \cup stash') = {}
          /\ \A t \in nobody : order[t] = "open"
          /\ asks' \cup stash' \subseteq asks \cup stash /\ asks' \cap stash' = {}
          /\ sent' \subseteq sent
      BY <1>1, <2>4 DEF PurchaseInv, AsksKept
    <3>3. \A t \in ts : /\ pc[t] \in Placed \cup {"init"} /\ txn'[t] = t /\ order[t] # "none"
                        /\ pc'[t] \in {"failed"} \cup Placed
      BY <2>1, <2>3, <3>1 DEF Placed
    <3> HIDE DEF nobody
    <3> QED BY <1>0, <1>1, <2>3, <3>1, <3>2, <3>3, AgreeKeeps, SMTT(30), SMTT(30)
  <2>5. ASSUME NEW first \in ts, NEW y \in stash, MatchMicroTxnRequest(y, m.about, gameOf[m.task]),
               stash' = stash \ {y},
               pc' = [Moved(ts, "microtxn") EXCEPT ![first] = "authorize"],
               sent' = sent \cup {Request(first, "authorize", y)}
        PROVE  PurchaseInv' /\ Pays
    <3>1. y = first /\ first \in Tasks /\ order[first] = "open" /\ first \notin asks
      BY <2>1, <2>5 DEF MatchMicroTxnRequest, PurchaseInv, AsksKept
    <3> DEFINE r == Request(first, "authorize", first)
    <3>2. r \in Requests /\ r.kind = "authorize" /\ r.task = first /\ r.about = first
      BY <3>1, NewRequest
    <3> HIDE DEF r
    <3>3. /\ pc' \in [Tasks -> Pcs]
          /\ \A t \in Tasks : (t \in ts => pc'[t] \in {"microtxn", "authorize"}) /\ (t \notin ts => pc'[t] = pc[t])
      <4>1. Moved(ts, "microtxn") \in [Tasks -> Pcs]
        BY <1>0 DEF Moved, PurchaseInv, Pcs, Waits
      <4>2. \A t \in Tasks : Moved(ts, "microtxn")[t] = IF t \in ts THEN "microtxn" ELSE pc[t]
        BY DEF Moved
      <4> QED BY <2>5, <4>1, <4>2 DEF Pcs, Waits
    <3>4. sent' = sent \cup {r}
      BY <2>5, <3>1 DEF r
    <3>5. {first} \cap (asks' \cup stash') = {} /\ asks' \cup stash' \subseteq asks \cup stash /\ asks' \cap stash' = {}
      BY <1>1, <2>5, <3>1 DEF PurchaseInv, AsksKept
    <3> QED BY <1>0, <1>1, <2>1, <2>3, <3>1, <3>2, <3>3, <3>4, <3>5, AgreeKeeps DEF Placed
  <2>6. \A t \in ts : t = m.task
    BY <2>1
  <2> QED BY <1>4, <2>4, <2>5, <2>6 DEF Ordered
<1>5. CASE m.ok /\ m.kind = "authorize" /\ Finalize(ts) /\ UNCHANGED <<txn, stash>>
  <2>1. \A t \in ts : t = m.task /\ pc[t] = "authorize" /\ t \in Tasks /\ txn[t] = t
    BY <1>0, <1>5 DEF PurchaseInv, TasksKept, Placed
  <2>2. /\ pc' \in [Tasks -> Pcs]
        /\ \A t \in Tasks : (t \in ts => pc'[t] \in {"finalize", "failed"}) /\ (t \notin ts => pc'[t] = pc[t])
    BY <1>5 DEF Finalize, PurchaseInv, Pcs, Waits, Ends
  <2>3. ASSUME NEW r \in sent' PROVE r \in sent \/ (r \in Requests /\ r.kind = "finalize" /\ r.about = r.task /\ r.task \in ts)
    BY <1>5, <2>1, <2>3, NewRequest DEF Finalize
  <2> QED BY <1>0, <1>1, <1>5, <2>1, <2>2, <2>3, FinalizeKeeps
<1>6. CASE m.ok /\ m.kind = "finalize" /\ pc' = Moved(ts, "wallet") /\ UNCHANGED <<txn, stash, sent>>
  <2>1. \A t \in ts : pc[t] = "finalize" /\ order[t] = "delivered"
    BY <1>0, <1>6
  <2>2. /\ pc' \in [Tasks -> Pcs]
        /\ \A t \in Tasks : (t \in ts => pc'[t] = "wallet") /\ (t \notin ts => pc'[t] = pc[t])
    BY <1>0, <1>6, TasksMove DEF Pcs
  <2> QED BY <1>0, <1>1, <1>6, <2>1, <2>2, DeliveryKeeps
<1>7. m.kind \in {"query", "init", "authorize", "finalize"}
  BY <1>0 DEF Replies
<1> QED BY <1>2, <1>3, <1>4, <1>5, <1>6, <1>7 DEF Reply, Rejected, ts

\* Steam asks: the task whose transaction it is agrees, or it waits.
LEMMA MicroTxnKeeps ==
  ASSUME PurchaseInv, NEW x \in asks, MicroTxnRequest(x)
  PROVE  PurchaseInv' /\ Pays
<1> DEFINE ts == {t \in Tasks : pc[t] = "microtxn" /\ MatchMicroTxnRequest(x, txn[t], gameOf[t])}
<1>1. /\ UNCHANGED <<gameOf, order, txn, replies>> /\ asks' = asks \ {x}
      /\ pc' = Moved(ts, "authorize")
      /\ sent' = sent \cup {Request(t, "authorize", x) : t \in ts}
  BY DEF MicroTxnRequest, steam
<1>2. PICK kept \in SUBSET stash : stash' = kept \cup (IF ts = {} THEN {x} ELSE {})
  BY DEF MicroTxnRequest
<1>3. \A t \in ts : t = x /\ pc[t] = "microtxn" /\ txn[t] = t /\ t \in Tasks
  BY DEF PurchaseInv, TasksKept, Placed, MatchMicroTxnRequest
<1>4. x \in Tasks /\ order[x] = "open" /\ x \notin stash
  BY DEF PurchaseInv, AsksKept
<1>5. ts \in SUBSET Tasks /\ "authorize" \in Pcs
  BY DEF Pcs, Waits
<1> HIDE DEF ts
<1>6. /\ pc' \in [Tasks -> Pcs]
      /\ \A t \in Tasks : (t \in ts => pc'[t] = "authorize") /\ (t \notin ts => pc'[t] = pc[t])
  BY <1>1, <1>5, TasksMove
<1>7. ASSUME NEW m \in sent'
      PROVE  m \in sent \/ (m \in Requests /\ m.kind = "authorize" /\ m.about = m.task /\ m.task \in ts)
  BY <1>1, <1>3, <1>7, NewRequest
<1>8. /\ asks' \cup stash' \subseteq asks \cup stash /\ asks' \cap stash' = {}
      /\ ts \cap (asks' \cup stash') = {}
  BY <1>1, <1>2, <1>3, <1>4 DEF PurchaseInv, AsksKept
<1>9. \A t \in ts : order[t] = "open" /\ order[t] # "none"
  BY <1>3, <1>4
<1>10. \A t \in ts : pc[t] \in Placed \cup {"init"} /\ txn'[t] = t /\ pc'[t] \in {"failed"} \cup Placed
  BY <1>1, <1>3, <1>6 DEF Placed
<1>11. /\ txn' \in [Tasks -> Tasks \cup {None}]
       /\ \A t \in Tasks : t \notin ts => pc'[t] = pc[t] /\ txn'[t] = txn[t]
  BY <1>1, <1>6 DEF PurchaseInv
<1>12. sent' \subseteq sent \cup {m \in Requests : /\ m.kind \in {"authorize", "finalize"}
                                                   /\ m.about = m.task /\ m.task \in ts
                                                   /\ m.kind = "authorize" => m.task \in ts}
  BY <1>7
<1> QED BY <1>1, <1>5, <1>6, <1>8, <1>9, <1>10, <1>11, <1>12, AgreeKeeps

\* The GC answers: an order is made, or its items are delivered.
LEMMA AnswersKeep ==
  ASSUME PurchaseInv, NEW m \in sent, GcAnswers(m) \/ SteamPays(m)
  PROVE  PurchaseInv' /\ Pays
<1>1. /\ m \in Requests /\ m.task \in Tasks /\ sent' = sent \ {m}
      /\ UNCHANGED <<gameOf, pc, txn, stash>>
      /\ m.kind # "query" => m.about = m.task
  BY MessageTypes DEF PurchaseInv, RequestsKept, GcAnswers, SteamPays, attempt
<1>2. \A n \in sent' : n \in sent /\ n.task \in Tasks
                       /\ (n.kind \in {"init", "authorize"} /\ n.kind = m.kind => n.task # m.task)
  <2>1. ASSUME NEW n \in sent, n.kind = m.kind, n.task = m.task, n.about = m.about PROVE n = m
    BY <1>1, <2>1, MessageTypes DEF Requests
  <2> QED BY <1>1, <2>1, MessageTypes DEF PurchaseInv, RequestsKept
<1>3. PICK ok \in BOOLEAN, event \in BOOLEAN :
        /\ replies' = replies \cup {Answer(m, ok, event)}
        /\ event => MayBroadcast(m)
        /\ \/ UNCHANGED <<asks, order>> /\ m.kind # "init" /\ (m.kind = "finalize" => ~ok)
           \/ m.kind = "init" /\ ~ok /\ UNCHANGED <<asks, order>>
           \/ m.kind = "init" /\ ok /\ asks' = asks \cup {m.task} /\ order' = [order EXCEPT ![m.task] = "open"]
           \/ /\ m.kind = "finalize" /\ ok /\ UNCHANGED asks
              /\ order[m.task] = "paid" /\ order' = [order EXCEPT ![m.task] = "delivered"]
           \/ m.kind = "authorize" /\ UNCHANGED asks /\ order' = [order EXCEPT ![m.task] = "paid"]
  <2>1. CASE GcAnswers(m)
    <3>1. PICK ok \in BOOLEAN, event \in BOOLEAN :
            /\ event => MayBroadcast(m)
            /\ replies' = replies \cup {Answer(m, ok, event)}
            /\ CASE m.kind = "query" -> UNCHANGED <<asks, order>>
                 [] m.kind = "init" ->
                      /\ asks' = asks \cup (IF ok THEN {m.about} ELSE {})
                      /\ order' = IF ok THEN [order EXCEPT ![m.about] = "open"] ELSE order
                 [] m.kind = "finalize" ->
                      /\ ok => order[m.about] = "paid"
                      /\ order' = IF ok THEN [order EXCEPT ![m.about] = "delivered"] ELSE order
                      /\ UNCHANGED asks
      BY <2>1 DEF GcAnswers
    <3>2. m.kind \in {"query", "init", "finalize"}
      BY <2>1 DEF GcAnswers
    <3>3. CASE ok
      BY <1>1, <3>1, <3>2, <3>3
    <3>4. CASE ~ok
      BY <1>1, <3>1, <3>2, <3>4
    <3> QED BY <3>3, <3>4
  <2>2. CASE SteamPays(m)
    <3> DEFINE pays == order[m.about] = "open" /\ cost[m.about] <= wallet
    <3>1. pays \in BOOLEAN /\ replies' = replies \cup {Answer(m, pays, FALSE)} /\ UNCHANGED asks
          /\ m.kind = "authorize" /\ order' = IF pays THEN [order EXCEPT ![m.about] = "paid"] ELSE order
      BY <2>2 DEF SteamPays
    <3> HIDE DEF pays
    <3> QED BY <1>1, <3>1
  <2> QED BY <2>1, <2>2
<1> DEFINE r == Answer(m, ok, event)
<1>4. r \in Replies /\ r.kind = m.kind /\ r.task = m.task /\ r.about = m.about /\ r.ok = ok /\ r.event = event
  BY <1>1 DEF Answer, Replies, Requests
<1> HIDE DEF r
<1>5. order' \in [Tasks -> OrderStates] /\ asks' \subseteq Tasks /\ replies' \subseteq Replies /\ sent' \subseteq Requests
  BY <1>1, <1>3, <1>4 DEF PurchaseInv, OrderStates, r
<1>6. \A t \in Tasks : /\ t # m.task => order'[t] = order[t]
                       /\ order[t] = "delivered" /\ m.kind # "authorize" => order'[t] = "delivered"
                       /\ m.kind = "query" => order'[t] = order[t]
                       /\ order[t] # "none" => order'[t] # "none"
  <2>1. m.kind = "init" => order[m.task] = "none"
    BY DEF PurchaseInv, RequestsKept
  <2> QED BY <1>1, <1>3, <2>1 DEF PurchaseInv
<1>7. m.kind = "authorize" => order[m.task] = "open"
  BY DEF PurchaseInv, RequestsKept
<1>8. AsksKept'
  <2>1. m.kind = "init" => order[m.task] = "none"
    BY DEF PurchaseInv, RequestsKept
  <2>2. m.kind = "authorize" => m.task \notin asks \cup stash
    BY DEF PurchaseInv, RequestsKept
  <2> QED BY <1>1, <1>3, <1>6, <2>1, <2>2 DEF PurchaseInv, AsksKept
<1>9. RequestsKept'
  <2> SUFFICES ASSUME NEW n \in sent'
               PROVE  /\ n.kind # "query" => n.about = n.task
                      /\ n.kind = "init" => order'[n.task] = "none" /\ pc'[n.task] \in {"init", "failed"}
                      /\ n.kind = "authorize" => order'[n.task] = "open" /\ n.task \notin asks' \cup stash'
    BY DEF RequestsKept
  <2>1. /\ n.kind # "query" => n.about = n.task
        /\ n.kind = "init" => order[n.task] = "none" /\ pc[n.task] \in {"init", "failed"}
        /\ n.kind = "authorize" => order[n.task] = "open" /\ n.task \notin asks \cup stash
        /\ n.task \in Tasks
    BY <1>2 DEF PurchaseInv, RequestsKept
  <2>2. m.kind = "init" => order[m.task] = "none"
    BY DEF PurchaseInv, RequestsKept
  <2>3. n.kind \in {"init", "authorize"} /\ n.task = m.task => UNCHANGED <<order, asks>>
    BY <1>2, <1>3, <1>7, <2>1, <2>2
  <2> QED BY <1>1, <1>3, <1>6, <2>1, <2>3
<1>10. RepliesKept'
  <2>1. MayBroadcast(r)' <=> MayBroadcast(m)
    BY <1>1, <1>4 DEF MayBroadcast
  <2>2. r.ok /\ r.kind = "init" => order'[r.task] # "none"
    BY <1>1, <1>3, <1>4 DEF PurchaseInv
  <2>3. r.ok /\ r.kind = "finalize" => order'[r.task] = "delivered"
    BY <1>1, <1>3, <1>4 DEF PurchaseInv
  <2>4. ASSUME NEW n \in replies
        PROVE  /\ n.kind # "query" => n.about = n.task
               /\ n.event => MayBroadcast(n)'
               /\ n.ok /\ n.kind = "init" => order'[n.task] # "none"
               /\ n.ok /\ n.kind = "finalize" => order'[n.task] = "delivered"
    <3>1. n.task \in Tasks
      BY MessageTypes
    <3>2. order[n.task] = "delivered" => order'[n.task] = "delivered"
      BY <1>6, <1>7, <3>1
    <3> QED BY <1>1, <1>6, <3>1, <3>2, SameGames DEF PurchaseInv, RepliesKept
  <2> QED BY <1>1, <1>3, <1>4, <2>1, <2>2, <2>3, <2>4 DEF RepliesKept, r
<1>11. TasksKept' /\ CompletedIsPaid'
  <2>1. m.kind \in {"authorize", "finalize"} => order[m.task] # "none" \/ UNCHANGED order
    BY <1>3, <1>7
  <2>2. m.kind = "init" => pc[m.task] \in {"init", "failed"}
    BY DEF PurchaseInv, RequestsKept
  <2>3. \A t \in Tasks : pc[t] \in Early => order'[t] = "none"
    BY <1>3, <1>6, <2>1, <2>2 DEF PurchaseInv, TasksKept, Early
  <2>4. \A t \in Tasks : order[t] = "delivered" => order'[t] = "delivered"
    BY <1>6, <1>7
  <2> QED BY <1>1, <2>3, <2>4 DEF PurchaseInv, TasksKept, CompletedIsPaid
<1>12. Pays
  BY <1>1 DEF Pays, Spending
<1> QED BY <1>1, <1>5, <1>8, <1>9, <1>10, <1>11, <1>12 DEF PurchaseInv

\* Connections come and go, with what is on its way.
LEMMA WorldKeeps ==
  ASSUME PurchaseInv,
         \/ \E g \in Games : PageEnters(g) \/ PageLeaves(g) \/ GcConnects(g) \/ GcDrops(g)
         \/ \E t \in Tasks : Timeout(t) \/ WalletTimeout(t)
         \/ WalletEvent \/ Disconnect \/ Relogin \/ UNCHANGED buyVars
  PROVE  PurchaseInv' /\ Pays
<1>1. CASE UNCHANGED <<gameOf, pc, txn, order, sent, replies, asks, stash>>
  BY <1>1, FailingKeeps DEF PurchaseInv, AsksKept
<1>2. ASSUME NEW g \in Games, GcConnects(g) PROVE PurchaseInv' /\ Pays
  <2>1. /\ pc' = Moved(Waiting(g), "query") /\ UNCHANGED <<gameOf, order, txn, replies, asks, stash>>
        /\ sent' = sent \cup {Request(t, "query", None) : t \in Waiting(g)}
    BY <1>2 DEF GcConnects, steam
  <2>2. Waiting(g) \in SUBSET Tasks /\ \A t \in Waiting(g) : pc[t] = "gc"
    BY DEF Waiting
  <2>3. /\ pc' \in [Tasks -> Pcs]
        /\ \A t \in Tasks : (t \in Waiting(g) => pc'[t] = "query") /\ (t \notin Waiting(g) => pc'[t] = pc[t])
    BY <2>1, <2>2, TasksMove DEF Pcs, Waits
  <2>4. \A m \in sent' : m \in sent \/ (m \in Requests /\ m.kind = "query")
    BY <2>1, <2>2, NewRequest
  <2> QED BY <2>1, <2>2, <2>3, <2>4, FailingKeeps DEF PurchaseInv, AsksKept, Early
<1>3. ASSUME NEW t \in Tasks, Timeout(t) \/ WalletTimeout(t) PROVE PurchaseInv' /\ Pays
  <2>1. UNCHANGED <<gameOf, order, txn, sent, replies, asks, stash>>
    BY <1>3 DEF Timeout, WalletTimeout, steam, wire
  <2>2. /\ pc' \in [Tasks -> Pcs]
        /\ \A u \in Tasks : pc'[u] = pc[u] \/ pc'[u] = "failed" \/ (pc[u] = "wallet" /\ pc'[u] = "completed")
    BY <1>3 DEF Timeout, WalletTimeout, PurchaseInv, Pcs, Ends
  <2> QED BY <2>1, <2>2, FailingKeeps DEF PurchaseInv, AsksKept
<1>4. CASE WalletEvent
  <2>1. UNCHANGED <<gameOf, order, txn, sent, replies, asks, stash>> /\ pc' = Moved({t \in Tasks : pc[t] = "wallet"}, "completed")
    BY <1>4 DEF WalletEvent, steam
  <2>2. /\ pc' \in [Tasks -> Pcs]
        /\ \A u \in Tasks : pc'[u] = pc[u] \/ (pc[u] = "wallet" /\ pc'[u] = "completed")
    BY <2>1 DEF Moved, PurchaseInv, Pcs, Ends
  <2> QED BY <2>1, <2>2, FailingKeeps DEF PurchaseInv, AsksKept
<1>5. CASE Disconnect
  <2>1. UNCHANGED <<gameOf, order, pc, txn, stash>> /\ sent' = {} /\ replies' = {} /\ asks' = {}
    BY <1>5 DEF Disconnect, steam
  <2> QED BY <2>1, FailingKeeps DEF PurchaseInv
<1>6. CASE \/ \E g \in Games : PageEnters(g) \/ PageLeaves(g) \/ GcDrops(g)
           \/ Relogin \/ UNCHANGED buyVars
  BY <1>1, <1>6 DEF PageEnters, PageLeaves, GcDrops, Relogin, buyVars, wire, steam
<1> QED BY <1>2, <1>3, <1>4, <1>5, <1>6

LEMMA PaidStep == PurchaseInv /\ [PurchaseNext]_buyVars => PurchaseInv' /\ Pays
  BY BeginKeeps, PriceCartKeeps, ReplyKeeps, MicroTxnKeeps, AnswersKeep, WorldKeeps, Zenon
  DEF PurchaseNext, TaskSteps

LEMMA PaidStarts == PurchaseInit => PurchaseInv
  BY DEF PurchaseInit, PurchaseInv, RequestsKept, RepliesKept, AsksKept, TasksKept, CompletedIsPaid,
         Pcs, OrderStates, Early, Placed

\* A payment is agreed to by the task whose order it is, while that is unpaid:
\* no stashed request of an earlier purchase is paid, and none twice.
THEOREM SpendsForItself == PurchaseSpec => PaidByItsTask
<1>1. PurchaseInv /\ [PurchaseNext]_buyVars => [Pays]_buyVars
  BY PaidStep
<1>2. PurchaseInv /\ [PurchaseNext]_buyVars => PurchaseInv'
  BY PaidStep
<1> QED BY <1>1, <1>2, PaidStarts, PTL DEF PurchaseSpec, PaidByItsTask, Pays

\* Whoever is told that a purchase is complete has paid for it and got the items.
THEOREM CompletedArePaid == PurchaseSpec => []CompletedIsPaid
<1>1. PurchaseInv /\ [PurchaseNext]_buyVars => PurchaseInv'
  BY PaidStep
<1>2. PurchaseInv => CompletedIsPaid
  BY DEF PurchaseInv
<1> QED BY <1>1, <1>2, PaidStarts, PTL DEF PurchaseSpec

-----------------------------------------------------------------------------
(* The game an account is in. *)
LEMMA EntersOneGame == ASSUME OneGame, NEW g, EnterGame(g) PROVE OneGame'
  BY DEF EnterGame, OneGame, game

\* At most one game counts as connected, and it is the active one, whichever
\* tasks and pages enter and leave games (ensureGameSession of gc-client.ts).
THEOREM InOneGame == PurchaseSpec => []OneGame
<1>1. PurchaseInit => OneGame
  BY DEF PurchaseInit, OneGame
<1>2. OneGame /\ [PurchaseNext]_buyVars => OneGame'
  <2> SUFFICES ASSUME OneGame, [PurchaseNext]_buyVars PROVE OneGame'
    OBVIOUS
  <2>0. CASE UNCHANGED <<connected, active>>
    BY <2>0 DEF OneGame
  <2>1. ASSUME NEW t \in Tasks, TaskSteps(t) PROVE OneGame'
    BY <2>0, <2>1, EntersOneGame DEF TaskSteps, Begin, PriceCart, Timeout, WalletTimeout, attempt, game
  <2>2. ASSUME NEW m, Reply(m) \/ GcAnswers(m) \/ SteamPays(m) \/ MicroTxnRequest(m) PROVE OneGame'
    BY <2>0, <2>2, Zenon DEF Reply, GcAnswers, SteamPays, MicroTxnRequest, attempt
  <2>3. ASSUME NEW g \in Games, PageEnters(g) \/ PageLeaves(g) \/ GcConnects(g) \/ GcDrops(g) PROVE OneGame'
    <3>1. CASE GcDrops(g)
      BY <3>1 DEF GcDrops, OneGame
    <3> QED BY <2>3, <3>1, EntersOneGame DEF PageEnters, PageLeaves, GcConnects, OneGame
  <2>4. CASE WalletEvent \/ Disconnect \/ Relogin \/ UNCHANGED buyVars
    BY <2>4 DEF WalletEvent, Disconnect, Relogin, buyVars, attempt, game, OneGame
  <2> QED BY <2>1, <2>2, <2>3, <2>4 DEF PurchaseNext
<1> QED BY <1>1, <1>2, PTL DEF PurchaseSpec

-----------------------------------------------------------------------------
(* Numbers: that each set of them has a least one gives induction, as a     *)
(* statement about sets, and recursion, as one about functions; with them,  *)
(* what the recursive functions of the model compute can be proved.         *)

Below == {p \in Nat \X Nat : p[1] < p[2]}

\* A set of numbers has a least one.
LEMMA LeastOfSet == ASSUME NEW T, T \subseteq Nat, T # {} PROVE \E x \in T : \A y \in T : x <= y
<1>1. IsWellFoundedOn(Below, Nat)
  BY NatLessThanWellFounded DEF OpToRel, Below
<1>2. PICK x \in T : \A y \in T : ~(<<y, x>> \in Below)
  BY <1>1, WFMin
<1>3. ASSUME NEW y \in T PROVE x <= y
  <2>1. x \in Nat /\ y \in Nat
    OBVIOUS
  <2>2. <<y, x>> \in Nat \X Nat /\ ~(<<y, x>>[1] < <<y, x>>[2])
    BY <1>2, <2>1 DEF Below
  <2> QED BY <2>1, <2>2
<1> QED BY <1>3

\* Induction: a set that holds 0 and the next of each of its numbers holds all.
LEMMA AllNumbers == ASSUME NEW T, T \subseteq Nat, 0 \in T, \A n \in T : n + 1 \in T PROVE \A n \in Nat : n \in T
<1> SUFFICES ASSUME Nat \ T # {} PROVE FALSE
  OBVIOUS
<1>1. PICK x \in Nat \ T : \A y \in Nat \ T : x <= y
  BY LeastOfSet
<1>2. x # 0 /\ x - 1 \in Nat /\ x - 1 \in T
  BY <1>1
<1> QED BY <1>1, <1>2

\* Recursion: a first value and a step make a function of 0..n.
Recurs(first, Step, n, f) == f[0] = first /\ \A i \in 1..n : f[i] = Step[<<i, f[i - 1]>>]
LEMMA Recursion ==
  ASSUME NEW S, NEW first \in S, NEW Step \in [Nat \X S -> S], NEW n \in Nat
  PROVE  \E f \in [0..n -> S] : Recurs(first, Step, n, f)
<1> USE DEF Recurs
<1> DEFINE Done(f, k) == f[0] = first /\ \A i \in 1..k : f[i] = Step[<<i, f[i - 1]>>]
           T == {k \in Nat : \E f \in [0..k -> S] : Done(f, k)}
<1>1. 0 \in T
  <2>1. [i \in 0..0 |-> first] \in [0..0 -> S] /\ Done([i \in 0..0 |-> first], 0)
    OBVIOUS
  <2> QED BY <2>1
<1>2. ASSUME NEW k \in T PROVE k + 1 \in T
  <2>1. PICK f \in [0..k -> S] : Done(f, k)
    OBVIOUS
  <2> DEFINE last == Step[<<k + 1, f[k]>>]
             g == [i \in 0..k + 1 |-> IF i = k + 1 THEN last ELSE f[i]]
  <2>2. last \in S
    <3>1. <<k + 1, f[k]>> \in Nat \X S
      OBVIOUS
    <3> QED BY <3>1
  <2>3. g \in [0..k + 1 -> S]
    BY <2>2
  <2>4. /\ g[k + 1] = last /\ \A i \in 0..k : g[i] = f[i]
    OBVIOUS
  <2> HIDE DEF g
  <2>5. Done(g, k + 1)
    <3>1. g[0] = first
      BY <2>1, <2>4
    <3>2. ASSUME NEW i \in 1..k + 1 PROVE g[i] = Step[<<i, g[i - 1]>>]
      <4>1. CASE i = k + 1
        BY <2>4, <4>1
      <4>2. CASE i # k + 1
        <5>1. i \in 1..k /\ i \in 0..k /\ i - 1 \in 0..k
          BY <4>2
        <5> QED BY <2>1, <2>4, <5>1
      <4> QED BY <4>1, <4>2
    <3> QED BY <3>1, <3>2
  <2> QED BY <2>3, <2>5
<1> HIDE DEF T
<1>3. n \in T
  <2>1. T \subseteq Nat
    BY DEF T
  <2> QED BY <1>1, <1>2, <2>1, AllNumbers
<1> QED BY <1>3 DEF T

-----------------------------------------------------------------------------
(* Clamping a cart to the money there is. *)

CartItems == [price : Nat, quantity : Nat]

\* No more of an item than the money covers.
LEMMA Covered ==
  ASSUME NEW item \in CartItems, NEW money \in Nat
  PROVE  /\ Affordable(item, money) \in 0..item.quantity
         /\ money - item.price * Affordable(item, money) \in 0..money
<1>1. item.price \in Nat /\ item.quantity \in Nat
  BY DEF CartItems
<1>2. CASE item.price = 0
  BY <1>1, <1>2 DEF Affordable
<1>3. CASE item.price # 0
  <2> DEFINE q == money \div item.price
             units == Affordable(item, money)
  <2>1. q \in Nat /\ item.price * q <= money
    BY <1>1, <1>3
  <2>2. units = IF item.quantity < q THEN item.quantity ELSE q
    BY <1>3 DEF Affordable, Least
  <2>3. units \in Nat /\ units <= q /\ units <= item.quantity
    BY <1>1, <2>1, <2>2
  <2> HIDE DEF q, units
  <2>4. item.price * units \in Nat /\ item.price * units <= item.price * q /\ item.price * q \in Nat
    BY <1>1, <2>1, <2>3
  <2> QED BY <1>1, <2>1, <2>3, <2>4 DEF units
<1> QED BY <1>2, <1>3

\* The money left after each item is as the loop of clampItemsToBalance leaves it.
LEMMA LeftAfterEach ==
  ASSUME NEW items \in Seq(CartItems), NEW money \in Nat
  PROVE  LET left == MoneyLeft(items, money)
         IN  /\ left \in [0..Len(items) -> Nat] /\ left[0] = money
             /\ \A i \in 1..Len(items) : left[i] = left[i - 1] - items[i].price * Affordable(items[i], left[i - 1])
<1> DEFINE n == Len(items)
           Step == [p \in Nat \X Nat |-> IF p[1] \in 1..n THEN p[2] - items[p[1]].price * Affordable(items[p[1]], p[2]) ELSE 0]
           Loop(f) == f = [i \in 0..n |-> IF i = 0 THEN money
                                         ELSE f[i - 1] - items[i].price * Affordable(items[i], f[i - 1])]
<1>0. n \in Nat /\ \A i \in 1..n : items[i] \in CartItems
  OBVIOUS
<1>1. Step \in [Nat \X Nat -> Nat]
  <2>1. ASSUME NEW p \in Nat \X Nat PROVE Step[p] \in Nat
    <3>1. CASE p[1] \in 1..n
      <4>1. items[p[1]] \in CartItems /\ p[2] \in Nat
        BY <1>0, <3>1
      <4>2. p[2] - items[p[1]].price * Affordable(items[p[1]], p[2]) \in 0..p[2]
        BY <4>1, Covered
      <4> QED BY <3>1, <4>1, <4>2
    <3>2. CASE p[1] \notin 1..n
      BY <3>2
    <3> QED BY <3>1, <3>2
  <2> QED BY <2>1
<1>2. PICK f \in [0..n -> Nat] : f[0] = money /\ \A i \in 1..n : f[i] = Step[<<i, f[i - 1]>>]
  <2> HIDE DEF Step, n
  <2>1. n \in Nat /\ money \in Nat /\ Step \in [Nat \X Nat -> Nat]
    BY <1>0, <1>1
  <2>2. \E f \in [0..n -> Nat] : Recurs(money, Step, n, f)
    BY <2>1, Recursion
  <2> QED BY <2>2 DEF Recurs
<1>3. \A i \in 1..n : f[i] = f[i - 1] - items[i].price * Affordable(items[i], f[i - 1])
  <2> SUFFICES ASSUME NEW i \in 1..n PROVE f[i] = f[i - 1] - items[i].price * Affordable(items[i], f[i - 1])
    OBVIOUS
  <2>1. i - 1 \in 0..n /\ i \in Nat /\ f[i - 1] \in Nat /\ <<i, f[i - 1]>> \in Nat \X Nat
    BY <1>0
  <2>2. Step[<<i, f[i - 1]>>] = f[i - 1] - items[i].price * Affordable(items[i], f[i - 1])
    BY <2>1
  <2> QED BY <1>2, <2>2
<1> HIDE DEF Step
<1>4. Loop(f)
  BY <1>0, <1>2, <1>3
<1> HIDE DEF n
<1>5. MoneyLeft(items, money) = CHOOSE g : Loop(g)
  BY DEF MoneyLeft, n
<1> HIDE DEF Loop
<1>6. Loop(MoneyLeft(items, money))
  BY <1>4, <1>5
<1> DEFINE left == MoneyLeft(items, money)
<1> HIDE DEF left
<1> DEFINE value(i) == IF i = 0 THEN money ELSE left[i - 1] - items[i].price * Affordable(items[i], left[i - 1])
<1>7. left = [i \in 0..n |-> value(i)]
  BY <1>6 DEF left, Loop
<1>a. \A i \in 0..n : left[i] = value(i)
  <2> HIDE DEF value
  <2> QED BY <1>7
<1>8. /\ left[0] = money
      /\ \A i \in 1..n : left[i] = left[i - 1] - items[i].price * Affordable(items[i], left[i - 1])
  BY <1>0, <1>a
<1>9. ASSUME NEW i \in 1..n, left[i - 1] \in Nat PROVE left[i] \in 0..left[i - 1]
  BY <1>0, <1>8, <1>9, Covered
<1> DEFINE T == {k \in Nat : k \in 0..n => left[k] \in Nat}
<1>10. 0 \in T
  BY <1>8
<1>11. ASSUME NEW k \in T PROVE k + 1 \in T
  <2>1. CASE k + 1 \in 1..n
    <3>1. (k + 1) - 1 = k /\ left[(k + 1) - 1] \in Nat
      BY <1>0, <2>1
    <3>2. left[k + 1] \in 0..left[(k + 1) - 1]
      BY <2>1, <3>1, <1>9
    <3> QED BY <3>1, <3>2
  <2> QED BY <1>0, <2>1
<1> HIDE DEF T
<1>12. \A k \in Nat : k \in T
  <2>1. T \subseteq Nat
    BY DEF T
  <2> QED BY <1>10, <1>11, <2>1, AllNumbers
<1>13. \A k \in 0..n : left[k] \in Nat
  BY <1>0, <1>12 DEF T
<1>14. left \in [0..n -> Nat]
  BY <1>7, <1>13
<1> QED BY <1>8, <1>14 DEF left, n

\* Whatever the cart and the money: what is ordered of a clamped cart costs no
\* more than the money, and no item is ordered more often than it was put in the
\* cart (clampItemsToBalance of purchase/tasks.ts).
THEOREM ClampWithin ==
  ASSUME NEW items \in Seq(CartItems), NEW money \in Nat
  PROVE  /\ Total(items, money) \in 0..money
         /\ \A i \in DOMAIN items : Clamped(items, money)[i].quantity \in 0..items[i].quantity
<1> DEFINE left == MoneyLeft(items, money)
           n == Len(items)
           T == {k \in Nat : k \in 0..n => left[k] <= money}
<1>0. /\ n \in Nat /\ left \in [0..n -> Nat] /\ left[0] = money /\ DOMAIN items = 1..n
      /\ \A i \in 1..n : items[i] \in CartItems
      /\ \A i \in 1..n : left[i] = left[i - 1] - items[i].price * Affordable(items[i], left[i - 1])
  BY LeftAfterEach
<1> HIDE DEF left, n
<1>1. 0 \in T
  BY <1>0
<1>2. ASSUME NEW k \in T PROVE k + 1 \in T
  <2>1. CASE k + 1 \in 1..n
    <3>1. left[k] \in Nat /\ left[k] <= money /\ left[k + 1] = left[k] - items[k + 1].price * Affordable(items[k + 1], left[k])
      BY <1>0, <2>1
    <3>2. left[k + 1] \in 0..left[k]
      <4>1. items[k + 1] \in CartItems
        BY <1>0, <2>1
      <4> QED BY <3>1, <4>1, Covered
    <3> QED BY <3>1, <3>2
  <2> QED BY <1>0, <2>1
<1> HIDE DEF T
<1>3. \A k \in Nat : k \in T
  <2>1. T \subseteq Nat
    BY DEF T
  <2> QED BY <1>1, <1>2, <2>1, AllNumbers
<1>4. left[n] \in Nat /\ left[n] <= money
  BY <1>0, <1>3 DEF T
<1>5. Total(items, money) \in 0..money
  BY <1>4 DEF Total, left, n
<1>6. ASSUME NEW i \in DOMAIN items PROVE Clamped(items, money)[i].quantity \in 0..items[i].quantity
  <2>1. i \in 1..n /\ i - 1 \in 0..n /\ items[i] \in CartItems /\ left[i - 1] \in Nat
    BY <1>0
  <2>2. Clamped(items, money)[i].quantity = Affordable(items[i], left[i - 1])
    BY <2>1 DEF Clamped, left, CartItems
  <2> QED BY <2>1, <2>2, Covered
<1> QED BY <1>5, <1>6

-----------------------------------------------------------------------------
(* The money an account has: a balance on its way is the last one that counts.  *)
(* The amounts are members of some set here; that they are numbers, never below *)
(* zero, is MoneyTyped below.                                                   *)
Newest == IF pushes = <<>> THEN balance = wallet ELSE pushes[Len(pushes)] = wallet
BalanceInv ==
  /\ \E S : pushes \in Seq(S) /\ wallet \in S
  /\ online => Newest

\* Steam took money: the new balance is pushed.
LEMMA SpendingIsTold == ASSUME BalanceInv, NEW m, SteamPays(m) PROVE BalanceInv'
<1>1. PICK S : pushes \in Seq(S) /\ wallet \in S
  BY DEF BalanceInv
<1>2. UNCHANGED <<online, balance>>
  BY DEF SteamPays, attempt
<1>3. CASE UNCHANGED <<wallet, pushes>>
  BY <1>2, <1>3 DEF BalanceInv, Newest
<1>4. CASE wallet' = wallet - cost[m.about] /\ pushes' = Append(pushes, wallet - cost[m.about])
  <2> DEFINE T == S \cup {wallet'}
  <2>1. pushes \in Seq(T) /\ wallet' \in T
    BY <1>1, SeqMonotonic
  <2> HIDE DEF T
  <2>2. /\ pushes' \in Seq(T) /\ Len(pushes') = Len(pushes) + 1
        /\ pushes'[Len(pushes) + 1] = wallet' /\ pushes' # <<>>
    BY <1>4, <2>1, AppendProperties
  <2> QED BY <2>1, <2>2 DEF BalanceInv, Newest
<1> QED BY <1>3, <1>4 DEF SteamPays

\* The account takes a balance: the rest is still on its way.
LEMMA BalanceIsTaken == ASSUME BalanceInv, WalletEvent PROVE BalanceInv'
<1>1. PICK S : pushes \in Seq(S) /\ wallet \in S
  BY DEF BalanceInv
<1>2. /\ online /\ online' /\ pushes # <<>> /\ UNCHANGED wallet
      /\ balance' = Head(pushes) /\ pushes' = Tail(pushes)
  BY DEF WalletEvent, steam
<1>3. /\ pushes' \in Seq(S) /\ Len(pushes') = Len(pushes) - 1 /\ Len(pushes) \in Nat
      /\ \A i \in 1 .. Len(pushes') : pushes'[i] = pushes[i + 1]
      /\ Head(pushes) = pushes[1]
  BY <1>1, <1>2, HeadTailProperties
<1>4. CASE pushes' = <<>>
  <2>1. Len(pushes') = 0
    BY <1>4
  <2>2. Len(pushes) = 1
    BY <1>3, <2>1
  <2> QED BY <1>1, <1>2, <1>3, <1>4, <2>2 DEF BalanceInv, Newest
<1>5. CASE pushes' # <<>>
  <2>1. Len(pushes') # 0 /\ Len(pushes') \in Nat
    BY <1>3, <1>5, EmptySeq
  <2> QED BY <1>1, <1>2, <1>3, <1>5, <2>1 DEF BalanceInv, Newest
<1> QED BY <1>4, <1>5

\* While an account is online and Steam's wallet events have come in, the
\* balance that carts are clamped to (purchase/tasks.ts) is the wallet.
THEOREM KnowsItsBalance == PurchaseSpec => []BalanceIsCurrent
<1>1. PurchaseInit => BalanceInv
  <2>1. <<>> \in Seq({Funds}) /\ Funds \in {Funds}
    OBVIOUS
  <2> QED BY <2>1 DEF PurchaseInit, BalanceInv, Newest
<1>2. BalanceInv /\ [PurchaseNext]_buyVars => BalanceInv'
  <2> SUFFICES ASSUME BalanceInv, [PurchaseNext]_buyVars PROVE BalanceInv'
    OBVIOUS
  <2>0. CASE UNCHANGED <<online, balance, wallet, pushes>>
    BY <2>0 DEF BalanceInv, Newest
  <2>1. ASSUME NEW t \in Tasks, TaskSteps(t) PROVE BalanceInv'
    BY <2>0, <2>1 DEF TaskSteps, Begin, PriceCart, Timeout, WalletTimeout, attempt, steam, wire
  <2>2. ASSUME NEW m, Reply(m) \/ GcAnswers(m) \/ MicroTxnRequest(m) PROVE BalanceInv'
    BY <2>0, <2>2, Zenon DEF Reply, GcAnswers, MicroTxnRequest, attempt, steam
  <2>3. ASSUME NEW g \in Games, PageEnters(g) \/ PageLeaves(g) \/ GcConnects(g) \/ GcDrops(g) PROVE BalanceInv'
    BY <2>0, <2>3 DEF PageEnters, PageLeaves, GcConnects, GcDrops, steam, wire
  <2>4. CASE Disconnect
    BY <2>4, EmptySeq DEF Disconnect, steam, BalanceInv
  <2>5. CASE Relogin
    <3>1. pushes' = <<wallet>> /\ UNCHANGED wallet
      BY <2>5 DEF Relogin, steam
    <3>2. <<wallet>> \in Seq({wallet}) /\ Len(<<wallet>>) = 1 /\ <<wallet>>[1] = wallet /\ <<wallet>> # <<>>
      OBVIOUS
    <3> QED BY <3>1, <3>2 DEF BalanceInv, Newest
  <2>6. CASE UNCHANGED buyVars
    BY <2>0, <2>6 DEF buyVars, attempt, wire, steam
  <2> QED BY <2>1, <2>2, <2>3, <2>4, <2>5, <2>6, BalanceIsTaken, SpendingIsTold DEF PurchaseNext
<1>3. BalanceInv => BalanceIsCurrent
  BY DEF BalanceInv, Newest, BalanceIsCurrent
<1> QED BY <1>1, <1>2, <1>3, PTL DEF PurchaseSpec

\* What a task goes by and reports is so: its game, its money, its purchase.
THEOREM PurchaseIsHonest == PurchaseSpec => []PurchaseHonest
  BY InOneGame, CompletedArePaid, KnowsItsBalance, PTL DEF PurchaseHonest

-----------------------------------------------------------------------------
(* The rate limit of logons: sequences in the order of time, the loop of    *)
(* pump, and what ties the recorded starts to those that happened.          *)

\* Oldest first.
InOrder(s) == \A i, j \in 1..Len(s) : i <= j => s[i] <= s[j]

\* A set of naturals has a least one.
LEMMA LeastOne ==
  ASSUME NEW P, P \subseteq Nat, P # {}
  PROVE  \E m \in P : \A k \in P : m <= k
<1>1. PICK m \in P : \A k \in P : ~(<<k, m>> \in OpToRel(<, Nat))
  BY NatLessThanWellFounded, WFMin
<1>2. \A k \in P : ~(k < m)
  BY <1>1 DEF OpToRel
<1> QED BY <1>2

\* A sequence of some is a sequence of more.
LEMMA SeqOfMore == ASSUME NEW s \in Seq(1..Window) PROVE s \in Seq(0..Window)
<1>1. Len(s) \in Nat /\ s \in [1..Len(s) -> 1..Window]
  BY LenProperties
<1> DEFINE n == Len(s)
           r == [i \in 1..n |-> s[i]]
<1>2. n \in Nat /\ \A i \in 1..n : s[i] \in 0..Window
  BY <1>1, LimitConstants
<1>3. r = s
  BY <1>1
<1> HIDE DEF n
<1>4. r \in Seq(0..Window)
  BY <1>2
<1> HIDE DEF r
<1> QED BY <1>3, <1>4

\* Of starts in order, those that left the window are a front part.
LEMMA Pruned ==
  ASSUME NEW s \in Seq(0..Window), InOrder(s)
  PROVE  \E k \in 0..Len(s) : /\ InWindow(s) = SubSeq(s, k + 1, Len(s))
                              /\ \A i \in 1..k : s[i] = 0
                              /\ \A i \in (k+1)..Len(s) : s[i] \in 1..Window
<1> DEFINE P == {i \in 1..(Len(s)+1) : i = Len(s)+1 \/ s[i] > 0}
           past == {i \in DOMAIN s : s[i] <= 0}
<1>0. Len(s) \in Nat /\ DOMAIN s = 1..Len(s) /\ \A i \in 1..Len(s) : s[i] \in 0..Window
  BY LenProperties, ElementOfSeq
<1>1. PICK m \in P : \A k \in P : m <= k
  <2>1. P \subseteq Nat /\ Len(s)+1 \in P
    BY <1>0
  <2> QED BY <2>1, LeastOne
<1>2. m \in 1..(Len(s)+1) /\ \A i \in 1..(m-1) : s[i] = 0
  BY <1>0, <1>1
<1>3. \A i \in m..Len(s) : s[i] \in 1..Window
  BY <1>0, <1>1, <1>2 DEF InOrder
<1>4. past = 1..(m-1)
  BY <1>0, <1>2, <1>3
<1>5. Cardinality(past) = m - 1
  <2>1. Cardinality(1..(m-1)) = m - 1
    BY <1>0, <1>2, FS_Interval
  <2> QED BY <1>4, <2>1
<1>6. InWindow(s) = SubSeq(s, (m - 1) + 1, Len(s))
  BY <1>5 DEF InWindow
<1>7. m - 1 \in 0..Len(s) /\ (m - 1) + 1 = m
  BY <1>0, <1>2
<1> HIDE DEF P, past
<1> QED BY <1>2, <1>3, <1>6, <1>7

\* What is left of starts in order when the first k are gone.
Prunes(s, kept, k) ==
  /\ kept \in Seq(1..Window) /\ InOrder(kept) /\ Len(kept) = Len(s) - k
  /\ \A i \in 1..k : s[i] = 0
  /\ \A i \in 1..Len(kept) : kept[i] = s[k + i]

\* prune keeps the order.
LEMMA PruneKeeps ==
  ASSUME NEW s \in Seq(0..Window), InOrder(s)
  PROVE  \E k \in 0..Len(s) : Prunes(s, InWindow(s), k)
<1>1. PICK k \in 0..Len(s) : /\ InWindow(s) = SubSeq(s, k + 1, Len(s))
                             /\ \A i \in 1..k : s[i] = 0
                             /\ \A i \in (k+1)..Len(s) : s[i] \in 1..Window
  BY Pruned
<1> DEFINE kept == InWindow(s)
<1>0. /\ Len(s) \in Nat /\ \A i \in 1..Len(s) : s[i] \in 0..Window
      /\ k + 1 \in Int /\ \A i \in (k+1)..Len(s) : s[i] \in 1..Window
  <2>1. Len(s) \in Nat /\ \A i \in 1..Len(s) : s[i] \in 0..Window
    BY LenProperties, ElementOfSeq
  <2>2. k \in Nat
    BY <1>1, <2>1
  <2>3. \A i \in (k+1)..Len(s) : s[i] \in 1..Window
    BY <1>1
  <2> QED BY <2>1, <2>2, <2>3
<1>2. kept \in Seq(1..Window) /\ Len(kept) = Len(s) - k /\ \A i \in 1..Len(kept) : kept[i] = s[k + i]
  <2> HIDE DEF kept
  <2> DEFINE r == SubSeq(s, k + 1, Len(s))
  <2>1. /\ r \in Seq(1..Window)
        /\ Len(r) = IF k + 1 <= Len(s) THEN Len(s) - (k + 1) + 1 ELSE 0
        /\ \A i \in 1 .. Len(s) - (k + 1) + 1 : r[i] = s[(k + 1) + i - 1]
    BY <1>0, SubSeqProperties
  <2>2. kept = r
    BY <1>1 DEF kept
  <2> HIDE DEF r
  <2> QED BY <1>0, <1>1, <2>1, <2>2
<1> HIDE DEF kept
<1>5. InOrder(kept)
  <2> SUFFICES ASSUME NEW i \in 1..Len(kept), NEW j \in 1..Len(kept), i <= j
               PROVE  kept[i] <= kept[j]
    BY DEF InOrder
  <2>1. k + i \in 1..Len(s) /\ k + j \in 1..Len(s) /\ k + i <= k + j
    BY <1>0, <1>1, <1>2
  <2>2. s[k + i] <= s[k + j]
    BY <2>1 DEF InOrder
  <2> QED BY <1>2, <2>2
<1>6. Prunes(s, kept, k)
  BY <1>1, <1>2, <1>5 DEF Prunes
<1> QED BY <1>6 DEF kept

\* Each waiter taken is one more or was cancelled.
LEMMA LiveCounts ==
  ASSUME NEW q, NEW n \in Nat
  PROVE  /\ Live(q, 0) = 0 /\ Live(q, n) \in Nat
         /\ Live(q, n + 1) \in {Live(q, n), Live(q, n) + 1}
<1> DEFINE L(m) == {i \in 1..m : q[i] \notin cancelled}
<1>1. IsFiniteSet(L(n)) /\ Cardinality(L(n)) \in Nat
  <2>1. IsFiniteSet(1..n) /\ L(n) \subseteq 1..n
    BY FS_Interval
  <2> HIDE DEF L
  <2>2. IsFiniteSet(L(n))
    BY <2>1, FS_Subset
  <2> QED BY <2>2, FS_CardinalityType
<1>2. L(0) = {} /\ Cardinality(L(0)) = 0
  BY FS_EmptySet
<1>3. L(n + 1) = IF q[n + 1] \in cancelled THEN L(n) ELSE L(n) \cup {n + 1}
  OBVIOUS
<1>4. n + 1 \notin L(n)
  OBVIOUS
<1>5. Cardinality(L(n) \cup {n + 1}) = Cardinality(L(n)) + 1
  BY <1>1, <1>4, FS_AddElement
<1> HIDE DEF L
<1>6. Live(q, 0) = Cardinality(L(0)) /\ Live(q, n) = Cardinality(L(n)) /\ Live(q, n + 1) = Cardinality(L(n + 1))
  BY DEF Live, L
<1> QED BY <1>1, <1>2, <1>3, <1>5, <1>6

\* pump's loop ends: where there is no room for the next, or nobody is left.
LEMMA LoopEnds ==
  ASSUME NEW q \in Seq(Logons), NEW max, NEW started
  PROVE  LET n == Popped(q, max, started)
         IN  /\ n \in 0..Len(q)
             /\ \A i \in 0..n-1 : HasRoom(max, started + Live(q, i))
             /\ n < Len(q) => ~HasRoom(max, started + Live(q, n))
<1> DEFINE P == {n \in 0..Len(q) : n < Len(q) => ~HasRoom(max, started + Live(q, n))}
<1>1. Len(q) \in Nat
  BY LenProperties
<1>2. PICK n \in P : \A k \in P : n <= k
  <2>1. P \subseteq Nat /\ Len(q) \in P
    BY <1>1
  <2> HIDE DEF P
  <2> QED BY <2>1, LeastOne
<1>3. \A i \in 0..n-1 : HasRoom(max, started + Live(q, i))
  <2> SUFFICES ASSUME NEW i \in 0..n-1 PROVE HasRoom(max, started + Live(q, i))
    OBVIOUS
  <2>1. i \notin P /\ i \in 0..Len(q) /\ i < Len(q)
    BY <1>1, <1>2
  <2> QED BY <2>1
<1> QED BY <1>2, <1>3 DEF Popped

\* What pump does: it starts some, no more than the limit leaves room for, and
\* if some have to wait there was no more room and the timer is set.
Pumped(max) ==
  \E j \in Nat :
    /\ starts' = InWindow(starts) \o Times(j) /\ recent' = recent \o Times(j)
    /\ j > 0 /\ max > 0 => Len(InWindow(starts)) + j <= max
    /\ queue' \in Seq(Logons) /\ cancelled' \subseteq Elements(queue')
    /\ queue' = <<>> => wake' = Unarmed
    /\ queue' # <<>> => /\ max > 0 /\ Len(InWindow(starts)) + j >= max
                        /\ wake' = starts'[Len(starts') - max + 1]

\* That is what it does, whoever is in the queue.
LEMMA PumpDoes ==
  ASSUME NEW q \in Seq(Logons), NEW max \in Nat,
         Len(InWindow(starts)) \in Nat, Pump(q, max),
         \A j \in Nat : Len(InWindow(starts) \o Times(j)) = Len(InWindow(starts)) + j
  PROVE  Pumped(max)
<1> DEFINE kept == InWindow(starts)
           c == Len(kept)
           n == Popped(q, max, c)
           j == Live(q, n)
           now == kept \o Times(j)
           rest == SubSeq(q, n + 1, Len(q))
<1>1. /\ starts' = now /\ queue' = rest /\ cancelled' = cancelled \cap Elements(rest)
      /\ wake' = Rearm(rest, now, max) /\ recent' = recent \o Times(j)
  BY DEF Pump
<1>2. /\ n \in 0..Len(q)
      /\ \A i \in 0..n-1 : HasRoom(max, c + Live(q, i))
      /\ n < Len(q) => ~HasRoom(max, c + j)
  <2> HIDE DEF c
  <2> QED BY LoopEnds
<1>3. Len(q) \in Nat /\ n \in Nat /\ \A i \in 1..Len(q) : q[i] \in Logons
  <2>1. Len(q) \in Nat /\ \A i \in 1..Len(q) : q[i] \in Logons
    BY LenProperties, ElementOfSeq
  <2> HIDE DEF n
  <2> QED BY <2>1, <1>2
<1>0. c \in Nat
  OBVIOUS
<1> HIDE DEF kept, n, c
<1>4. j \in Nat
  BY <1>3, LiveCounts
<1>5. j > 0 /\ max > 0 => c + j <= max
  <2> SUFFICES ASSUME j > 0, max > 0 PROVE c + j <= max
    OBVIOUS
  <2>1. n # 0
    BY LiveCounts, 0 \in Nat
  <2>2. n - 1 \in Nat /\ n - 1 \in 0..n-1 /\ (n - 1) + 1 = n
    BY <1>3, <2>1
  <2>3. HasRoom(max, c + Live(q, n - 1))
    BY <1>2, <2>2
  <2>4. Live(q, n - 1) \in Nat /\ j \in {Live(q, n - 1), Live(q, n - 1) + 1}
    BY <2>2, LiveCounts
  <2>5. c + Live(q, n - 1) < max
    BY <2>3 DEF HasRoom
  <2> DEFINE l == Live(q, n - 1)
  <2>6. l \in Nat /\ c + l < max /\ (j = l \/ j = l + 1)
    BY <2>4, <2>5
  <2> HIDE DEF j, l
  <2>7. CASE j = l
    BY <1>0, <2>6, <2>7
  <2>8. CASE j = l + 1
    BY <1>0, <2>6, <2>8
  <2> QED BY <2>6, <2>7, <2>8
<1>6. rest \in Seq(Logons) /\ (rest # <<>> => n < Len(q))
  <2>1. n + 1 \in Int /\ Len(q) \in Int /\ \A i \in (n + 1)..Len(q) : q[i] \in Logons
    BY <1>3
  <2>2. rest \in Seq(Logons)
    BY <2>1, SubSeqProperties
  <2>3. ~(n < Len(q)) => rest = <<>>
    BY <1>3, SubSeqEmpty
  <2> QED BY <2>2, <2>3
<1>7. n < Len(q) => max > 0 /\ c + j >= max
  <2>1. n < Len(q) => ~HasRoom(max, c + j)
    BY <1>2
  <2> HIDE DEF j
  <2> QED BY <1>0, <1>4, <2>1 DEF HasRoom
<1> HIDE DEF j, rest
<1>8. Len(now) = c + j
  BY <1>4 DEF kept, c
<1>9. /\ rest = <<>> => wake' = Unarmed
      /\ rest # <<>> => wake' = now[Len(now) - max + 1]
  BY <1>1 DEF Rearm
<1>10. cancelled' \subseteq Elements(rest)
  BY <1>1
<1> HIDE DEF now
<1>11. rest # <<>> => max > 0 /\ c + j >= max
  BY <1>6, <1>7
<1> QED BY <1>1, <1>4, <1>5, <1>6, <1>9, <1>10, <1>11 DEF Pumped, kept, c, now

\* The last n of what started are the last n recorded, no more than the limit;
\* all before them had m or less left of the window.
AgreeOn(n, r, s, lim, m) ==
  /\ n <= lim /\ n <= Len(s)
  /\ \A i \in 0..(n-1) : r[Len(r) - i] = s[Len(s) - i]
  /\ \A i \in 1..(Len(r) - n) : r[i] <= m
Agree(r, s, lim, m) == \E n \in 0..Len(r) : AgreeOn(n, r, s, lim, m)

\* j more start now.
LEMMA Appended ==
  ASSUME NEW S, S = 0..Window \/ S = 1..Window, NEW s \in Seq(S), InOrder(s), NEW j \in Nat
  PROVE  /\ s \o Times(j) \in Seq(S) /\ InOrder(s \o Times(j))
         /\ Len(s \o Times(j)) = Len(s) + j
         /\ \A i \in 1..(Len(s) + j) : (s \o Times(j))[i] = IF i <= Len(s) THEN s[i] ELSE Window
<1> DEFINE t == Times(j)
           c == s \o t
<1>1. Window \in S /\ Window \in Nat /\ \A x \in S : x \in Nat /\ x <= Window
  BY LimitConstants
<1>2. t \in Seq(S) /\ Len(t) = j /\ \A i \in 1..j : t[i] = Window
  BY <1>1 DEF Times
<1>3. Len(s) \in Nat /\ \A i \in 1..Len(s) : s[i] \in S
  BY LenProperties, ElementOfSeq
<1> HIDE DEF t
<1>4. /\ c \in Seq(S) /\ Len(c) = Len(s) + Len(t)
      /\ \A i \in 1..(Len(s) + Len(t)) : c[i] = IF i <= Len(s) THEN s[i] ELSE t[i - Len(s)]
  BY <1>2, ConcatProperties
<1> HIDE DEF c
<1>5. \A i \in 1..(Len(s) + j) : c[i] = IF i <= Len(s) THEN s[i] ELSE Window
  BY <1>2, <1>3, <1>4
<1>6. InOrder(c)
  <2> SUFFICES ASSUME NEW a \in 1..Len(c), NEW b \in 1..Len(c), a <= b PROVE c[a] <= c[b]
    BY DEF InOrder
  <2>1. CASE b <= Len(s)
    BY <1>2, <1>3, <1>4, <1>5, <2>1 DEF InOrder
  <2>2. CASE b > Len(s)
    BY <1>1, <1>2, <1>3, <1>4, <1>5, <2>2
  <2> QED BY <1>2, <1>3, <1>4, <2>1, <2>2
<1> QED BY <1>2, <1>4, <1>5, <1>6 DEF c, t

\* A pump starts j more: they are recorded too, and the limit is not exceeded.
LEMMA AgreeAppend ==
  ASSUME NEW r \in Seq(1..Window), NEW s \in Seq(0..Window), InOrder(r), InOrder(s),
         NEW lim \in Nat, NEW m \in Nat, NEW j \in Nat, Agree(r, s, lim, m),
         j > 0 => Len(InWindow(s)) + j <= lim
  PROVE  Agree(r \o Times(j), InWindow(s) \o Times(j), lim, m)
<1> DEFINE kept == InWindow(s)
           r2 == r \o Times(j)
           s2 == kept \o Times(j)
<1>0. PICK n \in 0..Len(r) : AgreeOn(n, r, s, lim, m)
  BY DEF Agree
<1>1. /\ n \in 0..Len(r) /\ n <= lim /\ n <= Len(s)
      /\ \A i \in 0..(n-1) : r[Len(r) - i] = s[Len(s) - i]
      /\ \A i \in 1..(Len(r) - n) : r[i] <= m
  BY <1>0 DEF AgreeOn
<1>2. PICK k \in 0..Len(s) : Prunes(s, kept, k)
  BY PruneKeeps
<1> HIDE DEF kept
<1>3. /\ Len(r) \in Nat /\ Len(s) \in Nat /\ Len(kept) \in Nat
      /\ \A i \in 1..Len(r) : r[i] \in 1..Window
  BY <1>2, LenProperties, ElementOfSeq DEF Prunes
<1>4. n <= Len(kept)
  <2> SUFFICES ASSUME n > Len(kept) PROVE FALSE
    BY <1>1, <1>3
  <2>1. n - 1 \in 0..(n-1) /\ Len(r) - (n - 1) \in 1..Len(r) /\ Len(s) - (n - 1) \in 1..k
    BY <1>1, <1>2, <1>3 DEF Prunes
  <2>2. s[Len(s) - (n - 1)] = 0
    BY <1>2, <2>1 DEF Prunes
  <2>3. r[Len(r) - (n - 1)] \in 1..Window
    BY <1>3, <2>1
  <2>4. r[Len(r) - (n - 1)] = s[Len(s) - (n - 1)]
    BY <1>1, <2>1
  <2> QED BY <2>2, <2>3, <2>4
<1>5. /\ Len(r2) = Len(r) + j
      /\ \A i \in 1..(Len(r) + j) : r2[i] = IF i <= Len(r) THEN r[i] ELSE Window
  BY Appended
<1>6. /\ Len(s2) = Len(kept) + j
      /\ \A i \in 1..(Len(kept) + j) : s2[i] = IF i <= Len(kept) THEN kept[i] ELSE Window
  BY <1>2, Appended DEF Prunes
<1> HIDE DEF r2, s2
<1>7. n + j \in 0..Len(r2) /\ n + j <= lim /\ n + j <= Len(s2)
  BY <1>1, <1>3, <1>4, <1>5, <1>6 DEF kept
<1>8. ASSUME NEW i \in 0..(n + j - 1) PROVE r2[Len(r2) - i] = s2[Len(s2) - i]
  <2>1. CASE i < j
    <3>1. /\ Len(r2) - i \in 1..(Len(r) + j) /\ Len(r2) - i > Len(r)
          /\ Len(s2) - i \in 1..(Len(kept) + j) /\ Len(s2) - i > Len(kept)
      BY <1>1, <1>3, <1>5, <1>6, <2>1
    <3>2. r2[Len(r2) - i] = Window
      BY <1>3, <1>5, <3>1
    <3>3. s2[Len(s2) - i] = Window
      <4> DEFINE q == Len(s2) - i
      <4>1. q \in 1..(Len(kept) + j) /\ ~(q <= Len(kept))
        BY <1>3, <1>6, <3>1
      <4> HIDE DEF q
      <4>2. s2[q] = Window
        BY <1>6, <4>1
      <4> QED BY <4>2 DEF q
    <3> QED BY <3>2, <3>3
  <2>2. CASE i >= j
    <3>1. /\ Len(r2) - i = Len(r) - (i - j) /\ Len(r) - (i - j) \in 1..Len(r) /\ i - j \in 0..(n-1)
          /\ Len(s2) - i = Len(kept) - (i - j) /\ Len(kept) - (i - j) \in 1..Len(kept)
      BY <1>1, <1>3, <1>4, <1>5, <1>6, <2>2
    <3>2. r2[Len(r2) - i] = r[Len(r) - (i - j)]
      BY <1>3, <1>5, <3>1
    <3>3. s2[Len(s2) - i] = kept[Len(kept) - (i - j)]
      <4> DEFINE q == Len(s2) - i
      <4>1. q \in 1..(Len(kept) + j) /\ q <= Len(kept) /\ q = Len(kept) - (i - j)
        BY <1>3, <1>6, <3>1
      <4> HIDE DEF q
      <4>2. s2[q] = kept[q]
        BY <1>6, <4>1
      <4> QED BY <4>1, <4>2 DEF q
    <3>4. kept[Len(kept) - (i - j)] = s[k + (Len(kept) - (i - j))]
      BY <1>2, <3>1 DEF Prunes
    <3>5. k + (Len(kept) - (i - j)) = Len(s) - (i - j)
      BY <1>2, <1>3, <3>1 DEF Prunes
    <3>6. r[Len(r) - (i - j)] = s[Len(s) - (i - j)]
      BY <1>1, <3>1
    <3> QED BY <3>2, <3>3, <3>4, <3>5, <3>6
  <2> QED BY <1>1, <1>3, <2>1, <2>2
<1>9. \A i \in 1..(Len(r2) - (n + j)) : r2[i] <= m
  BY <1>1, <1>3, <1>5
<1>10. Agree(r2, s2, lim, m)
  <2>1. AgreeOn(n + j, r2, s2, lim, m)
    BY <1>7, <1>8, <1>9 DEF AgreeOn
  <2> QED BY <1>7, <2>1 DEF Agree
<1> QED BY <1>10 DEF r2, s2, kept

\* A tick brings all of it nearer to the end of the window.
Ticked(q) == [i \in DOMAIN q |-> Later(q[i])]

\* It keeps their order.
LEMMA TickKeeps ==
  ASSUME NEW S, S = 0..Window \/ S = 1..Window, NEW q \in Seq(S), InOrder(q)
  PROVE  /\ Ticked(q) \in Seq(0..Window) /\ InOrder(Ticked(q)) /\ Len(Ticked(q)) = Len(q)
         /\ \A i \in 1..Len(q) : Ticked(q)[i] = Later(q[i])
<1>1. /\ Len(q) \in Nat /\ DOMAIN q = 1..Len(q) /\ \A i \in 1..Len(q) : q[i] \in 0..Window
  <2>1. Len(q) \in Nat /\ DOMAIN q = 1..Len(q) /\ \A i \in 1..Len(q) : q[i] \in S
    BY LenProperties, ElementOfSeq
  <2> QED BY <2>1, LimitConstants
<1>2. \A x \in 0..Window : Later(x) \in 0..Window
  BY LimitConstants DEF Later
<1>3. Ticked(q) = [i \in 1..Len(q) |-> Later(q[i])] /\ \A i \in 1..Len(q) : Later(q[i]) \in 0..Window
  BY <1>1, <1>2 DEF Ticked
<1>4. Ticked(q) \in Seq(0..Window) /\ Len(Ticked(q)) = Len(q)
  BY <1>1, <1>3
<1>5. \A x, y \in 0..Window : x <= y => Later(x) <= Later(y)
  BY LimitConstants DEF Later
<1>6. InOrder(Ticked(q))
  BY <1>1, <1>3, <1>4, <1>5 DEF InOrder
<1> QED BY <1>3, <1>4, <1>6

\* It takes away the same from what started and from what is recorded.
LEMMA AgreeLater ==
  ASSUME NEW r \in Seq(1..Window), NEW s \in Seq(0..Window), InOrder(r), InOrder(s),
         NEW lim \in Nat, NEW m \in Nat, Agree(r, s, lim, m)
  PROVE  Agree(InWindow(Ticked(r)), Ticked(s), lim, IF m > 0 THEN m - 1 ELSE 0)
<1> DEFINE r1 == Ticked(r)
           r2 == InWindow(r1)
           s2 == Ticked(s)
           m2 == IF m > 0 THEN m - 1 ELSE 0
<1>0. PICK n \in 0..Len(r) : AgreeOn(n, r, s, lim, m)
  BY DEF Agree
<1>1. /\ n \in 0..Len(r) /\ n <= lim /\ n <= Len(s)
      /\ \A i \in 0..(n-1) : r[Len(r) - i] = s[Len(s) - i]
      /\ \A i \in 1..(Len(r) - n) : r[i] <= m
  BY <1>0 DEF AgreeOn
<1>11. /\ Len(r) \in Nat /\ Len(s) \in Nat
       /\ \A i \in 1..Len(r) : r[i] \in 1..Window
  BY LenProperties, ElementOfSeq
<1>3. /\ r1 \in Seq(0..Window) /\ InOrder(r1) /\ Len(r1) = Len(r)
      /\ \A i \in 1..Len(r) : r1[i] = Later(r[i])
  BY TickKeeps
<1>4. Len(s2) = Len(s) /\ \A i \in 1..Len(s) : s2[i] = Later(s[i])
  BY TickKeeps
<1> HIDE DEF r1, s2
<1>5. PICK k \in 0..Len(r) : Prunes(r1, r2, k)
  BY <1>3, PruneKeeps
<1> HIDE DEF r2
<1>6. /\ Len(r2) = Len(r) - k /\ \A i \in 1..Len(r2) : r2[i] = r1[k + i]
      /\ k \in Nat /\ Len(r2) \in Nat
  BY <1>11, <1>3, <1>5 DEF Prunes
<1> DEFINE n2 == IF n <= Len(r2) THEN n ELSE Len(r2)
<1>7. n2 \in 0..Len(r2) /\ n2 <= lim /\ n2 <= Len(s2) /\ n2 <= n
  BY <1>11, <1>1, <1>4, <1>6
<1>8. ASSUME NEW i \in 0..(n2 - 1) PROVE r2[Len(r2) - i] = s2[Len(s2) - i]
  <2>1. /\ Len(r2) - i \in 1..Len(r2) /\ k + (Len(r2) - i) = Len(r) - i /\ i \in 0..(n - 1)
        /\ Len(r) - i \in 1..Len(r) /\ Len(s) - i \in 1..Len(s)
    <3>1. i \in Nat /\ i < n2 /\ n2 <= Len(r2) /\ n2 <= n /\ n <= Len(r) /\ n <= Len(s)
      BY <1>11, <1>1, <1>6, <1>7
    <3> HIDE DEF n2
    <3>2. Len(r2) - i \in 1..Len(r2) /\ k + (Len(r2) - i) = Len(r) - i
      BY <1>11, <1>1, <1>6, <1>7, <3>1
    <3> QED BY <1>11, <1>1, <1>7, <3>1, <3>2
  <2>2. r2[Len(r2) - i] = Later(r[Len(r) - i])
    BY <1>3, <1>6, <2>1
  <2>3. s2[Len(s2) - i] = Later(s[Len(s) - i])
    BY <1>4, <2>1
  <2>4. r[Len(r) - i] = s[Len(s) - i]
    BY <1>1, <2>1
  <2> QED BY <2>2, <2>3, <2>4
<1>9. ASSUME NEW i \in 1..(Len(r2) - n2) PROVE r2[i] <= m2
  <2>1. n2 = n /\ i \in 1..Len(r2) /\ k + i \in 1..(Len(r) - n) /\ k + i \in 1..Len(r)
    BY <1>11, <1>1, <1>6
  <2>2. r2[i] = Later(r[k + i]) /\ r[k + i] <= m /\ r[k + i] \in 1..Window
    BY <1>11, <1>1, <1>3, <1>6, <2>1
  <2> QED BY <2>2, LimitConstants DEF Later
<1> HIDE DEF n2, m2
<1>10. Agree(r2, s2, lim, m2)
  BY <1>7, <1>8, <1>9 DEF Agree, AgreeOn
<1> QED BY <1>10 DEF r2, r1, s2, m2

\* The starts are in order; since the limit last changed, all that started was
\* recorded; and while somebody waits, the timer waits for the start that has to
\* leave the window next.
TimerSet == queue # <<>> => /\ limit > 0 /\ Len(starts) >= limit
                            /\ wake = starts[Len(starts) - limit + 1]
Recorded == limit > 0 => Agree(recent, starts, limit, Window - steady)
LimitInv == LimitTypeOK /\ InOrder(starts) /\ InOrder(recent) /\ Recorded /\ TimerSet

\* At first nothing has started and nobody waits.
LEMMA InitLimit == LimitInit => LimitInv
<1> SUFFICES ASSUME LimitInit PROVE LimitInv
  OBVIOUS
<1>1. LimitTypeOK
  BY LimitConstants DEF LimitInit, LimitTypeOK, Elements
<1>2. InOrder(<<>>)
  BY DEF InOrder
<1>3. limit > 0 => Agree(<<>>, <<>>, limit, Window - steady)
  <2> SUFFICES ASSUME limit > 0 PROVE AgreeOn(0, <<>>, <<>>, limit, Window - steady)
    BY DEF Agree
  <2> QED BY LimitConstants DEF AgreeOn, LimitInit
<1> QED BY <1>1, <1>2, <1>3 DEF LimitInit, LimitInv, Recorded, TimerSet

\* A pump under a limit: what must be seen to is what was recorded before.
LEMMA PumpKeeps ==
  ASSUME LimitTypeOK, InOrder(starts), InOrder(recent), NEW q \in Seq(Logons), Pump(q, limit'),
         limit' \in Limits, steady' \in 0..Window,
         limit' > 0 => Agree(recent, starts, limit', Window - steady')
  PROVE  LimitInv'
<1> DEFINE kept == InWindow(starts)
<1>0. limit' \in Nat /\ Window - steady' \in Nat /\ Window \in Nat
  <2>1. \A x \in Limits : x \in Nat
    BY LimitConstants
  <2>2. Window \in Nat /\ \A x \in 0..Window : Window - x \in Nat
    BY LimitConstants
  <2> QED BY <2>1, <2>2
<1>1. starts \in Seq(0..Window) /\ recent \in Seq(1..Window)
  BY DEF LimitTypeOK
<1>2. PICK k \in 0..Len(starts) : Prunes(starts, kept, k)
  BY <1>1, PruneKeeps
<1>3. kept \in Seq(1..Window) /\ InOrder(kept) /\ Len(kept) \in Nat
  <2>1. kept \in Seq(1..Window) /\ InOrder(kept)
    BY <1>2 DEF Prunes
  <2> QED BY <2>1, LenProperties
<1>4. \A j \in Nat : /\ kept \o Times(j) \in Seq(1..Window) /\ InOrder(kept \o Times(j))
                     /\ Len(kept \o Times(j)) = Len(kept) + j
  <2> HIDE DEF kept
  <2> QED BY <1>3, Appended
<1>5. Pumped(limit')
  BY <1>0, <1>3, <1>4, PumpDoes
<1>6. PICK j \in Nat :
        /\ starts' = kept \o Times(j) /\ recent' = recent \o Times(j)
        /\ j > 0 /\ limit' > 0 => Len(kept) + j <= limit'
        /\ queue' \in Seq(Logons) /\ cancelled' \subseteq Elements(queue')
        /\ queue' = <<>> => wake' = Unarmed
        /\ queue' # <<>> => /\ limit' > 0 /\ Len(kept) + j >= limit'
                            /\ wake' = starts'[Len(starts') - limit' + 1]
  BY <1>5 DEF Pumped
<1>7. starts' \in Seq(1..Window) /\ InOrder(starts') /\ Len(starts') = Len(kept) + j
  BY <1>4, <1>6
<1>8. recent' \in Seq(1..Window) /\ InOrder(recent')
  BY <1>1, <1>6, Appended
<1>9. Recorded'
  <2> SUFFICES ASSUME limit' > 0 PROVE Agree(recent', starts', limit', Window - steady')
    BY DEF Recorded
  <2> DEFINE m == Window - steady'
             l == limit'
  <2>1. m \in Nat /\ l \in Nat /\ Agree(recent, starts, l, m) /\ (j > 0 => Len(kept) + j <= l)
    BY <1>0, <1>6
  <2> HIDE DEF m, l
  <2>2. Agree(recent \o Times(j), kept \o Times(j), l, m)
    BY <1>1, <2>1, AgreeAppend
  <2> QED BY <1>6, <2>2 DEF m, l
<1>10. TimerSet'
  BY <1>6, <1>7 DEF TimerSet
<1>11. wake' \in {Unarmed} \cup 0..Window
  <2>1. CASE queue' = <<>>
    BY <1>6, <2>1
  <2>2. CASE queue' # <<>>
    <3> DEFINE l == limit'
               n == Len(starts')
    <3>4. l \in Nat /\ l > 0 /\ n \in Nat /\ n >= l
      BY <1>0, <1>3, <1>6, <1>7, <2>2
    <3> HIDE DEF l, n
    <3>5. n - l + 1 \in 1..n
      BY <3>4
    <3>1. Len(starts') \in Nat /\ Len(starts') - limit' + 1 \in 1..Len(starts')
      BY <3>4, <3>5 DEF l, n
    <3>2. starts'[Len(starts') - limit' + 1] \in 1..Window
      BY <1>7, <3>1, ElementOfSeq
    <3>3. wake' \in 1..Window
      BY <1>6, <2>2, <3>2
    <3> QED BY <3>3, LimitConstants
  <2> QED BY <2>1, <2>2
<1>12. starts' \in Seq(0..Window)
  BY <1>7, SeqOfMore
<1>13. LimitTypeOK'
  BY <1>6, <1>8, <1>11, <1>12 DEF LimitTypeOK
<1> QED BY <1>7, <1>8, <1>9, <1>10, <1>13 DEF LimitInv

\* A logon starts at once.
LEMMA AcquireNowKeeps == ASSUME LimitInv, AcquireNow PROVE LimitInv'
<1> DEFINE kept == InWindow(starts)
           j == IF limit > 0 THEN 1 ELSE 0
<1>1. /\ LimitTypeOK /\ InOrder(starts) /\ InOrder(recent) /\ limit \in Nat /\ Window - steady \in Nat
      /\ starts \in Seq(0..Window) /\ recent \in Seq(1..Window)
  BY LimitConstants DEF LimitInv, LimitTypeOK
<1>2. PICK k \in 0..Len(starts) : Prunes(starts, kept, k)
  BY <1>1, PruneKeeps
<1>3. kept \in Seq(1..Window) /\ InOrder(kept) /\ Len(kept) \in Nat
  <2>1. kept \in Seq(1..Window) /\ InOrder(kept)
    BY <1>2 DEF Prunes
  <2> QED BY <2>1, LenProperties
<1>4. /\ starts' = kept \o Times(j) /\ recent' = recent \o Times(1) /\ HasRoom(limit, Len(kept))
      /\ queue = <<>> /\ UNCHANGED <<limit, queue, cancelled, wake, steady>>
  BY DEF AcquireNow
<1>5. starts' \in Seq(1..Window) /\ InOrder(starts')
  <2> HIDE DEF kept
  <2>1. j \in Nat
    BY <1>1
  <2> HIDE DEF j
  <2> QED BY <1>3, <1>4, <2>1, Appended
<1>6. recent' \in Seq(1..Window) /\ InOrder(recent')
  <2>1. 1 \in Nat
    OBVIOUS
  <2> QED BY <1>1, <1>4, <2>1, Appended
<1>7. Recorded'
  <2> SUFFICES ASSUME limit > 0 PROVE Agree(recent', starts', limit, Window - steady)
    BY <1>4 DEF Recorded
  <2>1. j = 1 /\ 1 \in Nat /\ (1 > 0 => Len(kept) + 1 <= limit)
    BY <1>1, <1>3, <1>4 DEF HasRoom
  <2>2. Agree(recent, starts, limit, Window - steady)
    BY DEF LimitInv, Recorded
  <2> DEFINE m == Window - steady
  <2>3. m \in Nat /\ Agree(recent, starts, limit, m)
    BY <1>1, <2>2
  <2> HIDE DEF m
  <2>4. Agree(recent \o Times(1), kept \o Times(1), limit, m)
    BY <1>1, <2>1, <2>3, AgreeAppend
  <2> QED BY <1>4, <2>1, <2>4 DEF m
<1>8. TimerSet'
  BY <1>4 DEF TimerSet
<1>9. starts' \in Seq(0..Window)
  BY <1>5, SeqOfMore
<1>10. LimitTypeOK'
  BY <1>1, <1>4, <1>6, <1>9 DEF LimitTypeOK
<1> QED BY <1>5, <1>6, <1>7, <1>8, <1>10 DEF LimitInv

\* A logon is queued, the timer fires, or the limit changes.
LEMMA PumpsKeep ==
  ASSUME LimitInv,
         \/ \E w \in Logons : AcquireLater(w)
         \/ TimerFires
         \/ \E max \in Limits : SetLimit(max)
  PROVE  LimitInv'
<1>1. /\ LimitTypeOK /\ InOrder(starts) /\ InOrder(recent) /\ Recorded
      /\ limit \in Limits /\ steady \in 0..Window /\ queue \in Seq(Logons) /\ recent \in Seq(1..Window)
  BY DEF LimitInv, LimitTypeOK
<1>2. ASSUME NEW w \in Logons, AcquireLater(w) PROVE LimitInv'
  <2>1. Append(queue, w) \in Seq(Logons) /\ Pump(Append(queue, w), limit') /\ limit' = limit /\ steady' = steady
    BY <1>1, <1>2, AppendProperties DEF AcquireLater
  <2>2. limit' > 0 => Agree(recent, starts, limit', Window - steady')
    BY <1>1, <2>1 DEF Recorded
  <2> QED BY <1>1, <2>1, <2>2, PumpKeeps
<1>3. CASE TimerFires
  <2>1. Pump(queue, limit') /\ limit' = limit /\ steady' = steady
    BY <1>3 DEF TimerFires
  <2>2. limit' > 0 => Agree(recent, starts, limit', Window - steady')
    BY <1>1, <2>1 DEF Recorded
  <2> QED BY <1>1, <2>1, <2>2, PumpKeeps
<1>4. ASSUME NEW max \in Limits, SetLimit(max) PROVE LimitInv'
  <2>1. Pump(queue, limit') /\ limit' = max /\ steady' = 0 /\ max \in Nat
    BY <1>4, LimitConstants DEF SetLimit
  <2>2. Agree(recent, starts, max, Window - 0)
    <3>1. Len(recent) \in Nat /\ Len(starts) \in Nat /\ \A i \in 1..Len(recent) : recent[i] \in 1..Window
      BY <1>1, LenProperties, ElementOfSeq DEF LimitTypeOK
    <3>2. AgreeOn(0, recent, starts, max, Window - 0)
      BY <2>1, <3>1, LimitConstants DEF AgreeOn
    <3> QED BY <3>1, <3>2 DEF Agree
  <2>3. steady' \in 0..Window /\ limit' \in Limits
    BY <2>1, LimitConstants
  <2> QED BY <1>1, <2>1, <2>2, <2>3, PumpKeeps
<1> QED BY <1>2, <1>3, <1>4

\* Time passes for starts and timer alike.
LEMMA TickInv == ASSUME LimitInv, TimePasses PROVE LimitInv'
<1> DEFINE r1 == Ticked(recent)
<1>1. /\ InOrder(starts) /\ InOrder(recent) /\ limit \in Nat /\ Window - steady \in Nat /\ Window \in Nat
      /\ starts \in Seq(0..Window) /\ recent \in Seq(1..Window) /\ steady \in 0..Window
      /\ limit \in Limits /\ queue \in Seq(Logons) /\ cancelled \subseteq Elements(queue)
      /\ wake \in {Unarmed} \cup 0..Window
  BY LimitConstants DEF LimitInv, LimitTypeOK
<1>2. /\ starts' = Ticked(starts) /\ recent' = InWindow(r1) /\ wake' = Later(wake)
      /\ steady' = (IF steady < Window THEN steady + 1 ELSE steady)
      /\ UNCHANGED <<limit, queue, cancelled>>
  BY DEF TimePasses, Ticked
<1>3. /\ starts' \in Seq(0..Window) /\ InOrder(starts') /\ Len(starts') = Len(starts)
      /\ \A i \in 1..Len(starts) : starts'[i] = Later(starts[i])
  BY <1>1, <1>2, TickKeeps
<1>4. r1 \in Seq(0..Window) /\ InOrder(r1)
  BY <1>1, TickKeeps
<1>5. recent' \in Seq(1..Window) /\ InOrder(recent')
  <2> HIDE DEF r1
  <2>1. PICK k \in 0..Len(r1) : Prunes(r1, InWindow(r1), k)
    BY <1>4, PruneKeeps
  <2> QED BY <1>2, <2>1 DEF Prunes
<1>6. Recorded'
  <2> SUFFICES ASSUME limit > 0 PROVE Agree(recent', starts', limit, Window - steady')
    BY <1>2 DEF Recorded
  <2> DEFINE m == Window - steady
             m2 == IF m > 0 THEN m - 1 ELSE 0
  <2>1. m \in Nat /\ Agree(recent, starts, limit, m)
    BY <1>1 DEF LimitInv, Recorded
  <2>2. m2 = Window - steady'
    BY <1>1, <1>2
  <2> HIDE DEF m
  <2>3. Agree(InWindow(Ticked(recent)), Ticked(starts), limit, m2)
    BY <1>1, <2>1, AgreeLater
  <2> QED BY <1>2, <2>2, <2>3
<1>7. TimerSet'
  <2> SUFFICES ASSUME queue # <<>>
               PROVE  /\ limit > 0 /\ Len(starts') >= limit
                      /\ wake' = starts'[Len(starts') - limit + 1]
    BY <1>2 DEF TimerSet
  <2>1. limit > 0 /\ Len(starts) >= limit /\ wake = starts[Len(starts) - limit + 1]
    BY DEF LimitInv, TimerSet
  <2>2. Len(starts) \in Nat
    BY <1>1, LenProperties
  <2>3. Len(starts) - limit + 1 \in 1..Len(starts)
    BY <1>1, <2>1, <2>2
  <2> QED BY <1>2, <1>3, <2>1, <2>3
<1>8. wake' \in {Unarmed} \cup 0..Window /\ steady' \in 0..Window
  BY <1>1, <1>2 DEF Later, Unarmed
<1>9. LimitTypeOK'
  BY <1>1, <1>2, <1>3, <1>5, <1>8 DEF LimitTypeOK
<1> QED BY <1>3, <1>5, <1>6, <1>7, <1>9 DEF LimitInv

\* Every step keeps it.
LEMMA LimitStepKeeps == LimitInv /\ [LimitNext]_limitVars => LimitInv'
<1> SUFFICES ASSUME LimitInv, [LimitNext]_limitVars PROVE LimitInv'
  OBVIOUS
<1>1. CASE AcquireNow
  BY <1>1, AcquireNowKeeps
<1>2. CASE TimePasses
  BY <1>2, TickInv
<1>3. ASSUME NEW w \in Logons, Cancel(w) PROVE LimitInv'
  BY <1>3 DEF Cancel, history, LimitInv, LimitTypeOK, Recorded, TimerSet, Elements
<1>4. CASE UNCHANGED limitVars
  BY <1>4 DEF limitVars, LimitInv, LimitTypeOK, Recorded, TimerSet, Elements
<1> QED BY <1>1, <1>2, <1>3, <1>4, PumpsKeep DEF LimitNext

\* The invariant says what the limiter promises.
LEMMA InvLimits == LimitInv => LimitKept
<1> SUFFICES ASSUME LimitInv PROVE WindowKept /\ NobodyForgotten
  BY DEF LimitKept
<1>1. /\ starts \in Seq(0..Window) /\ recent \in Seq(1..Window) /\ limit \in Nat /\ InOrder(starts)
      /\ Len(starts) \in Nat /\ Len(recent) \in Nat
  BY LimitConstants, LenProperties DEF LimitInv, LimitTypeOK
<1>2. WindowKept
  <2> SUFFICES ASSUME limit > 0, steady = Window PROVE Len(recent) <= limit
    BY DEF WindowKept
  <2>1. Agree(recent, starts, limit, 0)
    <3>1. Window - Window = 0
      BY LimitConstants
    <3> QED BY <3>1 DEF LimitInv, Recorded
  <2>2. PICK n \in 0..Len(recent) : AgreeOn(n, recent, starts, limit, 0)
    BY <2>1 DEF Agree
  <2>3. n <= limit /\ \A i \in 1..(Len(recent) - n) : recent[i] <= 0
    BY <2>2 DEF AgreeOn
  <2>4. n = Len(recent)
    <3> SUFFICES ASSUME n # Len(recent) PROVE FALSE
      OBVIOUS
    <3>1. 1 \in 1..(Len(recent) - n) /\ 1 \in 1..Len(recent)
      BY <1>1
    <3>2. recent[1] \in 1..Window
      BY <1>1, <3>1, ElementOfSeq
    <3> QED BY <2>3, <3>1, <3>2
  <2> QED BY <2>3, <2>4
<1>3. NobodyForgotten
  <2> SUFFICES ASSUME queue # <<>>
               PROVE  wake # Unarmed /\ (wake > 0 => ~HasRoom(limit, Len(InWindow(starts))))
    BY DEF NobodyForgotten
  <2>1. limit > 0 /\ Len(starts) >= limit /\ wake = starts[Len(starts) - limit + 1]
    BY DEF LimitInv, TimerSet
  <2>2. Len(starts) - limit + 1 \in 1..Len(starts)
    BY <1>1, <2>1
  <2>3. wake \in 0..Window
    BY <1>1, <2>1, <2>2, ElementOfSeq
  <2>4. PICK k \in 0..Len(starts) : Prunes(starts, InWindow(starts), k)
    BY <1>1, PruneKeeps
  <2>5. Len(InWindow(starts)) = Len(starts) - k /\ \A i \in 1..k : starts[i] = 0
    BY <2>4 DEF Prunes
  <2>6. ASSUME wake > 0 PROVE Len(InWindow(starts)) >= limit
    <3>1. ~(Len(starts) - limit + 1 \in 1..k)
      BY <2>1, <2>5, <2>6
    <3> QED BY <1>1, <2>2, <2>5, <3>1
  <2>7. Len(InWindow(starts)) \in Nat
    BY <1>1, <2>5
  <2> HIDE DEF InWindow
  <2> QED BY <1>1, <2>1, <2>3, <2>6, <2>7 DEF HasRoom, Unarmed
<1> QED BY <1>2, <1>3

\* However logons, cancellations, late timers and changes of the limit fall: once
\* it has stood for a whole window no more logons than it allows started within
\* one, and while somebody waits the timer is armed and due as soon as there is
\* room.
THEOREM LimitIsKept == LimitSpec => []LimitKept
<1>1. LimitInit => LimitInv
  BY InitLimit
<1>2. LimitInv /\ [LimitNext]_limitVars => LimitInv'
  BY LimitStepKeeps
<1>3. LimitInv => LimitKept
  BY InvLimits
<1> QED BY <1>1, <1>2, <1>3, PTL DEF LimitSpec

-----------------------------------------------------------------------------
(* The types of the services' state. *)

\* Where an account is: in which game, and what is connected there.
WhereTyped ==
  /\ gameOf \in [Tasks -> Games] /\ active \in Games /\ connected \subseteq Games
  /\ plays \in Games \cup {None} /\ late \subseteq Games

\* Money is a number that is never negative: at Steam, in the session, in the
\* events between them, and in orders.
MoneyTyped ==
  /\ balance \in Nat /\ wallet \in Nat /\ cost \in [Tasks -> Nat] /\ pushes \in Seq(Nat)

BuyInv == PurchaseInv /\ WhereTyped /\ online \in BOOLEAN /\ MoneyTyped

\* Entering a game, by a task or by a page.
LEMMA EnterTyped ==
  ASSUME WhereTyped, NEW g \in Games, EnterGame(g), UNCHANGED gameOf
  PROVE  WhereTyped'
  BY DEF WhereTyped, EnterGame, game

\* No task or page, and no message, takes the account anywhere but to a game.
LEMMA WhereStep ==
  ASSUME WhereTyped, [PurchaseNext]_buyVars
  PROVE  WhereTyped'
<1>0. CASE UNCHANGED <<gameOf, active, connected, plays, late>>
  BY <1>0 DEF WhereTyped
<1>1. ASSUME NEW t \in Tasks, TaskSteps(t) PROVE WhereTyped'
  <2>1. CASE Begin(t)
    <3>1. gameOf[t] \in Games /\ UNCHANGED gameOf
      BY <2>1 DEF WhereTyped, Begin
    <3>2. EnterGame(gameOf[t]) \/ UNCHANGED game
      BY <2>1 DEF Begin
    <3> QED BY <1>0, <3>1, <3>2, EnterTyped DEF game
  <2>2. CASE PriceCart(t) \/ Timeout(t) \/ WalletTimeout(t)
    BY <1>0, <2>2 DEF PriceCart, Timeout, WalletTimeout, attempt
  <2> QED BY <1>1, <2>1, <2>2 DEF TaskSteps
<1>2. ASSUME NEW m, Reply(m) \/ GcAnswers(m) \/ SteamPays(m) \/ MicroTxnRequest(m) PROVE WhereTyped'
  BY <1>0, <1>2, Zenon DEF Reply, GcAnswers, SteamPays, MicroTxnRequest, attempt
<1>3. ASSUME NEW g \in Games, PageEnters(g) PROVE WhereTyped'
  BY <1>3, EnterTyped DEF PageEnters
<1>4. ASSUME NEW g \in Games, PageLeaves(g) PROVE WhereTyped'
  BY <1>4 DEF PageLeaves, WhereTyped
<1>5. ASSUME NEW g \in Games, GcConnects(g) PROVE WhereTyped'
  BY <1>5 DEF GcConnects, WhereTyped
<1>6. ASSUME NEW g \in Games, GcDrops(g) PROVE WhereTyped'
  BY <1>6 DEF GcDrops, WhereTyped
<1>7. CASE Disconnect
  BY <1>7 DEF Disconnect, WhereTyped
<1>8. CASE WalletEvent \/ Relogin \/ UNCHANGED buyVars
  BY <1>0, <1>8 DEF WalletEvent, Relogin, buyVars, attempt, game
<1> QED BY <1>1, <1>2, <1>3, <1>4, <1>5, <1>6, <1>7, <1>8 DEF PurchaseNext

\* A flag stays a flag.
LEMMA OnlineStep ==
  ASSUME online \in BOOLEAN, [PurchaseNext]_buyVars
  PROVE  online' \in BOOLEAN
<1>0. CASE UNCHANGED online
  BY <1>0
<1>1. ASSUME NEW t \in Tasks, TaskSteps(t) PROVE UNCHANGED online
  BY <1>1, Zenon DEF TaskSteps, Begin, PriceCart, Timeout, WalletTimeout, attempt
<1>2. ASSUME NEW m, Reply(m) \/ GcAnswers(m) \/ SteamPays(m) \/ MicroTxnRequest(m) PROVE UNCHANGED online
  BY <1>2, Zenon DEF Reply, GcAnswers, SteamPays, MicroTxnRequest, attempt
<1>3. ASSUME NEW g \in Games, PageEnters(g) \/ PageLeaves(g) \/ GcConnects(g) \/ GcDrops(g) PROVE UNCHANGED online
  BY <1>3, Zenon DEF PageEnters, PageLeaves, GcConnects, GcDrops
<1>4. CASE Disconnect \/ Relogin
  BY <1>4, Zenon DEF Disconnect, Relogin
<1>5. CASE WalletEvent \/ UNCHANGED buyVars
  BY <1>5, Zenon DEF WalletEvent, buyVars, attempt
<1> QED BY <1>0, <1>1, <1>2, <1>3, <1>4, <1>5, Zenon DEF PurchaseNext

\* A purchase costs what the clamped cart comes to, which the money covers.
CostsWithin(t) == cost' = cost \/ (cost' = [cost EXCEPT ![t] = cost'[t]] /\ cost'[t] \in 0..balance)

LEMMA OrderCovered ==
  ASSUME MoneyTyped, NEW t \in Tasks, PriceCart(t)
  PROVE  CostsWithin(t)
<1>1. Cart[t] \in Seq(CartItems) /\ balance \in Nat
  BY PurchaseConstants DEF MoneyTyped, CartItems
<1>2. Total(Cart[t], balance) \in 0..balance
  BY <1>1, ClampWithin
<1>3. cost' = cost \/ cost' = [cost EXCEPT ![t] = Total(Cart[t], balance)]
  BY DEF PriceCart
<1> QED BY <1>2, <1>3 DEF MoneyTyped, CostsWithin

\* Whatever is ordered, paid, lost and told: no amount of money becomes negative.
LEMMA MoneyStep ==
  ASSUME PurchaseInv, MoneyTyped, [PurchaseNext]_buyVars
  PROVE  MoneyTyped'
<1>0. CASE UNCHANGED <<balance, wallet, cost, pushes>>
  BY <1>0 DEF MoneyTyped
<1>1. ASSUME NEW t \in Tasks, TaskSteps(t) PROVE MoneyTyped'
  <2>1. CASE PriceCart(t)
    <3>1. UNCHANGED <<balance, wallet, pushes>>
      BY <2>1 DEF PriceCart, attempt, steam
    <3>2. CostsWithin(t)
      BY <2>1, OrderCovered
    <3>3. cost' \in [Tasks -> Nat]
      BY <3>2 DEF CostsWithin, MoneyTyped
    <3> QED BY <3>1, <3>3 DEF MoneyTyped
  <2>2. CASE Begin(t) \/ Timeout(t) \/ WalletTimeout(t)
    BY <1>0, <2>2 DEF Begin, Timeout, WalletTimeout, attempt, wire, steam
  <2> QED BY <1>1, <2>1, <2>2 DEF TaskSteps
<1>2. ASSUME NEW m, Reply(m) \/ GcAnswers(m) \/ MicroTxnRequest(m) PROVE MoneyTyped'
  BY <1>0, <1>2, Zenon DEF Reply, GcAnswers, MicroTxnRequest, attempt, steam
<1>3. ASSUME NEW m \in sent, SteamPays(m) PROVE MoneyTyped'
  <2>1. UNCHANGED <<balance, cost>>
    BY <1>3 DEF SteamPays, attempt
  <2>2. m.about \in Tasks
    <3>1. m.kind = "authorize"
      BY <1>3 DEF SteamPays
    <3> QED BY <3>1, MessageTypes DEF PurchaseInv, RequestsKept
  <2>3. cost[m.about] \in Nat /\ wallet \in Nat
    BY <2>2 DEF MoneyTyped
  <2>4. \/ UNCHANGED <<wallet, pushes>>
        \/ cost[m.about] <= wallet /\ wallet' = wallet - cost[m.about] /\ pushes' = Append(pushes, wallet - cost[m.about])
    BY <1>3 DEF SteamPays
  <2>5. CASE UNCHANGED <<wallet, pushes>>
    BY <1>0, <2>1, <2>5
  <2>6. CASE cost[m.about] <= wallet /\ wallet' = wallet - cost[m.about] /\ pushes' = Append(pushes, wallet - cost[m.about])
    <3>1. wallet - cost[m.about] \in Nat
      BY <2>3, <2>6
    <3>2. pushes' \in Seq(Nat)
      BY <2>6, <3>1, AppendProperties DEF MoneyTyped
    <3> QED BY <2>1, <2>6, <3>1, <3>2 DEF MoneyTyped
  <2> QED BY <2>4, <2>5, <2>6
<1>4. ASSUME NEW g \in Games, PageEnters(g) \/ PageLeaves(g) \/ GcConnects(g) \/ GcDrops(g) PROVE MoneyTyped'
  BY <1>0, <1>4 DEF PageEnters, PageLeaves, GcConnects, GcDrops, wire, steam
<1>5. CASE Disconnect
  <2>1. pushes' = <<>> /\ UNCHANGED <<balance, wallet, cost>>
    BY <1>5 DEF Disconnect, steam
  <2> QED BY <2>1 DEF MoneyTyped
<1>6. CASE Relogin
  <2>1. pushes' = <<wallet>> /\ UNCHANGED <<balance, wallet, cost>>
    BY <1>6 DEF Relogin, steam
  <2> QED BY <2>1 DEF MoneyTyped
<1>7. CASE WalletEvent
  <2>1. pushes # <<>> /\ balance' = Head(pushes) /\ pushes' = Tail(pushes) /\ UNCHANGED <<wallet, cost>>
    BY <1>7 DEF WalletEvent, steam
  <2>2. Head(pushes) \in Nat /\ Tail(pushes) \in Seq(Nat)
    BY <2>1, HeadTailProperties DEF MoneyTyped
  <2> QED BY <2>1, <2>2 DEF MoneyTyped
<1>8. CASE UNCHANGED buyVars
  BY <1>0, <1>8 DEF buyVars, attempt, wire, steam
<1> QED BY <1>1, <1>2, <1>3, <1>4, <1>5, <1>6, <1>7, <1>8 DEF PurchaseNext

\* So the whole state of the purchases keeps its types.
LEMMA BuyStarts == PurchaseInit => BuyInv
<1> SUFFICES ASSUME PurchaseInit PROVE BuyInv
  OBVIOUS
<1>1. WhereTyped
  BY PurchaseConstants DEF PurchaseInit, WhereTyped
<1>2. online \in BOOLEAN
  BY DEF PurchaseInit
<1>3. MoneyTyped
  BY PurchaseConstants DEF PurchaseInit, MoneyTyped
<1> QED BY <1>1, <1>2, <1>3, PaidStarts DEF BuyInv

LEMMA BuyStep == BuyInv /\ [PurchaseNext]_buyVars => BuyInv'
  BY PaidStep, WhereStep, OnlineStep, MoneyStep DEF BuyInv

LEMMA BuyIsTyped == BuyInv => BuyTypeOK
<1> SUFFICES ASSUME BuyInv PROVE BuyTypeOK
  OBVIOUS
<1>1. \A m \in sent : m.task \in Tasks /\ m.about \in Tasks \cup {None}
  BY DEF BuyInv, PurchaseInv, Requests
<1> QED BY <1>1 DEF BuyInv, PurchaseInv, WhereTyped, MoneyTyped, BuyTypeOK, OrderStates

\* Whatever the session takes for the balance, no order is placed for more
\* (runAccount of purchase/tasks.ts).
OrdersWithin == \A t \in Tasks : cost'[t] # cost[t] => cost'[t] \in 0..balance
THEOREM OrdersWithinBalance == PurchaseSpec => [][OrdersWithin]_buyVars
<1>1. BuyInv /\ [PurchaseNext]_buyVars => [OrdersWithin]_buyVars
  <2> SUFFICES ASSUME BuyInv, [PurchaseNext]_buyVars PROVE OrdersWithin
    OBVIOUS
  <2>0. CASE UNCHANGED cost
    BY <2>0 DEF OrdersWithin
  <2>1. ASSUME NEW t \in Tasks, PriceCart(t) PROVE OrdersWithin
    <3>1. CostsWithin(t)
      BY <2>1, OrderCovered DEF BuyInv
    <3> QED BY <3>1 DEF CostsWithin, OrdersWithin, BuyInv, MoneyTyped
  <2>2. ASSUME NEW t \in Tasks, Begin(t) \/ Timeout(t) \/ WalletTimeout(t) PROVE OrdersWithin
    BY <2>0, <2>2 DEF Begin, Timeout, WalletTimeout
  <2>3. ASSUME NEW m, Reply(m) \/ GcAnswers(m) \/ SteamPays(m) \/ MicroTxnRequest(m) PROVE OrdersWithin
    BY <2>0, <2>3, Zenon DEF Reply, GcAnswers, SteamPays, MicroTxnRequest
  <2>4. ASSUME NEW g \in Games, PageEnters(g) \/ PageLeaves(g) \/ GcConnects(g) \/ GcDrops(g) PROVE OrdersWithin
    BY <2>0, <2>4, Zenon DEF PageEnters, PageLeaves, GcConnects, GcDrops
  <2>5. CASE WalletEvent \/ Disconnect \/ Relogin \/ UNCHANGED buyVars
    BY <2>0, <2>5, Zenon DEF WalletEvent, Disconnect, Relogin, buyVars
  <2> QED BY <2>1, <2>2, <2>3, <2>4, <2>5 DEF PurchaseNext, TaskSteps
<1> QED BY <1>1, BuyStarts, BuyStep, PTL DEF PurchaseSpec

-----------------------------------------------------------------------------
(* The counts of a task in the store. *)

\* An entry is in the store as often as it has asked for a status, and asks no
\* more often than STATUS_POLLS.
PollsTyped ==
  /\ polls \in [Batch -> 0..StatusPolls]
  /\ \A i \in Batch : entry[i] \in {"queued", "cart", "init", "price", "finalize"} => polls[i] = 0
  /\ \A i \in Batch : entry[i] = "status" => polls[i] < StatusPolls

\* What is counted, and that a completed task has ended every entry.
Counted ==
  /\ counts \in [processed : Nat, success : Nat, fail : Nat]
  /\ CountsAgree
  /\ finished => \A i \in Batch : entry[i] \in EntryEnds

\* While the pool works on entries: one before the cursor is worked on or has ended.
Worked ==
  /\ \A i \in Batch : i >= cursor => entry[i] = "queued"
  /\ \A w \in Workers : at[w] # Idle => entry[at[w]] \in Checkout
  /\ \A i \in Batch : i < cursor => entry[i] \in EntryEnds \/ \E w \in Workers : at[w] = i

StoreFlags == dryRun \in BOOLEAN /\ finished \in BOOLEAN

StoreInv == PaidInv /\ StoreFlags /\ PollsTyped /\ Counted

\* The entries of one status are finitely many.
LEMMA CountTyped ==
  ASSUME NEW status
  PROVE  IsFiniteSet({i \in Batch : entry[i] = status}) /\ Count(status) \in Nat
<1>1. IsFiniteSet(Batch)
  BY PoolConstants, FS_Interval DEF Batch
<1>2. IsFiniteSet({i \in Batch : entry[i] = status})
  BY <1>1, FS_Subset
<1> QED BY <1>2, FS_CardinalityType DEF Count

\* One more entry has a status, and one fewer none of the others counted.
LEMMA CountOne ==
  ASSUME entry \in [Batch -> Statuses], NEW i \in Batch, NEW s \in Statuses, entry[i] \notin EntryEnds,
         entry' = [entry EXCEPT ![i] = s], NEW status \in EntryEnds
  PROVE  Count(status)' = Count(status) + (IF s = status THEN 1 ELSE 0)
<1> DEFINE those == {j \in Batch : entry[j] = status}
<1>1. i \notin those /\ IsFiniteSet(those) /\ Count(status) = Cardinality(those) /\ Count(status) \in Nat
  BY CountTyped DEF Count
<1>2. CASE s = status
  <2>1. {j \in Batch : entry'[j] = status} = those \cup {i}
    BY <1>2
  <2>2. Cardinality(those \cup {i}) = Cardinality(those) + 1
    BY <1>1, FS_AddElement
  <2>3. Count(status)' = Cardinality(those \cup {i})
    BY <2>1 DEF Count
  <2> QED BY <1>1, <1>2, <2>2, <2>3
<1>3. CASE s # status
  <2>1. {j \in Batch : entry'[j] = status} = those
    BY <1>3
  <2>2. Count(status)' = Cardinality(those)
    BY <2>1 DEF Count
  <2> QED BY <1>1, <1>3, <2>2
<1> QED BY <1>2, <1>3

\* An entry goes on: nothing is counted.
LEMMA GoingOnCounts ==
  ASSUME PaidInv, Counted, NEW i \in Batch, entry[i] \notin EntryEnds, NEW s \in Statuses \ EntryEnds,
         entry' = [entry EXCEPT ![i] = s], UNCHANGED <<counts, finished>>
  PROVE  Counted'
<1>1. ~finished
  BY DEF Counted
<1>2. \A status \in EntryEnds : Count(status)' = Count(status)
  <2> SUFFICES ASSUME NEW status \in EntryEnds PROVE Count(status)' = Count(status)
    OBVIOUS
  <2>1. Count(status)' = Count(status) + (IF s = status THEN 1 ELSE 0)
    BY CountOne DEF PaidInv
  <2>2. s # status /\ Count(status) \in Nat
    BY CountTyped
  <2> QED BY <2>1, <2>2
<1> HIDE DEF Count
<1>3. {"success", "failed", "verified"} \subseteq EntryEnds
  BY DEF EntryEnds
<1> QED BY <1>1, <1>2, <1>3 DEF Counted, CountsAgree

\* An entry ends: it is counted once, under its status.
LEMMA EndingCounts ==
  ASSUME PaidInv, Counted, NEW i \in Batch, entry[i] \in Checkout, NEW s \in EntryEnds, EndsAs(i, s),
         UNCHANGED finished
  PROVE  Counted'
<1>0. entry[i] \notin EntryEnds
  BY DEF Checkout, EntryEnds
<1>1. ~finished
  BY <1>0 DEF Counted
<1>2. entry' = [entry EXCEPT ![i] = s] /\ s \in Statuses
  BY DEF EndsAs, Statuses
<1>3. \A status \in EntryEnds :
        Count(status)' = Count(status) + (IF s = status THEN 1 ELSE 0) /\ Count(status) \in Nat
  BY <1>0, <1>2, CountOne, CountTyped DEF PaidInv
<1>4. counts' = [processed |-> counts.processed + 1,
                 success |-> counts.success + (IF s = "success" THEN 1 ELSE 0),
                 fail |-> counts.fail + (IF s = "failed" THEN 1 ELSE 0)]
  BY DEF EndsAs
<1>5. /\ counts.success = Count("success") /\ counts.fail = Count("failed")
      /\ counts.processed = Count("success") + Count("failed") + Count("verified")
  BY DEF Counted, CountsAgree
<1> HIDE DEF Count
<1>6. /\ counts'.success = Count("success")' /\ counts'.fail = Count("failed")'
      /\ counts'.processed = Count("success")' + Count("failed")' + Count("verified")'
  BY <1>3, <1>4, <1>5 DEF EntryEnds
<1>7. counts' \in [processed : Nat, success : Nat, fail : Nat]
  BY <1>3, <1>4, <1>5 DEF EntryEnds
<1> QED BY <1>1, <1>6, <1>7 DEF Counted, CountsAgree

\* Sets that share nothing have as many elements together as their numbers add up to.
LEMMA TogetherAre ==
  ASSUME NEW S, NEW T, IsFiniteSet(S), IsFiniteSet(T), S \cap T = {}
  PROVE  IsFiniteSet(S \cup T) /\ Cardinality(S \cup T) = Cardinality(S) + Cardinality(T)
<1>1. Cardinality(S \cup T) = Cardinality(S) + Cardinality(T) - Cardinality({})
  BY FS_Union
<1>2. Cardinality({}) = 0 /\ Cardinality(S) \in Nat /\ Cardinality(T) \in Nat
  BY FS_EmptySet, FS_CardinalityType
<1> QED BY <1>1, <1>2, FS_Union

\* The entries of a completed task are as many as its counts say.
LEMMA AllCounted ==
  ASSUME PaidInv, \A i \in Batch : entry[i] \in EntryEnds
  PROVE  Count("success") + Count("failed") + Count("verified") = Entries
<1> DEFINE S(status) == {i \in Batch : entry[i] = status}
<1>1. IsFiniteSet(S("success")) /\ IsFiniteSet(S("failed")) /\ IsFiniteSet(S("verified"))
  BY CountTyped
<1>2. S("success") \cap S("failed") = {}
  OBVIOUS
<1>4. (S("success") \cup S("failed")) \cap S("verified") = {}
  OBVIOUS
<1>5. (S("success") \cup S("failed")) \cup S("verified") = Batch
  BY DEF EntryEnds
<1>6. Cardinality(Batch) = Entries
  BY PoolConstants, FS_Interval DEF Batch
<1>7. \A status : Cardinality(S(status)) = Count(status)
  BY DEF Count
<1> HIDE DEF S, Count
<1>8. IsFiniteSet(S("success") \cup S("failed"))
      /\ Cardinality(S("success") \cup S("failed")) = Cardinality(S("success")) + Cardinality(S("failed"))
  BY <1>1, <1>2, TogetherAre
<1>9. Cardinality((S("success") \cup S("failed")) \cup S("verified"))
        = Cardinality(S("success") \cup S("failed")) + Cardinality(S("verified"))
  BY <1>1, <1>4, <1>8, TogetherAre
<1> QED BY <1>5, <1>6, <1>7, <1>8, <1>9

\* A worker takes the entry at the cursor, which nobody has begun.
LEMMA StartStores ==
  ASSUME StoreInv, PoolInv, Worked, NEW w \in Workers, StartEntry(w)
  PROVE  PollsTyped' /\ Counted' /\ Worked'
<1>1. /\ at[w] = Idle /\ cursor \in Batch /\ at' = [at EXCEPT ![w] = cursor] /\ cursor' = cursor + 1
      /\ entry' = [entry EXCEPT ![cursor] = "cart"] /\ UNCHANGED <<polls, counts, finished>>
  BY PoolConstants DEF StartEntry, Take, PoolInv, Batch
<1>2. entry[cursor] = "queued" /\ cursor \in Nat /\ Batch \subseteq Nat
  BY <1>1, PoolConstants DEF Worked, Batch
<1>3. entry \in [Batch -> Statuses] /\ at \in [Workers -> Batch \cup {Idle}]
  BY DEF StoreInv, PaidInv, PoolInv
<1>4. PollsTyped'
  BY <1>1, <1>2, <1>3 DEF StoreInv, PollsTyped
<1>5. Counted'
  <2>1. entry[cursor] \notin EntryEnds /\ "cart" \in Statuses \ EntryEnds
    BY <1>2 DEF EntryEnds, Statuses, Checkout
  <2> QED BY <1>1, <2>1, GoingOnCounts DEF StoreInv
<1>6. Worked'
  <2>1. \A i \in Batch : i >= cursor' => entry'[i] = "queued"
    BY <1>1, <1>2, <1>3 DEF Worked
  <2>2. \A v \in Workers : at'[v] # Idle => entry'[at'[v]] \in Checkout
    <3> SUFFICES ASSUME NEW v \in Workers, at'[v] # Idle PROVE entry'[at'[v]] \in Checkout
      OBVIOUS
    <3>1. CASE v = w
      BY <1>1, <1>3, <3>1 DEF Checkout
    <3>2. CASE v # w
      <4>1. at'[v] = at[v] /\ at[v] < cursor /\ at[v] \in Batch /\ entry[at[v]] \in Checkout
        BY <1>1, <1>3, <3>2 DEF Worked, PoolInv, EachByOne
      <4> QED BY <1>1, <1>2, <1>3, <4>1
    <3> QED BY <3>1, <3>2
  <2>3. \A i \in Batch : i < cursor' => entry'[i] \in EntryEnds \/ \E v \in Workers : at'[v] = i
    <3> SUFFICES ASSUME NEW i \in Batch, i < cursor' PROVE entry'[i] \in EntryEnds \/ \E v \in Workers : at'[v] = i
      OBVIOUS
    <3>1. CASE i = cursor
      BY <1>1, <1>3, <3>1
    <3>2. CASE i # cursor
      <4>1. i < cursor /\ entry'[i] = entry[i]
        BY <1>1, <1>2, <1>3, <3>2
      <4>2. ASSUME NEW v \in Workers, at[v] = i PROVE at'[v] = i
        <5>1. v # w
          BY <1>1, <4>2, PoolConstants DEF Idle, Batch
        <5> QED BY <1>1, <1>3, <4>2, <5>1
      <4> QED BY <4>1, <4>2 DEF Worked
    <3> QED BY <3>1, <3>2
  <2> QED BY <2>1, <2>2, <2>3 DEF Worked
<1> QED BY <1>4, <1>5, <1>6

\* An entry that a worker is at goes on.
LEMMA GoesOnStores ==
  ASSUME StoreInv, PoolInv, NEW i \in Batch, entry[i] \in Checkout, NEW s \in Checkout, GoesOn(i, s),
         UNCHANGED finished
  PROVE  Counted' /\ (Worked => Worked')
<1>1. entry' = [entry EXCEPT ![i] = s] /\ UNCHANGED <<cursor, at, counts, finished>>
  BY DEF GoesOn, poolVars
<1>2. s \in Statuses \ EntryEnds /\ entry[i] \notin EntryEnds /\ entry[i] # "queued"
  BY DEF Statuses, EntryEnds, Checkout
<1>3. Counted'
  BY <1>1, <1>2, GoingOnCounts DEF StoreInv
<1>4. ASSUME Worked PROVE Worked'
  <2>1. entry \in [Batch -> Statuses] /\ at \in [Workers -> Batch \cup {Idle}]
    BY DEF StoreInv, PaidInv, PoolInv
  <2>2. \A j \in Batch : j >= cursor' => entry'[j] = "queued"
    BY <1>1, <1>2, <2>1, <1>4 DEF Worked
  <2>3. \A w \in Workers : at'[w] # Idle => entry'[at'[w]] \in Checkout
    BY <1>1, <2>1, <1>4 DEF Worked
  <2>4. \A j \in Batch : j < cursor' => entry'[j] \in EntryEnds \/ \E v \in Workers : at'[v] = j
    BY <1>1, <1>2, <2>1, <1>4 DEF Worked
  <2> QED BY <2>2, <2>3, <2>4 DEF Worked
<1> QED BY <1>3, <1>4

\* An entry ends, and its worker is free for the next.
LEMMA EndsStores ==
  ASSUME StoreInv, PoolInv, NEW i \in Batch, entry[i] \in Checkout, NEW s \in EntryEnds, EndsAs(i, s),
         UNCHANGED finished
  PROVE  Counted' /\ (Worked => Worked')
<1>1. /\ entry' = [entry EXCEPT ![i] = s] /\ UNCHANGED <<cursor, finished>>
      /\ at' = [w \in Workers |-> IF at[w] = i THEN Idle ELSE at[w]]
  BY DEF EndsAs, Leave
<1>2. Counted'
  BY <1>1, EndingCounts DEF StoreInv
<1>3. ASSUME Worked PROVE Worked'
  <2>1. entry \in [Batch -> Statuses] /\ at \in [Workers -> Batch \cup {Idle}] /\ entry[i] # "queued"
    BY DEF StoreInv, PaidInv, PoolInv, Checkout
  <2>2. \A j \in Batch : j >= cursor' => entry'[j] = "queued"
    BY <1>1, <2>1, <1>3 DEF Worked
  <2>3. \A w \in Workers : at'[w] # Idle => entry'[at'[w]] \in Checkout
    BY <1>1, <2>1, <1>3 DEF Worked
  <2>4. \A j \in Batch : j < cursor' => entry'[j] \in EntryEnds \/ \E v \in Workers : at'[v] = j
    BY <1>1, <2>1, <1>3 DEF Worked
  <2> QED BY <2>2, <2>3, <2>4 DEF Worked
<1> QED BY <1>2, <1>3

\* So an entry in the store goes on, or ends as one of its ends.
LEMMA EntryStores ==
  ASSUME StoreInv, PoolInv, NEW i \in Batch, entry[i] \in Checkout, UNCHANGED finished,
         \/ \E s \in Checkout : GoesOn(i, s)
         \/ \E s \in EntryEnds : EndsAs(i, s)
  PROVE  Counted' /\ (Worked => Worked')
  BY GoesOnStores, EndsStores

\* How often an entry has asked changes with its own requests for the status only.
LEMMA PollsKept ==
  ASSUME StoreInv, NEW i \in Batch, entry[i] \in Checkout, UNCHANGED polls,
         NEW s \in (Checkout \ {"status"}) \cup EntryEnds \cup {"status"}, entry' = [entry EXCEPT ![i] = s],
         s \in {"cart", "init", "price", "finalize"} => entry[i] # "status",
         s = "status" => entry[i] = "finalize"
  PROVE  PollsTyped'
<1>1. entry \in [Batch -> Statuses]
  BY DEF StoreInv, PaidInv
<1>2. 0 < StatusPolls /\ StatusPolls \in Nat
  BY BuyGameConstants
<1> QED BY <1>1, <1>2 DEF StoreInv, PollsTyped, Checkout, EntryEnds

\* Every step of an entry.
LEMMA EntryStep ==
  ASSUME StoreInv, PoolInv, NEW i \in Batch, EntrySteps(i)
  PROVE  PollsTyped' /\ Counted' /\ (Worked => Worked')
<1> USE DEF Checkout, EntryEnds
<1>1. entry[i] \in Checkout /\ UNCHANGED finished
  BY DEF EntrySteps, CartFilled, InitTransaction, FinalPrice, FinalizeTransaction, TransactionStatus
<1>2. CASE CartFilled(i)
  <2>1. UNCHANGED polls /\ entry[i] = "cart" /\ (GoesOn(i, "init") \/ EndsAs(i, "failed"))
    BY <1>2 DEF CartFilled, Fails
  <2> QED BY <1>1, <2>1, EntryStores, PollsKept DEF GoesOn, EndsAs
<1>3. CASE InitTransaction(i)
  <2>1. UNCHANGED polls /\ entry[i] = "init" /\ (GoesOn(i, "price") \/ EndsAs(i, "failed"))
    BY <1>3 DEF InitTransaction, Fails
  <2> QED BY <1>1, <2>1, EntryStores, PollsKept DEF GoesOn, EndsAs
<1>4. CASE FinalPrice(i)
  <2>1. UNCHANGED polls /\ entry[i] = "price" /\ (GoesOn(i, "finalize") \/ EndsAs(i, "failed") \/ EndsAs(i, "verified"))
    BY <1>4 DEF FinalPrice, AfterPrice, Fails
  <2> QED BY <1>1, <2>1, EntryStores, PollsKept DEF GoesOn, EndsAs
<1>5. CASE FinalizeTransaction(i)
  <2>1. UNCHANGED polls /\ entry[i] = "finalize" /\ (GoesOn(i, "status") \/ EndsAs(i, "failed"))
    BY <1>5 DEF FinalizeTransaction, Fails
  <2> QED BY <1>1, <2>1, EntryStores, PollsKept DEF GoesOn, EndsAs
<1>6. CASE TransactionStatus(i)
  <2>1. /\ polls' = [polls EXCEPT ![i] = @ + 1] /\ entry[i] = "status"
        /\ \/ GoesOn(i, "status") /\ PollAgain(polls[i] + 1)
           \/ EndsAs(i, "failed") \/ EndsAs(i, "success")
    BY <1>6 DEF TransactionStatus, Fails
  <2>2. Counted' /\ (Worked => Worked')
    BY <1>1, <2>1, EntryStores
  <2>3. polls[i] \in 0..StatusPolls /\ polls[i] < StatusPolls /\ StatusPolls \in Nat
    BY <2>1, BuyGameConstants DEF StoreInv, PollsTyped
  <2>4. polls[i] + 1 \in 0..StatusPolls
    BY <2>3
  <2>5. polls' \in [Batch -> 0..StatusPolls] /\ polls'[i] = polls[i] + 1 /\ \A j \in Batch \ {i} : polls'[j] = polls[j]
    BY <2>1, <2>4 DEF StoreInv, PollsTyped
  <2>6. /\ \A j \in Batch \ {i} : entry'[j] = entry[j]
        /\ entry'[i] \in {"failed", "success"} \/ (entry'[i] = "status" /\ polls[i] + 1 < StatusPolls)
    BY <2>1 DEF GoesOn, EndsAs, PollAgain, StoreInv, PaidInv
  <2>7. PollsTyped'
    BY <2>5, <2>6 DEF PollsTyped, StoreInv
  <2> QED BY <2>2, <2>7
<1> QED BY <1>2, <1>3, <1>4, <1>5, <1>6 DEF EntrySteps

\* Flags stay flags.
LEMMA StoreFlagsStep == StoreFlags /\ [BuyGameNext]_buyGameVars => StoreFlags'
<1> SUFFICES ASSUME StoreFlags, [BuyGameNext]_buyGameVars PROVE StoreFlags'
  OBVIOUS
<1>1. UNCHANGED dryRun /\ (UNCHANGED finished \/ finished' = TRUE)
  <2>1. ASSUME NEW i \in Batch, EntrySteps(i) PROVE UNCHANGED <<dryRun, finished>>
    BY <2>1 DEF EntrySteps, CartFilled, InitTransaction, FinalPrice, FinalizeTransaction, TransactionStatus
  <2>2. ASSUME NEW w \in Workers, StartEntry(w) PROVE UNCHANGED <<dryRun, finished>>
    BY <2>2 DEF StartEntry
  <2>3. ASSUME NEW i \in Batch, SteamCharges(i) PROVE UNCHANGED <<dryRun, finished>>
    BY <2>3 DEF SteamCharges
  <2>4. CASE FinishTask
    BY <2>4, Zenon DEF FinishTask
  <2>5. CASE UNCHANGED buyGameVars
    BY <2>5 DEF buyGameVars
  <2> QED BY <2>1, <2>2, <2>3, <2>4, <2>5 DEF BuyGameNext
<1> QED BY <1>1, Zenon DEF StoreFlags

\* Every step of a purchase in the store.
LEMMA StoreStep == StoreInv /\ PoolInv /\ Worked /\ [BuyGameNext]_buyGameVars => StoreInv' /\ PoolInv' /\ Worked'
<1> SUFFICES ASSUME StoreInv, PoolInv, Worked, [BuyGameNext]_buyGameVars PROVE StoreInv' /\ PoolInv' /\ Worked'
  OBVIOUS
<1>1. PaidInv' /\ StoreFlags' /\ PoolInv'
  BY BoughtStep, StoreFlagsStep, PoolKept, BuyGameUsesPool DEF StoreInv
<1>2. ASSUME NEW w \in Workers, StartEntry(w) PROVE PollsTyped' /\ Counted' /\ Worked'
  BY <1>2, StartStores
<1>3. ASSUME NEW i \in Batch, EntrySteps(i) PROVE PollsTyped' /\ Counted' /\ Worked'
  BY <1>3, EntryStep
<1>4. ASSUME UNCHANGED <<cursor, at, entry, polls, counts>>, UNCHANGED finished PROVE PollsTyped' /\ Counted' /\ Worked'
  BY <1>4 DEF StoreInv, PollsTyped, Counted, CountsAgree, Count, Worked
<1>5. ASSUME NEW i \in Batch, SteamCharges(i) PROVE PollsTyped' /\ Counted' /\ Worked'
  BY <1>4, <1>5 DEF SteamCharges, poolVars
<1>6. ASSUME FinishTask PROVE PollsTyped' /\ Counted' /\ Worked'
  <2>1. PoolDone /\ finished' = TRUE /\ UNCHANGED <<cursor, at, entry, polls, counts>>
    BY <1>6 DEF FinishTask, poolVars
  <2>2. \A i \in Batch : entry[i] \in EntryEnds
    <3> SUFFICES ASSUME NEW i \in Batch PROVE entry[i] \in EntryEnds
      OBVIOUS
    <3>1. i < cursor /\ \A w \in Workers : at[w] # i
      BY <2>1, PoolConstants DEF PoolDone, PoolInv, Batch, Idle
    <3> QED BY <3>1 DEF Worked
  <2>3. counts.processed = Entries
    BY <2>2, AllCounted DEF StoreInv, Counted, CountsAgree
  <2>4. \A status : Count(status)' = Count(status)
    BY <2>1 DEF Count
  <2>5. Counted'
    BY <2>1, <2>2, <2>3, <2>4 DEF StoreInv, Counted, CountsAgree
  <2> QED BY <2>1, <2>5 DEF StoreInv, PollsTyped, Worked
<1>7. ASSUME UNCHANGED buyGameVars PROVE PollsTyped' /\ Counted' /\ Worked'
  BY <1>4, <1>7 DEF buyGameVars, poolVars
<1>8. PollsTyped' /\ Counted' /\ Worked'
  BY <1>2, <1>3, <1>5, <1>6, <1>7 DEF BuyGameNext
<1> QED BY <1>1, <1>8 DEF StoreInv

\* At the start nothing is taken, nothing counted and nothing asked.
LEMMA StoreStarts == BuyGameInit => StoreInv /\ PoolInv /\ Worked
<1> SUFFICES ASSUME BuyGameInit PROVE StoreInv /\ PoolInv /\ Worked
  OBVIOUS
<1>1. PoolInv
  BY PoolStarts DEF BuyGameInit
<1>2. PaidInv
  BY DEF BuyGameInit, PaidInv, BoughtIsPaid, Transactions, Statuses
<1>3. dryRun \in BOOLEAN /\ finished = FALSE
  BY DEF BuyGameInit
<1>4. PollsTyped
  BY BuyGameConstants DEF BuyGameInit, PollsTyped
<1>5. Counted
  <2>1. \A status : status # "queued" => Count(status) = 0
    <3> SUFFICES ASSUME NEW status, status # "queued" PROVE Count(status) = 0
      OBVIOUS
    <3>1. {i \in Batch : entry[i] = status} = {}
      BY DEF BuyGameInit
    <3> QED BY <3>1, FS_EmptySet DEF Count
  <2>2. counts = [processed |-> 0, success |-> 0, fail |-> 0]
    BY DEF BuyGameInit
  <2> HIDE DEF Count
  <2> QED BY <1>3, <2>1, <2>2 DEF Counted, CountsAgree
<1>6. Worked
  BY PoolConstants DEF BuyGameInit, PoolInit, Worked, Idle, Batch
<1> QED BY <1>1, <1>2, <1>3, <1>4, <1>5, <1>6, Zenon DEF StoreInv, StoreFlags

\* The page's numbers of a task in the store are right at any moment, though
\* several workers count at once, and a completed task has left no entry out
\* (buygame/index.ts, run and processAccount).
THEOREM CountsAreRight == BuyGameSpec => []CountsAgree
<1>1. StoreInv => CountsAgree
  BY DEF StoreInv, Counted
<1> QED BY <1>1, StoreStarts, StoreStep, PTL DEF BuyGameSpec

-----------------------------------------------------------------------------
(* Redemptions, and the services together. *)

\* Pairs, clients and codes are in a state the redemption knows.
PairsTyped ==
  /\ pair \in [Batch -> {"queued", "slot", "login", "redeem"} \cup PairEnds]
  /\ conn \in [Batch -> {"none", "trying", "loggedOn", "off"}]
  /\ code \in [Batch -> {"unused", "redeemed", "bad"}]

LEMMA PairsStep == PairsTyped /\ [RedeemNext]_redeemVars => PairsTyped'
<1> SUFFICES ASSUME PairsTyped, [RedeemNext]_redeemVars PROVE PairsTyped'
  OBVIOUS
<1> USE DEF PairsTyped, PairEnds, EndPair
<1>1. ASSUME NEW w \in Workers, StartPair(w) PROVE PairsTyped'
  BY <1>1 DEF StartPair
<1>2. ASSUME NEW i \in Batch, SlotReady(i) PROVE PairsTyped'
  BY <1>2 DEF SlotReady
<1>3. ASSUME NEW i \in Batch, LoginFails(i) PROVE PairsTyped'
  BY <1>3 DEF LoginFails
<1>4. ASSUME NEW i \in Batch, Redeem(i) PROVE PairsTyped'
  <2>1. conn' = [conn EXCEPT ![i] = "off"] /\ (code' = code \/ code' = [code EXCEPT ![i] = "redeemed"])
    BY <1>4 DEF Redeem
  <2>2. pair' = [pair EXCEPT ![i] = "error"] \/ pair' = [pair EXCEPT ![i] = "success"]
    BY <1>4 DEF Redeem
  <2> QED BY <2>1, <2>2
<1>5. ASSUME NEW i \in Batch, LoggedOn(i) \/ WebSession(i) \/ ClientError(i) PROVE PairsTyped'
  BY <1>5 DEF LoggedOn, WebSession, ClientError
<1>6. CASE PushDone \/ UNCHANGED redeemVars
  BY <1>6 DEF PushDone, redeemVars
<1> QED BY <1>1, <1>2, <1>3, <1>4, <1>5, <1>6 DEF RedeemNext, PairSteps

\* "done" is pushed or not.
LEMMA DoneStep == allDone \in BOOLEAN /\ [RedeemNext]_redeemVars => allDone' \in BOOLEAN
<1> SUFFICES ASSUME allDone \in BOOLEAN, [RedeemNext]_redeemVars PROVE allDone' \in BOOLEAN
  OBVIOUS
<1>1. UNCHANGED allDone \/ allDone' = TRUE
  <2>1. ASSUME NEW w \in Workers, StartPair(w) PROVE UNCHANGED allDone
    BY <2>1, Zenon DEF StartPair
  <2>2. ASSUME NEW i \in Batch, PairSteps(i) PROVE UNCHANGED allDone
    BY <2>2, Zenon DEF PairSteps, SlotReady, LoginFails, Redeem
  <2>3. ASSUME NEW i \in Batch, LoggedOn(i) \/ WebSession(i) \/ ClientError(i) PROVE UNCHANGED allDone
    BY <2>3, Zenon DEF LoggedOn, WebSession, ClientError
  <2>4. CASE PushDone
    BY <2>4, Zenon DEF PushDone
  <2>5. CASE UNCHANGED redeemVars
    BY <2>5, Zenon DEF redeemVars
  <2> QED BY <2>1, <2>2, <2>3, <2>4, <2>5, Zenon DEF RedeemNext
<1> QED BY <1>1, Zenon

\* Each service keeps its own invariant while it is at work, and what is at rest
\* stays as it is; the pool is the purchases' or the redemptions'.
ServicesInv ==
  /\ Flags /\ Values /\ LimitInv /\ BuyInv /\ PoolInv
  /\ StoreInv /\ (atWork # "redeem" => Worked)
  /\ PairsTyped /\ allDone \in BOOLEAN

LEMMA ServicesStart == ServicesInit => ServicesInv
<1> SUFFICES ASSUME ServicesInit PROVE ServicesInv
  OBVIOUS
<1>1. Flags /\ Values
  BY PollStarts DEF ServicesInit
<1>2. LimitInv /\ BuyInv /\ StoreInv /\ PoolInv /\ Worked
  BY InitLimit, BuyStarts, StoreStarts DEF ServicesInit
<1>3. PairsTyped
  BY DEF ServicesInit, RedeemInit, PairsTyped
<1>4. allDone \in BOOLEAN
  BY Zenon DEF ServicesInit, RedeemInit
<1> QED BY <1>1, <1>2, <1>3, <1>4, Zenon DEF ServicesInv

\* What a service at rest keeps.
LEMMA PollRests == Flags /\ Values /\ UNCHANGED vars => Flags' /\ Values'
  BY FlagsStep, ValuesStep
LEMMA LimitRests == LimitInv /\ UNCHANGED limitVars => LimitInv'
  BY LimitStepKeeps
LEMMA BuyRests == BuyInv /\ UNCHANGED buyVars => BuyInv'
  BY BuyStep
LEMMA StoreRests == StoreInv /\ UNCHANGED <<dryRun, entry, polls, trans, counts, finished>> => StoreInv'
<1> SUFFICES ASSUME StoreInv, UNCHANGED <<dryRun, entry, polls, trans, counts, finished>> PROVE StoreInv'
  OBVIOUS
<1>1. UNCHANGED dryRun /\ UNCHANGED finished
  OBVIOUS
<1>2. StoreFlags'
  BY <1>1, Zenon DEF StoreInv, StoreFlags
<1>3. PaidInv' /\ PollsTyped' /\ Counted'
  BY DEF StoreInv, PaidInv, BoughtIsPaid, PollsTyped, Counted, CountsAgree, Count
<1> QED BY <1>2, <1>3 DEF StoreInv
LEMMA PairsRest == PairsTyped /\ UNCHANGED <<pair, conn, code>> => PairsTyped'
  BY DEF PairsTyped
LEMMA DoneRests == allDone \in BOOLEAN /\ UNCHANGED allDone => allDone' \in BOOLEAN
  OBVIOUS
LEMMA WorkRests == Worked /\ UNCHANGED <<cursor, at, entry>> => Worked'
  BY DEF Worked

\* Whichever is at work takes a step, the others none.
LEMMA ServicesStep == ServicesInv /\ [ServicesNext]_allVars => ServicesInv'
<1> SUFFICES ASSUME ServicesInv, [ServicesNext]_allVars PROVE ServicesInv'
  OBVIOUS
<1> DEFINE store == <<dryRun, entry, polls, trans, counts, finished>>
           pairs == <<pair, conn, code>>
<1>0. /\ Flags /\ Values /\ LimitInv /\ BuyInv /\ PoolInv /\ StoreInv /\ PairsTyped /\ allDone \in BOOLEAN
      /\ atWork # "redeem" => Worked
  BY Zenon DEF ServicesInv
<1>p. ASSUME UNCHANGED poolVars, UNCHANGED store, UNCHANGED atWork
      PROVE  PoolInv' /\ StoreInv' /\ (atWork' # "redeem" => Worked')
  BY <1>0, <1>p, PoolKept, StoreRests, WorkRests DEF PoolStep, poolVars
<1>1. ASSUME PollStep(Next) PROVE ServicesInv'
  <2>1. /\ [Next]_vars /\ UNCHANGED limitVars /\ UNCHANGED buyVars
        /\ UNCHANGED poolVars /\ UNCHANGED store /\ UNCHANGED pairs /\ UNCHANGED allDone /\ UNCHANGED atWork
    BY <1>1 DEF PollStep, AtWork, buyGameVars, redeemVars
  <2>2. Flags' /\ Values'
    BY <1>0, <2>1, FlagsStep, ValuesStep
  <2> QED BY <1>0, <1>p, <2>1, <2>2, LimitRests, BuyRests, PairsRest, DoneRests, Zenon DEF ServicesInv
<1>2. ASSUME LimitStep(LimitNext) PROVE ServicesInv'
  <2>1. /\ [LimitNext]_limitVars /\ UNCHANGED vars /\ UNCHANGED buyVars
        /\ UNCHANGED poolVars /\ UNCHANGED store /\ UNCHANGED pairs /\ UNCHANGED allDone /\ UNCHANGED atWork
    BY <1>2 DEF LimitStep, AtWork, buyGameVars, redeemVars
  <2>2. LimitInv'
    BY <1>0, <2>1, LimitStepKeeps
  <2> QED BY <1>0, <1>p, <2>1, <2>2, PollRests, BuyRests, PairsRest, DoneRests, Zenon DEF ServicesInv
<1>3. ASSUME PurchaseStep(PurchaseNext) PROVE ServicesInv'
  <2>1. /\ [PurchaseNext]_buyVars /\ UNCHANGED vars /\ UNCHANGED limitVars
        /\ UNCHANGED poolVars /\ UNCHANGED store /\ UNCHANGED pairs /\ UNCHANGED allDone /\ UNCHANGED atWork
    BY <1>3 DEF PurchaseStep, AtWork, buyGameVars, redeemVars
  <2>2. BuyInv'
    BY <1>0, <2>1, BuyStep
  <2> QED BY <1>0, <1>p, <2>1, <2>2, PollRests, LimitRests, PairsRest, DoneRests, Zenon DEF ServicesInv
<1>4. ASSUME BuyGameStep(BuyGameNext) PROVE ServicesInv'
  <2>1. /\ [BuyGameNext]_buyGameVars /\ UNCHANGED vars /\ UNCHANGED limitVars /\ UNCHANGED buyVars
        /\ UNCHANGED pairs /\ UNCHANGED allDone /\ atWork = "buygame"
    BY <1>4 DEF BuyGameStep, AtWork
  <2>2. StoreInv' /\ PoolInv' /\ Worked'
    BY <1>0, <2>1, StoreStep
  <2> QED BY <1>0, <2>1, <2>2, PollRests, LimitRests, BuyRests, PairsRest, DoneRests, Zenon DEF ServicesInv
<1>5. ASSUME RedeemStep(RedeemNext) PROVE ServicesInv'
  <2>1. /\ [RedeemNext]_redeemVars /\ UNCHANGED vars /\ UNCHANGED limitVars /\ UNCHANGED buyVars
        /\ UNCHANGED store /\ atWork' = "redeem"
    BY <1>5 DEF RedeemStep, AtWork
  <2>2. PoolInv' /\ PairsTyped' /\ allDone' \in BOOLEAN
    BY <1>0, <2>1, PoolKept, RedeemUsesPool, PairsStep, DoneStep
  <2> QED BY <1>0, <2>1, <2>2, PollRests, LimitRests, BuyRests, StoreRests, Zenon DEF ServicesInv
<1>6. ASSUME UNCHANGED allVars PROVE ServicesInv'
  <2>1. /\ UNCHANGED vars /\ UNCHANGED limitVars /\ UNCHANGED buyVars
        /\ UNCHANGED poolVars /\ UNCHANGED store /\ UNCHANGED pairs /\ UNCHANGED allDone /\ UNCHANGED atWork
    BY <1>6 DEF allVars, buyGameVars, redeemVars
  <2> QED BY <1>0, <1>p, <2>1, PollRests, LimitRests, BuyRests, PairsRest, DoneRests, Zenon DEF ServicesInv
<1> QED BY <1>1, <1>2, <1>3, <1>4, <1>5, <1>6 DEF ServicesNext

\* The invariants are those of the types the run checks.
LEMMA ServicesTypes == ServicesInv => ServicesTypeOK
<1> SUFFICES ASSUME ServicesInv PROVE ServicesTypeOK
  OBVIOUS
<1>1. PollTypeOK
  BY FlagsAndValues, Zenon DEF ServicesInv
<1>2. LimitTypeOK
  BY DEF ServicesInv, LimitInv
<1>3. BuyTypeOK
  BY BuyIsTyped DEF ServicesInv
<1>4. BuyGameTypeOK
  <2>1. dryRun \in BOOLEAN /\ finished \in BOOLEAN
    BY Zenon DEF ServicesInv, StoreInv, StoreFlags
  <2>2. /\ cursor \in 1..Entries + 1 /\ at \in [Workers -> Batch \cup {Idle}]
        /\ entry \in [Batch -> {"queued"} \cup Checkout \cup EntryEnds]
        /\ polls \in [Batch -> 0..StatusPolls]
        /\ trans \in [Batch -> {"none", "open", "charging", "paid", "refused"}]
        /\ counts \in [processed : Nat, success : Nat, fail : Nat] /\ CountsAgree
    BY DEF ServicesInv, PoolInv, StoreInv, PaidInv, PollsTyped, Counted, Statuses, Transactions
  <2> QED BY <2>1, <2>2, Zenon DEF BuyGameTypeOK
<1>5. RedeemTypeOK
  <2>1. /\ cursor \in 1..Entries + 1 /\ at \in [Workers -> Batch \cup {Idle}] /\ PairsTyped
    BY DEF ServicesInv, PoolInv
  <2>2. allDone \in BOOLEAN
    BY Zenon DEF ServicesInv
  <2> QED BY <2>1, <2>2, Zenon DEF RedeemTypeOK, PairsTyped
<1> QED BY <1>1, <1>2, <1>3, <1>4, <1>5, Zenon DEF ServicesTypeOK

\* Counters, cursors, queues and amounts stay within the bounds the code gives
\* them, and the counts of a page are right, for any number of tasks, entries,
\* workers and logons, whichever of the services is at work.
THEOREM ServicesAreTyped == ServicesFairSpec => []ServicesTypeOK
  BY ServicesStart, ServicesStep, ServicesTypes, PTL DEF ServicesFairSpec
=============================================================================
