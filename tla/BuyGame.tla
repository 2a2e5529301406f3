-------------------------------- MODULE BuyGame --------------------------------
(***************************************************************************)
(* Buying games in the Steam store: the tasks of src/buygame/index.ts and  *)
(* the checkout of src/buygame/checkout.ts that each of their entries (an  *)
(* account and its packages) goes through.  Requests that change nothing   *)
(* at Steam and are followed by the same failure are one step.             *)
(*                                                                         *)
(* A request is processed by Steam or not, and its answer comes or does    *)
(* not, in one step: nothing else looks at the transaction in between.     *)
(***************************************************************************)
EXTENDS WorkerPool, FiniteSets

CONSTANT StatusPolls   \* STATUS_POLLS

ASSUME BuyGameConstants == StatusPolls \in Nat \ {0}

VARIABLES
  dryRun,    \* the task only verifies
  entry,     \* what each entry is waiting for, or its status
  polls,     \* how often its status has been asked for
  trans,     \* Steam: its transaction
  counts,    \* processedAccounts, successCount, failCount
  finished   \* the task is completed

buyGameVars == <<poolVars, dryRun, entry, polls, trans, counts, finished>>

Checkout == {"cart", "init", "price", "finalize", "status"}
EntryEnds == {"verified", "success", "failed"}
Count(status) == Cardinality({i \in Batch : entry[i] = status})

BuyGameInit ==
  /\ PoolInit
  /\ dryRun \in BOOLEAN
  /\ entry = [i \in Batch |-> "queued"] /\ polls = [i \in Batch |-> 0]
  /\ trans = [i \in Batch |-> "none"]
  /\ counts = [processed |-> 0, success |-> 0, fail |-> 0]
  /\ finished = FALSE

-----------------------------------------------------------------------------
GoesOn(i, step) ==
  /\ entry' = [entry EXCEPT ![i] = step]
  /\ UNCHANGED <<poolVars, counts>>

\* Mutant: an error is not caught, and its worker is gone.
EndsUncaught(i, status) ==
  /\ entry' = [entry EXCEPT ![i] = status]
  /\ counts' = [counts EXCEPT !.processed = @ + 1, ![IF status = "success" THEN "success" ELSE "fail"] = @ + 1]
  /\ IF status = "failed" THEN UNCHANGED poolVars ELSE Leave(i)

\* The end of processAccount.
EndsAs(i, status) ==
  /\ entry' = [entry EXCEPT ![i] = status]
  /\ counts' = [processed |-> counts.processed + 1,
                success |-> counts.success + (IF status = "success" THEN 1 ELSE 0),
                fail |-> counts.fail + (IF status = "failed" THEN 1 ELSE 0)]
  /\ Leave(i)

\* The session has no cookies, or any request fails.
Fails(i) == entry[i] \in Checkout /\ EndsAs(i, "failed")

StartEntry(w) ==
  /\ Take(w)
  /\ entry' = [entry EXCEPT ![cursor] = "cart"]
  /\ UNCHANGED <<dryRun, polls, trans, counts, finished>>

\* Token, prices, a new cart, the packages put into it, the balance looked at.
CartFilled(i) ==
  /\ entry[i] = "cart"
  /\ GoesOn(i, "init") \/ Fails(i)
  /\ UNCHANGED <<dryRun, polls, trans, finished>>

\* inittransaction: it may be opened and the answer be lost.
InitTransaction(i) ==
  /\ entry[i] = "init"
  /\ \/ trans' = [trans EXCEPT ![i] = "open"] /\ (GoesOn(i, "price") \/ Fails(i))
     \/ Fails(i) /\ UNCHANGED trans
  /\ UNCHANGED <<dryRun, polls, finished>>

\* Mutant: a dry run goes on as well.
AfterPriceAlways(i) == GoesOn(i, "finalize")

\* getfinalprice is where a dry run stops.
AfterPrice(i) == IF dryRun THEN EndsAs(i, "verified") ELSE GoesOn(i, "finalize")

FinalPrice(i) ==
  /\ entry[i] = "price"
  /\ AfterPrice(i) \/ Fails(i)
  /\ UNCHANGED <<dryRun, polls, trans, finished>>

\* finalizetransaction: its answer is only noted.
FinalizeTransaction(i) ==
  /\ entry[i] = "finalize"
  /\ \/ trans' = [trans EXCEPT ![i] = "charging"] /\ (GoesOn(i, "status") \/ Fails(i))
     \/ UNCHANGED trans /\ (GoesOn(i, "status") \/ Fails(i))
  /\ UNCHANGED <<dryRun, polls, finished>>

\* Mutant: any answer without a reason for failure is taken as success.
StatusSaysDone(t) == t # "refused"

\* transactionstatus: success with detail 0.
StatusSays(t) == t = "paid"

\* Whether a status that is not final yet is asked for once more.
PollAgain(asked) == asked < StatusPolls

TransactionStatus(i) ==
  /\ entry[i] = "status"
  /\ polls' = [polls EXCEPT ![i] = @ + 1]
  /\ \/ StatusSays(trans[i]) /\ EndsAs(i, "success")
     \/ trans[i] = "refused" /\ Fails(i)
     \/ /\ ~StatusSays(trans[i]) /\ trans[i] # "refused"
        /\ IF PollAgain(polls[i] + 1) THEN GoesOn(i, "status") ELSE Fails(i)
     \/ Fails(i)
  /\ UNCHANGED <<dryRun, trans, finished>>

\* Steam charges the wallet, or refuses to.
SteamCharges(i) ==
  /\ trans[i] = "charging"
  /\ \E outcome \in {"paid", "refused"} : trans' = [trans EXCEPT ![i] = outcome]
  /\ UNCHANGED <<poolVars, dryRun, entry, polls, counts, finished>>

FinishTask ==
  /\ PoolDone /\ ~finished
  /\ finished' = TRUE
  /\ UNCHANGED <<poolVars, dryRun, entry, polls, trans, counts>>

EntrySteps(i) ==
  \/ CartFilled(i) \/ InitTransaction(i) \/ FinalPrice(i)
  \/ FinalizeTransaction(i) \/ TransactionStatus(i)

BuyGameNext ==
  \/ \E w \in Workers : StartEntry(w)
  \/ \E i \in Batch : EntrySteps(i) \/ SteamCharges(i)
  \/ FinishTask

BuyGameSpec == BuyGameInit /\ [][BuyGameNext]_buyGameVars

-----------------------------------------------------------------------------
\* The page's numbers are right at any moment, though several workers count at
\* the same time, and a completed task has no entry left out.
CountsAgree ==
  /\ counts.success = Count("success") /\ counts.fail = Count("failed")
  /\ counts.processed = Count("success") + Count("failed") + Count("verified")
  /\ finished => counts.processed = Entries

BuyGameTypeOK ==
  /\ cursor \in 1..Entries + 1 /\ at \in [Workers -> Batch \cup {Idle}]
  /\ dryRun \in BOOLEAN /\ finished \in BOOLEAN
  /\ entry \in [Batch -> {"queued"} \cup Checkout \cup EntryEnds]
  /\ polls \in [Batch -> 0..StatusPolls]
  /\ trans \in [Batch -> {"none", "open", "charging", "paid", "refused"}]
  /\ counts \in [processed : Nat, success : Nat, fail : Nat] /\ CountsAgree

\* An entry reported as bought was paid, whatever answers were lost.
BoughtIsPaid == \A i \in Batch : entry[i] = "success" => trans[i] = "paid"

\* A dry run costs nothing, however its requests fail and whatever comes after.
DryRunIsFree == dryRun => \A i \in Batch : trans[i] \in {"none", "open"}

\* The batch of src/buygame: each account buys once, what is reported was paid,
\* and a dry run charges nothing.
BuyGameHonest == EachByOne /\ BoughtIsPaid /\ DryRunIsFree

-----------------------------------------------------------------------------
\* Requests end, with an answer or with an error, and the worker goes on.  Each
\* entry takes finitely many steps, so none keeps another from its own.
BuyGameDue ==
  (\E w \in Workers : StartEntry(w)) \/ (\E i \in Batch : EntrySteps(i)) \/ FinishTask
BuyGameFairSpec == BuyGameSpec /\ WF_buyGameVars(BuyGameDue)

\* A task that has begun is completed in the end, though Steam may never charge
\* nor refuse.
TaskCompletes == (\E i \in Batch : entry[i] # "queued") ~> finished
=============================================================================
