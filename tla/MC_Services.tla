----------------------------- MODULE MC_Services -----------------------------
(***************************************************************************)
(* The services with a small state of their own, for TLC: the polling of   *)
(* the C5 sweeper, the rate limit of logons, the purchases in games and in *)
(* the store, and the redemption of codes.  They share nothing here, so a  *)
(* behaviour has one of them at work and the others at rest.               *)
(***************************************************************************)
EXTENDS C5Poll, LoginLimit, GcPurchase, BuyGame, WalletRedeem, TLC

CONSTANTS t1, t2

VARIABLE atWork

allVars == <<vars, limitVars, buyVars, poolVars, buyGameVars, redeemVars, atWork>>

-----------------------------------------------------------------------------
(* Two purchases of one account, in one game or in two. *)
MCTasks == {t1, t2}
MCPlans == {(t1 :> "cs2") @@ (t2 :> "cs2"), (t1 :> "cs2") @@ (t2 :> "tf2")}

\* The wallet covers the first cart, or a part of each.
MCCart == [t \in MCTasks |-> <<[price |-> 2, quantity |-> 1], [price |-> 1, quantity |-> 2]>>]

\* clampItemsToBalance keeps as much as possible of the first item, then of the
\* second, and so on: of all that the money covers the greatest in that order.
SmallItems == {[price |-> p, quantity |-> q] : p \in 0..2, q \in 0..2}
Worth(items, kept) == items[1].price * kept[1] + items[2].price * kept[2]
ASSUME ClampIsGreedy ==
  \A items \in [1..2 -> SmallItems], money \in 0..5 :
    LET clamped == Clamped(items, money)
        kept    == <<clamped[1].quantity, clamped[2].quantity>>
        covered == {q \in (0..2) \X (0..2) :
                      /\ q[1] <= items[1].quantity /\ q[2] <= items[2].quantity
                      /\ Worth(items, q) <= money}
    IN  /\ kept \in covered /\ Worth(items, kept) = Total(items, money)
        /\ \A q \in covered : q[1] < kept[1] \/ (q[1] = kept[1] /\ q[2] <= kept[2])

-----------------------------------------------------------------------------
\* What is not at work starts in one of its initial states only.
Resting(part, state) == atWork # part => state
ServicesInit ==
  /\ atWork \in {"poll", "limit", "purchase", "buygame", "redeem"}
  /\ Init /\ LimitInit /\ PurchaseInit /\ BuyGameInit /\ RedeemInit
  /\ Resting("poll", key /\ blocked)
  /\ Resting("limit", limit = 0)
  /\ Resting("purchase", gameOf[t1] = gameOf[t2] /\ active = "cs2")
  /\ Resting("buygame", dryRun)
  /\ Resting("redeem", \A i \in Batch : code[i] = "unused")

AtWork(part, step) == atWork = part /\ step /\ UNCHANGED atWork

PollStep(step) ==
  AtWork("poll", step) /\ UNCHANGED <<limitVars, buyVars, buyGameVars, redeemVars>>
LimitStep(step) ==
  AtWork("limit", step) /\ UNCHANGED <<vars, buyVars, buyGameVars, redeemVars>>
PurchaseStep(step) ==
  AtWork("purchase", step) /\ UNCHANGED <<vars, limitVars, buyGameVars, redeemVars>>
BuyGameStep(step) ==
  /\ AtWork("buygame", step)
  /\ UNCHANGED <<vars, limitVars, buyVars, pair, conn, code, allDone>>
RedeemStep(step) ==
  /\ AtWork("redeem", step)
  /\ UNCHANGED <<vars, limitVars, buyVars, dryRun, entry, polls, trans, counts, finished>>

ServicesNext ==
  \/ PollStep(Next) \/ LimitStep(LimitNext) \/ PurchaseStep(PurchaseNext)
  \/ BuyGameStep(BuyGameNext) \/ RedeemStep(RedeemNext)

\* The fairness of each module's own specification; with one part at work, a
\* step of one part and a step of another are never due together.
ServicesFairSpec ==
  /\ ServicesInit /\ [][ServicesNext]_allVars
  /\ WF_allVars(\/ PollStep(Tick) \/ LimitStep(TimePasses)
                \/ BuyGameStep(BuyGameDue) \/ RedeemStep(RedeemDue))
  /\ WF_allVars(PollStep(JobEnds) \/ LimitStep(TimerFires))

-----------------------------------------------------------------------------
\* The type invariants of the five modules: their counters, cursors and queues
\* stay within the bounds the code gives them.
ServicesTypeOK == PollTypeOK /\ LimitTypeOK /\ BuyTypeOK /\ BuyGameTypeOK /\ RedeemTypeOK

\* What was begun goes on and ends: the polling, the wait for a logon, and the
\* batches in the store and for wallet codes, whatever fails, is lost or is late.
NothingHangs == KeepsPolling /\ EveryoneLeaves /\ TaskCompletes /\ RedeemJobEnds
=============================================================================
