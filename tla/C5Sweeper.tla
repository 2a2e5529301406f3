------------------------------ MODULE C5Sweeper ------------------------------
(***************************************************************************)
(* The C5 sweeper: createSweeper of src/c5/sweeper.ts, the operations of   *)
(* src/c5/index.ts that act on it, the rows of src/store/c5.ts, and the    *)
(* trading platform on the other side of the network.                      *)
(*                                                                         *)
(* Every cycle, every manual reconciliation and every manual mark goes     *)
(* through one serial queue (src/c5/index.ts:250), so at most one of them  *)
(* runs: "pc" is where it waits and "cyc" holds its local variables.  One  *)
(* action is the code between two awaits.  Settings, watch list, run state *)
(* and app-key are changed by HTTP handlers outside the queue, so they may *)
(* change at every await.  The queue and the timer are in C5Poll.          *)
(*                                                                         *)
(* The platform is modelled from how src/c5/client.ts talks to it: a       *)
(* request that timed out may still be executed later, an explicit refusal *)
(* was certainly not executed.                                             *)
(***************************************************************************)
EXTENDS Integers, Sequences, FiniteSets, FiniteSetsExt, Functions

CONSTANTS
  Orders,           \* merchant order numbers, each used once; bounds the run
  Listings,         \* sell listings of the platform: [id, name, price, amount]; prices are
                    \* integers (the code compares decimals with a tolerance of 1e-6)
  Watchlists,       \* watch lists the user may save, sequences of items
  SettingsChoices,  \* settings the user may save, records (see Settings)
  Keys,             \* app-keys, each one the account of a C5 user
  NoKey,            \* no app-key configured
  KeyChoices,       \* what the user may save as app-key (NoKey: delete it)
  RefreshPerCycle,  \* REFRESH_PER_CYCLE
  SlowPolling,      \* the poll interval exceeds ORDER_RECHECK_MS: every open
                    \* order is due again in every cycle
  Money,            \* what the C5 account holds at the start
  NoLimit           \* stands for Infinity: more than anything can cost

Strategies == {"listing", "quick"}
Settings == [strategy : Strategies, tradeUrl : BOOLEAN, maxTotalSpend : Nat,
             maxBuyPerCycle : Nat, minBalanceReserve : Nat]

\* What parseListing lets through; 0 is no product (NoProduct).
SellListings == [id : Nat \ {0}, name : STRING, price : Nat, amount : Nat]
\* makeItem and buildItems: a target price, a quantity, perhaps a cap on the
\* money (0: none), and no name twice.
WatchItems == [name : STRING, maxPrice : Nat \ {0}, maxQty : Nat \ {0}, maxSpend : Nat]

ASSUME ConstantsOK ==
  /\ IsFiniteSet(Orders)
  /\ IsFiniteSet(Listings) /\ Listings \subseteq SellListings
  /\ Watchlists \subseteq Seq(WatchItems)
  /\ \A w \in Watchlists : \A i, j \in DOMAIN w : w[i].name = w[j].name => i = j
  /\ Money \in Nat /\ NoLimit \in Nat
  /\ SettingsChoices \subseteq Settings
  /\ NoKey \notin Keys
  /\ KeyChoices \subseteq Keys \cup {NoKey}
  /\ RefreshPerCycle \in Nat \ {0} /\ SlowPolling \in BOOLEAN

VARIABLES
  run,       \* "stopped" or "sweeping", saved in the settings table
  key,       \* the app-key in use
  settings,  \* the settings in use
  items,     \* the watch list
  rows,      \* c5_purchases, by merchant order number
  lru,       \* checkedAt: the orders queried in one round form one class
  fresh,     \* orders queried so recently that they are not due again
  old,       \* orders sent longer ago than UNKNOWN_GIVEUP_MS
  pc,        \* where the running job waits
  cyc,       \* the local variables of the running job
  paused,    \* pauseUntil: item names in their error cooldown
  skip,      \* skipUntil: listings that just could not be bought
  plat,      \* what the platform did with an order
  wallet     \* money in the C5 account

-----------------------------------------------------------------------------
(* pickListings: which of the sell listings a search returned the sweeper  *)
(* buys.  A pure function; MC_C5Sweeper compares it with the loop.         *)

\* What the function w gives the members of S, together.
Sum(w, S) == SumFunctionOnSet(w, S)

\* What a set of listings costs together.
PriceOf(ls) == Sum([l \in ls |-> l.price], ls)

\* The listings the loop considers at all: priced within the target, not a
\* stack of several items, and not among the ids to skip.
Eligible(listings, maxPrice, skipIds) ==
  {l \in listings : /\ l.price > 0
                    /\ l.price <= maxPrice
                    /\ l.amount = 1
                    /\ l.id \notin skipIds}

\* l and what the loop reaches before it: cheapest first, ties by id (the
\* code keeps the order of the search result, which is any order).
UpTo(l, ls) == {m \in ls : \/ m.price < l.price
                           \/ m.price = l.price /\ m.id <= l.id}

\* The loop breaks at the first eligible listing that the quantity or the
\* rest of the budget does not cover, so it picks a prefix.
PickListings(listings, maxPrice, qtyLeft, budgetLeft, skipIds) ==
  LET ls == Eligible(listings, maxPrice, skipIds)
  IN  {l \in ls : /\ Cardinality(UpTo(l, ls)) <= qtyLeft
                  /\ PriceOf(UpTo(l, ls)) <= budgetLeft}

\* The loop itself, listing after listing, over a search result sorted by
\* price: it breaks at the first listing that is too dear, and skips stacks,
\* gifts and the ids to skip.
PickLoop(sorted, maxPrice, qtyLeft, budgetLeft, skipIds) ==
  LET Start == [picks |-> {}, budget |-> budgetLeft, over |-> FALSE]
      Look(at, l) ==
        LET enough    == Cardinality(at.picks) >= qtyLeft \/ l.price > maxPrice
            untouched == l.price <= 0 \/ l.amount # 1 \/ l.id \in skipIds
        IN  IF at.over \/ enough \/ (~untouched /\ l.price > at.budget)
            THEN [at EXCEPT !.over = TRUE]
            ELSE IF untouched THEN at
            ELSE [at EXCEPT !.picks = @ \cup {l}, !.budget = @ - l.price]
      after[i \in 0 .. Len(sorted)] ==
        IF i = 0 THEN Start ELSE Look(after[i - 1], sorted[i])
  IN  after[Len(sorted)].picks

-----------------------------------------------------------------------------
config == <<run, key, settings, items>>
table  == <<rows, lru, fresh, old>>
memory == <<paused, skip>>
world  == <<plat, wallet>>
vars   == <<config, table, pc, cyc, memory, world>>

-----------------------------------------------------------------------------
(***************************************************************************)
(* Purchases and what they hold.                                           *)
(***************************************************************************)
NoProduct == 0
Statuses == {"none", "unknown", "ok", "failed", "cancelled"}
NoRow == [status |-> "none", name |-> "", product |-> NoProduct, price |-> 0,
          pay |-> 0, orderId |-> FALSE, final |-> FALSE]

\* Mutant: an unknown outcome counts as nothing bought.
CountedIfBought == {"ok"}

\* C5_COUNTED: a purchase whose outcome is unknown counts as spent.
CountedStatus == {"ok", "unknown"}
Counted(o) == rows[o].status \in CountedStatus
CountedOrders == {o \in Orders : Counted(o)}
Unused == {o \in Orders : rows[o].status = "none"}

\* purchaseCost: the price paid, and the price offered until it is known.
Cost(row) == IF row.pay > 0 THEN row.pay ELSE row.price
SpentOn(os) == Sum([o \in Orders |-> Cost(rows[o])], os)
OrdersFor(name) == {o \in CountedOrders : rows[o].name = name}

\* store.totals: quantity and money an item holds.
Total(name) == [qty |-> Cardinality(OrdersFor(name)),
                spent |-> SpentOn(OrdersFor(name))]
Left(cap, used) == IF cap > 0 THEN cap - used ELSE NoLimit

\* Mutant: what was ordered before is not looked up.
NoProductIds == {}
ProductIds == {rows[o].product : o \in CountedOrders} \ {NoProduct}

\* sweepBlocker: sweeping needs a trade link and a total budget.
Blocked(s) == ~s.tradeUrl \/ s.maxTotalSpend <= 0

-----------------------------------------------------------------------------
(***************************************************************************)
(* The job that is running: nothing, a cycle, or a manual reconciliation.  *)
(***************************************************************************)
NoBalance == -NoLimit
Idle == [kind |-> "none", set |-> CHOOSE s \in SettingsChoices : TRUE,
         due |-> {}, list |-> <<>>, hit |-> {}, todo |-> <<>>, budget |-> 0,
         left |-> 0, balance |-> NoBalance, qty |-> 0, money |-> 0,
         bought |-> 0, cost |-> 0, sent |-> {}, calm |-> FALSE]

Finish == pc' = "idle" /\ cyc' = Idle
Current == Head(cyc.todo)
CanBuy == run = "sweeping"

Init ==
  /\ run = "stopped"
  /\ key \in KeyChoices
  /\ settings \in SettingsChoices
  /\ items \in Watchlists
  /\ rows = [o \in Orders |-> NoRow]
  /\ lru = <<>> /\ fresh = {} /\ old = {}
  /\ pc = "idle" /\ cyc = Idle
  /\ paused = {} /\ skip = {}
  /\ plat = [o \in Orders |-> [state |-> "none", key |-> NoKey,
                               product |-> NoProduct, pay |-> 0]]
  /\ wallet = Money

-----------------------------------------------------------------------------
(***************************************************************************)
(* refreshOrders and refreshOne: reconciliation.                           *)
(***************************************************************************)

\* How recently an order was queried: 0 never, then by round.
Class(o) == IF \E i \in DOMAIN lru : o \in lru[i]
            THEN CHOOSE i \in DOMAIN lru : o \in lru[i] ELSE 0

\* A new round gets a class of its own at the end.
NewRound(D) == IF D = {} THEN lru
               ELSE Append(SelectSeq(lru, LAMBDA class : class # {}), {})
\* checkedAt moves to this round.  Closed orders are not queried any more and
\* leave the classes; one the user reopens counts as never queried.
Open(row) == row.status \in CountedStatus /\ ~row.final
Queried(o, row) ==
  /\ lru' = [i \in DOMAIN lru |-> IF i = Len(lru) /\ Open(row)
                                  THEN lru[i] \cup {o} ELSE lru[i] \ {o}]
  /\ fresh' = IF Open(row) /\ ~SlowPolling THEN fresh \cup {o} ELSE fresh

\* Mutant: any of the due orders, not the ones waiting longest.
DueSetsAnyOrder(force, limit) ==
  LET due == {o \in Orders : Open(rows[o]) /\ (force \/ o \notin fresh)}
      n   == IF force \/ Cardinality(due) < limit THEN Cardinality(due) ELSE limit
  IN  {D \in SUBSET due : Cardinality(D) = n}

\* What is due: counted, not final, not queried a moment ago; the ones
\* queried longest ago first, at most "limit" of them.
DueSets(force, limit) ==
  LET due == {o \in Orders : Open(rows[o]) /\ (force \/ o \notin fresh)}
      n   == IF force \/ Cardinality(due) < limit THEN Cardinality(due) ELSE limit
  IN  {D \in SUBSET due : /\ Cardinality(D) = n
                          /\ \A o \in D, q \in due \ D : Class(o) <= Class(q)}

\* Where a job goes when nothing is left to query: the cycle takes its
\* snapshot of the watch list and asks for the market, a manual
\* reconciliation is over.
Continue(c) ==
  IF c.due # {} THEN pc' = "refresh" /\ cyc' = c
  ELSE IF c.kind = "manual" THEN Finish
  ELSE pc' = "stats" /\ cyc' = [c EXCEPT !.list = items]

StartCycle ==
  /\ pc = "idle" /\ CanBuy /\ key # NoKey
  /\ \E D \in DueSets(FALSE, RefreshPerCycle) :
       /\ lru' = NewRound(D)
       /\ Continue([Idle EXCEPT !.kind = "cycle", !.set = settings, !.due = D])
  /\ UNCHANGED <<config, rows, fresh, old, memory, world>>

\* "Reconcile now" on the page: every open order, however recently queried.
RefreshOrders ==
  /\ pc = "idle" /\ key # NoKey
  /\ \E D \in DueSets(TRUE, RefreshPerCycle) :
       /\ lru' = NewRound(D)
       /\ Continue([Idle EXCEPT !.kind = "manual", !.due = D])
  /\ UNCHANGED <<config, rows, fresh, old, memory, world>>

RefreshOne(o, row) ==
  /\ pc = "refresh" /\ o \in cyc.due
  /\ \A q \in cyc.due : Class(o) <= Class(q)
  /\ rows' = [rows EXCEPT ![o] = row]
  /\ Queried(o, row)
  /\ Continue([cyc EXCEPT !.due = @ \ {o}])
  /\ UNCHANGED <<config, old, memory, world>>

\* Mutant: given up as soon as the platform does not know it.
GivenUpAtOnce(o) ==
  IF rows[o].status = "unknown" /\ ~rows[o].orderId
  THEN [rows[o] EXCEPT !.status = "failed"] ELSE rows[o]

\* The platform has no such order.  That releases an unknown one after
\* UNKNOWN_GIVEUP_MS, unless the platform once gave it an order number.
GivenUp(o) ==
  IF rows[o].status = "unknown" /\ ~rows[o].orderId /\ o \in old
  THEN [rows[o] EXCEPT !.status = "failed"] ELSE rows[o]

\* The platform has the order.  Cancelled ones are released, unknown ones
\* are bought after all.
Found(o) ==
  [rows[o] EXCEPT !.status = IF plat[o].state = "cancelled" THEN "cancelled"
                             ELSE IF @ = "unknown" THEN "ok" ELSE @,
                  !.product = IF plat[o].product # NoProduct THEN plat[o].product ELSE @,
                  !.orderId = TRUE,
                  !.final = plat[o].state = "settled"]

RefreshFails(o)   == RefreshOne(o, rows[o])
RefreshMissing(o) == /\ key # NoKey
                     /\ \/ plat[o].state \in {"sent", "refused", "paying"}
                        \/ plat[o].key # key
                     /\ RefreshOne(o, GivenUp(o))
RefreshFound(o)   == /\ plat[o].key = key
                     /\ plat[o].state \in {"paying", "placed", "settled", "cancelled"}
                     /\ RefreshOne(o, Found(o))

\* resolvePurchase: the user looked the order up and marks it by hand.
ResolvePurchase(o) ==
  /\ pc = "idle" /\ rows[o].status # "none"
  /\ \/ /\ plat[o].state \in {"placed", "settled"}
        /\ rows' = [rows EXCEPT ![o].status = "ok"]
     \/ /\ plat[o].state \in {"refused", "cancelled"}
        /\ rows' = [rows EXCEPT ![o].status = "failed"]
  /\ UNCHANGED <<config, lru, fresh, old, pc, cyc, memory, world>>

-----------------------------------------------------------------------------
(***************************************************************************)
(* runCycle: the market, then the items that are at their price.           *)
(***************************************************************************)

\* Mutant: the caps of the item are those of each cycle anew.
EntryAnew(item) == [item |-> item, qty |-> item.maxQty, spend |-> Left(item.maxSpend, 0)]

\* The totals are read here, once for the whole cycle.
Entry(item) == [item |-> item, qty |-> item.maxQty - Total(item.name).qty,
                spend |-> Left(item.maxSpend, Total(item.name).spent)]
Todo(list) == [i \in DOMAIN list |-> Entry(list[i])]
\* What todo.filter keeps.  Here the others stay, and are passed over.
Wanted(e) == e.qty > 0 /\ e.spend > 0

StatsReply(hit) ==
  /\ pc = "stats" /\ key # NoKey
  /\ hit \subseteq {cyc.list[i].name : i \in DOMAIN cyc.list}
  /\ LET todo   == Todo(cyc.list)
         budget == Left(cyc.set.maxTotalSpend, SpentOn(CountedOrders))
     IN IF (\A i \in DOMAIN todo : ~Wanted(todo[i])) \/ budget <= 0
        THEN Finish
        ELSE /\ pc' = "items"
             /\ cyc' = [cyc EXCEPT !.hit = hit, !.todo = todo, !.budget = budget,
                                   !.left = cyc.set.maxBuyPerCycle]
  /\ UNCHANGED <<config, table, memory, world>>

\* itemStats or balance throws: the cycle is over, cycleOnce counts an error.
CycleFails ==
  /\ pc \in {"stats", "balance"}
  /\ Finish
  /\ UNCHANGED <<config, table, memory, world>>

\* Start on the item in hand: caps of this cycle, then the strategy.
BeginSweep(c) ==
  LET e == Head(c.todo)
  IN  /\ pc' = IF c.set.strategy = "quick" THEN "loop" ELSE "search"
      /\ cyc' = [c EXCEPT !.money = Min({c.budget, e.spend, c.balance}),
                          !.qty = Min({e.qty, c.left}),
                          !.bought = 0, !.cost = 0]

Takeable(e) == Wanted(e) /\ e.item.name \in cyc.hit /\ CanBuy /\ cyc.left > 0
               /\ e.item.name \notin paused

\* The for loop over the items, up to the first that is acted on.
PickItem ==
  /\ pc = "items"
  /\ LET ready == {i \in DOMAIN cyc.todo : Takeable(cyc.todo[i])}
         c     == [cyc EXCEPT !.todo = SubSeq(@, Min(ready), Len(@))]
     IN IF ready = {} THEN Finish
        ELSE IF cyc.balance = NoBalance THEN pc' = "balance" /\ cyc' = c
        ELSE BeginSweep(c)
  /\ UNCHANGED <<config, table, memory, world>>

\* The platform may still charge the account for this order.
UnderWay(o) == plat[o].state \in {"sent", "paying"}
\* Nothing was under way when the balance was read.  The code does not ask:
\* ReserveHeld does.
Calm == \A o \in Orders : ~UnderWay(o)

\* Mutant: all of the balance may be spent.
BalanceWithoutReserve ==
  /\ pc = "balance" /\ key # NoKey
  /\ BeginSweep([cyc EXCEPT !.balance = wallet, !.calm = Calm])
  /\ UNCHANGED <<config, table, memory, world>>

BalanceReply ==
  /\ pc = "balance" /\ key # NoKey
  /\ BeginSweep([cyc EXCEPT !.balance = wallet - cyc.set.minBalanceReserve, !.calm = Calm])
  /\ UNCHANGED <<config, table, memory, world>>

\* The item is done; what it took counts against the rest of the cycle.
ItemDone(bought, cost) ==
  /\ pc' = "items"
  /\ cyc' = [cyc EXCEPT !.todo = Tail(@), !.left = @ - bought, !.budget = @ - cost,
                        !.balance = @ - cost, !.qty = 0, !.money = 0,
                        !.bought = 0, !.cost = 0, !.sent = {}]
Pause == paused' = paused \cup {Current.item.name}

\* addPurchase, then the request: the row is on disk before anything is sent.
SendOrder(o, product, price) ==
  [name |-> Current.item.name, product |-> product, price |-> price,
   status |-> "unknown", pay |-> 0, orderId |-> FALSE, final |-> FALSE]
Sent == [state |-> "sent", key |-> key, product |-> NoProduct, pay |-> 0]

\* The price the platform reports, and the price offered if it reports none.
Paid(o) == IF plat[o].pay > 0 THEN plat[o].pay ELSE rows[o].price

-----------------------------------------------------------------------------
(***************************************************************************)
(* Strategy "listing": search, pick, buy in one batch.                     *)
(***************************************************************************)

\* The search answers, and in the same step the batch goes out.  "no" gives
\* each pick its order number; the pool of numbers bounds what is found.
SearchReply(found) ==
  /\ pc = "search" /\ key # NoKey
  /\ found \subseteq {l \in Listings : l.name = Current.item.name}
  /\ LET picks == PickListings(found, Current.item.maxPrice, cyc.qty, cyc.money,
                               ProductIds \cup skip)
     IN /\ Cardinality(picks) <= Cardinality(Unused)
        /\ IF picks = {} \/ ~CanBuy
           THEN ItemDone(0, 0) /\ UNCHANGED <<rows, plat>>
           ELSE \E no \in [picks -> Unused] :
                  /\ \A l, m \in picks : no[l] = no[m] => l = m
                  /\ rows' = [o \in Orders |->
                       IF \E l \in picks : no[l] = o
                       THEN LET l == CHOOSE l \in picks : no[l] = o
                            IN  SendOrder(o, l.id, l.price)
                       ELSE rows[o]]
                  /\ plat' = [o \in Orders |-> IF \E l \in picks : no[l] = o
                                               THEN Sent ELSE plat[o]]
                  /\ pc' = "batch"
                  /\ cyc' = [cyc EXCEPT !.sent = {no[l] : l \in picks}]
  /\ UNCHANGED <<config, lru, fresh, old, memory, wallet>>

\* The search fails: nothing was ordered, only this item is paused.
SearchFails ==
  /\ pc = "search"
  /\ Pause /\ ItemDone(0, 0)
  /\ UNCHANGED <<config, table, skip, world>>

\* The outcome of the whole batch is unknown: it all counts as spent.
BatchTimeout ==
  /\ pc = "batch"
  /\ ItemDone(Cardinality(cyc.sent), SpentOn(cyc.sent))
  /\ UNCHANGED <<config, table, memory, world>>

\* The platform refuses the whole batch: nothing was executed.
BatchRefused ==
  /\ pc = "batch"
  /\ \A o \in cyc.sent : plat[o].state = "sent"
  /\ rows' = [o \in Orders |-> IF o \in cyc.sent THEN [rows[o] EXCEPT !.status = "failed"]
                                                 ELSE rows[o]]
  /\ plat' = [o \in Orders |-> IF o \in cyc.sent THEN [plat[o] EXCEPT !.state = "refused"]
                                                 ELSE plat[o]]
  /\ Pause /\ ItemDone(0, 0)
  /\ UNCHANGED <<config, lru, fresh, old, skip, wallet>>

\* The platform answers with a success list and a failure list; an order in
\* neither keeps its unknown outcome and counts as spent.
BatchReply(ok, bad) ==
  /\ pc = "batch"
  /\ ok \subseteq {o \in cyc.sent : plat[o].state = "placed"}
  /\ bad \subseteq {o \in cyc.sent : plat[o].state = "refused"}
  /\ rows' = [o \in Orders |->
       CASE o \in ok  -> [rows[o] EXCEPT !.status = "ok", !.pay = Paid(o), !.orderId = TRUE]
         [] o \in bad -> [rows[o] EXCEPT !.status = "failed"]
         [] OTHER     -> rows[o]]
  /\ skip' = skip \cup {rows[o].product : o \in bad}
  /\ LET left == cyc.sent \ (ok \cup bad)
     IN  ItemDone(Cardinality(ok) + Cardinality(left),
                  Sum([o \in ok |-> Paid(o)], ok) + SpentOn(left))
  /\ UNCHANGED <<config, lru, fresh, old, paused, world>>

-----------------------------------------------------------------------------
(***************************************************************************)
(* Strategy "quick": one order at a time, the platform picks the listing.  *)
(***************************************************************************)
Target == Current.item.maxPrice

WantsMore == /\ cyc.bought < cyc.qty
             /\ Target <= cyc.money - cyc.cost
             /\ CanBuy

QuickOrder(o) ==
  /\ pc = "loop" /\ WantsMore /\ o \in Unused
  /\ rows' = [rows EXCEPT ![o] = SendOrder(o, NoProduct, Target)]
  /\ plat' = [plat EXCEPT ![o] = Sent]
  /\ pc' = "quick"
  /\ cyc' = [cyc EXCEPT !.sent = {o}]
  /\ UNCHANGED <<config, lru, fresh, old, memory, wallet>>

\* The loop ends; running out of order numbers is the bound of the model.
QuickEnds ==
  /\ pc = "loop" /\ (~WantsMore \/ Unused = {})
  /\ ItemDone(cyc.bought, cyc.cost)
  /\ UNCHANGED <<config, table, memory, world>>

\* Mutant: a timeout is taken for a failure.
QuickTimeoutFails ==
  /\ pc = "quick"
  /\ rows' = [o \in Orders |-> IF o \in cyc.sent THEN [rows[o] EXCEPT !.status = "failed"]
                                                 ELSE rows[o]]
  /\ ItemDone(cyc.bought, cyc.cost)
  /\ UNCHANGED <<config, lru, fresh, old, memory, world>>

\* Outcome unknown: the target price counts as spent, the item is left alone.
QuickTimeout ==
  /\ pc = "quick"
  /\ ItemDone(cyc.bought + 1, cyc.cost + Target)
  /\ UNCHANGED <<config, table, memory, world>>

\* Refused outright, or the payment failed: released, and the item is paused.
QuickRefused(o) ==
  /\ pc = "quick" /\ o \in cyc.sent
  /\ plat[o].state \in {"sent", "refused"}
  /\ rows' = [rows EXCEPT ![o].status = "failed"]
  /\ plat' = [plat EXCEPT ![o].state = "refused"]
  /\ Pause /\ ItemDone(cyc.bought, cyc.cost)
  /\ UNCHANGED <<config, lru, fresh, old, skip, wallet>>

\* The price is known when the order was executed; until then the target is.
QuickTaken(o, row) ==
  /\ rows' = [rows EXCEPT ![o] = row]
  /\ pc' = "loop"
  /\ cyc' = [cyc EXCEPT !.bought = @ + 1, !.cost = @ + row.pay, !.sent = {}]

QuickPaid(o) ==
  /\ pc = "quick" /\ o \in cyc.sent /\ plat[o].state = "placed"
  /\ QuickTaken(o, [rows[o] EXCEPT !.status = "ok", !.pay = Paid(o), !.orderId = TRUE])
  /\ UNCHANGED <<config, lru, fresh, old, memory, world>>

\* Accepted, payment pending: still unknown, still counted.
QuickPaying(o) ==
  /\ pc = "quick" /\ o \in cyc.sent /\ plat[o].state = "sent"
  /\ plat' = [plat EXCEPT ![o].state = "paying"]
  /\ QuickTaken(o, [rows[o] EXCEPT !.pay = Target, !.orderId = TRUE])
  /\ UNCHANGED <<config, lru, fresh, old, memory, wallet>>

-----------------------------------------------------------------------------
(***************************************************************************)
(* The page: run state, settings, watch list.                              *)
(***************************************************************************)
SetRun(next) ==
  /\ next # run
  /\ next = "sweeping" => key # NoKey /\ ~Blocked(settings)
  /\ run' = next
  /\ UNCHANGED <<key, settings, items, table, pc, cyc, memory, world>>

\* saveSettings: a new app-key may come with the settings, or the key is
\* deleted, which also stops the sweeper.
SaveSettings(s, k) ==
  /\ s # settings \/ k # key
  /\ run = "sweeping" /\ k # NoKey => ~Blocked(s)
  /\ settings' = s /\ key' = k
  /\ run' = IF k = NoKey THEN "stopped" ELSE run
  /\ UNCHANGED <<items, table, pc, cyc, memory, world>>

SaveWatchlist(w) ==
  /\ w # items
  /\ items' = w
  /\ UNCHANGED <<run, key, settings, table, pc, cyc, memory, world>>

\* The process dies and comes back: memory is lost, the database is not;
\* start() resumes sweeping only if it still could be started by hand.
Restart ==
  /\ pc' = "idle" /\ cyc' = Idle /\ paused' = {} /\ skip' = {}
  /\ run' = IF key = NoKey \/ Blocked(settings) THEN "stopped" ELSE run
  /\ UNCHANGED <<key, settings, items, table, world>>

-----------------------------------------------------------------------------
(***************************************************************************)
(* Time.                                                                   *)
(***************************************************************************)

\* UNKNOWN_RECHECK_MS or ORDER_RECHECK_MS passes: due again, in the order of
\* the last query.
DueAgain(o) ==
  /\ o \in fresh
  /\ \A q \in fresh : rows[q].status = rows[o].status => Class(o) <= Class(q)
  /\ fresh' = fresh \ {o}
  /\ UNCHANGED <<config, rows, lru, old, pc, cyc, memory, world>>

\* UNKNOWN_GIVEUP_MS passes, which only matters without an order number.  The
\* code relies on a request not being executed later than that.
GrowsOld(o) ==
  /\ rows[o].status = "unknown" /\ ~rows[o].orderId /\ o \notin old
  /\ plat[o].state # "sent"
  /\ old' = old \cup {o}
  /\ UNCHANGED <<config, rows, lru, fresh, pc, cyc, memory, world>>

PauseEnds(name) ==
  /\ name \in paused
  /\ paused' = paused \ {name}
  /\ UNCHANGED <<config, table, pc, cyc, skip, world>>

SkipEnds(id) ==
  /\ id \in skip
  /\ skip' = skip \ {id}
  /\ UNCHANGED <<config, table, pc, cyc, paused, world>>

-----------------------------------------------------------------------------
(***************************************************************************)
(* The platform.                                                           *)
(***************************************************************************)
Sold(l) == \E o \in Orders : plat[o].product = l.id

\* What an order may buy: the listing it names at the price it names, or for
\* a quick order any listing of the item within the target.
Matches(o, l) ==
  /\ l.name = rows[o].name
  /\ IF plat[o].product = NoProduct /\ rows[o].product = NoProduct
     THEN l.price <= rows[o].price
     ELSE l.id = rows[o].product /\ l.price = rows[o].price

Execute(o, l) ==
  /\ plat[o].state \in {"sent", "paying"}
  /\ Matches(o, l) /\ ~Sold(l) /\ l.price <= wallet
  /\ plat' = [plat EXCEPT ![o].state = "placed", ![o].product = l.id, ![o].pay = l.price]
  /\ wallet' = wallet - l.price
  /\ UNCHANGED <<config, table, pc, cyc, memory>>

\* Never executed: refused, or for an accepted order cancelled.
Refuse(o) ==
  /\ plat[o].state \in {"sent", "paying"}
  /\ plat' = [plat EXCEPT ![o].state = IF @ = "sent" THEN "refused" ELSE "cancelled"]
  /\ UNCHANGED <<config, table, pc, cyc, memory, wallet>>

\* The seller does not deliver: cancelled and refunded.
Cancel(o) ==
  /\ plat[o].state = "placed"
  /\ plat' = [plat EXCEPT ![o].state = "cancelled"]
  /\ wallet' = wallet + plat[o].pay
  /\ UNCHANGED <<config, table, pc, cyc, memory>>

Settle(o) ==
  /\ plat[o].state = "placed"
  /\ plat' = [plat EXCEPT ![o].state = "settled"]
  /\ UNCHANGED <<config, table, pc, cyc, memory, wallet>>

-----------------------------------------------------------------------------
Reconcile(o) == RefreshFails(o) \/ RefreshMissing(o) \/ RefreshFound(o)

Buy == \/ PickItem \/ BalanceReply \/ CycleFails
       \/ \E hit \in SUBSET UNION {{w[i].name : i \in DOMAIN w} : w \in Watchlists} :
            StatsReply(hit)
       \/ \E found \in SUBSET Listings : SearchReply(found)
       \/ SearchFails \/ BatchTimeout \/ BatchRefused
       \/ \E ok \in SUBSET cyc.sent : \E bad \in SUBSET (cyc.sent \ ok) : BatchReply(ok, bad)
       \/ QuickEnds \/ QuickTimeout
       \/ \E o \in Orders : \/ QuickOrder(o) \/ QuickRefused(o)
                            \/ QuickPaid(o) \/ QuickPaying(o)

Page == \/ \E next \in {"stopped", "sweeping"} : SetRun(next)
        \/ \E s \in SettingsChoices, k \in KeyChoices : SaveSettings(s, k)
        \/ \E w \in Watchlists : SaveWatchlist(w)
        \/ RefreshOrders
        \/ \E o \in Orders : ResolvePurchase(o)

Clock == \/ \E o \in Orders : DueAgain(o) \/ GrowsOld(o)
         \/ \E name \in paused : PauseEnds(name)
         \/ \E id \in skip : SkipEnds(id)

Platform == \E o \in Orders : \/ \E l \in Listings : Execute(o, l)
                              \/ Refuse(o) \/ Cancel(o) \/ Settle(o)

Next == StartCycle \/ Buy \/ Page \/ Clock \/ Platform \/ Restart
        \/ \E o \in Orders : Reconcile(o)

Spec == Init /\ [][Next]_vars

-----------------------------------------------------------------------------
(***************************************************************************)
(* What must hold.                                                         *)
(***************************************************************************)
Names == UNION {{w[i].name : i \in DOMAIN w} : w \in Watchlists}
Products == {l.id : l \in Listings}
Prices == {l.price : l \in Listings}
             \cup UNION {{w[i].maxPrice : i \in DOMAIN w} : w \in Watchlists}
Row == [status : Statuses, name : Names \cup {""}, product : Products \cup {NoProduct},
        price : Prices \cup {0}, pay : Prices \cup {0}, orderId : BOOLEAN, final : BOOLEAN]
PlatState == {"none", "sent", "paying", "placed", "refused", "cancelled", "settled"}
Waits == {"idle", "refresh", "stats", "items", "balance", "search", "batch", "loop", "quick"}

\* The state has the shape the code gives it.
TypeOK ==
  /\ run \in {"stopped", "sweeping"}
  /\ key \in Keys \cup {NoKey}
  /\ settings \in SettingsChoices
  /\ items \in Watchlists
  /\ rows \in [Orders -> Row]
  /\ fresh \subseteq Orders /\ old \subseteq Orders
  /\ pc \in Waits
  /\ cyc.due \subseteq Orders /\ cyc.sent \subseteq Orders
  /\ paused \subseteq Names /\ skip \subseteq Products
  /\ plat \in [Orders -> [state : PlatState, key : Keys \cup {NoKey},
                          product : Products \cup {NoProduct}, pay : Prices \cup {0}]]
  /\ wallet \in Int

\* An order the platform took, or may still take, holds its quantity and its
\* money in the ledger: whatever timed out, crashed, was retried or was
\* reconciled in between, the sweeper never forgets money it may have spent.
LiveOnPlatform(o) == plat[o].state \in {"sent", "paying", "placed", "settled"}
LiveIsCounted == \A o \in Orders : LiveOnPlatform(o) => Counted(o)

\* However the settings were changed meanwhile, the money that left the
\* account never exceeds the largest total budget the user ever allowed.
MoneyWithinBudget ==
  \E s \in SettingsChoices : Money - wallet <= s.maxTotalSpend

\* An order goes out only if, with it, everything counted stays within the
\* total budget and the caps of the item, both as the cycle read them.
NewOrders == {o \in Orders : rows[o].status = "none" /\ rows'[o].status # "none"}
CapsKept ==
  /\ SpentOn(CountedOrders) <= cyc.set.maxTotalSpend
  /\ \A i \in DOMAIN cyc.list :
       LET item == cyc.list[i]
       IN  (\E o \in cyc.sent : rows[o].name = item.name)
             => /\ Total(item.name).qty <= item.maxQty
                /\ item.maxSpend > 0 => Total(item.name).spent <= item.maxSpend
OrdersWithinCaps == [][NewOrders # {} => CapsKept']_vars

\* A listing that an earlier order may have bought is not ordered again by
\* its id while that order counts.
ListingOrderedOnce ==
  [][\A o \in NewOrders, p \in CountedOrders :
       rows'[o].product # NoProduct => rows'[o].product # rows[p].product]_vars

\* minBalanceReserve is compared with a balance that was read earlier in the
\* cycle, and from which orders then under way are not deducted.  So this much
\* holds, and no more: if nothing was under way when the balance was read, an
\* order goes out only if the reserve is still in the account after it and every
\* other order under way is paid, whatever the cycle bought before it.
LeavesReserve ==
  wallet - SpentOn({o \in Orders : UnderWay(o)}) >= cyc.set.minBalanceReserve
ReserveHeld == [][NewOrders # {} /\ cyc.calm => LeavesReserve']_vars

-----------------------------------------------------------------------------
(***************************************************************************)
(* Liveness.  Fair are the timer, the replies of the platform and the      *)
(* passing of time; the user, restarts and lost replies are not.           *)
(***************************************************************************)
Fairness ==
  /\ WF_vars(StartCycle) /\ WF_vars(Buy)
  /\ \A o \in Orders :
       /\ WF_vars(Reconcile(o))
       /\ WF_vars(DueAgain(o)) /\ WF_vars(GrowsOld(o))
       /\ WF_vars(Refuse(o) \/ \E l \in Listings : Execute(o, l))
       /\ SF_vars(RefreshFound(o))
       /\ SF_vars(o \in old /\ RefreshMissing(o))

FairSpec == Spec /\ Fairness

\* As long as the sweeper is on, an unknown outcome does not stay unknown:
\* however many orders compete for the few queries of a cycle, each is
\* reached, and either found or given up.
UnknownResolved ==
  \A o \in Orders :
    rows[o].status = "unknown" ~> (rows[o].status # "unknown" \/ run = "stopped")
=============================================================================
