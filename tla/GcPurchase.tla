------------------------------ MODULE GcPurchase ------------------------------
(***************************************************************************)
(* Purchases in a game's store: the tasks of src/purchase/tasks.ts, the    *)
(* store protocol of store-gc.ts, the authorisation of microtxn.ts and the *)
(* game session of gc-client.ts, for the tasks of one Steam account.       *)
(*                                                                         *)
(* The account can be in one game at a time, so tasks, and pages that      *)
(* enter or leave a game, compete for it.  A task asks the game            *)
(* coordinator (GC) for prices, sends its order, waits for Steam to ask    *)
(* whether to pay, agrees, and asks the GC to deliver; every wait has a    *)
(* timeout, and every reply may come late or never.  What a task awaits    *)
(* names its state; the code between two awaits is one action.             *)
(*                                                                         *)
(* A transaction is named by the task whose order it is.  Prices are in    *)
(* units of money and do not change; a task has one account, which is      *)
(* enough because a task takes its accounts one after the other.           *)
(***************************************************************************)
EXTENDS Integers, Sequences, FiniteSets

CONSTANTS
  Tasks, Games,
  Plans,       \* for which games the tasks may be created
  Cart,        \* the cart of a task: a sequence of prices and quantities
  Funds,       \* what is in the wallet
  Broadcast,   \* a reply may also come as the event every request listens to
  None

ASSUME PurchaseConstants ==
  /\ Plans \subseteq [Tasks -> Games] /\ Funds \in Nat
  /\ Cart \in [Tasks -> Seq([price : Nat, quantity : Nat])]
  /\ Broadcast \in BOOLEAN
  /\ None \notin Games \cup Tasks

VARIABLES
  online,    \* the attempt is logged on
  active,    \* attempt.activeGame
  connected, \* games whose flag (cs2GcConnected, tf2GcConnected) is set
  balance,   \* attempt.balance
  gameOf,    \* the game each task was created for
  pc,        \* what each task is waiting for, or how it ended
  txn,       \* the txn_id each task was given
  stash,     \* payment requests nobody was waiting for when they came
  plays,     \* Steam: the game the client is in
  late,      \* games left while their welcome may still be on its way
  sent,      \* requests on their way
  replies,   \* replies on their way
  asks,      \* payment requests on their way
  order,     \* Steam: what has become of the order of each task
  cost,      \* what the order of each task costs
  wallet,    \* Steam: the money in the wallet
  pushes     \* wallet events on their way

attempt == <<online, active, connected, balance>>
steam == <<order, wallet>>
wire == <<sent, replies, asks, pushes>>
game == <<active, connected, plays, late>>
buyVars == <<gameOf, attempt, pc, txn, stash, plays, late, wire, steam, cost>>

Waits == {"gc", "query", "init", "microtxn", "authorize", "finalize"}
Ends == {"completed", "failed"}
Pcs == {"queued", "priced", "wallet"} \cup Waits \cup Ends

Moved(ts, to) == [t \in Tasks |-> IF t \in ts THEN to ELSE pc[t]]

\* A request of task t; "about" is the transaction it names.
Request(t, kind, about) == [kind |-> kind, task |-> t, about |-> about]

PurchaseInit ==
  /\ gameOf \in Plans
  /\ online = TRUE /\ active \in Games /\ connected = {} /\ balance = Funds
  /\ pc = [t \in Tasks |-> "queued"] /\ txn = [t \in Tasks |-> None]
  /\ stash = {} /\ plays = None /\ late = {}
  /\ sent = {} /\ replies = {} /\ asks = {} /\ pushes = <<>>
  /\ order = [t \in Tasks |-> "none"] /\ cost = [t \in Tasks |-> 0]
  /\ wallet = Funds

-----------------------------------------------------------------------------
(***************************************************************************)
(* The game session.                                                       *)
(***************************************************************************)
\* Mutant: the flag of the other game is left alone.
EnterGameOnly(g) ==
  IF active = g /\ g \in connected THEN UNCHANGED game
  ELSE /\ connected' = connected \ {g} /\ active' = g /\ plays' = g
       /\ late' = late \cup ({plays} \ ({None, g} \cup connected))

\* ensureGameSession: nothing if already connected there; else no game is
\* connected any more and the client enters g.
EnterGame(g) ==
  IF active = g /\ g \in connected THEN UNCHANGED game
  ELSE /\ connected' = {} /\ active' = g /\ plays' = g
       /\ late' = late \cup ({plays} \ ({None, g} \cup connected))

\* connectGc, the inventory and the catalogue enter a game on their own.
PageEnters(g) ==
  /\ online /\ EnterGame(g)
  /\ UNCHANGED <<gameOf, online, balance, pc, txn, stash, wire, steam, cost>>

\* disconnectGameSession.
PageLeaves(g) ==
  /\ connected' = {} /\ active' = g /\ plays' = None
  /\ late' = late \cup ({plays} \ ({None} \cup connected))
  /\ UNCHANGED <<gameOf, online, balance, pc, txn, stash, wire, steam, cost>>

\* connectedToGC: the flags are set, then every task that waits for this game
\* asks for the prices.
Waiting(g) == {t \in Tasks : pc[t] = "gc" /\ gameOf[t] = g}
GcConnects(g) ==
  /\ online /\ g \notin connected /\ (plays = g \/ g \in late)
  /\ connected' = {g} /\ active' = g /\ late' = late \ {g}
  /\ pc' = Moved(Waiting(g), "query")
  /\ sent' = sent \cup {Request(t, "query", None) : t \in Waiting(g)}
  /\ UNCHANGED <<gameOf, online, balance, plays, txn, stash, replies, asks, pushes, steam, cost>>

\* disconnectedFromGC, or an error of the GC module.
GcDrops(g) ==
  /\ g \in connected
  /\ connected' = connected \ {g}
  /\ UNCHANGED <<gameOf, online, active, balance, pc, txn, stash, plays, late, wire, steam, cost>>

-----------------------------------------------------------------------------
(***************************************************************************)
(* A task, from one wait to the next.                                      *)
(***************************************************************************)
\* sendGcRequest: refused while the game is not connected; else the task waits.
Ready(t) == online /\ gameOf[t] \in connected
Send(t, kind, about) ==
  IF Ready(t)
  THEN pc' = [pc EXCEPT ![t] = kind] /\ sent' = sent \cup {Request(t, kind, about)}
  ELSE pc' = [pc EXCEPT ![t] = "failed"] /\ UNCHANGED sent

\* runAccount up to its first await.
Begin(t) ==
  /\ pc[t] = "queued"
  /\ IF ~online
     THEN pc' = [pc EXCEPT ![t] = "failed"] /\ UNCHANGED <<game, sent>>
     ELSE /\ EnterGame(gameOf[t])
          /\ IF Ready(t) THEN Send(t, "query", None)
             ELSE pc' = [pc EXCEPT ![t] = "gc"] /\ UNCHANGED sent
  /\ UNCHANGED <<gameOf, online, balance, txn, stash, replies, asks, pushes, steam, cost>>

\* clampItemsToBalance: from the front, of each item as many as the rest of the
\* money covers; free items are not limited.
Least(i, j) == IF i < j THEN i ELSE j
Affordable(item, money) ==
  IF item.price = 0 THEN item.quantity ELSE Least(item.quantity, money \div item.price)
MoneyLeft(items, money) ==
  LET left[i \in 0..Len(items)] ==
        IF i = 0 THEN money
        ELSE left[i-1] - items[i].price * Affordable(items[i], left[i-1])
  IN  left
Clamped(items, money) ==
  [i \in DOMAIN items |->
     [items[i] EXCEPT !.quantity = Affordable(items[i], MoneyLeft(items, money)[i-1])]]
Total(items, money) == money - MoneyLeft(items, money)[Len(items)]
Units(items) ==
  LET units[i \in 0..Len(items)] == IF i = 0 THEN 0 ELSE units[i-1] + items[i].quantity
  IN  units[Len(items)]

\* The price sheet is decoded: the cart is priced and clamped, and ordered.
PriceCart(t) ==
  /\ pc[t] = "priced"
  /\ IF Units(Clamped(Cart[t], balance)) = 0
     THEN pc' = [pc EXCEPT ![t] = "failed"] /\ UNCHANGED <<sent, cost>>
     ELSE /\ Send(t, "init", t)
          /\ cost' = [cost EXCEPT ![t] = Total(Cart[t], balance)]
  /\ UNCHANGED <<gameOf, attempt, txn, stash, plays, late, replies, asks, pushes, steam>>

\* Mutant: only the game of the request is compared.
MatchMicroTxnByGame(x, id, g) == gameOf[x] = g

\* matchMicroTxnRequest: by order and by game.
MatchMicroTxnRequest(x, id, g) == x = id /\ gameOf[x] = g

\* A GC reply is taken by the request it answers, or as an event by every
\* request that waits for one of this kind in this game.
Takers(m) ==
  {t \in Tasks : pc[t] = m.kind /\ (t = m.task \/ (m.event /\ gameOf[t] = gameOf[m.task]))}

\* The order has its transaction: it waits for Steam to ask, or takes the
\* request that is stashed already.
Ordered(ts, x) ==
  LET known == {y \in stash : \E t \in ts : MatchMicroTxnRequest(y, x, gameOf[t])}
  IN  /\ txn' = [t \in Tasks |-> IF t \in ts THEN x ELSE txn[t]]
      /\ IF ts = {} \/ known = {}
         THEN pc' = Moved(ts, "microtxn") /\ UNCHANGED <<stash, sent>>
         ELSE \E first \in ts, y \in known :
                /\ stash' = stash \ {y}
                /\ pc' = [Moved(ts, "microtxn") EXCEPT ![first] = "authorize"]
                /\ sent' = sent \cup {Request(first, "authorize", y)}

\* Steam agreed: deliver, if the game is still connected.
Finalize(ts) ==
  /\ pc' = [t \in Tasks |-> IF t \notin ts THEN pc[t]
                           ELSE IF Ready(t) THEN "finalize" ELSE "failed"]
  /\ sent' = sent \cup {Request(t, "finalize", txn[t]) : t \in {u \in ts : Ready(u)}}

\* Mutant: the result of the last reply is not looked at.
Refused(m) == ~m.ok /\ m.kind # "finalize"

\* A result other than OK fails the purchase.
Rejected(m) == ~m.ok

Reply(m) ==
  /\ online /\ m \in replies
  /\ replies' = replies \ {m}
  /\ CASE Rejected(m) -> pc' = Moved(Takers(m), "failed") /\ UNCHANGED <<txn, stash, sent>>
       [] ~Rejected(m) /\ m.kind = "query" -> pc' = Moved(Takers(m), "priced") /\ UNCHANGED <<txn, stash, sent>>
       [] ~Rejected(m) /\ m.kind = "init" -> Ordered(Takers(m), m.about)
       [] ~Rejected(m) /\ m.kind = "authorize" -> Finalize(Takers(m)) /\ UNCHANGED <<txn, stash>>
       [] ~Rejected(m) /\ m.kind = "finalize" -> pc' = Moved(Takers(m), "wallet") /\ UNCHANGED <<txn, stash, sent>>
  /\ UNCHANGED <<gameOf, attempt, plays, late, asks, pushes, steam, cost>>

\* Steam asks whether to pay for x: the tasks that wait for it agree, else it is
\* stashed; stashed requests older than PENDING_TTL_MS are dropped then.
MicroTxnRequest(x) ==
  LET takers == {t \in Tasks : pc[t] = "microtxn" /\ MatchMicroTxnRequest(x, txn[t], gameOf[t])}
  IN  /\ online /\ x \in asks
      /\ asks' = asks \ {x}
      /\ \E kept \in SUBSET stash : stash' = kept \cup (IF takers = {} THEN {x} ELSE {})
      /\ pc' = Moved(takers, "authorize")
      /\ sent' = sent \cup {Request(t, "authorize", x) : t \in takers}
      /\ UNCHANGED <<gameOf, attempt, txn, plays, late, replies, pushes, steam, cost>>

\* The wallet event: the session takes the balance, and a task that waits for
\* it is done.
WalletEvent ==
  /\ online /\ pushes # <<>>
  /\ balance' = Head(pushes) /\ pushes' = Tail(pushes)
  /\ pc' = Moved({t \in Tasks : pc[t] = "wallet"}, "completed")
  /\ UNCHANGED <<gameOf, online, game, txn, stash, sent, replies, asks, steam, cost>>

\* Mutant: the balance is worked out instead.
WalletTimeoutGuess(t) ==
  /\ pc[t] = "wallet"
  /\ pc' = [pc EXCEPT ![t] = "completed"]
  /\ balance' = balance - cost[t]
  /\ UNCHANGED <<gameOf, online, game, txn, stash, wire, steam, cost>>

\* walletUpdate gives up: the purchase is complete, the balance left as it is.
WalletTimeout(t) ==
  /\ pc[t] = "wallet"
  /\ pc' = [pc EXCEPT ![t] = "completed"]
  /\ UNCHANGED <<gameOf, attempt, txn, stash, plays, late, wire, steam, cost>>

\* Every other wait that takes too long fails the purchase.
Timeout(t) ==
  /\ pc[t] \in Waits
  /\ pc' = [pc EXCEPT ![t] = "failed"]
  /\ UNCHANGED <<gameOf, attempt, txn, stash, plays, late, wire, steam, cost>>

-----------------------------------------------------------------------------
(***************************************************************************)
(* The GC, Steam, and the connection to them.                              *)
(***************************************************************************)
Answer(m, ok, event) ==
  [kind |-> m.kind, task |-> m.task, about |-> m.about, ok |-> ok, event |-> event]

\* Assumed: a reply comes as an event only when no other task is in that game.
MayBroadcast(m) ==
  Broadcast /\ \A t \in Tasks \ {m.task} : gameOf[t] # gameOf[m.task]

GcAnswers(m) ==
  /\ m \in sent /\ m.kind \in {"query", "init", "finalize"}
  /\ \E ok, event \in BOOLEAN :
       /\ event => MayBroadcast(m)
       /\ replies' = replies \cup {Answer(m, ok, event)}
       /\ CASE m.kind = "query" -> UNCHANGED <<asks, order>>
            [] m.kind = "init" ->
                 /\ asks' = asks \cup (IF ok THEN {m.about} ELSE {})
                 /\ order' = IF ok THEN [order EXCEPT ![m.about] = "open"] ELSE order
            [] m.kind = "finalize" ->
                 /\ ok => order[m.about] = "paid"
                 /\ order' = IF ok THEN [order EXCEPT ![m.about] = "delivered"] ELSE order
                 /\ UNCHANGED asks
  /\ sent' = sent \ {m}
  /\ UNCHANGED <<gameOf, attempt, pc, txn, stash, plays, late, pushes, wallet, cost>>

SteamPays(m) ==
  LET pays == order[m.about] = "open" /\ cost[m.about] <= wallet
  IN  /\ m \in sent /\ m.kind = "authorize"
      /\ sent' = sent \ {m}
      /\ replies' = replies \cup {Answer(m, pays, FALSE)}
      /\ order' = IF pays THEN [order EXCEPT ![m.about] = "paid"] ELSE order
      /\ wallet' = IF pays THEN wallet - cost[m.about] ELSE wallet
      /\ pushes' = IF pays THEN Append(pushes, wallet - cost[m.about]) ELSE pushes
      /\ UNCHANGED <<gameOf, attempt, pc, txn, stash, plays, late, asks, cost>>

\* The connection is lost, with all that is on its way; after the relogin
\* Steam tells the balance.
Disconnect ==
  /\ online
  /\ online' = FALSE /\ connected' = {} /\ plays' = None /\ late' = {}
  /\ sent' = {} /\ replies' = {} /\ asks' = {} /\ pushes' = <<>>
  /\ UNCHANGED <<gameOf, active, balance, pc, txn, stash, steam, cost>>

Relogin ==
  /\ ~online
  /\ online' = TRUE /\ pushes' = <<wallet>>
  /\ UNCHANGED <<gameOf, game, balance, pc, txn, stash, sent, replies, asks, steam, cost>>

-----------------------------------------------------------------------------
TaskSteps(t) == Begin(t) \/ PriceCart(t) \/ Timeout(t) \/ WalletTimeout(t)

PurchaseNext ==
  \/ \E t \in Tasks : TaskSteps(t)
  \/ \E m \in replies : Reply(m)
  \/ \E x \in asks : MicroTxnRequest(x)
  \/ \E m \in sent : GcAnswers(m) \/ SteamPays(m)
  \/ \E g \in Games : PageEnters(g) \/ PageLeaves(g) \/ GcConnects(g) \/ GcDrops(g)
  \/ WalletEvent \/ Disconnect \/ Relogin

PurchaseSpec == PurchaseInit /\ [][PurchaseNext]_buyVars

-----------------------------------------------------------------------------
BuyTypeOK ==
  /\ online \in BOOLEAN /\ active \in Games /\ connected \subseteq Games
  /\ balance \in Nat /\ wallet \in Nat /\ cost \in [Tasks -> Nat]
  /\ pc \in [Tasks -> Pcs] /\ txn \in [Tasks -> Tasks \cup {None}]
  /\ stash \subseteq Tasks /\ asks \subseteq Tasks
  /\ plays \in Games \cup {None} /\ late \subseteq Games
  /\ order \in [Tasks -> {"none", "open", "paid", "delivered"}]
  /\ \A m \in sent : m.task \in Tasks /\ m.about \in Tasks \cup {None}

\* However tasks and pages switch games and however late the GCs greet: at most
\* one game counts as connected, and it is the active one.
OneGame == \A g \in connected : connected = {g} /\ active = g

\* A task reported as completed has paid for its own order and got its items,
\* whatever the other task, late replies and lost connections did.
CompletedIsPaid == \A t \in Tasks : pc[t] \in {"wallet", "completed"} => order[t] = "delivered"

\* Money is only spent by the task that placed the order, while it waits for
\* that: what a timed-out purchase left behind, such as a stashed request, is
\* never paid by a later one.
Spending == {m \in sent : m.kind = "authorize"}
PaidByItsTask ==
  [][\A m \in Spending' \ Spending : m.about = m.task /\ order[m.task] = "open"]_buyVars

\* Once Steam's messages have come in, the balance the tasks clamp carts to is
\* what is in the wallet.
BalanceIsCurrent == online /\ pushes = <<>> => balance = wallet

\* What the tasks of src/purchase/tasks.ts go by and report is so: the game they
\* are in, the money there is, what was paid and delivered.
PurchaseHonest == OneGame /\ CompletedIsPaid /\ BalanceIsCurrent
=============================================================================
