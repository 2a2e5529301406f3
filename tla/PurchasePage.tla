----------------------------- MODULE PurchasePage -----------------------------
(***************************************************************************)
(* The page of in-game purchases: web/src/stores/purchase.ts with the      *)
(* carts of web/src/lib/purchase.ts, the server as far as the page sees    *)
(* it, and the socket, which has a way of its own beside the replies.      *)
(*                                                                         *)
(* One article at price 1 stands for all, so a cart is a quantity; any of  *)
(* the accounts shown may be selected at any moment.  The reply to a read  *)
(* that a newer one or a switch has overtaken changes nothing, and is left *)
(* out.                                                                    *)
(***************************************************************************)
EXTENDS Integers, Sequences, Functions

CONSTANTS
  Buyers,      \* accounts
  Games, Orders,
  MaxFunds,    \* bounds of the model: what a wallet may hold, and what the user
  MaxMoves,    \* does and how often the accounts change
  NoGame

\* Assumed of them.
PageConstants == MaxFunds \in Nat /\ MaxMoves \in Nat /\ NoGame \notin Games

VARIABLES
  \* the server
  funds,       \* the wallets of the accounts that are in the game
  stage,       \* each task: none, queued, running or completed
  taskGame,
  \* on the way
  reading,     \* per kind of read, the game of the latest one, or NoGame
  taskReads,   \* reads of the task list: the game, and the list as it was
  posting,     \* the order on its way: the game, the carts, its task
  pushes,
  \* the page
  page,
  moves        \* bound of the model

serverVars == <<funds, stage, taskGame>>
pageVars == <<serverVars, reading, taskReads, posting, pushes, page, moves>>

Move == moves < MaxMoves /\ moves' = moves + 1

NoOrder == [game |-> NoGame]
Stages == <<"queued", "running", "completed">>
Rank(s) == CHOOSE i \in 1..3 : Stages[i] = s
EmptyCarts == [g \in Games |-> [b \in Buyers |-> 0]]

-----------------------------------------------------------------------------
(***************************************************************************)
(* Carts.                                                                  *)
(***************************************************************************)
\* renormalizeCarts with normalizeCart: what the wallet does not cover goes, and
\* the cart of an account that is not shown.
Normalized(cart, shown) ==
  [b \in Buyers |-> IF b \notin DOMAIN shown THEN 0
                    ELSE IF cart[b] <= shown[b] THEN cart[b] ELSE shown[b]]

WithCart(cart) == [page EXCEPT !.carts[page.game] = cart]

\* setCartQuantity: no more than the wallet covers.
Covered(b, n) == IF n <= page.shown[b] THEN n ELSE page.shown[b]

ChangeCarts(cart) ==
  /\ Move
  /\ cart # page.carts[page.game]
  /\ page' = WithCart(cart)
  /\ UNCHANGED <<serverVars, reading, taskReads, posting, pushes>>

AddToCart(bs) ==
  ChangeCarts([b \in Buyers |-> IF b \in bs THEN Covered(b, page.carts[page.game][b] + 1)
                                ELSE page.carts[page.game][b]])

SetQuantity(b, n) == ChangeCarts([page.carts[page.game] EXCEPT ![b] = Covered(b, n)])

MaxOutCart(bs) ==
  ChangeCarts([b \in Buyers |-> IF b \in bs /\ page.carts[page.game][b] > 0 THEN page.shown[b]
                                ELSE page.carts[page.game][b]])

\* Of the selected accounts, or of all if none is selected.
ClearCart(bs) ==
  ChangeCarts([b \in Buyers |-> IF b \in bs \/ bs = {} THEN 0 ELSE page.carts[page.game][b]])

-----------------------------------------------------------------------------
(***************************************************************************)
(* Reads.                                                                  *)
(***************************************************************************)
\* refreshAccounts and loadCatalog.
ReadsNow(kinds) ==
  /\ reading' = [k \in {"accounts", "items"} |-> IF k \in kinds THEN page'.game ELSE reading[k]]

Reread(kind) ==
  /\ Move
  /\ ~page.loading[kind]           \* the button waits for the answer
  /\ page' = [page EXCEPT !.loading[kind] = TRUE]
  /\ ReadsNow({kind})
  /\ UNCHANGED <<serverVars, taskReads, posting, pushes>>

AccountsReply ==
  /\ reading["accounts"] # NoGame
  /\ reading' = [reading EXCEPT !["accounts"] = NoGame]
  /\ \/ page' = [page EXCEPT !.loading["accounts"] = FALSE,
                             !.shown = funds, !.of["accounts"] = reading["accounts"],
                             !.carts[page.game] = Normalized(@, funds)]
     \/ page' = [page EXCEPT !.loading["accounts"] = FALSE]        \* it failed
  /\ UNCHANGED <<serverVars, taskReads, posting, pushes, moves>>

ItemsReply ==
  /\ reading["items"] # NoGame
  /\ reading' = [reading EXCEPT !["items"] = NoGame]
  /\ \/ page' = [page EXCEPT !.loading["items"] = FALSE, !.of["items"] = reading["items"],
                             !.carts[page.game] = Normalized(@, page.shown)]
     \/ page' = [page EXCEPT !.loading["items"] = FALSE]
  /\ UNCHANGED <<serverVars, taskReads, posting, pushes, moves>>

\* loadTasks: the list as the server had it replaces the one on the page.
TasksReply(read) ==
  /\ read \in taskReads
  /\ taskReads' = taskReads \ {read}
  /\ LET fresh == Restrict(read.list, {t \in DOMAIN read.list : taskGame[t] = page.game})
         seen  == [t \in Orders |-> IF page.seen[t] = "none" /\ t \in DOMAIN read.list THEN read.list[t] ELSE page.seen[t]]
     IN  page' = IF read.game = page.game
                 THEN [page EXCEPT !.seen = seen, !.tasks = fresh, !.of["tasks"] = page.game]
                 ELSE [page EXCEPT !.seen = seen]
  /\ UNCHANGED <<serverVars, reading, posting, pushes, moves>>

-----------------------------------------------------------------------------
(***************************************************************************)
(* Entering, leaving, and switching games.                                 *)
(***************************************************************************)
\* enterPurchase: what is being loaded is not loaded again.
Entered(p, inFlight) ==
  LET kinds == {k \in {"accounts", "items"} :
                  ~p.loading[k] /\ (k = "items" => p.of["items"] = NoGame)}
  IN  /\ page' = [p EXCEPT !.open = TRUE,
                           !.loading = [k \in DOMAIN @ |-> @[k] \/ k \in kinds]]
      /\ reading' = [k \in DOMAIN inFlight |-> IF k \in kinds THEN p.game ELSE inFlight[k]]
      /\ taskReads' = IF p.of["tasks"] = p.game THEN taskReads
                      ELSE taskReads \cup {[game |-> p.game,
                                            list |-> Restrict(stage, {t \in Orders : stage[t] # "none"})]}

EnterPurchase ==
  /\ Move
  /\ ~page.open
  /\ Entered(page, reading)
  /\ UNCHANGED <<serverVars, posting, pushes>>

LeavePurchase ==
  /\ Move
  /\ page.open
  /\ page' = [page EXCEPT !.open = FALSE]
  /\ UNCHANGED <<serverVars, reading, taskReads, posting, pushes>>

\* Mutant: the answers on the way are still taken.
SwitchGameOnly(g) ==
  /\ Move
  /\ page.open /\ g # page.game
  /\ Entered([page EXCEPT !.game = g, !.shown = << >>, !.tasks = << >>,
                          !.of = [k \in DOMAIN @ |-> NoGame]], reading)
  /\ UNCHANGED <<serverVars, posting, pushes>>

\* switchGame: what is on the way is of no use any more.
SwitchGame(g) ==
  /\ Move
  /\ page.open /\ g # page.game
  /\ Entered([page EXCEPT !.game = g, !.shown = << >>, !.tasks = << >>,
                          !.of = [k \in DOMAIN @ |-> NoGame]],
             [k \in DOMAIN reading |-> NoGame])
  /\ UNCHANGED <<serverVars, posting, pushes>>

-----------------------------------------------------------------------------
(***************************************************************************)
(* Orders, and what becomes of them.                                       *)
(***************************************************************************)
\* submitTask: the carts of some of the accounts go to the server, which makes
\* a task of them and says so over the socket at once.
Submit(t, bs) ==
  /\ Move
  /\ page.open /\ posting = NoOrder /\ stage[t] = "none"
  /\ bs # {} /\ \A b \in bs : b \in DOMAIN page.shown /\ page.carts[page.game][b] > 0
  /\ posting' = [game |-> page.game, of |-> bs, task |-> t]
  /\ stage' = [stage EXCEPT ![t] = "queued"]
  /\ taskGame' = [taskGame EXCEPT ![t] = page.game]
  /\ pushes' = Append(pushes, <<t, "queued">>)
  /\ UNCHANGED <<funds, reading, taskReads, page>>

\* mergeTask.
Merged(p, t, s) ==
  [p EXCEPT !.seen[t] = s,
            !.tasks = IF taskGame[t] # p.game THEN @
                      ELSE [u \in DOMAIN @ \cup {t} |-> IF u = t THEN s ELSE @[u]]]

\* Mutant: the state of the reply is newer whatever has been pushed.
NewToPage(t) == TRUE

\* The pushes are often faster than the reply.
Unseen(t) == page.seen[t] = "none"

\* The carts that have been ordered are emptied, in the game shown by then.
SubmitReply ==
  /\ posting # NoOrder
  /\ LET t      == posting.task
         ordered == [b \in Buyers |-> IF b \in posting.of THEN 0 ELSE page.carts[page.game][b]]
     IN  page' = IF Unseen(t) THEN Merged(WithCart(ordered), t, "queued") ELSE WithCart(ordered)
  /\ posting' = NoOrder
  /\ UNCHANGED <<serverVars, reading, taskReads, pushes, moves>>

\* The reply is lost: the carts stay as they are.
SubmitFails ==
  /\ posting # NoOrder
  /\ posting' = NoOrder
  /\ UNCHANGED <<serverVars, reading, taskReads, pushes, page, moves>>

TaskProceeds(t) ==
  /\ stage[t] \in {"queued", "running"}
  /\ LET s == Stages[Rank(stage[t]) + 1]
     IN  stage' = [stage EXCEPT ![t] = s] /\ pushes' = Append(pushes, <<t, s>>)
  /\ UNCHANGED <<funds, taskGame, reading, taskReads, posting, page, moves>>

Pushed ==
  /\ pushes # << >>
  /\ page' = Merged(page, Head(pushes)[1], Head(pushes)[2])
  /\ pushes' = Tail(pushes)
  /\ UNCHANGED <<serverVars, reading, taskReads, posting, moves>>

\* Accounts come, go and pay; the page is told and, if it is open, rereads them
\* after a while unless it does already.
AccountsChange(new) ==
  /\ Move
  /\ new # funds
  /\ funds' = new
  /\ page' = [page EXCEPT !.due = @ \/ page.open]
  /\ UNCHANGED <<stage, taskGame, reading, taskReads, posting, pushes>>

RefreshTimer ==
  /\ page.due
  /\ LET again == page.open /\ ~page.loading["accounts"]
     IN  /\ page' = [page EXCEPT !.due = FALSE, !.loading["accounts"] = @ \/ again]
         /\ reading' = IF again THEN [reading EXCEPT !["accounts"] = page.game] ELSE reading
  /\ UNCHANGED <<serverVars, taskReads, posting, pushes, moves>>

-----------------------------------------------------------------------------
Wallets == UNION {[bs -> 0..MaxFunds] : bs \in SUBSET Buyers}

PageInit ==
  /\ moves = 0
  /\ funds \in [Buyers -> {MaxFunds}]
  /\ stage = [t \in Orders |-> "none"] /\ taskGame = [t \in Orders |-> NoGame]
  /\ reading = [k \in {"accounts", "items"} |-> NoGame]
  /\ taskReads = {} /\ posting = NoOrder /\ pushes = << >>
  /\ page \in [game : Games, open : {FALSE}, due : {FALSE},
               shown : {<< >>}, tasks : {<< >>}, seen : {[t \in Orders |-> "none"]},
               loading : {[k \in {"accounts", "items"} |-> FALSE]},
               of : {[k \in {"accounts", "items", "tasks"} |-> NoGame]},
               carts : {EmptyCarts}]

PageNext ==
  \/ \E bs \in SUBSET DOMAIN page.shown : AddToCart(bs) \/ MaxOutCart(bs) \/ ClearCart(bs)
  \/ \E b \in DOMAIN page.shown, n \in 0..MaxFunds : SetQuantity(b, n)
  \/ \E kind \in {"accounts", "items"} : Reread(kind)
  \/ AccountsReply \/ ItemsReply \/ \E read \in taskReads : TasksReply(read)
  \/ EnterPurchase \/ LeavePurchase \/ \E g \in Games : SwitchGame(g)
  \/ \E t \in Orders, bs \in SUBSET Buyers : Submit(t, bs)
  \/ SubmitReply \/ SubmitFails \/ \E t \in Orders : TaskProceeds(t)
  \/ Pushed \/ RefreshTimer \/ \E new \in Wallets : AccountsChange(new)

PageSpec == PageInit /\ [][PageNext]_pageVars

-----------------------------------------------------------------------------
\* What is shown belongs to the game shown, whatever is still on the way when
\* games are switched, and no cart exceeds the wallet shown beside it.
ShowsItsGame ==
  /\ \A k \in {"accounts", "items", "tasks"} : page.of[k] \in {NoGame, page.game}
  /\ \A t \in DOMAIN page.tasks : taskGame[t] = page.game
  /\ \A b \in DOMAIN page.shown : page.carts[page.game][b] <= page.shown[b]

\* The reply to an order and the pushes come in any order, a list in between:
\* once all pushes are in, the page knows how far each task has got.
KnowsTasks == pushes = << >> => page.seen = stage

PurchasePageKept == ShowsItsGame /\ KnowsTasks

\* switchGame, purchase.ts:231: the carts are kept game by game.  So no answer
\* to a read empties the cart of an account that can pay for it.
CartsKept ==
  [][ItemsReply => \A b \in DOMAIN funds : page'.carts[page.game][b] = page.carts[page.game][b]]_pageVars

AllStages == {"none", "queued", "running", "completed"}
Lists == UNION {[ts -> AllStages] : ts \in SUBSET Orders}
Posts == [game : Games, of : SUBSET Buyers, task : Orders]
Pages == [game : Games, open : BOOLEAN, due : BOOLEAN, shown : Wallets, tasks : Lists, seen : [Orders -> AllStages],
          loading : [{"accounts", "items"} -> BOOLEAN], of : [{"accounts", "items", "tasks"} -> Games \cup {NoGame}],
          carts : [Games -> [Buyers -> Nat]]]
PurchaseTyped ==
  /\ funds \in Wallets /\ stage \in [Orders -> AllStages] /\ taskGame \in [Orders -> Games \cup {NoGame}]
  /\ reading \in [{"accounts", "items"} -> Games \cup {NoGame}] /\ taskReads \subseteq [game : Games, list : Lists]
  /\ posting \in {NoOrder} \cup Posts /\ pushes \in Seq(Orders \X AllStages) /\ page \in Pages

\* What is read belongs to the game shown; what is known of a task, it is one.
ReadsItsGame == \A k \in {"accounts", "items"} : reading[k] \in {NoGame, page.game}
TasksExist ==
  /\ \A read \in taskReads : \A t \in DOMAIN read.list : stage[t] # "none"
  /\ posting # NoOrder => stage[posting.task] # "none"

\* Why the page knows the tasks: the last push on its way of each tells how far it
\* is, and the page knows of those no push is on its way of.
PushesTell ==
  /\ \A i \in 1..Len(pushes) :
       (\A j \in i + 1..Len(pushes) : pushes[j][1] # pushes[i][1]) => stage[pushes[i][1]] = pushes[i][2]
  /\ \A t \in Orders : (\A i \in 1..Len(pushes) : pushes[i][1] # t) => page.seen[t] = stage[t]

\* Inductive.
PurchaseInv == PurchaseTyped /\ ReadsItsGame /\ TasksExist /\ PushesTell /\ ShowsItsGame
=============================================================================
