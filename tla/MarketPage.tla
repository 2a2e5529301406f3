------------------------------ MODULE MarketPage ------------------------------
(***************************************************************************)
(* The page of market buy orders (web/src/stores/market.ts, MarketView):   *)
(* accounts of one currency are picked, an item is searched and its prices *)
(* are asked for, orders are confirmed in a dialog and then placed; the    *)
(* list of orders is read, reconciled, cancelled from.  Every request is   *)
(* out for as long as it likes; accounts come and go meanwhile.            *)
(*                                                                         *)
(* At the server a request is one step (MarketOrders has its detail).  An  *)
(* item is found by the query of its own name.                             *)
(***************************************************************************)
EXTENDS Integers, FiniteSets

CONSTANTS
  Payers,        \* account names
  Wares,         \* items of the market
  Currencies,    \* positive numbers; 0 is a wallet not read yet
  NoWare,        \* no item is picked, found or asked for
  MaxEvents,     \* bounds of the model: what others do, what the user asks for
  MaxClicks

\* Assumed of them.
MarketPageConstants ==
  /\ IsFiniteSet(Payers) /\ NoWare \notin Wares /\ Currencies \subseteq Nat \ {0} /\ {MaxEvents, MaxClicks} \subseteq Nat

VARIABLES
  wallet,        \* by account signed in, its currency
  ledger,        \* the server's list of orders: [id, payer, ware, currency]
  filled,        \* ids of orders Steam has no more
  ledgerAt,      \* how often the list changed
  page,          \* accounts (and their currency), selected, item, context
  list,          \* orders shown of the list, which of them, how old the list is
  lookup,        \* itemSearch: query, loading, what the items were found by, seq, timer
  dialog,        \* what the user is asked to confirm, {} if nothing
  asks,          \* requests on their way
  refreshDue,    \* accountRefreshTimer
  ownAt, astray, \* history: the list as the page's own requests left it; a list
                 \*   the page did not get, or got after a newer one
  events, clicks \* bounds of the model

serverSide == <<wallet, ledger, filled, ledgerAt>>
marketHistory == <<ownAt, astray>>
marketBounds == <<events, clicks>>
marketPageVars == <<serverSide, page, list, lookup, dialog, asks, refreshDue, marketHistory, marketBounds>>

NoContext == [ware |-> NoWare, currency |-> 0]
Shown == {o \in list.orders : o.id \in list.visible}
SelectedOf(p) == p.selected \cap DOMAIN p.accounts
SelectedCurrencies(p) == {p.accounts[a] : a \in SelectedOf(p)}

-----------------------------------------------------------------------------
(* Others: accounts sign out (who signs in again has another session, by   *)
(* which nobody asks), wallets are read, orders are filled.                *)

Event == events < MaxEvents /\ events' = events + 1
AttemptChanges ==
  /\ Event
  /\ \E a \in Payers :
       \/ a \in DOMAIN wallet /\ wallet' = [b \in DOMAIN wallet \ {a} |-> wallet[b]]
       \/ a \in DOMAIN wallet /\ wallet[a] = 0 /\ \E c \in Currencies : wallet' = [wallet EXCEPT ![a] = c]
  /\ refreshDue' = TRUE                    \* 800 ms after the last change
  /\ UNCHANGED <<ledger, filled, ledgerAt, page, list, lookup, dialog, asks, marketHistory, clicks>>

OrderFilled ==
  /\ Event /\ \E o \in ledger : o.id \notin filled /\ filled' = filled \cup {o.id}
  /\ UNCHANGED <<wallet, ledger, ledgerAt, page, list, lookup, dialog, asks, refreshDue, marketHistory, clicks>>

-----------------------------------------------------------------------------
(* The server.                                                             *)

Answered(r, answer) == asks' = (asks \ {r}) \cup {[r EXCEPT !.phase = "back", !.answer = {answer}]}
Is(r) == CHOOSE answer \in r.answer : TRUE
LedgerIs(orders) == ledger' = orders /\ ledgerAt' = IF orders = ledger THEN ledgerAt ELSE ledgerAt + 1
Reading == [orders |-> ledger', at |-> ledgerAt']

HandleAccounts(r) == r.kind = "accounts" /\ Answered(r, wallet) /\ LedgerIs(ledger)
HandleOrders(r) == r.kind = "orders" /\ LedgerIs(ledger) /\ Answered(r, Reading)
HandleSearch(r) == r.kind = "search" /\ Answered(r, r.ware) /\ LedgerIs(ledger)
HandleContext(r) ==
  /\ r.kind = "context" /\ r.payer \in DOMAIN wallet /\ LedgerIs(ledger)
  /\ Answered(r, [ware |-> r.ware, currency |-> wallet[r.payer]])

\* place: the accounts that are there, of one known currency; some may fail.
Payable(payers) == LET there == payers \cap DOMAIN wallet IN
  IF there # {} /\ Cardinality({wallet[a] : a \in there}) = 1 /\ \A a \in there : wallet[a] # 0
  THEN there ELSE {}
HandlePlace(r) ==
  /\ r.kind = "place" /\ Payable(r.payers) # {}
  /\ \E ok \in SUBSET Payable(r.payers) :
       LET new == {[id |-> <<ledgerAt, a>>, payer |-> a, ware |-> r.ware,
                    currency |-> wallet[a]] : a \in ok}
       IN  LedgerIs(ledger \cup new) /\ Answered(r, [ids |-> {o.id : o \in new}, at |-> ledgerAt'])

\* cancel: only for an account that is there.
HandleCancel(r) ==
  /\ r.kind = "cancel" /\ \E o \in ledger : o.id = r.id /\ o.payer \in DOMAIN wallet
  /\ LedgerIs({o \in ledger : o.id # r.id}) /\ Answered(r, [at |-> ledgerAt'])

\* sync: what Steam has no more goes, of the accounts that could be asked.
HandleSync(r) ==
  /\ r.kind = "sync"
  /\ \E synced \in SUBSET (r.payers \cap DOMAIN wallet) :
       /\ LedgerIs({o \in ledger : o.payer \notin synced \/ o.id \notin filled})
       /\ Answered(r, [orders |-> ledger', at |-> ledgerAt', synced |-> synced])

MarketHandled ==
  /\ \E r \in asks : r.phase = "there" /\ ( HandleAccounts(r) \/ HandleOrders(r) \/ HandleSearch(r) \/ HandleContext(r)
                                            \/ HandlePlace(r) \/ HandleCancel(r) \/ HandleSync(r) )
  /\ UNCHANGED <<wallet, filled, page, list, lookup, dialog, refreshDue, marketHistory, marketBounds>>

-----------------------------------------------------------------------------
(* The page.                                                               *)

Sent(r) == [f \in DOMAIN r \cup {"phase", "answer"} |-> IF f = "phase" THEN "there" ELSE IF f = "answer" THEN {} ELSE r[f]]
Send(requests) == asks' = asks \cup {Sent(r) : r \in requests}
Click == clicks < MaxClicks /\ clicks' = clicks + 1 /\ events' = events
AskedFor(kind) == \E r \in asks : r.kind = kind
AccountsAsk == IF page.loadingAccounts THEN {} ELSE {[kind |-> "accounts"]}

RefreshAccounts ==
  /\ refreshDue /\ refreshDue' = FALSE
  /\ Send(AccountsAsk) /\ page' = [page EXCEPT !.loadingAccounts = TRUE]
  /\ UNCHANGED <<serverSide, list, lookup, dialog, marketHistory, marketBounds>>

\* lockedOut: of another currency than the selected ones.
LockedOut(a) == a \notin page.selected /\ Cardinality(SelectedCurrencies(page)) = 1
                /\ page.accounts[a] \notin SelectedCurrencies(page)
\* selectAllSameCurrency: the selected currency, or that of the first account.
AllOfOneCurrency ==
  {{a \in DOMAIN page.accounts : page.accounts[a] = c} :
     c \in IF Cardinality(SelectedCurrencies(page)) = 1 THEN SelectedCurrencies(page)
           ELSE {page.accounts[a] : a \in DOMAIN page.accounts}}
SelectPayers ==
  /\ dialog = {} /\ Click /\ DOMAIN page.accounts # {}
  /\ \E chosen \in AllOfOneCurrency \cup {{}} \cup {page.selected \cup {a} : a \in {b \in DOMAIN page.accounts : ~LockedOut(b)}} :
       chosen # page.selected /\ page' = [page EXCEPT !.selected = chosen]
  /\ UNCHANGED <<serverSide, list, lookup, dialog, asks, refreshDue, marketHistory>>

\* onSearch: what was searched before is void; the timer is set anew.
OnSearch ==
  /\ dialog = {} /\ Click
  /\ \E q \in (Wares \cup {NoWare}) \ {lookup.query} :
       lookup' = [lookup EXCEPT !.query = q, !.seq = @ + 1, !.loading = q # NoWare, !.timer = q # NoWare,
                                !.found = IF q = NoWare THEN NoWare ELSE @]
  /\ UNCHANGED <<serverSide, page, list, dialog, asks, refreshDue, marketHistory>>
SearchTimer ==
  /\ lookup.timer /\ lookup' = [lookup EXCEPT !.timer = FALSE]
  /\ Send({[kind |-> "search", ware |-> lookup.query, seq |-> lookup.seq]})
  /\ UNCHANGED <<serverSide, page, list, dialog, refreshDue, marketHistory, marketBounds>>

\* onPick and queryContext: the first selected account is asked with.
AskContext(p, a) == Send({[kind |-> "context", ware |-> p.item, payer |-> a]})
                    /\ page' = [p EXCEPT !.contextLoading = TRUE]
OnPick ==
  /\ dialog = {} /\ Click
  /\ \E w \in {lookup.found, NoWare} \ {page.item} :
       LET picked == [page EXCEPT !.item = w, !.context = NoContext] IN
       IF w # NoWare /\ SelectedOf(page) # {} THEN \E a \in SelectedOf(page) : AskContext(picked, a)
       ELSE page' = picked /\ UNCHANGED asks
  /\ UNCHANGED <<serverSide, list, lookup, dialog, refreshDue, marketHistory>>
QueryContext ==
  /\ dialog = {} /\ Click /\ page.item # NoWare /\ ~page.contextLoading
  /\ \E a \in SelectedOf(page) : AskContext(page, a)
  /\ UNCHANGED <<serverSide, list, lookup, dialog, refreshDue, marketHistory>>

\* canPlace, place: the dialog says what will be placed and in which currency.
Place ==
  /\ dialog = {} /\ Click /\ ~page.placing /\ page.item # NoWare
  /\ Cardinality(SelectedCurrencies(page)) = 1
  /\ dialog' = {[kind |-> "place", payers |-> SelectedOf(page), ware |-> page.item,
                 currencies |-> SelectedCurrencies(page)]}
  /\ UNCHANGED <<serverSide, page, list, lookup, asks, refreshDue, marketHistory>>
\* placeOrders: what the page holds by now.
PlaceOrders(d) ==
  /\ d.kind = "place" /\ page' = [page EXCEPT !.placing = TRUE]
  /\ Send({[kind |-> "place", payers |-> SelectedOf(page), ware |-> page.item, said |-> d]})
ConfirmCancel ==
  /\ dialog = {} /\ Click /\ \E o \in Shown : dialog' = {[kind |-> "cancel", id |-> o.id]}
  /\ UNCHANGED <<serverSide, page, list, lookup, asks, refreshDue, marketHistory>>
CancelOrder(d) == d.kind = "cancel" /\ Send({d}) /\ UNCHANGED page
OnDialog ==
  /\ \E d \in dialog : PlaceOrders(d) \/ CancelOrder(d) \/ UNCHANGED <<page, asks>>
  /\ dialog' = {}
  /\ UNCHANGED <<serverSide, list, lookup, refreshDue, marketHistory, marketBounds>>

\* syncOrders: the selected accounts, else those of the orders shown.
SyncOrders ==
  /\ dialog = {} /\ Click /\ ~list.syncing
  /\ LET targets == IF page.selected # {} THEN page.selected ELSE {o.payer : o \in Shown}
     IN  targets # {} /\ Send({[kind |-> "sync", payers |-> targets]})
  /\ list' = [list EXCEPT !.syncing = TRUE]
  /\ UNCHANGED <<serverSide, page, lookup, dialog, refreshDue, marketHistory>>

-----------------------------------------------------------------------------
(* The answers.                                                            *)

GotAccounts(r) ==
  /\ r.kind = "accounts"
  /\ page' = [page EXCEPT !.accounts = Is(r), !.selected = @ \cap DOMAIN Is(r), !.loadingAccounts = FALSE]
  /\ UNCHANGED <<list, lookup, marketHistory>>
\* Mutant: the answer is taken whatever was typed since.
GotSearchLate(r) == r.kind = "search" /\ lookup' = [lookup EXCEPT !.found = Is(r), !.loading = FALSE]
                    /\ UNCHANGED <<page, list, marketHistory>>
GotSearch(r) ==
  /\ r.kind = "search"
  /\ lookup' = IF r.seq = lookup.seq THEN [lookup EXCEPT !.found = Is(r), !.loading = FALSE] ELSE lookup
  /\ UNCHANGED <<page, list, marketHistory>>
GotContext(r) ==
  /\ r.kind = "context"
  /\ page' = [page EXCEPT !.contextLoading = FALSE, !.context = IF page.item = r.ware THEN Is(r) ELSE @]
  /\ UNCHANGED <<list, lookup, marketHistory>>
GotOrders(r) ==
  /\ r.kind = "orders" /\ list' = [list EXCEPT !.orders = Is(r).orders, !.at = Is(r).at]
  /\ page' = IF r.after = "place" THEN [page EXCEPT !.placing = FALSE] ELSE page
  /\ astray' = (astray \/ Is(r).at < list.at) /\ UNCHANGED <<lookup, ownAt>>
GotSync(r) ==
  /\ r.kind = "sync"
  /\ list' = [orders |-> Is(r).orders, at |-> Is(r).at, syncing |-> FALSE,
              visible |-> {o.id : o \in {p \in Is(r).orders : p.payer \in Is(r).synced}}]
  /\ astray' = (astray \/ Is(r).at < list.at) /\ ownAt' = Is(r).at /\ UNCHANGED <<page, lookup>>
Received(r) == GotAccounts(r) \/ GotSearch(r) \/ GotContext(r) \/ GotOrders(r) \/ GotSync(r)

\* Placed and cancelled: the list is read again before the page is free.
GotPlaced(r) == r.kind = "place" /\ list' = [list EXCEPT !.visible = Is(r).ids] /\ ownAt' = Is(r).at
GotCancelled(r) == r.kind = "cancel" /\ ownAt' = Is(r).at /\ UNCHANGED list
Reread(r) == {Sent([kind |-> "orders", after |-> r.kind])}

MarketAnswered ==
  /\ \E r \in asks :
       /\ r.phase = "back"
       /\ \/ Received(r) /\ asks' = asks \ {r}
          \/ (GotPlaced(r) \/ GotCancelled(r)) /\ asks' = (asks \ {r}) \cup Reread(r)
             /\ UNCHANGED <<page, lookup, astray>>
  /\ UNCHANGED <<serverSide, dialog, refreshDue, marketBounds>>

\* Refused, or lost on its way back: what was found is void; the rest stays.
AskFailed ==
  /\ \E r \in asks :
       /\ asks' = asks \ {r}
       /\ page' = [page EXCEPT !.loadingAccounts = @ /\ r.kind # "accounts",
                               !.contextLoading = @ /\ r.kind # "context",
                               !.context = IF r.kind = "context" /\ page.item = r.ware THEN NoContext ELSE @,
                               !.placing = @ /\ ~(r.kind = "place" \/ (r.kind = "orders" /\ r.after = "place"))]
       /\ lookup' = IF r.kind = "search" /\ r.seq = lookup.seq
                    THEN [lookup EXCEPT !.found = NoWare, !.loading = FALSE] ELSE lookup
       /\ list' = [list EXCEPT !.syncing = @ /\ r.kind # "sync"]
       /\ astray' = (astray \/ r.kind = "orders")
  /\ UNCHANGED <<serverSide, dialog, refreshDue, ownAt, marketBounds>>

-----------------------------------------------------------------------------
\* enterMarket: the accounts and the list are read.
MarketPageInit ==
  /\ wallet \in [Payers -> Currencies \cup {0}] /\ ledger = {} /\ filled = {} /\ ledgerAt = 1
  /\ page = [accounts |-> <<>>, selected |-> {}, loadingAccounts |-> TRUE, item |-> NoWare, context |-> NoContext,
             contextLoading |-> FALSE, placing |-> FALSE]
  /\ list = [orders |-> {}, at |-> 0, visible |-> {}, syncing |-> FALSE]
  /\ lookup = [query |-> NoWare, loading |-> FALSE, found |-> NoWare, seq |-> 0, timer |-> FALSE]
  /\ dialog = {} /\ refreshDue = FALSE /\ ownAt = 0 /\ astray = FALSE /\ events = 0 /\ clicks = 0
  /\ asks = {Sent([kind |-> "accounts"]), Sent([kind |-> "orders", after |-> "enter"])}

MarketPageNext ==
  \/ AttemptChanges \/ OrderFilled \/ MarketHandled \/ MarketAnswered \/ AskFailed
  \/ RefreshAccounts \/ SelectPayers \/ OnSearch \/ SearchTimer \/ OnPick \/ QueryContext
  \/ Place \/ ConfirmCancel \/ OnDialog \/ SyncOrders
MarketPageSpec == MarketPageInit /\ [][MarketPageNext]_marketPageVars

-----------------------------------------------------------------------------
\* What is found belongs to what is typed, prices to the item picked.
FindsWhatIsTyped == /\ ~lookup.loading => lookup.found \in {lookup.query, NoWare}
                    /\ page.context.ware \in {page.item, NoWare}

\* No account pays that was not confirmed, for nothing else, in no other currency
\* than the dialog named (it names none for a wallet that was not read), and one
\* batch has one currency.
PlacesWhatWasConfirmed ==
  \A r \in asks : r.kind = "place" =>
    /\ r.payers \subseteq r.said.payers /\ r.ware = r.said.ware
    /\ r.phase = "back" =>
         LET placed == {o \in ledger : o.id \in Is(r).ids} IN
         /\ Cardinality({o.currency : o \in placed}) <= 1
         /\ \A o \in placed : o.payer \in r.said.payers /\ r.said.currencies \subseteq {o.currency, 0}

\* What the page itself placed, cancelled or reconciled it shows, once its
\* reading is back, unless that was lost or overtaken.
OwnIsShown == ~AskedFor("orders") /\ ~astray => list.at >= ownAt

\* The market page: what is found, placed and shown is what was asked for.
MarketPageKept == FindsWhatIsTyped /\ PlacesWhatWasConfirmed /\ OwnIsShown

Things == Wares \cup {NoWare}
Wallets == UNION {[S -> Currencies \cup {0}] : S \in SUBSET Payers}
Ids == Nat \X Payers
Orders == [id : Ids, payer : Payers, ware : Things, currency : Nat]
PlaceDialogs == [kind : {"place"}, payers : SUBSET Payers, ware : Things, currencies : SUBSET Nat]
CancelDialogs == [kind : {"cancel"}, id : Ids]
Phases == {"there", "back"}
Contexts == [ware : Things, currency : Nat]
AccountsAsks == [kind : {"accounts"}, phase : Phases, answer : SUBSET Wallets]
OrdersAsks == [kind : {"orders"}, after : {"enter", "place", "cancel"}, phase : Phases, answer : SUBSET [orders : SUBSET Orders, at : Nat]]
SearchAsks == [kind : {"search"}, ware : Things, seq : Nat, phase : Phases, answer : SUBSET Things]
ContextAsks == [kind : {"context"}, ware : Things, payer : Payers, phase : Phases, answer : SUBSET Contexts]
PlaceAsks == [kind : {"place"}, payers : SUBSET Payers, ware : Things, said : PlaceDialogs, phase : Phases,
              answer : SUBSET [ids : SUBSET Ids, at : Nat]]
CancelAsks == [kind : {"cancel"}, id : Ids, phase : Phases, answer : SUBSET [at : Nat]]
SyncAsks == [kind : {"sync"}, payers : SUBSET Payers, phase : Phases,
             answer : SUBSET [orders : SUBSET Orders, at : Nat, synced : SUBSET Payers]]
Asks == AccountsAsks \cup OrdersAsks \cup SearchAsks \cup ContextAsks \cup PlaceAsks \cup CancelAsks \cup SyncAsks
Pages == [accounts : Wallets, selected : SUBSET Payers, loadingAccounts : BOOLEAN, item : Things, context : Contexts,
          contextLoading : BOOLEAN, placing : BOOLEAN]
MarketTyped ==
  /\ wallet \in Wallets /\ ledger \subseteq Orders /\ ledgerAt \in Nat /\ page \in Pages
  /\ list \in [orders : SUBSET Orders, at : Nat, visible : SUBSET Ids, syncing : BOOLEAN]
  /\ lookup \in [query : Things, loading : BOOLEAN, found : Things, seq : Nat, timer : BOOLEAN]
  /\ dialog \subseteq PlaceDialogs \cup CancelDialogs /\ asks \subseteq Asks /\ ownAt \in Nat /\ astray \in BOOLEAN

\* A currency that was read is the account's as long as it is there; so the dialog
\* names, for each account, its currency or that of a wallet not read.
KnownOf(accounts) == \A a \in DOMAIN accounts \cap DOMAIN wallet : accounts[a] # 0 => wallet[a] = accounts[a]
NamedOf(d) == \A a \in d.payers \cap DOMAIN wallet : d.currencies \subseteq {wallet[a], 0}

\* What the dialog asks to confirm is what the page holds, but for accounts gone.
DialogStands ==
  \A d \in dialog : d.kind = "place" => SelectedOf(page) \subseteq d.payers /\ page.item = d.ware /\ NamedOf(d)

\* Of a request: what was placed for it is of one currency, the one that was named,
\* and no later order has an id of them.
PlacedOf(r) == {o \in ledger : o.id \in Is(r).ids}
RequestStands(r) ==
  /\ r.phase = "back" => \E x \in r.answer : r.answer = {x}
  /\ r.kind = "accounts" /\ r.phase = "back" => KnownOf(Is(r))
  /\ r.kind = "search" =>
       /\ r.seq <= lookup.seq /\ (r.seq = lookup.seq => r.ware = lookup.query)
       /\ r.phase = "back" => Is(r) = r.ware
  /\ r.kind = "context" /\ r.phase = "back" => Is(r).ware = r.ware
  /\ r.kind \in {"orders", "place", "cancel", "sync"} /\ r.phase = "back" => Is(r).at <= ledgerAt
  /\ r.kind = "place" =>
       /\ r.payers \subseteq r.said.payers /\ r.ware = r.said.ware /\ NamedOf(r.said)
       /\ r.phase = "back" =>
            /\ \A id \in Is(r).ids : id[1] < ledgerAt
            /\ \A o, p \in PlacedOf(r) : o.currency = p.currency
            /\ \A o \in PlacedOf(r) : o.payer \in r.said.payers /\ r.said.currencies \subseteq {o.currency, 0}

\* The page has its own last reading, or one that has it is on its way.
OwnStands ==
  /\ ownAt <= ledgerAt
  /\ ~astray => list.at >= ownAt
                  \/ \E r \in asks : r.kind = "orders" /\ (r.phase = "back" => Is(r).at >= ownAt)

\* Inductive.
MarketInv ==
  /\ MarketTyped /\ FindsWhatIsTyped
  /\ page.selected \subseteq DOMAIN page.accounts /\ KnownOf(page.accounts)
  /\ \A o \in ledger : o.id[1] < ledgerAt
  /\ DialogStands /\ OwnStands /\ \A r \in asks : RequestStands(r)
=============================================================================
