------------------------------- MODULE UuListing -------------------------------
(***************************************************************************)
(* Automatic sale on UU of the CS2 items of one account                    *)
(* (src/uu/listing.ts), the price engine it asks (src/uu/pricing.ts), the  *)
(* requests it makes (src/uu/client.ts), and the polling that drives it    *)
(* (src/uu/index.ts).                                                      *)
(*                                                                         *)
(* All items are of one kind; they differ in their wear.  The ranges of    *)
(* wear are numbered; the market is the set of prices asked in each.  A    *)
(* pass asks UU many times, and the market and the inventory move          *)
(* meanwhile.                                                              *)
(***************************************************************************)
EXTENDS Integers, FiniteSets, FiniteSetsExt

CONSTANTS
  Goods,       \* items of the account
  Wear,        \* the range of each
  Unworn,      \* those whose wear UU does not tell
  Allowed,     \* those that pass the white list and the black list
  Ranges,      \* number of ranges of wear
  Markets,     \* what the market may be: the prices asked in each range
  Threshold,   \* PRICE_THRESHOLD
  Caps,        \* values of maxPrice
  MaxMoves     \* bound of the model: moves of the market, items and user

\* Assumed of them.
ListingConstants ==
  /\ Ranges \in Nat \ {0} /\ Wear \in [Goods -> 1..Ranges] /\ {Threshold, MaxMoves} \subseteq Nat
  /\ Unworn \cup Allowed \subseteq Goods /\ Caps \subseteq Nat
  /\ \A m \in Markets : m \in [1..Ranges -> SUBSET (Nat \ {0})] /\ IsFiniteSet(UNION {m[r] : r \in 1..Ranges})

VARIABLES
  goods,       \* at UU: the price asked for each, 0 if it is not on sale, Gone
  market,
  cfg,         \* listConfig
  account,     \* token, listAuto, and whether the timer runs
  listPass,    \* the pass under way (state.listRunning)
  cache,       \* of its price engine: the price found for a span of ranges
  seen,        \* history: what the market was since the pass began
  moves        \* bound of the model

listingVars == <<goods, market, cfg, account, listPass, cache, seen, moves>>

Gone == -1
Nothing == 0
Idle == [phase |-> "idle", todo |-> {}, item |-> {}, to |-> 0, picks |-> {}]
Move == moves < MaxMoves /\ moves' = moves + 1

-----------------------------------------------------------------------------
(***************************************************************************)
(* The price engine.                                                       *)
(***************************************************************************)
Asked(m, from, to) == UNION {m[r] : r \in from..to}

\* The nth of the prices from below, or the last.
Nth(prices, n) == Min({p \in prices : Cardinality({q \in prices : q < p}) >= n - 1} \cup {Max(prices)})

\* Of dear goods the lowest price, or the second if the lowest is far below it;
\* of cheap goods the third.
computePrice(prices) ==
  IF prices = {} THEN Nothing
  ELSE IF Cardinality(prices) = 1 THEN Min(prices)
  ELSE IF Min(prices) > Threshold
       THEN IF Nth(prices, 2) * 100 < Min(prices) * 105 THEN Min(prices) ELSE Nth(prices, 2)
       ELSE Nth(prices, 3)

\* Past the last range, the span ends at it once more.
Span(item, to) == <<Wear[item], IF to > Ranges THEN Ranges ELSE to>>

Cached(span) == {c \in cache : c.span = span}

\* getMarketSalePrice: from the cache, or asked for.
Price(span) ==
  IF Cached(span) # {} THEN (CHOOSE c \in Cached(span) : TRUE).price
  ELSE computePrice(Asked(market, span[1], span[2]))

-----------------------------------------------------------------------------
(***************************************************************************)
(* A pass: the inventory, a price for each item, the sale; then what is on *)
(* sale, its new prices, the change.                                       *)
(***************************************************************************)
Kept == UNCHANGED <<market, cfg, account, moves>>

Run ==
  /\ listPass = Idle
  /\ listPass' = [Idle EXCEPT !.phase = "inventory"]
  /\ cache' = {} /\ seen' = {market}

ListScan ==
  /\ account.token /\ Move /\ Run
  /\ UNCHANGED <<goods, market, cfg, account>>

ListTick == account.timer /\ Run /\ Kept /\ UNCHANGED goods

\* Any of the requests may fail; the pass is over then.
PassFails ==
  /\ listPass.phase \notin {"idle", "price", "reprice"} /\ listPass' = Idle
  /\ Kept /\ UNCHANGED <<goods, cache, seen>>

Inventory730 == {g \in Goods : goods[g] = 0 /\ g \in Allowed}
SellList == {g \in Goods : goods[g] > 0 /\ g \in Allowed \ Unworn}

InventoryReply ==
  /\ listPass.phase = "inventory"
  /\ listPass' = [listPass EXCEPT !.phase = "price", !.todo = Inventory730]
  /\ Kept /\ UNCHANGED <<goods, cache, seen>>

\* Page by page; what is read when a page is refused is taken for all.
SellListReply ==
  /\ listPass.phase = "list"
  /\ \E read \in SUBSET SellList :
       listPass' = [listPass EXCEPT !.phase = "reprice", !.todo = read]
  /\ Kept /\ UNCHANGED <<goods, cache, seen>>

\* The next item; if nobody tells its wear, it is left out.
NextItem ==
  /\ listPass.item = {} /\ listPass.todo # {}
  /\ \E g \in listPass.todo :
       LET left == [listPass EXCEPT !.todo = @ \ {g}]
       IN listPass' \in {[left EXCEPT !.item = {g}, !.to = Wear[g]]}
                         \cup (IF g \in Unworn THEN {left} ELSE {})
  /\ Kept /\ UNCHANGED <<goods, cache, seen>>

\* Mutant: what is on sale already may get dearer than the cap.
TakenDearer(g, price) == listPass.phase = "reprice" \/ cfg.cap = 0 \/ price <= cfg.cap

Taken(g, price) == cfg.cap = 0 \/ price <= cfg.cap

Picked(g, price) ==
  IF Taken(g, price) /\ (listPass.phase = "price" \/ goods[g] # price)
  THEN [listPass EXCEPT !.item = {}, !.picks = @ \cup {[item |-> g, price |-> price]}]
  ELSE [listPass EXCEPT !.item = {}]

\* getAbradeRelatedPrice: without a price, the span grows by a range, to the
\* last, and once more; then the item is left out.
PriceReply ==
  /\ listPass.item # {}
  /\ LET g == CHOOSE i \in listPass.item : TRUE
         span == Span(g, listPass.to)
         price == Price(span)
     IN \/ /\ price # Nothing
           /\ listPass' = Picked(g, price)
           /\ cache' = {c \in cache : c.span # span} \cup {[span |-> span, price |-> price]}
        \/ /\ price = Nothing
           /\ listPass' = IF listPass.to > Ranges THEN [listPass EXCEPT !.item = {}]
                          ELSE [listPass EXCEPT !.to = @ + 1]
           /\ UNCHANGED cache
        \/ /\ Cached(span) = {}    \* the request fails
           /\ listPass' = [listPass EXCEPT !.item = {}] /\ UNCHANGED cache
  /\ Kept /\ UNCHANGED <<goods, seen>>

\* A price is cached for five minutes.
CacheExpires ==
  /\ listPass # Idle /\ \E c \in cache : cache' = cache \ {c}
  /\ Kept /\ UNCHANGED <<goods, listPass, seen>>

\* sellItems and changeSalePrice: in batches, so that of what can be sold or
\* changed any part may be when one fails; the answer may be lost too.
Batches(S) == {[g \in Goods |-> IF \E p \in T : p.item = g
                                THEN (CHOOSE p \in T : p.item = g).price ELSE goods[g]] : T \in SUBSET S}

PricedAll == listPass.item = {} /\ listPass.todo = {}
Sendable(on) == {p \in listPass.picks : IF on THEN goods[p.item] > 0 ELSE goods[p.item] = 0}

SellItems ==
  /\ listPass.phase = "price" /\ PricedAll
  /\ IF cfg.dry THEN UNCHANGED goods ELSE goods' \in Batches(Sendable(FALSE))
  /\ \/ listPass' = IF cfg.reprice THEN [Idle EXCEPT !.phase = "list"] ELSE Idle
     \/ listPass.picks # {} /\ ~cfg.dry /\ listPass' = Idle
  /\ Kept /\ UNCHANGED <<cache, seen>>

ChangeSalePrice ==
  /\ listPass.phase = "reprice" /\ PricedAll
  /\ IF cfg.dry THEN UNCHANGED goods ELSE goods' \in Batches(Sendable(TRUE))
  /\ listPass' = Idle
  /\ Kept /\ UNCHANGED <<cache, seen>>

-----------------------------------------------------------------------------
SetListAuto ==
  /\ Move /\ account.token
  /\ account' \in {[account EXCEPT !.auto = on, !.timer = on] : on \in BOOLEAN}
  /\ UNCHANGED <<goods, market, cfg, listPass, cache, seen>>

BindsToken ==
  /\ Move /\ account' = [account EXCEPT !.token = TRUE]
  /\ UNCHANGED <<goods, market, cfg, listPass, cache, seen>>

DeletesToken ==
  /\ Move /\ account.token
  /\ account' = [token |-> FALSE, auto |-> FALSE, timer |-> FALSE]
  /\ UNCHANGED <<goods, market, cfg, listPass, cache, seen>>

\* start: token and switch are on the disk.
ListingRestart ==
  /\ Move /\ listPass' = Idle /\ cache' = {}
  /\ account' = [account EXCEPT !.timer = account.token /\ account.auto]
  /\ UNCHANGED <<goods, market, cfg, seen>>

\* The market moves; an item is bought, or traded away.
MarketMoves ==
  /\ Move /\ market' \in Markets /\ seen' = seen \cup {market'}
  /\ UNCHANGED <<goods, cfg, account, listPass, cache>>

GoodsGo ==
  /\ Move /\ \E g \in Goods : goods[g] # Gone /\ goods' = [goods EXCEPT ![g] = Gone]
  /\ UNCHANGED <<market, cfg, account, listPass, cache, seen>>

ListingInit ==
  /\ goods = [g \in Goods |-> 0] /\ market \in Markets /\ seen = {market}
  /\ cfg \in [cap : Caps, dry : BOOLEAN, reprice : BOOLEAN]
  /\ account \in {[token |-> TRUE, auto |-> on, timer |-> on] : on \in BOOLEAN}
  /\ listPass = Idle /\ cache = {} /\ moves = 0

ListingNext ==
  \/ ListScan \/ ListTick \/ PassFails \/ InventoryReply \/ SellListReply \/ NextItem
  \/ PriceReply \/ CacheExpires \/ SellItems \/ ChangeSalePrice
  \/ SetListAuto \/ BindsToken \/ DeletesToken \/ ListingRestart \/ MarketMoves \/ GoodsGo

ListingSpec == ListingInit /\ [][ListingNext]_listingVars

-----------------------------------------------------------------------------
UuListingTypeOK ==
  /\ \A g \in Goods : goods[g] >= Gone
  /\ market \in Markets /\ market \in seen
  /\ listPass.item \cup listPass.todo \subseteq Goods

\* The price fits the market as it was during the pass: it is the one of the
\* narrowest span, from the item's own range up, in which anything was asked.
FairPrice(g, price) ==
  \E to \in Wear[g]..Ranges :
    /\ \E m \in seen : price = computePrice(Asked(m, Wear[g], to))
    /\ \A less \in Wear[g]..(to - 1) : \E m \in seen : Asked(m, Wear[g], less) = {}

\* Whatever is put on sale or gets another price is meant to be sold, within the
\* cap, not in a dry run, and at a fair price, while the market and the inventory
\* move, requests fail or are answered in part, and prices come from the cache.
OnTerms ==
  \A g \in Goods : goods'[g] \notin {goods[g], Gone} =>
    /\ g \in Allowed /\ ~cfg.dry /\ (cfg.cap = 0 \/ goods'[g] <= cfg.cap)
    /\ FairPrice(g, goods'[g])
SoldFairly == [][OnTerms]_listingVars

Pick == [item : Allowed, price : Nat \ {0}]
Passes == [phase : {"idle", "inventory", "price", "list", "reprice"}, todo : SUBSET Allowed, item : SUBSET Allowed,
           to : Nat, picks : SUBSET Pick]
Spanned == [span : (1..Ranges) \X (1..Ranges), price : Nat \ {0}]
ListingTyped ==
  /\ goods \in [Goods -> Nat \cup {Gone}] /\ seen \subseteq Markets /\ market \in seen
  /\ cfg \in [cap : Caps, dry : BOOLEAN, reprice : BOOLEAN]
  /\ listPass \in Passes /\ cache \subseteq Spanned

\* In no span from the item's range up to one before the end was anything asked.
NothingBelow(g, end) == \A less \in Wear[g]..end - 1 : \E m \in seen : Asked(m, Wear[g], less) = {}

\* Why the terms are kept: what the cache holds was asked since the pass began,
\* and so was what has been picked, at a price the cap allows; and of the item that
\* is looked for, nothing was asked in the spans that were tried.
PricesStand ==
  /\ \A c \in cache : \E m \in seen : c.price = computePrice(Asked(m, c.span[1], c.span[2]))
  /\ \A p \in listPass.picks : FairPrice(p.item, p.price) /\ (cfg.cap = 0 \/ p.price <= cfg.cap)
  /\ \A g \in listPass.item : /\ listPass.item = {g} /\ listPass.to \in Wear[g]..Ranges + 1
                              /\ NothingBelow(g, listPass.to)

\* Inductive.
ListingInv == ListingTyped /\ PricesStand
=============================================================================
