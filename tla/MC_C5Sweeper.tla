---------------------------- MODULE MC_C5Sweeper ----------------------------
(***************************************************************************)
(* Small instances of C5Sweeper for TLC.                                   *)
(***************************************************************************)
EXTENDS C5Sweeper, SequencesExt

MCNoLimit == 100

Item(name, maxPrice, maxQty, maxSpend) ==
  [name |-> name, maxPrice |-> maxPrice, maxQty |-> maxQty, maxSpend |-> maxSpend]
Listing(id, name, price, amount) ==
  [id |-> id, name |-> name, price |-> price, amount |-> amount]
Setting(strategy, budget, perCycle, reserve) ==
  [strategy |-> strategy, tradeUrl |-> TRUE, maxTotalSpend |-> budget,
   maxBuyPerCycle |-> perCycle, minBalanceReserve |-> reserve]

\* Two listings of one item.
ListingsOne == {Listing(1, "case", 1, 1), Listing(2, "case", 2, 1)}
WatchOne == {<<Item("case", 2, 3, 0)>>}

\* Two listings at one price and a dearer one; the user may raise the cap of the
\* item.
ListingsThree == ListingsOne \cup {Listing(3, "case", 1, 1)}
WatchTwo == {<<Item("case", 2, 1, 0)>>, <<Item("case", 2, 2, 0)>>}

\* One listing, so that one order is filled and the other's outcome is open.
ListingsSingle == {Listing(1, "case", 1, 1)}
WatchPair == {<<Item("case", 1, 2, 0)>>}

\* The budget covers two orders at price 1, or one at price 2.
SetListing == {Setting("listing", 2, 2, 0)}

\* The reserve changes while orders are out.
SetReserve == {Setting("quick", 2, 2, 0), Setting("quick", 2, 2, 4)}
SetSingle == {Setting("quick", 2, 2, 0)}

\* Whatever the market offers and in whatever order it lists equal prices,
\* the loop of pickListings picks as many listings, at the same cost, as
\* PickListings says.  Two at one price, a stack, a gift and a dearer one.
Stock == {[id |-> 1, price |-> 0, amount |-> 1], [id |-> 2, price |-> 1, amount |-> 2],
          [id |-> 3, price |-> 2, amount |-> 1], [id |-> 4, price |-> 2, amount |-> 1],
          [id |-> 5, price |-> 3, amount |-> 1]}
SortedByPrice(ls) ==
  {s \in SetToSeqs(ls) : \A i, j \in DOMAIN s : i < j => s[i].price <= s[j].price}

ASSUME PickLoopAgrees ==
  \A found \in SUBSET Stock : \A sorted \in SortedByPrice(found) :
    \A skipIds \in SUBSET {l.id : l \in found}, maxPrice \in {2, 3},
       qty \in 0 .. 3, money \in -1 .. 6 :
      LET looped == PickLoop(sorted, maxPrice, qty, money, skipIds)
          picked == PickListings(found, maxPrice, qty, money, skipIds)
      IN  /\ Cardinality(looped) = Cardinality(picked)
          /\ PriceOf(looped) = PriceOf(picked)

OrderSymmetry == Permutations(Orders)
=============================================================================
