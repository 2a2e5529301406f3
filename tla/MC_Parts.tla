------------------------------- MODULE MC_Parts -------------------------------
(***************************************************************************)
(* The parts of the system whose safety alone is checked, for TLC: the     *)
(* pages of the browser, each with the services behind it; what only looks *)
(* up, reads or translates; the traffic that goes through the proxies; the *)
(* automatic sale on UU; and a Steam session with events that come late.   *)
(* They share nothing here, so a behaviour has one of them at work, and    *)
(* s1, s2, ... are the variables of that one.                              *)
(* The parts about which something is proved here come first, each with    *)
(* its lemmas; then the others, the specification of them all, its         *)
(* properties, and the theorems.                                           *)
(***************************************************************************)
EXTENDS Integers, FiniteSets, TLC, FiniteSetTheorems, SequenceTheorems, WellFoundedInduction, TLAPS

CONSTANTS
  h1, h2, t1, t2, a1, a2, w1, w2, None,
  Travellers, Ways, Anybody, Direct, NoWay, LogonLimit, MaxMoves, MaxHops, MaxStarts,        \* of ProxyTraffic
  Terminals, MaxPicks, ProbeCandidates, TerminalClicks,                                      \* of Terminal
  Players, GamePacks, GameLogins, GameAsks, GameTasks, GameSteps,                            \* of BuyGamePage
  SaleGoods, WearOf, Unworn, Allowed, Ranges, Markets, PriceThreshold, Caps, SaleMoves,      \* of UuListing
  UuUsers, UuHolders, UuSteamOf, MaxTokens, MaxWishes,                                       \* of UuTokens
  Buyers, ShopGames, ShopOrders, MaxFunds, ShopMoves,                                        \* of PurchasePage
  ConfHolders, ConfItems, ConfHolderOf, ConfDevices, ConfWaits, ConfAsks, ConfRefused,       \* of ConfirmationsPage
  MarketPayers, MarketWares, MarketCurrencies, MarketEvents, MarketClicks,                   \* of MarketPage
  PeopleListed, PeopleNews, PeopleCalls, PeopleCuts,                                         \* of AccountsPage
  RowsAtStart, RowAsks, RowVersions, RowCuts,                                                \* of ProxyPage
  C5Wares, C5Prices, C5Changes, C5Asks,                                                      \* of C5Page
  StockRows, StockThings, StockItems, StockVersions, StockChanges, StockTime,                \* of InventoryPage
  HasPassword, AutoGuard, RateLimited, LoginRetryMax, ReconnectMax, LateEvents, MaxTimers    \* of SteamSession

VARIABLES atWork, s1, s2, s3, s4, s5, s6, s7, s8, s9, s10, s11, s12, s13, s14, s15, s16

\* The accounts of the market and of the proxies are alike, and so are the wares
\* and the proxies.
Symmetry == Permutations({a1, a2}) \cup Permutations({w1, w2})

\* Two items of one name, one of them from the game coordinator and cooling, and
\* one that is locked.
Thing(id, name, kind, tag, rarity, after, marked, wear) ==
  [id |-> id, name |-> name, kind |-> kind, tag |-> tag, painted |-> name = 1, rarity |-> rarity,
   after |-> after, marked |-> marked, wear |-> wear]
MCThings == {Thing(1, 1, "weapon_skin", "", 3, 1, FALSE, 1), Thing(2, 1, "", "CSGO_Type_Pistol", 3, 0, TRUE, 9),
             Thing(3, 2, "", "CSGO_Type_WeaponCase", 1, 0, FALSE, 9)}

\* Two UU users of one Steam account.
MCSteamOf == <<h1, h1>>
\* A confirmation of each of two accounts, and their two device IDs.
MCHolderOf == <<h1, h2>>
MCDevices == <<1, 2>>
\* For the sale: an item of each range of wear, and what may be asked in the two.
MCWear == (t1 :> 1) @@ (t2 :> 2)
MCMarkets == {<<{}, {2, 3, 5}>>, <<{20, 21}, {}>>, <<{11}, {12}>>}

-----------------------------------------------------------------------------
(* Numbers: that each set of them has a least one gives induction, as a     *)
(* statement about sets, and recursion, as one about functions; with them,  *)
(* what the recursive functions of the model compute can be proved.         *)

Below == {p \in Nat \X Nat : p[1] < p[2]}

\* A set of numbers has a least one.
LEMMA LeastOfSet == ASSUME NEW T, T \subseteq Nat, T # {} PROVE \E x \in T : \A y \in T : x <= y
<1>1. IsWellFoundedOn(Below, Nat)
  BY NatLessThanWellFounded DEF OpToRel, Below
<1>2. PICK x \in T : \A y \in T : ~(<<y, x>> \in Below)
  BY <1>1, WFMin
<1>3. ASSUME NEW y \in T PROVE x <= y
  <2>1. x \in Nat /\ y \in Nat
    OBVIOUS
  <2>2. <<y, x>> \in Nat \X Nat /\ ~(<<y, x>>[1] < <<y, x>>[2])
    BY <1>2, <2>1 DEF Below
  <2> QED BY <2>1, <2>2
<1> QED BY <1>3

\* Induction: a set that holds 0 and the next of each of its numbers holds all.
LEMMA AllNumbers == ASSUME NEW T, T \subseteq Nat, 0 \in T, \A n \in T : n + 1 \in T PROVE \A n \in Nat : n \in T
<1> SUFFICES ASSUME Nat \ T # {} PROVE FALSE
  OBVIOUS
<1>1. PICK x \in Nat \ T : \A y \in Nat \ T : x <= y
  BY LeastOfSet
<1>2. x # 0 /\ x - 1 \in Nat /\ x - 1 \in T
  BY <1>1
<1> QED BY <1>1, <1>2

\* Recursion: a first value and a step make a function of 0..n.
Recurs(first, Step, n, f) == f[0] = first /\ \A i \in 1..n : f[i] = Step[<<i, f[i - 1]>>]
LEMMA Recursion ==
  ASSUME NEW S, NEW first \in S, NEW Step \in [Nat \X S -> S], NEW n \in Nat
  PROVE  \E f \in [0..n -> S] : Recurs(first, Step, n, f)
<1> USE DEF Recurs
<1> DEFINE Done(f, k) == f[0] = first /\ \A i \in 1..k : f[i] = Step[<<i, f[i - 1]>>]
           T == {k \in Nat : \E f \in [0..k -> S] : Done(f, k)}
<1>1. 0 \in T
  <2>1. [i \in 0..0 |-> first] \in [0..0 -> S] /\ Done([i \in 0..0 |-> first], 0)
    OBVIOUS
  <2> QED BY <2>1
<1>2. ASSUME NEW k \in T PROVE k + 1 \in T
  <2>1. PICK f \in [0..k -> S] : Done(f, k)
    OBVIOUS
  <2> DEFINE last == Step[<<k + 1, f[k]>>]
             g == [i \in 0..k + 1 |-> IF i = k + 1 THEN last ELSE f[i]]
  <2>2. last \in S
    <3>1. <<k + 1, f[k]>> \in Nat \X S
      OBVIOUS
    <3> QED BY <3>1
  <2>3. g \in [0..k + 1 -> S]
    BY <2>2
  <2>4. /\ g[k + 1] = last /\ \A i \in 0..k : g[i] = f[i]
    OBVIOUS
  <2> HIDE DEF g
  <2>5. Done(g, k + 1)
    <3>1. g[0] = first
      BY <2>1, <2>4
    <3>2. ASSUME NEW i \in 1..k + 1 PROVE g[i] = Step[<<i, g[i - 1]>>]
      <4>1. CASE i = k + 1
        BY <2>4, <4>1
      <4>2. CASE i # k + 1
        <5>1. i \in 1..k /\ i \in 0..k /\ i - 1 \in 0..k
          BY <4>2
        <5> QED BY <2>1, <2>4, <5>1
      <4> QED BY <4>1, <4>2
    <3> QED BY <3>1, <3>2
  <2> QED BY <2>3, <2>5
<1> HIDE DEF T
<1>3. n \in T
  <2>1. T \subseteq Nat
    BY DEF T
  <2> QED BY <1>1, <1>2, <2>1, AllNumbers
<1> QED BY <1>3 DEF T

\* A finite set of numbers has a greatest one.
LEMMA GreatestOfSet == ASSUME NEW S \in SUBSET Nat, IsFiniteSet(S), S # {} PROVE \E x \in S : \A y \in S : x >= y
<1> DEFINE Has(U) == \E x \in U : \A y \in U : x >= y
           T == {n \in Nat : \A U \in SUBSET Nat : IsFiniteSet(U) /\ U # {} /\ Cardinality(U) = n => Has(U)}
<1>1. 0 \in T
  BY FS_EmptySet
<1>2. ASSUME NEW n \in T PROVE n + 1 \in T
  <2>1. ASSUME NEW U \in SUBSET Nat, IsFiniteSet(U), NEW a \in U, Cardinality(U) = n + 1 PROVE Has(U)
    <3>0. n \in Nat
      OBVIOUS
    <3>a. IsFiniteSet(U \ {a}) /\ Cardinality(U \ {a}) = Cardinality(U) - 1
      BY <2>1, FS_RemoveElement
    <3>1. IsFiniteSet(U \ {a}) /\ Cardinality(U \ {a}) = n
      <4> HIDE DEF T
      <4> QED BY <2>1, <3>0, <3>a
    <3>2. CASE U \ {a} = {}
      BY <3>2
    <3>3. CASE U \ {a} # {}
      <4>1. PICK b \in U \ {a} : \A y \in U \ {a} : b >= y
        BY <3>1, <3>3
      <4>2. CASE a >= b
        <5>1. \A y \in U : a >= y
          BY <4>1, <4>2
        <5> QED BY <5>1
      <4>3. CASE ~(a >= b)
        <5>1. b >= a
          BY <4>3
        <5>2. \A y \in U : b >= y
          BY <4>1, <5>1
        <5> QED BY <5>2
      <4> QED BY <4>2, <4>3
    <3> QED BY <3>2, <3>3
  <2> HIDE DEF Has
  <2>2. n + 1 \in Nat
    OBVIOUS
  <2>3. ASSUME NEW U \in SUBSET Nat, IsFiniteSet(U), U # {}, Cardinality(U) = n + 1 PROVE Has(U)
    BY <2>1, <2>3
  <2> QED BY <2>2, <2>3
<1>3. T \subseteq Nat
  OBVIOUS
<1>4. Cardinality(S) \in T
  <2> HIDE DEF T
  <2> QED BY <1>1, <1>2, <1>3, AllNumbers, FS_CardinalityType
<1> QED BY <1>4

-----------------------------------------------------------------------------
(* The page of the C5 sweeper.                                              *)
C5 == INSTANCE C5Page WITH
  Goods <- C5Wares, Prices <- C5Prices, MaxChanges <- C5Changes, MaxAsks <- C5Asks,
  server <- s1, shown <- s2, drafts <- s3, saved <- s4, savingList <- s5, loading <- s6, dialog <- s7,
  picking <- s8, paste <- s9, asks <- s10, edits <- s11, swallowed <- s12, astray <- s13, mistold <- s14,
  changes <- s15, called <- s16
ASSUME C5Assumed == C5!C5PageConstants

LEMMA AnyList == ASSUME NEW gs \in SUBSET C5Wares, NEW l \in [gs -> C5Prices] PROVE l \in C5!Lists
  BY DEF C5!Lists

LEMMA ListsAre == ASSUME NEW l \in C5!Lists PROVE DOMAIN l \subseteq C5Wares /\ \A g \in DOMAIN l : l[g] \in C5Prices
<1>1. PICK gs \in SUBSET C5Wares : l \in [gs -> C5Prices]
  BY DEF C5!Lists
<1> QED BY <1>1

LEMMA NoListAtAll == << >> \in C5!Lists /\ DOMAIN << >> = {}
<1>1. << >> \in [{} -> C5Prices] /\ DOMAIN << >> = {}
  OBVIOUS
<1> QED BY <1>1, AnyList

LEMMA WithIsList ==
  ASSUME NEW l \in C5!Lists, NEW g \in C5Wares, NEW p \in C5Prices
  PROVE  C5!With(l, g, p) \in C5!Lists
<1>1. C5!With(l, g, p) \in [DOMAIN l \cup {g} -> C5Prices] /\ DOMAIN l \cup {g} \subseteq C5Wares
  BY ListsAre DEF C5!With
<1> QED BY <1>1, AnyList

\* A request as it leaves the page.
LEMMA C5Leaves ==
  ASSUME C5!C5Typed, NEW kind \in {"state", "save", "run", "receiver", "url"}
  PROVE  /\ C5!Request(kind) \in C5!Requests /\ C5!Request(kind).kind = kind /\ C5!Request(kind).phase = "there"
         /\ C5!Request(kind).state = s1 /\ C5!Request(kind).no = s16 + 1 /\ C5!Request(kind).run = "none"
<1>1. s1 \in C5!States /\ s16 + 1 \in Nat /\ <<>> \in C5!Lists /\ "none" \in C5!Anyone
  BY NoListAtAll DEF C5!C5Typed, C5!Anyone
<1> HIDE DEF C5!C5Typed
<1>2. C5!Request(kind) = [kind |-> kind, items |-> <<>>, run |-> "none", said |-> <<>>, receiver |-> "none", phase |-> "there",
                       state |-> s1, no |-> s16 + 1]
  BY DEF C5!Request
<1> DEFINE e == <<>>
           c == s16 + 1
<1>3. e \in C5!Lists /\ c \in Nat
  BY <1>1
<1>4. C5!Request(kind) = [kind |-> kind, items |-> e, run |-> "none", said |-> e, receiver |-> "none", phase |-> "there",
                       state |-> s1, no |-> c]
  BY <1>2
<1> HIDE DEF e, c
<1>5. C5!Request(kind) \in C5!Requests
  BY <1>1, <1>3, <1>4 DEF C5!Requests
<1> QED BY <1>2, <1>5

LEMMA C5Starts == C5!C5PageInit => C5!C5Inv
<1> SUFFICES ASSUME C5!C5PageInit PROVE C5!C5Inv
  OBVIOUS
<1>1. PICK items \in {<<>>} \cup [C5Wares -> C5Prices] : s1.items = items
  BY DEF C5!C5PageInit
<1>2. s1.items \in C5!Lists
  BY <1>1, NoListAtAll, AnyList
<1>3. s1 \in C5!States /\ s1.n = 0
  <2>1. /\ s1 \in [items : {s1.items}, run : {"stopped", "sweeping"}, receiver : {"none", C5!Linked}, n : {0}]
        /\ {"none", C5!Linked} \subseteq C5!Anyone
    BY DEF C5!C5PageInit, C5!Linked, C5!Receivers, C5!Anyone
  <2> QED BY <1>2, <2>1 DEF C5!States
<1>4. DOMAIN s1.items \subseteq C5Wares
  BY <1>2, ListsAre
<1>5. C5!C5Typed
  <2>1. ~C5!Dirty
    BY DEF C5!C5PageInit, C5!Dirty, C5!DirtyIn
  <2>2. /\ s2 = s1 /\ s3 \in C5!Lists /\ s4 \subseteq C5Wares /\ s7 = {} /\ s10 = {} /\ s16 = 0
        /\ s8 = "none" /\ s9 = "none" /\ s11 = <<>> /\ "none" \in C5!Anyone
    BY <1>2, <1>4 DEF C5!C5PageInit, C5!Anyone
  <2> QED BY <1>3, <2>2 DEF C5!C5Typed
<1>6. C5!InOrder
  BY DEF C5!C5PageInit, C5!InOrder, C5!ItemsFollow, C5!ReceiverFollows, C5!OneEach, C5!ConfirmedStands
<1> QED BY <1>5, <1>6, NoListAtAll DEF C5!C5Inv, C5!C5PageInit, C5!EditsStand

-----------------------------------------------------------------------------
(* The draft.                                                              *)

\* What is in order does not depend on the draft.
LEMMA DraftAside ==
  ASSUME C5!C5Inv, UNCHANGED <<s1, s2, s10, s7, s5, s8, s9, s16, s13, s14>>,
         s3' \in C5!Lists, s4' \subseteq C5Wares, C5!EditsStand', C5!Dirty' \/ s11' = <<>>
  PROVE  C5!C5Inv'
<1>1. C5!C5Typed'
  BY DEF C5!C5Inv, C5!C5Typed
<1>2. C5!InOrder => C5!InOrder'
  BY DEF C5!InOrder, C5!ItemsFollow, C5!ReceiverFollows, C5!OneEach, C5!ConfirmedStands, C5!AnswerStands, C5!IsBack
<1> QED BY <1>1, <1>2 DEF C5!C5Inv

LEMMA C5EditKeeps ==
  ASSUME C5!C5Inv, NEW g \in C5Wares, NEW p \in C5Prices, s3' = C5!With(s3, g, p), s4' = s4,
         s11' = IF C5!Dirty' THEN C5!With(s11, g, p) ELSE <<>>
  PROVE  s3' \in C5!Lists /\ s4' \subseteq C5Wares /\ C5!EditsStand' /\ (C5!Dirty' \/ s11' = <<>>)
<1>1. s3' \in C5!Lists /\ s4' \subseteq C5Wares
  BY WithIsList DEF C5!C5Inv, C5!C5Typed
<1>2. p # 0
  BY C5Assumed DEF C5!C5PageConstants
<1>3. C5!EditsStand'
  <2>1. CASE C5!Dirty'
    <3>1. s11' = C5!With(s11, g, p)
      BY <2>1
    <3>2. ASSUME NEW h \in DOMAIN s11' PROVE IF s11'[h] = 0 THEN h \notin DOMAIN s3' ELSE h \in DOMAIN s3' /\ s3'[h] = s11'[h]
      <4>1. CASE h = g
        BY <1>2, <3>1, <4>1 DEF C5!With
      <4>2. CASE h # g
        <5>1. h \in DOMAIN s11 /\ s11'[h] = s11[h]
          BY <3>1, <3>2, <4>2 DEF C5!With
        <5>2. (h \in DOMAIN s3' <=> h \in DOMAIN s3) /\ (h \in DOMAIN s3 => s3'[h] = s3[h])
          BY <4>2 DEF C5!With
        <5> QED BY <5>1, <5>2 DEF C5!C5Inv, C5!EditsStand
      <4> QED BY <4>1, <4>2
    <3> QED BY <3>2 DEF C5!EditsStand
  <2>2. CASE ~C5!Dirty'
    BY <2>2, NoListAtAll DEF C5!EditsStand
  <2> QED BY <2>1, <2>2
<1> QED BY <1>1, <1>3

LEMMA C5DraftSteps == ASSUME C5!C5Inv, C5!EditRow \/ C5!AddDraft \/ C5!RemoveDraft \/ C5!DiscardDrafts PROVE C5!C5Inv'
<1>0. /\ DOMAIN s3 \subseteq C5Wares /\ s3 \in C5!Lists /\ s4 \subseteq C5Wares /\ s2.items \in C5!Lists
      /\ \A d, s : C5!DirtyIn(d, s, s2) <=> (d # s2.items \/ s # DOMAIN s2.items)
  BY ListsAre DEF C5!C5Inv, C5!C5Typed, C5!States, C5!DirtyIn
<1>1. CASE C5!EditRow
  <2>1. UNCHANGED <<s1, s2, s10, s7, s5, s8, s9, s16, s13, s14, s4>>
    BY <1>1 DEF C5!EditRow, C5!Change
  <2>2. PICK g \in DOMAIN s3, p \in C5Prices : s3' = [s3 EXCEPT ![g] = p] /\ C5!Edited(s3', s4, C5!With(s11, g, p))
    BY <1>1 DEF C5!EditRow
  <2>3. s3' = C5!With(s3, g, p)
    <3>1. s3 \in [DOMAIN s3 -> C5Prices]
      BY <1>0, ListsAre DEF C5!Lists
    <3>2. DOMAIN s3 \cup {g} = DOMAIN s3
      OBVIOUS
    <3> QED BY <2>2, <3>1, <3>2 DEF C5!With
  <2>4. s11' = IF C5!Dirty' THEN C5!With(s11, g, p) ELSE <<>>
    BY <2>1, <2>2 DEF C5!Edited, C5!Dirty, C5!DirtyIn
  <2>5. s3' \in C5!Lists /\ s4' \subseteq C5Wares /\ C5!EditsStand' /\ (C5!Dirty' \/ s11' = <<>>)
    BY <1>0, <2>1, <2>3, <2>4, C5EditKeeps
  <2> QED BY <2>1, <2>5, DraftAside
<1>2. CASE C5!AddDraft
  <2>1. UNCHANGED <<s1, s2, s10, s7, s5, s8, s9, s16, s13, s14, s4>>
    BY <1>2 DEF C5!AddDraft, C5!Change
  <2>2. PICK g \in C5Wares \ DOMAIN s3, p \in C5Prices : s3' = C5!With(s3, g, p) /\ C5!Edited(s3', s4, C5!With(s11, g, p))
    BY <1>2 DEF C5!AddDraft
  <2>4. s11' = IF C5!Dirty' THEN C5!With(s11, g, p) ELSE <<>>
    BY <2>1, <2>2 DEF C5!Edited, C5!Dirty, C5!DirtyIn
  <2>5. s3' \in C5!Lists /\ s4' \subseteq C5Wares /\ C5!EditsStand' /\ (C5!Dirty' \/ s11' = <<>>)
    BY <2>1, <2>2, <2>4, C5EditKeeps
  <2> QED BY <2>1, <2>5, DraftAside
<1>3. CASE C5!RemoveDraft
  <2>1. UNCHANGED <<s1, s2, s10, s7, s5, s8, s9, s16, s13, s14>>
    BY <1>3 DEF C5!RemoveDraft, C5!Change
  <2>2. PICK g \in DOMAIN s3 : /\ s3' = [h \in DOMAIN s3 \ {g} |-> s3[h]] /\ s4' = s4 \ {g}
                               /\ C5!Edited(s3', s4', C5!With(s11, g, 0))
    BY <1>3 DEF C5!RemoveDraft
  <2>3. s3' \in C5!Lists
    <3>1. s3' \in [DOMAIN s3 \ {g} -> C5Prices] /\ DOMAIN s3 \ {g} \subseteq C5Wares
      BY <1>0, <2>2, ListsAre
    <3> QED BY <3>1, AnyList
  <2>4. s11' = IF C5!Dirty' THEN C5!With(s11, g, 0) ELSE <<>>
    BY <2>1, <2>2 DEF C5!Edited, C5!Dirty, C5!DirtyIn
  <2>5. C5!EditsStand'
    <3>1. CASE C5!Dirty'
      <4>1. s11' = C5!With(s11, g, 0)
        BY <2>4, <3>1
      <4>2. ASSUME NEW h \in DOMAIN s11' PROVE IF s11'[h] = 0 THEN h \notin DOMAIN s3' ELSE h \in DOMAIN s3' /\ s3'[h] = s11'[h]
        <5>1. CASE h = g
          BY <2>2, <4>1, <5>1 DEF C5!With
        <5>2. CASE h # g
          <6>1. h \in DOMAIN s11 /\ s11'[h] = s11[h]
            BY <4>1, <4>2, <5>2 DEF C5!With
          <6>2. (h \in DOMAIN s3' <=> h \in DOMAIN s3) /\ (h \in DOMAIN s3 => s3'[h] = s3[h])
            BY <2>2, <5>2
          <6> QED BY <6>1, <6>2 DEF C5!C5Inv, C5!EditsStand
        <5> QED BY <5>1, <5>2
      <4> QED BY <4>2 DEF C5!EditsStand
    <3>2. CASE ~C5!Dirty'
      BY <2>4, <3>2, NoListAtAll DEF C5!EditsStand
    <3> QED BY <3>1, <3>2
  <2>6. C5!Dirty' \/ s11' = <<>>
    BY <2>4
  <2> QED BY <1>0, <2>1, <2>2, <2>3, <2>5, <2>6, DraftAside
<1>4. CASE C5!DiscardDrafts
  <2>1. UNCHANGED <<s1, s2, s10, s7, s5, s8, s9, s16, s13, s14>>
    BY <1>4 DEF C5!DiscardDrafts
  <2>2. s3' = s2.items /\ s4' = DOMAIN s2.items /\ s11' = <<>>
    BY <1>4 DEF C5!DiscardDrafts, C5!Follow
  <2>3. s3' \in C5!Lists /\ s4' \subseteq C5Wares
    BY <1>0, <2>2, ListsAre
  <2>4. C5!EditsStand'
    BY <2>2, NoListAtAll DEF C5!EditsStand
  <2> QED BY <2>1, <2>2, <2>3, <2>4, DraftAside
<1> QED BY <1>1, <1>2, <1>3, <1>4

-----------------------------------------------------------------------------
(* What the page asks for.                                                 *)

LEMMA AsksInOrder ==
  ASSUME C5!C5Inv, NEW r \in C5!Requests, r.phase = "there", r.no = s16 + 1, r.state = s1, C5!Ask(r),
         UNCHANGED <<s1, s2, s3, s4, s11, s14, s13>>, s7' \subseteq s7,
         s5 => s5', s8 # "none" => s8' # "none", s8' \in C5!Anyone, s9' \in C5!Anyone,
         r.kind = "save" => ~s5 /\ s5' /\ s7 = {},
         r.kind \in {"url", "receiver"} => s8 = "none" /\ s8' # "none",
         r.kind = "run" /\ r.run = "sweeping" => r.said \in s7
  PROVE  C5!C5Inv'
<1>1. s10' = s10 \cup {r} /\ s16' = s16 + 1 /\ s16 \in Nat /\ \A q \in s10 : q.no <= s16 /\ q.no \in Nat
  <2>1. \A q \in s10 : q.no \in Nat
    BY DEF C5!C5Inv, C5!C5Typed, C5!Requests
  <2> QED BY <2>1 DEF C5!Ask, C5!C5Inv, C5!C5Typed
<1>2. \A q \in s10' : q.no <= s16' /\ q.state.n <= s1'.n
  <2>1. \A q \in s10 : q.no <= s16 + 1
    BY <1>1
  <2>2. r.no <= s16 + 1
    BY <1>1
  <2>3. \A q \in s10' : q.state.n <= s1'.n
    BY <1>1 DEF C5!C5Inv, C5!C5Typed, C5!States
  <2> QED BY <1>1, <2>1, <2>2, <2>3
<1>3. C5!C5Typed'
  <2>1. C5!Dirty' <=> C5!Dirty
    BY DEF C5!Dirty
  <2> QED BY <1>1, <1>2, <2>1 DEF C5!C5Inv, C5!C5Typed
<1>4. C5!EditsStand'
  BY DEF C5!C5Inv, C5!EditsStand
<1>5. ASSUME C5!InOrder PROVE C5!InOrder'
  <2>1. \A x : (C5!ItemsFollow(x) => C5!ItemsFollow(x)') /\ (C5!ReceiverFollows(x) => C5!ReceiverFollows(x)')
    BY <1>1 DEF C5!ItemsFollow, C5!ReceiverFollows
  <2>2. C5!OneEach'
    BY <1>1, <1>5 DEF C5!InOrder, C5!OneEach
  <2>3. C5!ConfirmedStands'
    <3>1. s7' \subseteq {s1'.items}
      BY <1>5 DEF C5!InOrder, C5!ConfirmedStands
    <3>2. ASSUME NEW q \in s10', q.kind = "run", q.phase = "there", q.run = "sweeping"
          PROVE  q.said = s1.items /\ \A s \in s10' : s.kind = "save" /\ s.phase = "there" => q.no < s.no
      <4>1. CASE q = r
        <5>1. q.said = s1.items /\ s7 # {}
          BY <1>5, <3>2, <4>1 DEF C5!InOrder, C5!ConfirmedStands
        <5>2. \A s \in s10' : s.kind # "save"
          BY <1>1, <1>5, <3>2, <4>1, <5>1 DEF C5!InOrder, C5!OneEach
        <5> QED BY <5>1, <5>2
      <4>2. CASE q \in s10
        <5>1. q.said = s1.items /\ \A s \in s10 : s.kind = "save" /\ s.phase = "there" => q.no < s.no
          BY <1>5, <3>2, <4>2 DEF C5!InOrder, C5!ConfirmedStands
        <5>2. q.no < r.no
          <6>1. q.no \in Nat /\ q.no <= s16 /\ s16 \in Nat /\ r.no = s16 + 1
            BY <1>1, <4>2
          <6> QED BY <6>1
        <5> QED BY <1>1, <5>1, <5>2
      <4> QED BY <1>1, <4>1, <4>2
    <3> QED BY <3>1, <3>2 DEF C5!ConfirmedStands
  <2>4. ASSUME NEW q \in s10' PROVE C5!AnswerStands(q)'
    <3>1. CASE q = r
      BY <3>1 DEF C5!AnswerStands, C5!IsBack
    <3>2. CASE q \in s10
      BY <1>5, <2>1, <3>2 DEF C5!InOrder, C5!AnswerStands
    <3> QED BY <1>1, <3>1, <3>2
  <2> QED BY <1>5, <2>1, <2>2, <2>3, <2>4 DEF C5!InOrder
<1> QED BY <1>3, <1>4, <1>5 DEF C5!C5Inv

LEMMA C5AskSteps ==
  ASSUME C5!C5Inv, C5!Refresh \/ C5!SaveWatchlist \/ C5!Stop \/ C5!PickReceiver \/ C5!SavePasted
  PROVE  C5!C5Inv'
<1>0. C5!C5Typed /\ s8 \in C5!Anyone /\ s9 \in C5!Anyone /\ s3 \in C5!Lists
  BY DEF C5!C5Inv, C5!C5Typed
<1>1. CASE C5!Refresh
  <2> DEFINE r == C5!Request("state")
  <2>1. r \in C5!Requests /\ r.kind = "state" /\ r.phase = "there" /\ r.no = s16 + 1 /\ r.state = s1
    BY <1>0, C5Leaves
  <2>2. C5!Ask(r) /\ UNCHANGED <<s1, s2, s3, s4, s11, s14, s13, s7, s5, s8, s9>>
    BY <1>1 DEF C5!Refresh, C5!Quiet, C5!c5History
  <2> HIDE DEF r
  <2> QED BY <1>0, <2>1, <2>2, AsksInOrder
<1>2. CASE C5!SaveWatchlist
  <2> DEFINE r == [C5!Request("save") EXCEPT !.items = s3]
  <2>1. r \in C5!Requests /\ r.kind = "save" /\ r.phase = "there" /\ r.no = s16 + 1 /\ r.state = s1
    <3>1. C5!Request("save") \in C5!Requests /\ C5!Request("save").kind = "save" /\ C5!Request("save").phase = "there" /\ C5!Request("save").no = s16 + 1 /\ C5!Request("save").state = s1
      BY <1>0, C5Leaves
    <3> QED BY <1>0, <3>1 DEF C5!Requests
  <2>2. /\ C5!Ask(r) /\ UNCHANGED <<s1, s2, s3, s4, s11, s14, s13, s7, s8, s9>>
        /\ ~s5 /\ s5' /\ s7 = {}
    BY <1>2 DEF C5!SaveWatchlist, C5!Quiet, C5!c5History, C5!Modal
  <2> HIDE DEF r
  <2> QED BY <1>0, <2>1, <2>2, AsksInOrder
<1>3. CASE C5!Stop
  <2> DEFINE r == [C5!Request("run") EXCEPT !.run = "stopped"]
  <2>1. r \in C5!Requests /\ r.kind = "run" /\ r.phase = "there" /\ r.no = s16 + 1 /\ r.state = s1 /\ r.run = "stopped"
    <3>1. C5!Request("run") \in C5!Requests /\ C5!Request("run").kind = "run" /\ C5!Request("run").phase = "there" /\ C5!Request("run").no = s16 + 1 /\ C5!Request("run").state = s1
      BY <1>0, C5Leaves
    <3> QED BY <3>1 DEF C5!Requests
  <2>2. C5!Ask(r) /\ UNCHANGED <<s1, s2, s3, s4, s11, s14, s13, s7, s5, s8, s9>>
    BY <1>3 DEF C5!Stop, C5!Quiet, C5!c5History
  <2> HIDE DEF r
  <2> QED BY <1>0, <2>1, <2>2, AsksInOrder
<1>4. CASE C5!PickReceiver
  <2>1. PICK a \in C5!Receivers \ {s2.receiver} : s8' = a /\ C5!Ask([C5!Request("url") EXCEPT !.receiver = a])
    BY <1>4 DEF C5!PickReceiver
  <2> DEFINE r == [C5!Request("url") EXCEPT !.receiver = a]
  <2>2. r \in C5!Requests /\ r.kind = "url" /\ r.phase = "there" /\ r.no = s16 + 1 /\ r.state = s1
    <3>1. C5!Request("url") \in C5!Requests /\ C5!Request("url").kind = "url" /\ C5!Request("url").phase = "there" /\ C5!Request("url").no = s16 + 1 /\ C5!Request("url").state = s1
      BY <1>0, C5Leaves
    <3>2. a \in C5!Anyone
      BY DEF C5!Anyone
    <3> QED BY <3>1, <3>2 DEF C5!Requests
  <2>3. /\ UNCHANGED <<s1, s2, s3, s4, s11, s14, s13, s7, s5, s9>>
        /\ s8 = "none" /\ s8' # "none" /\ s8' \in C5!Anyone
    BY <1>4, <2>1 DEF C5!PickReceiver, C5!Quiet, C5!c5History, C5!Receivers, C5!Anyone
  <2> HIDE DEF r
  <2> QED BY <1>0, <2>1, <2>2, <2>3, AsksInOrder DEF r
<1>5. CASE C5!SavePasted
  <2> DEFINE r == [C5!Request("receiver") EXCEPT !.receiver = s9]
  <2>1. r \in C5!Requests /\ r.kind = "receiver" /\ r.phase = "there" /\ r.no = s16 + 1 /\ r.state = s1
    <3>1. /\ C5!Request("receiver") \in C5!Requests /\ C5!Request("receiver").kind = "receiver" /\ C5!Request("receiver").phase = "there"
          /\ C5!Request("receiver").no = s16 + 1 /\ C5!Request("receiver").state = s1
      BY <1>0, C5Leaves
    <3> QED BY <1>0, <3>1 DEF C5!Requests
  <2>2. /\ C5!Ask(r) /\ UNCHANGED <<s1, s2, s3, s4, s11, s14, s13, s7, s5, s9>>
        /\ s8 = "none" /\ s8' # "none" /\ s8' = s9
    BY <1>5 DEF C5!SavePasted, C5!Quiet, C5!c5History
  <2> HIDE DEF r
  <2> QED BY <1>0, <2>1, <2>2, AsksInOrder
<1> QED BY <1>1, <1>2, <1>3, <1>4, <1>5

-----------------------------------------------------------------------------
(* The server.                                                             *)

\* A request that has been handled.
LEMMA C5HandledKeeps ==
  ASSUME C5!C5Inv, NEW r \in s10, NEW t \in C5!Requests, t.kind = r.kind, t.no = r.no, t.state.n <= s1'.n, t.phase # "there",
         s10' = (s10 \ {r}) \cup {t}, s1' \in C5!States, s1'.n >= s1.n,
         UNCHANGED <<s2, s3, s4, s5, s7, s8, s9, s11, s16>>
  PROVE  C5!C5Typed' /\ C5!EditsStand' /\ (C5!InOrder => C5!OneEach')
<1>1. \A q \in s10' : q.no <= s16 /\ q.state.n <= s1'.n
  <2>1. \A q \in s10 : q.state.n <= s1'.n
    <3>1. \A q \in s10 : q.state.n \in Nat
      BY DEF C5!C5Inv, C5!C5Typed, C5!Requests, C5!States
    <3> QED BY <3>1 DEF C5!C5Inv, C5!C5Typed, C5!States
  <2> QED BY <2>1 DEF C5!C5Inv, C5!C5Typed
<1>2. s2.n <= s1'.n
  BY DEF C5!C5Inv, C5!C5Typed, C5!States
<1>3. C5!Dirty' <=> C5!Dirty
  BY DEF C5!Dirty
<1>4. C5!C5Typed'
  BY <1>1, <1>2, <1>3 DEF C5!C5Inv, C5!C5Typed
<1>5. C5!EditsStand'
  BY DEF C5!C5Inv, C5!EditsStand
<1>6. C5!InOrder => C5!OneEach'
  BY DEF C5!InOrder, C5!OneEach
<1> QED BY <1>4, <1>5, <1>6

\* What the page knew, and the answers on their way, follow a server that has
\* the same list; so with the receiver.
LEMMA ItemsStillFollow ==
  ASSUME NEW r \in s10, NEW t, r.phase # "back", s10' = (s10 \ {r}) \cup {t}, s1'.items = s1.items, s2' = s2,
         NEW x, C5!ItemsFollow(x)
  PROVE  x.items = s1'.items \/ x.n < s2'.n \/ \E s \in s10' : C5!IsBack(s, "save") /\ x.n < s.state.n
  BY DEF C5!ItemsFollow, C5!IsBack

LEMMA ReceiverStillFollows ==
  ASSUME NEW r \in s10, NEW t, r.phase # "back", s10' = (s10 \ {r}) \cup {t}, s1'.receiver = s1.receiver,
         s2' = s2, NEW x, C5!ReceiverFollows(x)
  PROVE  x.receiver = s1'.receiver \/ x.n < s2'.n \/ \E s \in s10' : C5!IsBack(s, "receiver") /\ x.n < s.state.n
  BY DEF C5!ReceiverFollows, C5!IsBack

\* A request that leaves the list and the receiver as they are.
LEMMA SameInOrder ==
  ASSUME C5!InOrder, C5!OneEach', NEW r \in s10, r.phase = "there", r.kind # "save", r.kind # "receiver", NEW t, t.kind = r.kind, t.phase # "there",
         t.kind = "url" \/ t.state = s1', s10' = (s10 \ {r}) \cup {t}, s1'.items = s1.items,
         s1'.receiver = s1.receiver, UNCHANGED <<s2, s7>>
  PROVE  C5!InOrder'
<1>1. C5!ItemsFollow(s2)' /\ C5!ReceiverFollows(s2)'
  BY ItemsStillFollow, ReceiverStillFollows DEF C5!InOrder, C5!ItemsFollow, C5!ReceiverFollows
<1>2. C5!ConfirmedStands'
  BY DEF C5!InOrder, C5!ConfirmedStands
<1>3. ASSUME NEW q \in s10' PROVE C5!AnswerStands(q)'
  <2>1. CASE q = t
    BY <2>1 DEF C5!AnswerStands, C5!ItemsFollow, C5!ReceiverFollows, C5!IsBack
  <2>2. CASE q \in s10
    <3>1. C5!AnswerStands(q)
      BY <2>2 DEF C5!InOrder
    <3>2. C5!ItemsFollow(q.state) => C5!ItemsFollow(q.state)'
      BY ItemsStillFollow DEF C5!ItemsFollow
    <3>3. C5!ReceiverFollows(q.state) => C5!ReceiverFollows(q.state)'
      BY ReceiverStillFollows DEF C5!ReceiverFollows
    <3> QED BY <3>1, <3>2, <3>3 DEF C5!AnswerStands
  <2> QED BY <2>1, <2>2
<1> QED BY <1>1, <1>2, <1>3 DEF C5!InOrder

LEMMA C5HandledSteps == ASSUME C5!C5Inv, C5!Handled PROVE C5!C5Inv'
<1>1. PICK r \in s10 :
        r.phase = "there" /\ (C5!HandleRead(r) \/ C5!HandleSave(r) \/ C5!HandleReceiver(r) \/ C5!HandleRun(r) \/ C5!HandleTradeUrl(r))
  BY DEF C5!Handled
<1>2. UNCHANGED <<s2, s3, s4, s5, s7, s8, s9, s11, s16>>
  BY DEF C5!Handled, C5!pageSide
<1>3. /\ r \in C5!Requests /\ s1 \in C5!States /\ s1.n \in Nat /\ s1.n + 1 \in Nat /\ r.state.n <= s1.n
      /\ \A q \in s10 : q \in C5!Requests /\ q.state.n <= s1.n /\ q.state.n \in Nat /\ q.no \in Nat
      /\ s2.n <= s1.n /\ s2.n \in Nat
  <2>1. s10 \subseteq C5!Requests /\ s1 \in C5!States /\ s2 \in C5!States /\ s2.n <= s1.n /\ \A q \in s10 : q.state.n <= s1.n
    BY DEF C5!C5Inv, C5!C5Typed
  <2>2. \A q \in C5!Requests : q.state.n \in Nat /\ q.no \in Nat
    BY DEF C5!Requests, C5!States
  <2>3. s1.n \in Nat /\ s2.n \in Nat
    BY <2>1 DEF C5!States
  <2> QED BY <2>1, <2>2, <2>3
<1> DEFINE t == [r EXCEPT !.phase = "back", !.state = s1']
\* What a handled request comes back as.
<1>4. ASSUME s1' \in C5!States
      PROVE  /\ t \in C5!Requests /\ t.kind = r.kind /\ t.no = r.no /\ t.phase = "back" /\ t.state = s1'
  BY <1>3, <1>4 DEF C5!Requests
<1> HIDE DEF t
<1>5. CASE C5!HandleRead(r)
  <2>1. s1' = s1 /\ UNCHANGED <<s13, s14>> /\ s10' = (s10 \ {r}) \cup {t} /\ r.kind = "state"
    BY <1>5 DEF C5!HandleRead, C5!Back, t
  <2>2. t \in C5!Requests /\ t.kind = r.kind /\ t.no = r.no /\ t.phase = "back" /\ t.state = s1'
    BY <1>3, <1>4, <2>1
  <2>3. s1'.n >= s1.n /\ t.state.n <= s1'.n
    BY <1>3, <2>1, <2>2
  <2>4. C5!C5Typed' /\ C5!EditsStand' /\ (C5!InOrder => C5!OneEach')
    BY <1>2, <1>3, <2>1, <2>2, <2>3, C5HandledKeeps
  <2>5. C5!InOrder => C5!InOrder'
    BY <1>1, <1>2, <2>1, <2>2, <2>4, SameInOrder
  <2> QED BY <2>1, <2>4, <2>5 DEF C5!C5Inv
<1>6. CASE C5!HandleRun(r)
  <2>1. /\ s1' = [s1 EXCEPT !.run = r.run, !.n = s1.n + 1] /\ s13' = s13 /\ s10' = (s10 \ {r}) \cup {t}
        /\ r.kind = "run" /\ s14' = (s14 \/ (r.run = "sweeping" /\ r.said # s1.items /\ ~s13))
    BY <1>6 DEF C5!HandleRun, C5!Becomes, C5!Back, t
  <2>2. /\ s1' \in C5!States /\ s1'.n = s1.n + 1
        /\ s1'.items = s1.items /\ s1'.receiver = s1.receiver
    BY <1>3, <2>1 DEF C5!States, C5!Requests
  <2>3. t \in C5!Requests /\ t.kind = r.kind /\ t.no = r.no /\ t.phase = "back" /\ t.state = s1'
    BY <1>4, <2>2
  <2>4. s1'.n >= s1.n /\ t.state.n <= s1'.n
    BY <1>3, <2>2, <2>3
  <2>5. C5!C5Typed' /\ C5!EditsStand' /\ (C5!InOrder => C5!OneEach')
    BY <1>2, <1>3, <2>1, <2>2, <2>3, <2>4, C5HandledKeeps
  <2>6. C5!InOrder => C5!InOrder'
    BY <1>1, <1>2, <2>1, <2>2, <2>3, <2>5, SameInOrder
  <2>7. ~s14'
    BY <1>1, <2>1 DEF C5!C5Inv, C5!InOrder, C5!ConfirmedStands
  <2> QED BY <2>1, <2>5, <2>6, <2>7 DEF C5!C5Inv
<1>7. CASE C5!HandleTradeUrl(r)
  <2>1. PICK ph \in {"back", "refused"} : s10' = (s10 \ {r}) \cup {[r EXCEPT !.phase = ph]}
    BY <1>7 DEF C5!HandleTradeUrl
  <2> DEFINE u == [r EXCEPT !.phase = ph]
  <2>2. u \in C5!Requests /\ u.kind = r.kind /\ u.no = r.no /\ u.phase # "there" /\ u.state = r.state
    BY <1>3 DEF C5!Requests
  <2>3. UNCHANGED <<s1, s13, s14>> /\ s10' = (s10 \ {r}) \cup {u} /\ r.kind = "url"
    BY <1>7, <2>1 DEF C5!HandleTradeUrl
  <2> HIDE DEF u
  <2>4. s1' \in C5!States /\ s1'.n >= s1.n /\ u.state.n <= s1'.n
    BY <1>3, <2>2, <2>3
  <2>5. C5!C5Typed' /\ C5!EditsStand' /\ (C5!InOrder => C5!OneEach')
    BY <1>2, <1>3, <2>2, <2>3, <2>4, C5HandledKeeps
  <2>6. C5!InOrder => C5!InOrder'
    BY <1>1, <1>2, <2>2, <2>3, <2>5, SameInOrder
  <2> QED BY <2>3, <2>5, <2>6 DEF C5!C5Inv
\* A list that is saved, a switch that is made: newer than all that is known.
<1>8. CASE C5!HandleSave(r)
  <2>1. /\ s1' = [s1 EXCEPT !.items = r.items, !.n = s1.n + 1] /\ s14' = s14 /\ s10' = (s10 \ {r}) \cup {t}
        /\ r.kind = "save" /\ s13' = (s13 \/ \E q \in s10 : q.kind = "run" /\ q.phase = "there" /\ q.no < r.no)
    BY <1>8 DEF C5!HandleSave, C5!Becomes, C5!Back, t
  <2>2. /\ s1' \in C5!States /\ s1'.n = s1.n + 1
        /\ s1'.items = r.items /\ s1'.receiver = s1.receiver
    BY <1>3, <2>1 DEF C5!States, C5!Requests
  <2>3. t \in C5!Requests /\ t.kind = r.kind /\ t.no = r.no /\ t.phase = "back" /\ t.state = s1'
    BY <1>4, <2>2
  <2>4. s1'.n >= s1.n /\ t.state.n <= s1'.n
    BY <1>3, <2>2, <2>3
  <2>5. C5!C5Typed' /\ C5!EditsStand' /\ (C5!InOrder => C5!OneEach')
    BY <1>2, <1>3, <2>1, <2>2, <2>3, <2>4, C5HandledKeeps
  <2>6. ASSUME ~s13', C5!InOrder PROVE C5!InOrder'
    <3>1. \A x : x.n \in Nat /\ x.n <= s1.n => C5!ItemsFollow(x)'
      <4>1. \A x : x.n \in Nat /\ x.n <= s1.n => x.n < t.state.n
        BY <1>3, <2>2, <2>3
      <4> QED BY <2>1, <2>3, <4>1 DEF C5!ItemsFollow, C5!IsBack
    <3>2. \A x : C5!ReceiverFollows(x) => C5!ReceiverFollows(x)'
      BY <1>1, <1>2, <2>1, <2>2, ReceiverStillFollows DEF C5!ReceiverFollows
    <3>3. C5!ConfirmedStands'
      <4>1. s7' = {}
        BY <1>2, <2>1, <2>6 DEF C5!InOrder, C5!OneEach
      <4>2. ASSUME NEW q \in s10', q.kind = "run", q.phase = "there", q.run = "sweeping" PROVE FALSE
        <5>1. q \in s10
          BY <2>1, <2>3, <4>2
        <5>2. q.no < r.no
          BY <1>1, <2>1, <2>6, <4>2, <5>1 DEF C5!InOrder, C5!ConfirmedStands
        <5> QED BY <2>1, <2>6, <4>2, <5>1, <5>2
      <4> QED BY <4>1, <4>2 DEF C5!ConfirmedStands
    <3>4. ASSUME NEW q \in s10' PROVE C5!AnswerStands(q)'
      <4>1. CASE q = t
        BY <2>1, <2>2, <2>3, <4>1 DEF C5!AnswerStands, C5!ItemsFollow, C5!ReceiverFollows, C5!IsBack
      <4>2. CASE q \in s10 /\ q # t
        <5>1. C5!AnswerStands(q) /\ q.kind # "save"
          BY <2>1, <2>6, <4>2 DEF C5!InOrder, C5!OneEach
        <5> QED BY <1>3, <2>2, <3>1, <3>2, <4>2, <5>1 DEF C5!AnswerStands, C5!IsBack
      <4> QED BY <2>1, <4>1, <4>2
    <3> QED BY <1>2, <1>3, <2>5, <2>6, <3>1, <3>2, <3>3, <3>4 DEF C5!InOrder
  <2> QED BY <2>1, <2>5, <2>6 DEF C5!C5Inv
<1>9. CASE C5!HandleReceiver(r)
  <2>1. /\ s1' = [s1 EXCEPT !.receiver = r.receiver, !.n = s1.n + 1] /\ UNCHANGED <<s14, s13>>
        /\ s10' = (s10 \ {r}) \cup {t} /\ r.kind = "receiver"
    BY <1>9 DEF C5!HandleReceiver, C5!Becomes, C5!Back, t
  <2>2. /\ s1' \in C5!States /\ s1'.n = s1.n + 1
        /\ s1'.items = s1.items /\ s1'.receiver = r.receiver
    BY <1>3, <2>1 DEF C5!States, C5!Requests
  <2>3. t \in C5!Requests /\ t.kind = r.kind /\ t.no = r.no /\ t.phase = "back" /\ t.state = s1'
    BY <1>4, <2>2
  <2>4. s1'.n >= s1.n /\ t.state.n <= s1'.n
    BY <1>3, <2>2, <2>3
  <2>5. C5!C5Typed' /\ C5!EditsStand' /\ (C5!InOrder => C5!OneEach')
    BY <1>2, <1>3, <2>1, <2>2, <2>3, <2>4, C5HandledKeeps
  <2>6. ASSUME C5!InOrder PROVE C5!InOrder'
    <3>1. \A x : x.n \in Nat /\ x.n <= s1.n => C5!ReceiverFollows(x)'
      <4>1. \A x : x.n \in Nat /\ x.n <= s1.n => x.n < t.state.n
        BY <1>3, <2>2, <2>3
      <4> QED BY <2>1, <2>3, <4>1 DEF C5!ReceiverFollows, C5!IsBack
    <3>2. \A x : C5!ItemsFollow(x) => C5!ItemsFollow(x)'
      BY <1>1, <1>2, <2>1, <2>2, ItemsStillFollow DEF C5!ItemsFollow
    <3>3. C5!ConfirmedStands'
      BY <1>2, <2>1, <2>2, <2>3, <2>6 DEF C5!InOrder, C5!ConfirmedStands
    <3>4. ASSUME NEW q \in s10' PROVE C5!AnswerStands(q)'
      <4>1. CASE q = t
        BY <2>1, <2>2, <2>3, <4>1 DEF C5!AnswerStands, C5!ItemsFollow, C5!ReceiverFollows, C5!IsBack
      <4>2. CASE q \in s10 /\ q # t
        <5>1. C5!AnswerStands(q) /\ q.kind # "receiver"
          BY <2>1, <2>6, <4>2 DEF C5!InOrder, C5!OneEach
        <5> QED BY <1>3, <2>2, <3>1, <3>2, <4>2, <5>1 DEF C5!AnswerStands, C5!IsBack
      <4> QED BY <2>1, <4>1, <4>2
    <3> QED BY <1>2, <1>3, <2>5, <2>6, <3>1, <3>2, <3>3, <3>4 DEF C5!InOrder
  <2> QED BY <2>1, <2>5, <2>6 DEF C5!C5Inv
<1> QED BY <1>1, <1>5, <1>6, <1>7, <1>8, <1>9

LEMMA C5OtherSteps ==
  ASSUME C5!C5Inv, C5!OtherPageSaves \/ C5!ChangeRun \/ C5!OnDialog \/ C5!ClosePaste
  PROVE  C5!C5Inv'
<1>0. C5!C5Typed /\ s1 \in C5!States /\ s1.n \in Nat /\ s1.items \in C5!Lists /\ s2.items \in C5!Lists /\ s2.n \in Nat
  BY DEF C5!C5Inv, C5!C5Typed, C5!States
<1>1. CASE C5!OtherPageSaves
  <2>1. PICK g \in C5Wares, p \in C5Prices : s1' = [s1 EXCEPT !.items = C5!With(s1.items, g, p), !.n = s1.n + 1]
    BY <1>1 DEF C5!OtherPageSaves, C5!Becomes
  <2>2. s13' /\ UNCHANGED <<s2, s3, s4, s7, s8, s9, s10, s11, s14, s16>>
    BY <1>1 DEF C5!OtherPageSaves, C5!pageSide
  <2>3. C5!With(s1.items, g, p) \in C5!Lists
    BY <1>0, WithIsList
  <2>4. s1' \in C5!States /\ s1'.n = s1.n + 1
    <3> DEFINE l == C5!With(s1.items, g, p)
    <3>1. l \in C5!Lists /\ s1' = [s1 EXCEPT !.items = l, !.n = s1.n + 1]
      BY <2>1, <2>3
    <3> HIDE DEF l
    <3>2. s1.n + 1 \in Nat
      BY <1>0
    <3> QED BY <1>0, <3>1, <3>2 DEF C5!States
  <2>5. \A q \in s10' : q.no <= s16' /\ q.state.n <= s1'.n
    <3>1. \A q \in s10 : q.no <= s16 /\ q.state.n <= s1.n /\ q.state.n \in Nat
      BY DEF C5!C5Inv, C5!C5Typed, C5!Requests, C5!States
    <3> QED BY <1>0, <2>2, <2>4, <3>1
  <2>6. s2.n <= s1'.n
    BY <1>0, <2>4 DEF C5!C5Typed
  <2>7. C5!C5Typed'
    BY <2>2, <2>4, <2>5, <2>6 DEF C5!C5Inv, C5!C5Typed, C5!Dirty
  <2> QED BY <2>2, <2>7 DEF C5!C5Inv, C5!EditsStand
<1>2. CASE C5!ChangeRun
  <2>1. /\ UNCHANGED <<s1, s2, s3, s4, s11, s14, s5, s8, s9, s10, s16>>
        /\ ~C5!Dirty /\ s7' = {s3} /\ s13' = (s13 \/ s5)
    BY <1>2 DEF C5!ChangeRun
  <2>2. C5!C5Typed'
    BY <2>1 DEF C5!C5Inv, C5!C5Typed, C5!Dirty
  <2>3. ASSUME C5!InOrder, ~s5 PROVE C5!InOrder'
    <3>1. \A r \in s10 : r.kind # "save"
      BY <2>3 DEF C5!InOrder, C5!OneEach
    <3>2. s3 = s1.items
      BY <1>0, <2>1, <2>3, <3>1 DEF C5!Dirty, C5!DirtyIn, C5!InOrder, C5!ItemsFollow, C5!IsBack
    <3>3. C5!OneEach' /\ C5!ConfirmedStands'
      BY <2>1, <2>3, <3>1, <3>2 DEF C5!InOrder, C5!OneEach, C5!ConfirmedStands
    <3> QED BY <2>1, <2>3, <3>3 DEF C5!InOrder, C5!ItemsFollow, C5!ReceiverFollows, C5!AnswerStands
  <2> QED BY <2>1, <2>2, <2>3 DEF C5!C5Inv, C5!EditsStand
<1>3. CASE C5!OnDialog
  <2>1. /\ UNCHANGED <<s1, s2, s3, s4, s11, s14, s13, s5, s8, s9>>
        /\ s7' = {} /\ s8' \in C5!Anyone /\ s9' \in C5!Anyone
    BY <1>3 DEF C5!OnDialog, C5!Quiet, C5!c5History, C5!C5Inv, C5!C5Typed
  <2>2. CASE UNCHANGED <<s10, s16>>
    <3>1. C5!C5Typed'
      BY <2>1, <2>2 DEF C5!C5Inv, C5!C5Typed, C5!Dirty
    <3>2. C5!InOrder => C5!InOrder'
      BY <2>1, <2>2 DEF C5!InOrder, C5!OneEach, C5!ConfirmedStands, C5!ItemsFollow, C5!ReceiverFollows, C5!AnswerStands
    <3> QED BY <2>1, <3>1, <3>2 DEF C5!C5Inv, C5!EditsStand
  <2>3. ASSUME NEW said \in s7, C5!Ask([C5!Request("run") EXCEPT !.run = "sweeping", !.said = said]) PROVE C5!C5Inv'
    <3> DEFINE r == [C5!Request("run") EXCEPT !.run = "sweeping", !.said = said]
    <3>1. r \in C5!Requests /\ r.kind = "run" /\ r.phase = "there" /\ r.no = s16 + 1 /\ r.state = s1 /\ r.said = said
      <4>1. /\ C5!Request("run") \in C5!Requests /\ C5!Request("run").kind = "run" /\ C5!Request("run").phase = "there"
            /\ C5!Request("run").no = s16 + 1 /\ C5!Request("run").state = s1
        BY <1>0, C5Leaves
      <4>2. said \in C5!Lists
        BY <2>3 DEF C5!C5Inv, C5!C5Typed
      <4> QED BY <4>1, <4>2 DEF C5!Requests
    <3>2. C5!Ask(r)
      BY <2>3
    <3> HIDE DEF r
    <3> QED BY <2>1, <2>3, <3>1, <3>2, AsksInOrder
  <2> QED BY <1>3, <2>2, <2>3 DEF C5!OnDialog
<1>4. CASE C5!ClosePaste
  <2>1. UNCHANGED <<s1, s2, s3, s4, s11, s14, s13, s5, s8, s7, s10, s16>> /\ s9' = "none"
    BY <1>4 DEF C5!ClosePaste, C5!Quiet, C5!c5History
  <2>2. C5!C5Typed'
    BY <2>1 DEF C5!C5Inv, C5!C5Typed, C5!Dirty, C5!Anyone
  <2>3. C5!InOrder => C5!InOrder'
    BY <2>1 DEF C5!InOrder, C5!OneEach, C5!ConfirmedStands, C5!ItemsFollow, C5!ReceiverFollows, C5!AnswerStands
  <2> QED BY <2>1, <2>2, <2>3 DEF C5!C5Inv, C5!EditsStand
<1> QED BY <1>1, <1>2, <1>3, <1>4

-----------------------------------------------------------------------------
(* The answers.                                                            *)

LEMMA C5UrlSteps == ASSUME C5!C5Inv, C5!GotUrl \/ C5!AskLost PROVE C5!C5Inv'
<1>0. s10 \subseteq C5!Requests /\ s8 \in C5!Anyone /\ "none" \in C5!Anyone
  BY DEF C5!C5Inv, C5!C5Typed, C5!Anyone
<1>1. CASE C5!GotUrl
  <2>1. UNCHANGED <<s1, s2, s3, s4, s11, s14, s13, s5, s7, s16>>
    BY <1>1 DEF C5!GotUrl, C5!Quiet, C5!c5History
  <2>2. PICK r \in s10 :
          /\ r.kind = "url"
          /\ \/ /\ r.phase = "back" /\ UNCHANGED <<s8, s9>>
                /\ s10' = (s10 \ {r}) \cup {[r EXCEPT !.kind = "receiver", !.phase = "there"]}
             \/ r.phase = "refused" /\ s10' = s10 \ {r} /\ s9' = r.receiver /\ s8' = "none"
    BY <1>1 DEF C5!GotUrl
  <2>3. CASE /\ UNCHANGED <<s8, s9>>
             /\ s10' = (s10 \ {r}) \cup {[r EXCEPT !.kind = "receiver", !.phase = "there"]}
    <3> DEFINE t == [r EXCEPT !.kind = "receiver", !.phase = "there"]
    <3>1. t \in C5!Requests /\ t.kind = "receiver" /\ t.phase = "there" /\ t.no = r.no /\ t.state = r.state
      BY <1>0 DEF C5!Requests
    <3>2. s10' = (s10 \ {r}) \cup {t} /\ UNCHANGED <<s8, s9>>
      BY <2>3
    <3> HIDE DEF t
    <3>3. C5!C5Typed'
      <4>1. s10' \subseteq C5!Requests /\ \A q \in s10' : q.no <= s16' /\ q.state.n <= s1'.n
        BY <1>0, <2>1, <3>1, <3>2 DEF C5!C5Inv, C5!C5Typed
      <4> QED BY <2>1, <3>2, <4>1 DEF C5!C5Inv, C5!C5Typed, C5!Dirty
    <3>4. ASSUME C5!InOrder PROVE C5!InOrder'
      <4>1. \A x : (C5!ItemsFollow(x) => C5!ItemsFollow(x)') /\ (C5!ReceiverFollows(x) => C5!ReceiverFollows(x)')
        BY <2>1, <2>2, <3>2 DEF C5!ItemsFollow, C5!ReceiverFollows, C5!IsBack
      <4>2. C5!OneEach'
        BY <2>1, <2>2, <3>1, <3>2, <3>4 DEF C5!InOrder, C5!OneEach
      <4>3. C5!ConfirmedStands'
        BY <2>1, <2>2, <3>1, <3>2, <3>4 DEF C5!InOrder, C5!ConfirmedStands
      <4>4. ASSUME NEW q \in s10' PROVE C5!AnswerStands(q)'
        BY <2>1, <3>1, <3>2, <3>4, <4>1 DEF C5!InOrder, C5!AnswerStands, C5!IsBack
      <4> QED BY <2>1, <3>4, <4>1, <4>2, <4>3, <4>4 DEF C5!InOrder
    <3> QED BY <2>1, <3>3, <3>4 DEF C5!C5Inv, C5!EditsStand
  <2>4. CASE s10' = s10 \ {r} /\ s9' = r.receiver /\ s8' = "none"
    <3>1. C5!C5Typed'
      <4>1. s9' \in C5!Anyone /\ s8' \in C5!Anyone
        BY <1>0, <2>4 DEF C5!Requests
      <4> QED BY <2>1, <2>4, <4>1 DEF C5!C5Inv, C5!C5Typed, C5!Dirty
    <3>2. ASSUME C5!InOrder PROVE C5!InOrder'
      <4>1. \A x : (C5!ItemsFollow(x) => C5!ItemsFollow(x)') /\ (C5!ReceiverFollows(x) => C5!ReceiverFollows(x)')
        BY <2>1, <2>2, <2>4 DEF C5!ItemsFollow, C5!ReceiverFollows, C5!IsBack
      <4>2. C5!OneEach'
        BY <2>1, <2>2, <2>4, <3>2 DEF C5!InOrder, C5!OneEach
      <4>3. C5!ConfirmedStands'
        BY <2>1, <2>4, <3>2 DEF C5!InOrder, C5!ConfirmedStands
      <4>4. ASSUME NEW q \in s10' PROVE C5!AnswerStands(q)'
        BY <2>1, <2>4, <3>2, <4>1 DEF C5!InOrder, C5!AnswerStands, C5!IsBack
      <4> QED BY <2>1, <3>2, <4>1, <4>2, <4>3, <4>4 DEF C5!InOrder
    <3> QED BY <2>1, <3>1, <3>2 DEF C5!C5Inv, C5!EditsStand
  <2> QED BY <2>2, <2>3, <2>4
<1>2. CASE C5!AskLost
  <2>1. /\ s13' /\ UNCHANGED <<s1, s2, s3, s4, s7, s9, s11, s14, s16>>
        /\ s10' \subseteq s10 /\ s8' \in C5!Anyone
    BY <1>0, <1>2 DEF C5!AskLost
  <2>2. C5!C5Typed'
    BY <2>1 DEF C5!C5Inv, C5!C5Typed, C5!Dirty
  <2> QED BY <2>1, <2>2 DEF C5!C5Inv, C5!EditsStand
<1> QED BY <1>1, <1>2

\* An answer whose state is shown.
LEMMA C5AnswerShown ==
  ASSUME C5!C5Inv, NEW r \in s10, r.phase = "back", r.kind # "url", s10' = s10 \ {r}, UNCHANGED <<s1, s7, s14, s16>>,
         s2' = r.state, s3' \in C5!Lists, s4' \subseteq C5Wares, s8' \in C5!Anyone, s9' \in C5!Anyone,
         C5!EditsStand', C5!Dirty' \/ s11' = <<>>, s13' = (s13 \/ C5!Older(r.state)),
         s8' = s8 \/ r.kind = "receiver", s5' = s5 \/ r.kind = "save"
  PROVE  C5!C5Inv'
<1>1. /\ r.state \in C5!States /\ r.state.n \in Nat /\ r.state.n <= s1.n /\ s2.n \in Nat
      /\ \A q \in s10 : q.state.n \in Nat
  BY DEF C5!C5Inv, C5!C5Typed, C5!Requests, C5!States
<1>2. C5!C5Typed'
  BY <1>1 DEF C5!C5Inv, C5!C5Typed
<1>3. ASSUME C5!InOrder, ~C5!Older(r.state) PROVE C5!InOrder'
  <2>1. s2.n <= s2'.n
    BY <1>1, <1>3 DEF C5!Older
  <2>2. \A x : x.n \in Nat => (C5!ItemsFollow(x) => C5!ItemsFollow(x)') /\ (C5!ReceiverFollows(x) => C5!ReceiverFollows(x)')
    BY <1>1, <2>1 DEF C5!ItemsFollow, C5!ReceiverFollows
  <2>3. C5!ItemsFollow(s2)' /\ C5!ReceiverFollows(s2)'
    BY <1>1, <1>3, <2>1 DEF C5!InOrder, C5!AnswerStands, C5!ItemsFollow, C5!ReceiverFollows
  <2>4. C5!OneEach'
    BY <1>3 DEF C5!InOrder, C5!OneEach
  <2>5. C5!ConfirmedStands'
    BY <1>3 DEF C5!InOrder, C5!ConfirmedStands
  <2>6. ASSUME NEW q \in s10' PROVE C5!AnswerStands(q)'
    BY <1>1, <1>3, <2>2 DEF C5!InOrder, C5!AnswerStands, C5!IsBack
  <2> QED BY <2>3, <2>4, <2>5, <2>6 DEF C5!InOrder
<1> QED BY <1>2, <1>3 DEF C5!C5Inv

\* A draft with changes stays; one without follows.
LEMMA C5StateApplied ==
  ASSUME C5!C5Inv, NEW state \in C5!States, C5!ApplyState(state)
  PROVE  /\ s3' \in C5!Lists /\ s4' \subseteq C5Wares /\ C5!EditsStand' /\ (C5!Dirty' \/ s11' = <<>>)
         /\ s2' = state /\ s13' = (s13 \/ C5!Older(state))
<1>1. s2' = state /\ s13' = (s13 \/ C5!Older(state))
  BY DEF C5!ApplyState
<1>2. s11' = IF C5!Dirty' THEN s11 ELSE <<>>
  BY <1>1 DEF C5!ApplyState, C5!Dirty, C5!DirtyIn
<1>3. CASE C5!Dirty
  <2>1. UNCHANGED <<s3, s4>>
    BY <1>3 DEF C5!ApplyState
  <2> QED BY <1>1, <1>2, <2>1, NoListAtAll DEF C5!C5Inv, C5!C5Typed, C5!EditsStand
<1>4. CASE ~C5!Dirty
  <2>1. s3' = state.items /\ s4' = DOMAIN state.items
    BY <1>4 DEF C5!ApplyState, C5!Follow
  <2>2. state.items \in C5!Lists
    BY DEF C5!States
  <2>3. ~C5!Dirty'
    BY <1>1, <2>1 DEF C5!Dirty, C5!DirtyIn
  <2> QED BY <1>1, <1>2, <2>1, <2>2, <2>3, ListsAre, NoListAtAll DEF C5!EditsStand
<1> QED BY <1>3, <1>4

LEMMA C5AnsweredSteps == ASSUME C5!C5Inv, C5!Answered PROVE C5!C5Inv'
<1>1. PICK r \in s10 : r.phase = "back" /\ s10' = s10 \ {r} /\ (C5!GotState(r) \/ C5!GotRun(r) \/ C5!GotReceiver(r) \/ C5!GotSaved(r))
  BY DEF C5!Answered
<1>2. UNCHANGED <<s1, s7, s14, s16>>
  BY DEF C5!Answered
<1>3. r.state \in C5!States /\ r.state.items \in C5!Lists /\ "none" \in C5!Anyone /\ s8 \in C5!Anyone /\ s9 \in C5!Anyone
  BY DEF C5!C5Inv, C5!C5Typed, C5!Requests, C5!States, C5!Anyone
<1>4. CASE C5!GotState(r) \/ C5!GotRun(r) \/ C5!GotReceiver(r)
  <2>1. /\ C5!ApplyState(r.state) /\ r.kind # "url" /\ s5' = s5
        /\ s8' = s8 \/ (r.kind = "receiver" /\ s8' = "none")
        /\ s9' = s9 \/ s9' = "none"
    BY <1>4 DEF C5!GotState, C5!GotRun, C5!GotReceiver
  <2>2. /\ s3' \in C5!Lists /\ s4' \subseteq C5Wares /\ C5!EditsStand' /\ (C5!Dirty' \/ s11' = <<>>)
        /\ s2' = r.state /\ s13' = (s13 \/ C5!Older(r.state))
    BY <1>3, <2>1, C5StateApplied
  <2>3. s8' \in C5!Anyone /\ s9' \in C5!Anyone
    BY <1>3, <2>1
  <2> QED BY <1>1, <1>2, <2>1, <2>2, <2>3, C5AnswerShown
<1>5. CASE C5!GotSaved(r)
  <2>1. /\ r.kind = "save" /\ s2' = r.state /\ s3' = r.state.items /\ s4' = DOMAIN r.state.items /\ s11' = <<>>
        /\ s13' = (s13 \/ C5!Older(r.state)) /\ UNCHANGED <<s8, s9>>
    BY <1>5 DEF C5!GotSaved, C5!Follow
  <2>2. s3' \in C5!Lists /\ s4' \subseteq C5Wares /\ C5!EditsStand'
    BY <1>3, <2>1, ListsAre, NoListAtAll DEF C5!EditsStand
  <2> QED BY <1>1, <1>2, <1>3, <2>1, <2>2, C5AnswerShown
<1> QED BY <1>1, <1>4, <1>5

LEMMA C5Step == C5!C5Inv /\ [C5!C5PageNext]_C5!c5PageVars => C5!C5Inv'
<1> SUFFICES ASSUME C5!C5Inv, [C5!C5PageNext]_C5!c5PageVars PROVE C5!C5Inv'
  OBVIOUS
<1>1. CASE UNCHANGED C5!c5PageVars
  <2>1. UNCHANGED <<s1, s2, s3, s4, s5, s7, s8, s9, s10, s11, s14, s13, s16>>
    BY <1>1 DEF C5!c5PageVars, C5!pageSide, C5!c5History
  <2>2. s3' \in C5!Lists /\ s4' \subseteq C5Wares /\ C5!EditsStand' /\ (C5!Dirty' \/ s11' = <<>>)
    BY <2>1 DEF C5!C5Inv, C5!C5Typed, C5!EditsStand, C5!Dirty
  <2> QED BY <2>1, <2>2, DraftAside
<1>2. CASE C5!C5PageNext
  BY <1>2, C5HandledSteps, C5OtherSteps, C5DraftSteps, C5AskSteps, C5UrlSteps, C5AnsweredSteps DEF C5!C5PageNext
<1> QED BY <1>1, <1>2

\* The sweeper's page sweeps with the list that was confirmed, and keeps what
\* the user changed.
LEMMA C5Holds == C5!C5Inv => C5!C5PageKept
<1> SUFFICES ASSUME C5!C5Inv PROVE C5!C5PageKept
  OBVIOUS
<1>1. ASSUME ~s13, \A r \in s10 : r.kind # "receiver" PROVE s2.receiver = s1.receiver
  <2>1. s2.n \in Nat
    BY DEF C5!C5Inv, C5!C5Typed, C5!States
  <2> QED BY <1>1, <2>1 DEF C5!C5Inv, C5!InOrder, C5!ReceiverFollows, C5!IsBack
<1> QED BY <1>1 DEF C5!C5Inv, C5!C5PageKept, C5!SweepsWhatWasShown

-----------------------------------------------------------------------------
(* The page of market buy orders.                                          *)
Market == INSTANCE MarketPage WITH
  Payers <- MarketPayers, Wares <- MarketWares, Currencies <- MarketCurrencies, NoWare <- None,
  MaxEvents <- MarketEvents, MaxClicks <- MarketClicks,
  wallet <- s1, ledger <- s2, filled <- s3, ledgerAt <- s4, page <- s5, list <- s6, lookup <- s7, dialog <- s8,
  asks <- s9, refreshDue <- s10, ownAt <- s11, astray <- s12, events <- s13, clicks <- s14
ASSUME MarketAssumed == Market!MarketPageConstants

LEMMA MarketSizes == \A S : Market!IsFiniteSet(S) = IsFiniteSet(S) /\ Market!Cardinality(S) = Cardinality(S)
  BY DEF Market!IsFiniteSet, IsFiniteSet, Market!Cardinality, Cardinality
LEMMA PayersAgree ==
  ASSUME NEW S \in SUBSET MarketPayers, NEW w, Market!Cardinality({w[a] : a \in S}) = 1
  PROVE  \A a, b \in S : w[a] = w[b]
<1>1. IsFiniteSet(S)
  BY MarketAssumed, MarketSizes, FS_Subset DEF Market!MarketPageConstants
<1>2. IsFiniteSet({w[a] : a \in S})
  <2> DEFINE f == [a \in S |-> w[a]]
  <2>1. f \in Surjection(S, {w[a] : a \in S})
    BY DEF Surjection
  <2> QED BY <1>1, <2>1, FS_Surjection
<1>3. \E x : {w[a] : a \in S} = {x}
  BY <1>2, MarketSizes, FS_Singleton
<1> QED BY <1>3
LEMMA AtMostOne ==
  ASSUME NEW S, \A x, y \in S : x = y
  PROVE  Market!Cardinality(S) <= 1
<1>1. CASE S = {}
  <2>1. Cardinality(S) = 0
    BY <1>1, FS_EmptySet
  <2> QED BY <2>1, MarketSizes
<1>2. CASE S # {}
  <2>1. PICK x \in S : TRUE
    BY <1>2
  <2>2. S = {x}
    BY <2>1
  <2>3. Cardinality(S) = 1
    BY <2>2, FS_Singleton
  <2> QED BY <2>3, MarketSizes
<1> QED BY <1>1, <1>2

LEMMA MarketNumbers == None \notin MarketWares /\ MarketCurrencies \subseteq Nat \ {0}
  BY MarketAssumed DEF Market!MarketPageConstants

LEMMA KindOfAsk ==
  ASSUME NEW r \in Market!Asks
  PROVE  /\ r.phase \in Market!Phases
         /\ r.kind \in {"accounts", "orders", "search", "context", "place", "cancel", "sync"}
         /\ r.kind = "accounts" => r \in Market!AccountsAsks
         /\ r.kind = "orders" => r \in Market!OrdersAsks
         /\ r.kind = "search" => r \in Market!SearchAsks
         /\ r.kind = "context" => r \in Market!ContextAsks
         /\ r.kind = "place" => r \in Market!PlaceAsks
         /\ r.kind = "cancel" => r \in Market!CancelAsks
         /\ r.kind = "sync" => r \in Market!SyncAsks
  BY DEF Market!Asks, Market!AccountsAsks, Market!OrdersAsks, Market!SearchAsks, Market!ContextAsks, Market!PlaceAsks, Market!CancelAsks, Market!SyncAsks

LEMMA TheAnswer ==
  ASSUME NEW r, NEW x, r.answer = {x}
  PROVE  Market!Is(r) = x
  BY DEF Market!Is

\* An answer that is back is of the type of its request.
LEMMA AnswerTyped ==
  ASSUME Market!MarketInv, NEW r \in s9, r.phase = "back"
  PROVE  /\ r \in Market!Asks /\ Market!RequestStands(r) /\ Market!Is(r) \in r.answer
         /\ r.kind = "accounts" => Market!Is(r) \in Market!Wallets
         /\ r.kind = "orders" => Market!Is(r) \in [orders : SUBSET Market!Orders, at : Nat]
         /\ r.kind = "search" => Market!Is(r) \in Market!Things
         /\ r.kind = "context" => Market!Is(r) \in Market!Contexts
         /\ r.kind = "place" => Market!Is(r) \in [ids : SUBSET Market!Ids, at : Nat]
         /\ r.kind = "cancel" => Market!Is(r) \in [at : Nat]
         /\ r.kind = "sync" => Market!Is(r) \in [orders : SUBSET Market!Orders, at : Nat, synced : SUBSET MarketPayers]
<1>1. r \in Market!Asks /\ Market!RequestStands(r)
  BY DEF Market!MarketInv, Market!MarketTyped
<1>2. PICK x \in r.answer : r.answer = {x}
  BY <1>1 DEF Market!RequestStands
<1>3. Market!Is(r) = x /\ x \in r.answer
  BY <1>2, TheAnswer
<1>4. /\ r.kind = "accounts" => r \in Market!AccountsAsks
      /\ r.kind = "orders" => r \in Market!OrdersAsks
      /\ r.kind = "search" => r \in Market!SearchAsks
      /\ r.kind = "context" => r \in Market!ContextAsks
      /\ r.kind = "place" => r \in Market!PlaceAsks
      /\ r.kind = "cancel" => r \in Market!CancelAsks
      /\ r.kind = "sync" => r \in Market!SyncAsks
  BY <1>1, KindOfAsk
<1> QED BY <1>1, <1>3, <1>4 DEF Market!AccountsAsks, Market!OrdersAsks, Market!SearchAsks, Market!ContextAsks, Market!PlaceAsks, Market!CancelAsks, Market!SyncAsks

LEMMA WalletsTyped ==
  ASSUME NEW w \in Market!Wallets
  PROVE  DOMAIN w \in SUBSET MarketPayers /\ (\A a \in DOMAIN w : w[a] \in MarketCurrencies \cup {0} /\ w[a] \in Nat) /\ w = [a \in DOMAIN w |-> w[a]]
  BY MarketNumbers DEF Market!Wallets

\* A request of the page keeps standing while wallets are read and accounts go, while
\* orders come with new ids, and while other items are searched.
LEMMA RequestKept ==
  ASSUME Market!MarketInv, NEW r \in s9,
         \A a \in DOMAIN s1' : a \in DOMAIN s1 /\ (s1[a] # 0 => s1'[a] = s1[a]),
         s4' \in Nat, s4' >= s4, \A o \in s2' : o \in s2 \/ o.id[1] = s4,
         s7'.seq \in Nat,
         s7'.seq > s7.seq \/ (s7'.seq = s7.seq /\ s7'.query = s7.query)
  PROVE  Market!RequestStands(r)'
<1>1. r \in Market!Asks /\ Market!RequestStands(r) /\ s4 \in Nat /\ s7.seq \in Nat
  BY DEF Market!MarketInv, Market!MarketTyped
<1>2. r.kind = "search" => r.seq \in Nat
  BY <1>1, KindOfAsk DEF Market!SearchAsks
<1>3. r.kind \in {"orders", "place", "cancel", "sync"} /\ r.phase = "back" => Market!Is(r).at \in Nat
  BY AnswerTyped
<1>4. r.kind = "place" => r \in Market!PlaceAsks /\ r.said \in Market!PlaceDialogs
  BY <1>1, KindOfAsk DEF Market!PlaceAsks
<1>5. ASSUME NEW acc, Market!KnownOf(acc) PROVE Market!KnownOf(acc)'
  BY <1>5 DEF Market!KnownOf
<1>6. ASSUME NEW d, Market!NamedOf(d) PROVE Market!NamedOf(d)'
  <2> SUFFICES ASSUME NEW a \in d.payers \cap DOMAIN s1' PROVE d.currencies \subseteq {s1'[a], 0}
    BY DEF Market!NamedOf
  <2>1. a \in DOMAIN s1 /\ d.currencies \subseteq {s1[a], 0} /\ (s1[a] # 0 => s1'[a] = s1[a])
    BY <1>6 DEF Market!NamedOf
  <2> QED BY <2>1
<1>7. ASSUME r.kind = "place", r.phase = "back"
      PROVE  /\ \A id \in Market!Is(r).ids : id[1] < s4'
             /\ Market!PlacedOf(r)' \subseteq Market!PlacedOf(r)
  <2>1. \A id \in Market!Is(r).ids : id[1] < s4 /\ id \in Market!Ids
    BY <1>1, <1>7, AnswerTyped DEF Market!RequestStands
  <2>2. \A id \in Market!Ids : id[1] \in Nat
    BY DEF Market!Ids
  <2>3. \A id \in Market!Is(r).ids : id[1] < s4'
    BY <1>1, <2>1, <2>2
  <2>4. ASSUME NEW o \in s2', o.id \in Market!Is(r).ids PROVE o \in s2
    BY <1>1, <2>1, <2>4
  <2> QED BY <2>3, <2>4 DEF Market!PlacedOf
<1>8. r.kind = "accounts" /\ r.phase = "back" => Market!KnownOf(Market!Is(r))'
  BY <1>1, <1>5 DEF Market!RequestStands
<1>9. r.kind = "place" => Market!NamedOf(r.said)'
  BY <1>1, <1>6 DEF Market!RequestStands
<1>10. r.kind = "search" => r.seq <= s7'.seq /\ (r.seq = s7'.seq => r.ware = s7'.query)
  BY <1>1, <1>2 DEF Market!RequestStands
<1>11. r.kind \in {"orders", "place", "cancel", "sync"} /\ r.phase = "back" => Market!Is(r).at <= s4'
  BY <1>1, <1>3 DEF Market!RequestStands
<1>12. Market!Is(r)' = Market!Is(r)
  BY DEF Market!Is
<1> QED BY <1>1, <1>7, <1>8, <1>9, <1>10, <1>11, <1>12 DEF Market!RequestStands

\* What the invariant says, taken apart once.
LEMMA MarketFacts ==
  ASSUME Market!MarketInv
  PROVE  /\ s1 \in Market!Wallets /\ s2 \subseteq Market!Orders /\ s4 \in Nat /\ s5 \in Market!Pages
         /\ s6 \in [orders : SUBSET Market!Orders, at : Nat, visible : SUBSET Market!Ids, syncing : BOOLEAN]
         /\ s7 \in [query : Market!Things, loading : BOOLEAN, found : Market!Things, seq : Nat, timer : BOOLEAN]
         /\ s8 \subseteq Market!PlaceDialogs \cup Market!CancelDialogs /\ s9 \subseteq Market!Asks /\ s11 \in Nat /\ s12 \in BOOLEAN
         /\ Market!FindsWhatIsTyped /\ s5.selected \subseteq DOMAIN s5.accounts /\ Market!KnownOf(s5.accounts)
         /\ \A o \in s2 : o.id[1] < s4
         /\ Market!DialogStands /\ Market!OwnStands /\ \A r \in s9 : Market!RequestStands(r)
  BY DEF Market!MarketInv, Market!MarketTyped

\* The server takes a request that is there, and answers it.
LEMMA HandledKeeps ==
  ASSUME Market!MarketInv, NEW r \in s9, r.phase = "there", NEW new \in Market!Asks, new.kind = r.kind, new.phase = "back",
         s9' = (s9 \ {r}) \cup {new}, UNCHANGED <<s1, s5, s6, s7, s8, s11, s12>>,
         s2' \subseteq Market!Orders, s4' \in Nat, s4' >= s4,
         \A o \in s2' : o.id[1] < s4' /\ (o \in s2 \/ o.id[1] = s4),
         Market!RequestStands(new)', r.kind = "orders" => Market!Is(new).at >= s11
  PROVE  Market!MarketInv'
<1>1. /\ s7.seq \in Nat /\ s4 \in Nat /\ s11 \in Nat /\ s11 <= s4 /\ s9 \subseteq Market!Asks /\ Market!MarketTyped
      /\ Market!FindsWhatIsTyped /\ s5.selected \subseteq DOMAIN s5.accounts /\ Market!KnownOf(s5.accounts) /\ Market!DialogStands
      /\ ~s12 => s6.at >= s11 \/ \E q \in s9 : q.kind = "orders" /\ (q.phase = "back" => Market!Is(q).at >= s11)
  BY DEF Market!MarketInv, Market!MarketTyped, Market!OwnStands
<1>2. Market!MarketTyped'
  BY <1>1 DEF Market!MarketTyped
<1>3. Market!FindsWhatIsTyped' /\ s5'.selected \subseteq DOMAIN s5'.accounts /\ Market!KnownOf(s5.accounts)' /\ Market!DialogStands'
  BY <1>1 DEF Market!FindsWhatIsTyped, Market!KnownOf, Market!DialogStands, Market!NamedOf, Market!SelectedOf
<1>4. \A q \in s9 : Market!RequestStands(q)'
  BY <1>1, RequestKept
<1>5. Market!OwnStands'
  <2>1. s11' <= s4'
    BY <1>1
  <2>2. ASSUME NEW q \in s9, q.kind = "orders", q.phase = "back" => Market!Is(q).at >= s11
        PROVE  \E p \in s9' : p.kind = "orders" /\ (p.phase = "back" => Market!Is(p).at >= s11')
    <3>1. s11' = s11 /\ new \in s9' /\ (q # r => q \in s9')
      OBVIOUS
    <3>2. CASE q = r
      <4>1. new.kind = "orders" /\ Market!Is(new).at >= s11
        BY <2>2, <3>2
      <4> QED BY <3>1, <4>1 DEF Market!Is
    <3>3. CASE q # r
      BY <2>2, <3>1, <3>3 DEF Market!Is
    <3> QED BY <3>2, <3>3
  <2>3. Market!Is(new)' = Market!Is(new) /\ s6'.at = s6.at /\ s11' = s11 /\ s12' = s12
    BY DEF Market!Is
  <2>4. \A p : Market!Is(p)' = Market!Is(p)
    BY DEF Market!Is
  <2> QED BY <1>1, <2>1, <2>2, <2>3, <2>4 DEF Market!OwnStands
<1> QED BY <1>2, <1>3, <1>4, <1>5 DEF Market!MarketInv

\* A list that only loses orders.
LEMMA LedgerLoses ==
  ASSUME Market!MarketInv, NEW S \in SUBSET s2, Market!LedgerIs(S)
  PROVE  /\ s2' \subseteq Market!Orders /\ s4' \in Nat /\ s4' >= s4
         /\ \A o \in s2' : o.id[1] < s4' /\ (o \in s2 \/ o.id[1] = s4)
         /\ s2' = S
<1>1. s2 \subseteq Market!Orders /\ s4 \in Nat /\ \A o \in s2 : o.id[1] < s4
  BY MarketFacts
<1>2. \A o \in s2 : o.id[1] \in Nat
  BY <1>1 DEF Market!Orders, Market!Ids
<1>3. s2' = S /\ s4' \in {s4, s4 + 1}
  BY DEF Market!LedgerIs
<1> QED BY <1>1, <1>2, <1>3

\* The answers to what is read.
LEMMA ReadsHandled ==
  ASSUME Market!MarketInv, NEW r \in s9, r.phase = "there", UNCHANGED <<s1, s5, s6, s7, s8, s11, s12>>,
         Market!HandleAccounts(r) \/ Market!HandleOrders(r) \/ Market!HandleSearch(r) \/ Market!HandleContext(r)
  PROVE  Market!MarketInv'
<1>1. r \in Market!Asks /\ Market!RequestStands(r) /\ s1 \in Market!Wallets /\ s2 \subseteq Market!Orders /\ s4 \in Nat /\ s11 \in Nat /\ s11 <= s4
  BY MarketFacts DEF Market!OwnStands
<1>2. Market!LedgerIs(s2)
  BY DEF Market!HandleAccounts, Market!HandleOrders, Market!HandleSearch, Market!HandleContext
<1>3. /\ s2' \subseteq Market!Orders /\ s4' \in Nat /\ s4' >= s4
      /\ \A o \in s2' : o.id[1] < s4' /\ (o \in s2 \/ o.id[1] = s4)
  BY <1>2, LedgerLoses
<1>4. "back" \in Market!Phases
  BY DEF Market!Phases
<1>5. ASSUME NEW x, Market!Answered(r, x), NEW new \in Market!Asks, new = [r EXCEPT !.phase = "back", !.answer = {x}],
             new.kind = r.kind, new.phase = "back", Market!RequestStands(new)', r.kind = "orders" => Market!Is(new).at >= s11
      PROVE  Market!MarketInv'
  <2>1. s9' = (s9 \ {r}) \cup {new}
    BY <1>5 DEF Market!Answered
  <2> QED BY <1>3, <1>5, <2>1, HandledKeeps
<1>6. ASSUME Market!HandleAccounts(r) PROVE Market!MarketInv'
  <2>1. r \in Market!AccountsAsks /\ Market!Answered(r, s1) /\ r.kind = "accounts"
    BY <1>1, <1>6, KindOfAsk DEF Market!HandleAccounts
  <2>2. PICK new : new = [r EXCEPT !.phase = "back", !.answer = {s1}]
    OBVIOUS
  <2>3. new \in Market!AccountsAsks /\ new.kind = r.kind /\ new.phase = "back" /\ new.answer = {s1}
    BY <1>1, <1>4, <2>1, <2>2 DEF Market!AccountsAsks
  <2>4. Market!Is(new) = s1 /\ Market!Is(new)' = Market!Is(new)
    BY <2>3, TheAnswer DEF Market!Is
  <2>5. Market!RequestStands(new)'
    BY <2>1, <2>3, <2>4 DEF Market!RequestStands, Market!KnownOf
  <2> QED BY <1>5, <2>1, <2>2, <2>3, <2>5 DEF Market!Asks
<1>7. ASSUME Market!HandleOrders(r) PROVE Market!MarketInv'
  <2> DEFINE x == [orders |-> s2', at |-> s4']
  <2>1. r \in Market!OrdersAsks /\ Market!Answered(r, x) /\ r.kind = "orders"
    BY <1>1, <1>7, KindOfAsk DEF Market!HandleOrders, Market!Reading
  <2>2. x \in [orders : SUBSET Market!Orders, at : Nat] /\ x.at = s4'
    BY <1>3
  <2> HIDE DEF x
  <2>3. PICK new : new = [r EXCEPT !.phase = "back", !.answer = {x}]
    OBVIOUS
  <2>4. new \in Market!OrdersAsks /\ new.kind = r.kind /\ new.phase = "back" /\ new.answer = {x}
    BY <1>4, <2>1, <2>2, <2>3 DEF Market!OrdersAsks
  <2>5. Market!Is(new) = x /\ Market!Is(new)' = Market!Is(new)
    BY <2>4, TheAnswer DEF Market!Is
  <2>6. Market!RequestStands(new)'
    BY <1>3, <2>1, <2>2, <2>4, <2>5 DEF Market!RequestStands
  <2>7. Market!Is(new).at >= s11
    BY <1>1, <1>3, <2>2, <2>5
  <2> QED BY <1>5, <2>1, <2>3, <2>4, <2>6, <2>7 DEF Market!Asks
<1>8. ASSUME Market!HandleSearch(r) PROVE Market!MarketInv'
  <2>1. r \in Market!SearchAsks /\ Market!Answered(r, r.ware) /\ r.kind = "search"
    BY <1>1, <1>8, KindOfAsk DEF Market!HandleSearch
  <2>2. PICK new : new = [r EXCEPT !.phase = "back", !.answer = {r.ware}]
    OBVIOUS
  <2>3. /\ new \in Market!SearchAsks /\ new.kind = r.kind /\ new.phase = "back" /\ new.answer = {r.ware}
        /\ new.ware = r.ware /\ new.seq = r.seq
    BY <1>4, <2>1, <2>2 DEF Market!SearchAsks
  <2>4. Market!Is(new) = r.ware /\ Market!Is(new)' = Market!Is(new)
    BY <2>3, TheAnswer DEF Market!Is
  <2>5. Market!RequestStands(new)'
    BY <1>1, <2>1, <2>3, <2>4 DEF Market!RequestStands
  <2> QED BY <1>5, <2>1, <2>2, <2>3, <2>5 DEF Market!Asks
<1>9. ASSUME Market!HandleContext(r) PROVE Market!MarketInv'
  <2> DEFINE x == [ware |-> r.ware, currency |-> s1[r.payer]]
  <2>1. r \in Market!ContextAsks /\ Market!Answered(r, x) /\ r.kind = "context" /\ r.payer \in DOMAIN s1
    BY <1>1, <1>9, KindOfAsk DEF Market!HandleContext
  <2>2. x \in Market!Contexts /\ x.ware = r.ware
    BY <1>1, <2>1, WalletsTyped DEF Market!Contexts, Market!ContextAsks
  <2> HIDE DEF x
  <2>3. PICK new : new = [r EXCEPT !.phase = "back", !.answer = {x}]
    OBVIOUS
  <2>4. new \in Market!ContextAsks /\ new.kind = r.kind /\ new.phase = "back" /\ new.answer = {x} /\ new.ware = r.ware
    BY <1>4, <2>1, <2>2, <2>3 DEF Market!ContextAsks
  <2>5. Market!Is(new) = x /\ Market!Is(new)' = Market!Is(new)
    BY <2>4, TheAnswer DEF Market!Is
  <2>6. Market!RequestStands(new)'
    BY <2>1, <2>2, <2>4, <2>5 DEF Market!RequestStands
  <2> QED BY <1>5, <2>1, <2>3, <2>4, <2>6 DEF Market!Asks
<1> QED BY <1>6, <1>7, <1>8, <1>9

\* Orders are taken from the list.
LEMMA CancelsHandled ==
  ASSUME Market!MarketInv, NEW r \in s9, r.phase = "there", UNCHANGED <<s1, s5, s6, s7, s8, s11, s12>>,
         Market!HandleCancel(r) \/ Market!HandleSync(r)
  PROVE  Market!MarketInv'
<1>1. r \in Market!Asks
  BY MarketFacts
<1>2. "back" \in Market!Phases
  BY DEF Market!Phases
<1>3. ASSUME Market!HandleCancel(r) PROVE Market!MarketInv'
  <2> DEFINE x == [at |-> s4']
  <2>1. r \in Market!CancelAsks /\ Market!Answered(r, x) /\ r.kind = "cancel" /\ Market!LedgerIs({o \in s2 : o.id # r.id})
    BY <1>1, <1>3, KindOfAsk DEF Market!HandleCancel
  <2>2. /\ s2' \subseteq Market!Orders /\ s4' \in Nat /\ s4' >= s4
        /\ \A o \in s2' : o.id[1] < s4' /\ (o \in s2 \/ o.id[1] = s4)
    BY <2>1, LedgerLoses
  <2>3. x \in [at : Nat] /\ x.at = s4'
    BY <2>2
  <2> HIDE DEF x
  <2>4. PICK new : new = [r EXCEPT !.phase = "back", !.answer = {x}]
    OBVIOUS
  <2>5. new \in Market!CancelAsks /\ new.kind = r.kind /\ new.phase = "back" /\ new.answer = {x}
    BY <1>2, <2>1, <2>3, <2>4 DEF Market!CancelAsks
  <2>6. Market!Is(new) = x /\ Market!Is(new)' = Market!Is(new)
    BY <2>5, TheAnswer DEF Market!Is
  <2>7. Market!RequestStands(new)'
    BY <2>1, <2>2, <2>3, <2>5, <2>6 DEF Market!RequestStands
  <2>8. s9' = (s9 \ {r}) \cup {new} /\ new \in Market!Asks
    BY <2>1, <2>4, <2>5 DEF Market!Answered, Market!Asks
  <2> QED BY <2>1, <2>2, <2>5, <2>7, <2>8, HandledKeeps
<1>4. ASSUME Market!HandleSync(r) PROVE Market!MarketInv'
  <2>1. PICK synced \in SUBSET (r.payers \cap DOMAIN s1) :
          /\ Market!LedgerIs({o \in s2 : o.payer \notin synced \/ o.id \notin s3})
          /\ Market!Answered(r, [orders |-> s2', at |-> s4', synced |-> synced])
    BY <1>4 DEF Market!HandleSync
  <2> DEFINE x == [orders |-> s2', at |-> s4', synced |-> synced]
  <2>2. r \in Market!SyncAsks /\ r.kind = "sync" /\ r.payers \in SUBSET MarketPayers
    BY <1>1, <1>4, KindOfAsk DEF Market!HandleSync, Market!SyncAsks
  <2>3. /\ s2' \subseteq Market!Orders /\ s4' \in Nat /\ s4' >= s4
        /\ \A o \in s2' : o.id[1] < s4' /\ (o \in s2 \/ o.id[1] = s4)
    BY <2>1, LedgerLoses
  <2>4. x \in [orders : SUBSET Market!Orders, at : Nat, synced : SUBSET MarketPayers] /\ x.at = s4'
    BY <2>2, <2>3
  <2>5. Market!Answered(r, x)
    BY <2>1
  <2> HIDE DEF x
  <2>6. PICK new : new = [r EXCEPT !.phase = "back", !.answer = {x}]
    OBVIOUS
  <2>7. new \in Market!SyncAsks /\ new.kind = r.kind /\ new.phase = "back" /\ new.answer = {x}
    BY <1>2, <2>2, <2>4, <2>6 DEF Market!SyncAsks
  <2>8. Market!Is(new) = x /\ Market!Is(new)' = Market!Is(new)
    BY <2>7, TheAnswer DEF Market!Is
  <2>9. Market!RequestStands(new)'
    BY <2>2, <2>3, <2>4, <2>7, <2>8 DEF Market!RequestStands
  <2>10. s9' = (s9 \ {r}) \cup {new} /\ new \in Market!Asks
    BY <2>5, <2>6, <2>7 DEF Market!Answered, Market!Asks
  <2> QED BY <2>2, <2>3, <2>7, <2>9, <2>10, HandledKeeps
<1> QED BY <1>3, <1>4

\* Orders are placed: for accounts that are there and of one currency, the one named.
LEMMA PlacesHandled ==
  ASSUME Market!MarketInv, NEW r \in s9, r.phase = "there", UNCHANGED <<s1, s5, s6, s7, s8, s11, s12>>,
         Market!HandlePlace(r)
  PROVE  Market!MarketInv'
<1>1. /\ r \in Market!Asks /\ Market!RequestStands(r) /\ s1 \in Market!Wallets /\ s2 \subseteq Market!Orders /\ s4 \in Nat
      /\ \A o \in s2 : o.id[1] < s4
  BY MarketFacts
<1>2. r \in Market!PlaceAsks /\ r.kind = "place" /\ r.payers \in SUBSET MarketPayers /\ r.ware \in Market!Things
  BY <1>1, KindOfAsk DEF Market!HandlePlace, Market!PlaceAsks
<1>3. /\ DOMAIN s1 \in SUBSET MarketPayers /\ \A a \in DOMAIN s1 : s1[a] \in Nat
  BY <1>1, WalletsTyped
<1>4. /\ Market!Payable(r.payers) \subseteq r.payers \cap DOMAIN s1
      /\ \A a, b \in Market!Payable(r.payers) : s1[a] = s1[b]
  <2> DEFINE there == r.payers \cap DOMAIN s1
  <2>1. CASE there # {} /\ Market!Cardinality({s1[a] : a \in there}) = 1 /\ \A a \in there : s1[a] # 0
    <3>1. Market!Payable(r.payers) = there
      BY <2>1 DEF Market!Payable
    <3>2. there \in SUBSET MarketPayers
      BY <1>2
    <3>3. \A a, b \in there : s1[a] = s1[b]
      BY <2>1, <3>2, PayersAgree
    <3> QED BY <3>1, <3>3
  <2>2. CASE ~(there # {} /\ Market!Cardinality({s1[a] : a \in there}) = 1 /\ \A a \in there : s1[a] # 0)
    <3>1. Market!Payable(r.payers) = {}
      BY <2>2 DEF Market!Payable
    <3> QED BY <3>1
  <2> QED BY <2>1, <2>2
<1> DEFINE Made(a) == [id |-> <<s4, a>>, payer |-> a, ware |-> r.ware, currency |-> s1[a]]
<1>5. PICK ok \in SUBSET Market!Payable(r.payers) :
        /\ Market!LedgerIs(s2 \cup {Made(a) : a \in ok})
        /\ Market!Answered(r, [ids |-> {o.id : o \in {Made(a) : a \in ok}}, at |-> s4'])
  BY DEF Market!HandlePlace
<1> DEFINE new == {Made(a) : a \in ok}
           x == [ids |-> {o.id : o \in new}, at |-> s4']
<1>6. ASSUME NEW o \in new
      PROVE  /\ o \in Market!Orders /\ o.id[1] = s4 /\ o.payer \in ok /\ o.currency = s1[o.payer] /\ o \notin s2 /\ o.id \in Market!Ids
  <2>1. PICK a \in ok : o = Made(a)
    OBVIOUS
  <2>2. a \in MarketPayers /\ s1[a] \in Nat /\ <<s4, a>> \in Market!Ids
    BY <1>1, <1>3, <1>4 DEF Market!Ids
  <2>3. o \in Market!Orders /\ o.id = <<s4, a>> /\ o.payer = a /\ o.currency = s1[a]
    BY <1>2, <2>1, <2>2 DEF Market!Orders
  <2>4. o.id[1] = s4
    BY <2>3
  <2> HIDE DEF Made, new
  <2> QED BY <1>1, <2>2, <2>3, <2>4
<1>7. Market!Answered(r, x) /\ Market!LedgerIs(s2 \cup new) /\ x.ids = {o.id : o \in new} /\ x.at = s4'
  BY <1>5
<1>8. x.ids \in SUBSET Market!Ids /\ \A id \in x.ids : id[1] = s4
  BY <1>6, <1>7
<1>9. /\ s2' = s2 \cup new /\ s4' \in {s4, s4 + 1}
      /\ new # {} => s4' = s4 + 1
  <2> HIDE DEF Made, new, x
  <2>1. new # {} => s2 \cup new # s2
    BY <1>6
  <2> QED BY <1>7, <2>1 DEF Market!LedgerIs
<1>10. x \in [ids : SUBSET Market!Ids, at : Nat]
  <2>1. x = [ids |-> x.ids, at |-> x.at] /\ x.at \in Nat
    BY <1>1, <1>9
  <2> HIDE DEF new, Made, x
  <2> QED BY <1>8, <2>1
<1>11. \A id \in x.ids : id[1] < s4'
  <2>1. x.ids # {} => new # {}
    BY <1>7
  <2> HIDE DEF new, Made, x
  <2> QED BY <1>1, <1>8, <1>9, <2>1
<1> HIDE DEF new, Made, x
<1>12. /\ s2' \subseteq Market!Orders /\ s4' \in Nat /\ s4' >= s4
       /\ \A o \in s2' : o.id[1] < s4' /\ (o \in s2 \/ o.id[1] = s4)
  <2>1. \A o \in s2 : o.id[1] \in Nat
    BY <1>1 DEF Market!Orders, Market!Ids
  <2> QED BY <1>1, <1>6, <1>9, <2>1
<1>13. "back" \in Market!Phases
  BY DEF Market!Phases
<1>14. PICK made : made = [r EXCEPT !.phase = "back", !.answer = {x}]
  OBVIOUS
<1>15. /\ made \in Market!PlaceAsks /\ made.kind = r.kind /\ made.phase = "back" /\ made.answer = {x}
       /\ made.payers = r.payers /\ made.ware = r.ware /\ made.said = r.said
  BY <1>2, <1>10, <1>13, <1>14 DEF Market!PlaceAsks
<1>16. Market!Is(made) = x /\ Market!Is(made)' = Market!Is(made)
  BY <1>15, TheAnswer DEF Market!Is
<1>17. Market!PlacedOf(made)' \subseteq new
  <2>1. ASSUME NEW o \in s2', o.id \in x.ids PROVE o \in new
    <3>1. o.id[1] = s4
      BY <1>8, <2>1
    <3>2. o \notin s2
      BY <1>1, <3>1
    <3> QED BY <1>9, <3>2
  <2> QED BY <1>16, <2>1 DEF Market!PlacedOf
<1>18. ASSUME NEW o \in new PROVE o.payer \in r.said.payers /\ r.said.currencies \subseteq {o.currency, 0}
  <2>1. o.payer \in r.payers \cap DOMAIN s1 /\ o.currency = s1[o.payer]
    BY <1>4, <1>6
  <2>2. r.payers \subseteq r.said.payers /\ Market!NamedOf(r.said)
    BY <1>1, <1>2 DEF Market!RequestStands
  <2> QED BY <2>1, <2>2 DEF Market!NamedOf
<1>19. \A o, p \in new : o.currency = p.currency
  BY <1>4, <1>6
<1>20. Market!NamedOf(r.said)' /\ r.payers \subseteq r.said.payers /\ r.ware = r.said.ware
  BY <1>1, <1>2 DEF Market!RequestStands, Market!NamedOf
<1>21. Market!RequestStands(made)'
  BY <1>2, <1>7, <1>11, <1>12, <1>15, <1>16, <1>17, <1>18, <1>19, <1>20 DEF Market!RequestStands
<1>22. s9' = (s9 \ {r}) \cup {made} /\ made \in Market!Asks
  BY <1>7, <1>14, <1>15 DEF Market!Answered, Market!Asks
<1> QED BY <1>2, <1>12, <1>15, <1>21, <1>22, HandledKeeps

\* What is sent.
LEMMA SentTyped ==
  /\ Market!Sent([kind |-> "accounts"]) \in Market!AccountsAsks /\ Market!Sent([kind |-> "accounts"]).phase = "there"
  /\ \A k \in {"enter", "place", "cancel"} :
       Market!Sent([kind |-> "orders", after |-> k]) \in Market!OrdersAsks /\ Market!Sent([kind |-> "orders", after |-> k]).phase = "there"
  /\ \A w \in Market!Things : \A s \in Nat :
       LET r == Market!Sent([kind |-> "search", ware |-> w, seq |-> s])
       IN  r \in Market!SearchAsks /\ r.phase = "there" /\ r.ware = w /\ r.seq = s
  /\ \A w \in Market!Things : \A a \in MarketPayers :
       LET r == Market!Sent([kind |-> "context", ware |-> w, payer |-> a]) IN r \in Market!ContextAsks /\ r.phase = "there"
  /\ \A P \in SUBSET MarketPayers : \A w \in Market!Things : \A d \in Market!PlaceDialogs :
       LET r == Market!Sent([kind |-> "place", payers |-> P, ware |-> w, said |-> d])
       IN  r \in Market!PlaceAsks /\ r.phase = "there" /\ r.payers = P /\ r.ware = w /\ r.said = d
  /\ \A d \in Market!CancelDialogs : Market!Sent(d) \in Market!CancelAsks /\ Market!Sent(d).phase = "there"
  /\ \A P \in SUBSET MarketPayers :
       LET r == Market!Sent([kind |-> "sync", payers |-> P]) IN r \in Market!SyncAsks /\ r.phase = "there"
<1>1. Market!Sent([kind |-> "accounts"]) \in Market!AccountsAsks /\ Market!Sent([kind |-> "accounts"]).phase = "there"
  BY DEF Market!Sent, Market!AccountsAsks, Market!Phases
<1>2. ASSUME NEW k \in {"enter", "place", "cancel"}
      PROVE  Market!Sent([kind |-> "orders", after |-> k]) \in Market!OrdersAsks /\ Market!Sent([kind |-> "orders", after |-> k]).phase = "there"
  BY DEF Market!Sent, Market!OrdersAsks, Market!Phases
<1>3. ASSUME NEW w \in Market!Things, NEW s \in Nat
      PROVE  LET r == Market!Sent([kind |-> "search", ware |-> w, seq |-> s])
             IN  r \in Market!SearchAsks /\ r.phase = "there" /\ r.ware = w /\ r.seq = s
  BY DEF Market!Sent, Market!SearchAsks, Market!Phases
<1>4. ASSUME NEW w \in Market!Things, NEW a \in MarketPayers
      PROVE  LET r == Market!Sent([kind |-> "context", ware |-> w, payer |-> a]) IN r \in Market!ContextAsks /\ r.phase = "there"
  BY DEF Market!Sent, Market!ContextAsks, Market!Phases
<1>5. ASSUME NEW P \in SUBSET MarketPayers, NEW w \in Market!Things, NEW d \in Market!PlaceDialogs
      PROVE  LET r == Market!Sent([kind |-> "place", payers |-> P, ware |-> w, said |-> d])
             IN  r \in Market!PlaceAsks /\ r.phase = "there" /\ r.payers = P /\ r.ware = w /\ r.said = d
  BY DEF Market!Sent, Market!PlaceAsks, Market!Phases
<1>6. ASSUME NEW d \in Market!CancelDialogs PROVE Market!Sent(d) \in Market!CancelAsks /\ Market!Sent(d).phase = "there"
  BY DEF Market!Sent, Market!CancelAsks, Market!CancelDialogs, Market!Phases
<1>7. ASSUME NEW P \in SUBSET MarketPayers
      PROVE  LET r == Market!Sent([kind |-> "sync", payers |-> P]) IN r \in Market!SyncAsks /\ r.phase = "there"
  BY DEF Market!Sent, Market!SyncAsks, Market!Phases
<1> QED BY <1>1, <1>2, <1>3, <1>4, <1>5, <1>6, <1>7

\* A step of the page alone.
LEMMA MarketGoesOn ==
  ASSUME Market!MarketInv, UNCHANGED <<s1, s2, s4>>,
         s9' \subseteq Market!Asks, \A r \in s9' : r \in s9 \/ Market!RequestStands(r)',
         s5' \in Market!Pages, s6' \in [orders : SUBSET Market!Orders, at : Nat, visible : SUBSET Market!Ids, syncing : BOOLEAN],
         s7' \in [query : Market!Things, loading : BOOLEAN, found : Market!Things, seq : Nat, timer : BOOLEAN],
         s8' \subseteq Market!PlaceDialogs \cup Market!CancelDialogs, s11' \in Nat, s12' \in BOOLEAN,
         s7'.seq > s7.seq \/ (s7'.seq = s7.seq /\ s7'.query = s7.query),
         Market!FindsWhatIsTyped', s5'.selected \subseteq DOMAIN s5'.accounts, Market!KnownOf(s5.accounts)',
         Market!DialogStands', Market!OwnStands'
  PROVE  Market!MarketInv'
<1>1. Market!MarketTyped'
  BY MarketFacts DEF Market!MarketTyped
<1>2. s4 \in Nat /\ s7'.seq \in Nat /\ \A o \in s2 : o.id[1] < s4
  BY MarketFacts
<1>3. \A r \in s9 : Market!RequestStands(r)'
  BY <1>2, RequestKept
<1> QED BY <1>1, <1>2, <1>3 DEF Market!MarketInv

LEMMA OwnGoesOn ==
  ASSUME Market!MarketInv, UNCHANGED <<s4, s11, s12>>, s6'.at = s6.at,
         \A r \in s9 : r.kind = "orders" => r \in s9'
  PROVE  Market!OwnStands'
<1>1. Market!OwnStands
  BY MarketFacts
<1>2. \A r : Market!Is(r)' = Market!Is(r)
  BY DEF Market!Is
<1> QED BY <1>1, <1>2 DEF Market!OwnStands

\* The page asks for something more.
LEMMA MarketSendKeeps ==
  ASSUME Market!MarketInv, UNCHANGED <<s1, s2, s4, s11, s12>>, s6'.at = s6.at,
         s6' \in [orders : SUBSET Market!Orders, at : Nat, visible : SUBSET Market!Ids, syncing : BOOLEAN],
         NEW R \in SUBSET Market!Asks, s9' = s9 \cup R, \A r \in R : Market!RequestStands(r)',
         s5' \in Market!Pages, s5'.selected \subseteq DOMAIN s5'.accounts, s5'.accounts = s5.accounts,
         s5'.context.ware \in {s5'.item, None},
         s7' \in [query : Market!Things, loading : BOOLEAN, found : Market!Things, seq : Nat, timer : BOOLEAN],
         s7'.seq > s7.seq \/ (s7'.seq = s7.seq /\ s7'.query = s7.query),
         ~s7'.loading => s7'.found \in {s7'.query, None},
         s8' \subseteq Market!PlaceDialogs \cup Market!CancelDialogs, Market!DialogStands'
  PROVE  Market!MarketInv'
<1>1. s9 \subseteq Market!Asks /\ Market!KnownOf(s5.accounts) /\ s11 \in Nat /\ s12 \in BOOLEAN
  BY MarketFacts
<1>2. Market!FindsWhatIsTyped' /\ Market!KnownOf(s5.accounts)'
  BY <1>1 DEF Market!FindsWhatIsTyped, Market!KnownOf
<1>3. Market!OwnStands'
  BY OwnGoesOn
<1> QED BY <1>1, <1>2, <1>3, MarketGoesOn

\* Others.
LEMMA OthersKeep ==
  ASSUME Market!MarketInv, Market!AttemptChanges \/ Market!OrderFilled
  PROVE  Market!MarketInv'
<1>1. /\ UNCHANGED <<s2, s4, s5, s6, s7, s8, s9, s11, s12>>
      /\ s1 \in Market!Wallets /\ s4 \in Nat /\ s7.seq \in Nat
  BY MarketFacts DEF Market!AttemptChanges, Market!OrderFilled, Market!marketHistory
<1>2. s1' \in Market!Wallets /\ \A a \in DOMAIN s1' : a \in DOMAIN s1 /\ (s1[a] # 0 => s1'[a] = s1[a])
  <2>1. DOMAIN s1 \in SUBSET MarketPayers /\ \A a \in DOMAIN s1 : s1[a] \in MarketCurrencies \cup {0}
    BY <1>1, WalletsTyped
  <2>2. ASSUME NEW b \in DOMAIN s1, s1' = [c \in DOMAIN s1 \ {b} |-> s1[c]]
        PROVE  s1' \in Market!Wallets /\ \A a \in DOMAIN s1' : a \in DOMAIN s1 /\ s1'[a] = s1[a]
    <3>1. s1' \in [DOMAIN s1 \ {b} -> MarketCurrencies \cup {0}] /\ DOMAIN s1 \ {b} \in SUBSET MarketPayers
      BY <2>1, <2>2
    <3> QED BY <2>2, <3>1 DEF Market!Wallets
  <2>3. ASSUME NEW b \in DOMAIN s1, s1[b] = 0, NEW c \in MarketCurrencies, s1' = [s1 EXCEPT ![b] = c]
        PROVE  s1' \in Market!Wallets /\ \A a \in DOMAIN s1' : a \in DOMAIN s1 /\ (s1[a] # 0 => s1'[a] = s1[a])
    <3>1. s1 \in [DOMAIN s1 -> MarketCurrencies \cup {0}]
      BY <1>1, <2>1, WalletsTyped
    <3>2. s1' \in [DOMAIN s1 -> MarketCurrencies \cup {0}]
      BY <2>3, <3>1
    <3> QED BY <2>1, <2>3, <3>2 DEF Market!Wallets
  <2>4. CASE Market!OrderFilled
    BY <1>1, <2>4 DEF Market!OrderFilled
  <2>5. CASE Market!AttemptChanges
    <3>1. PICK a \in MarketPayers :
            \/ a \in DOMAIN s1 /\ s1' = [b \in DOMAIN s1 \ {a} |-> s1[b]]
            \/ a \in DOMAIN s1 /\ s1[a] = 0 /\ \E c \in MarketCurrencies : s1' = [s1 EXCEPT ![a] = c]
      BY <2>5 DEF Market!AttemptChanges
    <3> QED BY <2>2, <2>3, <3>1
  <2> QED BY <2>4, <2>5
<1>3. \A r \in s9 : Market!RequestStands(r)'
  BY <1>1, <1>2, RequestKept
<1>4. Market!KnownOf(s5.accounts)'
  BY <1>1, <1>2, MarketFacts DEF Market!KnownOf
<1>5. Market!DialogStands'
  <2> SUFFICES ASSUME NEW d \in s8, d.kind = "place"
               PROVE  Market!SelectedOf(s5)' \subseteq d.payers /\ s5'.item = d.ware /\ Market!NamedOf(d)'
    BY <1>1 DEF Market!DialogStands
  <2>1. Market!SelectedOf(s5) \subseteq d.payers /\ s5.item = d.ware /\ Market!NamedOf(d)
    BY MarketFacts DEF Market!DialogStands
  <2>2. ASSUME NEW a \in d.payers \cap DOMAIN s1' PROVE d.currencies \subseteq {s1'[a], 0}
    <3>1. a \in DOMAIN s1 /\ d.currencies \subseteq {s1[a], 0} /\ (s1[a] # 0 => s1'[a] = s1[a])
      BY <1>2, <2>1 DEF Market!NamedOf
    <3> QED BY <3>1
  <2> QED BY <1>1, <2>1, <2>2 DEF Market!NamedOf, Market!SelectedOf
<1>6. Market!FindsWhatIsTyped' /\ Market!OwnStands'
  <2>1. Market!FindsWhatIsTyped'
    BY <1>1, MarketFacts DEF Market!FindsWhatIsTyped
  <2> QED BY <1>1, <2>1, OwnGoesOn
<1>7. Market!MarketTyped'
  BY <1>1, <1>2, MarketFacts DEF Market!MarketTyped
<1> QED BY <1>1, <1>3, <1>4, <1>5, <1>6, <1>7, MarketFacts DEF Market!MarketInv

LEMMA KindsAreAsks ==
  /\ Market!AccountsAsks \subseteq Market!Asks /\ Market!OrdersAsks \subseteq Market!Asks /\ Market!SearchAsks \subseteq Market!Asks /\ Market!ContextAsks \subseteq Market!Asks
  /\ Market!PlaceAsks \subseteq Market!Asks /\ Market!CancelAsks \subseteq Market!Asks /\ Market!SyncAsks \subseteq Market!Asks
  /\ \A r \in Market!AccountsAsks : r.kind = "accounts"
  /\ \A r \in Market!OrdersAsks : r.kind = "orders"
  /\ \A r \in Market!SearchAsks : r.kind = "search"
  /\ \A r \in Market!ContextAsks : r.kind = "context"
  /\ \A r \in Market!PlaceAsks : r.kind = "place"
  /\ \A r \in Market!CancelAsks : r.kind = "cancel"
  /\ \A r \in Market!SyncAsks : r.kind = "sync"
  BY DEF Market!Asks, Market!AccountsAsks, Market!OrdersAsks, Market!SearchAsks, Market!ContextAsks, Market!PlaceAsks, Market!CancelAsks, Market!SyncAsks

\* A request that is on its way and neither searches nor places stands.
LEMMA ThereStands ==
  ASSUME NEW r, r.phase = "there", r.kind \notin {"search", "place"}
  PROVE  Market!RequestStands(r)'
  BY DEF Market!RequestStands

LEMMA MarketRefreshKeeps ==
  ASSUME Market!MarketInv, Market!RefreshAccounts
  PROVE  Market!MarketInv'
<1> DEFINE R == {Market!Sent(r) : r \in Market!AccountsAsk}
<1>1. UNCHANGED <<s1, s2, s4, s6, s7, s8, s11, s12>> /\ s9' = s9 \cup R /\ s5' = [s5 EXCEPT !.loadingAccounts = TRUE]
  BY DEF Market!RefreshAccounts, Market!serverSide, Market!marketHistory, Market!Send
<1>2. \A r \in R : r \in Market!AccountsAsks /\ r.phase = "there"
  <2>1. Market!AccountsAsk \subseteq {[kind |-> "accounts"]}
    BY DEF Market!AccountsAsk
  <2> QED BY <2>1, SentTyped
<1>3. R \in SUBSET Market!Asks /\ \A r \in R : Market!RequestStands(r)'
  BY <1>2, KindsAreAsks, ThereStands
<1>4. /\ s5' \in Market!Pages /\ s5'.selected = s5.selected /\ s5'.accounts = s5.accounts
      /\ s5'.context = s5.context /\ s5'.item = s5.item
  BY <1>1, MarketFacts DEF Market!Pages
<1> HIDE DEF R
<1>5. Market!DialogStands'
  BY <1>1, <1>4, MarketFacts DEF Market!DialogStands, Market!SelectedOf, Market!NamedOf
<1>6. s5.context.ware \in {s5.item, None} /\ (~s7.loading => s7.found \in {s7.query, None}) /\ s5.selected \subseteq DOMAIN s5.accounts
  BY MarketFacts DEF Market!FindsWhatIsTyped
<1> QED BY <1>1, <1>3, <1>4, <1>5, <1>6, MarketFacts, MarketSendKeeps

LEMMA SelectKeeps ==
  ASSUME Market!MarketInv, Market!SelectPayers
  PROVE  Market!MarketInv'
<1>1. UNCHANGED <<s1, s2, s4, s6, s7, s8, s9, s11, s12>> /\ s8 = {}
  BY DEF Market!SelectPayers, Market!serverSide, Market!marketHistory
<1>2. s5 \in Market!Pages /\ s5.selected \subseteq DOMAIN s5.accounts /\ DOMAIN s5.accounts \in SUBSET MarketPayers
  BY MarketFacts, WalletsTyped DEF Market!Pages
<1>3. PICK chosen \in Market!AllOfOneCurrency \cup {{}} \cup {s5.selected \cup {a} : a \in {b \in DOMAIN s5.accounts : ~Market!LockedOut(b)}} :
        s5' = [s5 EXCEPT !.selected = chosen]
  BY DEF Market!SelectPayers
<1>4. chosen \subseteq DOMAIN s5.accounts
  <2>1. \A S \in Market!AllOfOneCurrency : S \subseteq DOMAIN s5.accounts
    BY DEF Market!AllOfOneCurrency
  <2> QED BY <1>2, <1>3, <2>1
<1>5. chosen \in SUBSET MarketPayers
  BY <1>2, <1>4
<1>6. /\ s5' \in Market!Pages /\ s5'.selected = chosen /\ s5'.accounts = s5.accounts
      /\ s5'.context = s5.context /\ s5'.item = s5.item
  BY <1>2, <1>3, <1>5 DEF Market!Pages
<1>7. Market!DialogStands'
  BY <1>1 DEF Market!DialogStands
<1>8. s5.context.ware \in {s5.item, None} /\ (~s7.loading => s7.found \in {s7.query, None})
  BY MarketFacts DEF Market!FindsWhatIsTyped
<1>9. s9' = s9 \cup {} /\ {} \in SUBSET Market!Asks
  BY <1>1
<1> QED BY <1>1, <1>4, <1>6, <1>7, <1>8, <1>9, MarketFacts, MarketSendKeeps

LEMMA SearchesKeep ==
  ASSUME Market!MarketInv, Market!OnSearch \/ Market!SearchTimer
  PROVE  Market!MarketInv'
<1>1. /\ UNCHANGED <<s1, s2, s4, s5, s6, s8, s11, s12>>
      /\ s7 \in [query : Market!Things, loading : BOOLEAN, found : Market!Things, seq : Nat, timer : BOOLEAN]
      /\ s5 \in Market!Pages /\ s5.selected \subseteq DOMAIN s5.accounts
      /\ s5.context.ware \in {s5.item, None} /\ (~s7.loading => s7.found \in {s7.query, None})
  BY MarketFacts DEF Market!OnSearch, Market!SearchTimer, Market!serverSide, Market!marketHistory, Market!FindsWhatIsTyped
<1>2. Market!DialogStands'
  BY <1>1, MarketFacts DEF Market!DialogStands, Market!SelectedOf, Market!NamedOf
<1>3. CASE Market!OnSearch
  <2>1. PICK q \in (MarketWares \cup {None}) \ {s7.query} :
          s7' = [s7 EXCEPT !.query = q, !.seq = @ + 1, !.loading = q # None, !.timer = q # None,
                                   !.found = IF q = None THEN None ELSE @]
    BY <1>3 DEF Market!OnSearch
  <2>2. q \in Market!Things /\ None \in Market!Things /\ (q # None) \in BOOLEAN
    BY DEF Market!Things
  <2>3. /\ s7' \in [query : Market!Things, loading : BOOLEAN, found : Market!Things, seq : Nat, timer : BOOLEAN]
        /\ s7'.seq = s7.seq + 1 /\ s7'.query = q /\ (s7'.loading <=> q # None)
        /\ s7'.found = IF q = None THEN None ELSE s7.found
    <3> DEFINE on == q # None
               found == IF q = None THEN None ELSE s7.found
    <3>1. on \in BOOLEAN /\ found \in Market!Things /\ s7.seq + 1 \in Nat
      BY <1>1, <2>2
    <3>2. s7' = [s7 EXCEPT !.query = q, !.seq = s7.seq + 1, !.loading = on, !.timer = on, !.found = found]
      BY <2>1
    <3> HIDE DEF on, found
    <3>3. /\ s7' \in [query : Market!Things, loading : BOOLEAN, found : Market!Things, seq : Nat, timer : BOOLEAN]
          /\ s7'.seq = s7.seq + 1 /\ s7'.query = q /\ (s7'.loading <=> on) /\ s7'.found = found
      BY <1>1, <2>2, <3>1, <3>2
    <3> QED BY <3>3 DEF on, found
  <2>4. s9' = s9 \cup {} /\ {} \in SUBSET Market!Asks
    BY <1>3 DEF Market!OnSearch
  <2>5. s7'.seq > s7.seq /\ (~s7'.loading => s7'.found \in {s7'.query, None})
    BY <1>1, <2>3
  <2> QED BY <1>1, <1>2, <2>3, <2>4, <2>5, MarketFacts, MarketSendKeeps
<1>4. CASE Market!SearchTimer
  <2> DEFINE r == Market!Sent([kind |-> "search", ware |-> s7.query, seq |-> s7.seq])
  <2>1. s7' = [s7 EXCEPT !.timer = FALSE] /\ s9' = s9 \cup {r}
    BY <1>4 DEF Market!SearchTimer, Market!Send
  <2>2. r \in Market!SearchAsks /\ r.phase = "there" /\ r.ware = s7.query /\ r.seq = s7.seq
    BY <1>1, SentTyped
  <2> HIDE DEF r
  <2>3. /\ s7' \in [query : Market!Things, loading : BOOLEAN, found : Market!Things, seq : Nat, timer : BOOLEAN]
        /\ s7'.seq = s7.seq /\ s7'.query = s7.query /\ (s7'.loading <=> s7.loading)
        /\ s7'.found = s7.found
    BY <1>1, <2>1
  <2>4. PICK p \in Market!Asks : p = r
    BY <2>2, KindsAreAsks
  <2>5. Market!RequestStands(p)' /\ {p} \in SUBSET Market!Asks /\ s9' = s9 \cup {p}
    BY <1>1, <2>1, <2>2, <2>3, <2>4, KindsAreAsks DEF Market!RequestStands
  <2> QED BY <1>1, <1>2, <2>3, <2>5, MarketFacts, MarketSendKeeps
<1> QED BY <1>3, <1>4

LEMMA ContextsKeep ==
  ASSUME Market!MarketInv, Market!OnPick \/ Market!QueryContext
  PROVE  Market!MarketInv'
<1>1. /\ UNCHANGED <<s1, s2, s4, s7, s6, s8, s11, s12>> /\ s8 = {}
      /\ s7 \in [query : Market!Things, loading : BOOLEAN, found : Market!Things, seq : Nat, timer : BOOLEAN]
      /\ s5 \in Market!Pages /\ s5.selected \subseteq DOMAIN s5.accounts /\ s5.item \in Market!Things
      /\ s5.context.ware \in {s5.item, None} /\ (~s7.loading => s7.found \in {s7.query, None})
  BY MarketFacts DEF Market!OnPick, Market!QueryContext, Market!serverSide, Market!marketHistory, Market!FindsWhatIsTyped, Market!Pages
<1>2. Market!DialogStands'
  BY <1>1 DEF Market!DialogStands
<1>3. Market!SelectedOf(s5) \subseteq MarketPayers
  BY <1>1 DEF Market!SelectedOf, Market!Pages
<1>4. ASSUME NEW p \in Market!Pages, p.accounts = s5.accounts, p.selected = s5.selected, p.context.ware \in {p.item, None},
             \/ \E a \in Market!SelectedOf(s5) : Market!AskContext(p, a)
             \/ s5' = p /\ UNCHANGED s9
      PROVE  Market!MarketInv'
  <2>1. ASSUME NEW a \in Market!SelectedOf(s5), Market!AskContext(p, a) PROVE Market!MarketInv'
    <3> DEFINE r == Market!Sent([kind |-> "context", ware |-> p.item, payer |-> a])
    <3>1. s9' = s9 \cup {r} /\ s5' = [p EXCEPT !.contextLoading = TRUE]
      BY <2>1 DEF Market!AskContext, Market!Send
    <3>2. /\ s5' \in Market!Pages /\ s5'.accounts = s5.accounts /\ s5'.selected = s5.selected
          /\ s5'.context = p.context /\ s5'.item = p.item /\ p.item \in Market!Things
      BY <1>4, <3>1 DEF Market!Pages
    <3>3. r \in Market!ContextAsks /\ r.phase = "there"
      BY <1>3, <3>2, SentTyped
    <3> HIDE DEF r
    <3>4. PICK q \in Market!Asks : q = r
      BY <3>3, KindsAreAsks
    <3>5. Market!RequestStands(q)' /\ {q} \in SUBSET Market!Asks /\ s9' = s9 \cup {q}
      BY <3>1, <3>3, <3>4, KindsAreAsks, ThereStands
    <3> QED BY <1>1, <1>2, <1>4, <3>2, <3>5, MarketFacts, MarketSendKeeps
  <2>2. ASSUME s5' = p, UNCHANGED s9 PROVE Market!MarketInv'
    <3>1. s9' = s9 \cup {} /\ {} \in SUBSET Market!Asks
      BY <2>2
    <3> QED BY <1>1, <1>2, <1>4, <2>2, <3>1, MarketFacts, MarketSendKeeps
  <2> QED BY <1>4, <2>1, <2>2
<1>5. CASE Market!OnPick
  <2>1. PICK w \in {s7.found, None} \ {s5.item} :
          LET picked == [s5 EXCEPT !.item = w, !.context = Market!NoContext] IN
          IF w # None /\ Market!SelectedOf(s5) # {} THEN \E a \in Market!SelectedOf(s5) : Market!AskContext(picked, a)
          ELSE s5' = picked /\ UNCHANGED s9
    BY <1>5 DEF Market!OnPick
  <2>2. w \in Market!Things /\ Market!NoContext \in Market!Contexts /\ Market!NoContext.ware = None
    BY <1>1 DEF Market!Things, Market!NoContext, Market!Contexts
  <2>3. PICK p : p = [s5 EXCEPT !.item = w, !.context = Market!NoContext]
    OBVIOUS
  <2>4. p \in Market!Pages /\ p.accounts = s5.accounts /\ p.selected = s5.selected /\ p.context = Market!NoContext
    BY <1>1, <2>2, <2>3 DEF Market!Pages
  <2> QED BY <1>4, <2>1, <2>2, <2>3, <2>4
<1>6. CASE Market!QueryContext
  <2>1. PICK a \in Market!SelectedOf(s5) : Market!AskContext(s5, a)
    BY <1>6 DEF Market!QueryContext
  <2>2. PICK p \in Market!Pages : p = s5
    BY <1>1
  <2> QED BY <1>1, <1>4, <2>1, <2>2
<1> QED BY <1>5, <1>6

LEMMA DialogsKeep ==
  ASSUME Market!MarketInv, Market!Place \/ Market!ConfirmCancel \/ Market!SyncOrders
  PROVE  Market!MarketInv'
<1>1. /\ UNCHANGED <<s1, s2, s4, s7, s5, s11, s12>> /\ s8 = {}
      /\ s7 \in [query : Market!Things, loading : BOOLEAN, found : Market!Things, seq : Nat, timer : BOOLEAN]
      /\ s6 \in [orders : SUBSET Market!Orders, at : Nat, visible : SUBSET Market!Ids, syncing : BOOLEAN]
      /\ s5 \in Market!Pages /\ s5.selected \subseteq DOMAIN s5.accounts /\ s5.item \in Market!Things
      /\ s5.context.ware \in {s5.item, None} /\ (~s7.loading => s7.found \in {s7.query, None})
  BY MarketFacts DEF Market!Place, Market!ConfirmCancel, Market!SyncOrders, Market!serverSide, Market!marketHistory, Market!FindsWhatIsTyped, Market!Pages
<1>2. Market!SelectedOf(s5) \in SUBSET MarketPayers /\ s5.accounts \in Market!Wallets
  BY <1>1 DEF Market!SelectedOf, Market!Pages
<1>3. Market!Shown \subseteq Market!Orders
  BY <1>1 DEF Market!Shown
<1>4. CASE Market!Place
  <2> DEFINE d == [kind |-> "place", payers |-> Market!SelectedOf(s5), ware |-> s5.item, currencies |-> Market!SelectedCurrencies(s5)]
  <2>1. s8' = {d} /\ Market!Cardinality(Market!SelectedCurrencies(s5)) = 1 /\ UNCHANGED <<s9, s6>>
    BY <1>4 DEF Market!Place
  <2>2. \A a, b \in Market!SelectedOf(s5) : s5.accounts[a] = s5.accounts[b]
    BY <1>2, <2>1, PayersAgree DEF Market!SelectedCurrencies
  <2>3. Market!SelectedCurrencies(s5) \in SUBSET Nat
    BY <1>2, WalletsTyped DEF Market!SelectedCurrencies, Market!SelectedOf
  <2>4. d \in Market!PlaceDialogs /\ d.payers = Market!SelectedOf(s5) /\ d.ware = s5.item /\ d.currencies = Market!SelectedCurrencies(s5) /\ d.kind = "place"
    BY <1>1, <1>2, <2>3 DEF Market!PlaceDialogs
  <2> HIDE DEF d
  <2>5. ASSUME NEW a \in Market!SelectedOf(s5) \cap DOMAIN s1 PROVE Market!SelectedCurrencies(s5) \subseteq {s1[a], 0}
    <3>1. \A c \in Market!SelectedCurrencies(s5) : c = s5.accounts[a]
      BY <2>2 DEF Market!SelectedCurrencies
    <3>2. s5.accounts[a] # 0 => s1[a] = s5.accounts[a]
      BY MarketFacts DEF Market!KnownOf, Market!SelectedOf
    <3> QED BY <3>1, <3>2
  <2>6. Market!DialogStands'
    <3> SUFFICES ASSUME NEW e \in s8' PROVE Market!SelectedOf(s5)' \subseteq e.payers /\ s5'.item = e.ware /\ Market!NamedOf(e)'
      BY DEF Market!DialogStands
    <3> QED BY <1>1, <2>1, <2>4, <2>5 DEF Market!NamedOf, Market!SelectedOf
  <2>7. s9' = s9 \cup {} /\ {} \in SUBSET Market!Asks /\ s8' \subseteq Market!PlaceDialogs \cup Market!CancelDialogs
    BY <2>1, <2>4
  <2> QED BY <1>1, <2>1, <2>6, <2>7, MarketFacts, MarketSendKeeps
<1>5. CASE Market!ConfirmCancel
  <2>1. PICK o \in Market!Shown : s8' = {[kind |-> "cancel", id |-> o.id]}
    BY <1>5 DEF Market!ConfirmCancel
  <2>2. o.id \in Market!Ids
    BY <1>3, <2>1 DEF Market!Orders
  <2>3. [kind |-> "cancel", id |-> o.id] \in Market!CancelDialogs /\ [kind |-> "cancel", id |-> o.id].kind # "place"
    BY <2>2 DEF Market!CancelDialogs
  <2>4. Market!DialogStands' /\ s8' \subseteq Market!PlaceDialogs \cup Market!CancelDialogs
    BY <2>1, <2>3 DEF Market!DialogStands
  <2>5. s9' = s9 \cup {} /\ {} \in SUBSET Market!Asks /\ UNCHANGED s6
    BY <1>5 DEF Market!ConfirmCancel
  <2> QED BY <1>1, <2>4, <2>5, MarketFacts, MarketSendKeeps
<1>6. CASE Market!SyncOrders
  <2> DEFINE P == IF s5.selected # {} THEN s5.selected ELSE {o.payer : o \in Market!Shown}
             r == Market!Sent([kind |-> "sync", payers |-> P])
  <2>1. s9' = s9 \cup {r} /\ s6' = [s6 EXCEPT !.syncing = TRUE] /\ UNCHANGED s8
    BY <1>6 DEF Market!SyncOrders, Market!Send
  <2>2. P \in SUBSET MarketPayers
    <3>1. s5.selected \in SUBSET MarketPayers /\ {o.payer : o \in Market!Shown} \in SUBSET MarketPayers
      BY <1>1, <1>3 DEF Market!Pages, Market!Orders
    <3> QED BY <3>1
  <2> HIDE DEF P
  <2>3. r \in Market!SyncAsks /\ r.phase = "there"
    BY <2>2, SentTyped
  <2> HIDE DEF r
  <2>4. PICK q \in Market!Asks : q = r
    BY <2>3, KindsAreAsks
  <2>5. Market!RequestStands(q)' /\ {q} \in SUBSET Market!Asks /\ s9' = s9 \cup {q}
    BY <2>1, <2>3, <2>4, KindsAreAsks, ThereStands
  <2>6. s6' \in [orders : SUBSET Market!Orders, at : Nat, visible : SUBSET Market!Ids, syncing : BOOLEAN] /\ s6'.at = s6.at
    BY <1>1, <2>1
  <2>7. Market!DialogStands'
    BY <1>1, <2>1 DEF Market!DialogStands
  <2> QED BY <1>1, <2>1, <2>5, <2>6, <2>7, MarketFacts, MarketSendKeeps
<1> QED BY <1>4, <1>5, <1>6

\* The dialog is answered: what it named is sent.
LEMMA OnDialogKeeps ==
  ASSUME Market!MarketInv, Market!OnDialog
  PROVE  Market!MarketInv'
<1>1. /\ UNCHANGED <<s1, s2, s4, s7, s6, s11, s12>> /\ s8' = {}
      /\ s7 \in [query : Market!Things, loading : BOOLEAN, found : Market!Things, seq : Nat, timer : BOOLEAN]
      /\ s5 \in Market!Pages /\ s5.selected \subseteq DOMAIN s5.accounts /\ s5.item \in Market!Things
      /\ s5.context.ware \in {s5.item, None} /\ (~s7.loading => s7.found \in {s7.query, None})
  BY MarketFacts DEF Market!OnDialog, Market!serverSide, Market!marketHistory, Market!FindsWhatIsTyped, Market!Pages
<1>2. Market!DialogStands'
  BY <1>1 DEF Market!DialogStands
<1>3. PICK d \in s8 : Market!PlaceOrders(d) \/ Market!CancelOrder(d) \/ UNCHANGED <<s5, s9>>
  BY DEF Market!OnDialog
<1>4. d \in Market!PlaceDialogs \/ d \in Market!CancelDialogs
  BY MarketFacts
<1>5. CASE Market!PlaceOrders(d)
  <2> DEFINE r == Market!Sent([kind |-> "place", payers |-> Market!SelectedOf(s5), ware |-> s5.item, said |-> d])
  <2>1. d \in Market!PlaceDialogs /\ d.kind = "place" /\ s9' = s9 \cup {r} /\ s5' = [s5 EXCEPT !.placing = TRUE]
    BY <1>4, <1>5 DEF Market!PlaceOrders, Market!Send, Market!CancelDialogs
  <2>2. Market!SelectedOf(s5) \in SUBSET MarketPayers
    BY <1>1 DEF Market!SelectedOf, Market!Pages
  <2>3. r \in Market!PlaceAsks /\ r.phase = "there" /\ r.payers = Market!SelectedOf(s5) /\ r.ware = s5.item /\ r.said = d
    BY <1>1, <2>1, <2>2, SentTyped
  <2> HIDE DEF r
  <2>4. Market!SelectedOf(s5) \subseteq d.payers /\ s5.item = d.ware /\ Market!NamedOf(d)
    BY <2>1, MarketFacts DEF Market!DialogStands
  <2>5. PICK q \in Market!Asks : q = r
    BY <2>3, KindsAreAsks
  <2>6. Market!RequestStands(q)'
    <3>1. Market!NamedOf(d)'
      BY <1>1, <2>4 DEF Market!NamedOf
    <3>2. q.phase = "there" /\ q.kind = "place" /\ q.payers \subseteq q.said.payers /\ q.ware = q.said.ware /\ q.said = d
      BY <2>3, <2>4, <2>5, KindsAreAsks
    <3> QED BY <3>1, <3>2 DEF Market!RequestStands
  <2>7. {q} \in SUBSET Market!Asks /\ s9' = s9 \cup {q}
    BY <2>1, <2>5
  <2>8. /\ s5' \in Market!Pages /\ s5'.selected = s5.selected /\ s5'.accounts = s5.accounts
        /\ s5'.context = s5.context /\ s5'.item = s5.item
    BY <1>1, <2>1 DEF Market!Pages
  <2> QED BY <1>1, <1>2, <2>6, <2>7, <2>8, MarketFacts, MarketSendKeeps
<1>6. CASE Market!CancelOrder(d)
  <2>1. d \in Market!CancelDialogs /\ s9' = s9 \cup {Market!Sent(d)} /\ UNCHANGED s5
    BY <1>4, <1>6 DEF Market!CancelOrder, Market!Send, Market!PlaceDialogs
  <2>2. PICK q \in Market!Asks : q = Market!Sent(d)
    BY <2>1, SentTyped, KindsAreAsks
  <2>3. Market!RequestStands(q)' /\ {q} \in SUBSET Market!Asks /\ s9' = s9 \cup {q}
    BY <2>1, <2>2, SentTyped, KindsAreAsks, ThereStands
  <2> QED BY <1>1, <1>2, <2>1, <2>3, MarketFacts, MarketSendKeeps
<1>7. CASE UNCHANGED <<s5, s9>>
  <2>1. s9' = s9 \cup {} /\ {} \in SUBSET Market!Asks
    BY <1>7
  <2> QED BY <1>1, <1>2, <1>7, <2>1, MarketFacts, MarketSendKeeps
<1> QED BY <1>3, <1>5, <1>6, <1>7

\* An answer reaches the page.
LEMMA AnsweredKeeps ==
  ASSUME Market!MarketInv, Market!MarketAnswered
  PROVE  Market!MarketInv'
<1>1. /\ UNCHANGED <<s1, s2, s4, s8>>
      /\ s7 \in [query : Market!Things, loading : BOOLEAN, found : Market!Things, seq : Nat, timer : BOOLEAN]
      /\ s6 \in [orders : SUBSET Market!Orders, at : Nat, visible : SUBSET Market!Ids, syncing : BOOLEAN]
      /\ s5 \in Market!Pages /\ s5.selected \subseteq DOMAIN s5.accounts /\ s5.item \in Market!Things
      /\ s5.context.ware \in {s5.item, None} /\ (~s7.loading => s7.found \in {s7.query, None})
      /\ s9 \subseteq Market!Asks /\ s11 \in Nat /\ s12 \in BOOLEAN /\ s4 \in Nat /\ Market!KnownOf(s5.accounts) /\ Market!DialogStands
      /\ s8 \subseteq Market!PlaceDialogs \cup Market!CancelDialogs
      /\ s11 <= s4
      /\ ~s12 => s6.at >= s11 \/ \E q \in s9 : q.kind = "orders" /\ (q.phase = "back" => Market!Is(q).at >= s11)
  BY MarketFacts DEF Market!MarketAnswered, Market!serverSide, Market!FindsWhatIsTyped, Market!Pages, Market!OwnStands
<1>2. PICK r \in s9 :
        /\ r.phase = "back"
        /\ \/ Market!Received(r) /\ s9' = s9 \ {r}
           \/ (Market!GotPlaced(r) \/ Market!GotCancelled(r)) /\ s9' = (s9 \ {r}) \cup Market!Reread(r)
              /\ UNCHANGED <<s5, s7, s12>>
  BY DEF Market!MarketAnswered
<1>3. /\ r \in Market!Asks /\ Market!RequestStands(r)
      /\ r.kind = "accounts" => Market!Is(r) \in Market!Wallets
      /\ r.kind = "orders" => Market!Is(r) \in [orders : SUBSET Market!Orders, at : Nat]
      /\ r.kind = "search" => Market!Is(r) \in Market!Things
      /\ r.kind = "context" => Market!Is(r) \in Market!Contexts
      /\ r.kind = "place" => Market!Is(r) \in [ids : SUBSET Market!Ids, at : Nat]
      /\ r.kind = "cancel" => Market!Is(r) \in [at : Nat]
      /\ r.kind = "sync" => Market!Is(r) \in [orders : SUBSET Market!Orders, at : Nat, synced : SUBSET MarketPayers]
  BY <1>2, AnswerTyped
<1>4. /\ r.kind \in {"orders", "place", "cancel", "sync"} => Market!Is(r).at <= s4 /\ Market!Is(r).at \in Nat
      /\ r.kind = "search" => Market!Is(r) = r.ware /\ (r.seq = s7.seq => r.ware = s7.query)
      /\ r.kind = "context" => Market!Is(r).ware = r.ware
      /\ r.kind = "accounts" => Market!KnownOf(Market!Is(r))
  BY <1>2, <1>3 DEF Market!RequestStands
<1>5. \A q : Market!Is(q)' = Market!Is(q)
  BY DEF Market!Is
<1>6. ASSUME s5'.item = s5.item, Market!SelectedOf(s5)' \subseteq Market!SelectedOf(s5) PROVE Market!DialogStands'
  BY <1>1, <1>6 DEF Market!DialogStands, Market!NamedOf
<1>7. ASSUME s9' = s9 \ {r}, r.kind # "orders", UNCHANGED <<s6, s11, s12>> PROVE Market!OwnStands'
  BY <1>1, <1>7, OwnGoesOn
<1>8. CASE Market!GotAccounts(r) /\ s9' = s9 \ {r}
  <2>1. /\ r.kind = "accounts" /\ UNCHANGED <<s6, s7, s11, s12>>
        /\ s5' = [s5 EXCEPT !.accounts = Market!Is(r), !.selected = s5.selected \cap DOMAIN Market!Is(r), !.loadingAccounts = FALSE]
    BY <1>8 DEF Market!GotAccounts, Market!marketHistory
  <2>2. Market!Is(r) \in Market!Wallets /\ Market!KnownOf(Market!Is(r)) /\ s5.selected \cap DOMAIN Market!Is(r) \in SUBSET MarketPayers
    BY <1>1, <1>3, <1>4, <2>1 DEF Market!Pages
  <2>3. /\ s5' \in Market!Pages /\ s5'.accounts = Market!Is(r) /\ s5'.selected = s5.selected \cap DOMAIN Market!Is(r)
        /\ s5'.item = s5.item /\ s5'.context = s5.context
    <3> DEFINE selected == s5.selected \cap DOMAIN Market!Is(r)
               known == Market!Is(r)
    <3>1. s5' = [s5 EXCEPT !.accounts = known, !.selected = selected, !.loadingAccounts = FALSE] /\ known \in Market!Wallets /\ selected \in SUBSET MarketPayers
      BY <2>1, <2>2
    <3> HIDE DEF selected, known
    <3>2. /\ s5' \in Market!Pages /\ s5'.accounts = known /\ s5'.selected = selected /\ s5'.item = s5.item /\ s5'.context = s5.context
      BY <1>1, <3>1 DEF Market!Pages
    <3> QED BY <3>2 DEF selected, known
  <2>4. Market!SelectedOf(s5)' \subseteq Market!SelectedOf(s5)
    BY <1>1, <2>3 DEF Market!SelectedOf
  <2>5. Market!KnownOf(s5.accounts)' /\ Market!FindsWhatIsTyped' /\ s5'.selected \subseteq DOMAIN s5'.accounts
    BY <1>1, <2>1, <2>2, <2>3 DEF Market!KnownOf, Market!FindsWhatIsTyped
  <2> QED BY <1>1, <1>6, <1>7, <1>8, <2>1, <2>3, <2>4, <2>5, MarketGoesOn
<1>9. CASE Market!GotSearch(r) /\ s9' = s9 \ {r}
  <2>1. /\ r.kind = "search" /\ UNCHANGED <<s5, s6, s11, s12>>
        /\ s7' = IF r.seq = s7.seq THEN [s7 EXCEPT !.found = Market!Is(r), !.loading = FALSE] ELSE s7
    BY <1>9 DEF Market!GotSearch, Market!marketHistory
  <2>2. /\ s7' \in [query : Market!Things, loading : BOOLEAN, found : Market!Things, seq : Nat, timer : BOOLEAN]
        /\ s7'.seq = s7.seq /\ s7'.query = s7.query /\ (~s7'.loading => s7'.found \in {s7'.query, None})
    <3>1. Market!Is(r) \in Market!Things
      BY <1>3, <2>1
    <3>2. CASE r.seq = s7.seq
      <4>1. s7' = [s7 EXCEPT !.found = Market!Is(r), !.loading = FALSE]
        BY <2>1, <3>2
      <4>2. /\ s7' \in [query : Market!Things, loading : BOOLEAN, found : Market!Things, seq : Nat, timer : BOOLEAN]
            /\ s7'.seq = s7.seq /\ s7'.query = s7.query /\ s7'.found = Market!Is(r)
        BY <1>1, <3>1, <4>1
      <4> QED BY <1>4, <2>1, <3>2, <4>2
    <3>3. CASE r.seq # s7.seq
      BY <1>1, <2>1, <3>3
    <3> QED BY <3>2, <3>3
  <2>3. Market!FindsWhatIsTyped' /\ Market!KnownOf(s5.accounts)' /\ Market!DialogStands'
    BY <1>1, <1>6, <2>1, <2>2 DEF Market!FindsWhatIsTyped, Market!KnownOf, Market!SelectedOf
  <2> QED BY <1>1, <1>7, <1>9, <2>1, <2>2, <2>3, MarketGoesOn
<1>10. CASE Market!GotContext(r) /\ s9' = s9 \ {r}
  <2> DEFINE context == IF s5.item = r.ware THEN Market!Is(r) ELSE s5.context
  <2>1. /\ r.kind = "context" /\ UNCHANGED <<s6, s7, s11, s12>>
        /\ s5' = [s5 EXCEPT !.contextLoading = FALSE, !.context = context]
    BY <1>10 DEF Market!GotContext, Market!marketHistory
  <2>2. context \in Market!Contexts /\ context.ware \in {s5.item, None}
    BY <1>1, <1>3, <1>4, <2>1 DEF Market!Pages
  <2> HIDE DEF context
  <2>3. /\ s5' \in Market!Pages /\ s5'.accounts = s5.accounts /\ s5'.selected = s5.selected
        /\ s5'.item = s5.item /\ s5'.context = context
    BY <1>1, <2>1, <2>2 DEF Market!Pages
  <2>4. Market!KnownOf(s5.accounts)' /\ Market!FindsWhatIsTyped' /\ Market!DialogStands'
    BY <1>1, <1>6, <2>1, <2>2, <2>3 DEF Market!KnownOf, Market!FindsWhatIsTyped, Market!SelectedOf
  <2> QED BY <1>1, <1>7, <1>10, <2>1, <2>3, <2>4, MarketGoesOn
<1>11. CASE Market!GotOrders(r) /\ s9' = s9 \ {r}
  <2>1. /\ r.kind = "orders" /\ UNCHANGED <<s7, s11>>
        /\ s6' = [s6 EXCEPT !.orders = Market!Is(r).orders, !.at = Market!Is(r).at]
        /\ s5' = IF r.after = "place" THEN [s5 EXCEPT !.placing = FALSE] ELSE s5
        /\ s12' = (s12 \/ Market!Is(r).at < s6.at)
    BY <1>11 DEF Market!GotOrders
  <2>2. /\ s6' \in [orders : SUBSET Market!Orders, at : Nat, visible : SUBSET Market!Ids, syncing : BOOLEAN] /\ s6'.at = Market!Is(r).at
    BY <1>1, <1>3, <2>1
  <2>3. /\ s5' \in Market!Pages /\ s5'.accounts = s5.accounts /\ s5'.selected = s5.selected
        /\ s5'.item = s5.item /\ s5'.context = s5.context
    BY <1>1, <2>1 DEF Market!Pages
  <2>4. Market!KnownOf(s5.accounts)' /\ Market!FindsWhatIsTyped' /\ Market!DialogStands'
    BY <1>1, <1>6, <2>1, <2>3 DEF Market!KnownOf, Market!FindsWhatIsTyped, Market!SelectedOf
  <2>5. Market!OwnStands'
    <3>1. s11' <= s4'
      BY <1>1, <2>1
    <3>2. ASSUME ~s12' PROVE s6'.at >= s11' \/ \E q \in s9' : q.kind = "orders" /\ (q.phase = "back" => Market!Is(q).at >= s11')
      <4>1. ~s12 /\ Market!Is(r).at >= s6.at
        <5>1. ~s12 /\ ~(Market!Is(r).at < s6.at)
          BY <2>1, <3>2, Zenon
        <5>2. Market!Is(r).at \in Nat /\ s6.at \in Nat
          BY <1>1, <1>4, <2>1
        <5> QED BY <5>1, <5>2
      <4>2. CASE s6.at >= s11
        BY <1>1, <1>4, <2>1, <2>2, <4>1, <4>2
      <4>3. ASSUME NEW q \in s9, q.kind = "orders", q.phase = "back" => Market!Is(q).at >= s11
            PROVE  s6'.at >= s11' \/ \E p \in s9' : p.kind = "orders" /\ (p.phase = "back" => Market!Is(p).at >= s11')
        <5>1. CASE q = r
          BY <1>2, <2>1, <2>2, <4>3, <5>1
        <5>2. CASE q # r
          BY <1>11, <2>1, <4>3, <5>2
        <5> QED BY <5>1, <5>2
      <4> QED BY <1>1, <4>1, <4>2, <4>3
    <3> QED BY <1>5, <3>1, <3>2 DEF Market!OwnStands
  <2>6. s12' \in BOOLEAN /\ s9' \subseteq s9
    BY <1>11, <2>1
  <2> QED BY <1>1, <1>11, <2>1, <2>2, <2>3, <2>4, <2>5, <2>6, MarketGoesOn
<1>12. CASE Market!GotSync(r) /\ s9' = s9 \ {r}
  <2> DEFINE visible == {o.id : o \in {p \in Market!Is(r).orders : p.payer \in Market!Is(r).synced}}
  <2>1. /\ r.kind = "sync" /\ UNCHANGED <<s7, s5>> /\ s11' = Market!Is(r).at
        /\ s6' = [orders |-> Market!Is(r).orders, at |-> Market!Is(r).at, syncing |-> FALSE, visible |-> visible]
        /\ s12' = (s12 \/ Market!Is(r).at < s6.at)
    BY <1>12 DEF Market!GotSync
  <2>2. visible \in SUBSET Market!Ids
    BY <1>3, <2>1 DEF Market!Orders
  <2> HIDE DEF visible
  <2>3. /\ s6' \in [orders : SUBSET Market!Orders, at : Nat, visible : SUBSET Market!Ids, syncing : BOOLEAN] /\ s6'.at = Market!Is(r).at
    BY <1>3, <2>1, <2>2
  <2>4. Market!KnownOf(s5.accounts)' /\ Market!FindsWhatIsTyped' /\ Market!DialogStands'
    BY <1>1, <1>6, <2>1 DEF Market!KnownOf, Market!FindsWhatIsTyped, Market!SelectedOf
  <2>5. Market!OwnStands'
    BY <1>1, <1>4, <2>1, <2>3 DEF Market!OwnStands
  <2>6. s12' \in BOOLEAN /\ s9' \subseteq s9 /\ s11' \in Nat
    BY <1>4, <1>12, <2>1
  <2> QED BY <1>1, <2>1, <2>3, <2>4, <2>5, <2>6, MarketGoesOn
<1>13. CASE (Market!GotPlaced(r) \/ Market!GotCancelled(r)) /\ s9' = (s9 \ {r}) \cup Market!Reread(r) /\ UNCHANGED <<s5, s7, s12>>
  <2> DEFINE s == Market!Sent([kind |-> "orders", after |-> r.kind])
  <2>1. r.kind \in {"place", "cancel"} /\ s11' = Market!Is(r).at /\ s9' = (s9 \ {r}) \cup {s}
    BY <1>13 DEF Market!GotPlaced, Market!GotCancelled, Market!Reread
  <2>2. s \in Market!OrdersAsks /\ s.phase = "there"
    BY <2>1, SentTyped
  <2> HIDE DEF s
  <2>3. s \in Market!Asks /\ s.kind = "orders" /\ Market!RequestStands(s)'
    <3>1. PICK q \in Market!Asks : q = s
      BY <2>2, KindsAreAsks
    <3>2. s \in Market!Asks /\ s.kind = "orders"
      BY <2>2, KindsAreAsks
    <3>3. Market!RequestStands(q)'
      BY <2>2, <3>1, <3>2, ThereStands
    <3> QED BY <3>1, <3>2, <3>3
  <2>4. s6' \in [orders : SUBSET Market!Orders, at : Nat, visible : SUBSET Market!Ids, syncing : BOOLEAN] /\ s6'.at = s6.at
    <3>1. CASE Market!GotPlaced(r)
      <4>1. s6' = [s6 EXCEPT !.visible = Market!Is(r).ids] /\ Market!Is(r).ids \in SUBSET Market!Ids
        BY <1>3, <3>1 DEF Market!GotPlaced
      <4> QED BY <1>1, <4>1
    <3>2. CASE Market!GotCancelled(r)
      BY <1>1, <3>2 DEF Market!GotCancelled
    <3> QED BY <1>13, <3>1, <3>2
  <2>5. Market!KnownOf(s5.accounts)' /\ Market!FindsWhatIsTyped' /\ Market!DialogStands'
    BY <1>1, <1>6, <1>13 DEF Market!KnownOf, Market!FindsWhatIsTyped, Market!SelectedOf
  <2>6. Market!OwnStands'
    <3>1. s11' <= s4' /\ s11' \in Nat
      BY <1>1, <1>4, <2>1
    <3>2. PICK q \in s9' : q = s
      BY <2>1
    <3>3. \E p \in s9' : p.kind = "orders" /\ p.phase = "there"
      BY <2>2, <2>3, <3>2
    <3>4. Market!OwnStands' <=>
             /\ s11' <= s4'
             /\ ~s12' => s6'.at >= s11' \/ \E p \in s9' : p.kind = "orders" /\ (p.phase = "back" => Market!Is(p).at >= s11')
      BY <1>5 DEF Market!OwnStands
    <3> QED BY <3>1, <3>3, <3>4
  <2>7. \A q \in s9' : q \in s9 \/ Market!RequestStands(q)'
    BY <2>1, <2>3
  <2>8. s9' \subseteq Market!Asks /\ s11' \in Nat
    BY <1>1, <1>4, <2>1, <2>3
  <2> QED BY <1>1, <1>13, <2>4, <2>5, <2>6, <2>7, <2>8, MarketGoesOn
<1> QED BY <1>2, <1>8, <1>9, <1>10, <1>11, <1>12, <1>13 DEF Market!Received

\* A request fails.
LEMMA FailedKeeps ==
  ASSUME Market!MarketInv, Market!AskFailed
  PROVE  Market!MarketInv'
<1>1. /\ UNCHANGED <<s1, s2, s4, s8, s11>>
      /\ s7 \in [query : Market!Things, loading : BOOLEAN, found : Market!Things, seq : Nat, timer : BOOLEAN]
      /\ s6 \in [orders : SUBSET Market!Orders, at : Nat, visible : SUBSET Market!Ids, syncing : BOOLEAN]
      /\ s5 \in Market!Pages /\ s5.selected \subseteq DOMAIN s5.accounts /\ s5.item \in Market!Things /\ s5.context \in Market!Contexts
      /\ s5.context.ware \in {s5.item, None} /\ (~s7.loading => s7.found \in {s7.query, None})
      /\ s9 \subseteq Market!Asks /\ s11 \in Nat /\ s12 \in BOOLEAN /\ Market!KnownOf(s5.accounts) /\ Market!DialogStands
      /\ s8 \subseteq Market!PlaceDialogs \cup Market!CancelDialogs
  BY MarketFacts DEF Market!AskFailed, Market!serverSide, Market!FindsWhatIsTyped, Market!Pages
<1>2. PICK r \in s9 :
       /\ s9' = s9 \ {r}
       /\ s5' = [s5 EXCEPT !.loadingAccounts = @ /\ r.kind # "accounts",
                               !.contextLoading = @ /\ r.kind # "context",
                               !.context = IF r.kind = "context" /\ s5.item = r.ware THEN Market!NoContext ELSE @,
                               !.placing = @ /\ ~(r.kind = "place" \/ (r.kind = "orders" /\ r.after = "place"))]
       /\ s7' = IF r.kind = "search" /\ r.seq = s7.seq
                    THEN [s7 EXCEPT !.found = None, !.loading = FALSE] ELSE s7
       /\ s6' = [s6 EXCEPT !.syncing = @ /\ r.kind # "sync"]
       /\ s12' = (s12 \/ r.kind = "orders")
  BY DEF Market!AskFailed
<1> DEFINE loading == s5.loadingAccounts /\ r.kind # "accounts"
           contextLoading == s5.contextLoading /\ r.kind # "context"
           context == IF r.kind = "context" /\ s5.item = r.ware THEN Market!NoContext ELSE s5.context
           placing == s5.placing /\ ~(r.kind = "place" \/ (r.kind = "orders" /\ r.after = "place"))
           syncing == s6.syncing /\ r.kind # "sync"
<1>3. s5' = [s5 EXCEPT !.loadingAccounts = loading, !.contextLoading = contextLoading, !.context = context, !.placing = placing]
      /\ s6' = [s6 EXCEPT !.syncing = syncing]
  BY <1>2
<1>4. loading \in BOOLEAN /\ contextLoading \in BOOLEAN /\ placing \in BOOLEAN /\ syncing \in BOOLEAN
  OBVIOUS
<1>5. context \in Market!Contexts /\ context.ware \in {s5.item, None}
  <2>1. Market!NoContext \in Market!Contexts /\ Market!NoContext.ware = None
    BY DEF Market!NoContext, Market!Contexts, Market!Things
  <2> QED BY <1>1, <2>1
<1> HIDE DEF loading, contextLoading, context, placing, syncing
<1>6. /\ s5' \in Market!Pages /\ s5'.accounts = s5.accounts /\ s5'.selected = s5.selected
      /\ s5'.item = s5.item /\ s5'.context = context
  BY <1>1, <1>3, <1>4, <1>5 DEF Market!Pages
<1>7. s6' \in [orders : SUBSET Market!Orders, at : Nat, visible : SUBSET Market!Ids, syncing : BOOLEAN] /\ s6'.at = s6.at
  BY <1>1, <1>3, <1>4
<1>8. /\ s7' \in [query : Market!Things, loading : BOOLEAN, found : Market!Things, seq : Nat, timer : BOOLEAN]
      /\ s7'.seq = s7.seq /\ s7'.query = s7.query /\ (~s7'.loading => s7'.found \in {s7'.query, None})
  <2>1. None \in Market!Things
    BY DEF Market!Things
  <2> QED BY <1>1, <1>2, <2>1
<1>9. Market!DialogStands' /\ Market!KnownOf(s5.accounts)' /\ Market!FindsWhatIsTyped'
  BY <1>1, <1>5, <1>6, <1>8 DEF Market!DialogStands, Market!NamedOf, Market!SelectedOf, Market!KnownOf, Market!FindsWhatIsTyped
<1>10. s12' \in BOOLEAN /\ s9' \subseteq s9
  BY <1>2
<1>11. Market!OwnStands'
  <2>1. CASE r.kind = "orders"
    <3>1. s12' /\ s11 <= s4
      BY <1>2, <2>1, MarketFacts DEF Market!OwnStands
    <3> QED BY <1>1, <3>1 DEF Market!OwnStands
  <2>2. CASE r.kind # "orders"
    <3>1. s12' <=> s12
      BY <1>2, <2>2
    <3>2. \A q : Market!Is(q)' = Market!Is(q)
      BY DEF Market!Is
    <3>3. Market!OwnStands
      BY MarketFacts
    <3>4. \A q \in s9 : q.kind = "orders" => q \in s9'
      BY <1>2, <2>2
    <3> QED BY <1>1, <1>7, <3>1, <3>2, <3>3, <3>4 DEF Market!OwnStands
  <2> QED BY <2>1, <2>2
<1> QED BY <1>1, <1>6, <1>7, <1>8, <1>9, <1>10, <1>11, MarketGoesOn

LEMMA MarketPageStarts == Market!MarketPageInit => Market!MarketInv
<1> SUFFICES ASSUME Market!MarketPageInit PROVE Market!MarketInv
  OBVIOUS
<1>1. None \in Market!Things /\ Market!NoContext \in Market!Contexts /\ Market!NoContext.ware = None
  BY DEF Market!Things, Market!NoContext, Market!Contexts
<1>2. s1 \in Market!Wallets /\ <<>> \in Market!Wallets /\ DOMAIN <<>> = {}
  <2>1. s1 \in [MarketPayers -> MarketCurrencies \cup {0}] /\ MarketPayers \in SUBSET MarketPayers
    BY DEF Market!MarketPageInit
  <2>2. DOMAIN <<>> = {}
    OBVIOUS
  <2>3. <<>> \in [{} -> MarketCurrencies \cup {0}]
    BY <2>2
  <2> QED BY <2>1, <2>2, <2>3 DEF Market!Wallets
<1>3. s5 \in Market!Pages /\ s5.selected = {} /\ s5.accounts = <<>> /\ s5.context = Market!NoContext
  <2> DEFINE none == <<>>
  <2>1. s5 = [accounts |-> none, selected |-> {}, loadingAccounts |-> TRUE, item |-> None, context |-> Market!NoContext,
                contextLoading |-> FALSE, placing |-> FALSE] /\ none \in Market!Wallets
    BY <1>2 DEF Market!MarketPageInit
  <2> HIDE DEF none
  <2>2. s5 \in Market!Pages /\ s5.selected = {} /\ s5.accounts = none /\ s5.context = Market!NoContext
    BY <1>1, <2>1 DEF Market!Pages
  <2> QED BY <2>2 DEF none
<1>4. /\ s6 \in [orders : SUBSET Market!Orders, at : Nat, visible : SUBSET Market!Ids, syncing : BOOLEAN] /\ s6.at = 0
      /\ s7 \in [query : Market!Things, loading : BOOLEAN, found : Market!Things, seq : Nat, timer : BOOLEAN] /\ s7.found = None
      /\ s2 = {} /\ s8 = {} /\ s11 = 0 /\ s12 = FALSE /\ s4 = 1
  BY <1>1 DEF Market!MarketPageInit
<1>5. ASSUME NEW r \in s9 PROVE r \in Market!Asks /\ Market!RequestStands(r)
  <2>1. r \in Market!Asks /\ r.phase = "there" /\ r.kind \in {"accounts", "orders"}
    BY SentTyped, KindsAreAsks DEF Market!MarketPageInit
  <2> QED BY <2>1 DEF Market!RequestStands
<1>6. Market!MarketTyped
  BY <1>2, <1>3, <1>4, <1>5 DEF Market!MarketTyped
<1>7. Market!FindsWhatIsTyped /\ Market!KnownOf(s5.accounts) /\ Market!DialogStands /\ Market!OwnStands
  <2>1. s5.context.ware = None /\ DOMAIN s5.accounts = {}
    BY <1>1, <1>2, <1>3
  <2>2. Market!FindsWhatIsTyped
    BY <1>4, <2>1 DEF Market!FindsWhatIsTyped
  <2>3. Market!KnownOf(s5.accounts)
    BY <2>1 DEF Market!KnownOf
  <2>4. Market!DialogStands /\ Market!OwnStands
    BY <1>4 DEF Market!DialogStands, Market!OwnStands
  <2> QED BY <2>2, <2>3, <2>4
<1> QED BY <1>2, <1>3, <1>4, <1>5, <1>6, <1>7 DEF Market!MarketInv

\* Every step keeps it.
LEMMA MarketPageStep == Market!MarketInv /\ [Market!MarketPageNext]_Market!marketPageVars => Market!MarketInv'
<1> SUFFICES ASSUME Market!MarketInv, [Market!MarketPageNext]_Market!marketPageVars PROVE Market!MarketInv'
  OBVIOUS
<1>1. ASSUME Market!MarketHandled PROVE Market!MarketInv'
  <2>1. UNCHANGED <<s1, s5, s6, s7, s8, s11, s12>>
    BY <1>1 DEF Market!MarketHandled, Market!marketHistory
  <2>2. PICK r \in s9 : r.phase = "there" /\ ( Market!HandleAccounts(r) \/ Market!HandleOrders(r) \/ Market!HandleSearch(r) \/ Market!HandleContext(r)
                                          \/ Market!HandlePlace(r) \/ Market!HandleCancel(r) \/ Market!HandleSync(r) )
    BY <1>1 DEF Market!MarketHandled
  <2> QED BY <2>1, <2>2, ReadsHandled, PlacesHandled, CancelsHandled
<1>2. CASE UNCHANGED Market!marketPageVars
  <2>1. UNCHANGED <<s1, s2, s4, s5, s6, s7, s8, s9, s11, s12>>
    BY <1>2 DEF Market!marketPageVars, Market!serverSide, Market!marketHistory
  <2>2. Market!OwnStands'
    BY <2>1, OwnGoesOn
  <2>3. Market!FindsWhatIsTyped' /\ s5'.selected \subseteq DOMAIN s5'.accounts /\ Market!KnownOf(s5.accounts)' /\ Market!DialogStands'
    BY <2>1, MarketFacts DEF Market!FindsWhatIsTyped, Market!KnownOf, Market!DialogStands, Market!NamedOf, Market!SelectedOf
  <2> QED BY <2>1, <2>2, <2>3, MarketFacts, MarketGoesOn
<1> QED BY <1>1, <1>2, OthersKeep, AnsweredKeeps, FailedKeeps, MarketRefreshKeeps, SelectKeeps, SearchesKeep, ContextsKeep,
           DialogsKeep, OnDialogKeeps DEF Market!MarketPageNext

LEMMA MarketPageHolds == Market!MarketInv => Market!MarketPageKept
<1> SUFFICES ASSUME Market!MarketInv PROVE Market!MarketPageKept
  OBVIOUS
<1>1. Market!FindsWhatIsTyped /\ Market!OwnStands /\ \A r \in s9 : Market!RequestStands(r)
  BY MarketFacts
<1>2. ASSUME NEW r \in s9, r.kind = "place", r.phase = "back"
      PROVE  Market!Cardinality({o.currency : o \in Market!PlacedOf(r)}) <= 1
  <2>1. \A x, y \in {o.currency : o \in Market!PlacedOf(r)} : x = y
    BY <1>1, <1>2 DEF Market!RequestStands
  <2> QED BY <2>1, AtMostOne
<1>3. Market!PlacesWhatWasConfirmed
  BY <1>1, <1>2 DEF Market!PlacesWhatWasConfirmed, Market!RequestStands, Market!PlacedOf
<1>4. Market!OwnIsShown
  BY <1>1 DEF Market!OwnIsShown, Market!OwnStands, Market!AskedFor
<1> QED BY <1>1, <1>3, <1>4 DEF Market!MarketPageKept

-----------------------------------------------------------------------------
(* The page of mobile confirmations.                                       *)
Conf == INSTANCE ConfirmationsPage WITH
  Holders <- ConfHolders, Items <- ConfItems, HolderOf <- ConfHolderOf, Devices <- ConfDevices, RateWaits <- ConfWaits,
  MaxAsks <- ConfAsks, MaxRefused <- ConfRefused, Nobody <- None, NoList <- None,
  waiting <- s1, lists <- s2, queues <- s3, working <- s4, replies <- s5, page <- s6, answered <- s7,
  unheard <- s8, asks <- s9
ASSUME ConfirmationsAssumed == Conf!ConfirmationConstants

LEMMA ConfNumbers ==
  /\ ConfDevices \in Seq(Conf!DeviceIds) /\ ConfDevices # <<>> /\ 0 \notin Conf!DeviceIds /\ None \notin ConfHolders
  /\ ConfHolderOf \in [ConfItems -> ConfHolders] /\ Conf!DeviceIds \subseteq Nat /\ Len(ConfDevices) \in Nat \ {0} /\ DOMAIN ConfDevices = 1..Len(ConfDevices)
<1>1. ConfDevices \in Seq(Nat \ {0}) /\ ConfDevices # <<>> /\ None \notin ConfHolders /\ ConfHolderOf \in [ConfItems -> ConfHolders]
  BY ConfirmationsAssumed DEF Conf!ConfirmationConstants
<1>2. Len(ConfDevices) \in Nat /\ DOMAIN ConfDevices = 1..Len(ConfDevices) /\ Len(ConfDevices) # 0 /\ \A n \in DOMAIN ConfDevices : ConfDevices[n] \in Nat \ {0}
  BY <1>1, EmptySeq, ElementOfSeq
<1>3. ConfDevices \in Seq(Conf!DeviceIds)
  BY <1>1, <1>2 DEF Conf!DeviceIds
<1>4. Conf!DeviceIds \subseteq Nat \ {0}
  BY <1>2 DEF Conf!DeviceIds
<1> QED BY <1>1, <1>2, <1>3, <1>4

\* The device IDs in the order in which they are tried.
LEMMA OrderOfDevices ==
  ASSUME Conf!ConfInv, NEW a \in ConfHolders
  PROVE  /\ Conf!DeviceOrder(a) \in Seq(Conf!DeviceIds) /\ Head(Conf!DeviceOrder(a)) \in Conf!DeviceIds
         /\ s4[a] # 0 => Head(Conf!DeviceOrder(a)) = s4[a]
         /\ \A d : Conf!After(a, d) \subseteq Conf!DeviceIds
<1>1. s4[a] \in {0} \cup Conf!DeviceIds
  BY DEF Conf!ConfInv, Conf!ConfTyped
<1>2. /\ Conf!DeviceOrder(a) \in Seq(Conf!DeviceIds) /\ Len(Conf!DeviceOrder(a)) = Len(ConfDevices)
      /\ s4[a] # 0 => Conf!DeviceOrder(a)[1] = s4[a]
  <2>1. CASE s4[a] = 0
    BY <2>1, ConfNumbers DEF Conf!DeviceOrder
  <2>2. CASE s4[a] # 0
    <3> DEFINE at == CHOOSE n \in DOMAIN ConfDevices : ConfDevices[n] = s4[a]
               order == [n \in DOMAIN ConfDevices |-> IF n = 1 THEN s4[a] ELSE IF n <= at THEN ConfDevices[n - 1] ELSE ConfDevices[n]]
    <3>1. Conf!DeviceOrder(a) = order
      BY <2>2 DEF Conf!DeviceOrder
    <3> HIDE DEF at
    <3>2. \A n \in 1..Len(ConfDevices) : ConfDevices[n] \in Conf!DeviceIds /\ (n # 1 => ConfDevices[n - 1] \in Conf!DeviceIds)
      BY ConfNumbers, ElementOfSeq
    <3>3. \A n \in 1..Len(ConfDevices) : order[n] \in Conf!DeviceIds
      BY <1>1, <2>2, <3>2, ConfNumbers
    <3>4. order = [n \in 1..Len(ConfDevices) |-> order[n]] /\ order[1] = s4[a] /\ DOMAIN order = 1..Len(ConfDevices)
      BY ConfNumbers
    <3> HIDE DEF order
    <3>5. order \in Seq(Conf!DeviceIds) /\ Len(order) = Len(ConfDevices)
      BY <3>3, <3>4, ConfNumbers, IsASeq, LenProperties
    <3> QED BY <3>1, <3>4, <3>5
  <2> QED BY <2>1, <2>2
<1>3. Len(Conf!DeviceOrder(a)) \in Nat \ {0} /\ Conf!DeviceOrder(a) # <<>>
  BY <1>2, ConfNumbers, EmptySeq
<1>4. Head(Conf!DeviceOrder(a)) = Conf!DeviceOrder(a)[1] /\ Head(Conf!DeviceOrder(a)) \in Conf!DeviceIds
  BY <1>2, <1>3, HeadTailProperties
<1>5. ASSUME NEW d PROVE Conf!After(a, d) \subseteq Conf!DeviceIds
  <2> SUFFICES ASSUME NEW m \in 1..(Len(Conf!DeviceOrder(a)) - 1) PROVE Conf!DeviceOrder(a)[m + 1] \in Conf!DeviceIds
    BY DEF Conf!After
  <2>1. m + 1 \in 1..Len(Conf!DeviceOrder(a))
    BY <1>3
  <2> QED BY <1>2, <2>1, ElementOfSeq
<1> QED BY <1>2, <1>4, <1>5

LEMMA ConfStarts == Conf!ConfInit => Conf!ConfInv
<1> SUFFICES ASSUME Conf!ConfInit PROVE Conf!ConfInv
  OBVIOUS
<1>1. Conf!Closed \in Conf!Views /\ Conf!Closed.list = None
  BY DEF Conf!Closed, Conf!Views, Conf!ItemLists
<1>2. Conf!ConfTyped
  <2>1. <<>> \in Seq(Conf!Ops)
    OBVIOUS
  <2> QED BY <1>1, <2>1 DEF Conf!ConfInit, Conf!ConfTyped, Conf!ItemLists
<1>3. \A a \in ConfHolders : s3[a] = <<>> /\ DOMAIN s3[a] = {} /\ s2[a] = None
  BY DEF Conf!ConfInit
<1>4. \A a \in ConfHolders : Conf!Operations(a) = {}
  BY <1>3 DEF Conf!Operations
<1>5. Conf!OneAtATime /\ Conf!PageIsItsAccounts
  BY <1>1, <1>3 DEF Conf!ConfInit, Conf!OneAtATime, Conf!PageIsItsAccounts
<1> QED BY <1>2, <1>3, <1>4, <1>5 DEF Conf!ConfInit, Conf!ConfInv, Conf!ListStands

LEMMA QueueTyped ==
  ASSUME Conf!ConfInv, NEW a \in ConfHolders
  PROVE  /\ s3[a] \in Seq(Conf!Ops) /\ Len(s3[a]) \in Nat /\ DOMAIN s3[a] = 1..Len(s3[a])
         /\ \A k \in DOMAIN s3[a] : s3[a][k] \in Conf!Ops /\ s3[a][k] \in Conf!Operations(a) /\ Conf!OpStands(a, s3[a][k])
<1>1. s3[a] \in Seq(Conf!Ops)
  BY DEF Conf!ConfInv, Conf!ConfTyped
<1>2. Len(s3[a]) \in Nat /\ DOMAIN s3[a] = 1..Len(s3[a]) /\ \A k \in DOMAIN s3[a] : s3[a][k] \in Conf!Ops
  BY <1>1, ElementOfSeq
<1> QED BY <1>1, <1>2 DEF Conf!ConfInv, Conf!Operations

\* The first operation of an account goes a step.
LEMMA HeadStep ==
  ASSUME Conf!ConfInv, NEW a \in ConfHolders, 1 \in DOMAIN s3[a], NEW op \in Conf!Ops,
         s3' = [s3 EXCEPT ![a] = [s3[a] EXCEPT ![1] = op]], op.live = s3[a][1].live,
         UNCHANGED <<s2, s6, s5>>,
         s1' \in SUBSET ConfItems, s1' \cap s7' = {}, s4' \in [ConfHolders -> {0} \cup Conf!DeviceIds],
         \A b \in ConfHolders : b # a => s4'[b] = s4[b],
         s7 \subseteq s7', s8 \subseteq s8', \A i \in s7' \ s7 : i \in Conf!Of(a),
         Conf!OpStands(a, op)',
         s2[a] # None =>
            /\ s4'[a] # 0
            /\ \A i \in s2[a] \cap s7' : i \in s8' \/ (op.kind = "answer" /\ op.at = "ok" /\ i \in op.ids)
  PROVE  Conf!ConfInv'
<1>1. /\ s3[a] \in Seq(Conf!Ops) /\ Len(s3[a]) \in Nat /\ DOMAIN s3[a] = 1..Len(s3[a])
      /\ s3 \in [ConfHolders -> Seq(Conf!Ops)]
  BY QueueTyped DEF Conf!ConfInv, Conf!ConfTyped
<1>2. /\ s3'[a] \in Seq(Conf!Ops) /\ DOMAIN s3'[a] = DOMAIN s3[a] /\ s3'[a][1] = op
      /\ \A k \in DOMAIN s3[a] : k # 1 => s3'[a][k] = s3[a][k]
  <2> DEFINE q == [s3[a] EXCEPT ![1] = op]
  <2>1. q \in Seq(Conf!Ops)
    BY <1>1, ExceptSeq
  <2>2. s3'[a] = q
    BY <1>1
  <2> QED BY <1>1, <2>1, <2>2
<1>3. /\ s3' \in [ConfHolders -> Seq(Conf!Ops)] /\ \A b \in ConfHolders : b # a => s3'[b] = s3[b]
  BY <1>1, <1>2
<1>4. Conf!ConfTyped'
  BY <1>3 DEF Conf!ConfInv, Conf!ConfTyped
<1>5. Conf!OneAtATime'
  BY <1>2, <1>3 DEF Conf!ConfInv, Conf!OneAtATime
<1>6. ASSUME NEW b \in ConfHolders, b # a PROVE Conf!ListStands(b)' /\ \A o \in Conf!Operations(b)' : Conf!OpStands(b, o)'
  <2>1. Conf!Operations(b)' = Conf!Operations(b) /\ s4'[b] = s4[b] /\ s2'[b] = s2[b] /\ s6' = s6
    BY <1>3, <1>6 DEF Conf!Operations
  <2>2. \A i \in s7' \ s7 : i \notin Conf!Of(b)
    BY <1>6 DEF Conf!Of
  <2>3. \A S \in SUBSET Conf!Of(b) : Conf!Heard(S) => S \cap s7' \subseteq s8'
    BY <2>2 DEF Conf!Heard
  <2>4. Conf!ListStands(b)'
    <3>1. Conf!ListStands(b)
      BY DEF Conf!ConfInv
    <3> QED BY <2>1, <2>2, <3>1 DEF Conf!ListStands
  <2>5. ASSUME NEW o \in Conf!Operations(b) PROVE Conf!OpStands(b, o)'
    <3>1. Conf!OpStands(b, o) /\ Conf!ListStands(b)
      BY DEF Conf!ConfInv
    <3>2. o.kind = "answer" /\ o.at = "sent" => o.ids \subseteq Conf!Of(b)
      BY <3>1 DEF Conf!OpStands, Conf!ListStands
    <3>3. \/ (o.kind = "answer" /\ o.at = "sent") \/ (o.kind = "list" /\ o.at = "ok") => (Conf!Heard(o.ids) => o.ids \cap s7' \subseteq s8')
      BY <2>3, <3>1, <3>2 DEF Conf!OpStands
    <3> QED BY <2>1, <3>1, <3>3 DEF Conf!OpStands, Conf!Heard
  <2> QED BY <2>1, <2>4, <2>5
<1>7. Conf!ListStands(a)'
  <2>1. op \in Conf!Operations(a)'
    BY <1>1, <1>2 DEF Conf!Operations
  <2>2. s2[a] # None => s2[a] \subseteq Conf!Of(a)
    BY DEF Conf!ConfInv, Conf!ListStands
  <2> QED BY <2>1, <2>2 DEF Conf!ListStands
<1>8. ASSUME NEW o \in Conf!Operations(a)' PROVE Conf!OpStands(a, o)'
  <2>1. PICK k \in DOMAIN s3[a] : o = s3'[a][k]
    BY <1>2 DEF Conf!Operations
  <2>2. CASE k = 1
    BY <1>2, <2>1, <2>2
  <2>3. CASE k # 1
    <3>1. o = s3[a][k] /\ o.at = "queued" /\ Conf!OpStands(a, o)
      BY <1>2, <2>1, <2>3, QueueTyped DEF Conf!ConfInv, Conf!OneAtATime
    <3> QED BY <3>1 DEF Conf!OpStands
  <2> QED BY <2>2, <2>3
<1>9. Conf!PageIsItsAccounts' /\ \A r \in s5' : Conf!ReplyStands(r)'
  BY DEF Conf!ConfInv, Conf!PageIsItsAccounts, Conf!ReplyStands
<1> QED BY <1>4, <1>5, <1>6, <1>7, <1>8, <1>9 DEF Conf!ConfInv

LEMMA FirstOfAll ==
  ASSUME Conf!ConfInv, NEW a \in ConfHolders, NEW k \in DOMAIN s3[a]
  PROVE  /\ s3[a][k].at # "queued" => k = 1
         /\ 1 \in DOMAIN s3[a] /\ s3[a][1] \in Conf!Ops /\ Conf!OpStands(a, s3[a][1]) /\ s3[a] \in Seq(Conf!Ops)
         /\ s2[a] # None =>
              /\ s2[a] \subseteq Conf!Of(a) /\ s4[a] # 0
              /\ ~(s3[a][1].kind = "answer" /\ s3[a][1].at = "ok") => s2[a] \cap s7 \subseteq s8
<1>1. Len(s3[a]) \in Nat /\ DOMAIN s3[a] = 1..Len(s3[a]) /\ 1 \in DOMAIN s3[a] /\ s3[a] \in Seq(Conf!Ops)
  BY QueueTyped
<1>2. s3[a][1] \in Conf!Ops /\ Conf!OpStands(a, s3[a][1])
  BY <1>1, QueueTyped
<1>3. \A n \in DOMAIN s3[a] : n # 1 => s3[a][n].at = "queued"
  BY DEF Conf!ConfInv, Conf!OneAtATime
<1>4. Conf!ListStands(a)
  BY DEF Conf!ConfInv
<1>5. ASSUME s2[a] # None, ~(s3[a][1].kind = "answer" /\ s3[a][1].at = "ok") PROVE s2[a] \cap s7 \subseteq s8
  BY <1>3, <1>4, <1>5 DEF Conf!ListStands, Conf!Operations
<1> QED BY <1>1, <1>2, <1>3, <1>4, <1>5 DEF Conf!ListStands

LEMMA BeginKeeps ==
  ASSUME Conf!ConfInv, NEW a \in ConfHolders, NEW k \in DOMAIN s3[a], Conf!Begin(a, k)
  PROVE  Conf!ConfInv'
<1>1. k = 1 /\ s3[a][1].at = "queued" /\ UNCHANGED <<s1, s2, s4, s5, s6, s7, s8>>
  BY DEF Conf!Begin, Conf!Begins
<1>2. /\ 1 \in DOMAIN s3[a] /\ s3[a][1] \in Conf!Ops /\ Conf!OpStands(a, s3[a][1])
      /\ s2[a] # None => s2[a] \subseteq Conf!Of(a) /\ s4[a] # 0 /\ s2[a] \cap s7 \subseteq s8
  BY <1>1, FirstOfAll
<1> DEFINE was == s3[a][1]
           stale == was.kind = "answer" /\ (s2[a] = None \/ ~(was.ids \subseteq s2[a]))
           at == IF stale THEN "failed" ELSE "sent"
           d == Head(Conf!DeviceOrder(a))
           new == [was EXCEPT !.at = at, !.device = d]
<1>3. d \in Conf!DeviceIds /\ d # 0 /\ (s4[a] # 0 => d = s4[a])
  BY OrderOfDevices, ConfNumbers
<1>4. s3' = [s3 EXCEPT ![a] = [s3[a] EXCEPT ![1] = new]]
  <2>1. s3' = [s3 EXCEPT ![a][1].at = at, ![a][1].device = d]
    BY <1>1 DEF Conf!Begin
  <2>2. s3 \in [ConfHolders -> Seq(Conf!Ops)]
    BY DEF Conf!ConfInv, Conf!ConfTyped
  <2> HIDE DEF at, d
  <2> QED BY <1>2, <2>1, <2>2
<1>5. new \in Conf!Ops /\ new.live = was.live /\ new.kind = was.kind /\ new.ids = was.ids /\ new.at = at /\ new.device = d
  <2>1. at \in {"sent", "failed"}
    OBVIOUS
  <2> HIDE DEF at, d
  <2> QED BY <1>2, <1>3, <2>1 DEF Conf!Ops
<1> HIDE DEF new
<1>5a. PICK op \in Conf!Ops : op = new
  BY <1>5
<1>6. Conf!OpStands(a, op)'
  <2>1. was.live => s6.account = a
    BY <1>2 DEF Conf!OpStands
  <2>2. at = "sent" /\ was.kind = "answer" => s2[a] # None /\ was.ids \subseteq s2[a] /\ Conf!Heard(was.ids)
    BY <1>2 DEF Conf!Heard
  <2>3. at \in {"sent", "failed"}
    OBVIOUS
  <2> HIDE DEF at, d
  <2> QED BY <1>1, <1>2, <1>3, <1>5, <1>5a, <2>1, <2>2, <2>3 DEF Conf!OpStands, Conf!Heard
<1>7. /\ s1' \in SUBSET ConfItems /\ s1' \cap s7' = {} /\ s4' \in [ConfHolders -> {0} \cup Conf!DeviceIds]
  BY <1>1 DEF Conf!ConfInv, Conf!ConfTyped, Conf!OneAtATime
<1> QED BY <1>1, <1>2, <1>4, <1>5, <1>5a, <1>6, <1>7, HeadStep

\* What the steps of an operation that was sent have in common.
LEMMA SentFirst ==
  ASSUME Conf!ConfInv, NEW a \in ConfHolders, NEW k \in DOMAIN s3[a], Conf!Sent(a, k)
  PROVE  /\ k = 1 /\ 1 \in DOMAIN s3[a] /\ s3[a][1] \in Conf!Ops /\ Conf!OpStands(a, s3[a][1]) /\ s3[a][1].at = "sent"
         /\ s3 \in [ConfHolders -> Seq(Conf!Ops)] /\ s1 \in SUBSET ConfItems /\ s1 \cap s7 = {}
         /\ s4 \in [ConfHolders -> {0} \cup Conf!DeviceIds]
         /\ s2[a] # None => s2[a] \subseteq Conf!Of(a) /\ s4[a] # 0 /\ s2[a] \cap s7 \subseteq s8
<1>1. s3[a][k].at = "sent"
  BY DEF Conf!Sent
<1>2. k = 1 /\ s3[a][1].at = "sent"
  BY <1>1, FirstOfAll
<1>3. /\ s3 \in [ConfHolders -> Seq(Conf!Ops)] /\ s1 \in SUBSET ConfItems /\ s1 \cap s7 = {}
      /\ s4 \in [ConfHolders -> {0} \cup Conf!DeviceIds]
  BY DEF Conf!ConfInv, Conf!ConfTyped, Conf!OneAtATime
<1> QED BY <1>2, <1>3, FirstOfAll

LEMMA ListReadKeeps ==
  ASSUME Conf!ConfInv, NEW a \in ConfHolders, NEW k \in DOMAIN s3[a], Conf!ListRead(a, k)
  PROVE  Conf!ConfInv'
<1> DEFINE was == s3[a][1]
           ids == s1 \cap Conf!Of(a)
           new == [was EXCEPT !.at = "ok", !.ids = ids]
<1>1. Conf!Sent(a, k)
  BY DEF Conf!ListRead
<1>2. /\ k = 1 /\ 1 \in DOMAIN s3[a] /\ was \in Conf!Ops /\ Conf!OpStands(a, was) /\ was.at = "sent" /\ was.kind = "list"
      /\ s3 \in [ConfHolders -> Seq(Conf!Ops)] /\ s1 \in SUBSET ConfItems /\ s1 \cap s7 = {}
      /\ s4 \in [ConfHolders -> {0} \cup Conf!DeviceIds]
      /\ s2[a] # None => s2[a] \cap s7 \subseteq s8
  BY <1>1, SentFirst DEF Conf!ListRead
<1>3. /\ s3' = [s3 EXCEPT ![a][1].at = "ok", ![a][1].ids = ids] /\ s4' = [s4 EXCEPT ![a] = was.device]
      /\ UNCHANGED <<s1, s2, s5, s6, s7, s8>>
  BY <1>2 DEF Conf!ListRead, Conf!Remembers
<1>4. s3' = [s3 EXCEPT ![a] = [s3[a] EXCEPT ![1] = new]]
  <2> HIDE DEF ids
  <2> QED BY <1>2, <1>3
<1>5. new \in Conf!Ops /\ new.live = was.live /\ new.kind = "list" /\ new.ids = ids /\ new.at = "ok" /\ new.device = was.device
  <2>1. ids \in SUBSET ConfItems
    BY <1>2
  <2> HIDE DEF ids
  <2> QED BY <1>2, <2>1 DEF Conf!Ops
<1>6. was.device \in Conf!DeviceIds /\ was.device # 0 /\ (was.live => s6.account = a)
  BY <1>2 DEF Conf!OpStands, Conf!Ops
<1>7. s4' \in [ConfHolders -> {0} \cup Conf!DeviceIds] /\ s4'[a] # 0 /\ \A b \in ConfHolders : b # a => s4'[b] = s4[b]
  BY <1>2, <1>3, <1>6
<1> HIDE DEF new
<1>7a. PICK op \in Conf!Ops : op = new
  BY <1>5
<1>8. Conf!OpStands(a, op)'
  <2>1. ids \subseteq Conf!Of(a) /\ ids \cap s7 = {}
    BY <1>2
  <2> HIDE DEF ids
  <2> QED BY <1>3, <1>5, <1>6, <1>7, <1>7a, <2>1 DEF Conf!OpStands, Conf!Heard
<1> QED BY <1>2, <1>3, <1>4, <1>5, <1>7, <1>7a, <1>8, HeadStep

LEMMA AnswersTakenKeeps ==
  ASSUME Conf!ConfInv, NEW a \in ConfHolders, NEW k \in DOMAIN s3[a], Conf!AnswersTaken(a, k)
  PROVE  Conf!ConfInv'
<1> DEFINE was == s3[a][1]
<1>1. Conf!Sent(a, k)
  BY DEF Conf!AnswersTaken
<1>2. /\ k = 1 /\ 1 \in DOMAIN s3[a] /\ was \in Conf!Ops /\ Conf!OpStands(a, was) /\ was.at = "sent" /\ was.kind = "answer"
      /\ s3 \in [ConfHolders -> Seq(Conf!Ops)] /\ s1 \in SUBSET ConfItems /\ s1 \cap s7 = {}
      /\ s4 \in [ConfHolders -> {0} \cup Conf!DeviceIds]
      /\ s2[a] # None => s2[a] \subseteq Conf!Of(a) /\ s2[a] \cap s7 \subseteq s8
  BY <1>1, SentFirst DEF Conf!AnswersTaken
<1>3. /\ s1' = s1 \ was.ids /\ s7' = s7 \cup was.ids
      /\ UNCHANGED <<s2, s4, s5, s6>>
  BY <1>2 DEF Conf!AnswersTaken
<1>4. /\ was.live => s6.account = a
      /\ s2[a] # None /\ was.ids \subseteq s2[a] /\ was.ids \subseteq Conf!Of(a) /\ s4[a] # 0 /\ was.device # 0
  BY <1>2 DEF Conf!OpStands
<1>5. PICK at \in {"ok", "failed"} :
        s3' = [s3 EXCEPT ![a][1].at = at] /\ s8' = IF at = "ok" THEN s8 ELSE s8 \cup was.ids
  BY <1>2 DEF Conf!AnswersTaken
<1> DEFINE new == [was EXCEPT !.at = at]
<1>6. s3' = [s3 EXCEPT ![a] = [s3[a] EXCEPT ![1] = new]]
  BY <1>2, <1>5
<1>7. new \in Conf!Ops /\ new.live = was.live /\ new.kind = "answer" /\ new.ids = was.ids /\ new.at = at /\ new.device = was.device
  BY <1>2 DEF Conf!Ops
<1> HIDE DEF new
<1>7a. PICK op \in Conf!Ops : op = new
  BY <1>7
<1>8. Conf!OpStands(a, op)'
  BY <1>3, <1>4, <1>7, <1>7a DEF Conf!OpStands
<1>9. /\ s1' \in SUBSET ConfItems /\ s1' \cap s7' = {} /\ s4' \in [ConfHolders -> {0} \cup Conf!DeviceIds]
      /\ s7 \subseteq s7' /\ s8 \subseteq s8' /\ \A i \in s7' \ s7 : i \in Conf!Of(a)
  BY <1>2, <1>3, <1>4, <1>5
<1>10. \A i \in s2[a] \cap s7' : i \in s8' \/ (op.kind = "answer" /\ op.at = "ok" /\ i \in op.ids)
  BY <1>2, <1>3, <1>4, <1>5, <1>7, <1>7a
<1>11. s4'[a] # 0 /\ \A b \in ConfHolders : b # a => s4'[b] = s4[b]
  BY <1>3, <1>4
<1> QED BY <1>2, <1>3, <1>6, <1>7, <1>7a, <1>8, <1>9, <1>10, <1>11, HeadStep

\* A step that changes neither what Steam has nor the kind, items and page of the operation.
LEMMA OpGoesOn ==
  ASSUME Conf!ConfInv, NEW a \in ConfHolders, NEW k \in DOMAIN s3[a], Conf!Sent(a, k), NEW op \in Conf!Ops,
         s3' = [s3 EXCEPT ![a] = [s3[a] EXCEPT ![1] = op]],
         op.kind = s3[a][1].kind, op.ids = s3[a][1].ids, op.live = s3[a][1].live,
         op.at = "failed" \/ (op.at = "sent" /\ op.device = s3[a][1].device)
           \/ (op.at = "sent" /\ op.kind = "list"),
         op.device # 0, UNCHANGED <<s1, s2, s4, s5, s6, s7, s8>>
  PROVE  Conf!ConfInv'
<1> DEFINE was == s3[a][1]
<1>1. /\ k = 1 /\ 1 \in DOMAIN s3[a] /\ was \in Conf!Ops /\ Conf!OpStands(a, was) /\ was.at = "sent"
      /\ s1 \in SUBSET ConfItems /\ s1 \cap s7 = {} /\ s4 \in [ConfHolders -> {0} \cup Conf!DeviceIds]
      /\ s2[a] # None => s4[a] # 0 /\ s2[a] \cap s7 \subseteq s8
  BY SentFirst
<1>2. Conf!OpStands(a, op)'
  BY <1>1 DEF Conf!OpStands, Conf!Heard
<1> QED BY <1>1, <1>2, HeadStep

LEMMA FailuresKeep ==
  ASSUME Conf!ConfInv, NEW a \in ConfHolders, NEW k \in DOMAIN s3[a], Conf!AnswersRefused(a, k) \/ Conf!ListRefused(a, k) \/ Conf!LimitedOrFailed(a, k)
  PROVE  Conf!ConfInv'
<1> DEFINE was == s3[a][1]
<1>1. Conf!Sent(a, k) /\ UNCHANGED <<s1, s2, s4, s5, s6, s7, s8>>
  BY DEF Conf!AnswersRefused, Conf!ListRefused, Conf!LimitedOrFailed
<1>2. /\ k = 1 /\ 1 \in DOMAIN s3[a] /\ was \in Conf!Ops /\ was.at = "sent" /\ was.device # 0
      /\ s3 \in [ConfHolders -> Seq(Conf!Ops)]
  BY <1>1, SentFirst DEF Conf!OpStands
<1>3. CASE s3' = [s3 EXCEPT ![a][1].at = "failed"] \/ s3' = [s3 EXCEPT ![a] = [s3[a] EXCEPT ![1] = [was EXCEPT !.at = "failed"]]]
  <2> DEFINE new == [was EXCEPT !.at = "failed"]
  <2>1. s3' = [s3 EXCEPT ![a] = [s3[a] EXCEPT ![1] = new]]
    BY <1>2, <1>3
  <2>2. new \in Conf!Ops /\ new.kind = was.kind /\ new.ids = was.ids /\ new.live = was.live /\ new.at = "failed" /\ new.device = was.device
    BY <1>2 DEF Conf!Ops
  <2> HIDE DEF new
  <2>3a. PICK op \in Conf!Ops : op = new
    BY <2>2
  <2> QED BY <1>1, <1>2, <2>1, <2>2, <2>3a, OpGoesOn
<1>4. CASE s3' = [s3 EXCEPT ![a][1].tries = @ + 1]
  <2> DEFINE new == [was EXCEPT !.tries = was.tries + 1]
  <2>1. s3' = [s3 EXCEPT ![a] = [s3[a] EXCEPT ![1] = new]]
    BY <1>2, <1>4
  <2>1a. was.tries + 1 \in Nat
    BY <1>2 DEF Conf!Ops
  <2>2. new \in Conf!Ops /\ new.kind = was.kind /\ new.ids = was.ids /\ new.live = was.live /\ new.at = "sent" /\ new.device = was.device
    BY <1>2, <2>1a DEF Conf!Ops
  <2> HIDE DEF new
  <2>3a. PICK op \in Conf!Ops : op = new
    BY <2>2
  <2> QED BY <1>1, <1>2, <2>1, <2>2, <2>3a, OpGoesOn
<1>5. CASE Conf!ListRefused(a, k) /\ Conf!After(a, was.device) # {}
  <2> DEFINE d == CHOOSE e \in Conf!After(a, was.device) : TRUE
             new == [was EXCEPT !.device = d]
  <2>1. s3' = [s3 EXCEPT ![a] = [s3[a] EXCEPT ![1] = new]] /\ was.kind = "list"
    BY <1>2, <1>5 DEF Conf!ListRefused
  <2>2. d \in Conf!DeviceIds /\ d # 0
    BY <1>5, OrderOfDevices, ConfNumbers
  <2> HIDE DEF d
  <2>3. new \in Conf!Ops /\ new.kind = was.kind /\ new.ids = was.ids /\ new.live = was.live /\ new.at = "sent" /\ new.device = d
    BY <1>2, <2>2 DEF Conf!Ops
  <2> HIDE DEF new
  <2>3a. PICK op \in Conf!Ops : op = new
    BY <2>3
  <2> QED BY <1>1, <1>2, <2>1, <2>2, <2>3, <2>3a, OpGoesOn
<1>6. Conf!ListRefused(a, k) /\ Conf!After(a, was.device) = {} => s3' = [s3 EXCEPT ![a] = [s3[a] EXCEPT ![1] = [was EXCEPT !.at = "failed"]]]
  BY <1>2 DEF Conf!ListRefused
<1>7. Conf!AnswersRefused(a, k) => s3' = [s3 EXCEPT ![a][1].at = "failed"]
  BY <1>2 DEF Conf!AnswersRefused
<1>8. Conf!LimitedOrFailed(a, k) => s3' = [s3 EXCEPT ![a][1].at = "failed"] \/ s3' = [s3 EXCEPT ![a][1].tries = @ + 1]
  BY <1>2 DEF Conf!LimitedOrFailed
<1> QED BY <1>3, <1>4, <1>5, <1>6, <1>7, <1>8

LEMMA EndKeeps ==
  ASSUME Conf!ConfInv, NEW a \in ConfHolders, NEW k \in DOMAIN s3[a], Conf!End(a, k)
  PROVE  Conf!ConfInv'
<1> DEFINE op == s3[a][1]
           ok == op.at = "ok"
           list == IF ~ok THEN s2[a] ELSE IF op.kind = "list" THEN op.ids ELSE s2[a] \ op.ids
           q == SubSeq(s3[a], 1, 0) \o SubSeq(s3[a], 2, Len(s3[a]))
           r == [kind |-> op.kind, ok |-> ok, list |-> list, live |-> op.live]
<1>1. k = 1 /\ op.at \in {"ok", "failed"} /\ 1 \in DOMAIN s3[a] /\ op \in Conf!Ops /\ Conf!OpStands(a, op)
  BY FirstOfAll DEF Conf!End
<1>2. /\ s2' = [s2 EXCEPT ![a] = list] /\ s3' = [s3 EXCEPT ![a] = q] /\ s5' = s5 \cup {r}
      /\ UNCHANGED <<s1, s4, s6, s7, s8>>
  BY <1>1 DEF Conf!End
<1>3. /\ s2 \in [ConfHolders -> Conf!ItemLists] /\ s3 \in [ConfHolders -> Seq(Conf!Ops)] /\ s5 \subseteq Conf!Replies
      /\ Len(s3[a]) \in Nat /\ DOMAIN s3[a] = 1..Len(s3[a]) /\ Len(s3[a]) >= 1
  BY <1>1, QueueTyped DEF Conf!ConfInv, Conf!ConfTyped
<1>4. /\ q \in Seq(Conf!Ops) /\ DOMAIN q = 1..(Len(s3[a]) - 1)
      /\ \A n \in 1..(Len(s3[a]) - 1) : q[n] = s3[a][n + 1]
  <2>1. s3[a] \in Seq(Conf!Ops)
    BY <1>3
  <2>2. SubSeq(s3[a], 1, 0) = <<>> /\ SubSeq(s3[a], 2, Len(s3[a])) \in Seq(Conf!Ops)
    BY <1>3, <2>1, SubSeqProperties, EmptySeq
  <2>3. Len(SubSeq(s3[a], 2, Len(s3[a]))) = Len(s3[a]) - 1
    BY <1>3, <2>1, SubSeqProperties
  <2>4. \A n \in 1..(Len(s3[a]) - 1) : SubSeq(s3[a], 2, Len(s3[a]))[n] = s3[a][n + 1]
    BY <1>3, <2>1, <2>3, SubSeqProperties
  <2>5. q = SubSeq(s3[a], 2, Len(s3[a]))
    BY <2>2, ConcatEmptySeq
  <2> QED BY <2>2, <2>3, <2>4, <2>5, LenProperties
<1>5. \A n \in DOMAIN q : n + 1 \in DOMAIN s3[a] /\ q[n] = s3[a][n + 1] /\ q[n].at = "queued"
  <2>1. \A n \in DOMAIN s3[a] : n # 1 => s3[a][n].at = "queued"
    BY DEF Conf!ConfInv, Conf!OneAtATime
  <2>2. \A n \in 1..(Len(s3[a]) - 1) : n + 1 \in DOMAIN s3[a] /\ n + 1 # 1
    BY <1>3
  <2> HIDE DEF q
  <2> QED BY <1>4, <2>1, <2>2
<1>6. \A i \in s2[a] \cap s7 : s2[a] # None => i \in s8 \/ (op.kind = "answer" /\ ok /\ i \in op.ids)
  <2>1. s2[a] # None /\ ~(op.kind = "answer" /\ ok) => s2[a] \cap s7 \subseteq s8
    BY FirstOfAll
  <2>2. \A n \in DOMAIN s3[a] : n # 1 => s3[a][n].at = "queued"
    BY DEF Conf!ConfInv, Conf!OneAtATime
  <2>3. Conf!ListStands(a)
    BY DEF Conf!ConfInv
  <2> QED BY <2>1, <2>2, <2>3 DEF Conf!ListStands, Conf!Operations
<1>7. /\ list \in Conf!ItemLists
      /\ list # None => list \subseteq Conf!Of(a) /\ s4[a] # 0
      /\ list # None => Conf!Heard(list)
  <2>1. s2[a] # None => s2[a] \subseteq Conf!Of(a) /\ s4[a] # 0
    BY FirstOfAll
  <2>2. s2[a] \in Conf!ItemLists /\ op.ids \in SUBSET ConfItems /\ op.kind \in Conf!Kinds
    BY <1>1, <1>3 DEF Conf!Ops
  <2>3. CASE ~ok
    BY <1>6, <2>1, <2>2, <2>3 DEF Conf!Heard
  <2>4. CASE ok /\ op.kind = "list"
    BY <1>1, <2>2, <2>4 DEF Conf!OpStands, Conf!ItemLists
  <2>5. CASE ok /\ op.kind = "answer"
    <3>1. s2[a] # None /\ list = s2[a] \ op.ids
      BY <1>1, <2>5 DEF Conf!OpStands
    <3> QED BY <1>6, <2>1, <2>2, <2>5, <3>1 DEF Conf!Heard, Conf!ItemLists
  <2> QED BY <2>2, <2>3, <2>4, <2>5 DEF Conf!Kinds
<1>8. r \in Conf!Replies /\ r.live = op.live /\ r.list = list
  <2>1. ok \in BOOLEAN /\ op.kind \in Conf!Kinds /\ op.live \in BOOLEAN
    BY <1>1 DEF Conf!Ops
  <2> HIDE DEF list, ok
  <2> QED BY <1>7, <2>1 DEF Conf!Replies
<1>9. op.live => s6.account = a
  BY <1>1 DEF Conf!OpStands
<1>10. /\ s3' \in [ConfHolders -> Seq(Conf!Ops)] /\ s3'[a] = q /\ \A b \in ConfHolders : b # a => s3'[b] = s3[b]
       /\ s2' \in [ConfHolders -> Conf!ItemLists] /\ s2'[a] = list /\ \A b \in ConfHolders : b # a => s2'[b] = s2[b]
  BY <1>2, <1>3, <1>4, <1>7
<1> HIDE DEF q, list, r, ok, op
<1>11. Conf!ConfTyped'
  BY <1>2, <1>8, <1>10 DEF Conf!ConfInv, Conf!ConfTyped
<1>12. Conf!OneAtATime'
  BY <1>2, <1>5, <1>10 DEF Conf!ConfInv, Conf!OneAtATime
<1>13. ASSUME NEW b \in ConfHolders, b # a PROVE Conf!ListStands(b)' /\ \A o \in Conf!Operations(b)' : Conf!OpStands(b, o)'
  <2>1. Conf!Operations(b)' = Conf!Operations(b) /\ s2'[b] = s2[b]
    BY <1>10, <1>13 DEF Conf!Operations
  <2>2. Conf!ListStands(b) /\ \A o \in Conf!Operations(b) : Conf!OpStands(b, o)
    BY DEF Conf!ConfInv
  <2> QED BY <1>2, <2>1, <2>2 DEF Conf!ListStands, Conf!OpStands, Conf!Heard
<1>14. Conf!ListStands(a)'
  BY <1>2, <1>7, <1>10 DEF Conf!ListStands, Conf!Heard
<1>15. ASSUME NEW o \in Conf!Operations(a)' PROVE Conf!OpStands(a, o)'
  <2>1. PICK n \in DOMAIN q : o = q[n]
    BY <1>10 DEF Conf!Operations
  <2>2. o.at = "queued" /\ Conf!OpStands(a, o)
    BY <1>5, <2>1, QueueTyped
  <2> QED BY <1>2, <2>2 DEF Conf!OpStands
<1>16. Conf!PageIsItsAccounts'
  BY <1>2 DEF Conf!ConfInv, Conf!PageIsItsAccounts
<1>17. ASSUME NEW p \in s5' PROVE Conf!ReplyStands(p)'
  <2>1. CASE p \in s5
    BY <1>2, <2>1 DEF Conf!ConfInv, Conf!ReplyStands
  <2>2. CASE p = r
    BY <1>2, <1>7, <1>8, <1>9, <2>2, ConfNumbers DEF Conf!ReplyStands
  <2> QED BY <1>2, <2>1, <2>2
<1> QED BY <1>11, <1>12, <1>13, <1>14, <1>15, <1>16, <1>17 DEF Conf!ConfInv

\* A step that adds operations, and one that drops what the page waits for.
LEMMA QueuesGrow ==
  ASSUME Conf!ConfInv, UNCHANGED <<s1, s2, s4, s7, s8>>,
         s3' \in [ConfHolders -> Seq(Conf!Ops)], s5' \subseteq Conf!Replies, s6' \in Conf!Views, Conf!PageIsItsAccounts',
         \A r \in s5' : Conf!ReplyStands(r)',
         \A a \in ConfHolders : \A k \in DOMAIN s3[a] :
            /\ k \in DOMAIN s3'[a]
            /\ s3'[a][k].kind = s3[a][k].kind /\ s3'[a][k].ids = s3[a][k].ids
            /\ s3'[a][k].at = s3[a][k].at /\ s3'[a][k].device = s3[a][k].device,
         \A a \in ConfHolders : \A k \in DOMAIN s3'[a] :
            /\ k \in DOMAIN s3[a] \/ s3'[a][k].at = "queued"
            /\ s3'[a][k].live => s6'.account = a
  PROVE  Conf!ConfInv'
<1>1. Conf!ConfTyped'
  BY DEF Conf!ConfInv, Conf!ConfTyped
<1>2. Conf!OneAtATime'
  BY DEF Conf!ConfInv, Conf!OneAtATime
<1>3. ASSUME NEW a \in ConfHolders PROVE Conf!ListStands(a)'
  <2>1. Conf!ListStands(a)
    BY DEF Conf!ConfInv
  <2>2. ASSUME NEW op \in Conf!Operations(a) PROVE \E o \in Conf!Operations(a)' : o.kind = op.kind /\ o.at = op.at /\ o.ids = op.ids
    BY DEF Conf!Operations
  <2>3. ASSUME s2[a] # None, NEW i \in s2[a] \cap s7, i \notin s8
        PROVE  \E o \in Conf!Operations(a)' : o.kind = "answer" /\ o.at = "ok" /\ i \in o.ids
    <3>1. PICK op \in Conf!Operations(a) : op.kind = "answer" /\ op.at = "ok" /\ i \in op.ids
      BY <2>1, <2>3 DEF Conf!ListStands
    <3>2. PICK o \in Conf!Operations(a)' : o.kind = op.kind /\ o.at = op.at /\ o.ids = op.ids
      BY <2>2, <3>1
    <3> QED BY <3>1, <3>2
  <2>4. s2[a] # None => s2[a] \subseteq Conf!Of(a) /\ s4[a] # 0
    BY <2>1 DEF Conf!ListStands
  <2> QED BY <2>3, <2>4 DEF Conf!ListStands, Conf!Of
<1>4. ASSUME NEW a \in ConfHolders, NEW o \in Conf!Operations(a)' PROVE Conf!OpStands(a, o)'
  <2>1. PICK k \in DOMAIN s3'[a] : o = s3'[a][k]
    BY DEF Conf!Operations
  <2>2. CASE o.at = "queued"
    BY <2>1, <2>2 DEF Conf!OpStands
  <2>3. CASE k \in DOMAIN s3[a]
    <3>1. Conf!OpStands(a, s3[a][k])
      BY <2>3, QueueTyped
    <3> QED BY <2>1, <2>3, <3>1 DEF Conf!OpStands, Conf!Heard
  <2> QED BY <2>1, <2>2, <2>3
<1> QED BY <1>1, <1>2, <1>3, <1>4 DEF Conf!ConfInv

LEMMA AskGrows ==
  ASSUME Conf!ConfInv, NEW a \in ConfHolders, NEW kind \in Conf!Kinds, NEW ids \in SUBSET ConfItems, NEW live \in BOOLEAN,
         Conf!Ask(a, Conf!Op(kind, ids, live)), UNCHANGED <<s1, s2, s4, s7, s8, s5>>,
         s6' \in Conf!Views, s6'.account = s6.account, s6'.list = s6.list, live => s6.account = a
  PROVE  Conf!ConfInv'
<1> DEFINE q == Append(s3[a], Conf!Op(kind, ids, live))
<1>1. Conf!Op(kind, ids, live) \in Conf!Ops /\ Conf!Op(kind, ids, live).at = "queued" /\ Conf!Op(kind, ids, live).live = live
  BY DEF Conf!Op, Conf!Ops
<1>2. s3 \in [ConfHolders -> Seq(Conf!Ops)] /\ s3' = [s3 EXCEPT ![a] = q] /\ s3[a] \in Seq(Conf!Ops)
  BY DEF Conf!ConfInv, Conf!ConfTyped, Conf!Ask
<1>3. Len(s3[a]) \in Nat /\ DOMAIN s3[a] = 1..Len(s3[a])
  BY QueueTyped
<1>4. /\ q \in Seq(Conf!Ops) /\ DOMAIN q = 1..(Len(s3[a]) + 1)
      /\ \A k \in DOMAIN s3[a] : q[k] = s3[a][k]
      /\ q[Len(s3[a]) + 1] = Conf!Op(kind, ids, live)
  BY <1>1, <1>2, <1>3, AppendProperties, LenProperties
<1> HIDE DEF q
<1>5. s3' \in [ConfHolders -> Seq(Conf!Ops)] /\ s3'[a] = q /\ \A b \in ConfHolders : b # a => s3'[b] = s3[b]
  BY <1>2, <1>4
<1>6. DOMAIN s3[a] \subseteq DOMAIN q /\ \A k \in DOMAIN q : k \in DOMAIN s3[a] \/ k = Len(s3[a]) + 1
  BY <1>3, <1>4
<1>7. s5' \subseteq Conf!Replies /\ Conf!PageIsItsAccounts' /\ \A r \in s5' : Conf!ReplyStands(r)'
  BY DEF Conf!ConfInv, Conf!ConfTyped, Conf!PageIsItsAccounts, Conf!ReplyStands
<1>8. \A b \in ConfHolders : \A k \in DOMAIN s3[b] : s3[b][k].live => s6.account = b
  BY QueueTyped DEF Conf!OpStands
<1>9. \A b \in ConfHolders : \A k \in DOMAIN s3[b] : k \in DOMAIN s3'[b] /\ s3'[b][k] = s3[b][k]
  BY <1>4, <1>5, <1>6
<1>10. ASSUME NEW b \in ConfHolders, NEW k \in DOMAIN s3'[b]
       PROVE  /\ k \in DOMAIN s3[b] \/ s3'[b][k].at = "queued"
              /\ s3'[b][k].live => s6'.account = b
  <2>1. CASE k \in DOMAIN s3[b]
    BY <1>8, <1>9, <2>1
  <2>2. CASE k \notin DOMAIN s3[b]
    <3>1. b = a /\ k = Len(s3[a]) + 1
      BY <1>5, <1>6, <2>2
    <3>2. s3'[b][k] = Conf!Op(kind, ids, live)
      BY <1>4, <1>5, <3>1
    <3> QED BY <1>1, <3>1, <3>2
  <2> QED BY <2>1, <2>2
<1> QED BY <1>5, <1>7, <1>9, <1>10, QueuesGrow

LEMMA DropKeeps ==
  ASSUME NEW x
  PROVE  /\ x \in Conf!Ops => /\ Conf!Dropped(x) \in Conf!Ops /\ ~Conf!Dropped(x).live /\ Conf!Dropped(x).kind = x.kind /\ Conf!Dropped(x).ids = x.ids
                                       /\ Conf!Dropped(x).at = x.at /\ Conf!Dropped(x).device = x.device
         /\ x \in Conf!Replies => Conf!Dropped(x) \in Conf!Replies /\ ~Conf!Dropped(x).live
<1>1. x \in Conf!Ops => /\ Conf!Dropped(x) \in Conf!Ops /\ ~Conf!Dropped(x).live /\ Conf!Dropped(x).kind = x.kind /\ Conf!Dropped(x).ids = x.ids
                                 /\ Conf!Dropped(x).at = x.at /\ Conf!Dropped(x).device = x.device
  BY DEF Conf!Dropped, Conf!Ops
<1>2. x \in Conf!Replies => Conf!Dropped(x) \in Conf!Replies /\ ~Conf!Dropped(x).live
  BY DEF Conf!Dropped, Conf!Replies
<1> QED BY <1>1, <1>2

\* The page is opened for another account, or closed: what it waited for is dropped.
LEMMA DropGrows ==
  ASSUME Conf!ConfInv, UNCHANGED <<s1, s2, s4, s7, s8>>,
         s6' \in Conf!Views, s6'.list = None, s5' = {Conf!Dropped(r) : r \in s5},
         NEW S \in SUBSET ConfHolders, \A a \in S : s6'.account = a,
         s3' = [b \in ConfHolders |-> [k \in DOMAIN s3[b] |-> Conf!Dropped(s3[b][k])]
                                        \o (IF b \in S THEN <<Conf!Op("list", {}, TRUE)>> ELSE <<>>)]
  PROVE  Conf!ConfInv'
<1> DEFINE old(b) == [k \in DOMAIN s3[b] |-> Conf!Dropped(s3[b][k])]
           new(b) == IF b \in S THEN <<Conf!Op("list", {}, TRUE)>> ELSE <<>>
<1>1. s5' \subseteq Conf!Replies /\ \A r \in s5' : Conf!ReplyStands(r)'
  BY DropKeeps DEF Conf!ConfInv, Conf!ConfTyped, Conf!ReplyStands
<1>2. Conf!PageIsItsAccounts'
  BY DEF Conf!PageIsItsAccounts
<1>3. Conf!Op("list", {}, TRUE) \in Conf!Ops /\ Conf!Op("list", {}, TRUE).at = "queued"
  BY DEF Conf!Op, Conf!Ops, Conf!Kinds
<1>4. ASSUME NEW b \in ConfHolders
      PROVE  /\ s3'[b] \in Seq(Conf!Ops)
             /\ \A k \in DOMAIN s3[b] : k \in DOMAIN s3'[b] /\ s3'[b][k] = Conf!Dropped(s3[b][k])
             /\ \A k \in DOMAIN s3'[b] : k \in DOMAIN s3[b] \/ (b \in S /\ s3'[b][k] = Conf!Op("list", {}, TRUE))
  <2>1. s3[b] \in Seq(Conf!Ops) /\ Len(s3[b]) \in Nat /\ DOMAIN s3[b] = 1..Len(s3[b])
    BY QueueTyped
  <2>2. \A k \in DOMAIN s3[b] : Conf!Dropped(s3[b][k]) \in Conf!Ops
    BY <2>1, DropKeeps, ElementOfSeq
  <2>3. old(b) \in Seq(Conf!Ops) /\ Len(old(b)) = Len(s3[b]) /\ \A k \in DOMAIN s3[b] : old(b)[k] = Conf!Dropped(s3[b][k])
    BY <2>1, <2>2, IsASeq, LenProperties
  <2>4. new(b) \in Seq(Conf!Ops) /\ Len(new(b)) \in {0, 1} /\ (Len(new(b)) = 1 => b \in S /\ new(b)[1] = Conf!Op("list", {}, TRUE))
    <3> DEFINE o == Conf!Op("list", {}, TRUE)
    <3>1. o \in Conf!Ops
      BY <1>3
    <3> HIDE DEF o
    <3>2. <<o>> \in Seq(Conf!Ops) /\ Len(<<o>>) = 1 /\ <<o>>[1] = o /\ <<>> \in Seq(Conf!Ops) /\ Len(<<>>) = 0
      BY <3>1
    <3>3. b \in S => new(b) = <<o>>
      BY DEF o
    <3>4. b \notin S => new(b) = <<>>
      OBVIOUS
    <3> HIDE DEF new
    <3>5. new(b) \in Seq(Conf!Ops) /\ Len(new(b)) \in {0, 1} /\ (Len(new(b)) = 1 => b \in S /\ new(b)[1] = o)
      <4>1. 0 # 1
        OBVIOUS
      <4>2. CASE b \in S
        <5>1. new(b) = <<o>> /\ Len(new(b)) = 1
          BY <3>2, <3>3, <4>2
        <5> QED BY <3>2, <4>2, <5>1, Zenon
      <4>3. CASE b \notin S
        <5>1. new(b) = <<>> /\ Len(new(b)) = 0
          BY <3>2, <3>4, <4>3
        <5> QED BY <3>2, <4>1, <5>1, Zenon
      <4> QED BY <4>2, <4>3
    <3> QED BY <3>5 DEF o
  <2> HIDE DEF old, new
  <2>5. s3'[b] = old(b) \o new(b)
    BY DEF old, new
  <2>6. /\ old(b) \o new(b) \in Seq(Conf!Ops) /\ Len(old(b) \o new(b)) = Len(old(b)) + Len(new(b))
        /\ \A k \in 1..(Len(old(b)) + Len(new(b))) : (old(b) \o new(b))[k] = IF k <= Len(old(b)) THEN old(b)[k] ELSE new(b)[k - Len(old(b))]
    <3>1. \A s, u \in Seq(Conf!Ops) :
             /\ s \o u \in Seq(Conf!Ops) /\ Len(s \o u) = Len(s) + Len(u)
             /\ \A k \in 1..(Len(s) + Len(u)) : (s \o u)[k] = IF k <= Len(s) THEN s[k] ELSE u[k - Len(s)]
      BY ConcatProperties
    <3> QED BY <2>3, <2>4, <3>1
  <2>7. DOMAIN s3'[b] = 1..(Len(old(b)) + Len(new(b)))
    BY <2>5, <2>6, LenProperties
  <2>8. ASSUME NEW k \in DOMAIN s3[b] PROVE k \in DOMAIN s3'[b] /\ s3'[b][k] = Conf!Dropped(s3[b][k])
    <3>1. k <= Len(old(b)) /\ k \in 1..(Len(old(b)) + Len(new(b)))
      BY <2>1, <2>3, <2>4
    <3> QED BY <2>3, <2>5, <2>6, <2>7, <3>1
  <2>9. ASSUME NEW k \in DOMAIN s3'[b], k \notin DOMAIN s3[b] PROVE b \in S /\ s3'[b][k] = Conf!Op("list", {}, TRUE)
    <3>1. k - Len(old(b)) = 1 /\ Len(new(b)) = 1 /\ ~(k <= Len(old(b)))
      BY <2>1, <2>3, <2>4, <2>7, <2>9
    <3> QED BY <2>4, <2>5, <2>6, <2>7, <3>1
  <2> QED BY <2>5, <2>6, <2>8, <2>9
<1>5. s3' \in [ConfHolders -> Seq(Conf!Ops)]
  <2>1. s3' = [b \in ConfHolders |-> s3'[b]]
    OBVIOUS
  <2> QED BY <1>4, <2>1
<1>6. ASSUME NEW b \in ConfHolders, NEW k \in DOMAIN s3[b]
      PROVE  /\ k \in DOMAIN s3'[b]
             /\ s3'[b][k].kind = s3[b][k].kind /\ s3'[b][k].ids = s3[b][k].ids
             /\ s3'[b][k].at = s3[b][k].at /\ s3'[b][k].device = s3[b][k].device
             /\ ~s3'[b][k].live
  <2>1. s3[b][k] \in Conf!Ops
    BY QueueTyped
  <2>2. /\ Conf!Dropped(s3[b][k]).kind = s3[b][k].kind /\ Conf!Dropped(s3[b][k]).ids = s3[b][k].ids
        /\ Conf!Dropped(s3[b][k]).at = s3[b][k].at /\ Conf!Dropped(s3[b][k]).device = s3[b][k].device
        /\ ~Conf!Dropped(s3[b][k]).live
    BY <2>1, DropKeeps
  <2>3. k \in DOMAIN s3'[b] /\ s3'[b][k] = Conf!Dropped(s3[b][k])
    BY <1>4
  <2> QED BY <2>2, <2>3
<1>7. ASSUME NEW b \in ConfHolders, NEW k \in DOMAIN s3'[b]
      PROVE  /\ k \in DOMAIN s3[b] \/ s3'[b][k].at = "queued"
             /\ s3'[b][k].live => s6'.account = b
  <2>1. CASE k \in DOMAIN s3[b]
    <3>1. ~s3'[b][k].live
      BY <1>6, <2>1
    <3> QED BY <2>1, <3>1
  <2>2. CASE k \notin DOMAIN s3[b]
    <3>1. b \in S /\ s3'[b][k] = Conf!Op("list", {}, TRUE)
      BY <1>4, <2>2
    <3> QED BY <1>3, <3>1
  <2> QED BY <2>1, <2>2
<1>8. \A a \in ConfHolders : \A k \in DOMAIN s3[a] :
            /\ k \in DOMAIN s3'[a]
            /\ s3'[a][k].kind = s3[a][k].kind /\ s3'[a][k].ids = s3[a][k].ids
            /\ s3'[a][k].at = s3[a][k].at /\ s3'[a][k].device = s3[a][k].device
  BY <1>6
<1>9. \A a \in ConfHolders : \A k \in DOMAIN s3'[a] :
            /\ k \in DOMAIN s3[a] \/ s3'[a][k].at = "queued"
            /\ s3'[a][k].live => s6'.account = a
  BY <1>7
<1> QED BY <1>1, <1>2, <1>5, <1>8, <1>9, QueuesGrow, Zenon

\* The steps of the page.
LEMMA ConfPageKeeps ==
  ASSUME Conf!ConfInv,
         (\E a \in ConfHolders : Conf!OpenPage(a) \/ Conf!AnotherBrowser(a)) \/ Conf!ClosePage \/ Conf!Refresh \/ Conf!SubmitAnswer
           \/ \E r \in s5 : Conf!ReplyArrives(r)
  PROVE  Conf!ConfInv'
<1>1. /\ s6 \in Conf!Views /\ s5 \subseteq Conf!Replies /\ s3 \in [ConfHolders -> Seq(Conf!Ops)]
      /\ Conf!PageIsItsAccounts /\ \A r \in s5 : Conf!ReplyStands(r)
  BY DEF Conf!ConfInv, Conf!ConfTyped
<1>2. "list" \in Conf!Kinds /\ "answer" \in Conf!Kinds
  BY DEF Conf!Kinds
<1>3. ASSUME NEW a \in ConfHolders PROVE Conf!Of(a) \in SUBSET ConfItems
  BY DEF Conf!Of
<1>4. ASSUME NEW a \in ConfHolders, Conf!OpenPage(a) PROVE Conf!ConfInv'
  <2>1. s6' \in Conf!Views /\ s6'.list = None /\ s6'.account = a
    <3>1. s6' = [Conf!Closed EXCEPT !.account = a, !.loading = TRUE] /\ Conf!Closed = [account |-> None, list |-> None, loading |-> FALSE, busy |-> FALSE]
      BY <1>4 DEF Conf!OpenPage, Conf!Closed
    <3>2. s6' = [account |-> a, list |-> None, loading |-> TRUE, busy |-> FALSE]
      BY <3>1
    <3> QED BY <3>2 DEF Conf!Views, Conf!ItemLists
  <2>2. s3' = [b \in ConfHolders |-> [k \in DOMAIN s3[b] |-> Conf!Dropped(s3[b][k])]
                                        \o (IF b \in {a} THEN <<Conf!Op("list", {}, TRUE)>> ELSE <<>>)]
    <3>1. \A b : b \in {a} <=> b = a
      OBVIOUS
    <3>2. s3' = [b \in ConfHolders |-> [k \in DOMAIN s3[b] |-> Conf!Dropped(s3[b][k])]
                                          \o (IF b = a THEN <<Conf!Op("list", {}, TRUE)>> ELSE <<>>)]
      BY <1>4 DEF Conf!OpenPage
    <3> QED BY <3>1, <3>2, Zenon
  <2>3. UNCHANGED <<s1, s2, s4, s7, s8>> /\ s5' = {Conf!Dropped(r) : r \in s5}
    BY <1>4 DEF Conf!OpenPage
  <2>4. {a} \in SUBSET ConfHolders /\ \A b \in {a} : s6'.account = b
    BY <2>1
  <2> QED BY <2>1, <2>2, <2>3, <2>4, DropGrows
<1>5. ASSUME NEW a \in ConfHolders, Conf!AnotherBrowser(a) PROVE Conf!ConfInv'
  <2>1. UNCHANGED <<s1, s2, s4, s5, s6, s7, s8>>
    BY <1>5 DEF Conf!AnotherBrowser
  <2>2. Conf!Ask(a, Conf!Op("list", {}, FALSE)) \/ \E ids \in SUBSET Conf!Of(a) \ {{}} : Conf!Ask(a, Conf!Op("answer", ids, FALSE))
    BY <1>5 DEF Conf!AnotherBrowser
  <2>3. CASE Conf!Ask(a, Conf!Op("list", {}, FALSE))
    BY <1>1, <1>2, <2>1, <2>3, AskGrows
  <2>4. ASSUME NEW ids \in SUBSET Conf!Of(a), Conf!Ask(a, Conf!Op("answer", ids, FALSE)) PROVE Conf!ConfInv'
    <3>1. ids \in SUBSET ConfItems
      BY <1>3
    <3> QED BY <1>1, <1>2, <2>1, <2>4, <3>1, AskGrows
  <2> QED BY <2>2, <2>3, <2>4
<1>6. ASSUME Conf!ClosePage PROVE Conf!ConfInv'
  <2>1. s6' \in Conf!Views /\ s6'.list = None
    <3>1. s6' = [account |-> None, list |-> None, loading |-> FALSE, busy |-> FALSE]
      BY <1>6 DEF Conf!ClosePage, Conf!Closed
    <3> QED BY <3>1 DEF Conf!Views, Conf!ItemLists
  <2>2. s3' = [b \in ConfHolders |-> [k \in DOMAIN s3[b] |-> Conf!Dropped(s3[b][k])]
                                        \o (IF b \in {} THEN <<Conf!Op("list", {}, TRUE)>> ELSE <<>>)]
    <3>1. ASSUME NEW b \in ConfHolders
          PROVE [k \in DOMAIN s3[b] |-> Conf!Dropped(s3[b][k])] \o (IF b \in {} THEN <<Conf!Op("list", {}, TRUE)>> ELSE <<>>)
                  = [k \in DOMAIN s3[b] |-> Conf!Dropped(s3[b][k])]
      <4>1. s3[b] \in Seq(Conf!Ops) /\ Len(s3[b]) \in Nat /\ DOMAIN s3[b] = 1..Len(s3[b])
        BY QueueTyped
      <4>2. \A k \in DOMAIN s3[b] : Conf!Dropped(s3[b][k]) \in Conf!Ops
        BY <4>1, DropKeeps, ElementOfSeq
      <4>3. [k \in DOMAIN s3[b] |-> Conf!Dropped(s3[b][k])] \in Seq(Conf!Ops)
        BY <4>1, <4>2, IsASeq
      <4>4. (IF b \in {} THEN <<Conf!Op("list", {}, TRUE)>> ELSE <<>>) = <<>>
        BY Zenon
      <4> QED BY <4>3, <4>4, ConcatEmptySeq
    <3>2. s3' = [b \in ConfHolders |-> [k \in DOMAIN s3[b] |-> Conf!Dropped(s3[b][k])]]
      BY <1>6 DEF Conf!ClosePage
    <3> QED BY <3>1, <3>2, Zenon
  <2>3. UNCHANGED <<s1, s2, s4, s7, s8>> /\ s5' = {Conf!Dropped(r) : r \in s5}
    BY <1>6 DEF Conf!ClosePage
  <2>4. {} \in SUBSET ConfHolders /\ \A b \in {} : s6'.account = b
    OBVIOUS
  <2> QED BY <2>1, <2>2, <2>3, <2>4, DropGrows
<1>7. ASSUME Conf!Refresh PROVE Conf!ConfInv'
  <2>1. /\ s6.account \in ConfHolders /\ s6' = [s6 EXCEPT !.loading = TRUE] /\ Conf!Ask(s6.account, Conf!Op("list", {}, TRUE))
        /\ UNCHANGED <<s1, s2, s4, s5, s7, s8>>
    BY <1>1, <1>7 DEF Conf!Refresh, Conf!Views
  <2>2. s6' \in Conf!Views /\ s6'.account = s6.account /\ s6'.list = s6.list
    BY <1>1, <2>1 DEF Conf!Views
  <2> QED BY <1>2, <2>1, <2>2, AskGrows
<1>8. ASSUME Conf!SubmitAnswer PROVE Conf!ConfInv'
  <2>1. /\ s6.list # None /\ s6' = [s6 EXCEPT !.busy = TRUE]
        /\ UNCHANGED <<s1, s2, s4, s5, s7, s8>>
    BY <1>8 DEF Conf!SubmitAnswer
  <2>2. s6.account \in ConfHolders /\ s6.list \subseteq Conf!Of(s6.account)
    BY <1>1, <2>1 DEF Conf!PageIsItsAccounts, Conf!Views
  <2>3. PICK ids \in SUBSET s6.list : Conf!Ask(s6.account, Conf!Op("answer", ids, TRUE))
    BY <1>8 DEF Conf!SubmitAnswer
  <2>4. ids \in SUBSET ConfItems
    BY <1>3, <2>2
  <2>5. s6' \in Conf!Views /\ s6'.account = s6.account /\ s6'.list = s6.list
    BY <1>1, <2>1 DEF Conf!Views
  <2> QED BY <1>2, <2>1, <2>2, <2>3, <2>4, <2>5, AskGrows
<1>9. ASSUME NEW r \in s5, Conf!ReplyArrives(r) PROVE Conf!ConfInv'
  <2> DEFINE next == [s6 EXCEPT !.list = IF r.ok THEN r.list ELSE @,
                                  !.loading = IF r.kind = "list" THEN FALSE ELSE @,
                                  !.busy = IF r.kind = "answer" THEN FALSE ELSE @]
  <2>1. s6' = (IF ~r.live THEN s6 ELSE next) /\ s5' = s5 \ {r} /\ UNCHANGED <<s1, s2, s3, s4, s7, s8>>
    BY <1>9 DEF Conf!ReplyArrives
  <2>2. r \in Conf!Replies /\ Conf!ReplyStands(r)
    BY <1>1
  <2>3. next \in Conf!Views /\ next.account = s6.account /\ next.list = IF r.ok THEN r.list ELSE s6.list
    BY <1>1, <2>2 DEF Conf!Views, Conf!Replies
  <2> HIDE DEF next
  <2>4. s6' \in Conf!Views /\ s6'.account = s6.account /\ s6'.list \in {s6.list, IF r.live /\ r.ok THEN r.list ELSE s6.list}
    BY <1>1, <2>1, <2>3
  <2>5. Conf!PageIsItsAccounts'
    BY <1>1, <2>2, <2>4 DEF Conf!PageIsItsAccounts, Conf!ReplyStands
  <2>6. s5' \subseteq Conf!Replies /\ \A p \in s5' : Conf!ReplyStands(p)'
    BY <1>1, <2>1, <2>4 DEF Conf!ReplyStands
  <2>7. Conf!ConfTyped' /\ Conf!OneAtATime'
    BY <2>1, <2>4, <2>6 DEF Conf!ConfInv, Conf!ConfTyped, Conf!OneAtATime
  <2>8. ASSUME NEW a \in ConfHolders PROVE Conf!ListStands(a)' /\ \A op \in Conf!Operations(a)' : Conf!OpStands(a, op)'
    <3>1. Conf!Operations(a)' = Conf!Operations(a) /\ Conf!ListStands(a) /\ \A op \in Conf!Operations(a) : Conf!OpStands(a, op)
      BY <2>1 DEF Conf!Operations, Conf!ConfInv
    <3> QED BY <2>1, <2>4, <3>1 DEF Conf!ListStands, Conf!OpStands, Conf!Heard
  <2> QED BY <2>5, <2>6, <2>7, <2>8 DEF Conf!ConfInv
<1> QED BY <1>4, <1>5, <1>6, <1>7, <1>8, <1>9

LEMMA RestartKeeps ==
  ASSUME Conf!ConfInv, Conf!ConfirmationsRestart
  PROVE  Conf!ConfInv'
<1> DEFINE ops == UNION {{s3[a][k] : k \in DOMAIN s3[a]} : a \in ConfHolders}
           taken == UNION {o.ids : o \in {p \in ops : p.at = "sent" /\ p.kind = "answer"}} \cap s1
           lost(o) == [kind |-> o.kind, ok |-> FALSE, list |-> None, live |-> o.live]
<1>1. PICK done \in {{}, taken} : s1' = s1 \ done /\ s7' = s7 \cup done
  BY DEF Conf!ConfirmationsRestart
<1>2. /\ s2' = [a \in ConfHolders |-> None] /\ s3' = [a \in ConfHolders |-> <<>>] /\ s4' = [a \in ConfHolders |-> 0]
      /\ s5' = s5 \cup {lost(o) : o \in ops} /\ s6' = s6
  BY DEF Conf!ConfirmationsRestart
<1>3. ops \subseteq Conf!Ops
  <2> SUFFICES ASSUME NEW a \in ConfHolders, NEW k \in DOMAIN s3[a] PROVE s3[a][k] \in Conf!Ops
    OBVIOUS
  <2> QED BY QueueTyped
<1>4. ASSUME NEW o \in ops PROVE lost(o) \in Conf!Replies /\ ~lost(o).ok
  BY <1>3 DEF Conf!Ops, Conf!Replies, Conf!ItemLists
<1>5. /\ s1 \in SUBSET ConfItems /\ s1 \cap s7 = {} /\ s5 \subseteq Conf!Replies /\ s6 \in Conf!Views
      /\ Conf!PageIsItsAccounts /\ \A r \in s5 : Conf!ReplyStands(r)
  BY DEF Conf!ConfInv, Conf!ConfTyped, Conf!OneAtATime
<1> HIDE DEF ops, taken, lost
<1>6. Conf!ConfTyped'
  <2>1. <<>> \in Seq(Conf!Ops)
    OBVIOUS
  <2> QED BY <1>1, <1>2, <1>4, <1>5, <2>1 DEF Conf!ConfTyped, Conf!ItemLists
<1>7. \A a \in ConfHolders : s3'[a] = <<>> /\ DOMAIN s3'[a] = {} /\ s2'[a] = None
  BY <1>2
<1>8. \A a \in ConfHolders : Conf!Operations(a)' = {}
  BY <1>7 DEF Conf!Operations
<1>9. Conf!OneAtATime'
  BY <1>1, <1>5, <1>7 DEF Conf!OneAtATime
<1>10. Conf!PageIsItsAccounts' /\ \A r \in s5' : Conf!ReplyStands(r)'
  BY <1>2, <1>4, <1>5 DEF Conf!PageIsItsAccounts, Conf!ReplyStands
<1> QED BY <1>6, <1>7, <1>8, <1>9, <1>10 DEF Conf!ConfInv, Conf!ListStands

\* Every step keeps it.
LEMMA ConfStep == Conf!ConfInv /\ [Conf!ConfNext]_Conf!confVars => Conf!ConfInv'
<1> SUFFICES ASSUME Conf!ConfInv, [Conf!ConfNext]_Conf!confVars PROVE Conf!ConfInv'
  OBVIOUS
<1>1. ASSUME NEW a \in ConfHolders, NEW k \in DOMAIN s3[a], Conf!OpStep(a, k) PROVE Conf!ConfInv'
  BY <1>1, BeginKeeps, ListReadKeeps, AnswersTakenKeeps, FailuresKeep, EndKeeps DEF Conf!OpStep
<1>2. ASSUME NEW W \in SUBSET ConfItems, W \subseteq s1, s1' = W,
             UNCHANGED <<s2, s3, s4, s5, s6, s7, s8>>
      PROVE  Conf!ConfInv'
  <2>1. Conf!ConfTyped' /\ Conf!OneAtATime' /\ Conf!PageIsItsAccounts'
    BY <1>2 DEF Conf!ConfInv, Conf!ConfTyped, Conf!OneAtATime, Conf!PageIsItsAccounts
  <2>2. \A a \in ConfHolders : Conf!ListStands(a)' /\ \A op \in Conf!Operations(a)' : Conf!OpStands(a, op)'
    BY <1>2 DEF Conf!ConfInv, Conf!ListStands, Conf!OpStands, Conf!Operations, Conf!Heard, Conf!Of
  <2>3. \A r \in s5' : Conf!ReplyStands(r)'
    BY <1>2 DEF Conf!ConfInv, Conf!ReplyStands, Conf!Of
  <2> QED BY <2>1, <2>2, <2>3 DEF Conf!ConfInv
<1>3. s1 \in SUBSET ConfItems
  BY DEF Conf!ConfInv, Conf!ConfTyped
<1>4. ASSUME NEW i \in ConfItems, Conf!AnsweredElsewhere(i) PROVE Conf!ConfInv'
  <2>1. /\ s1 \ {i} \in SUBSET ConfItems /\ s1 \ {i} \subseteq s1 /\ s1' = s1 \ {i}
        /\ UNCHANGED <<s2, s3, s4, s5, s6, s7, s8>>
    BY <1>3, <1>4 DEF Conf!AnsweredElsewhere
  <2>2. PICK W \in SUBSET ConfItems : W = s1 \ {i}
    BY <2>1
  <2> QED BY <1>2, <2>1, <2>2
<1>5. CASE UNCHANGED Conf!confVars
  <2>1. PICK W \in SUBSET ConfItems : W = s1
    BY <1>3
  <2> QED BY <1>2, <1>5, <2>1 DEF Conf!confVars
<1> QED BY <1>1, <1>4, <1>5, ConfPageKeeps, RestartKeeps DEF Conf!ConfNext

LEMMA ConfHolds == Conf!ConfInv => Conf!ConfirmationsKept
<1> SUFFICES ASSUME Conf!ConfInv PROVE Conf!ConfirmationsKept
  OBVIOUS
<1>1. \A a \in ConfHolders : \A op \in Conf!Operations(a) : Conf!OpStands(a, op)
  BY DEF Conf!ConfInv
<1>2. Conf!AnsweredIsGone /\ Conf!AnswersAsRead
  BY <1>1 DEF Conf!AnsweredIsGone, Conf!AnswersAsRead, Conf!OpStands, Conf!Heard
<1>3. Conf!PageIsItsAccounts
  BY DEF Conf!ConfInv
<1> QED BY <1>2, <1>3 DEF Conf!ConfirmationsKept

-----------------------------------------------------------------------------
(* The page that buys games.                                               *)
BuyGame == INSTANCE BuyGamePage WITH
  Accounts <- Players, Packages <- GamePacks, NoSession <- None, MaxSessions <- GameLogins, MaxAsks <- GameAsks,
  MaxTasks <- GameTasks, Steps <- GameSteps,
  session <- s1, tasks <- s2, arrived <- s3, listed <- s4, selected <- s5, games <- s6, pricedFor <- s7,
  shown <- s8, dialog <- s9, asked <- s10, asks <- s11, logins <- s12
ASSUME BuyGameAssumed == BuyGame!BuyGamePageConstants

LEMMA BuyGameCount == ASSUME NEW S, BuyGame!IsFiniteSet(S) PROVE BuyGame!Cardinality(S) \in Nat
<1>1. IsFiniteSet(S) /\ BuyGame!Cardinality(S) = Cardinality(S)
  BY DEF BuyGame!IsFiniteSet, IsFiniteSet, BuyGame!Cardinality, Cardinality
<1> QED BY <1>1, FS_CardinalityType

LEMMA BuyGameNumbers == GameTasks \in Nat /\ BuyGame!IsFiniteSet(Players) /\ BuyGame!Cardinality(Players) \in Nat
  BY BuyGameAssumed, BuyGameCount DEF BuyGame!BuyGamePageConstants

\* Of those chosen, the ones with a session.
LEMMA KnownOnes ==
  ASSUME NEW online, NEW chosen \in Seq(Players)
  PROVE  BuyGame!Known(online, chosen) \in Seq({a \in BuyGame!Range(chosen) : online[a] # None} \cap Players)
<1> DEFINE G == {a \in BuyGame!Range(chosen) : online[a] # None} \cap Players
           S == Seq(G)
           n == Len(chosen)
           Next1(i, s) == IF online[chosen[i]] # None THEN Append(s, chosen[i]) ELSE s
           Step == [p \in Nat \X S |-> IF p[1] \in 1..n THEN Next1(p[1], p[2]) ELSE <<>>]
           Loop(f) == f = [i \in 0..n |-> IF i = 0 THEN <<>> ELSE IF online[chosen[i]] # None THEN Append(f[i - 1], chosen[i]) ELSE f[i - 1]]
<1>0. n \in Nat /\ DOMAIN chosen = 1..n /\ \A i \in 1..n : chosen[i] \in Players /\ chosen[i] \in BuyGame!Range(chosen)
  BY DEF BuyGame!Range
<1>1. \A i \in 1..n : online[chosen[i]] # None => chosen[i] \in G
  BY <1>0
<1> HIDE DEF G
<1>2. ASSUME NEW i \in 1..n, NEW s \in S PROVE Next1(i, s) \in S
  BY <1>1, AppendProperties
<1>3. Step \in [Nat \X S -> S]
  <2>1. ASSUME NEW p \in Nat \X S PROVE (IF p[1] \in 1..n THEN Next1(p[1], p[2]) ELSE <<>>) \in S
    <3>1. p[2] \in S /\ <<>> \in S
      OBVIOUS
    <3> HIDE DEF S, Next1
    <3> QED BY <1>2, <3>1
  <2> HIDE DEF S, Next1
  <2> QED BY <2>1
<1>4. PICK f \in [0..n -> S] : f[0] = <<>> /\ \A i \in 1..n : f[i] = Step[<<i, f[i - 1]>>]
  <2>1. <<>> \in S
    OBVIOUS
  <2> HIDE DEF Step, n, S
  <2>2. \E f \in [0..n -> S] : Recurs(<<>>, Step, n, f)
    BY <1>0, <1>3, <2>1, Recursion
  <2> QED BY <2>2 DEF Recurs
<1> HIDE DEF S
<1>5. \A i \in 1..n : f[i] = Next1(i, f[i - 1])
  <2> SUFFICES ASSUME NEW i \in 1..n PROVE f[i] = Next1(i, f[i - 1])
    OBVIOUS
  <2> HIDE DEF Next1, n
  <2>1. i - 1 \in 0..n /\ i \in Nat /\ f[i - 1] \in S /\ <<i, f[i - 1]>> \in Nat \X S
    BY <1>0
  <2>2. Step[<<i, f[i - 1]>>] = Next1(i, f[i - 1])
    BY <2>1
  <2> QED BY <1>4, <2>2
<1> HIDE DEF Step
<1>6. Loop(f)
  <2> DEFINE g == [i \in 0..n |-> IF i = 0 THEN <<>> ELSE IF online[chosen[i]] # None THEN Append(f[i - 1], chosen[i]) ELSE f[i - 1]]
  <2>1. \A i \in 0..n : f[i] = IF i = 0 THEN <<>> ELSE IF online[chosen[i]] # None THEN Append(f[i - 1], chosen[i]) ELSE f[i - 1]
    <3> SUFFICES ASSUME NEW i \in 0..n
                 PROVE  f[i] = IF i = 0 THEN <<>> ELSE IF online[chosen[i]] # None THEN Append(f[i - 1], chosen[i]) ELSE f[i - 1]
      OBVIOUS
    <3>1. CASE i = 0
      BY <1>4, <3>1, Zenon
    <3>2. CASE i # 0
      <4>1. i \in 1..n
        BY <1>0, <3>2
      <4>2. f[i] = Next1(i, f[i - 1])
        BY <1>5, <4>1
      <4> QED BY <3>2, <4>2, Zenon
    <3> QED BY <3>1, <3>2
  <2>2. \A i \in 0..n : g[i] = f[i]
    BY <2>1, Zenon
  <2>3. DOMAIN g = 0..n /\ g = [i \in 0..n |-> g[i]] /\ f = [i \in 0..n |-> f[i]]
    BY <1>4, Zenon
  <2>4. f = g
    <3> HIDE DEF g
    <3> QED BY <2>2, <2>3, Zenon
  <2> QED BY <2>4
<1> DEFINE all == CHOOSE g : Loop(g)
<1>7. BuyGame!Known(online, chosen) = all[n]
  BY DEF BuyGame!Known
<1> HIDE DEF Loop
<1>8. Loop(all)
  BY <1>6
<1> HIDE DEF all
<1> DEFINE value(i) == IF i = 0 THEN <<>> ELSE Next1(i, all[i - 1])
<1>9. all = [i \in 0..n |-> value(i)]
  BY <1>8 DEF Loop
<1>10. \A i \in 0..n : all[i] = value(i)
  <2> HIDE DEF value, n
  <2> QED BY <1>9
<1> DEFINE T == {k \in Nat : k \in 0..n => all[k] \in S}
<1>11. 0 \in T
  <2>0. <<>> \in S
    BY DEF S
  <2> HIDE DEF S, n
  <2>1. 0 \in 0..n
    BY <1>0
  <2>2. value(0) = <<>>
    OBVIOUS
  <2> HIDE DEF value
  <2>3. all[0] = <<>>
    BY <1>10, <2>1, <2>2
  <2> QED BY <2>0, <2>3
<1>12. ASSUME NEW k \in T PROVE k + 1 \in T
  <2>1. CASE k + 1 \in 1..n
    <3>1. (k + 1) - 1 = k /\ k \in 0..n /\ k + 1 \in 0..n /\ k + 1 # 0 /\ all[k] \in S
      BY <1>0, <2>1
    <3>2. all[k + 1] = Next1(k + 1, all[k])
      BY <1>10, <3>1
    <3>3. all[k + 1] \in S
      BY <1>2, <2>1, <3>1, <3>2
    <3> QED BY <3>3
  <2> QED BY <1>0, <2>1
<1> HIDE DEF T
<1>13. \A k \in Nat : k \in T
  <2>1. T \subseteq Nat
    BY DEF T
  <2> QED BY <1>11, <1>12, <2>1, AllNumbers
<1>14. all[n] \in S
  BY <1>0, <1>13 DEF T
<1> QED BY <1>7, <1>14 DEF S, G

\* The same, where it matters.
LEMMA KnownAre ==
  ASSUME NEW online, NEW chosen \in Seq(Players)
  PROVE  /\ BuyGame!Known(online, chosen) \in Seq(Players)
         /\ BuyGame!Range(BuyGame!Known(online, chosen)) \subseteq {a \in Players : online[a] # None} \cap BuyGame!Range(chosen)
<1> DEFINE G == {a \in BuyGame!Range(chosen) : online[a] # None} \cap Players
           k == BuyGame!Known(online, chosen)
<1>1. k \in Seq(G)
  BY KnownOnes
<1>2. G \subseteq Players /\ G \subseteq {a \in Players : online[a] # None} \cap BuyGame!Range(chosen)
  OBVIOUS
<1> HIDE DEF G, k
<1>3. k \in Seq(Players)
  BY <1>1, <1>2, SeqMonotonic
<1>4. BuyGame!Range(k) \subseteq G
  BY <1>1 DEF BuyGame!Range
<1> QED BY <1>2, <1>3, <1>4 DEF k

LEMMA BuyGameStarts == BuyGame!BuyGamePageInit => BuyGame!BuyGameInv
<1> SUFFICES ASSUME BuyGame!BuyGamePageInit PROVE BuyGame!BuyGameInv
  OBVIOUS
<1>1. BuyGame!TasksTyped
  BY BuyGameNumbers DEF BuyGame!BuyGamePageInit, BuyGame!TasksTyped, BuyGame!NoTask
<1>2. s5 = <<>> /\ s5 \in Seq(Players) /\ BuyGame!Known(s4, s5) \in Seq({})
  <2>1. s5 = <<>> /\ s5 \in Seq(Players)
    BY DEF BuyGame!BuyGamePageInit
  <2>2. BuyGame!Range(s5) = {}
    BY <2>1 DEF BuyGame!Range
  <2>3. BuyGame!Known(s4, s5) \in Seq({a \in BuyGame!Range(s5) : s4[a] # None} \cap Players)
    BY <2>1, KnownOnes
  <2>4. {a \in BuyGame!Range(s5) : s4[a] # None} \cap Players = {}
    BY <2>2
  <2> QED BY <2>1, <2>3, <2>4
<1>3. BuyGame!Known(s4, s5) = <<>>
  BY <1>2
<1>4. s7 = BuyGame!FirstAttempt(s4, s5)
  BY <1>3 DEF BuyGame!FirstAttempt, BuyGame!BuyGamePageInit
<1>5. BuyGame!ListStands
  BY <1>2, <1>4 DEF BuyGame!ListStands, BuyGame!BuyGamePageInit
<1> QED BY <1>1, <1>5 DEF BuyGame!BuyGameInv

\* The list while tasks, sessions and pushes move.
LEMMA ListUnmoved ==
  ASSUME BuyGame!ListStands, UNCHANGED <<s4, s5, s6, s7>>, s9' \in {s9, None}
  PROVE  BuyGame!ListStands'
<1>1. BuyGame!FirstAttempt(s4, s5)' = BuyGame!FirstAttempt(s4, s5)
  BY DEF BuyGame!FirstAttempt, BuyGame!Known
<1> QED BY <1>1 DEF BuyGame!ListStands

\* Requests of another kind, or answers that are taken.
LEMMA TasksUnmoved ==
  ASSUME BuyGame!TasksTyped, UNCHANGED <<s2, s3, s8>>,
         \A x \in s10' : x \in s10 \/ x.about \in {"price", "accounts", "created"}
  PROVE  BuyGame!TasksTyped'
  BY DEF BuyGame!TasksTyped

LEMMA ShapeOfAsked ==
  ASSUME NEW price, NEW s, NEW entry
  PROVE  LET x == BuyGame!Asked(price, s, entry)
         IN  x = [resolving |-> x.resolving, price |-> x.price, newest |-> s, entry |-> x.entry]
  BY DEF BuyGame!Asked

LEMMA FirstOfNext ==
  ASSUME NEW online, NEW chosen, s4' = online, s5' = chosen
  PROVE  BuyGame!FirstAttempt(s4, s5)' = BuyGame!FirstAttempt(online, chosen)
<1>1. BuyGame!FirstAttempt(s4, s5)' = BuyGame!FirstAttempt(s4', s5')
  BY DEF BuyGame!FirstAttempt, BuyGame!Known
<1> QED BY <1>1

\* The list is asked about anew for the first of another choice.
LEMMA AskedAnew ==
  ASSUME BuyGame!ListStands, NEW online, NEW chosen \in Seq(Players), s4' = online, s5' = chosen,
         s7' = BuyGame!FirstAttempt(online, chosen),
         s6' = (IF s7' = s7 THEN s6 ELSE [p \in DOMAIN s6 |-> BuyGame!Asked(s6[p].price, s7', s6[p].entry)]),
         s9' = s9, s9 # None => BuyGame!Range(chosen) \subseteq s9.accounts
  PROVE  BuyGame!ListStands'
<1>1. BuyGame!FirstAttempt(s4, s5)' = BuyGame!FirstAttempt(online, chosen)
  BY FirstOfNext
<1>2. DOMAIN s6' = DOMAIN s6
  OBVIOUS
<1>3. \A p \in DOMAIN s6' :
        s6'[p] = [resolving |-> s6'[p].resolving, price |-> s6'[p].price, newest |-> s7', entry |-> s6'[p].entry]
  BY ShapeOfAsked DEF BuyGame!ListStands
<1>4. BuyGame!Range(s5)' = BuyGame!Range(chosen)
  BY DEF BuyGame!Range
<1> QED BY <1>1, <1>2, <1>3, <1>4 DEF BuyGame!ListStands

LEMMA SetSelectedKeeps == ASSUME BuyGame!BuyGameInv, BuyGame!SetSelected PROVE BuyGame!BuyGameInv'
<1>1. PICK chosen \in UNION {[1..n -> {a \in Players : s4[a] # None}] : n \in 0..BuyGame!Cardinality(Players)} :
        s5' = chosen /\ BuyGame!RepriceIfNeeded(s4, chosen)
  BY DEF BuyGame!SetSelected
<1>2. UNCHANGED <<s1, s2, s3, s4, s8, s9>> /\ s9 = None
  BY DEF BuyGame!SetSelected, BuyGame!serverVars
<1>3. chosen \in Seq(Players)
  <2>1. PICK n \in 0..BuyGame!Cardinality(Players) : chosen \in [1..n -> {a \in Players : s4[a] # None}]
    OBVIOUS
  <2>2. n \in Nat /\ chosen \in [1..n -> Players]
    BY <2>1, BuyGameNumbers
  <2> QED BY <2>2
<1>4. /\ s7' = BuyGame!FirstAttempt(s4, chosen)
      /\ s6' = (IF s7' = s7 THEN s6 ELSE [p \in DOMAIN s6 |-> BuyGame!Asked(s6[p].price, s7', s6[p].entry)])
      /\ \A x \in s10' : x \in s10 \/ x.about \in {"price", "accounts", "created"}
  BY <1>1 DEF BuyGame!RepriceIfNeeded, BuyGame!Resolving
<1>5. BuyGame!ListStands'
  BY <1>1, <1>2, <1>3, <1>4, AskedAnew DEF BuyGame!BuyGameInv
<1>6. BuyGame!TasksTyped'
  BY <1>2, <1>4, TasksUnmoved DEF BuyGame!BuyGameInv
<1> QED BY <1>5, <1>6 DEF BuyGame!BuyGameInv

LEMMA AccountsCameKeeps == ASSUME BuyGame!BuyGameInv, NEW answer \in s10, BuyGame!AccountsCame(answer) PROVE BuyGame!BuyGameInv'
<1> DEFINE chosen == BuyGame!Known(answer.online, s5)
<1>1. /\ s4' = answer.online /\ s5' = chosen /\ s7' = BuyGame!FirstAttempt(answer.online, chosen)
      /\ s6' = (IF s7' = s7 THEN s6 ELSE [p \in DOMAIN s6 |-> BuyGame!Asked(s6[p].price, s7', s6[p].entry)])
      /\ UNCHANGED <<s1, s2, s3, s8, s9>>
  BY DEF BuyGame!AccountsCame, BuyGame!serverVars
<1>2. \A x \in s10' : x \in s10 \/ x.about \in {"price", "accounts", "created"}
  BY DEF BuyGame!AccountsCame, BuyGame!Resolving
<1>3. s5 \in Seq(Players) /\ (s9 # None => BuyGame!Range(s5) \subseteq s9.accounts)
  BY DEF BuyGame!BuyGameInv, BuyGame!ListStands
<1>4. chosen \in Seq(Players) /\ BuyGame!Range(chosen) \subseteq BuyGame!Range(s5)
  BY <1>3, KnownAre
<1> HIDE DEF chosen
<1>5. BuyGame!ListStands'
  BY <1>1, <1>3, <1>4, AskedAnew DEF BuyGame!BuyGameInv
<1>6. BuyGame!TasksTyped'
  BY <1>1, <1>2, TasksUnmoved DEF BuyGame!BuyGameInv
<1> QED BY <1>5, <1>6 DEF BuyGame!BuyGameInv

LEMMA PriceTaken ==
  \A r, w, n, e, price : [[resolving |-> r, price |-> w, newest |-> n, entry |-> e] EXCEPT !.resolving = FALSE, !.price = price]
                           = [resolving |-> FALSE, price |-> price, newest |-> n, entry |-> e]
<1> SUFFICES ASSUME NEW r, NEW w, NEW n, NEW e, NEW price
             PROVE  [[resolving |-> r, price |-> w, newest |-> n, entry |-> e] EXCEPT !.resolving = FALSE, !.price = price]
                      = [resolving |-> FALSE, price |-> price, newest |-> n, entry |-> e]
  OBVIOUS
<1> DEFINE R == [resolving : {r, FALSE}, price : {w, price}, newest : {n}, entry : {e}]
           x == [resolving |-> r, price |-> w, newest |-> n, entry |-> e]
           y == [x EXCEPT !.resolving = FALSE, !.price = price]
<1>1. x \in R
  OBVIOUS
<1> HIDE DEF x
<1>2. y \in R /\ y.resolving = FALSE /\ y.price = price
  BY <1>1
<1> HIDE DEF y
<1>3. y.newest = n /\ y.entry = e
  BY <1>2
<1>4. y = [resolving |-> FALSE, price |-> price, newest |-> n, entry |-> e]
  BY <1>2, <1>3
<1> QED BY <1>4 DEF x, y

LEMMA ListEditsKeep ==
  ASSUME BuyGame!BuyGameInv, BuyGame!AddSubids \/ BuyGame!RemoveGame \/ \E answer \in s10 : BuyGame!Resolved(answer)
  PROVE  BuyGame!BuyGameInv'
<1>1. UNCHANGED <<s1, s2, s3, s4, s5, s8, s9>>
  BY DEF BuyGame!AddSubids, BuyGame!RemoveGame, BuyGame!Resolved, BuyGame!serverVars
<1>a. UNCHANGED BuyGame!FirstAttempt(s4, s5)
  BY <1>1 DEF BuyGame!FirstAttempt, BuyGame!Known
<1>2. \A x \in s10' : x \in s10 \/ x.about \in {"price", "accounts", "created"}
  <2>1. CASE BuyGame!AddSubids
    <3>1. PICK q, first : s10' = s10 \cup {BuyGame!Resolving(q, first, s11)}
      BY <2>1 DEF BuyGame!AddSubids
    <3>2. BuyGame!Resolving(q, first, s11).about = "price"
      BY DEF BuyGame!Resolving
    <3> QED BY <3>1, <3>2
  <2>2. CASE BuyGame!RemoveGame
    <3>1. s10' = s10
      BY <2>2, Zenon DEF BuyGame!RemoveGame
    <3> QED BY <3>1, Zenon
  <2>3. ASSUME NEW answer \in s10, BuyGame!Resolved(answer) PROVE s10' \subseteq s10
    BY <2>3 DEF BuyGame!Resolved
  <2> QED BY <2>1, <2>2, <2>3
<1>3. BuyGame!TasksTyped'
  BY <1>1, <1>2, TasksUnmoved DEF BuyGame!BuyGameInv
<1> DEFINE Shape(g, first) == \A p \in DOMAIN g : g[p] = [resolving |-> g[p].resolving, price |-> g[p].price, newest |-> first, entry |-> g[p].entry]
<1>4. Shape(s6, s7) /\ s7 = BuyGame!FirstAttempt(s4, s5)
  BY DEF BuyGame!BuyGameInv, BuyGame!ListStands
<1>5. /\ Shape(s6', s7') /\ s7' = s7
      /\ s9 # None => DOMAIN s6' = DOMAIN s6
  <2>1. CASE BuyGame!AddSubids
    <3>1. s7' = s7 /\ s9 = None
      BY <1>4, <2>1 DEF BuyGame!AddSubids
    <3> DEFINE x == BuyGame!Asked("", BuyGame!FirstAttempt(s4, s5), s11)
    <3>2. PICK q : s6' = [p \in DOMAIN s6 \cup {q} |-> IF p = q THEN x ELSE s6[p]]
      BY <2>1 DEF BuyGame!AddSubids
    <3>3. x = [resolving |-> x.resolving, price |-> x.price, newest |-> s7, entry |-> x.entry]
      BY <1>4, ShapeOfAsked
    <3>4. DOMAIN s6' = DOMAIN s6 \cup {q} /\ \A p \in DOMAIN s6' : s6'[p] = (IF p = q THEN x ELSE s6[p])
      BY <3>2
    <3> HIDE DEF x
    <3>5. Shape(s6', s7)
      BY <1>4, <3>3, <3>4
    <3> QED BY <3>1, <3>5
  <2>2. CASE BuyGame!RemoveGame
    <3>1. PICK q : s6' = [x \in DOMAIN s6 \ {q} |-> s6[x]]
      BY <2>2 DEF BuyGame!RemoveGame
    <3>2. Shape(s6', s7)
      BY <1>4, <3>1
    <3> QED BY <2>2, <3>2 DEF BuyGame!RemoveGame
  <2>3. ASSUME NEW answer \in s10, BuyGame!Resolved(answer)
        PROVE  Shape(s6', s7') /\ s7' = s7 /\ DOMAIN s6' = DOMAIN s6
    <3>1. s7' = s7
      BY <2>3 DEF BuyGame!Resolved
    <3>2. CASE s6' = s6
      BY <1>4, <3>1, <3>2
    <3>3. ASSUME NEW q \in DOMAIN s6, NEW price, s6' = [s6 EXCEPT ![q].resolving = FALSE, ![q].price = price]
          PROVE  Shape(s6', s7) /\ DOMAIN s6' = DOMAIN s6
      <4>1. DOMAIN s6' = DOMAIN s6 /\ s6'[q] = [s6[q] EXCEPT !.resolving = FALSE, !.price = price]
            /\ \A p \in DOMAIN s6 \ {q} : s6'[p] = s6[p]
        BY <3>3
      <4>2. s6[q] = [resolving |-> s6[q].resolving, price |-> s6[q].price, newest |-> s7, entry |-> s6[q].entry]
        BY <1>4
      <4>a. [s6[q] EXCEPT !.resolving = FALSE, !.price = price]
              = [[resolving |-> s6[q].resolving, price |-> s6[q].price, newest |-> s7, entry |-> s6[q].entry]
                   EXCEPT !.resolving = FALSE, !.price = price]
        BY <4>2, Zenon
      <4>3. s6'[q] = [resolving |-> FALSE, price |-> price, newest |-> s7, entry |-> s6[q].entry]
        BY <4>1, <4>a, PriceTaken, Zenon
      <4>4. ASSUME NEW p \in DOMAIN s6
            PROVE  s6'[p] = [resolving |-> s6'[p].resolving, price |-> s6'[p].price, newest |-> s7, entry |-> s6'[p].entry]
        <5>1. CASE p = q
          <6> DEFINE e == s6[q].entry
          <6> HIDE DEF e
          <6>1. s6'[q] = [resolving |-> FALSE, price |-> price, newest |-> s7, entry |-> e]
            BY <4>3 DEF e
          <6> QED BY <5>1, <6>1
        <5>2. CASE p # q
          <6>1. s6'[p] = s6[p]
            BY <4>1, <5>2
          <6> QED BY <1>4, <6>1, Zenon
        <5> QED BY <5>1, <5>2
      <4> QED BY <4>1, <4>4
    <3>4. \/ s6' = s6
          \/ \E q \in DOMAIN s6 : \E price : s6' = [s6 EXCEPT ![q].resolving = FALSE, ![q].price = price]
      BY <2>3, Zenon DEF BuyGame!Resolved
    <3> HIDE DEF Shape
    <3> QED BY <3>1, <3>2, <3>3, <3>4, Zenon
  <2> QED BY <2>1, <2>2, <2>3
<1>6. BuyGame!ListStands'
  BY <1>1, <1>a, <1>4, <1>5 DEF BuyGame!BuyGameInv, BuyGame!ListStands, BuyGame!Range
<1> QED BY <1>3, <1>6 DEF BuyGame!BuyGameInv

\* What is submitted becomes a task, in a place that was free.
LEMMA SubmitTypes ==
  ASSUME BuyGame!TasksTyped, BuyGame!SubmitPurchase, UNCHANGED <<s3, s8>>
  PROVE  BuyGame!TasksTyped'
<1>1. CASE UNCHANGED <<s2, s10>>
  BY <1>1 DEF BuyGame!TasksTyped
<1>2. ASSUME NEW t, NEW accounts, NEW packages, s2' = [s2 EXCEPT ![t] = [accounts |-> accounts, packages |-> packages, at |-> 1]],
             s10' = s10 \cup {[about |-> "created", task |-> t, n |-> s11]}
      PROVE  BuyGame!TasksTyped'
  <2>1. DOMAIN s2' = 1..GameTasks
    BY <1>2 DEF BuyGame!TasksTyped
  <2>2. ASSUME NEW u \in 1..GameTasks
        PROVE  s2'[u] = [accounts |-> s2'[u].accounts, packages |-> s2'[u].packages, at |-> s2'[u].at] /\ s2'[u].at \in Nat
    <3>1. CASE u = t
      <4>1. s2'[u] = [accounts |-> accounts, packages |-> packages, at |-> 1]
        BY <1>2, <3>1 DEF BuyGame!TasksTyped
      <4> QED BY <4>1
    <3>2. CASE u # t
      <4>1. s2'[u] = s2[u]
        BY <1>2, <3>2 DEF BuyGame!TasksTyped
      <4> QED BY <4>1 DEF BuyGame!TasksTyped
    <3> QED BY <3>1, <3>2
  <2>3. \A x \in s10' : x.about = "tasks" => x \in s10
    BY <1>2
  <2> QED BY <2>1, <2>2, <2>3 DEF BuyGame!TasksTyped
<1> QED BY <1>1, <1>2 DEF BuyGame!SubmitPurchase, BuyGame!Created

LEMMA BuyingKeeps == ASSUME BuyGame!BuyGameInv, BuyGame!Buy \/ BuyGame!Confirm \/ BuyGame!Cancel \/ BuyGame!DryRun PROVE BuyGame!BuyGameInv'
<1>1. UNCHANGED <<s3, s4, s5, s6, s7, s8>>
  BY DEF BuyGame!Buy, BuyGame!Confirm, BuyGame!Cancel, BuyGame!DryRun, BuyGame!serverVars
<1>a. UNCHANGED BuyGame!FirstAttempt(s4, s5)
  BY <1>1 DEF BuyGame!FirstAttempt, BuyGame!Known
<1>2. CASE BuyGame!Buy
  <2>1. s9' = [accounts |-> BuyGame!Range(s5), packages |-> DOMAIN s6, ready |-> BuyGame!Ready] /\ UNCHANGED <<s2, s10>>
    BY <1>2 DEF BuyGame!Buy, BuyGame!serverVars
  <2>2. s9'.accounts = BuyGame!Range(s5) /\ s9'.packages = DOMAIN s6
    BY <2>1
  <2>3. BuyGame!ListStands'
    BY <1>1, <1>a, <2>2 DEF BuyGame!BuyGameInv, BuyGame!ListStands, BuyGame!Range
  <2>4. BuyGame!TasksTyped'
    BY <1>1, <2>1, TasksUnmoved DEF BuyGame!BuyGameInv
  <2> QED BY <2>3, <2>4 DEF BuyGame!BuyGameInv
<1>3. CASE BuyGame!Confirm \/ BuyGame!DryRun
  <2>1. BuyGame!SubmitPurchase /\ s9' \in {s9, None}
    BY <1>3 DEF BuyGame!Confirm, BuyGame!DryRun
  <2> QED BY <1>1, <2>1, SubmitTypes, ListUnmoved DEF BuyGame!BuyGameInv
<1>4. CASE BuyGame!Cancel
  <2>1. UNCHANGED <<s2, s10>> /\ s9' \in {s9, None}
    BY <1>4 DEF BuyGame!Cancel, BuyGame!serverVars
  <2> QED BY <1>1, <2>1, TasksUnmoved, ListUnmoved DEF BuyGame!BuyGameInv
<1> QED BY <1>2, <1>3, <1>4

LEMMA TasksKeep ==
  ASSUME BuyGame!BuyGameInv, BuyGame!RefreshAccounts \/ BuyGame!LoadTasks \/ BuyGame!Push \/ BuyGame!TaskGoesOn \/ BuyGame!LogsOnOrOff
                     \/ \E answer \in s10 : BuyGame!CreatedCame(answer) \/ BuyGame!TasksCame(answer)
  PROVE  BuyGame!BuyGameInv'
<1>1. UNCHANGED <<s4, s5, s6, s7, s9>>
  BY DEF BuyGame!RefreshAccounts, BuyGame!LoadTasks, BuyGame!Push, BuyGame!TaskGoesOn, BuyGame!LogsOnOrOff, BuyGame!CreatedCame, BuyGame!TasksCame, BuyGame!serverVars
<1>2. BuyGame!ListStands'
  BY <1>1, ListUnmoved DEF BuyGame!BuyGameInv
<1>3. BuyGame!TasksTyped /\ DOMAIN s2 = 1..GameTasks /\ s3 \in [1..GameTasks -> Nat] /\ s8 \in [1..GameTasks -> Nat]
  BY DEF BuyGame!BuyGameInv, BuyGame!TasksTyped
<1>4. CASE BuyGame!RefreshAccounts \/ BuyGame!LogsOnOrOff
  <2>1. UNCHANGED <<s2, s3, s8>> /\ \A x \in s10' : x \in s10 \/ x.about \in {"price", "accounts", "created"}
    BY <1>4 DEF BuyGame!RefreshAccounts, BuyGame!LogsOnOrOff, BuyGame!serverVars
  <2> QED BY <1>2, <1>3, <2>1, TasksUnmoved DEF BuyGame!BuyGameInv
<1>5. CASE BuyGame!LoadTasks
  <2> DEFINE at == [t \in DOMAIN s2 |-> s2[t].at]
             new == [about |-> "tasks", at |-> at]
  <2>1. UNCHANGED <<s2, s3, s8>> /\ s10' = s10 \cup {new}
    BY <1>5 DEF BuyGame!LoadTasks, BuyGame!serverVars
  <2>2. at \in [1..GameTasks -> Nat] /\ new.at = at
    BY <1>3 DEF BuyGame!TasksTyped
  <2> HIDE DEF at, new
  <2>3. BuyGame!TasksTyped'
    BY <1>3, <2>1, <2>2 DEF BuyGame!TasksTyped
  <2> QED BY <1>2, <2>3 DEF BuyGame!BuyGameInv
<1>6. CASE BuyGame!Push
  <2>1. UNCHANGED <<s2, s10>>
    BY <1>6 DEF BuyGame!Push
  <2>2. PICK t \in 1..GameTasks : s3' = [s3 EXCEPT ![t] = @ + 1] /\ s8' = [s8 EXCEPT ![t] = s3[t] + 1]
    BY <1>3, <1>6 DEF BuyGame!Push
  <2>3. s3[t] + 1 \in Nat
    BY <1>3
  <2>4. s3' \in [1..GameTasks -> Nat] /\ s8' \in [1..GameTasks -> Nat]
    BY <1>3, <2>2, <2>3
  <2>5. BuyGame!TasksTyped'
    BY <1>3, <2>1, <2>4 DEF BuyGame!TasksTyped
  <2> QED BY <1>2, <2>5 DEF BuyGame!BuyGameInv
<1>7. CASE BuyGame!TaskGoesOn
  <2>1. UNCHANGED <<s10, s3, s8>>
    BY <1>7 DEF BuyGame!TaskGoesOn
  <2>2. PICK t \in 1..GameTasks : s2' = [s2 EXCEPT ![t].at = @ + 1]
    BY <1>3, <1>7 DEF BuyGame!TaskGoesOn
  <2>3. DOMAIN s2' = 1..GameTasks
    BY <1>3, <2>2
  <2>4. ASSUME NEW u \in 1..GameTasks
        PROVE  s2'[u] = [accounts |-> s2'[u].accounts, packages |-> s2'[u].packages, at |-> s2'[u].at] /\ s2'[u].at \in Nat
    <3>1. s2[u] = [accounts |-> s2[u].accounts, packages |-> s2[u].packages, at |-> s2[u].at] /\ s2[u].at \in Nat
      BY <1>3 DEF BuyGame!TasksTyped
    <3>2. s2'[u] = IF u = t THEN [s2[u] EXCEPT !.at = @ + 1] ELSE s2[u]
      BY <1>3, <2>2
    <3>3. CASE u = t
      <4>1. s2'[u] = [accounts |-> s2[u].accounts, packages |-> s2[u].packages, at |-> s2[u].at + 1]
        BY <3>1, <3>2, <3>3
      <4> QED BY <3>1, <4>1
    <3>4. CASE u # t
      BY <3>1, <3>2, <3>4
    <3> QED BY <3>3, <3>4
  <2>5. BuyGame!TasksTyped'
    BY <1>3, <2>1, <2>3, <2>4 DEF BuyGame!TasksTyped
  <2> QED BY <1>2, <2>5 DEF BuyGame!BuyGameInv
<1>8. ASSUME NEW answer \in s10, BuyGame!CreatedCame(answer) \/ BuyGame!TasksCame(answer) PROVE BuyGame!BuyGameInv'
  <2>1. UNCHANGED <<s2, s3>> /\ s10' \subseteq s10
    BY <1>8 DEF BuyGame!CreatedCame, BuyGame!TasksCame, BuyGame!serverVars
  <2>2. s8' \in [1..GameTasks -> Nat]
    <3>1. CASE BuyGame!CreatedCame(answer)
      BY <1>3, <3>1 DEF BuyGame!CreatedCame, BuyGame!ShowCreated
    <3>2. CASE BuyGame!TasksCame(answer)
      BY <1>3, <3>2 DEF BuyGame!TasksCame, BuyGame!TasksTyped
    <3> QED BY <1>8, <3>1, <3>2
  <2>3. BuyGame!TasksTyped'
    BY <1>3, <2>1, <2>2 DEF BuyGame!TasksTyped
  <2> QED BY <1>2, <2>3 DEF BuyGame!BuyGameInv
<1> QED BY <1>4, <1>5, <1>6, <1>7, <1>8

LEMMA BuyGameStep == BuyGame!BuyGameInv /\ [BuyGame!BuyGamePageNext]_BuyGame!pageVars => BuyGame!BuyGameInv'
<1> SUFFICES ASSUME BuyGame!BuyGameInv, [BuyGame!BuyGamePageNext]_BuyGame!pageVars PROVE BuyGame!BuyGameInv'
  OBVIOUS
<1>1. CASE UNCHANGED BuyGame!pageVars
  <2>1. UNCHANGED <<s2, s3, s4, s5, s6, s7, s8, s9, s10>>
    BY <1>1 DEF BuyGame!pageVars
  <2> QED BY <2>1, ListUnmoved, TasksUnmoved DEF BuyGame!BuyGameInv
<1>2. CASE BuyGame!BuyGamePageNext
  BY <1>2, SetSelectedKeeps, AccountsCameKeeps, ListEditsKeep, BuyingKeeps, TasksKeep DEF BuyGame!BuyGamePageNext, BuyGame!Service, BuyGame!Answers, BuyGame!Clicks
<1> QED BY <1>1, <1>2

\* What is bought is what was confirmed.
LEMMA BuyGameConfirmed == BuyGame!BuyGameInv /\ [BuyGame!BuyGamePageNext]_BuyGame!pageVars => BuyGame!NothingUnconfirmed
<1> SUFFICES ASSUME BuyGame!BuyGameInv, [BuyGame!BuyGamePageNext]_BuyGame!pageVars, NEW t \in DOMAIN s2, s2'[t] # s2[t], s2[t] = BuyGame!NoTask, s9 # None
             PROVE  /\ s2'[t].accounts \subseteq s9.accounts \cap {a \in Players : s1[a] # None}
                    /\ s2'[t].packages \subseteq s9.packages
  BY DEF BuyGame!NothingUnconfirmed
<1>1. CASE BuyGame!SubmitPurchase
  <2> DEFINE chosen == BuyGame!Known(s4, s5)
             found == {a \in BuyGame!Range(chosen) : s4[a] = s1[a]}
  <2>1. PICK u : s2' = [s2 EXCEPT ![u] = [accounts |-> found, packages |-> BuyGame!Ready, at |-> 1]]
    BY <1>1 DEF BuyGame!SubmitPurchase, BuyGame!Created
  <2>2. s2'[t] = [accounts |-> found, packages |-> BuyGame!Ready, at |-> 1]
    BY <2>1
  <2>3. s5 \in Seq(Players) /\ BuyGame!Range(s5) \subseteq s9.accounts /\ DOMAIN s6 \subseteq s9.packages
    BY DEF BuyGame!BuyGameInv, BuyGame!ListStands
  <2>4. BuyGame!Range(chosen) \subseteq {a \in Players : s4[a] # None} \cap BuyGame!Range(s5)
    BY <2>3, KnownAre
  <2>5. BuyGame!Ready \subseteq DOMAIN s6
    BY DEF BuyGame!Ready
  <2>6. s2'[t].accounts = found /\ s2'[t].packages = BuyGame!Ready
    BY <2>2
  <2> HIDE DEF chosen
  <2>7. found \subseteq s9.accounts \cap {a \in Players : s1[a] # None}
    BY <2>3, <2>4
  <2> QED BY <2>3, <2>5, <2>6, <2>7
<1>2. CASE BuyGame!TaskGoesOn
  <2>1. PICK u \in DOMAIN s2 : s2[u].at \in 1..GameSteps - 1 /\ s2' = [s2 EXCEPT ![u].at = @ + 1]
    BY <1>2 DEF BuyGame!TaskGoesOn
  <2>2. s2[u].at # 0 /\ s2[t].at = 0
    <3>1. \A k \in 1..(GameSteps - 1) : k # 0
      BY BuyGameAssumed DEF BuyGame!BuyGamePageConstants
    <3> QED BY <2>1, <3>1 DEF BuyGame!NoTask
  <2>3. s2'[t] = s2[t]
    BY <2>1, <2>2
  <2> QED BY <2>3
<1>3. CASE UNCHANGED s2
  BY <1>3
<1> QED BY <1>1, <1>2, <1>3 DEF BuyGame!BuyGamePageNext, BuyGame!Service, BuyGame!Answers, BuyGame!Clicks, BuyGame!Push, BuyGame!LogsOnOrOff, BuyGame!Resolved, BuyGame!AccountsCame, BuyGame!CreatedCame, BuyGame!TasksCame,
                                BuyGame!SetSelected, BuyGame!AddSubids, BuyGame!RemoveGame, BuyGame!RefreshAccounts, BuyGame!LoadTasks, BuyGame!Buy, BuyGame!Confirm, BuyGame!Cancel, BuyGame!DryRun, BuyGame!serverVars, BuyGame!pageVars

\* The page goes back only with a list, or a push after one.
LEMMA BuyGameTurnsBack == BuyGame!BuyGameInv /\ [BuyGame!BuyGamePageNext]_BuyGame!pageVars => BuyGame!OnlyListsTurnBack
<1> SUFFICES ASSUME BuyGame!BuyGameInv, [BuyGame!BuyGamePageNext]_BuyGame!pageVars, NEW t \in DOMAIN s8, s8'[t] < s8[t], s3' = s3
             PROVE  \E answer \in s10 \ s10' : answer.about = "tasks"
  BY DEF BuyGame!OnlyListsTurnBack
<1>1. s8 \in [1..GameTasks -> Nat] /\ s3 \in [1..GameTasks -> Nat] /\ DOMAIN s2 = 1..GameTasks
  BY DEF BuyGame!BuyGameInv, BuyGame!TasksTyped
<1>2. s8' # s8
  <2> SUFFICES ASSUME s8' = s8 PROVE FALSE
    OBVIOUS
  <2>1. s8[t] \in Nat /\ s8[t] < s8[t]
    BY <1>1
  <2> QED BY <2>1
<1>3. ~BuyGame!Push
  <2> SUFFICES ASSUME BuyGame!Push PROVE FALSE
    OBVIOUS
  <2>1. PICK u \in 1..GameTasks : s3' = [s3 EXCEPT ![u] = @ + 1]
    BY <1>1 DEF BuyGame!Push
  <2>2. s3'[u] = s3[u] + 1 /\ s3[u] \in Nat
    BY <1>1, <2>1
  <2> QED BY <2>2
<1>4. ASSUME NEW answer \in s10, BuyGame!CreatedCame(answer) PROVE FALSE
  <2>1. s8' = s8 \/ \E u : s8[u] = 0 /\ s8' = [s8 EXCEPT ![u] = 1]
    BY <1>4 DEF BuyGame!CreatedCame, BuyGame!ShowCreated
  <2>2. PICK u : s8[u] = 0 /\ s8' = [s8 EXCEPT ![u] = 1]
    BY <1>2, <2>1
  <2>3. s8'[t] = IF u = t THEN 1 ELSE s8[t]
    BY <1>1, <2>2
  <2>4. s8[t] \in Nat
    BY <1>1
  <2>5. u = t => s8[t] = 0
    BY <2>2
  <2> QED BY <2>3, <2>4, <2>5
<1>5. ASSUME NEW answer \in s10, BuyGame!TasksCame(answer) PROVE \E x \in s10 \ s10' : x.about = "tasks"
  BY <1>5 DEF BuyGame!TasksCame
<1> QED BY <1>2, <1>3, <1>4, <1>5 DEF BuyGame!BuyGamePageNext, BuyGame!Service, BuyGame!Answers, BuyGame!Clicks, BuyGame!TaskGoesOn, BuyGame!LogsOnOrOff, BuyGame!Resolved, BuyGame!AccountsCame,
                                BuyGame!SetSelected, BuyGame!AddSubids, BuyGame!RemoveGame, BuyGame!RefreshAccounts, BuyGame!LoadTasks, BuyGame!Buy, BuyGame!Confirm, BuyGame!Cancel, BuyGame!DryRun, BuyGame!serverVars, BuyGame!pageVars

LEMMA BuyGameAsks == BuyGame!BuyGameInv => BuyGame!AskedForFirst
<1> SUFFICES ASSUME BuyGame!BuyGameInv, NEW p \in DOMAIN s6 PROVE s6[p].newest = s7
  BY DEF BuyGame!AskedForFirst, BuyGame!BuyGameInv, BuyGame!ListStands
<1>1. s6[p] = [resolving |-> s6[p].resolving, price |-> s6[p].price, newest |-> s7, entry |-> s6[p].entry]
  BY DEF BuyGame!BuyGameInv, BuyGame!ListStands
<1> QED BY <1>1

-----------------------------------------------------------------------------
(* The page of proxies.                                                    *)
ProxyRows == INSTANCE ProxyPage WITH
  ProxiesAtStart <- RowsAtStart, MaxAsked <- RowAsks, MaxVersions <- RowVersions, MaxCut <- RowCuts,
  pool <- s1, poolPushes <- s2, online <- s3, asked <- s4, data <- s5, editing <- s6, form <- s7,
  editingGroup <- s8, ticked <- s9, doomed <- s10, unread <- s11, made <- s12, overtaken <- s13, asks <- s14,
  losses <- s15
ASSUME ProxyRowsAssumed == ProxyRows!ProxyPageConstants

LEMMA ATable == ASSUME NEW S \in SUBSET Nat, NEW f \in [S -> BOOLEAN] PROVE f \in ProxyRows!Tables
  BY DEF ProxyRows!Tables

LEMMA TablesAre == ASSUME NEW f \in ProxyRows!Tables PROVE DOMAIN f \subseteq Nat /\ \A x \in DOMAIN f : f[x] \in BOOLEAN
<1>1. PICK S \in SUBSET Nat : f \in [S -> BOOLEAN]
  BY DEF ProxyRows!Tables
<1> QED BY <1>1

LEMMA ProxyStarts == ProxyRows!ProxyPageInit => ProxyRows!ProxyInv
<1> SUFFICES ASSUME ProxyRows!ProxyPageInit PROVE ProxyRows!ProxyInv
  OBVIOUS
<1>1. PICK g \in BOOLEAN : s1 = [proxies |-> [x \in 1..RowsAtStart |-> FALSE], group |-> g, n |-> 0]
  BY DEF ProxyRows!ProxyPageInit
<1> DEFINE f == [x \in 1..RowsAtStart |-> FALSE]
<1>2. RowsAtStart \in Nat /\ f \in [1..RowsAtStart -> BOOLEAN] /\ 1..RowsAtStart \subseteq Nat
  BY ProxyRowsAssumed DEF ProxyRows!ProxyPageConstants
<1>3. f \in ProxyRows!Tables
  BY <1>2, ATable
<1>4. DOMAIN f = 1..RowsAtStart /\ s1 = [proxies |-> f, group |-> g, n |-> 0]
  BY <1>1
<1> HIDE DEF f
<1>5. s1 \in ProxyRows!Pools /\ s1.n = 0 /\ DOMAIN s1.proxies \subseteq 1..RowsAtStart + s1.n
  BY <1>2, <1>3, <1>4 DEF ProxyRows!Pools
<1>6. ProxyRows!Known(s1)
  BY <1>5 DEF ProxyRows!Known
<1>7. /\ s5 = s1 /\ s2 = <<>> /\ s4 = {} /\ s6 = ProxyRows!NoEditor /\ s7 = FALSE /\ s9 = {} /\ s10 = {}
      /\ s12 = {}
  BY DEF ProxyRows!ProxyPageInit
<1>8. ProxyRows!PoolTyped
  <2>1. s2 \in Seq(ProxyRows!Pools) /\ Len(s2) = 0
    BY <1>7
  <2>2. ProxyRows!Known(s5)
    BY <1>6, <1>7
  <2>3. s6 \in {ProxyRows!NoEditor, ProxyRows!NewEditor} \cup DOMAIN s5.proxies /\ s7 \in BOOLEAN /\ s9 \subseteq Int /\ s10 \subseteq Int
    BY <1>7
  <2>4. \A i \in 1..Len(s2) : ProxyRows!Known(s2[i])
    BY <2>1
  <2>5. \A r \in s4 : ProxyRows!Answers(r)
    BY <1>7
  <2> QED BY <1>6, <2>1, <2>2, <2>3, <2>4, <2>5 DEF ProxyRows!PoolTyped
<1> QED BY <1>7, <1>8 DEF ProxyRows!ProxyInv, ProxyRows!NewsComes, ProxyRows!NeverMadeAnew

-----------------------------------------------------------------------------
(* The server.                                                             *)

\* A change leaves a pool, of the proxies there were or of them and a new one.
LEMMA EditIsPool ==
  ASSUME ProxyRows!Known(s1), NEW r \in ProxyRows!PoolRequests, r.kind \notin {"list", "test"}
  PROVE  /\ ProxyRows!Edit(r) \in ProxyRows!Pools /\ ProxyRows!Edit(r).n = s1.n /\ DOMAIN ProxyRows!Edit(r).proxies \subseteq 1..RowsAtStart + (s1.n + 1)
         /\ r.kind = "create" => DOMAIN ProxyRows!Edit(r).proxies # {}
<1> DEFINE p == s1.proxies
<1>1. /\ s1 \in ProxyRows!Pools /\ p \in ProxyRows!Tables /\ s1.n \in Nat /\ s1.group \in BOOLEAN /\ r.member \in BOOLEAN
      /\ DOMAIN p \subseteq 1..RowsAtStart + s1.n /\ RowsAtStart \in Nat
  BY ProxyRowsAssumed DEF ProxyRows!Known, ProxyRows!Pools, ProxyRows!ProxyPageConstants, ProxyRows!PoolRequests
<1>2. DOMAIN p \subseteq Nat /\ \A x \in DOMAIN p : p[x] \in BOOLEAN
  BY <1>1, TablesAre
<1>3. DOMAIN p \subseteq 1..RowsAtStart + (s1.n + 1)
  BY <1>1
<1>4. ProxyRows!NewProxy \in 1..RowsAtStart + (s1.n + 1) /\ ProxyRows!NewProxy \in Nat
  BY <1>1 DEF ProxyRows!NewProxy
<1>5. ASSUME NEW q \in ProxyRows!Tables, NEW g \in BOOLEAN, ProxyRows!Edit(r) = [s1 EXCEPT !.proxies = q, !.group = g],
             DOMAIN q \subseteq 1..RowsAtStart + (s1.n + 1), r.kind = "create" => DOMAIN q # {}
      PROVE  /\ ProxyRows!Edit(r) \in ProxyRows!Pools /\ ProxyRows!Edit(r).n = s1.n /\ DOMAIN ProxyRows!Edit(r).proxies \subseteq 1..RowsAtStart + (s1.n + 1)
             /\ r.kind = "create" => DOMAIN ProxyRows!Edit(r).proxies # {}
  <2>1. ProxyRows!Edit(r) \in ProxyRows!Pools /\ ProxyRows!Edit(r).n = s1.n /\ ProxyRows!Edit(r).proxies = q
    BY <1>1, <1>5 DEF ProxyRows!Pools
  <2> QED BY <1>5, <2>1
<1>6. CASE r.kind = "create"
  <2> DEFINE q == [x \in DOMAIN p \cup {ProxyRows!NewProxy} |-> IF x = ProxyRows!NewProxy THEN r.member ELSE p[x]]
  <2>1. q \in [DOMAIN p \cup {ProxyRows!NewProxy} -> BOOLEAN]
    BY <1>1, <1>2
  <2>2. q \in ProxyRows!Tables /\ DOMAIN q = DOMAIN p \cup {ProxyRows!NewProxy}
    BY <1>2, <1>4, <2>1, ATable
  <2>3. ProxyRows!Edit(r) = [s1 EXCEPT !.proxies = q]
    BY <1>6 DEF ProxyRows!Edit
  <2> HIDE DEF q
  <2>4. ProxyRows!Edit(r) = [s1 EXCEPT !.proxies = q, !.group = s1.group]
    BY <1>1, <2>3 DEF ProxyRows!Pools
  <2> QED BY <1>1, <1>3, <1>4, <1>5, <2>2, <2>4
<1>7. CASE r.kind \in {"update", "delete", "bulk"}
  <2>1. PICK q \in ProxyRows!Tables : DOMAIN q \subseteq DOMAIN p /\ ProxyRows!Edit(r) = [s1 EXCEPT !.proxies = q]
    <3>1. CASE r.kind = "update"
      <4> DEFINE q == [x \in DOMAIN p |-> IF x \in r.ids THEN r.member /\ s1.group ELSE p[x]]
      <4>1. q \in [DOMAIN p -> BOOLEAN]
        BY <1>1, <1>2
      <4>2. q \in ProxyRows!Tables /\ DOMAIN q = DOMAIN p
        BY <1>2, <4>1, ATable
      <4>3. ProxyRows!Edit(r) = [s1 EXCEPT !.proxies = q]
        BY <3>1 DEF ProxyRows!Edit
      <4> QED BY <4>2, <4>3
    <3>2. CASE r.kind = "delete"
      <4> DEFINE q == [x \in DOMAIN p \ r.ids |-> p[x]]
      <4>1. q \in [DOMAIN p \ r.ids -> BOOLEAN]
        BY <1>2
      <4>2. q \in ProxyRows!Tables /\ DOMAIN q = DOMAIN p \ r.ids
        BY <1>2, <4>1, ATable
      <4>3. ProxyRows!Edit(r) = [s1 EXCEPT !.proxies = q]
        BY <3>2 DEF ProxyRows!Edit
      <4> QED BY <4>2, <4>3
    <3>3. CASE r.kind = "bulk"
      <4> DEFINE q == [x \in DOMAIN p |-> IF x \in r.ids THEN r.member ELSE p[x]]
      <4>1. q \in [DOMAIN p -> BOOLEAN]
        BY <1>1, <1>2
      <4>2. q \in ProxyRows!Tables /\ DOMAIN q = DOMAIN p
        BY <1>2, <4>1, ATable
      <4>3. ProxyRows!Edit(r) = [s1 EXCEPT !.proxies = q]
        BY <3>3 DEF ProxyRows!Edit
      <4> QED BY <4>2, <4>3
    <3> QED BY <1>7, <3>1, <3>2, <3>3
  <2> HIDE DEF p
  <2>2. ProxyRows!Edit(r) = [s1 EXCEPT !.proxies = q, !.group = s1.group]
    BY <1>1, <2>1 DEF ProxyRows!Pools
  <2> QED BY <1>1, <1>3, <1>5, <1>7, <2>1, <2>2
<1>8. CASE r.kind = "newGroup"
  <2> DEFINE q == [x \in DOMAIN p |-> x \in r.ids]
  <2>1. q \in [DOMAIN p -> BOOLEAN]
    OBVIOUS
  <2>2. q \in ProxyRows!Tables /\ DOMAIN q = DOMAIN p
    BY <1>2, <2>1, ATable
  <2>3. ProxyRows!Edit(r) = [s1 EXCEPT !.group = TRUE, !.proxies = q]
    BY <1>8 DEF ProxyRows!Edit
  <2> HIDE DEF q
  <2>4. ProxyRows!Edit(r) = [s1 EXCEPT !.proxies = q, !.group = TRUE]
    BY <1>1, <2>3 DEF ProxyRows!Pools
  <2> QED BY <1>1, <1>3, <1>5, <1>8, <2>2, <2>4
<1>9. CASE r.kind = "noGroup"
  <2> DEFINE q == [x \in DOMAIN p |-> FALSE]
  <2>1. q \in [DOMAIN p -> BOOLEAN]
    OBVIOUS
  <2>2. q \in ProxyRows!Tables /\ DOMAIN q = DOMAIN p
    BY <1>2, <2>1, ATable
  <2>3. ProxyRows!Edit(r) = [s1 EXCEPT !.group = FALSE, !.proxies = q]
    BY <1>9 DEF ProxyRows!Edit
  <2> HIDE DEF q
  <2>4. ProxyRows!Edit(r) = [s1 EXCEPT !.proxies = q, !.group = FALSE]
    BY <1>1, <2>3 DEF ProxyRows!Pools
  <2> QED BY <1>1, <1>3, <1>5, <1>9, <2>2, <2>4
<1> QED BY <1>6, <1>7, <1>8, <1>9 DEF ProxyRows!PoolRequests

\* A saved change is newer than all that is known, and on its way to the page.
LEMMA SavedIsNews ==
  ASSUME ProxyRows!ProxyInv, NEW next \in ProxyRows!Pools, DOMAIN next.proxies \subseteq 1..RowsAtStart + (s1.n + 1), ProxyRows!Saved(next), s3' = s3
  PROVE  /\ ProxyRows!Known(s1)' /\ s1'.proxies = next.proxies /\ \A x : ProxyRows!Known(x) => ProxyRows!Known(x)'
         /\ s2' \in Seq(ProxyRows!Pools) /\ \A i \in 1..Len(s2') : ProxyRows!Known(s2[i])'
         /\ s2' # <<>> => s3' /\ s2'[Len(s2')].n = s1'.n
         /\ s3' => s2' # <<>>
<1>1. s1 \in ProxyRows!Pools /\ s1.n \in Nat /\ s2 \in Seq(ProxyRows!Pools) /\ \A i \in 1..Len(s2) : ProxyRows!Known(s2[i])
  BY DEF ProxyRows!ProxyInv, ProxyRows!PoolTyped, ProxyRows!Known, ProxyRows!Pools
<1>2. s1' = [next EXCEPT !.n = s1.n + 1]
  BY DEF ProxyRows!Saved
<1>3. s1.n + 1 \in Nat
  BY <1>1
<1>4. s1' \in ProxyRows!Pools /\ s1'.n = s1.n + 1 /\ s1'.proxies = next.proxies
  BY <1>2, <1>3 DEF ProxyRows!Pools
<1>5. ProxyRows!Known(s1)'
  BY <1>4 DEF ProxyRows!Known, ProxyRows!Pools
<1>6. \A x : ProxyRows!Known(x) => ProxyRows!Known(x)'
  <2>1. \A x : x \in ProxyRows!Pools => x.n \in Nat
    BY DEF ProxyRows!Pools
  <2> QED BY <1>1, <1>4, <2>1 DEF ProxyRows!Known
<1>7. CASE s3
  <2>1. s2' = Append(s2, s1')
    BY <1>7 DEF ProxyRows!Saved
  <2>2. /\ s2' \in Seq(ProxyRows!Pools) /\ Len(s2') = Len(s2) + 1 /\ s2'[Len(s2')] = s1'
        /\ \A i \in 1..Len(s2) : s2'[i] = s2[i]
    BY <1>1, <1>4, <2>1
  <2>3. \A i \in 1..Len(s2') : ProxyRows!Known(s2[i])'
    <3>1. ASSUME NEW i \in 1..Len(s2') PROVE ProxyRows!Known(s2[i])'
      <4>1. i \in 1..Len(s2) \/ i = Len(s2')
        BY <1>1, <2>2
      <4>2. CASE i \in 1..Len(s2)
        <5>1. ProxyRows!Known(s2[i])
          BY <1>1, <4>2
        <5> QED BY <1>6, <2>2, <4>2, <5>1 DEF ProxyRows!Known
      <4>3. CASE i = Len(s2')
        BY <1>5, <2>2, <4>3 DEF ProxyRows!Known
      <4> QED BY <4>1, <4>2, <4>3
    <3> QED BY <3>1
  <2>4. s2' # <<>>
    BY <1>1, <2>2
  <2> QED BY <1>4, <1>5, <1>6, <1>7, <2>2, <2>3, <2>4
<1>8. CASE ~s3
  <2>1. s2' = s2 /\ s2 = <<>>
    BY <1>8 DEF ProxyRows!Saved, ProxyRows!ProxyInv, ProxyRows!NewsComes
  <2> QED BY <1>1, <1>4, <1>5, <1>6, <1>8, <2>1
<1> QED BY <1>7, <1>8

LEMMA ProxyElsewhereStep == ASSUME ProxyRows!ProxyInv, ProxyRows!ChangedElsewhere PROVE ProxyRows!ProxyInv'
<1> DEFINE p == s1.proxies
<1>1. /\ s1 \in ProxyRows!Pools /\ p \in ProxyRows!Tables /\ s1.n \in Nat /\ s1.group \in BOOLEAN
      /\ DOMAIN p \subseteq 1..RowsAtStart + s1.n /\ RowsAtStart \in Nat
  BY ProxyRowsAssumed DEF ProxyRows!Known, ProxyRows!Pools, ProxyRows!ProxyPageConstants, ProxyRows!ProxyInv, ProxyRows!PoolTyped
<1>2. DOMAIN p \subseteq Nat /\ \A x \in DOMAIN p : p[x] \in BOOLEAN
  BY <1>1, TablesAre
<1>3. DOMAIN p \subseteq 1..RowsAtStart + (s1.n + 1)
  BY <1>1
<1>4. UNCHANGED <<s3, s4, s5, s6, s7, s9, s10, s11, s12, s13>>
  BY DEF ProxyRows!ChangedElsewhere, ProxyRows!editVars
<1>5. PICK q \in ProxyRows!Tables : DOMAIN q \subseteq DOMAIN p /\ ProxyRows!Saved([s1 EXCEPT !.proxies = q])
  <2>1. PICK x \in DOMAIN p : \/ ProxyRows!Saved([s1 EXCEPT !.proxies = [y \in DOMAIN p \ {x} |-> p[y]]])
                              \/ ProxyRows!Saved([s1 EXCEPT !.proxies[x] = ~@])
    BY DEF ProxyRows!ChangedElsewhere
  <2>2. CASE ProxyRows!Saved([s1 EXCEPT !.proxies = [y \in DOMAIN p \ {x} |-> p[y]]])
    <3> DEFINE q == [y \in DOMAIN p \ {x} |-> p[y]]
    <3>1. q \in [DOMAIN p \ {x} -> BOOLEAN]
      BY <1>2
    <3>2. q \in ProxyRows!Tables /\ DOMAIN q = DOMAIN p \ {x}
      BY <1>2, <3>1, ATable
    <3> QED BY <2>2, <3>2
  <2>3. CASE ProxyRows!Saved([s1 EXCEPT !.proxies[x] = ~@])
    <3> DEFINE q == [p EXCEPT ![x] = ~p[x]]
    <3>1. p \in [DOMAIN p -> BOOLEAN]
      <4>1. PICK S \in SUBSET Nat : p \in [S -> BOOLEAN]
        BY <1>1 DEF ProxyRows!Tables
      <4> QED BY <4>1
    <3>2. q \in [DOMAIN p -> BOOLEAN]
      BY <3>1
    <3>3. q \in ProxyRows!Tables /\ DOMAIN q = DOMAIN p
      BY <1>2, <3>2, ATable
    <3>4. [s1 EXCEPT !.proxies[x] = ~@] = [s1 EXCEPT !.proxies = q]
      BY <1>1 DEF ProxyRows!Pools
    <3>5. ProxyRows!Saved([s1 EXCEPT !.proxies = q])
      BY <2>3, <3>4
    <3> QED BY <3>3, <3>5
  <2> QED BY <2>1, <2>2, <2>3
<1> DEFINE next == [s1 EXCEPT !.proxies = q]
<1>6. next \in ProxyRows!Pools /\ next.proxies = q
  BY <1>1 DEF ProxyRows!Pools
<1>7. ProxyRows!Saved(next) /\ DOMAIN next.proxies \subseteq 1..RowsAtStart + (s1.n + 1)
  BY <1>3, <1>5, <1>6
<1> HIDE DEF next, p
<1>8. /\ ProxyRows!Known(s1)' /\ \A x : ProxyRows!Known(x) => ProxyRows!Known(x)'
      /\ s2' \in Seq(ProxyRows!Pools) /\ \A i \in 1..Len(s2') : ProxyRows!Known(s2[i])'
      /\ s2' # <<>> => s3' /\ s2'[Len(s2')].n = s1'.n
      /\ s3' => s2' # <<>>
  BY <1>4, <1>6, <1>7, SavedIsNews
<1>9. ProxyRows!PoolTyped'
  <2>1. ProxyRows!Known(s5)'
    BY <1>4, <1>8 DEF ProxyRows!ProxyInv, ProxyRows!PoolTyped, ProxyRows!Known
  <2>2. \A r \in s4' : ProxyRows!Answers(r)'
    BY <1>4, <1>8 DEF ProxyRows!ProxyInv, ProxyRows!PoolTyped, ProxyRows!Answers
  <2> QED BY <1>4, <1>8, <2>1, <2>2 DEF ProxyRows!ProxyInv, ProxyRows!PoolTyped
<1> QED BY <1>4, <1>8, <1>9 DEF ProxyRows!ProxyInv, ProxyRows!NewsComes, ProxyRows!NeverMadeAnew

\* Every request answers with the pool it left.
LEMMA ProxyHandleStep == ASSUME ProxyRows!ProxyInv, NEW r \in s4, ProxyRows!Handle(r) PROVE ProxyRows!ProxyInv'
<1>1. r \in ProxyRows!PoolRequests /\ ProxyRows!Known(s1) /\ r.phase = "there"
  BY DEF ProxyRows!Handle, ProxyRows!ProxyInv, ProxyRows!PoolTyped, ProxyRows!Answers
<1>2. UNCHANGED <<s3, s5, s6, s7, s9, s10, s11, s12, s13>>
  BY DEF ProxyRows!Handle, ProxyRows!editVars
<1> DEFINE s == [r EXCEPT !.phase = "back", !.answer = s1']
<1>3. s4' = (s4 \ {r}) \cup {s}
  BY DEF ProxyRows!Handle
<1>4. ASSUME s1' \in ProxyRows!Pools PROVE s \in ProxyRows!PoolRequests /\ s.kind = r.kind /\ s.phase = "back" /\ s.answer = s1'
  BY <1>1, <1>4 DEF ProxyRows!PoolRequests
<1> HIDE DEF s
<1>5. CASE r.kind \in {"list", "test"}
  <2>1. UNCHANGED <<s1, s2>>
    BY <1>5 DEF ProxyRows!Handle, ProxyRows!poolVars
  <2>2. s1' \in ProxyRows!Pools /\ ProxyRows!Known(s1)'
    BY <1>1, <2>1 DEF ProxyRows!Known
  <2>3. \A q \in s4' : ProxyRows!Answers(q)'
    BY <1>3, <1>4, <1>5, <2>1, <2>2 DEF ProxyRows!ProxyInv, ProxyRows!PoolTyped, ProxyRows!Answers, ProxyRows!Known
  <2>4. ProxyRows!PoolTyped'
    BY <1>2, <2>1, <2>3 DEF ProxyRows!ProxyInv, ProxyRows!PoolTyped, ProxyRows!Known
  <2>5. ProxyRows!ListComes => ProxyRows!ListComes'
    BY <1>3, <1>4, <2>1, <2>2 DEF ProxyRows!ListComes
  <2> QED BY <1>2, <2>1, <2>4, <2>5 DEF ProxyRows!ProxyInv, ProxyRows!NewsComes, ProxyRows!NeverMadeAnew
<1>6. CASE r.kind \notin {"list", "test"}
  <2>1. ProxyRows!Saved(ProxyRows!Edit(r))
    BY <1>6 DEF ProxyRows!Handle
  <2>2. /\ ProxyRows!Edit(r) \in ProxyRows!Pools /\ ProxyRows!Edit(r).n = s1.n /\ DOMAIN ProxyRows!Edit(r).proxies \subseteq 1..RowsAtStart + (s1.n + 1)
        /\ r.kind = "create" => DOMAIN ProxyRows!Edit(r).proxies # {}
    BY <1>1, <1>6, EditIsPool
  <2>3. /\ ProxyRows!Known(s1)' /\ s1'.proxies = ProxyRows!Edit(r).proxies /\ \A x : ProxyRows!Known(x) => ProxyRows!Known(x)'
        /\ s2' \in Seq(ProxyRows!Pools) /\ \A i \in 1..Len(s2') : ProxyRows!Known(s2[i])'
        /\ s2' # <<>> => s3' /\ s2'[Len(s2')].n = s1'.n
        /\ s3' => s2' # <<>>
    BY <1>2, <2>1, <2>2, SavedIsNews
  <2>4. s \in ProxyRows!PoolRequests /\ s.kind = r.kind /\ s.phase = "back" /\ s.answer = s1'
    BY <1>4, <2>3 DEF ProxyRows!Known
  <2>5. \A q \in s4' : ProxyRows!Answers(q)'
    <3>1. ASSUME NEW q, q = s PROVE ProxyRows!Answers(q)'
      BY <2>2, <2>3, <2>4, <3>1 DEF ProxyRows!Answers, ProxyRows!Known
    <3>2. ASSUME NEW q \in s4 PROVE ProxyRows!Answers(q)'
      BY <2>3 DEF ProxyRows!ProxyInv, ProxyRows!PoolTyped, ProxyRows!Answers
    <3> QED BY <1>3, <3>1, <3>2
  <2>6. ProxyRows!PoolTyped'
    <3>1. ProxyRows!Known(s5)'
      BY <1>2, <2>3 DEF ProxyRows!ProxyInv, ProxyRows!PoolTyped, ProxyRows!Known
    <3> QED BY <1>2, <2>3, <2>5, <3>1 DEF ProxyRows!ProxyInv, ProxyRows!PoolTyped
  <2> QED BY <1>2, <2>3, <2>6 DEF ProxyRows!ProxyInv, ProxyRows!NewsComes, ProxyRows!NeverMadeAnew
<1> QED BY <1>5, <1>6

-----------------------------------------------------------------------------
(* The page.                                                               *)

\* What the page does without showing another state.
LEMMA PageAside ==
  ASSUME ProxyRows!ProxyInv, UNCHANGED <<s1, s2, s3, s5, s12>>,
         s13' = s13, s11' = s11, \A q \in s4' : ProxyRows!Answers(q), ProxyRows!ListComes => ProxyRows!ListComes',
         s6' \in {ProxyRows!NoEditor, ProxyRows!NewEditor} \cup DOMAIN s5.proxies, s7' \in BOOLEAN, s9' \subseteq Int, s10' \subseteq Int
  PROVE  ProxyRows!ProxyInv'
<1>1. \A q \in s4' : ProxyRows!Answers(q)'
  BY DEF ProxyRows!Answers, ProxyRows!Known
<1>2. ProxyRows!PoolTyped'
  BY <1>1 DEF ProxyRows!ProxyInv, ProxyRows!PoolTyped, ProxyRows!Known
<1> QED BY <1>2 DEF ProxyRows!ProxyInv, ProxyRows!NewsComes, ProxyRows!NeverMadeAnew

LEMMA UnmountedKeeps ==
  ASSUME NEW rs, \A r \in rs : ProxyRows!Answers(r), s4' = ProxyRows!Unmounted(rs)
  PROVE  /\ \A q \in s4' : ProxyRows!Answers(q)
         /\ \A r \in rs : \E q \in s4' : q.kind = r.kind /\ q.phase = r.phase /\ q.answer = r.answer
<1>1. CASE s6' = ProxyRows!NoEditor
  <2>1. s4' = {[r EXCEPT !.mine = FALSE] : r \in rs}
    BY <1>1 DEF ProxyRows!Unmounted
  <2>2. ASSUME NEW r \in rs
        PROVE  LET q == [r EXCEPT !.mine = FALSE] IN
                 ProxyRows!Answers(q) /\ q.kind = r.kind /\ q.phase = r.phase /\ q.answer = r.answer
    <3>1. r \in ProxyRows!PoolRequests
      BY DEF ProxyRows!Answers
    <3> DEFINE q == [r EXCEPT !.mine = FALSE]
    <3>2. q \in ProxyRows!PoolRequests /\ q.kind = r.kind /\ q.phase = r.phase /\ q.answer = r.answer
      BY <3>1 DEF ProxyRows!PoolRequests
    <3> HIDE DEF q
    <3>3. ProxyRows!Answers(q)
      BY <2>2, <3>2 DEF ProxyRows!Answers
    <3> QED BY <3>2, <3>3 DEF q
  <2> QED BY <2>1, <2>2
<1>2. CASE s6' # ProxyRows!NoEditor
  BY <1>2 DEF ProxyRows!Unmounted
<1> QED BY <1>1, <1>2

\* A request as it leaves the page.
LEMMA PoolAsked ==
  ASSUME ProxyRows!ProxyInv, NEW kind \in {"create", "update", "delete", "bulk", "newGroup", "noGroup", "list", "test"},
         NEW ids \in SUBSET Int, NEW member \in BOOLEAN, s4' = s4 \cup {ProxyRows!PoolRequest(kind, ids, member)}
  PROVE  (\A q \in s4' : ProxyRows!Answers(q)) /\ (ProxyRows!ListComes /\ s1' = s1 => ProxyRows!ListComes')
<1> DEFINE r == ProxyRows!PoolRequest(kind, ids, member)
<1>1. ProxyRows!Known(s1) /\ s1 \in ProxyRows!Pools
  BY DEF ProxyRows!ProxyInv, ProxyRows!PoolTyped, ProxyRows!Known
<1>2. r \in ProxyRows!PoolRequests /\ r.phase = "there" /\ r.answer = s1
  BY <1>1 DEF ProxyRows!PoolRequest, ProxyRows!PoolRequests
<1> HIDE DEF r
<1>3. ProxyRows!Answers(r)
  BY <1>1, <1>2 DEF ProxyRows!Answers
<1>4. \A q \in s4' : ProxyRows!Answers(q)
  BY <1>3 DEF ProxyRows!ProxyInv, ProxyRows!PoolTyped, r
<1> QED BY <1>4 DEF ProxyRows!ListComes

LEMMA WhatThePageHas ==
  ASSUME ProxyRows!ProxyInv
  PROVE  /\ s6 \in {ProxyRows!NoEditor, ProxyRows!NewEditor} \cup DOMAIN s5.proxies /\ s7 \in BOOLEAN /\ s9 \in SUBSET Int /\ s10 \in SUBSET Int
         /\ DOMAIN s5.proxies \subseteq Int /\ ProxyRows!Ticked \in SUBSET Int /\ \A q \in s4 : ProxyRows!Answers(q)
         /\ s12 = {} /\ ProxyRows!NewEditor \notin DOMAIN s5.proxies
<1>1. s5.proxies \in ProxyRows!Tables
  BY DEF ProxyRows!ProxyInv, ProxyRows!PoolTyped, ProxyRows!Known, ProxyRows!Pools
<1>2. DOMAIN s5.proxies \subseteq Nat
  BY <1>1, TablesAre
<1>3. ProxyRows!NewEditor \notin Nat
  BY DEF ProxyRows!NewEditor
<1> QED BY <1>2, <1>3 DEF ProxyRows!ProxyInv, ProxyRows!PoolTyped, ProxyRows!Ticked, ProxyRows!NeverMadeAnew

LEMMA EditorSteps ==
  ASSUME ProxyRows!ProxyInv, \/ \E x \in {ProxyRows!NewEditor} \cup DOMAIN s5.proxies : ProxyRows!OpenEditor(x)
                             \/ ProxyRows!CloseEditor \/ ProxyRows!SwitchGroup \/ ProxyRows!OpenGroup
                             \/ \E x \in DOMAIN s5.proxies : ProxyRows!Tick(x)
                             \/ ProxyRows!AskDelete
  PROVE  ProxyRows!ProxyInv'
<1> DEFINE Editors == {ProxyRows!NoEditor, ProxyRows!NewEditor} \cup DOMAIN s5.proxies
<1>0. /\ s6 \in Editors /\ s7 \in BOOLEAN /\ s9 \in SUBSET Int /\ s10 \in SUBSET Int
      /\ DOMAIN s5.proxies \subseteq Int /\ ProxyRows!Ticked \in SUBSET Int /\ \A q \in s4 : ProxyRows!Answers(q)
  BY WhatThePageHas
<1>1. ASSUME UNCHANGED <<s1, s2, s3, s4, s5, s12, s13, s11>>, s6' \in Editors,
             s7' \in BOOLEAN, s9' \subseteq Int, s10' \subseteq Int
      PROVE  ProxyRows!ProxyInv'
  <2>1. ProxyRows!ListComes => ProxyRows!ListComes'
    BY <1>1 DEF ProxyRows!ListComes
  <2> QED BY <1>0, <1>1, <2>1, PageAside
<1>2. ASSUME NEW x \in {ProxyRows!NewEditor} \cup DOMAIN s5.proxies, ProxyRows!OpenEditor(x) PROVE ProxyRows!ProxyInv'
  BY <1>0, <1>1, <1>2 DEF ProxyRows!OpenEditor, ProxyRows!poolVars
<1>3. CASE ProxyRows!CloseEditor
  <2>1. /\ UNCHANGED <<s1, s2, s3, s5, s12, s13, s11, s9, s10>>
        /\ s6' = ProxyRows!NoEditor /\ s7' = FALSE /\ s4' = ProxyRows!Unmounted(s4)
    BY <1>3 DEF ProxyRows!CloseEditor, ProxyRows!poolVars
  <2>2. /\ \A q \in s4' : ProxyRows!Answers(q)
        /\ \A r \in s4 : \E q \in s4' : q.kind = r.kind /\ q.phase = r.phase /\ q.answer = r.answer
    BY <1>0, <2>1, UnmountedKeeps
  <2>3. ProxyRows!ListComes => ProxyRows!ListComes'
    BY <2>1, <2>2 DEF ProxyRows!ListComes
  <2> QED BY <1>0, <2>1, <2>2, <2>3, PageAside
<1>4. CASE ProxyRows!SwitchGroup
  BY <1>0, <1>1, <1>4 DEF ProxyRows!SwitchGroup, ProxyRows!poolVars
<1>5. CASE ProxyRows!OpenGroup
  BY <1>0, <1>1, <1>5 DEF ProxyRows!OpenGroup, ProxyRows!poolVars
<1>6. ASSUME NEW x \in DOMAIN s5.proxies, ProxyRows!Tick(x) PROVE ProxyRows!ProxyInv'
  BY <1>0, <1>1, <1>6 DEF ProxyRows!Tick, ProxyRows!poolVars
<1>7. CASE ProxyRows!AskDelete
  <2>1. (s10' = {s6} /\ s6 \in DOMAIN s5.proxies) \/ s10' = ProxyRows!Ticked \/ s10' = {}
    BY <1>7 DEF ProxyRows!AskDelete, ProxyRows!IsThere
  <2>2. s10' \subseteq Int
    BY <1>0, <2>1
  <2> QED BY <1>0, <1>1, <1>7, <2>2 DEF ProxyRows!AskDelete, ProxyRows!poolVars
<1> QED BY <1>2, <1>3, <1>4, <1>5, <1>6, <1>7

LEMMA PoolAskSteps ==
  ASSUME ProxyRows!ProxyInv, ProxyRows!SaveForm \/ ProxyRows!TestTicked \/ ProxyRows!NewGroup \/ ProxyRows!DropGroup \/ \E b \in BOOLEAN : ProxyRows!BulkGroup(b) \/ ProxyRows!ConfirmDelete(b)
  PROVE  ProxyRows!ProxyInv'
<1> DEFINE Editors == {ProxyRows!NoEditor, ProxyRows!NewEditor} \cup DOMAIN s5.proxies
<1>0. /\ s6 \in Editors /\ s7 \in BOOLEAN /\ s9 \in SUBSET Int /\ s10 \in SUBSET Int
      /\ DOMAIN s5.proxies \subseteq Int /\ ProxyRows!Ticked \in SUBSET Int /\ \A q \in s4 : ProxyRows!Answers(q)
  BY WhatThePageHas
<1>1. ASSUME NEW kind \in {"create", "update", "delete", "bulk", "newGroup", "noGroup", "list", "test"},
             NEW ids \in SUBSET Int, NEW member \in BOOLEAN, ProxyRows!AskPool(ProxyRows!PoolRequest(kind, ids, member)),
             UNCHANGED <<s1, s2, s3, s5, s12, s13, s11, s6, s7, s9>>, s10' \subseteq Int
      PROVE  ProxyRows!ProxyInv'
  <2>1. s4' = s4 \cup {ProxyRows!PoolRequest(kind, ids, member)}
    BY <1>1 DEF ProxyRows!AskPool
  <2>2. (\A q \in s4' : ProxyRows!Answers(q)) /\ (ProxyRows!ListComes => ProxyRows!ListComes')
    BY <1>1, <2>1, PoolAsked
  <2> QED BY <1>0, <1>1, <2>2, PageAside
<1>2. CASE ProxyRows!SaveForm
  <2>1. UNCHANGED <<s1, s2, s3, s5, s13, s11, s6, s7, s9, s10>> /\ s6 # ProxyRows!NoEditor
    BY <1>2 DEF ProxyRows!SaveForm, ProxyRows!poolVars, ProxyRows!editVars
  <2>2. CASE ProxyRows!IsThere(s6)
    <3>1. ProxyRows!AskPool(ProxyRows!PoolRequest("update", {s6}, s7)) /\ s12' = s12 /\ {s6} \in SUBSET Int
      BY <1>0, <1>2, <2>2 DEF ProxyRows!SaveForm, ProxyRows!IsThere
    <3> QED BY <1>0, <1>1, <2>1, <3>1
  <2>3. CASE ~ProxyRows!IsThere(s6)
    <3>1. s6 = ProxyRows!NewEditor
      BY <1>0, <2>1, <2>3 DEF ProxyRows!IsThere
    <3>2. ProxyRows!AskPool(ProxyRows!PoolRequest("create", {}, s7)) /\ s12' = s12 /\ {} \in SUBSET Int
      BY <1>2, <2>3, <3>1 DEF ProxyRows!SaveForm
    <3> QED BY <1>0, <1>1, <2>1, <3>2
  <2> QED BY <2>2, <2>3
<1>3. CASE ProxyRows!TestTicked
  <2>1. /\ UNCHANGED <<s1, s2, s3, s5, s12, s13, s11, s6, s7, s9, s10>>
        /\ ProxyRows!AskPool(ProxyRows!PoolRequest("test", ProxyRows!Ticked, FALSE))
    BY <1>3 DEF ProxyRows!TestTicked, ProxyRows!poolVars, ProxyRows!editVars
  <2> QED BY <1>0, <1>1, <2>1
<1>4. CASE ProxyRows!NewGroup
  <2>1. /\ UNCHANGED <<s1, s2, s3, s5, s12, s13, s11, s6, s7, s9, s10>>
        /\ ProxyRows!AskPool(ProxyRows!PoolRequest("newGroup", ProxyRows!Ticked, FALSE))
    BY <1>4 DEF ProxyRows!NewGroup, ProxyRows!poolVars, ProxyRows!editVars
  <2> QED BY <1>0, <1>1, <2>1
<1>5. CASE ProxyRows!DropGroup
  <2>1. /\ UNCHANGED <<s1, s2, s3, s5, s12, s13, s11, s6, s7, s9, s10>>
        /\ ProxyRows!AskPool(ProxyRows!PoolRequest("noGroup", {}, FALSE)) /\ {} \in SUBSET Int
    BY <1>5 DEF ProxyRows!DropGroup, ProxyRows!poolVars, ProxyRows!editVars
  <2> QED BY <1>0, <1>1, <2>1
<1>6. ASSUME NEW b \in BOOLEAN, ProxyRows!BulkGroup(b) PROVE ProxyRows!ProxyInv'
  <2>1. /\ UNCHANGED <<s1, s2, s3, s5, s12, s13, s11, s6, s7, s9, s10>>
        /\ ProxyRows!AskPool(ProxyRows!PoolRequest("bulk", ProxyRows!Ticked, b))
    BY <1>6 DEF ProxyRows!BulkGroup, ProxyRows!poolVars, ProxyRows!editVars
  <2> QED BY <1>0, <1>1, <2>1
<1>7. ASSUME NEW b \in BOOLEAN, ProxyRows!ConfirmDelete(b) PROVE ProxyRows!ProxyInv'
  <2>1. UNCHANGED <<s1, s2, s3, s5, s12, s13, s11, s6, s7, s9>> /\ s10' = {}
    BY <1>7 DEF ProxyRows!ConfirmDelete, ProxyRows!poolVars
  <2>2. CASE ProxyRows!AskPool(ProxyRows!PoolRequest("delete", s10, FALSE))
    BY <1>0, <1>1, <2>1, <2>2
  <2>3. CASE s4' = s4
    <3>1. ProxyRows!ListComes => ProxyRows!ListComes'
      BY <2>1, <2>3 DEF ProxyRows!ListComes
    <3> QED BY <1>0, <2>1, <2>3, <3>1, PageAside
  <2> QED BY <1>7, <2>2, <2>3 DEF ProxyRows!ConfirmDelete
<1> QED BY <1>2, <1>3, <1>4, <1>5, <1>6, <1>7

LEMMA ProxySocketSteps == ASSUME ProxyRows!ProxyInv, ProxyRows!SocketCut \/ ProxyRows!SocketBack PROVE ProxyRows!ProxyInv'
<1>1. CASE ProxyRows!SocketCut
  <2>1. UNCHANGED <<s1, s4, s5, s6, s7, s9, s10, s11, s12, s13>> /\ ~s3' /\ s2' = <<>>
    BY <1>1 DEF ProxyRows!SocketCut, ProxyRows!editVars
  <2>2. s2' \in Seq(ProxyRows!Pools) /\ Len(s2') = 0
    BY <2>1
  <2>3. ProxyRows!PoolTyped'
    BY <2>1, <2>2 DEF ProxyRows!ProxyInv, ProxyRows!PoolTyped, ProxyRows!Known, ProxyRows!Answers
  <2> QED BY <2>1, <2>3 DEF ProxyRows!ProxyInv, ProxyRows!NewsComes, ProxyRows!NeverMadeAnew
<1>2. CASE ProxyRows!SocketBack
  <2>1. /\ UNCHANGED <<s1, s2, s5, s6, s7, s9, s10, s11, s12, s13>> /\ s3' /\ ~s3
        /\ s4' = s4 \cup {ProxyRows!PoolRequest("list", {}, FALSE)} /\ {} \in SUBSET Int
    BY <1>2 DEF ProxyRows!SocketBack, ProxyRows!poolVars, ProxyRows!editVars
  <2>2. \A q \in s4' : ProxyRows!Answers(q)
    BY <2>1, PoolAsked
  <2>3. ProxyRows!PoolTyped'
    BY <2>1, <2>2 DEF ProxyRows!ProxyInv, ProxyRows!PoolTyped, ProxyRows!Known, ProxyRows!Answers
  <2>4. ProxyRows!ListComes'
    <3>1. ProxyRows!PoolRequest("list", {}, FALSE).kind = "list" /\ ProxyRows!PoolRequest("list", {}, FALSE).phase = "there"
      BY DEF ProxyRows!PoolRequest
    <3> QED BY <2>1, <3>1 DEF ProxyRows!ListComes
  <2>5. s2' = <<>>
    BY <2>1 DEF ProxyRows!ProxyInv, ProxyRows!NewsComes
  <2> QED BY <2>1, <2>3, <2>4, <2>5 DEF ProxyRows!ProxyInv, ProxyRows!NewsComes, ProxyRows!NeverMadeAnew
<1> QED BY <1>1, <1>2

-----------------------------------------------------------------------------
(* The states that arrive.                                                 *)

\* Another state is shown; what was on its way is now, or is overtaken by it.
LEMMA StateShown ==
  ASSUME ProxyRows!ProxyInv, UNCHANGED <<s1, s3, s12>>, NEW next, ProxyRows!Known(next), ProxyRows!Apply(next),
         s2' \in Seq(ProxyRows!Pools), \A i \in 1..Len(s2') : ProxyRows!Known(s2'[i]),
         s2' # <<>> => s3 /\ s2'[Len(s2')].n = s1.n,
         \/ s2' = <<>> => next.n = s1.n
         \/ s2' = s2 /\ (ProxyRows!ListComes => next.n = s1.n \/ ProxyRows!ListComes'),
         \A q \in s4' : ProxyRows!Answers(q),
         s6' \in {ProxyRows!NoEditor, ProxyRows!NewEditor} \cup DOMAIN next.proxies, s7' \in BOOLEAN, s9' \subseteq Int, s10' \subseteq Int
  PROVE  ProxyRows!ProxyInv'
<1>1. /\ s5' = next /\ ~s11' /\ (s13' <=> (next.n < s5.n \/ ((s13 \/ s11) /\ next.n # s1.n)))
  BY DEF ProxyRows!Apply
<1>2. ProxyRows!PoolTyped'
  <2>1. \A q \in s4' : ProxyRows!Answers(q)'
    BY DEF ProxyRows!Answers, ProxyRows!Known
  <2>2. \A i \in 1..Len(s2') : ProxyRows!Known(s2[i])'
    BY DEF ProxyRows!Known
  <2>3. ProxyRows!Known(s1)' /\ ProxyRows!Known(s5)'
    BY <1>1 DEF ProxyRows!ProxyInv, ProxyRows!PoolTyped, ProxyRows!Known
  <2> QED BY <1>1, <2>1, <2>2, <2>3 DEF ProxyRows!ProxyInv, ProxyRows!PoolTyped
<1>3. ASSUME s3, s2' = <<>>, ~s13' PROVE s5'.n = s1.n \/ ProxyRows!ListComes'
  <2>1. next.n \in Nat /\ s5.n \in Nat /\ s1.n \in Nat /\ next.n <= s1.n /\ s5.n <= s1.n
    BY DEF ProxyRows!ProxyInv, ProxyRows!PoolTyped, ProxyRows!Known, ProxyRows!Pools
  <2>2. CASE next.n = s1.n
    BY <1>1, <2>2
  <2>3. CASE next.n # s1.n
    <3>1. s2 = <<>> /\ ~s13 /\ ~s11 /\ (ProxyRows!ListComes => ProxyRows!ListComes')
      BY <1>1, <1>3, <2>3
    <3>2. s5.n = s1.n \/ ProxyRows!ListComes
      BY <1>3, <3>1 DEF ProxyRows!ProxyInv, ProxyRows!NewsComes
    <3> QED BY <1>1, <1>3, <2>1, <2>3, <3>1, <3>2
  <2> QED BY <2>2, <2>3
<1> QED BY <1>2, <1>3 DEF ProxyRows!ProxyInv, ProxyRows!NewsComes, ProxyRows!NeverMadeAnew

LEMMA ProxyPushedStep == ASSUME ProxyRows!ProxyInv, ProxyRows!PoolPushed PROVE ProxyRows!ProxyInv'
<1> DEFINE next == Head(s2)
<1>1. /\ UNCHANGED <<s1, s3, s12, s9, s10>> /\ s3 /\ s2 # <<>> /\ s2' = Tail(s2)
      /\ ProxyRows!Apply(next) /\ ProxyRows!LeavesEditor(s5') /\ s7' = (s7 /\ s6' # ProxyRows!NoEditor) /\ s4' = ProxyRows!Unmounted(s4)
  BY DEF ProxyRows!PoolPushed
<1>2. s2 \in Seq(ProxyRows!Pools) /\ \A i \in 1..Len(s2) : ProxyRows!Known(s2[i])
  BY DEF ProxyRows!ProxyInv, ProxyRows!PoolTyped
<1>3. /\ Len(s2) \in Nat /\ Len(s2) >= 1 /\ next = s2[1] /\ s2' \in Seq(ProxyRows!Pools)
      /\ Len(s2') = Len(s2) - 1 /\ \A i \in 1..Len(s2') : s2'[i] = s2[i + 1]
      /\ s2' # <<>> <=> Len(s2') # 0
  <2>1. Len(s2) \in Nat /\ Len(s2) # 0 /\ Len(s2) >= 1
    BY <1>1, <1>2, EmptySeq
  <2>2. next = s2[1] /\ s2' \in Seq(ProxyRows!Pools) /\ Len(s2') = Len(s2) - 1
    BY <1>1, <1>2, <2>1, HeadTailProperties
  <2>3. \A i \in 1..Len(s2') : s2'[i] = s2[i + 1]
    BY <1>1, <1>2, HeadTailProperties
  <2>4. s2' # <<>> <=> Len(s2') # 0
    BY <2>2, EmptySeq
  <2> QED BY <2>1, <2>2, <2>3, <2>4
<1>4. ProxyRows!Known(next) /\ \A i \in 1..Len(s2') : ProxyRows!Known(s2'[i])
  BY <1>2, <1>3
<1>5. s2[Len(s2)].n = s1.n
  BY <1>1 DEF ProxyRows!ProxyInv, ProxyRows!NewsComes
<1>6. /\ s2' # <<>> => s2'[Len(s2')].n = s1.n
      /\ s2' = <<>> => next.n = s1.n
  <2>1. CASE s2' # <<>>
    <3>1. Len(s2') \in 1..Len(s2') /\ Len(s2') + 1 = Len(s2)
      BY <1>3, <2>1
    <3> QED BY <1>3, <1>5, <2>1, <3>1
  <2>2. CASE s2' = <<>>
    <3>1. Len(s2) = 1
      BY <1>3, <2>2
    <3> QED BY <1>3, <1>5, <2>2, <3>1
  <2> QED BY <2>1, <2>2
<1> HIDE DEF next
<1>7. s5' = next
  BY <1>1 DEF ProxyRows!Apply
<1>8. s6' \in {ProxyRows!NoEditor, ProxyRows!NewEditor} \cup DOMAIN next.proxies
  BY <1>1, <1>7 DEF ProxyRows!LeavesEditor
<1>9. \A q \in s4' : ProxyRows!Answers(q)
  BY <1>1, UnmountedKeeps, WhatThePageHas
<1>10. s7' \in BOOLEAN /\ s9' \subseteq Int /\ s10' \subseteq Int
  BY <1>1, WhatThePageHas
<1> QED BY <1>1, <1>3, <1>4, <1>6, <1>8, <1>9, <1>10, StateShown

LEMMA ProxyAnsweredStep == ASSUME ProxyRows!ProxyInv, NEW r \in s4, ProxyRows!PoolAnswered(r) PROVE ProxyRows!ProxyInv'
<1> DEFINE next == r.answer
<1>1. /\ UNCHANGED <<s1, s2, s3, s12, s10>> /\ r.phase = "back" /\ ProxyRows!Apply(next) /\ s4' = ProxyRows!Unmounted(s4 \ {r})
      /\ s9' = s9 \/ s9' = {}
  BY DEF ProxyRows!PoolAnswered, ProxyRows!poolVars
<1>2. ProxyRows!Answers(r) /\ ProxyRows!Known(next) /\ next \in ProxyRows!Pools /\ r.member \in BOOLEAN
  BY WhatThePageHas DEF ProxyRows!Answers, ProxyRows!Known, ProxyRows!PoolRequests
<1>3. s6' \in {ProxyRows!NoEditor, ProxyRows!NewEditor} \cup DOMAIN next.proxies /\ s7' \in BOOLEAN
  <2>1. CASE r.kind = "create" /\ r.mine
    <3> DEFINE S == DOMAIN next.proxies
    <3>1. next.proxies \in ProxyRows!Tables /\ S # {} /\ S \subseteq 1..RowsAtStart + next.n /\ next.n \in Nat /\ RowsAtStart \in Nat
      BY <1>1, <1>2, <2>1, ProxyRowsAssumed DEF ProxyRows!Answers, ProxyRows!Known, ProxyRows!Pools, ProxyRows!ProxyPageConstants
    <3>2. IsFiniteSet(1..RowsAtStart + next.n)
      BY <3>1, FS_Interval
    <3>3. IsFiniteSet(S) /\ S \in SUBSET Nat
      BY <3>1, <3>2, FS_Subset, TablesAre
    <3>4. \E x \in S : \A y \in S : x >= y
      BY <3>1, <3>3, GreatestOfSet
    <3>5. \E x \in S : \A y \in S : y <= x
      BY <3>3, <3>4
    <3>6. s6' = (CHOOSE x \in S : \A y \in S : y <= x) /\ s7' = r.member
      BY <2>1 DEF ProxyRows!PoolAnswered
    <3> HIDE DEF S
    <3>7. s6' \in S
      BY <3>5, <3>6
    <3> QED BY <1>2, <3>6, <3>7 DEF S
  <2>2. CASE ~(r.kind = "create" /\ r.mine)
    BY <2>2 DEF ProxyRows!PoolAnswered, ProxyRows!LeavesEditor
  <2> QED BY <2>1, <2>2
<1>4. /\ \A q \in s4' : ProxyRows!Answers(q)
      /\ \A s \in s4 \ {r} : \E q \in s4' : q.kind = s.kind /\ q.phase = s.phase /\ q.answer = s.answer
  BY <1>1, UnmountedKeeps, WhatThePageHas
<1>5. ProxyRows!ListComes => next.n = s1.n \/ ProxyRows!ListComes'
  <2>1. ASSUME NEW s \in s4, s.kind = "list", s.phase = "there" \/ s.answer.n = s1.n PROVE next.n = s1.n \/ ProxyRows!ListComes'
    <3>1. CASE s = r
      BY <1>1, <2>1, <3>1
    <3>2. CASE s # r
      BY <1>1, <1>4, <2>1, <3>2 DEF ProxyRows!ListComes
    <3> QED BY <3>1, <3>2
  <2> QED BY <2>1 DEF ProxyRows!ListComes
<1>6. /\ s2' \in Seq(ProxyRows!Pools) /\ \A i \in 1..Len(s2') : ProxyRows!Known(s2'[i])
      /\ s2' # <<>> => s3 /\ s2'[Len(s2')].n = s1.n
  BY <1>1 DEF ProxyRows!ProxyInv, ProxyRows!PoolTyped, ProxyRows!NewsComes
<1>7. s9' \subseteq Int /\ s10' \subseteq Int
  BY <1>1, WhatThePageHas
<1> HIDE DEF next
<1> QED BY <1>1, <1>2, <1>3, <1>4, <1>5, <1>6, <1>7, StateShown

LEMMA ProxyLostStep == ASSUME ProxyRows!ProxyInv, NEW r \in s4, ProxyRows!PoolAnswerLost(r) PROVE ProxyRows!ProxyInv'
<1>1. /\ UNCHANGED <<s1, s2, s3, s5, s6, s7, s9, s10, s12, s13>>
      /\ s4' = s4 \ {r} /\ s11' = (s11 \/ r.kind = "list")
  BY DEF ProxyRows!PoolAnswerLost, ProxyRows!poolVars, ProxyRows!editVars
<1>2. ProxyRows!PoolTyped'
  BY <1>1 DEF ProxyRows!ProxyInv, ProxyRows!PoolTyped, ProxyRows!Known, ProxyRows!Answers
<1>3. ProxyRows!ListComes /\ ~s11' => ProxyRows!ListComes'
  BY <1>1 DEF ProxyRows!ListComes
<1> QED BY <1>1, <1>2, <1>3 DEF ProxyRows!ProxyInv, ProxyRows!NewsComes, ProxyRows!NeverMadeAnew

LEMMA ProxyStep == ProxyRows!ProxyInv /\ [ProxyRows!ProxyPageNext]_ProxyRows!proxyPageVars => ProxyRows!ProxyInv'
<1> SUFFICES ASSUME ProxyRows!ProxyInv, [ProxyRows!ProxyPageNext]_ProxyRows!proxyPageVars PROVE ProxyRows!ProxyInv'
  OBVIOUS
<1>1. CASE UNCHANGED ProxyRows!proxyPageVars
  BY <1>1 DEF ProxyRows!proxyPageVars, ProxyRows!poolVars, ProxyRows!editVars, ProxyRows!ProxyInv, ProxyRows!PoolTyped, ProxyRows!NewsComes, ProxyRows!NeverMadeAnew, ProxyRows!Known, ProxyRows!Answers, ProxyRows!ListComes
<1>2. CASE ProxyRows!ProxyPageNext
  <2>1. ASSUME \E r \in s4 : ProxyRows!Handle(r) \/ ProxyRows!PoolAnswered(r) \/ ProxyRows!PoolAnswerLost(r) PROVE ProxyRows!ProxyInv'
    BY <2>1, ProxyHandleStep, ProxyAnsweredStep, ProxyLostStep
  <2> QED BY <1>2, <2>1, ProxyElsewhereStep, ProxyPushedStep, ProxySocketSteps, EditorSteps, PoolAskSteps DEF ProxyRows!ProxyPageNext
<1> QED BY <1>1, <1>2

\* The page of proxies shows the pool, and makes nothing anew.
LEMMA ProxyHolds == ProxyRows!ProxyInv => ProxyRows!ProxyPageKept
<1> SUFFICES ASSUME ProxyRows!ProxyInv, s3, s2 = <<>>, s4 = {}, ~s11, ~s13 PROVE s5 = s1
  BY DEF ProxyRows!ProxyPageKept, ProxyRows!ShowsPool, ProxyRows!ProxyInv
<1>1. s5.n = s1.n
  BY DEF ProxyRows!ProxyInv, ProxyRows!NewsComes, ProxyRows!ListComes
<1> QED BY <1>1 DEF ProxyRows!ProxyInv, ProxyRows!PoolTyped, ProxyRows!Known

-----------------------------------------------------------------------------
(* The page of in-game purchases.                                          *)
Purchases == INSTANCE PurchasePage WITH
  Games <- ShopGames, Orders <- ShopOrders, MaxMoves <- ShopMoves, NoGame <- None,
  funds <- s1, stage <- s2, taskGame <- s3, reading <- s4, taskReads <- s5, posting <- s6, pushes <- s7,
  page <- s8, moves <- s9
ASSUME PurchasesAssumed == Purchases!PageConstants

PageFields == {"accounts", "items"}

LEMMA PurchaseNumbers == MaxFunds \in Nat /\ None \notin ShopGames
  BY PurchasesAssumed DEF Purchases!PageConstants

\* A wallet holds a number for each of the accounts it has.
LEMMA OfWallets ==
  ASSUME NEW w \in Purchases!Wallets
  PROVE  DOMAIN w \subseteq Buyers /\ (\A b \in DOMAIN w : w[b] \in Nat)
<1>1. PICK bs \in SUBSET Buyers : w \in [bs -> 0..MaxFunds]
  BY DEF Purchases!Wallets
<1> QED BY <1>1, PurchaseNumbers

LEMMA OfLists ==
  ASSUME NEW l \in Purchases!Lists
  PROVE  DOMAIN l \subseteq ShopOrders /\ (\A t \in DOMAIN l : l[t] \in Purchases!AllStages) /\ l = [t \in DOMAIN l |-> l[t]]
<1>1. PICK ts \in SUBSET ShopOrders : l \in [ts -> Purchases!AllStages]
  BY DEF Purchases!Lists
<1> QED BY <1>1

LEMMA AList ==
  ASSUME NEW ts \in SUBSET ShopOrders, NEW l, l = [t \in ts |-> l[t]], \A t \in ts : l[t] \in Purchases!AllStages
  PROVE  l \in Purchases!Lists
<1>1. l \in [ts -> Purchases!AllStages]
  OBVIOUS
<1> QED BY <1>1 DEF Purchases!Lists

LEMMA NothingShown == << >> \in Purchases!Wallets /\ << >> \in Purchases!Lists /\ DOMAIN << >> = {}
<1>1. << >> \in [{} -> 0..MaxFunds] /\ << >> \in [{} -> Purchases!AllStages] /\ DOMAIN << >> = {}
  OBVIOUS
<1> QED BY <1>1 DEF Purchases!Wallets, Purchases!Lists

LEMMA NormalCarts ==
  ASSUME NEW cart \in [Buyers -> Nat], NEW w \in Purchases!Wallets
  PROVE  Purchases!Normalized(cart, w) \in [Buyers -> Nat] /\ \A b \in DOMAIN w : Purchases!Normalized(cart, w)[b] <= w[b]
<1>1. DOMAIN w \subseteq Buyers /\ \A b \in DOMAIN w : w[b] \in Nat
  BY OfWallets
<1>2. \A b \in Buyers : Purchases!Normalized(cart, w)[b] = IF b \notin DOMAIN w THEN 0 ELSE IF cart[b] <= w[b] THEN cart[b] ELSE w[b]
  BY DEF Purchases!Normalized
<1>3. \A b \in Buyers : Purchases!Normalized(cart, w)[b] \in Nat
  BY <1>1, <1>2
<1>4. Purchases!Normalized(cart, w) \in [Buyers -> Nat]
  <2>1. Purchases!Normalized(cart, w) = [b \in Buyers |-> Purchases!Normalized(cart, w)[b]]
    BY DEF Purchases!Normalized
  <2> QED BY <1>3, <2>1
<1>5. \A b \in DOMAIN w : Purchases!Normalized(cart, w)[b] <= w[b]
  BY <1>1, <1>2
<1> QED BY <1>4, <1>5

\* Another cart, in the game that is shown.
LEMMA CartReplaced ==
  ASSUME Purchases!PurchaseInv, NEW cart \in [Buyers -> Nat]
  PROVE  /\ Purchases!WithCart(cart) \in Purchases!Pages
         /\ \A f \in {"seen", "tasks", "of", "shown", "game", "open"} : Purchases!WithCart(cart)[f] = s8[f]
         /\ Purchases!WithCart(cart).carts[s8.game] = cart
<1>1. s8 \in Purchases!Pages /\ s8.game \in ShopGames /\ s8.carts \in [ShopGames -> [Buyers -> Nat]]
  BY DEF Purchases!PurchaseInv, Purchases!PurchaseTyped, Purchases!Pages
<1>2. Purchases!WithCart(cart) = [s8 EXCEPT !.carts = [s8.carts EXCEPT ![s8.game] = cart]]
  BY DEF Purchases!WithCart
<1>3. [s8.carts EXCEPT ![s8.game] = cart] \in [ShopGames -> [Buyers -> Nat]] /\ [s8.carts EXCEPT ![s8.game] = cart][s8.game] = cart
  BY <1>1
<1> QED BY <1>1, <1>2, <1>3 DEF Purchases!Pages

LEMMA PurchaseStarts == Purchases!PageInit => Purchases!PurchaseInv
<1> SUFFICES ASSUME Purchases!PageInit PROVE Purchases!PurchaseInv
  OBVIOUS
<1>1. s1 \in Purchases!Wallets
  <2>1. s1 \in [Buyers -> 0..MaxFunds]
    BY PurchaseNumbers DEF Purchases!PageInit
  <2> QED BY <2>1 DEF Purchases!Wallets
<1>2. s8 \in Purchases!Pages
  <2>1. Purchases!EmptyCarts \in [ShopGames -> [Buyers -> Nat]]
    BY DEF Purchases!EmptyCarts
  <2> QED BY <2>1, NothingShown DEF Purchases!PageInit, Purchases!Pages, Purchases!AllStages
<1>3. Purchases!PurchaseTyped
  BY <1>1, <1>2 DEF Purchases!PageInit, Purchases!PurchaseTyped, Purchases!AllStages
<1>4. DOMAIN s8.shown = {} /\ DOMAIN s8.tasks = {} /\ \A k \in {"accounts", "items", "tasks"} : s8.of[k] = None
  BY NothingShown DEF Purchases!PageInit
<1>5. Purchases!ShowsItsGame
  BY <1>4 DEF Purchases!ShowsItsGame
<1>6. Purchases!PushesTell
  <2>1. Len(s7) = 0 /\ s8.seen = s2
    BY DEF Purchases!PageInit
  <2> QED BY <2>1 DEF Purchases!PushesTell
<1> QED BY <1>3, <1>5, <1>6 DEF Purchases!PageInit, Purchases!PurchaseInv, Purchases!ReadsItsGame, Purchases!TasksExist

\* Of the page only what it shows beside the tasks changes.
LEMMA PurchasePageKeeps ==
  ASSUME Purchases!PurchaseInv, s8' \in Purchases!Pages, s8'.seen = s8.seen, s8'.tasks = s8.tasks, s8'.game = s8.game,
         \A k \in {"accounts", "items", "tasks"} : s8'.of[k] \in {None, s8.game},
         \A b \in DOMAIN s8'.shown : s8'.carts[s8.game][b] <= s8'.shown[b],
         s4' \in [PageFields -> {None, s8.game}], s1' \in Purchases!Wallets, s6' \in {s6, Purchases!NoOrder},
         UNCHANGED <<s2, s3, s5, s7>>
  PROVE  Purchases!PurchaseInv'
<1>1. s8.game \in ShopGames
  BY DEF Purchases!PurchaseInv, Purchases!PurchaseTyped, Purchases!Pages
<1>2. Purchases!PurchaseTyped'
  BY <1>1 DEF Purchases!PurchaseInv, Purchases!PurchaseTyped, PageFields
<1>3. Purchases!ReadsItsGame'
  BY DEF Purchases!ReadsItsGame, PageFields
<1>4. Purchases!TasksExist' /\ Purchases!PushesTell'
  BY DEF Purchases!PurchaseInv, Purchases!TasksExist, Purchases!PushesTell
<1>5. Purchases!ShowsItsGame'
  BY DEF Purchases!PurchaseInv, Purchases!ShowsItsGame
<1> QED BY <1>2, <1>3, <1>4, <1>5 DEF Purchases!PurchaseInv

LEMMA ReadsTyped == Purchases!PurchaseInv => s4 \in [PageFields -> {None, s8.game}]
  BY DEF Purchases!PurchaseInv, Purchases!PurchaseTyped, Purchases!ReadsItsGame, PageFields

LEMMA CartsKeep ==
  ASSUME Purchases!PurchaseInv, NEW cart, Purchases!ChangeCarts(cart), cart \in [Buyers -> Nat], \A b \in DOMAIN s8.shown : cart[b] <= s8.shown[b]
  PROVE  Purchases!PurchaseInv'
<1>1. s8' = Purchases!WithCart(cart) /\ UNCHANGED <<Purchases!serverVars, s4, s5, s6, s7>>
  BY DEF Purchases!ChangeCarts
<1>2. /\ s8' \in Purchases!Pages /\ s8'.seen = s8.seen /\ s8'.tasks = s8.tasks /\ s8'.game = s8.game
      /\ s8'.of = s8.of /\ s8'.shown = s8.shown /\ s8'.carts[s8.game] = cart
  BY <1>1, CartReplaced
<1>3. \A k \in {"accounts", "items", "tasks"} : s8.of[k] \in {None, s8.game}
  BY DEF Purchases!PurchaseInv, Purchases!ShowsItsGame
<1>4. s1' \in Purchases!Wallets
  BY <1>1 DEF Purchases!serverVars, Purchases!PurchaseInv, Purchases!PurchaseTyped
<1> QED BY <1>1, <1>2, <1>3, <1>4, ReadsTyped, PurchasePageKeeps DEF Purchases!serverVars

\* What the user may make of a cart.
LEMMA CartActionsKeep ==
  ASSUME Purchases!PurchaseInv,
         \/ \E bs \in SUBSET DOMAIN s8.shown : Purchases!AddToCart(bs) \/ Purchases!MaxOutCart(bs) \/ Purchases!ClearCart(bs)
         \/ \E b \in DOMAIN s8.shown, n \in 0..MaxFunds : Purchases!SetQuantity(b, n)
  PROVE  Purchases!PurchaseInv'
<1> DEFINE old == s8.carts[s8.game]
<1>1. old \in [Buyers -> Nat] /\ s8.shown \in Purchases!Wallets
  BY DEF Purchases!PurchaseInv, Purchases!PurchaseTyped, Purchases!Pages
<1>2. DOMAIN s8.shown \subseteq Buyers /\ \A b \in DOMAIN s8.shown : s8.shown[b] \in Nat /\ old[b] <= s8.shown[b]
  BY <1>1, OfWallets DEF Purchases!PurchaseInv, Purchases!ShowsItsGame
<1>3. ASSUME NEW b \in DOMAIN s8.shown, NEW n \in Nat PROVE Purchases!Covered(b, n) \in Nat /\ Purchases!Covered(b, n) <= s8.shown[b]
  BY <1>2 DEF Purchases!Covered
<1>4. ASSUME NEW bs \in SUBSET DOMAIN s8.shown, Purchases!AddToCart(bs) PROVE Purchases!PurchaseInv'
  <2> DEFINE cart == [b \in Buyers |-> IF b \in bs THEN Purchases!Covered(b, old[b] + 1) ELSE old[b]]
  <2>1. \A b \in Buyers : old[b] + 1 \in Nat
    BY <1>1
  <2>2. cart \in [Buyers -> Nat] /\ \A b \in DOMAIN s8.shown : cart[b] <= s8.shown[b]
    BY <1>1, <1>2, <1>3, <2>1
  <2>3. Purchases!ChangeCarts(cart)
    BY <1>4 DEF Purchases!AddToCart
  <2> HIDE DEF cart
  <2> QED BY <2>2, <2>3, CartsKeep
<1>5. ASSUME NEW bs \in SUBSET DOMAIN s8.shown, Purchases!MaxOutCart(bs) PROVE Purchases!PurchaseInv'
  <2> DEFINE cart == [b \in Buyers |-> IF b \in bs /\ old[b] > 0 THEN s8.shown[b] ELSE old[b]]
  <2>2. cart \in [Buyers -> Nat] /\ \A b \in DOMAIN s8.shown : cart[b] <= s8.shown[b]
    BY <1>1, <1>2
  <2>3. Purchases!ChangeCarts(cart)
    BY <1>5 DEF Purchases!MaxOutCart
  <2> HIDE DEF cart
  <2> QED BY <2>2, <2>3, CartsKeep
<1>6. ASSUME NEW bs \in SUBSET DOMAIN s8.shown, Purchases!ClearCart(bs) PROVE Purchases!PurchaseInv'
  <2> DEFINE cart == [b \in Buyers |-> IF b \in bs \/ bs = {} THEN 0 ELSE old[b]]
  <2>2. cart \in [Buyers -> Nat] /\ \A b \in DOMAIN s8.shown : cart[b] <= s8.shown[b]
    BY <1>1, <1>2
  <2>3. Purchases!ChangeCarts(cart)
    BY <1>6 DEF Purchases!ClearCart
  <2> HIDE DEF cart
  <2> QED BY <2>2, <2>3, CartsKeep
<1>7. ASSUME NEW b \in DOMAIN s8.shown, NEW n \in 0..MaxFunds, Purchases!SetQuantity(b, n) PROVE Purchases!PurchaseInv'
  <2> DEFINE cart == [old EXCEPT ![b] = Purchases!Covered(b, n)]
  <2>1. n \in Nat /\ b \in Buyers
    BY <1>2, PurchaseNumbers
  <2>2. cart \in [Buyers -> Nat] /\ \A c \in DOMAIN s8.shown : cart[c] <= s8.shown[c]
    BY <1>1, <1>2, <1>3, <2>1
  <2>3. Purchases!ChangeCarts(cart)
    BY <1>7 DEF Purchases!SetQuantity
  <2> HIDE DEF cart
  <2> QED BY <2>2, <2>3, CartsKeep
<1> QED BY <1>4, <1>5, <1>6, <1>7

\* What is loading, what is due and whether the page is open is a matter of its own.
LEMMA LoadingKeeps ==
  ASSUME Purchases!PurchaseInv, s8' \in Purchases!Pages, s8'.seen = s8.seen, s8'.tasks = s8.tasks, s8'.game = s8.game,
         s8'.of = s8.of, s8'.shown = s8.shown, s8'.carts = s8.carts,
         s4' \in [PageFields -> {None, s8.game}], s1' \in Purchases!Wallets, s6' = s6,
         UNCHANGED <<s2, s3, s5, s7>>
  PROVE  Purchases!PurchaseInv'
<1>1. /\ \A k \in {"accounts", "items", "tasks"} : s8.of[k] \in {None, s8.game}
      /\ \A b \in DOMAIN s8.shown : s8.carts[s8.game][b] <= s8.shown[b]
  BY DEF Purchases!PurchaseInv, Purchases!ShowsItsGame
<1> QED BY <1>1, PurchasePageKeeps

LEMMA RereadKeeps == ASSUME Purchases!PurchaseInv, NEW kind \in {"accounts", "items"}, Purchases!Reread(kind) PROVE Purchases!PurchaseInv'
<1>1. s8' = [s8 EXCEPT !.loading[kind] = TRUE] /\ s8 \in Purchases!Pages /\ UNCHANGED <<Purchases!serverVars, s5, s6, s7>>
  BY DEF Purchases!Reread, Purchases!PurchaseInv, Purchases!PurchaseTyped
<1>2. /\ s8' \in Purchases!Pages /\ s8'.seen = s8.seen /\ s8'.tasks = s8.tasks /\ s8'.game = s8.game
      /\ s8'.of = s8.of /\ s8'.shown = s8.shown /\ s8'.carts = s8.carts
  BY <1>1 DEF Purchases!Pages
<1>3. s4' \in [PageFields -> {None, s8.game}]
  <2>1. s4' = [k \in {"accounts", "items"} |-> IF k \in {kind} THEN s8'.game ELSE s4[k]]
    BY DEF Purchases!Reread, Purchases!ReadsNow
  <2> QED BY <1>2, <2>1, ReadsTyped DEF PageFields
<1>4. s1' \in Purchases!Wallets
  BY <1>1 DEF Purchases!serverVars, Purchases!PurchaseInv, Purchases!PurchaseTyped
<1> QED BY <1>1, <1>2, <1>3, <1>4, LoadingKeeps DEF Purchases!serverVars

LEMMA RepliesKeep == ASSUME Purchases!PurchaseInv, Purchases!AccountsReply \/ Purchases!ItemsReply PROVE Purchases!PurchaseInv'
<1>1. /\ s8 \in Purchases!Pages /\ s8.game \in ShopGames /\ s8.carts \in [ShopGames -> [Buyers -> Nat]] /\ s8.shown \in Purchases!Wallets
      /\ s1 \in Purchases!Wallets /\ s8.of \in [{"accounts", "items", "tasks"} -> ShopGames \cup {None}]
  BY DEF Purchases!PurchaseInv, Purchases!PurchaseTyped, Purchases!Pages
<1>2. /\ \A k \in {"accounts", "items", "tasks"} : s8.of[k] \in {None, s8.game}
      /\ \A b \in DOMAIN s8.shown : s8.carts[s8.game][b] <= s8.shown[b]
  BY DEF Purchases!PurchaseInv, Purchases!ShowsItsGame
<1>3. UNCHANGED <<s1, s2, s3, s5, s6, s7>> /\ s4' \in [PageFields -> {None, s8.game}]
  BY ReadsTyped DEF Purchases!AccountsReply, Purchases!ItemsReply, Purchases!serverVars, PageFields
<1>4. ASSUME NEW kind \in {"accounts", "items"}, s8' = [s8 EXCEPT !.loading[kind] = FALSE] PROVE Purchases!PurchaseInv'
  <2>1. /\ s8' \in Purchases!Pages /\ s8'.seen = s8.seen /\ s8'.tasks = s8.tasks /\ s8'.game = s8.game
        /\ s8'.of = s8.of /\ s8'.shown = s8.shown /\ s8'.carts = s8.carts
    BY <1>1, <1>4 DEF Purchases!Pages
  <2> QED BY <1>1, <1>3, <2>1, LoadingKeeps
<1>5. ASSUME NEW kind \in {"accounts", "items"}, NEW w \in Purchases!Wallets, s4[kind] # None,
             s8' \in Purchases!Pages, s8'.seen = s8.seen, s8'.tasks = s8.tasks, s8'.game = s8.game,
             s8'.of = [s8.of EXCEPT ![kind] = s4[kind]], s8'.shown = w,
             s8'.carts = [s8.carts EXCEPT ![s8.game] = Purchases!Normalized(s8.carts[s8.game], w)]
      PROVE  Purchases!PurchaseInv'
  <2>1. \A b \in DOMAIN w : s8'.carts[s8.game][b] <= w[b]
    BY <1>1, <1>5, NormalCarts
  <2>2. s4[kind] = s8.game
    BY <1>5, ReadsTyped DEF PageFields
  <2>3. \A k \in {"accounts", "items", "tasks"} : s8'.of[k] \in {None, s8.game}
    BY <1>1, <1>2, <1>5, <2>2
  <2> QED BY <1>1, <1>3, <1>5, <2>1, <2>3, PurchasePageKeeps
<1>6. \A w \in Purchases!Wallets : [s8.carts EXCEPT ![s8.game] = Purchases!Normalized(s8.carts[s8.game], w)] \in [ShopGames -> [Buyers -> Nat]]
  BY <1>1, NormalCarts
<1>7. \A k \in PageFields : s4[k] \in ShopGames \cup {None}
  BY <1>1, ReadsTyped
<1>8. ASSUME s8' = [s8 EXCEPT !.loading["accounts"] = FALSE, !.shown = s1, !.of["accounts"] = s4["accounts"],
                                  !.carts[s8.game] = Purchases!Normalized(@, s1)],
             s4["accounts"] # None
      PROVE  Purchases!PurchaseInv'
  <2> DEFINE carts == [s8.carts EXCEPT ![s8.game] = Purchases!Normalized(s8.carts[s8.game], s1)]
             of == [s8.of EXCEPT !["accounts"] = s4["accounts"]]
  <2>1. carts \in [ShopGames -> [Buyers -> Nat]] /\ of \in [{"accounts", "items", "tasks"} -> ShopGames \cup {None}]
    BY <1>1, <1>6, <1>7 DEF PageFields
  <2>2. s8' = [s8 EXCEPT !.loading["accounts"] = FALSE, !.shown = s1, !.of = of, !.carts = carts]
    BY <1>1, <1>8 DEF Purchases!Pages
  <2>4. /\ s8' \in Purchases!Pages /\ s8'.seen = s8.seen /\ s8'.tasks = s8.tasks /\ s8'.game = s8.game
        /\ s8'.of = of /\ s8'.shown = s1 /\ s8'.carts = carts
    <3> HIDE DEF of, carts
    <3> QED BY <1>1, <2>1, <2>2 DEF Purchases!Pages
  <2> QED BY <1>1, <1>5, <1>8, <2>4
<1>9. ASSUME s8' = [s8 EXCEPT !.loading["items"] = FALSE, !.of["items"] = s4["items"],
                                  !.carts[s8.game] = Purchases!Normalized(@, s8.shown)],
             s4["items"] # None
      PROVE  Purchases!PurchaseInv'
  <2> DEFINE carts == [s8.carts EXCEPT ![s8.game] = Purchases!Normalized(s8.carts[s8.game], s8.shown)]
             of == [s8.of EXCEPT !["items"] = s4["items"]]
  <2>1. carts \in [ShopGames -> [Buyers -> Nat]] /\ of \in [{"accounts", "items", "tasks"} -> ShopGames \cup {None}]
    BY <1>1, <1>6, <1>7 DEF PageFields
  <2>2. s8' = [s8 EXCEPT !.loading["items"] = FALSE, !.of = of, !.carts = carts]
    BY <1>1, <1>9 DEF Purchases!Pages
  <2>4. /\ s8' \in Purchases!Pages /\ s8'.seen = s8.seen /\ s8'.tasks = s8.tasks /\ s8'.game = s8.game
        /\ s8'.of = of /\ s8'.shown = s8.shown /\ s8'.carts = carts
    <3> HIDE DEF of, carts
    <3> QED BY <1>1, <2>1, <2>2 DEF Purchases!Pages
  <2> QED BY <1>1, <1>5, <1>9, <2>4
<1>10. CASE Purchases!AccountsReply
  BY <1>4, <1>8, <1>10 DEF Purchases!AccountsReply
<1>11. CASE Purchases!ItemsReply
  BY <1>4, <1>9, <1>11 DEF Purchases!ItemsReply
<1> QED BY <1>10, <1>11

LEMMA RefreshKeeps == ASSUME Purchases!PurchaseInv, Purchases!RefreshTimer \/ Purchases!LeavePurchase \/ Purchases!SubmitFails \/ (\E new \in Purchases!Wallets : Purchases!AccountsChange(new)) PROVE Purchases!PurchaseInv'
<1>1. s8 \in Purchases!Pages /\ s1 \in Purchases!Wallets /\ \A g \in {None, s8.game} : g \in ShopGames \cup {None}
  BY DEF Purchases!PurchaseInv, Purchases!PurchaseTyped, Purchases!Pages
<1>2. CASE Purchases!RefreshTimer
  <2> DEFINE again == s8.open /\ ~s8.loading["accounts"]
  <2>1. s8' = [s8 EXCEPT !.due = FALSE, !.loading["accounts"] = @ \/ again]
        /\ UNCHANGED <<s1, s2, s3, s5, s6, s7>>
    BY <1>2 DEF Purchases!RefreshTimer, Purchases!serverVars
  <2>2. again \in BOOLEAN
    BY <1>1 DEF Purchases!Pages
  <2>3. s4' \in [PageFields -> {None, s8.game}]
    BY <1>2, ReadsTyped DEF Purchases!RefreshTimer, PageFields
  <2> HIDE DEF again
  <2>4. /\ s8' \in Purchases!Pages /\ s8'.seen = s8.seen /\ s8'.tasks = s8.tasks /\ s8'.game = s8.game
        /\ s8'.of = s8.of /\ s8'.shown = s8.shown /\ s8'.carts = s8.carts
    BY <1>1, <2>1, <2>2 DEF Purchases!Pages
  <2> QED BY <1>1, <2>1, <2>3, <2>4, LoadingKeeps
<1>3. CASE Purchases!LeavePurchase
  <2>1. s8' = [s8 EXCEPT !.open = FALSE] /\ UNCHANGED <<s1, s2, s3, s4, s5, s6, s7>>
    BY <1>3 DEF Purchases!LeavePurchase, Purchases!serverVars
  <2>2. /\ s8' \in Purchases!Pages /\ s8'.seen = s8.seen /\ s8'.tasks = s8.tasks /\ s8'.game = s8.game
        /\ s8'.of = s8.of /\ s8'.shown = s8.shown /\ s8'.carts = s8.carts
    BY <1>1, <2>1 DEF Purchases!Pages
  <2> QED BY <1>1, <2>1, <2>2, ReadsTyped, LoadingKeeps
<1>4. ASSUME NEW new \in Purchases!Wallets, Purchases!AccountsChange(new) PROVE Purchases!PurchaseInv'
  <2>1. s8' = [s8 EXCEPT !.due = @ \/ s8.open] /\ s1' = new /\ UNCHANGED <<s2, s3, s4, s5, s6, s7>>
    BY <1>4 DEF Purchases!AccountsChange
  <2>2. /\ s8' \in Purchases!Pages /\ s8'.seen = s8.seen /\ s8'.tasks = s8.tasks /\ s8'.game = s8.game
        /\ s8'.of = s8.of /\ s8'.shown = s8.shown /\ s8'.carts = s8.carts
    BY <1>1, <2>1 DEF Purchases!Pages
  <2> QED BY <2>1, <2>2, ReadsTyped, LoadingKeeps
<1>5. CASE Purchases!SubmitFails
  <2>1. s6' = Purchases!NoOrder /\ UNCHANGED <<s1, s2, s3, s4, s5, s8, s7>>
    BY <1>5 DEF Purchases!SubmitFails, Purchases!serverVars
  <2>2. /\ \A k \in {"accounts", "items", "tasks"} : s8.of[k] \in {None, s8.game}
        /\ \A b \in DOMAIN s8.shown : s8.carts[s8.game][b] <= s8.shown[b]
    BY DEF Purchases!PurchaseInv, Purchases!ShowsItsGame
  <2> QED BY <1>1, <2>1, <2>2, ReadsTyped, PurchasePageKeeps
<1> QED BY <1>2, <1>3, <1>4, <1>5

\* The list of tasks, as the server had it, tells of none that the page knows.
LEMMA TasksReplyKeeps == ASSUME Purchases!PurchaseInv, NEW read \in s5, Purchases!TasksReply(read) PROVE Purchases!PurchaseInv'
<1> DEFINE fresh == Purchases!Restrict(read.list, {t \in DOMAIN read.list : s3[t] = s8.game})
           seen  == [t \in ShopOrders |-> IF s8.seen[t] = "none" /\ t \in DOMAIN read.list THEN read.list[t] ELSE s8.seen[t]]
<1>1. /\ s8 \in Purchases!Pages /\ s8.game \in ShopGames /\ s8.seen \in [ShopOrders -> Purchases!AllStages] /\ read.list \in Purchases!Lists
      /\ s8.of \in [{"accounts", "items", "tasks"} -> ShopGames \cup {None}] /\ s5' = s5 \ {read}
      /\ UNCHANGED <<s1, s2, s3, s4, s6, s7>>
  BY DEF Purchases!PurchaseInv, Purchases!PurchaseTyped, Purchases!Pages, Purchases!TasksReply, Purchases!serverVars
<1>2. s8' = IF read.game = s8.game THEN [s8 EXCEPT !.seen = seen, !.tasks = fresh, !.of["tasks"] = s8.game]
              ELSE [s8 EXCEPT !.seen = seen]
  BY DEF Purchases!TasksReply
<1>3. DOMAIN read.list \subseteq ShopOrders /\ \A t \in DOMAIN read.list : read.list[t] \in Purchases!AllStages
  BY <1>1, OfLists
<1>4. seen \in [ShopOrders -> Purchases!AllStages]
  BY <1>1, <1>3
<1>5. fresh \in Purchases!Lists /\ DOMAIN fresh = {t \in DOMAIN read.list : s3[t] = s8.game}
  <2> DEFINE ts == {t \in DOMAIN read.list : s3[t] = s8.game}
  <2>1. fresh = [t \in ts |-> read.list[t]]
    BY DEF Purchases!Restrict
  <2> HIDE DEF fresh
  <2>2. DOMAIN fresh = ts /\ fresh \in [ts -> Purchases!AllStages] /\ ts \in SUBSET ShopOrders
    BY <1>3, <2>1
  <2> QED BY <2>2 DEF Purchases!Lists
<1>6. ASSUME NEW t \in ShopOrders, \A i \in 1..Len(s7) : s7[i][1] # t PROVE seen[t] = s2[t]
  <2>1. s8.seen[t] = s2[t]
    BY <1>6 DEF Purchases!PurchaseInv, Purchases!PushesTell
  <2>2. t \in DOMAIN read.list => s2[t] # "none"
    BY DEF Purchases!PurchaseInv, Purchases!TasksExist
  <2> QED BY <2>1, <2>2
<1> DEFINE of == [s8.of EXCEPT !["tasks"] = s8.game]
<1>7. of \in [{"accounts", "items", "tasks"} -> ShopGames \cup {None}]
  BY <1>1
<1> HIDE DEF seen, fresh
<1>8. /\ s8' \in Purchases!Pages /\ s8'.seen = seen /\ s8'.game = s8.game /\ s8'.shown = s8.shown
      /\ s8'.carts = s8.carts /\ s8'.of \in {s8.of, of} /\ s8'.tasks \in {s8.tasks, fresh}
  <2>1. CASE read.game = s8.game
    <3>1. s8' = [s8 EXCEPT !.seen = seen, !.tasks = fresh, !.of = of]
      BY <1>1, <1>2, <2>1 DEF Purchases!Pages
    <3> HIDE DEF of
    <3> QED BY <1>1, <1>4, <1>5, <1>7, <3>1 DEF Purchases!Pages
  <2>2. CASE read.game # s8.game
    BY <1>1, <1>2, <1>4, <2>2 DEF Purchases!Pages
  <2> QED BY <2>1, <2>2
<1>9. Purchases!PurchaseTyped'
  BY <1>1, <1>8 DEF Purchases!PurchaseInv, Purchases!PurchaseTyped
<1>10. Purchases!TasksExist' /\ Purchases!ReadsItsGame'
  BY <1>1, <1>8 DEF Purchases!PurchaseInv, Purchases!TasksExist, Purchases!ReadsItsGame
<1>11. Purchases!PushesTell'
  BY <1>1, <1>6, <1>8 DEF Purchases!PurchaseInv, Purchases!PushesTell
<1>12. Purchases!ShowsItsGame'
  <2>1. \A k \in {"accounts", "items", "tasks"} : s8'.of[k] \in {None, s8.game}
    BY <1>1, <1>8 DEF Purchases!PurchaseInv, Purchases!ShowsItsGame
  <2>2. \A t \in DOMAIN s8'.tasks : s3[t] = s8.game
    BY <1>5, <1>8 DEF Purchases!PurchaseInv, Purchases!ShowsItsGame
  <2> QED BY <1>1, <1>8, <2>1, <2>2 DEF Purchases!PurchaseInv, Purchases!ShowsItsGame
<1> QED BY <1>9, <1>10, <1>11, <1>12 DEF Purchases!PurchaseInv

\* What there is of tasks is read as it is, and they are none of the page's.
LEMMA TasksRead ==
  ASSUME Purchases!PurchaseInv, NEW g \in ShopGames,
         s5' \in {s5, s5 \cup {[game |-> g, list |-> Purchases!Restrict(s2, {t \in ShopOrders : s2[t] # "none"})]}},
         s2' = s2
  PROVE  /\ s5' \subseteq [game : ShopGames, list : Purchases!Lists]
         /\ \A read \in s5' : \A t \in DOMAIN read.list : s2'[t] # "none"
<1> DEFINE ts == {t \in ShopOrders : s2[t] # "none"}
           list == Purchases!Restrict(s2, ts)
           read == [game |-> g, list |-> list]
<1>1. list = [t \in ts |-> s2[t]]
  BY DEF Purchases!Restrict
<1>2. \A t \in ts : s2[t] \in Purchases!AllStages
  BY DEF Purchases!PurchaseInv, Purchases!PurchaseTyped
<1>3. list \in Purchases!Lists /\ DOMAIN list = ts
  <2> HIDE DEF list
  <2>1. list \in [ts -> Purchases!AllStages] /\ ts \in SUBSET ShopOrders
    BY <1>1, <1>2
  <2> QED BY <2>1 DEF Purchases!Lists
<1> HIDE DEF list
<1>4. read \in [game : ShopGames, list : Purchases!Lists] /\ read.list = list
  BY <1>3
<1>5. s5' \in {s5, s5 \cup {read}}
  BY DEF list
<1> HIDE DEF read
<1> QED BY <1>3, <1>4, <1>5 DEF Purchases!PurchaseInv, Purchases!PurchaseTyped, Purchases!TasksExist

LEMMA EnteredKeeps ==
  ASSUME Purchases!PurchaseInv, NEW p \in Purchases!Pages, NEW inFlight \in [PageFields -> {None, p.game}], Purchases!Entered(p, inFlight),
         p.seen = s8.seen, \A k \in {"accounts", "items", "tasks"} : p.of[k] \in {None, p.game},
         \A t \in DOMAIN p.tasks : s3[t] = p.game,
         \A b \in DOMAIN p.shown : p.carts[p.game][b] <= p.shown[b],
         UNCHANGED <<Purchases!serverVars, s6, s7>>
  PROVE  Purchases!PurchaseInv'
<1> DEFINE kinds == {k \in {"accounts", "items"} : ~p.loading[k] /\ (k = "items" => p.of["items"] = None)}
           loading == [k \in DOMAIN p.loading |-> p.loading[k] \/ k \in kinds]
<1>1. p.game \in ShopGames /\ p.loading \in [{"accounts", "items"} -> BOOLEAN] /\ UNCHANGED <<s1, s2, s3>>
  BY DEF Purchases!Pages, Purchases!serverVars
<1>2. loading \in [{"accounts", "items"} -> BOOLEAN]
  BY <1>1
<1>3. s8' = [p EXCEPT !.open = TRUE, !.loading = loading]
  BY DEF Purchases!Entered
<1>4. s4' = [k \in DOMAIN inFlight |-> IF k \in kinds THEN p.game ELSE inFlight[k]]
  BY DEF Purchases!Entered
<1>5. s5' \in {s5, s5 \cup {[game |-> p.game, list |-> Purchases!Restrict(s2, {t \in ShopOrders : s2[t] # "none"})]}}
  BY DEF Purchases!Entered
<1>6. s4' \in [PageFields -> {None, p.game}]
  <2> HIDE DEF kinds
  <2> QED BY <1>4
<1> HIDE DEF loading
<1>7. /\ s8' \in Purchases!Pages /\ s8'.seen = p.seen /\ s8'.tasks = p.tasks /\ s8'.game = p.game
      /\ s8'.of = p.of /\ s8'.shown = p.shown /\ s8'.carts = p.carts
  BY <1>2, <1>3 DEF Purchases!Pages
<1>8. /\ s5' \subseteq [game : ShopGames, list : Purchases!Lists]
      /\ \A read \in s5' : \A t \in DOMAIN read.list : s2'[t] # "none"
  BY <1>1, <1>5, TasksRead
<1>9. Purchases!PurchaseTyped'
  <2>1. s4' \in [{"accounts", "items"} -> ShopGames \cup {None}]
    BY <1>1, <1>6 DEF PageFields
  <2> QED BY <1>1, <1>7, <1>8, <2>1 DEF Purchases!PurchaseInv, Purchases!PurchaseTyped
<1>10. Purchases!TasksExist'
  BY <1>1, <1>8 DEF Purchases!PurchaseInv, Purchases!TasksExist
<1>11. Purchases!ReadsItsGame' /\ Purchases!PushesTell' /\ Purchases!ShowsItsGame'
  BY <1>1, <1>6, <1>7 DEF Purchases!PurchaseInv, Purchases!ReadsItsGame, Purchases!PushesTell, Purchases!ShowsItsGame, PageFields
<1> QED BY <1>9, <1>10, <1>11 DEF Purchases!PurchaseInv

LEMMA EnterKeeps == ASSUME Purchases!PurchaseInv, Purchases!EnterPurchase \/ (\E g \in ShopGames : Purchases!SwitchGame(g)) PROVE Purchases!PurchaseInv'
<1>1. s8 \in Purchases!Pages /\ s8.game \in ShopGames /\ DOMAIN s4 = PageFields
  BY DEF Purchases!PurchaseInv, Purchases!PurchaseTyped, Purchases!Pages, PageFields
<1>2. CASE Purchases!EnterPurchase
  <2>1. Purchases!Entered(s8, s4) /\ UNCHANGED <<Purchases!serverVars, s6, s7>>
    BY <1>2 DEF Purchases!EnterPurchase
  <2> QED BY <1>1, <2>1, ReadsTyped, EnteredKeeps DEF Purchases!PurchaseInv, Purchases!ShowsItsGame
<1>3. ASSUME NEW g \in ShopGames, Purchases!SwitchGame(g) PROVE Purchases!PurchaseInv'
  <2> DEFINE of == [k \in DOMAIN s8.of |-> None]
             p == [s8 EXCEPT !.game = g, !.shown = << >>, !.tasks = << >>, !.of = of]
             none == [k \in DOMAIN s4 |-> None]
  <2>1. Purchases!Entered(p, none) /\ UNCHANGED <<Purchases!serverVars, s6, s7>>
    BY <1>3 DEF Purchases!SwitchGame
  <2>2. of \in [{"accounts", "items", "tasks"} -> ShopGames \cup {None}] /\ \A k \in {"accounts", "items", "tasks"} : of[k] = None
    BY <1>1 DEF Purchases!Pages
  <2> HIDE DEF of
  <2>3. /\ p \in Purchases!Pages /\ p.seen = s8.seen /\ p.game = g /\ p.shown = << >> /\ p.tasks = << >> /\ p.of = of
    BY <1>1, <2>2, NothingShown DEF Purchases!Pages
  <2>4. none \in [PageFields -> {None, p.game}]
    BY <1>1
  <2> HIDE DEF p, none
  <2> QED BY <2>1, <2>2, <2>3, <2>4, NothingShown, EnteredKeeps
<1> QED BY <1>2, <1>3

\* A task goes on, and a push tells how far.
LEMMA StagePushed ==
  ASSUME Purchases!PurchaseInv, NEW t \in ShopOrders, NEW s \in Purchases!AllStages, s # "none",
         s2' = [s2 EXCEPT ![t] = s], s7' = Append(s7, <<t, s>>), UNCHANGED <<s5, s8>>
  PROVE  /\ s2' \in [ShopOrders -> Purchases!AllStages] /\ s7' \in Seq(ShopOrders \X Purchases!AllStages)
         /\ Purchases!PushesTell'
         /\ \A u \in ShopOrders : s2[u] # "none" => s2'[u] # "none"
         /\ \A read \in s5' : \A u \in DOMAIN read.list : s2'[u] # "none"
<1>1. /\ s2 \in [ShopOrders -> Purchases!AllStages] /\ s7 \in Seq(ShopOrders \X Purchases!AllStages)
      /\ \A read \in s5 : DOMAIN read.list \subseteq ShopOrders
  <2>1. \A read \in s5 : read.list \in Purchases!Lists
    BY DEF Purchases!PurchaseInv, Purchases!PurchaseTyped
  <2> QED BY <2>1, OfLists DEF Purchases!PurchaseInv, Purchases!PurchaseTyped
<1>2. s2' \in [ShopOrders -> Purchases!AllStages] /\ s2'[t] = s /\ \A u \in ShopOrders : u # t => s2'[u] = s2[u]
  BY <1>1
<1> DEFINE n == Len(s7)
           last == <<t, s>>
<1>3. last \in ShopOrders \X Purchases!AllStages /\ last[1] = t /\ last[2] = s
  OBVIOUS
<1> HIDE DEF last
<1>4. s7' = Append(s7, last)
  BY DEF last
<1>5. /\ s7' \in Seq(ShopOrders \X Purchases!AllStages) /\ n \in Nat /\ Len(s7') = n + 1 /\ s7'[n + 1] = last
      /\ \A i \in 1..n : s7'[i] = s7[i] /\ s7[i] \in ShopOrders \X Purchases!AllStages
  BY <1>1, <1>3, <1>4, AppendProperties, ElementOfSeq
<1>6. \A u \in ShopOrders : s2[u] # "none" => s2'[u] # "none"
  BY <1>2
<1>7. \A read \in s5' : \A u \in DOMAIN read.list : s2'[u] # "none"
  BY <1>1, <1>6 DEF Purchases!PurchaseInv, Purchases!TasksExist
<1> HIDE DEF n
<1>8. ASSUME NEW i \in 1..n + 1, \A j \in i + 1..n + 1 : s7'[j][1] # s7'[i][1] PROVE s2'[s7'[i][1]] = s7'[i][2]
  <2>1. CASE i = n + 1
    BY <1>2, <1>3, <1>5, <2>1
  <2>2. CASE i # n + 1
    <3>1. i \in 1..n /\ s7'[i] = s7[i] /\ s7[i][1] \in ShopOrders /\ n + 1 \in i + 1..n + 1 /\ i + 1 \in Nat
      BY <1>5, <2>2
    <3>2. s7[i][1] # t
      BY <1>3, <1>5, <1>8, <3>1
    <3>3. \A j \in i + 1..n : j \in i + 1..n + 1 /\ s7'[j] = s7[j]
      BY <1>5, <3>1
    <3>4. \A j \in i + 1..n : s7[j][1] # s7[i][1]
      BY <1>8, <3>1, <3>3
    <3>5. s2[s7[i][1]] = s7[i][2]
      BY <3>1, <3>4 DEF Purchases!PurchaseInv, Purchases!PushesTell, n
    <3> QED BY <1>2, <3>1, <3>2, <3>5
  <2> QED BY <2>1, <2>2
<1>9. ASSUME NEW u \in ShopOrders, \A i \in 1..n + 1 : s7'[i][1] # u PROVE s8'.seen[u] = s2'[u]
  <2>1. u # t /\ \A i \in 1..n : i \in 1..n + 1 /\ s7[i][1] # u
    BY <1>3, <1>5, <1>9
  <2>2. s8.seen[u] = s2[u]
    BY <2>1 DEF Purchases!PurchaseInv, Purchases!PushesTell, n
  <2> QED BY <1>2, <2>1, <2>2
<1>10. Purchases!PushesTell'
  <2>1. \A i \in 1..Len(s7') : (\A j \in i + 1..Len(s7') : s7'[j][1] # s7'[i][1]) => s2'[s7'[i][1]] = s7'[i][2]
    BY <1>5, <1>8
  <2>2. \A u \in ShopOrders : (\A i \in 1..Len(s7') : s7'[i][1] # u) => s8'.seen[u] = s2'[u]
    BY <1>5, <1>9
  <2> QED BY <2>1, <2>2 DEF Purchases!PushesTell
<1> QED BY <1>2, <1>5, <1>6, <1>7, <1>10

LEMMA SubmitKeeps == ASSUME Purchases!PurchaseInv, NEW t \in ShopOrders, NEW bs \in SUBSET Buyers, Purchases!Submit(t, bs) PROVE Purchases!PurchaseInv'
<1>1. /\ s2[t] = "none" /\ s6' = [game |-> s8.game, of |-> bs, task |-> t] /\ s2' = [s2 EXCEPT ![t] = "queued"]
      /\ s3' = [s3 EXCEPT ![t] = s8.game] /\ s7' = Append(s7, <<t, "queued">>)
      /\ UNCHANGED <<s1, s4, s5, s8>>
  BY DEF Purchases!Submit
<1>2. s8.game \in ShopGames /\ "queued" \in Purchases!AllStages /\ s2 \in [ShopOrders -> Purchases!AllStages] /\ s3 \in [ShopOrders -> ShopGames \cup {None}]
  BY DEF Purchases!PurchaseInv, Purchases!PurchaseTyped, Purchases!Pages, Purchases!AllStages
<1>3. /\ s2' \in [ShopOrders -> Purchases!AllStages] /\ s7' \in Seq(ShopOrders \X Purchases!AllStages) /\ Purchases!PushesTell'
      /\ \A read \in s5' : \A u \in DOMAIN read.list : s2'[u] # "none"
  BY <1>1, <1>2, StagePushed
<1>4. s6' \in Purchases!Posts /\ s6'.task = t
  BY <1>1, <1>2 DEF Purchases!Posts
<1>5. s3' \in [ShopOrders -> ShopGames \cup {None}] /\ s3'[t] = s8.game /\ \A u \in ShopOrders : u # t => s3'[u] = s3[u]
  BY <1>1, <1>2
<1>6. Purchases!PurchaseTyped'
  BY <1>1, <1>3, <1>4, <1>5 DEF Purchases!PurchaseInv, Purchases!PurchaseTyped
<1>7. Purchases!TasksExist'
  BY <1>1, <1>2, <1>3, <1>4 DEF Purchases!TasksExist
<1>8. Purchases!ShowsItsGame'
  <2>1. \A u \in DOMAIN s8.tasks : u \in ShopOrders
    BY OfLists DEF Purchases!PurchaseInv, Purchases!PurchaseTyped, Purchases!Pages
  <2> QED BY <1>1, <1>5, <2>1 DEF Purchases!PurchaseInv, Purchases!ShowsItsGame
<1> QED BY <1>1, <1>3, <1>6, <1>7, <1>8 DEF Purchases!PurchaseInv, Purchases!ReadsItsGame

\* How far a task gets: to the next stage, which there is.
LEMMA NextStage ==
  ASSUME NEW s \in {"queued", "running"}
  PROVE  Purchases!Stages[Purchases!Rank(s) + 1] \in {"running", "completed"}
<1>1. Purchases!Stages[1] = "queued" /\ Purchases!Stages[2] = "running" /\ Purchases!Stages[3] = "completed"
  BY DEF Purchases!Stages
<1>2. \E i \in 1..3 : Purchases!Stages[i] = s
  BY <1>1
<1>3. Purchases!Rank(s) \in 1..3 /\ Purchases!Stages[Purchases!Rank(s)] = s
  BY <1>2 DEF Purchases!Rank
<1>4. Purchases!Rank(s) \in {1, 2}
  BY <1>1, <1>3
<1> QED BY <1>1, <1>4

LEMMA TaskProceedsKeeps == ASSUME Purchases!PurchaseInv, NEW t \in ShopOrders, Purchases!TaskProceeds(t) PROVE Purchases!PurchaseInv'
<1> DEFINE s == Purchases!Stages[Purchases!Rank(s2[t]) + 1]
<1>1. s \in {"running", "completed"}
  BY NextStage DEF Purchases!TaskProceeds
<1>2. s2' = [s2 EXCEPT ![t] = s] /\ s7' = Append(s7, <<t, s>>) /\ UNCHANGED <<s1, s3, s4, s5, s6, s8>>
  BY DEF Purchases!TaskProceeds
<1> HIDE DEF s
<1>3. s \in Purchases!AllStages /\ s # "none"
  BY <1>1 DEF Purchases!AllStages
<1>4. /\ s2' \in [ShopOrders -> Purchases!AllStages] /\ s7' \in Seq(ShopOrders \X Purchases!AllStages) /\ Purchases!PushesTell'
      /\ \A u \in ShopOrders : s2[u] # "none" => s2'[u] # "none"
      /\ \A read \in s5' : \A u \in DOMAIN read.list : s2'[u] # "none"
  BY <1>2, <1>3, StagePushed
<1>5. Purchases!PurchaseTyped'
  BY <1>2, <1>4 DEF Purchases!PurchaseInv, Purchases!PurchaseTyped
<1>6. s6' # Purchases!NoOrder => s2'[s6'.task] # "none"
  <2>1. s6 # Purchases!NoOrder => s6.task \in ShopOrders
    BY DEF Purchases!PurchaseInv, Purchases!PurchaseTyped, Purchases!Posts
  <2> QED BY <1>2, <1>4, <2>1 DEF Purchases!PurchaseInv, Purchases!TasksExist
<1> QED BY <1>2, <1>4, <1>5, <1>6 DEF Purchases!PurchaseInv, Purchases!ReadsItsGame, Purchases!ShowsItsGame, Purchases!TasksExist

LEMMA TaskMerged ==
  ASSUME Purchases!PurchaseInv, NEW p \in Purchases!Pages, NEW t \in ShopOrders, NEW s \in Purchases!AllStages
  PROVE  LET q == Purchases!Merged(p, t, s)
         IN  /\ q \in Purchases!Pages /\ q.seen = [p.seen EXCEPT ![t] = s]
             /\ q.game = p.game /\ q.shown = p.shown /\ q.of = p.of /\ q.carts = p.carts
             /\ \A u \in DOMAIN q.tasks : u \in DOMAIN p.tasks \/ s3[u] = p.game
<1> DEFINE old == p.tasks
           told == [u \in DOMAIN old \cup {t} |-> IF u = t THEN s ELSE old[u]]
           tasks == IF s3[t] # p.game THEN old ELSE told
           seen == [p.seen EXCEPT ![t] = s]
<1>1. old \in Purchases!Lists /\ seen \in [ShopOrders -> Purchases!AllStages]
  BY DEF Purchases!Pages
<1>2. DOMAIN old \subseteq ShopOrders /\ \A u \in DOMAIN old : old[u] \in Purchases!AllStages
  BY <1>1, OfLists
<1>3. told \in Purchases!Lists
  <2> DEFINE ts == DOMAIN old \cup {t}
  <2>1. told \in [ts -> Purchases!AllStages] /\ ts \in SUBSET ShopOrders
    BY <1>2
  <2> HIDE DEF told, ts
  <2> QED BY <2>1 DEF Purchases!Lists
<1>4. tasks \in Purchases!Lists /\ \A u \in DOMAIN tasks : u \in DOMAIN old \/ s3[u] = p.game
  BY <1>1, <1>3
<1>5. Purchases!Merged(p, t, s) = [p EXCEPT !.seen = seen, !.tasks = tasks]
  BY DEF Purchases!Merged, Purchases!Pages
<1> HIDE DEF seen, tasks
<1>6. LET q == Purchases!Merged(p, t, s)
      IN  q \in Purchases!Pages /\ q.seen = seen /\ q.tasks = tasks /\ q.game = p.game /\ q.shown = p.shown /\ q.of = p.of /\ q.carts = p.carts
  BY <1>1, <1>4, <1>5 DEF Purchases!Pages
<1> QED BY <1>4, <1>6 DEF seen

LEMMA PushedKeeps == ASSUME Purchases!PurchaseInv, Purchases!Pushed PROVE Purchases!PurchaseInv'
<1> DEFINE t == Head(s7)[1]
           s == Head(s7)[2]
           n == Len(s7)
<1>1. s7 # << >> /\ s8' = Purchases!Merged(s8, t, s) /\ s7' = Tail(s7) /\ UNCHANGED <<s1, s2, s3, s4, s5, s6>>
  BY DEF Purchases!Pushed, Purchases!serverVars
<1>2. /\ s8 \in Purchases!Pages /\ s8.seen \in [ShopOrders -> Purchases!AllStages] /\ n \in Nat \ {0}
      /\ s7 \in Seq(ShopOrders \X Purchases!AllStages) /\ s7[1] = Head(s7) /\ Head(s7) \in ShopOrders \X Purchases!AllStages
      /\ s7' \in Seq(ShopOrders \X Purchases!AllStages) /\ Len(s7') = n - 1 /\ \A i \in 1..n - 1 : s7'[i] = s7[i + 1]
  BY <1>1, HeadTailProperties DEF Purchases!PurchaseInv, Purchases!PurchaseTyped, Purchases!Pages
<1>3. t \in ShopOrders /\ s \in Purchases!AllStages /\ s7[1][1] = t /\ s7[1][2] = s
  BY <1>2
<1> HIDE DEF t, s, n
<1>4. /\ s8' \in Purchases!Pages /\ s8'.seen = [s8.seen EXCEPT ![t] = s]
      /\ s8'.game = s8.game /\ s8'.shown = s8.shown /\ s8'.of = s8.of /\ s8'.carts = s8.carts
      /\ \A u \in DOMAIN s8'.tasks : u \in DOMAIN s8.tasks \/ s3[u] = s8.game
  BY <1>1, <1>2, <1>3, TaskMerged
<1>5. ASSUME NEW i \in 1..n - 1, \A j \in i + 1..n - 1 : s7'[j][1] # s7'[i][1] PROVE s2[s7'[i][1]] = s7'[i][2]
  <2>1. s7'[i] = s7[i + 1] /\ i + 1 \in 1..n
    BY <1>2
  <2>2. ASSUME NEW j \in i + 1 + 1..n PROVE s7[j][1] # s7[i + 1][1]
    <3>1. j - 1 \in i + 1..n - 1 /\ j - 1 \in 1..n - 1 /\ (j - 1) + 1 = j
      BY <1>2
    <3>2. s7'[j - 1] = s7[(j - 1) + 1]
      BY <1>2, <3>1
    <3> QED BY <1>5, <2>1, <3>1, <3>2
  <2> QED BY <2>1, <2>2 DEF Purchases!PurchaseInv, Purchases!PushesTell, n
<1>6. ASSUME NEW u \in ShopOrders, \A i \in 1..n - 1 : s7'[i][1] # u PROVE s8'.seen[u] = s2[u]
  <2>1. ASSUME NEW j \in 2..n PROVE s7[j][1] # u
    <3>1. j - 1 \in 1..n - 1 /\ (j - 1) + 1 = j
      BY <1>2
    <3>2. s7'[j - 1] = s7[(j - 1) + 1]
      BY <1>2, <3>1
    <3> QED BY <1>6, <3>1, <3>2
  <2>2. CASE u = t
    <3>1. \A j \in 1 + 1..n : s7[j][1] # s7[1][1]
      BY <1>3, <2>1, <2>2
    <3>2. s2[s7[1][1]] = s7[1][2]
      <4>1. 1 \in 1..n
        BY <1>2
      <4> QED BY <3>1, <4>1 DEF Purchases!PurchaseInv, Purchases!PushesTell, n
    <3> QED BY <1>2, <1>3, <1>4, <2>2, <3>2
  <2>3. CASE u # t
    <3>1. \A j \in 1..n : s7[j][1] # u
      <4> SUFFICES ASSUME NEW j \in 1..n PROVE s7[j][1] # u
        OBVIOUS
      <4>1. CASE j = 1
        BY <1>3, <2>3, <4>1
      <4>2. CASE j # 1
        BY <1>2, <2>1, <4>2
      <4> QED BY <4>1, <4>2
    <3>2. s8.seen[u] = s2[u]
      BY <3>1 DEF Purchases!PurchaseInv, Purchases!PushesTell, n
    <3> QED BY <1>2, <1>4, <2>3, <3>2
  <2> QED BY <2>2, <2>3
<1>7. Purchases!PushesTell'
  BY <1>1, <1>2, <1>5, <1>6 DEF Purchases!PushesTell
<1>8. Purchases!PurchaseTyped'
  BY <1>1, <1>2, <1>4 DEF Purchases!PurchaseInv, Purchases!PurchaseTyped
<1>9. Purchases!ShowsItsGame'
  BY <1>1, <1>4 DEF Purchases!PurchaseInv, Purchases!ShowsItsGame
<1> QED BY <1>1, <1>4, <1>7, <1>8, <1>9 DEF Purchases!PurchaseInv, Purchases!ReadsItsGame, Purchases!TasksExist

\* The page takes the state of the reply only of a task a push of which is still
\* on its way.
LEMMA SubmitReplyKeeps == ASSUME Purchases!PurchaseInv, Purchases!SubmitReply PROVE Purchases!PurchaseInv'
<1> DEFINE t == s6.task
           ordered == [b \in Buyers |-> IF b \in s6.of THEN 0 ELSE s8.carts[s8.game][b]]
           p == Purchases!WithCart(ordered)
<1>1. /\ s6 # Purchases!NoOrder /\ s6' = Purchases!NoOrder /\ UNCHANGED <<s1, s2, s3, s4, s5, s7>>
      /\ s8' = IF Purchases!Unseen(t) THEN Purchases!Merged(p, t, "queued") ELSE p
  BY DEF Purchases!SubmitReply, Purchases!serverVars
<1>2. /\ s8 \in Purchases!Pages /\ s8.game \in ShopGames /\ s8.carts[s8.game] \in [Buyers -> Nat] /\ t \in ShopOrders
      /\ s8.seen \in [ShopOrders -> Purchases!AllStages] /\ "queued" \in Purchases!AllStages /\ s8.shown \in Purchases!Wallets
  BY <1>1 DEF Purchases!PurchaseInv, Purchases!PurchaseTyped, Purchases!Pages, Purchases!Posts, Purchases!AllStages
<1>3. /\ ordered \in [Buyers -> Nat]
      /\ \A b \in DOMAIN s8.shown : ordered[b] <= s8.shown[b]
  <2>1. DOMAIN s8.shown \subseteq Buyers /\ \A b \in DOMAIN s8.shown : s8.shown[b] \in Nat /\ s8.carts[s8.game][b] <= s8.shown[b]
    BY <1>2, OfWallets DEF Purchases!PurchaseInv, Purchases!ShowsItsGame
  <2> QED BY <1>2, <2>1
<1> HIDE DEF ordered
<1>4. /\ p \in Purchases!Pages /\ p.seen = s8.seen /\ p.tasks = s8.tasks /\ p.game = s8.game /\ p.of = s8.of /\ p.shown = s8.shown
      /\ p.carts[s8.game] = ordered
  BY <1>3, CartReplaced
<1> HIDE DEF p
<1> DEFINE q == Purchases!Merged(p, t, "queued")
<1>5. /\ q \in Purchases!Pages /\ q.seen = [p.seen EXCEPT ![t] = "queued"]
      /\ q.game = p.game /\ q.shown = p.shown /\ q.of = p.of /\ q.carts = p.carts
      /\ \A u \in DOMAIN q.tasks : u \in DOMAIN p.tasks \/ s3[u] = p.game
  BY <1>2, <1>4, TaskMerged
<1>6. s8' = IF Purchases!Unseen(t) THEN q ELSE p
  BY <1>1
<1> HIDE DEF q
<1>7. /\ s8' \in Purchases!Pages /\ s8'.game = s8.game /\ s8'.shown = s8.shown /\ s8'.of = s8.of /\ s8'.carts[s8.game] = ordered
      /\ \A u \in DOMAIN s8'.tasks : u \in DOMAIN s8.tasks \/ s3[u] = s8.game
      /\ s8'.seen \in {s8.seen, [s8.seen EXCEPT ![t] = "queued"]}
      /\ ~Purchases!Unseen(t) => s8'.seen = s8.seen
  BY <1>4, <1>5, <1>6
<1>8. ASSUME NEW u \in ShopOrders, \A i \in 1..Len(s7) : s7[i][1] # u PROVE s8'.seen[u] = s2[u]
  <2>1. s8.seen[u] = s2[u]
    BY <1>8 DEF Purchases!PurchaseInv, Purchases!PushesTell
  <2>2. CASE u = t
    <3>1. s2[t] # "none"
      BY <1>1 DEF Purchases!PurchaseInv, Purchases!TasksExist
    <3> QED BY <1>7, <2>1, <2>2, <3>1 DEF Purchases!Unseen
  <2>3. CASE u # t
    BY <1>2, <1>7, <2>1, <2>3
  <2> QED BY <2>2, <2>3
<1>9. Purchases!PushesTell'
  BY <1>1, <1>8 DEF Purchases!PurchaseInv, Purchases!PushesTell
<1>10. Purchases!PurchaseTyped'
  BY <1>1, <1>7 DEF Purchases!PurchaseInv, Purchases!PurchaseTyped
<1>11. Purchases!ShowsItsGame'
  BY <1>1, <1>3, <1>7 DEF Purchases!PurchaseInv, Purchases!ShowsItsGame
<1> QED BY <1>1, <1>7, <1>9, <1>10, <1>11 DEF Purchases!PurchaseInv, Purchases!ReadsItsGame, Purchases!TasksExist

LEMMA PurchaseStep == Purchases!PurchaseInv /\ [Purchases!PageNext]_Purchases!pageVars => Purchases!PurchaseInv'
<1> SUFFICES ASSUME Purchases!PurchaseInv, [Purchases!PageNext]_Purchases!pageVars PROVE Purchases!PurchaseInv'
  OBVIOUS
<1>1. CASE UNCHANGED Purchases!pageVars
  BY <1>1 DEF Purchases!pageVars, Purchases!serverVars, Purchases!PurchaseInv, Purchases!PurchaseTyped, Purchases!ReadsItsGame, Purchases!TasksExist, Purchases!PushesTell, Purchases!ShowsItsGame
<1>2. CASE Purchases!PageNext
  <2>1. CASE \/ \E bs \in SUBSET DOMAIN s8.shown : Purchases!AddToCart(bs) \/ Purchases!MaxOutCart(bs) \/ Purchases!ClearCart(bs)
             \/ \E b \in DOMAIN s8.shown, n \in 0..MaxFunds : Purchases!SetQuantity(b, n)
    BY <2>1, CartActionsKeep
  <2>2. CASE (\E kind \in {"accounts", "items"} : Purchases!Reread(kind)) \/ Purchases!AccountsReply \/ Purchases!ItemsReply \/ \E read \in s5 : Purchases!TasksReply(read)
    BY <2>2, RereadKeeps, RepliesKeep, TasksReplyKeeps
  <2>3. CASE Purchases!EnterPurchase \/ (\E g \in ShopGames : Purchases!SwitchGame(g))
    BY <2>3, EnterKeeps
  <2>4. CASE Purchases!LeavePurchase \/ Purchases!SubmitFails \/ Purchases!RefreshTimer \/ (\E new \in Purchases!Wallets : Purchases!AccountsChange(new))
    BY <2>4, RefreshKeeps
  <2>5. CASE (\E t \in ShopOrders, bs \in SUBSET Buyers : Purchases!Submit(t, bs)) \/ Purchases!SubmitReply \/ (\E t \in ShopOrders : Purchases!TaskProceeds(t)) \/ Purchases!Pushed
    BY <2>5, SubmitKeeps, SubmitReplyKeeps, TaskProceedsKeeps, PushedKeeps
  <2> QED BY <1>2, <2>1, <2>2, <2>3, <2>4, <2>5 DEF Purchases!PageNext
<1> QED BY <1>1, <1>2

LEMMA PurchaseHolds == Purchases!PurchaseInv => Purchases!PurchasePageKept
<1> SUFFICES ASSUME Purchases!PurchaseInv, s7 = << >> PROVE s8.seen = s2
  BY DEF Purchases!PurchaseInv, Purchases!PurchasePageKept, Purchases!KnowsTasks
<1>1. Len(s7) = 0 /\ 1..0 = {}
  OBVIOUS
<1>2. \A t \in ShopOrders : s8.seen[t] = s2[t]
  BY <1>1 DEF Purchases!PurchaseInv, Purchases!PushesTell
<1>3. s8.seen \in [ShopOrders -> Purchases!AllStages] /\ s2 \in [ShopOrders -> Purchases!AllStages]
  BY DEF Purchases!PurchaseInv, Purchases!PurchaseTyped, Purchases!Pages
<1> QED BY <1>2, <1>3

-----------------------------------------------------------------------------
(* The UU tokens and the page that binds them.                             *)
UuPage == INSTANCE UuTokens WITH
  Users <- UuUsers, Holders <- UuHolders, SteamOf <- UuSteamOf, Nobody <- None, NoToken <- None, NoRead <- None,
  list <- s1, held <- s2, binds <- s3, flows <- s4, issued <- s5, page <- s6, removed <- s7, wishes <- s8
ASSUME UuAssumed == UuPage!TokenConstants

LEMMA UuNone == UuPage!Cardinality({}) = 0
<1>1. UuPage!Cardinality({}) = Cardinality({})
  BY DEF UuPage!Cardinality, Cardinality, UuPage!IsFiniteSet, IsFiniteSet
<1> QED BY <1>1, FS_EmptySet
LEMMA UuOne == ASSUME NEW x PROVE UuPage!Cardinality({x}) = 1
<1>1. UuPage!Cardinality({x}) = Cardinality({x})
  BY DEF UuPage!Cardinality, Cardinality, UuPage!IsFiniteSet, IsFiniteSet
<1> QED BY <1>1, FS_Singleton

\* What the page does with its answers leaves it a page, and keeps what it waits for.
LEMMA PageStaysAPage ==
  ASSUME NEW p \in UuPage!Pages
  PROVE  /\ UuPage!Watched(p) \in UuPage!Pages /\ UuPage!Watched(p).waits = p.waits
         /\ UuPage!Refresh(p) \in UuPage!Pages /\ UuPage!Refresh(p).waits = p.waits
         /\ UuPage!RefreshBoth(p) \in UuPage!Pages /\ UuPage!RefreshBoth(p).waits = p.waits
         /\ \A account \in UuHolders, is \in BOOLEAN :
              UuPage!Merged(p, account, is) \in UuPage!Pages /\ UuPage!Merged(p, account, is).waits = p.waits
<1>1. UuPage!More(p.runs) \in Nat
  BY DEF UuPage!More, UuPage!Pages
<1>2. [p EXCEPT !.runs = UuPage!More(@)] \in UuPage!Pages /\ [p EXCEPT !.runs = UuPage!More(@)].waits = p.waits
  BY <1>1 DEF UuPage!Pages
<1>3. UuPage!Watched(p) \in UuPage!Pages /\ UuPage!Watched(p).waits = p.waits
  BY <1>2 DEF UuPage!Watched
<1>4. [p EXCEPT !.read = {None}] \in UuPage!Pages /\ [p EXCEPT !.read = {None}].waits = p.waits
  BY DEF UuPage!Pages
<1>5. [p EXCEPT !.again = TRUE] \in UuPage!Pages /\ [p EXCEPT !.again = TRUE].waits = p.waits
  BY DEF UuPage!Pages
<1>6. UuPage!Refresh(p) \in UuPage!Pages /\ UuPage!Refresh(p).waits = p.waits
  BY <1>4, <1>5 DEF UuPage!Refresh
<1>7. UuPage!RefreshBoth(p) \in UuPage!Pages /\ UuPage!RefreshBoth(p).waits = p.waits
  BY DEF UuPage!RefreshBoth, UuPage!Pages
<1>8. ASSUME NEW account \in UuHolders, NEW is \in BOOLEAN
      PROVE  UuPage!Merged(p, account, is) \in UuPage!Pages /\ UuPage!Merged(p, account, is).waits = p.waits
  <2>1. p.bound \cup {account} \in SUBSET UuHolders /\ p.bound \ {account} \in SUBSET UuHolders
    BY DEF UuPage!Pages
  <2>2. [p EXCEPT !.bound = @ \cup {account}] \in UuPage!Pages /\ [p EXCEPT !.bound = @ \cup {account}].waits = p.waits
    BY <2>1 DEF UuPage!Pages
  <2>3. [p EXCEPT !.bound = @ \ {account}] \in UuPage!Pages /\ [p EXCEPT !.bound = @ \ {account}].waits = p.waits
    BY <2>1 DEF UuPage!Pages
  <2>4. UuPage!Merged(p, account, is) = IF is THEN [p EXCEPT !.bound = @ \cup {account}] ELSE [p EXCEPT !.bound = @ \ {account}]
    BY DEF UuPage!Merged
  <2> QED BY <2>2, <2>3, <2>4
<1> QED BY <1>3, <1>6, <1>7, <1>8

LEMMA TokensStart == UuPage!TokensInit => UuPage!TokensInv
<1> SUFFICES ASSUME UuPage!TokensInit PROVE UuPage!TokensInv
  OBVIOUS
<1>1. s6 \in UuPage!Pages /\ ~s6.waits
  <2>1. {} \in SUBSET UuHolders /\ {} \in SUBSET UuUsers /\ None \in (SUBSET UuHolders) \cup {None, {None}}
    OBVIOUS
  <2> QED BY <2>1 DEF UuPage!TokensInit, UuPage!Pages
<1>2. s1 \in [UuUsers -> [n : 0..s5, linked : BOOLEAN]]
  BY DEF UuPage!TokensInit, UuPage!NotListed
<1>3. UuPage!TokensTyped
  BY <1>1, <1>2 DEF UuPage!TokensInit, UuPage!TokensTyped
<1> QED BY <1>3 DEF UuPage!TokensInit, UuPage!TokensInv, UuPage!NothingLeft, UuPage!OneIsAwaited, UuPage!DeletedStaysAway

\* A step of the page alone.
LEMMA TokensPageKeeps ==
  ASSUME UuPage!TokensInv, s6' \in UuPage!Pages, s6'.waits = s6.waits, UNCHANGED <<s1, s2, s3, s4, s5, s7>>
  PROVE  UuPage!TokensInv'
<1>1. UuPage!TokensTyped'
  BY DEF UuPage!TokensInv, UuPage!TokensTyped, UuPage!Calls
<1> QED BY <1>1 DEF UuPage!TokensInv, UuPage!NothingLeft, UuPage!OneIsAwaited, UuPage!DeletedStaysAway

LEMMA Candidates == ASSUME NEW p \in UuPage!Pages PROVE UuPage!autoBindCandidates(p) \in SUBSET UuUsers
  BY DEF UuPage!autoBindCandidates, UuPage!Pages

LEMMA PageStepsKeep ==
  ASSUME UuPage!TokensInv, UuPage!EnterUu \/ UuPage!RefreshNext \/ UuPage!StateIsRead \/ UuPage!StateReply \/ UuPage!TokensReply \/ UuPage!RunBegins
  PROVE  UuPage!TokensInv'
<1>1. UNCHANGED <<s1, s2, s3, s4, s5, s7>>
  BY DEF UuPage!EnterUu, UuPage!RefreshNext, UuPage!StateIsRead, UuPage!StateReply, UuPage!TokensReply, UuPage!RunBegins
<1>2. s6 \in UuPage!Pages
  BY DEF UuPage!TokensInv, UuPage!TokensTyped
<1>3. CASE UuPage!EnterUu
  <2> DEFINE p == IF s6.loaded THEN s6 ELSE UuPage!Refresh(s6)
  <2>1. p \in UuPage!Pages /\ p.waits = s6.waits
    BY <1>2, PageStaysAPage
  <2>2. s6' = [p EXCEPT !.asked = @ \/ ~s6.tokensLoaded]
    BY <1>3 DEF UuPage!EnterUu
  <2> HIDE DEF p
  <2>3. s6' \in UuPage!Pages /\ s6'.waits = p.waits
    BY <2>1, <2>2 DEF UuPage!Pages
  <2> QED BY <1>1, <2>1, <2>3, TokensPageKeeps
<1>4. CASE UuPage!RefreshNext
  <2>1. [s6 EXCEPT !.next = FALSE] \in UuPage!Pages /\ [s6 EXCEPT !.next = FALSE].waits = s6.waits
    BY <1>2 DEF UuPage!Pages
  <2> QED BY <1>1, <1>4, <2>1, PageStaysAPage, TokensPageKeeps DEF UuPage!RefreshNext
<1>5. CASE UuPage!StateIsRead
  <2>1. UuPage!Bound \in SUBSET UuHolders
    BY DEF UuPage!Bound
  <2>2. s6' \in UuPage!Pages /\ s6'.waits = s6.waits
    BY <1>2, <1>5, <2>1 DEF UuPage!StateIsRead, UuPage!Pages
  <2> QED BY <1>1, <2>2, TokensPageKeeps
<1>6. CASE UuPage!StateReply
  <2> DEFINE next == IF s6.again THEN {None} ELSE None
             done == [s6 EXCEPT !.read = next, !.again = FALSE]
             told == [done EXCEPT !.bound = s6.read, !.loaded = TRUE]
  <2>1. s6.read \in SUBSET UuHolders
    BY <1>2, <1>6 DEF UuPage!StateReply, UuPage!Pages
  <2>2. next \in (SUBSET UuHolders) \cup {None, {None}}
    OBVIOUS
  <2>3. s6' \in {done, UuPage!Watched(told)}
    BY <1>6 DEF UuPage!StateReply
  <2> HIDE DEF next
  <2>4. done \in UuPage!Pages /\ done.waits = s6.waits
    BY <1>2, <2>2 DEF UuPage!Pages
  <2> HIDE DEF done
  <2>5. told \in UuPage!Pages /\ told.waits = s6.waits
    BY <2>1, <2>4 DEF UuPage!Pages
  <2> HIDE DEF told
  <2> QED BY <1>1, <2>3, <2>4, <2>5, PageStaysAPage, TokensPageKeeps
<1>7. CASE UuPage!TokensReply
  <2>1. PICK tokens \in {UuPage!Matching, s6.tokens} :
          s6' = UuPage!Watched([s6 EXCEPT !.asked = FALSE, !.tokens = tokens, !.tokensLoaded = TRUE, !.runs = UuPage!More(@)])
    BY <1>7 DEF UuPage!TokensReply
  <2> DEFINE told == [s6 EXCEPT !.asked = FALSE, !.tokens = tokens, !.tokensLoaded = TRUE, !.runs = UuPage!More(@)]
  <2>2. tokens \in SUBSET UuUsers
    BY <1>2 DEF UuPage!Matching, UuPage!Pages
  <2>3. UuPage!More(s6.runs) \in Nat
    BY <1>2 DEF UuPage!More, UuPage!Pages
  <2>4. told \in UuPage!Pages /\ told.waits = s6.waits
    BY <1>2, <2>2, <2>3 DEF UuPage!Pages
  <2>5. s6' = UuPage!Watched(told)
    BY <2>1
  <2> HIDE DEF told
  <2> QED BY <1>1, <2>4, <2>5, PageStaysAPage, TokensPageKeeps
<1>8. CASE UuPage!RunBegins
  <2> DEFINE todo == IF s6.loaded THEN UuPage!autoBindCandidates(s6) ELSE {}
  <2>1. todo \in SUBSET UuUsers
    BY <1>2, Candidates
  <2>2. s6.runs - 1 \in Nat
    BY <1>2, <1>8 DEF UuPage!RunBegins, UuPage!Pages
  <2>3. s6' = [s6 EXCEPT !.runs = @ - 1, !.todo = todo]
    BY <1>8 DEF UuPage!RunBegins
  <2> HIDE DEF todo
  <2>4. s6' \in UuPage!Pages /\ s6'.waits = s6.waits
    BY <1>2, <2>1, <2>2, <2>3 DEF UuPage!Pages
  <2> QED BY <1>1, <2>4, TokensPageKeeps
<1> QED BY <1>3, <1>4, <1>5, <1>6, <1>7, <1>8

LEMMA AutoBindKeeps == ASSUME UuPage!TokensInv, UuPage!AutoBind PROVE UuPage!TokensInv'
<1> DEFINE u == CHOOSE v \in s6.todo : \A w \in s6.todo : v <= w
           call == UuPage!Call(UuSteamOf[u], UuPage!Token(u, s1[u].n), TRUE)
           rest == s6.todo \ {u}
<1>1. s6 \in UuPage!Pages /\ s6.todo \subseteq UuUsers /\ s6.todo # {} /\ ~s6.waits /\ UNCHANGED <<s1, s2, s4, s5, s7>>
  BY DEF UuPage!AutoBind, UuPage!TokensInv, UuPage!TokensTyped, UuPage!Pages
<1>2. u \in s6.todo
  <2>1. \E v \in s6.todo : \A w \in s6.todo : v <= w
    BY <1>1, UuAssumed, LeastOfSet DEF UuPage!TokenConstants
  <2> QED BY <2>1
<1>3. u \in UuUsers /\ rest \in SUBSET UuUsers
  BY <1>1, <1>2
<1>4. \/ s6' = [s6 EXCEPT !.todo = rest] /\ UNCHANGED s3
      \/ /\ s1[u].n # 0 /\ s3' = s3 \cup {call}
         /\ s6' = [s6 EXCEPT !.todo = rest, !.waits = TRUE]
  BY DEF UuPage!AutoBind
<1> HIDE DEF u
<1>5. CASE s6' = [s6 EXCEPT !.todo = rest] /\ UNCHANGED s3
  <2>1. s6' \in UuPage!Pages /\ s6'.waits = s6.waits
    BY <1>1, <1>3, <1>5 DEF UuPage!Pages
  <2> QED BY <1>1, <1>5, <2>1, TokensPageKeeps
<1>6. CASE s1[u].n # 0 /\ s3' = s3 \cup {call} /\ s6' = [s6 EXCEPT !.todo = rest, !.waits = TRUE]
  <2>1. s6' \in UuPage!Pages /\ s6'.waits
    BY <1>1, <1>3, <1>6 DEF UuPage!Pages
  <2>2. s1[u] \in [n : 0..s5, linked : BOOLEAN] /\ s5 \in Nat
    BY <1>3 DEF UuPage!TokensInv, UuPage!TokensTyped
  <2>3. s1[u].n \in 1..s5
    BY <1>6, <2>2
  <2>4. UuSteamOf[u] \in UuHolders
    BY <1>3, UuAssumed DEF UuPage!TokenConstants
  <2>5. UuPage!Token(u, s1[u].n) \in [user : UuUsers, n : 1..s5] /\ UuPage!Token(u, s1[u].n).user = u
    BY <1>3, <2>3 DEF UuPage!Token
  <2>6. call \in UuPage!Calls /\ call.account = UuSteamOf[u] /\ call.token.user = u /\ call.auto /\ ~call.late
    BY <2>4, <2>5 DEF UuPage!Calls, UuPage!Call
  <2> HIDE DEF call
  <2>7. UuPage!TokensTyped'
    BY <1>1, <1>6, <2>1, <2>6 DEF UuPage!TokensInv, UuPage!TokensTyped, UuPage!Calls
  <2>8. <<call.account, call.token.user>> \notin s7
    BY <1>6, <2>6 DEF UuPage!TokensInv, UuPage!NothingLeft
  <2>9. UuPage!NothingLeft'
    BY <1>1, <1>6, <2>8 DEF UuPage!TokensInv, UuPage!NothingLeft
  <2>10. UuPage!OneIsAwaited'
    BY <1>1, <1>6, <2>1 DEF UuPage!TokensInv, UuPage!OneIsAwaited
  <2> QED BY <1>1, <2>7, <2>9, <2>10 DEF UuPage!TokensInv, UuPage!DeletedStaysAway
<1> QED BY <1>4, <1>5, <1>6

LEMMA AnswerToPage ==
  ASSUME NEW p \in UuPage!Pages, NEW b
  PROVE  /\ UuPage!AfterBind(p, b) \in UuPage!Pages
         /\ b.auto => ~UuPage!AfterBind(p, b).waits
         /\ ~b.auto => UuPage!AfterBind(p, b).waits = p.waits
<1> DEFINE q == [p EXCEPT !.waits = FALSE]
<1>1. q \in UuPage!Pages /\ ~q.waits
  BY DEF UuPage!Pages
<1>2. UuPage!AfterBind(p, b) = IF ~b.auto THEN p ELSE IF q.todo = {} THEN UuPage!Refresh(q) ELSE q
  BY DEF UuPage!AfterBind
<1> HIDE DEF q
<1>3. UuPage!Refresh(q) \in UuPage!Pages /\ UuPage!Refresh(q).waits = q.waits
  BY <1>1, PageStaysAPage
<1> QED BY <1>1, <1>2, <1>3

LEMMA BindRepliesKeep == ASSUME UuPage!TokensInv, NEW b \in s3, UuPage!BindReplies(b) PROVE UuPage!TokensInv'
<1>1. /\ s6 \in UuPage!Pages /\ b \in UuPage!Calls /\ b.account \in UuHolders /\ b.token \in [user : UuUsers, n : 1..s5]
      /\ s3' = s3 \ {b} /\ UNCHANGED <<s1, s4, s5>>
  BY DEF UuPage!TokensInv, UuPage!TokensTyped, UuPage!BindReplies, UuPage!Calls
<1>2. s6' \in UuPage!Pages /\ (~b.auto => s6'.waits = s6.waits)
  <2>1. CASE s6' = UuPage!AfterBind(s6, b)
    BY <1>1, <2>1, AnswerToPage
  <2>2. CASE s6' = UuPage!Watched(UuPage!AfterBind(UuPage!Merged(s6, b.account, TRUE), b))
    <3>1. UuPage!Merged(s6, b.account, TRUE) \in UuPage!Pages /\ UuPage!Merged(s6, b.account, TRUE).waits = s6.waits
      BY <1>1, PageStaysAPage
    <3>2. /\ UuPage!AfterBind(UuPage!Merged(s6, b.account, TRUE), b) \in UuPage!Pages
          /\ ~b.auto => UuPage!AfterBind(UuPage!Merged(s6, b.account, TRUE), b).waits = s6.waits
      BY <3>1, AnswerToPage
    <3> QED BY <2>2, <3>2, PageStaysAPage
  <2> QED BY <2>1, <2>2 DEF UuPage!BindReplies
<1>3. UuPage!OneIsAwaited'
  <2>1. ASSUME NEW c \in s3', c.auto PROVE s6'.waits
    <3>1. c \in s3 /\ c # b /\ ~b.auto
      BY <1>1, <2>1 DEF UuPage!TokensInv, UuPage!OneIsAwaited
    <3> QED BY <1>2, <2>1, <3>1 DEF UuPage!TokensInv, UuPage!OneIsAwaited
  <2>2. \A c, d \in s3' : c.auto /\ d.auto => c = d
    BY <1>1 DEF UuPage!TokensInv, UuPage!OneIsAwaited
  <2> QED BY <2>1, <2>2 DEF UuPage!OneIsAwaited
<1>4. CASE UNCHANGED <<s2, s7>>
  <2>1. UuPage!TokensTyped'
    BY <1>1, <1>2, <1>4 DEF UuPage!TokensInv, UuPage!TokensTyped, UuPage!Calls
  <2>2. UuPage!NothingLeft'
    BY <1>1, <1>4 DEF UuPage!TokensInv, UuPage!NothingLeft
  <2> QED BY <1>3, <1>4, <2>1, <2>2 DEF UuPage!TokensInv, UuPage!DeletedStaysAway
<1>5. CASE /\ s2' = [s2 EXCEPT ![b.account] = b.token]
           /\ s7' = IF b.late THEN s7 \ {<<b.account, b.token.user>>} ELSE s7
  <2>1. s2' \in [UuHolders -> [user : UuUsers, n : 1..s5] \cup {None}]
    BY <1>1, <1>5 DEF UuPage!TokensInv, UuPage!TokensTyped
  <2>3. s7' \subseteq s7 /\ <<b.account, b.token.user>> \notin s7'
    BY <1>5 DEF UuPage!TokensInv, UuPage!NothingLeft
  <2>2. UuPage!TokensTyped'
    BY <1>1, <1>2, <2>1, <2>3 DEF UuPage!TokensInv, UuPage!TokensTyped, UuPage!Calls
  <2>4. UuPage!NothingLeft'
    BY <1>1, <2>3 DEF UuPage!TokensInv, UuPage!NothingLeft
  <2>5. ASSUME NEW r \in s7' PROVE s2'[r[1]] = None \/ s2'[r[1]].user # r[2]
    <3>1. r \in s7 /\ r = <<r[1], r[2]>> /\ r[1] \in UuHolders
      BY <2>3 DEF UuPage!TokensInv, UuPage!TokensTyped
    <3>2. CASE r[1] = b.account
      <4>1. s2'[r[1]] = b.token
        BY <1>5, <3>1, <3>2 DEF UuPage!TokensInv, UuPage!TokensTyped
      <4> QED BY <2>3, <3>1, <3>2, <4>1
    <3>3. CASE r[1] # b.account
      <4>1. s2'[r[1]] = s2[r[1]]
        BY <1>5, <3>1, <3>3 DEF UuPage!TokensInv, UuPage!TokensTyped
      <4> QED BY <3>1, <4>1 DEF UuPage!TokensInv, UuPage!DeletedStaysAway
    <3> QED BY <3>2, <3>3
  <2> QED BY <1>3, <2>2, <2>4, <2>5 DEF UuPage!TokensInv, UuPage!DeletedStaysAway
<1> QED BY <1>4, <1>5 DEF UuPage!BindReplies

\* A way to a token that begins, goes on or ends without one.
LEMMA FlowStepsKeep ==
  ASSUME UuPage!TokensInv, UuPage!LoginStart \/ (\E f \in s4 : UuPage!LoginEnds(f) \/ UuPage!LoginVerify(f))
  PROVE  UuPage!TokensInv'
<1>1. UNCHANGED <<s1, s2, s3, s5, s6, s7>>
  BY DEF UuPage!LoginStart, UuPage!LoginEnds, UuPage!LoginVerify
<1>2. s4' \subseteq UuPage!Flows
  <2>1. CASE UuPage!LoginStart
    <3>1. PICK u \in UuUsers, account \in UuHolders \cup {None}, phase \in UuPage!LoginWays :
            s4' = s4 \cup {[phase |-> phase, user |-> u, account |-> account]}
      BY <2>1 DEF UuPage!LoginStart
    <3>2. [phase |-> phase, user |-> u, account |-> account] \in UuPage!Flows
      BY DEF UuPage!Flows
    <3> QED BY <3>1, <3>2 DEF UuPage!TokensInv, UuPage!TokensTyped
  <2>2. ASSUME NEW f \in s4, UuPage!LoginEnds(f) PROVE s4' \subseteq UuPage!Flows
    BY <2>2 DEF UuPage!LoginEnds, UuPage!TokensInv, UuPage!TokensTyped
  <2>3. ASSUME NEW f \in s4, UuPage!LoginVerify(f) PROVE s4' \subseteq UuPage!Flows
    <3>1. f \in UuPage!Flows
      BY DEF UuPage!TokensInv, UuPage!TokensTyped
    <3>2. [f EXCEPT !.phase = "got"] \in UuPage!Flows
      BY <3>1 DEF UuPage!Flows
    <3> QED BY <2>3, <3>2 DEF UuPage!LoginVerify, UuPage!TokensInv, UuPage!TokensTyped
  <2> QED BY <2>1, <2>2, <2>3
<1>3. UuPage!TokensTyped'
  BY <1>1, <1>2 DEF UuPage!TokensInv, UuPage!TokensTyped, UuPage!Calls
<1> QED BY <1>1, <1>3 DEF UuPage!TokensInv, UuPage!NothingLeft, UuPage!OneIsAwaited, UuPage!DeletedStaysAway

\* A token that is bound by the service itself, for a user no longer deleted from
\* the account.
LEMMA BoundByService ==
  ASSUME UuPage!TokensInv, NEW f \in s4, NEW account \in UuHolders, s5' = s5 + 1, s4' = s4 \ {f},
         s3' \in {s3, s3 \cup {UuPage!Call(account, UuPage!Token(f.user, s5'), FALSE)}},
         s7' \subseteq s7, <<account, f.user>> \notin s7',
         s1' \in [UuUsers -> [n : 0..s5', linked : BOOLEAN]], \A r \in s7' : s1'[r[2]].n = 0,
         UNCHANGED s2, s6' = UuPage!RefreshBoth(s6)
  PROVE  UuPage!TokensInv'
<1> DEFINE call == UuPage!Call(account, UuPage!Token(f.user, s5'), FALSE)
<1>1. s5 \in Nat /\ s5' \in Nat /\ s5' \in 1..s5' /\ \A n \in 1..s5 : n \in 1..s5'
  BY DEF UuPage!TokensInv, UuPage!TokensTyped
<1>2. f.user \in UuUsers
  BY DEF UuPage!TokensInv, UuPage!TokensTyped, UuPage!Flows
<1>3. UuPage!Token(f.user, s5') \in [user : UuUsers, n : 1..s5'] /\ UuPage!Token(f.user, s5').user = f.user
  BY <1>1, <1>2 DEF UuPage!Token
<1>4. call \in UuPage!Calls' /\ call.account = account /\ call.token.user = f.user /\ ~call.auto /\ ~call.late
  BY <1>3 DEF UuPage!Call, UuPage!Calls
<1>5. s6' \in UuPage!Pages /\ s6'.waits = s6.waits
  BY PageStaysAPage DEF UuPage!TokensInv, UuPage!TokensTyped
<1>6. [user : UuUsers, n : 1..s5] \subseteq [user : UuUsers, n : 1..s5']
  BY <1>1
<1>7. UuPage!Calls \subseteq UuPage!Calls'
  BY <1>6 DEF UuPage!Calls
<1> HIDE DEF call
<1>8. s3' \in {s3, s3 \cup {call}}
  BY DEF call
<1>9. s2' \in [UuHolders -> [user : UuUsers, n : 1..s5'] \cup {None}]
  BY <1>6 DEF UuPage!TokensInv, UuPage!TokensTyped
<1>10. UuPage!TokensTyped'
  BY <1>1, <1>4, <1>5, <1>7, <1>8, <1>9 DEF UuPage!TokensInv, UuPage!TokensTyped
<1>11. UuPage!NothingLeft'
  BY <1>4, <1>8 DEF UuPage!TokensInv, UuPage!NothingLeft
<1>12. UuPage!OneIsAwaited'
  BY <1>4, <1>5, <1>8 DEF UuPage!TokensInv, UuPage!OneIsAwaited
<1> QED BY <1>10, <1>11, <1>12 DEF UuPage!TokensInv, UuPage!DeletedStaysAway

LEMMA PasteBoundKeeps == ASSUME UuPage!TokensInv, NEW f \in s4, UuPage!PasteBound(f) PROVE UuPage!TokensInv'
<1>1. f.account \in UuHolders /\ s5 \in Nat
  BY DEF UuPage!PasteBound, UuPage!TokensInv, UuPage!TokensTyped, UuPage!Flows
<1>2. [n : 0..s5, linked : BOOLEAN] \subseteq [n : 0..s5 + 1, linked : BOOLEAN]
  BY <1>1
<1>3. s1' \in [UuUsers -> [n : 0..s5', linked : BOOLEAN]] /\ \A r \in s7' : s1'[r[2]].n = 0
  BY <1>2 DEF UuPage!PasteBound, UuPage!TokensInv, UuPage!TokensTyped, UuPage!NothingLeft
<1> QED BY <1>1, <1>3, BoundByService DEF UuPage!PasteBound

LEMMA AcquireKeeps == ASSUME UuPage!TokensInv, NEW f \in s4, UuPage!Acquire(f) PROVE UuPage!TokensInv'
<1>1. f.account \in UuHolders \cup {None} /\ f.user \in UuUsers /\ s5 \in Nat /\ UuSteamOf[f.user] \in UuHolders
  BY UuAssumed DEF UuPage!TokensInv, UuPage!TokensTyped, UuPage!Flows, UuPage!TokenConstants
<1>2. PICK linked \in BOOLEAN :
        /\ s1' = [s1 EXCEPT ![f.user] = [n |-> s5', linked |-> linked]]
        /\ \E a \in IF f.phase = "pasted" THEN {None}
                    ELSE IF f.account # None THEN {f.account}
                    ELSE {None} \cup (IF linked THEN {UuSteamOf[f.user]} ELSE {}) :
             s3' = IF a = None THEN s3 ELSE s3 \cup {UuPage!Call(a, UuPage!Token(f.user, s5'), FALSE)}
  BY DEF UuPage!Acquire, UuPage!SteamKnown
<1>3. PICK account \in UuHolders : s3' \in {s3, s3 \cup {UuPage!Call(account, UuPage!Token(f.user, s5'), FALSE)}}
  BY <1>1, <1>2
<1>4. s5' = s5 + 1 /\ s4' = s4 \ {f} /\ s7' = {r \in s7 : r[2] # f.user} /\ UNCHANGED s2 /\ s6' = UuPage!RefreshBoth(s6)
  BY DEF UuPage!Acquire
<1>5. [n : 0..s5, linked : BOOLEAN] \subseteq [n : 0..s5', linked : BOOLEAN]
      /\ [n |-> s5', linked |-> linked] \in [n : 0..s5', linked : BOOLEAN]
  BY <1>1, <1>4
<1>6. s1' \in [UuUsers -> [n : 0..s5', linked : BOOLEAN]]
  BY <1>1, <1>2, <1>5 DEF UuPage!TokensInv, UuPage!TokensTyped
<1>7. \A r \in s7' : s1'[r[2]].n = 0
  <2> SUFFICES ASSUME NEW r \in s7' PROVE s1'[r[2]].n = 0
    OBVIOUS
  <2>1. r \in s7 /\ r[2] # f.user /\ r[2] \in UuUsers
    BY <1>4 DEF UuPage!TokensInv, UuPage!TokensTyped
  <2>2. s1'[r[2]] = s1[r[2]]
    BY <1>2, <2>1 DEF UuPage!TokensInv, UuPage!TokensTyped
  <2> QED BY <2>1, <2>2 DEF UuPage!TokensInv, UuPage!NothingLeft
<1>8. s7' \subseteq s7 /\ <<account, f.user>> \notin s7'
  BY <1>4
<1> QED BY <1>3, <1>4, <1>6, <1>7, <1>8, BoundByService

LEMMA ListWithout ==
  ASSUME UuPage!TokensInv, NEW S
  PROVE  /\ UuPage!Without(S) \in [UuUsers -> [n : 0..s5, linked : BOOLEAN]]
         /\ \A u \in UuUsers : u \in S \/ s1[u].n = 0 => UuPage!Without(S)[u].n = 0
<1>1. UuPage!NotListed \in [n : 0..s5, linked : BOOLEAN] /\ UuPage!NotListed.n = 0
  BY DEF UuPage!NotListed, UuPage!TokensInv, UuPage!TokensTyped
<1>2. \A u \in UuUsers : s1[u] \in [n : 0..s5, linked : BOOLEAN]
  BY DEF UuPage!TokensInv, UuPage!TokensTyped
<1>3. \A u \in UuUsers : UuPage!Without(S)[u] = IF u \in S THEN UuPage!NotListed ELSE s1[u]
  BY DEF UuPage!Without
<1>4. UuPage!Without(S) \in [UuUsers -> [n : 0..s5, linked : BOOLEAN]]
  BY <1>1, <1>2 DEF UuPage!Without
<1> QED BY <1>1, <1>3, <1>4

LEMMA DeleteByIdKeeps == ASSUME UuPage!TokensInv, NEW u \in UuUsers, UuPage!DeleteTokenById(u) PROVE UuPage!TokensInv'
<1>1. s1' = UuPage!Without({u}) /\ s6' = UuPage!RefreshBoth(s6) /\ UNCHANGED <<s2, s3, s4, s5, s7>>
  BY DEF UuPage!DeleteTokenById
<1>2. s6' \in UuPage!Pages /\ s6'.waits = s6.waits
  BY <1>1, PageStaysAPage DEF UuPage!TokensInv, UuPage!TokensTyped
<1>3. UuPage!TokensTyped'
  BY <1>1, <1>2, ListWithout DEF UuPage!TokensInv, UuPage!TokensTyped, UuPage!Calls
<1>4. \A r \in s7 : s1'[r[2]].n = 0
  <2>1. \A r \in s7 : r[2] \in UuUsers /\ s1[r[2]].n = 0
    BY DEF UuPage!TokensInv, UuPage!TokensTyped, UuPage!NothingLeft
  <2> QED BY <1>1, <2>1, ListWithout
<1> QED BY <1>1, <1>2, <1>3, <1>4 DEF UuPage!TokensInv, UuPage!NothingLeft, UuPage!OneIsAwaited, UuPage!DeletedStaysAway

LEMMA DeleteAccountKeeps == ASSUME UuPage!TokensInv, NEW a \in UuHolders, UuPage!DeleteAccountToken(a) PROVE UuPage!TokensInv'
<1> DEFINE Met(b) == [b EXCEPT !.late = @ \/ (b.account = a /\ b.token.user = s2[a].user)]
<1>1. /\ s2' = [s2 EXCEPT ![a] = None] /\ s1' = UuPage!Without({s2[a].user})
      /\ s7' = s7 \cup {<<a, s2[a].user>>} /\ s3' = {Met(b) : b \in s3}
      /\ s6' = UuPage!Watched(UuPage!RefreshBoth(UuPage!Merged(s6, a, FALSE))) /\ UNCHANGED <<s4, s5>>
  BY DEF UuPage!DeleteAccountToken, UuPage!WithoutUser
<1>2. s2[a] \in [user : UuUsers, n : 1..s5] /\ s2[a].user \in UuUsers
  BY DEF UuPage!DeleteAccountToken, UuPage!TokensInv, UuPage!TokensTyped
<1>3. ASSUME NEW b \in s3
      PROVE  /\ Met(b) \in UuPage!Calls /\ Met(b).account = b.account /\ Met(b).token = b.token /\ Met(b).auto = b.auto
             /\ Met(b).late <=> b.late \/ (b.account = a /\ b.token.user = s2[a].user)
  <2>1. b \in UuPage!Calls
    BY DEF UuPage!TokensInv, UuPage!TokensTyped
  <2> QED BY <2>1 DEF UuPage!Calls
<1> HIDE DEF Met
<1>4. s6' \in UuPage!Pages /\ s6'.waits = s6.waits
  <2> DEFINE p == UuPage!Merged(s6, a, FALSE)
  <2>1. s6 \in UuPage!Pages
    BY DEF UuPage!TokensInv, UuPage!TokensTyped
  <2>2. p \in UuPage!Pages /\ p.waits = s6.waits
    BY <2>1, PageStaysAPage
  <2>3. UuPage!RefreshBoth(p) \in UuPage!Pages /\ UuPage!RefreshBoth(p).waits = p.waits
    BY <2>2, PageStaysAPage
  <2>4. s6' = UuPage!Watched(UuPage!RefreshBoth(p))
    BY <1>1
  <2> HIDE DEF p
  <2> QED BY <2>2, <2>3, <2>4, PageStaysAPage
<1>5. UuPage!TokensTyped'
  <2>1. s2' \in [UuHolders -> [user : UuUsers, n : 1..s5] \cup {None}]
    BY <1>1 DEF UuPage!TokensInv, UuPage!TokensTyped
  <2>2. s3' \subseteq UuPage!Calls
    BY <1>1, <1>3
  <2>3. UuPage!Calls' = UuPage!Calls
    BY <1>1 DEF UuPage!Calls
  <2>4. s7' \subseteq UuHolders \X UuUsers
    BY <1>1, <1>2 DEF UuPage!TokensInv, UuPage!TokensTyped
  <2> QED BY <1>1, <1>4, <2>1, <2>2, <2>3, <2>4, ListWithout DEF UuPage!TokensInv, UuPage!TokensTyped
<1>6. UuPage!NothingLeft'
  <2>1. \A r \in s7' : s1'[r[2]].n = 0
    <3>1. \A r \in s7 : r[2] \in UuUsers /\ s1[r[2]].n = 0
      BY DEF UuPage!TokensInv, UuPage!TokensTyped, UuPage!NothingLeft
    <3> QED BY <1>1, <1>2, <3>1, ListWithout
  <2>2. ASSUME NEW c \in s3', ~c.late PROVE <<c.account, c.token.user>> \notin s7'
    <3>1. PICK b \in s3 : c = Met(b)
      BY <1>1
    <3>2. ~b.late /\ ~(b.account = a /\ b.token.user = s2[a].user) /\ c.account = b.account /\ c.token = b.token
      BY <1>3, <2>2, <3>1
    <3>3. <<b.account, b.token.user>> \notin s7
      BY <3>2 DEF UuPage!TokensInv, UuPage!NothingLeft
    <3> QED BY <1>1, <3>2, <3>3
  <2> QED BY <2>1, <2>2 DEF UuPage!NothingLeft
<1>7. UuPage!OneIsAwaited'
  <2>1. \A c \in s3' : \E b \in s3 : c = Met(b) /\ c.auto = b.auto
    BY <1>1, <1>3
  <2>2. \A c \in s3' : c.auto => s6'.waits
    BY <1>4, <2>1 DEF UuPage!TokensInv, UuPage!OneIsAwaited
  <2>3. \A c, d \in s3' : c.auto /\ d.auto => c = d
    BY <2>1 DEF UuPage!TokensInv, UuPage!OneIsAwaited
  <2> QED BY <2>2, <2>3 DEF UuPage!OneIsAwaited
<1>8. UuPage!DeletedStaysAway'
  <2> SUFFICES ASSUME NEW r \in s7' PROVE s2'[r[1]] = None \/ s2'[r[1]].user # r[2]
    BY DEF UuPage!DeletedStaysAway
  <2>1. CASE r[1] = a
    BY <1>1, <2>1 DEF UuPage!TokensInv, UuPage!TokensTyped
  <2>2. CASE r[1] # a
    <3>1. r \in s7 /\ r[1] \in UuHolders
      BY <1>1, <2>2 DEF UuPage!TokensInv, UuPage!TokensTyped
    <3>2. s2'[r[1]] = s2[r[1]]
      BY <1>1, <2>2, <3>1 DEF UuPage!TokensInv, UuPage!TokensTyped
    <3> QED BY <3>1, <3>2 DEF UuPage!TokensInv, UuPage!DeletedStaysAway
  <2> QED BY <2>1, <2>2
<1> QED BY <1>5, <1>6, <1>7, <1>8 DEF UuPage!TokensInv

LEMMA UuRestartKeeps == ASSUME UuPage!TokensInv, UuPage!UuRestart PROVE UuPage!TokensInv'
<1>1. s6' = [s6 EXCEPT !.waits = FALSE] /\ s3' = {} /\ s4' = {} /\ UNCHANGED <<s1, s2, s5, s7>>
  BY DEF UuPage!UuRestart
<1>2. s6' \in UuPage!Pages
  BY <1>1 DEF UuPage!TokensInv, UuPage!TokensTyped, UuPage!Pages
<1>3. UuPage!TokensTyped'
  BY <1>1, <1>2 DEF UuPage!TokensInv, UuPage!TokensTyped
<1> QED BY <1>1, <1>3 DEF UuPage!TokensInv, UuPage!NothingLeft, UuPage!OneIsAwaited, UuPage!DeletedStaysAway

LEMMA TokensStep == UuPage!TokensInv /\ [UuPage!TokensNext]_UuPage!tokenVars => UuPage!TokensInv'
<1> SUFFICES ASSUME UuPage!TokensInv, [UuPage!TokensNext]_UuPage!tokenVars PROVE UuPage!TokensInv'
  OBVIOUS
<1>1. CASE UNCHANGED UuPage!tokenVars
  <2>1. s6 \in UuPage!Pages
    BY DEF UuPage!TokensInv, UuPage!TokensTyped
  <2> QED BY <1>1, <2>1, TokensPageKeeps DEF UuPage!tokenVars
<1>2. CASE UuPage!TokensNext
  <2>1. CASE UuPage!EnterUu \/ UuPage!RefreshNext \/ UuPage!StateIsRead \/ UuPage!StateReply \/ UuPage!TokensReply \/ UuPage!RunBegins
    BY <2>1, PageStepsKeep
  <2>2. CASE UuPage!LoginStart \/ (\E f \in s4 : UuPage!LoginEnds(f) \/ UuPage!LoginVerify(f))
    BY <2>2, FlowStepsKeep
  <2>3. CASE UuPage!AutoBind \/ UuPage!UuRestart
    BY <2>3, AutoBindKeeps, UuRestartKeeps
  <2>4. CASE \E b \in s3 : UuPage!BindReplies(b)
    BY <2>4, BindRepliesKeep
  <2>5. CASE \E f \in s4 : UuPage!PasteBound(f) \/ UuPage!Acquire(f)
    BY <2>5, PasteBoundKeeps, AcquireKeeps
  <2>6. CASE (\E a \in UuHolders : UuPage!DeleteAccountToken(a)) \/ (\E u \in UuUsers : UuPage!DeleteTokenById(u))
    BY <2>6, DeleteAccountKeeps, DeleteByIdKeeps
  <2> QED BY <1>2, <2>1, <2>2, <2>3, <2>4, <2>5, <2>6 DEF UuPage!TokensNext
<1> QED BY <1>1, <1>2

LEMMA TokensTypes == UuPage!TokensInv => UuPage!UuTokensTypeOK
<1> SUFFICES ASSUME UuPage!TokensInv PROVE UuPage!UuTokensTypeOK
  OBVIOUS
<1>1. s6.bound \subseteq UuHolders /\ s6.todo \cup s6.tokens \subseteq UuUsers
  BY DEF UuPage!TokensInv, UuPage!TokensTyped, UuPage!Pages
<1>2. \A b \in s3 : b.account \in UuHolders /\ b.token.n \in 1..s5
  BY DEF UuPage!TokensInv, UuPage!TokensTyped, UuPage!Calls
<1> QED BY <1>1, <1>2 DEF UuPage!TokensInv, UuPage!TokensTyped, UuPage!UuTokensTypeOK

\* A set with no two elements has at most one.
LEMMA TokensHold == UuPage!TokensInv => UuPage!TokensKept
<1> SUFFICES ASSUME UuPage!TokensInv PROVE UuPage!OneAutoBind
  BY DEF UuPage!TokensInv, UuPage!TokensKept
<1> DEFINE S == {b \in s3 : b.auto}
<1>1. CASE S = {}
  <2>1. UuPage!Cardinality(S) = 0
    BY <1>1, UuNone
  <2> QED BY <2>1 DEF UuPage!OneAutoBind
<1>2. CASE S # {}
  <2>1. PICK b : b \in S
    BY <1>2
  <2>2. S = {b}
    BY <2>1 DEF UuPage!TokensInv, UuPage!OneIsAwaited
  <2>3. UuPage!Cardinality(S) = 1
    BY <2>2, UuOne
  <2> QED BY <2>3 DEF UuPage!OneAutoBind
<1> QED BY <1>1, <1>2

-----------------------------------------------------------------------------
(* The terminals.                                                          *)
Crates == INSTANCE Terminal WITH
  Candidates <- ProbeCandidates, MaxClicks <- TerminalClicks, NoTerminal <- None,
  boxes <- s1, sent <- s2, news <- s3, items <- s4, captured <- s5, advances <- s6, unseals <- s7,
  probes <- s8, history <- s9, loads <- s10, version <- s11, shown <- s12, busyId <- s13, clicks <- s14
ASSUME CratesAssumed == Crates!TerminalConstants

LEMMA TerminalNumbers ==
  /\ MaxPicks \in Nat /\ MaxPicks > 0 /\ ProbeCandidates \in Nat /\ None \notin Terminals
  /\ 0 \in 0..MaxPicks + 1 /\ 1 \in 0..MaxPicks + 1 /\ 0 \in 0..MaxPicks /\ 1 \in 0..MaxPicks
  /\ \A n \in 1..MaxPicks : n \in 0..MaxPicks
  BY CratesAssumed DEF Crates!TerminalConstants

\* What is shown of a terminal is one of its offers.
LEMMA StateTyped == ASSUME Crates!BoxesTyped PROVE Crates!State \in [Terminals -> Crates!Shown]
<1> SUFFICES ASSUME NEW t \in Terminals
             PROVE  [sealed |-> Crates!IsSealed(t), offer |-> IF Crates!IsSealed(t) \/ Crates!Offers(t) = <<>> THEN 0 ELSE Head(Crates!Offers(t))] \in Crates!Shown
  BY DEF Crates!State
<1>1. Crates!IsSealed(t) \in BOOLEAN
  BY DEF Crates!IsSealed
<1>2. Crates!Offers(t) \in Seq(0..MaxPicks)
  <2>1. s4[t].offer \in 0..MaxPicks /\ s5[t] \in Seq(1..MaxPicks)
    BY DEF Crates!BoxesTyped, Crates!Box
  <2>2. s5[t] \in Seq(0..MaxPicks)
    BY <2>1, TerminalNumbers, SeqMonotonic
  <2>3. <<s4[t].offer>> \in Seq(0..MaxPicks)
    BY <2>1
  <2> QED BY <2>2, <2>3 DEF Crates!Offers
<1>3. Crates!Offers(t) # <<>> => Head(Crates!Offers(t)) \in 0..MaxPicks
  BY <1>2, HeadTailProperties
<1> QED BY <1>1, <1>3, TerminalNumbers DEF Crates!Shown

LEMMA StateSeals == ASSUME NEW t \in Terminals PROVE ~Crates!State[t].sealed <=> Crates!IsOpen(s4[t])
  BY DEF Crates!State, Crates!IsSealed, Crates!IsOpen

LEMMA TerminalStarts == Crates!TerminalInit => Crates!TerminalInv
<1> SUFFICES ASSUME Crates!TerminalInit PROVE Crates!TerminalInv
  OBVIOUS
<1>1. {Crates!Crate, Crates!Traded} \subseteq Crates!Box
  BY TerminalNumbers DEF Crates!Crate, Crates!Traded, Crates!Box
<1>2. Crates!BoxesTyped
  <2>1. s1 \in [Terminals -> Crates!Box]
    BY <1>1 DEF Crates!TerminalInit
  <2> QED BY <2>1 DEF Crates!TerminalInit, Crates!BoxesTyped
<1>3. Crates!PageTyped
  BY <1>2, StateTyped DEF Crates!TerminalInit, Crates!PageTyped
<1>4. Crates!OpenForGood
  <2>1. s3 = <<>> /\ s10 = {} /\ s1 = s4
    BY DEF Crates!TerminalInit
  <2>2. \A t \in Terminals : ~s12[t].sealed => Crates!IsOpen(s4[t])
    BY StateSeals DEF Crates!TerminalInit
  <2> QED BY <2>1, <2>2 DEF Crates!OpenForGood
<1> QED BY <1>2, <1>3, <1>4 DEF Crates!TerminalInv

LEMMA OpeningOpens ==
  ASSUME NEW box \in Crates!Box, box.used <= MaxPicks
  PROVE  /\ Crates!Opened(box) \in Crates!Box /\ Crates!IsOpen(Crates!Opened(box)) /\ [Crates!Opened(box) EXCEPT !.offer = 0] \in Crates!Box
         /\ Crates!IsOpen([Crates!Opened(box) EXCEPT !.offer = 0])
<1>1. CASE box.origin = "crate"
  <2>1. Crates!Opened(box) = [box EXCEPT !.origin = "here"]
    BY <1>1 DEF Crates!Opened
  <2>2. Crates!Opened(box) \in Crates!Box /\ Crates!Opened(box).origin = "here"
    BY <2>1 DEF Crates!Box
  <2> QED BY <2>2, TerminalNumbers DEF Crates!Box, Crates!IsOpen
<1>2. CASE box.origin # "crate"
  <2>1. Crates!Opened(box) = [box EXCEPT !.used = @ + 1, !.offer = IF box.used < MaxPicks THEN box.used + 1 ELSE 0]
    BY <1>2 DEF Crates!Opened
  <2>2. box.used + 1 \in 0..MaxPicks + 1 /\ box.used + 1 > 0 /\ (IF box.used < MaxPicks THEN box.used + 1 ELSE 0) \in 0..MaxPicks
    BY TerminalNumbers DEF Crates!Box
  <2>3. Crates!Opened(box) \in Crates!Box /\ Crates!Opened(box).used > 0
    BY <2>1, <2>2 DEF Crates!Box
  <2> QED BY <2>3, TerminalNumbers DEF Crates!Box, Crates!IsOpen
<1> QED BY <1>1, <1>2

LEMMA CoordinatorKeeps == ASSUME Crates!TerminalInv, Crates!CoordinatorOpens PROVE Crates!TerminalInv'
<1> DEFINE t == Head(s2)
           box == Crates!Opened(s1[t])
<1>1. s2 # <<>> /\ s2' = Tail(s2) /\ UNCHANGED <<s4, s5, s8, s6, s9, s7, s10, s11, s12, s13>>
  BY DEF Crates!CoordinatorOpens, Crates!terminalPage
<1>2. t \in Terminals /\ s2' \in Seq(Terminals)
  BY <1>1 DEF Crates!TerminalInv, Crates!BoxesTyped
<1>3. Crates!PageTyped'
  BY <1>1 DEF Crates!TerminalInv, Crates!PageTyped
<1>4. CASE UNCHANGED <<s1, s3>>
  BY <1>1, <1>2, <1>3, <1>4 DEF Crates!TerminalInv, Crates!BoxesTyped, Crates!OpenForGood
<1>5. CASE s1[t].used <= MaxPicks /\ s1' = [s1 EXCEPT ![t] = box] /\ s3' = s3 \o Crates!Events(t, s1[t], box)
  <2>1. s1[t] \in Crates!Box
    BY <1>2 DEF Crates!TerminalInv, Crates!BoxesTyped
  <2>2. box \in Crates!Box /\ Crates!IsOpen(box) /\ [box EXCEPT !.offer = 0] \in Crates!Box /\ Crates!IsOpen([box EXCEPT !.offer = 0])
    BY <1>5, <2>1, OpeningOpens
  <2> DEFINE told == Crates!Events(t, s1[t], box)
             E == [of : Terminals, box : Crates!Box]
  <2> HIDE DEF box
  <2>3. told \in Seq(E) /\ \A i \in 1..Len(told) : told[i].of = t /\ Crates!IsOpen(told[i].box)
    <3>1. [of |-> t, box |-> box] \in E /\ [of |-> t, box |-> [box EXCEPT !.offer = 0]] \in E
      BY <1>2, <2>2
    <3> DEFINE e == [of |-> t, box |-> box]
               d == [of |-> t, box |-> [box EXCEPT !.offer = 0]]
    <3>2. e.of = t /\ d.of = t /\ Crates!IsOpen(e.box) /\ Crates!IsOpen(d.box)
      BY <2>2
    <3>3. told = (IF s1[t].offer = 0 THEN <<>> ELSE <<d>>) \o <<e>>
      BY DEF Crates!Events
    <3> DEFINE G == {x \in E : x.of = t /\ Crates!IsOpen(x.box)}
    <3>4. e \in E /\ d \in E
      BY <3>1
    <3> HIDE DEF e, d, told, E
    <3>5. e \in G /\ d \in G
      BY <3>2, <3>4
    <3> HIDE DEF G
    <3>6. told \in Seq(G)
      BY <3>3, <3>5
    <3>7. told \in Seq(E) /\ \A i \in 1..Len(told) : told[i] \in G
      BY <3>6, SeqMonotonic, ElementOfSeq DEF G
    <3> QED BY <3>7 DEF G
  <2> HIDE DEF told, E
  <2>4. s3 \in Seq(E) /\ s3' = s3 \o told
    BY <1>5 DEF Crates!TerminalInv, Crates!BoxesTyped, E, told
  <2>5. s3' \in Seq(E) /\ \A i \in 1..Len(s3') : (i <= Len(s3) /\ s3'[i] = s3[i]) \/ \E j \in 1..Len(told) : s3'[i] = told[j]
    <3>1. s3' \in Seq(E) /\ Len(s3') = Len(s3) + Len(told) /\ Len(s3) \in Nat /\ Len(told) \in Nat
      BY <2>3, <2>4
    <3>2. ASSUME NEW i \in 1..Len(s3'), i > Len(s3) PROVE s3'[i] = told[i - Len(s3)] /\ i - Len(s3) \in 1..Len(told)
      BY <2>3, <2>4, <3>1, <3>2
    <3>3. ASSUME NEW i \in 1..Len(s3'), i <= Len(s3) PROVE s3'[i] = s3[i]
      BY <2>3, <2>4, <3>1, <3>3
    <3> QED BY <3>1, <3>2, <3>3
  <2>6. s1' \in [Terminals -> Crates!Box] /\ s1'[t] = box /\ \A x \in Terminals : Crates!IsOpen(s1[x]) => Crates!IsOpen(s1'[x])
    BY <1>2, <1>5, <2>2 DEF Crates!TerminalInv, Crates!BoxesTyped
  <2>7. Crates!BoxesTyped'
    BY <1>1, <1>2, <2>5, <2>6 DEF Crates!TerminalInv, Crates!BoxesTyped, E
  <2>8. ASSUME NEW i \in 1..Len(s3') PROVE Crates!IsOpen(s3'[i].box) /\ Crates!IsOpen(s1'[s3'[i].of])
    <3>1. CASE i <= Len(s3) /\ s3'[i] = s3[i]
      <4>1. i \in 1..Len(s3)
        BY <2>4, <3>1
      <4>2. s3[i] \in E
        BY <2>4, <4>1, ElementOfSeq
      <4>3. s3[i].of \in Terminals
        BY <4>2 DEF E
      <4> QED BY <2>6, <3>1, <4>1, <4>3 DEF Crates!TerminalInv, Crates!OpenForGood
    <3>2. ASSUME NEW j \in 1..Len(told), s3'[i] = told[j] PROVE Crates!IsOpen(s3'[i].box) /\ Crates!IsOpen(s1'[s3'[i].of])
      BY <2>2, <2>3, <2>6, <3>2
    <3> QED BY <2>5, <3>1, <3>2
  <2>9. Crates!OpenForGood'
    BY <1>1, <2>6, <2>8 DEF Crates!TerminalInv, Crates!OpenForGood
  <2> QED BY <1>3, <2>7, <2>9 DEF Crates!TerminalInv
<1>6. s1[t].used \in Nat
  BY <1>2, TerminalNumbers DEF Crates!TerminalInv, Crates!BoxesTyped, Crates!Box
<1> QED BY <1>4, <1>5, <1>6, TerminalNumbers DEF Crates!CoordinatorOpens

LEMMA NewsKeeps == ASSUME Crates!TerminalInv, Crates!NewsArrive PROVE Crates!TerminalInv'
<1> DEFINE e == Head(s3)
           E == [of : Terminals, box : Crates!Box]
<1>1. /\ s3 # <<>> /\ s3' = Tail(s3) /\ s4' = [s4 EXCEPT ![e.of] = e.box] /\ s5' = Crates!Captured(e)
      /\ s8' = {[p EXCEPT !.hit = TRUE] : p \in s8}
      /\ UNCHANGED <<s1, s2, s6, s9, s7, s10, s11, s12, s13>>
  BY DEF Crates!NewsArrive, Crates!terminalPage
<1>2. s3 \in Seq(E)
  BY DEF Crates!TerminalInv, Crates!BoxesTyped
<1> HIDE DEF E
<1>3. e \in E /\ s3' \in Seq(E) /\ Len(s3') = Len(s3) - 1 /\ Len(s3) \in Nat /\ \A i \in 1..Len(s3') : s3'[i] = s3[i + 1] /\ i + 1 \in 1..Len(s3)
  BY <1>1, <1>2
<1>4. e.of \in Terminals /\ e.box \in Crates!Box /\ Crates!IsOpen(e.box) /\ Crates!IsOpen(s1[e.of])
  <2>1. e.of \in Terminals /\ e.box \in Crates!Box
    BY <1>3 DEF E
  <2>2. 1 \in 1..Len(s3) /\ e = s3[1]
    BY <1>1, <1>2
  <2> QED BY <2>1, <2>2 DEF Crates!TerminalInv, Crates!OpenForGood
<1> HIDE DEF e
<1>5. s4' \in [Terminals -> Crates!Box] /\ s4'[e.of] = e.box /\ \A t \in Terminals \ {e.of} : s4'[t] = s4[t]
  BY <1>1, <1>4 DEF Crates!TerminalInv, Crates!BoxesTyped
<1>6. s5' \in [Terminals -> Seq(1..MaxPicks)]
  <2>1. s5 \in [Terminals -> Seq(1..MaxPicks)] /\ s5[e.of] \in Seq(1..MaxPicks)
    BY <1>4 DEF Crates!TerminalInv, Crates!BoxesTyped
  <2>2. CASE s5' = s5
    BY <2>1, <2>2
  <2>3. CASE e.box.offer # 0 /\ s5' = [s5 EXCEPT ![e.of] = Append(@, e.box.offer)]
    <3>1. e.box.offer \in 1..MaxPicks
      BY <1>4, <2>3, TerminalNumbers DEF Crates!Box
    <3>2. Append(s5[e.of], e.box.offer) \in Seq(1..MaxPicks)
      BY <2>1, <3>1, AppendProperties
    <3> QED BY <2>1, <2>3, <3>2
  <2> QED BY <1>1, <2>2, <2>3 DEF Crates!Captured
<1>7. s8' \subseteq [of : Terminals, left : 0..ProbeCandidates, hit : BOOLEAN]
  BY <1>1 DEF Crates!TerminalInv, Crates!BoxesTyped
<1>8. Crates!BoxesTyped' /\ Crates!PageTyped'
  BY <1>1, <1>3, <1>5, <1>6, <1>7 DEF Crates!TerminalInv, Crates!BoxesTyped, Crates!PageTyped, E
<1>9. \A i \in 1..Len(s3') : Crates!IsOpen(s3'[i].box) /\ Crates!IsOpen(s1'[s3'[i].of])
  BY <1>1, <1>3 DEF Crates!TerminalInv, Crates!OpenForGood
<1>10. \A t \in Terminals : Crates!IsOpen(s4[t]) => Crates!IsOpen(s4'[t])
  BY <1>4, <1>5
<1>11. \A t \in Terminals : Crates!IsOpen(s4'[t]) => Crates!IsOpen(s1'[t])
  BY <1>1, <1>4, <1>5 DEF Crates!TerminalInv, Crates!OpenForGood
<1>12. Crates!OpenForGood'
  BY <1>1, <1>9, <1>10, <1>11 DEF Crates!TerminalInv, Crates!OpenForGood
<1> QED BY <1>8, <1>12 DEF Crates!TerminalInv

\* What the page shows, while the inventory stays.
LEMMA PageKeeps ==
  ASSUME Crates!TerminalInv, Crates!PageTyped', UNCHANGED <<s1, s3, s4, s5, s9>>,
         s2' \in Seq(Terminals), s6' \in Seq(Terminals),
         s8' \subseteq [of : Terminals, left : 0..ProbeCandidates, hit : BOOLEAN],
         \A t \in Terminals : s12'[t].sealed = s12[t].sealed, UNCHANGED <<s10, s11>>
  PROVE  Crates!TerminalInv'
  BY DEF Crates!TerminalInv, Crates!BoxesTyped, Crates!OpenForGood

LEMMA AdvanceEndsKeeps == ASSUME Crates!TerminalInv, Crates!AdvanceEnds PROVE Crates!TerminalInv'
<1> DEFINE t == Head(s6)
<1>1. s6 # <<>> /\ s6' = Tail(s6) /\ s13' = None /\ UNCHANGED <<s1, s2, s3, s4, s5, s8, s7, s10, s11>>
  BY DEF Crates!AdvanceEnds, Crates!terminalGame
<1>2. t \in Terminals /\ s6' \in Seq(Terminals)
  BY <1>1 DEF Crates!TerminalInv, Crates!BoxesTyped
<1>3. CASE UNCHANGED <<s9, s12>>
  <2>1. Crates!PageTyped'
    BY <1>1, <1>3 DEF Crates!TerminalInv, Crates!PageTyped
  <2>2. Crates!BoxesTyped'
    BY <1>1, <1>2, <1>3 DEF Crates!TerminalInv, Crates!BoxesTyped
  <2>3. Crates!OpenForGood'
    BY <1>1, <1>3 DEF Crates!TerminalInv, Crates!OpenForGood
  <2> QED BY <2>1, <2>2, <2>3 DEF Crates!TerminalInv
<1>4. CASE Crates!Offers(t) # <<>> /\ s9' = [s9 EXCEPT ![t] = Crates!Appended(@, Head(Crates!Offers(t)))] /\ s12' = [s12 EXCEPT ![t].offer = Head(Crates!Offers(t))]
  <2>1. s4[t].offer \in 0..MaxPicks /\ s5[t] \in Seq(1..MaxPicks) /\ s9[t] \in Seq(1..MaxPicks)
    BY <1>2 DEF Crates!TerminalInv, Crates!BoxesTyped, Crates!Box
  <2>2. Head(Crates!Offers(t)) \in 1..MaxPicks
    <3>1. CASE s4[t].offer # 0
      <4>1. s4[t].offer \in 1..MaxPicks /\ Crates!Offers(t) = <<s4[t].offer>>
        BY <2>1, <3>1, TerminalNumbers DEF Crates!Offers
      <4> QED BY <4>1
    <3>2. CASE s4[t].offer = 0
      <4>1. Crates!Offers(t) = s5[t]
        BY <3>2 DEF Crates!Offers
      <4> QED BY <1>4, <2>1, <4>1, HeadTailProperties
    <3> QED BY <3>1, <3>2
  <2> HIDE DEF t
  <2>3. Crates!Appended(s9[t], Head(Crates!Offers(t))) \in Seq(1..MaxPicks)
    BY <2>1, <2>2, AppendProperties DEF Crates!Appended
  <2>4. s9' \in [Terminals -> Seq(1..MaxPicks)]
    BY <1>2, <1>4, <2>3 DEF Crates!TerminalInv, Crates!BoxesTyped
  <2>5. s12 \in [Terminals -> Crates!Shown] /\ Head(Crates!Offers(t)) \in 0..MaxPicks
    BY <2>2, TerminalNumbers DEF Crates!TerminalInv, Crates!PageTyped
  <2>6. s12' \in [Terminals -> Crates!Shown] /\ \A x \in Terminals : s12'[x].sealed = s12[x].sealed
    BY <1>2, <1>4, <2>5 DEF Crates!Shown
  <2>7. Crates!BoxesTyped' /\ Crates!PageTyped'
    BY <1>1, <1>2, <2>4, <2>6 DEF Crates!TerminalInv, Crates!BoxesTyped, Crates!PageTyped
  <2>8. Crates!OpenForGood'
    BY <1>1, <2>6 DEF Crates!TerminalInv, Crates!OpenForGood
  <2> QED BY <2>7, <2>8 DEF Crates!TerminalInv
<1> QED BY <1>3, <1>4 DEF Crates!AdvanceEnds

LEMMA ProbesKeep ==
  ASSUME Crates!TerminalInv, (\E p \in s8 : Crates!ProbeStep(p)) \/ \E t \in Terminals : Crates!ProbeBegins(t)
  PROVE  Crates!TerminalInv'
<1> DEFINE Probe == [of : Terminals, left : 0..ProbeCandidates, hit : BOOLEAN]
<1>1. UNCHANGED <<s1, s3, s4, s5, s6, s9, s7, s10, s11, s12, s13>>
  BY DEF Crates!ProbeStep, Crates!ProbeBegins, Crates!terminalGame, Crates!terminalPage
<1>2. s8' \subseteq Probe /\ s2' \in Seq(Terminals)
  <2>1. s8 \subseteq Probe /\ s2 \in Seq(Terminals)
    BY DEF Crates!TerminalInv, Crates!BoxesTyped
  <2>2. ASSUME NEW t \in Terminals, Crates!ProbeBegins(t) PROVE s8' \subseteq Probe /\ s2' \in Seq(Terminals)
    <3>1. ProbeCandidates \in 0..ProbeCandidates
      BY TerminalNumbers
    <3>2. s8' = s8 \cup {[of |-> t, left |-> ProbeCandidates, hit |-> FALSE]} /\ s2' = s2
      BY <2>2 DEF Crates!ProbeBegins, Crates!terminalGame
    <3>3. [of |-> t, left |-> ProbeCandidates, hit |-> FALSE] \in Probe
      BY <3>1
    <3> HIDE DEF Probe
    <3> QED BY <2>1, <3>2, <3>3
  <2>3. ASSUME NEW p \in s8, Crates!ProbeStep(p) PROVE s8' \subseteq Probe /\ s2' \in Seq(Terminals)
    <3>1. p \in Probe /\ Append(s2, p.of) \in Seq(Terminals)
      BY <2>1, AppendProperties
    <3>2. CASE p.left # 0
      <4>1. p.left - 1 \in 0..ProbeCandidates
        BY <3>1, <3>2, TerminalNumbers
      <4>2. [p EXCEPT !.left = @ - 1] \in Probe
        BY <3>1, <4>1
      <4> HIDE DEF Probe
      <4>3. \/ s8' = s8 \ {p} /\ s2' = s2
            \/ s8' = (s8 \ {p}) \cup {[p EXCEPT !.left = @ - 1]} /\ s2' \in {s2, Append(s2, p.of)}
        BY <2>3 DEF Crates!ProbeStep
      <4>4. s8' \subseteq Probe
        BY <2>1, <4>2, <4>3
      <4>5. s2' \in Seq(Terminals)
        BY <2>1, <3>1, <4>3
      <4> QED BY <4>4, <4>5
    <3>3. CASE p.left = 0
      <4>1. s8' = s8 \ {p} /\ s2' = s2
        BY <2>3, <3>3 DEF Crates!ProbeStep
      <4> QED BY <2>1, <4>1
    <3> QED BY <3>2, <3>3
  <2> QED BY <2>2, <2>3
<1>3. Crates!PageTyped'
  BY <1>1 DEF Crates!TerminalInv, Crates!PageTyped
<1>4. Crates!BoxesTyped'
  BY <1>1, <1>2 DEF Crates!TerminalInv, Crates!BoxesTyped
<1>5. Crates!OpenForGood'
  BY <1>1 DEF Crates!TerminalInv, Crates!OpenForGood
<1> QED BY <1>3, <1>4, <1>5 DEF Crates!TerminalInv

LEMMA TerminalRestartKeeps == ASSUME Crates!TerminalInv, Crates!TerminalRestart PROVE Crates!TerminalInv'
<1>1. Crates!BoxesTyped'
  BY DEF Crates!TerminalInv, Crates!BoxesTyped, Crates!TerminalRestart
<1>2. Crates!PageTyped'
  BY DEF Crates!TerminalInv, Crates!PageTyped, Crates!TerminalRestart
<1>3. Crates!OpenForGood'
  BY DEF Crates!TerminalInv, Crates!OpenForGood, Crates!TerminalRestart
<1> QED BY <1>1, <1>2, <1>3 DEF Crates!TerminalInv

\* A new request is the latest, and nothing is found for it yet.
LEMMA AnotherLoad ==
  ASSUME Crates!TerminalInv, s11' = s11 + 1, s10' = s10 \cup {[version |-> s11 + 1, found |-> {}]},
         UNCHANGED <<s1, s3, s4, s12>>
  PROVE  Crates!OpenForGood' /\ s10' \subseteq Crates!Load /\ s11' \in Nat /\ \A l \in s10' : l.version \in 1..s11'
<1> DEFINE new == [version |-> s11 + 1, found |-> {}]
<1>1. s11 \in Nat /\ s10 \subseteq Crates!Load /\ \A l \in s10 : l.version \in 1..s11
  BY DEF Crates!TerminalInv, Crates!PageTyped
<1>2. s11' \in Nat /\ s11' = s11 + 1 /\ new \in Crates!Load /\ new.version = s11 + 1 /\ new.found = {}
  BY <1>1 DEF Crates!Load
<1>3. s10' = s10 \cup {new}
  OBVIOUS
<1> HIDE DEF new
<1>4. \A l \in s10 : l.version # s11' /\ l.version \in 1..s11'
  BY <1>1, <1>2
<1>5. s10' \subseteq Crates!Load /\ \A l \in s10' : l.version \in 1..s11'
  BY <1>1, <1>2, <1>3, <1>4
<1>6. \A l \in s10' : \A k \in s10' : l.version = k.version => l = k
  BY <1>2, <1>3, <1>4 DEF Crates!TerminalInv, Crates!OpenForGood
<1>7. \A l \in s10' : l.version = s11' => l = new
  BY <1>2, <1>3, <1>4
<1>8. Crates!OpenForGood'
  BY <1>2, <1>3, <1>6, <1>7 DEF Crates!TerminalInv, Crates!OpenForGood
<1> QED BY <1>2, <1>5, <1>8

LEMMA LoadsKeep ==
  ASSUME Crates!TerminalInv, Crates!LoadTerminals \/ Crates!UnsealEnds
  PROVE  Crates!TerminalInv'
<1>1. UNCHANGED <<s1, s2, s3, s4, s5, s8, s6, s9, s12>>
  BY DEF Crates!LoadTerminals, Crates!UnsealEnds, Crates!terminalGame
<1>2. Crates!BoxesTyped'
  BY <1>1 DEF Crates!TerminalInv, Crates!BoxesTyped
<1>3. s7' \in Nat /\ s13' \in Terminals \cup {None}
  BY DEF Crates!TerminalInv, Crates!PageTyped, Crates!LoadTerminals, Crates!UnsealEnds
<1>4. CASE s11' = s11 + 1 /\ s10' = s10 \cup {[version |-> s11 + 1, found |-> {}]}
  BY <1>1, <1>2, <1>3, <1>4, AnotherLoad DEF Crates!TerminalInv, Crates!PageTyped
<1>5. CASE UNCHANGED <<s11, s10>>
  BY <1>1, <1>2, <1>3, <1>5 DEF Crates!TerminalInv, Crates!PageTyped, Crates!OpenForGood
<1> QED BY <1>4, <1>5 DEF Crates!LoadTerminals, Crates!UnsealEnds

LEMMA TakenKeeps == ASSUME Crates!TerminalInv, NEW l \in s10, Crates!StateIsTaken(l) PROVE Crates!TerminalInv'
<1> DEFINE k == [l EXCEPT !.found = {Crates!State}]
<1>1. /\ l.found = {} /\ s10' = (s10 \ {l}) \cup {k}
      /\ UNCHANGED <<s1, s2, s3, s4, s5, s8, s6, s9, s7, s11, s12, s13>>
  BY DEF Crates!StateIsTaken, Crates!terminalGame
<1>2. Crates!State \in [Terminals -> Crates!Shown]
  BY StateTyped DEF Crates!TerminalInv
<1>3. k \in Crates!Load /\ k.version = l.version /\ k.found = {Crates!State}
  BY <1>2 DEF Crates!TerminalInv, Crates!PageTyped, Crates!Load
<1> HIDE DEF k
<1>4. Crates!BoxesTyped' /\ Crates!PageTyped'
  BY <1>1, <1>3 DEF Crates!TerminalInv, Crates!BoxesTyped, Crates!PageTyped
<1>5. Crates!OpenForGood'
  <2>1. \A x \in s10' : \A y \in s10' : x.version = y.version => x = y
    BY <1>1, <1>3 DEF Crates!TerminalInv, Crates!OpenForGood
  <2>2. \A t \in Terminals : ~Crates!State[t].sealed <=> Crates!IsOpen(s4[t])
    BY StateSeals
  <2>3. \A x \in s10' : x.version = s11' => \A st \in x.found : \A t \in Terminals : ~s12'[t].sealed => ~st[t].sealed
    <3> SUFFICES ASSUME NEW x \in s10', x.version = s11, NEW st \in x.found, NEW t \in Terminals, ~s12[t].sealed
                 PROVE  ~st[t].sealed
      BY <1>1
    <3>1. CASE x = k
      BY <1>3, <2>2, <3>1 DEF Crates!TerminalInv, Crates!OpenForGood
    <3>2. CASE x \in s10
      BY <3>2 DEF Crates!TerminalInv, Crates!OpenForGood
    <3> QED BY <1>1, <3>1, <3>2
  <2>4. \A x \in s10' : \A st \in x.found : \A t \in Terminals : ~st[t].sealed => Crates!IsOpen(s4'[t])
    <3> SUFFICES ASSUME NEW x \in s10', NEW st \in x.found, NEW t \in Terminals, ~st[t].sealed PROVE Crates!IsOpen(s4[t])
      BY <1>1
    <3>1. CASE x = k
      BY <1>3, <2>2, <3>1
    <3>2. CASE x \in s10
      BY <3>2 DEF Crates!TerminalInv, Crates!OpenForGood
    <3> QED BY <1>1, <3>1, <3>2
  <2> QED BY <1>1, <2>1, <2>3, <2>4 DEF Crates!TerminalInv, Crates!OpenForGood
<1> QED BY <1>4, <1>5 DEF Crates!TerminalInv

LEMMA ReplyKeeps == ASSUME Crates!TerminalInv, NEW l \in s10, Crates!LoadReply(l) PROVE Crates!TerminalInv'
<1>1. /\ s10' = s10 \ {l} /\ (s12' = s12 \/ (l.version = s11 /\ s12' \in l.found))
      /\ UNCHANGED <<s1, s2, s3, s4, s5, s8, s6, s9, s7, s11, s13>>
  BY DEF Crates!LoadReply, Crates!IsLatest, Crates!terminalGame
<1>2. l \in Crates!Load /\ s12' \in [Terminals -> Crates!Shown]
  BY <1>1 DEF Crates!TerminalInv, Crates!PageTyped, Crates!Load
<1>3. Crates!BoxesTyped' /\ Crates!PageTyped'
  BY <1>1, <1>2 DEF Crates!TerminalInv, Crates!BoxesTyped, Crates!PageTyped
<1>4. CASE s12' = s12
  BY <1>1, <1>3, <1>4 DEF Crates!TerminalInv, Crates!OpenForGood
<1>5. CASE l.version = s11 /\ s12' \in l.found
  <2>1. \A k \in s10' : k.version # s11'
    BY <1>1, <1>5 DEF Crates!TerminalInv, Crates!OpenForGood
  <2>2. Crates!OpenForGood'
    BY <1>1, <1>5, <2>1 DEF Crates!TerminalInv, Crates!OpenForGood
  <2> QED BY <1>3, <2>2 DEF Crates!TerminalInv
<1> QED BY <1>1, <1>4, <1>5

LEMMA TerminalClicksKeep == ASSUME Crates!TerminalInv, NEW t \in Terminals, Crates!Unseal(t) \/ Crates!AdvanceClicked(t) PROVE Crates!TerminalInv'
<1>1. UNCHANGED <<s1, s3, s4, s5, s8, s9, s10, s11, s12>>
  BY DEF Crates!Unseal, Crates!AdvanceClicked
<1>2. s2 \in Seq(Terminals) /\ s6 \in Seq(Terminals) /\ s7 \in Nat /\ s13 \in Terminals \cup {None}
  BY DEF Crates!TerminalInv, Crates!BoxesTyped, Crates!PageTyped
<1>3. s2' \in Seq(Terminals) /\ s6' \in Seq(Terminals)
  <2>1. Append(s2, t) \in Seq(Terminals) /\ Append(s6, t) \in Seq(Terminals)
    BY <1>2, AppendProperties
  <2>2. s2' \in {s2, Append(s2, t)} /\ s6' \in {s6, Append(s6, t)}
    BY DEF Crates!Unseal, Crates!AdvanceClicked, Crates!Advance
  <2> QED BY <1>2, <2>1, <2>2
<1>4. s7' \in Nat /\ s13' \in Terminals \cup {None}
  BY <1>2 DEF Crates!Unseal, Crates!AdvanceClicked, Crates!Advance
<1>5. Crates!BoxesTyped'
  BY <1>1, <1>3 DEF Crates!TerminalInv, Crates!BoxesTyped
<1>6. Crates!PageTyped'
  BY <1>1, <1>4 DEF Crates!TerminalInv, Crates!PageTyped
<1>7. Crates!OpenForGood'
  BY <1>1 DEF Crates!TerminalInv, Crates!OpenForGood
<1> QED BY <1>5, <1>6, <1>7 DEF Crates!TerminalInv

LEMMA TerminalStep == Crates!TerminalInv /\ [Crates!TerminalNext]_Crates!terminalVars => Crates!TerminalInv'
<1> SUFFICES ASSUME Crates!TerminalInv, [Crates!TerminalNext]_Crates!terminalVars PROVE Crates!TerminalInv'
  OBVIOUS
<1>1. CASE UNCHANGED Crates!terminalVars
  BY <1>1 DEF Crates!TerminalInv, Crates!BoxesTyped, Crates!PageTyped, Crates!OpenForGood, Crates!terminalVars, Crates!terminalPage, Crates!terminalGame
<1>2. CASE Crates!TerminalNext
  BY <1>2, CoordinatorKeeps, NewsKeeps, AdvanceEndsKeeps, TerminalRestartKeeps, LoadsKeep, TakenKeeps, ReplyKeeps,
     ProbesKeep, TerminalClicksKeep DEF Crates!TerminalNext
<1> QED BY <1>1, <1>2

\* What the page shows open it does not show sealed again.
LEMMA TerminalStays == Crates!TerminalInv /\ [Crates!TerminalNext]_Crates!terminalVars => Crates!StaysOpen
<1> SUFFICES ASSUME Crates!TerminalInv, [Crates!TerminalNext]_Crates!terminalVars, NEW t \in Terminals, ~s12[t].sealed PROVE ~s12'[t].sealed
  BY DEF Crates!StaysOpen
<1>1. CASE Crates!AdvanceEnds
  BY <1>1 DEF Crates!AdvanceEnds, Crates!TerminalInv, Crates!PageTyped, Crates!Shown
<1>2. ASSUME NEW l \in s10, Crates!LoadReply(l) PROVE ~s12'[t].sealed
  BY <1>2 DEF Crates!LoadReply, Crates!IsLatest, Crates!TerminalInv, Crates!OpenForGood
<1>3. CASE UNCHANGED s12
  BY <1>3
<1> QED BY <1>1, <1>2, <1>3 DEF Crates!TerminalNext, Crates!CoordinatorOpens, Crates!NewsArrive, Crates!TerminalRestart, Crates!LoadTerminals, Crates!UnsealEnds, Crates!StateIsTaken,
                                Crates!ProbeStep, Crates!ProbeBegins, Crates!Unseal, Crates!AdvanceClicked, Crates!terminalVars, Crates!terminalPage

LEMMA TerminalTypes == Crates!TerminalInv => Crates!TerminalTypeOK
<1> SUFFICES ASSUME Crates!TerminalInv PROVE Crates!TerminalTypeOK
  OBVIOUS
<1>1. \A b \in {s1, s4} : \A t \in Terminals :
        b[t].origin \in {"crate", "here", "trade"} /\ b[t].used \in 0..MaxPicks + 1 /\ b[t].offer \in 0..MaxPicks
  BY DEF Crates!TerminalInv, Crates!BoxesTyped, Crates!Box
<1>2. \A p \in s8 : p.of \in Terminals /\ p.left \in 0..ProbeCandidates
  BY DEF Crates!TerminalInv, Crates!BoxesTyped
<1> QED BY <1>1, <1>2 DEF Crates!TerminalInv, Crates!BoxesTyped, Crates!PageTyped, Crates!TerminalTypeOK, Crates!Shown

-----------------------------------------------------------------------------
(* The traffic through the proxies.                                        *)
Traffic == INSTANCE ProxyTraffic WITH
  Accounts <- Travellers, Proxies <- Ways, Refused <- NoWay, Limit <- LogonLimit,
  route <- s1, address <- s2, known <- s3, steamIds <- s4, fetchers <- s5, requests <- s6, clients <- s7, waiting <- s8,
  tickets <- s9, starts <- s10, moves <- s11, sent <- s12, begun <- s13, moved <- s14, outcast <- s15
ASSUME TrafficAssumed == Traffic!TrafficConstants

\* An instance has cardinalities of its own, which are those there are.
LEMMA TrafficSizes == \A S : Traffic!IsFiniteSet(S) = IsFiniteSet(S) /\ Traffic!Cardinality(S) = Cardinality(S)
  BY DEF Traffic!IsFiniteSet, IsFiniteSet, Traffic!Cardinality, Cardinality
LEMMA TrafficNone == Traffic!IsFiniteSet({}) /\ Traffic!Cardinality({}) = 0
  BY TrafficSizes, FS_EmptySet
LEMMA TrafficNumber == ASSUME NEW S, Traffic!IsFiniteSet(S) PROVE Traffic!Cardinality(S) \in Nat
  BY TrafficSizes, FS_CardinalityType
LEMMA TrafficAdd ==
  ASSUME NEW S, NEW x, Traffic!IsFiniteSet(S)
  PROVE  /\ Traffic!IsFiniteSet(S \cup {x})
         /\ Traffic!Cardinality(S \cup {x}) = IF x \in S THEN Traffic!Cardinality(S) ELSE Traffic!Cardinality(S) + 1
  BY TrafficSizes, FS_AddElement
LEMMA TrafficPart ==
  ASSUME NEW S, Traffic!IsFiniteSet(S), NEW T \in SUBSET S
  PROVE  Traffic!IsFiniteSet(T) /\ Traffic!Cardinality(T) <= Traffic!Cardinality(S)
  BY TrafficSizes, FS_Subset

LEMMA TrafficStarts == Traffic!TrafficInit => Traffic!TrafficInv
<1> SUFFICES ASSUME Traffic!TrafficInit PROVE Traffic!TrafficInv
  OBVIOUS
<1>1. Traffic!TrafficTyped
  BY TrafficNone DEF Traffic!TrafficInit, Traffic!TrafficTyped
<1>2. Traffic!ConnectionsOwn
  BY DEF Traffic!TrafficInit, Traffic!ConnectionsOwn
<1>3. Traffic!RoutesStand
  <2>1. Traffic!Cardinality({}) = 0 /\ LogonLimit \in Nat
    BY TrafficNone, TrafficAssumed DEF Traffic!TrafficConstants
  <2>2. \A p \in Ways : {s \in s10 : s.at = p} = {}
    BY DEF Traffic!TrafficInit
  <2>3. \A p \in Ways : Traffic!Cardinality({s \in s10 : s.at = p}) <= LogonLimit
    BY <2>1, <2>2
  <2>4. \A k \in Traffic!Keys : s1[k] # NoWay
    BY TrafficAssumed DEF Traffic!TrafficInit, Traffic!TrafficConstants
  <2>5. \A p \in Ways : s2[p] # 0
    BY DEF Traffic!TrafficInit
  <2>6. \A a \in Travellers : s7[a] \in {{}, {Traffic!ViaOf(a)}}
    BY DEF Traffic!TrafficInit
  <2>7. s8 = {} /\ s10 = {}
    BY DEF Traffic!TrafficInit
  <2> QED BY <2>3, <2>4, <2>5, <2>6, <2>7 DEF Traffic!RoutesStand
<1> QED BY <1>1, <1>2, <1>3 DEF Traffic!TrafficInv

\* One more logon that leaves by the proxy whose limiter let it go.
LEMMA OneMoreLogon ==
  ASSUME Traffic!TrafficTyped, Traffic!RoutesStand, NEW r, s10' = s10 \cup {r},
         UNCHANGED <<s1, s2, s14>>,
         \A a \in Travellers : s7'[a] \in {{}, {Traffic!ViaOf(a)}},
         \A w \in s8' : s7'[w.account] # {} /\ w.at = s1[w.account] /\ w.at \in Ways,
         r.via \in Ways => r.at = r.via,
         r.at \in Ways => Traffic!HasRoom(r.at)
  PROVE  Traffic!IsFiniteSet(s10') /\ Traffic!RoutesStand'
<1>1. Traffic!IsFiniteSet(s10')
  BY TrafficAdd DEF Traffic!TrafficTyped
<1>2. ASSUME NEW p \in Ways PROVE Traffic!Cardinality({s \in s10' : s.at = p}) <= LogonLimit
  <2> DEFINE those == {s \in s10 : s.at = p}
  <2>1. Traffic!IsFiniteSet(those) /\ Traffic!Cardinality(those) \in Nat /\ Traffic!Cardinality(those) <= LogonLimit /\ LogonLimit \in Nat
    BY TrafficPart, TrafficNumber, TrafficAssumed DEF Traffic!TrafficTyped, Traffic!RoutesStand, Traffic!TrafficConstants
  <2>2. CASE r.at = p
    <3>1. {s \in s10' : s.at = p} = those \cup {r}
      BY <2>2
    <3>2. Traffic!Cardinality(those) < LogonLimit
      BY <2>2 DEF Traffic!HasRoom, Traffic!RoutesStand
    <3>3. Traffic!Cardinality(those \cup {r}) = IF r \in those THEN Traffic!Cardinality(those) ELSE Traffic!Cardinality(those) + 1
      BY <2>1, TrafficAdd
    <3> HIDE DEF those
    <3>4. Traffic!Cardinality(those \cup {r}) <= LogonLimit
      <4>1. CASE r \in those
        BY <2>1, <3>3, <4>1
      <4>2. CASE r \notin those
        BY <2>1, <3>2, <3>3, <4>2
      <4> QED BY <4>1, <4>2
    <3> QED BY <3>1, <3>4
  <2>3. CASE r.at # p
    <3>1. {s \in s10' : s.at = p} = those
      BY <2>3
    <3> QED BY <2>1, <3>1
  <2> QED BY <2>2, <2>3
<1>3. \A a \in Travellers : Traffic!ViaOf(a)' = Traffic!ViaOf(a)
  BY DEF Traffic!ViaOf
<1> QED BY <1>1, <1>2, <1>3 DEF Traffic!RoutesStand

\* The way a logon takes is its client's.
LEMMA OneWay == ASSUME NEW v PROVE (CHOOSE u \in {v} : TRUE) = v
  OBVIOUS

LEMMA RerouteKeeps == ASSUME Traffic!TrafficInv, Traffic!Reroute PROVE Traffic!TrafficInv'
<1>1. s14' = TRUE /\ UNCHANGED <<s5, s6, s7, s10, s8, s12>>
  BY DEF Traffic!Reroute, Traffic!requestVars, Traffic!logonVars
<1>2. s1' \in [Traffic!Keys -> Ways \cup {Direct, NoWay}] /\ s2' \in [Ways -> Nat]
  BY DEF Traffic!Reroute, Traffic!TrafficInv, Traffic!TrafficTyped
<1>3. Traffic!TrafficTyped'
  BY <1>1, <1>2 DEF Traffic!TrafficInv, Traffic!TrafficTyped
<1>4. Traffic!ConnectionsOwn'
  BY <1>1 DEF Traffic!TrafficInv, Traffic!ConnectionsOwn
<1> QED BY <1>1, <1>3, <1>4 DEF Traffic!TrafficInv

LEMMA SendKeeps == ASSUME Traffic!TrafficInv, Traffic!Send PROVE Traffic!TrafficInv'
<1>1. PICK a \in Travellers, method \in {"GET", "POST"}, steam \in BOOLEAN :
        LET k == Traffic!KeyOf(a)
            conn == IF steam /\ s1[k] \in Ways THEN [key |-> k, proxy |-> s1[k], address |-> s2[s1[k]]] ELSE Traffic!ByDirect
        IN /\ steam => s1[k] # NoWay
           /\ s4' = IF steam /\ k = a THEN s4 \cup {a} ELSE s4
           /\ s5' = IF conn = Traffic!ByDirect THEN s5 ELSE Traffic!FetcherFor(conn)
           /\ s6' = s6 \cup {[no |-> s12', by |-> k, conn |-> conn, method |-> method, body |-> method = "POST", hop |-> 0]}
  BY Zenon DEF Traffic!Send
<1> DEFINE k == Traffic!KeyOf(a)
           conn == IF steam /\ s1[k] \in Ways THEN [key |-> k, proxy |-> s1[k], address |-> s2[s1[k]]] ELSE Traffic!ByDirect
           r == [no |-> s12', by |-> k, conn |-> conn, method |-> method, body |-> method = "POST", hop |-> 0]
<1>2. /\ s5' = IF conn = Traffic!ByDirect THEN s5 ELSE Traffic!FetcherFor(conn)
      /\ s6' = s6 \cup {r}
  BY <1>1
<1>3. k \in Traffic!Keys /\ s12' \in Nat /\ UNCHANGED <<s1, s2, s7, s8, s10, s14>>
  BY DEF Traffic!Send, Traffic!logonVars, Traffic!KeyOf, Traffic!Keys, Traffic!TrafficInv, Traffic!TrafficTyped
<1>4. conn \in Traffic!Connection /\ (conn # Traffic!ByDirect => conn.key = k)
  <2>1. Traffic!ByDirect \in Traffic!Connection
    BY DEF Traffic!ByDirect, Traffic!Connection, Traffic!Keys
  <2>2. CASE steam /\ s1[k] \in Ways
    <3>1. s2[s1[k]] \in Nat
      BY <2>2 DEF Traffic!TrafficInv, Traffic!TrafficTyped
    <3> QED BY <1>3, <2>2, <3>1 DEF Traffic!Connection
  <2> QED BY <2>1, <2>2
<1> HIDE DEF conn, k
<1>5. (method = "POST") \in BOOLEAN
  OBVIOUS
<1>6. r \in Traffic!Request /\ r.conn = conn /\ r.by = k /\ (r.body => r.method = "POST")
  BY <1>3, <1>4, <1>5 DEF Traffic!Request
<1> HIDE DEF r
<1>7. s5' \subseteq Traffic!Connection /\ \A f, g \in s5' : f.key = g.key => f = g
  BY <1>2, <1>4 DEF Traffic!FetcherFor, Traffic!TrafficInv, Traffic!TrafficTyped, Traffic!ConnectionsOwn
<1>8. Traffic!TrafficTyped'
  BY <1>2, <1>3, <1>6, <1>7 DEF Traffic!TrafficInv, Traffic!TrafficTyped
<1>9. Traffic!ConnectionsOwn'
  BY <1>2, <1>4, <1>6, <1>7 DEF Traffic!TrafficInv, Traffic!ConnectionsOwn, Traffic!ByDirect
<1>10. ASSUME ~s14' PROVE Traffic!RoutesStand'
  BY <1>3, <1>10 DEF Traffic!TrafficInv, Traffic!RoutesStand, Traffic!ViaOf
<1> QED BY <1>8, <1>9, <1>10 DEF Traffic!TrafficInv

LEMMA HopKeeps == ASSUME Traffic!TrafficInv, Traffic!HopAnswered PROVE Traffic!TrafficInv'
<1>1. UNCHANGED <<s1, s2, s7, s8, s10, s14, s12, s5>>
  BY DEF Traffic!HopAnswered, Traffic!logonVars
<1>2. PICK r \in s6 :
        \/ s6' = s6 \ {r}
        \/ \E status \in {302, 303, 307} : s6' = (s6 \ {r}) \cup {[Traffic!Redirected(r, status) EXCEPT !.hop = @ + 1]}
  BY DEF Traffic!HopAnswered
<1>3. ASSUME NEW status PROVE LET q == [Traffic!Redirected(r, status) EXCEPT !.hop = @ + 1]
                              IN q \in Traffic!Request /\ q.conn = r.conn /\ q.by = r.by /\ (q.body => q.method = "POST")
  <2>1. r \in Traffic!Request /\ (r.body => r.method = "POST")
    BY DEF Traffic!TrafficInv, Traffic!TrafficTyped, Traffic!ConnectionsOwn
  <2>2. Traffic!Redirected(r, status) \in Traffic!Request /\ Traffic!Redirected(r, status).conn = r.conn /\ Traffic!Redirected(r, status).by = r.by
        /\ (Traffic!Redirected(r, status).body => Traffic!Redirected(r, status).method = "POST")
    BY <2>1 DEF Traffic!Redirected, Traffic!Request
  <2> HIDE DEF Traffic!Redirected
  <2> QED BY <2>2 DEF Traffic!Request
<1>4. /\ s6' \subseteq Traffic!Request
      /\ \A q \in s6' : q \in s6 \/ (q.conn = r.conn /\ q.by = r.by /\ (q.body => q.method = "POST"))
  <2>1. s6 \subseteq Traffic!Request
    BY DEF Traffic!TrafficInv, Traffic!TrafficTyped
  <2>2. CASE s6' = s6 \ {r}
    BY <2>1, <2>2
  <2>3. ASSUME NEW status, s6' = (s6 \ {r}) \cup {[Traffic!Redirected(r, status) EXCEPT !.hop = @ + 1]}
        PROVE  /\ s6' \subseteq Traffic!Request
               /\ \A q \in s6' : q \in s6 \/ (q.conn = r.conn /\ q.by = r.by /\ (q.body => q.method = "POST"))
    <3> DEFINE q == [Traffic!Redirected(r, status) EXCEPT !.hop = @ + 1]
    <3>1. q \in Traffic!Request /\ q.conn = r.conn /\ q.by = r.by /\ (q.body => q.method = "POST")
      BY <1>3
    <3>2. s6' = (s6 \ {r}) \cup {q}
      BY <2>3
    <3> HIDE DEF q
    <3> QED BY <2>1, <3>1, <3>2
  <2> QED BY <1>2, <2>2, <2>3
<1>5. Traffic!ConnectionsOwn'
  BY <1>1, <1>4 DEF Traffic!TrafficInv, Traffic!ConnectionsOwn, Traffic!ByDirect
<1>6. Traffic!TrafficTyped' /\ (~s14' => Traffic!RoutesStand')
  BY <1>1, <1>4 DEF Traffic!TrafficInv, Traffic!TrafficTyped, Traffic!RoutesStand, Traffic!ViaOf
<1> QED BY <1>5, <1>6 DEF Traffic!TrafficInv

\* A logon that is allowed at once, or waits.
LEMMA AllowedKeeps ==
  ASSUME Traffic!TrafficInv, NEW a \in Travellers, Traffic!WhenLogonAllowed(a), s1[a] # NoWay,
         UNCHANGED <<s1, s2, s14, s5, s6, s12>>,
         ~s14 => s7'[a] = {Traffic!ViaOf(a)} /\ \A b \in Travellers \ {a} : s7'[b] = s7[b],
         DOMAIN s7' = Travellers
  PROVE  Traffic!TrafficInv'
<1> DEFINE p == s1[a]
           r == [no |-> s13', at |-> p, via |-> CHOOSE v \in s7'[a] : TRUE]
           w == [account |-> a, at |-> p, ticket |-> s9'[a], no |-> s13']
<1>1. \/ s10' = s10 \cup {r} /\ UNCHANGED s8 /\ (p \in Ways => Traffic!HasRoom(p))
      \/ s10' = s10 /\ s8' = s8 \cup {w} /\ p \in Ways
  BY DEF Traffic!WhenLogonAllowed, Traffic!LogsOn
<1>2. w.account = a /\ w.at = p /\ r.at = p
  OBVIOUS
<1>3. Traffic!ConnectionsOwn'
  BY DEF Traffic!TrafficInv, Traffic!ConnectionsOwn
<1>4. Traffic!IsFiniteSet(s10') /\ \A v \in s8' : v.account \in Travellers
  <2>1. Traffic!IsFiniteSet(s10) /\ \A v \in s8 : v.account \in Travellers
    BY DEF Traffic!TrafficInv, Traffic!TrafficTyped
  <2>2. Traffic!IsFiniteSet(s10 \cup {r})
    BY <2>1, TrafficAdd
  <2> HIDE DEF r, w
  <2> QED BY <1>1, <1>2, <2>1, <2>2
<1>5. Traffic!TrafficTyped'
  BY <1>4 DEF Traffic!TrafficInv, Traffic!TrafficTyped
<1>6. ASSUME ~s14 PROVE Traffic!RoutesStand'
  <2>1. Traffic!RoutesStand /\ s7'[a] = {Traffic!ViaOf(a)} /\ \A b \in Travellers : s7'[b] \in {{}, {Traffic!ViaOf(b)}}
    BY <1>6 DEF Traffic!TrafficInv, Traffic!RoutesStand
  <2>2. r.via = Traffic!ViaOf(a)
    BY <2>1, OneWay
  <2>3. r.via \in Ways => r.at = r.via
    BY <1>2, <2>2, TrafficAssumed DEF Traffic!ViaOf, Traffic!TrafficConstants
  <2>4. \A v \in s8 : s7'[v.account] # {} /\ v.at = s1[v.account] /\ v.at \in Ways
    BY <1>6, <2>1 DEF Traffic!RoutesStand, Traffic!TrafficInv, Traffic!TrafficTyped
  <2> HIDE DEF r, w
  <2>5. CASE s10' = s10 \cup {r} /\ UNCHANGED s8 /\ (p \in Ways => Traffic!HasRoom(p))
    BY <1>2, <1>6, <2>1, <2>3, <2>4, <2>5, OneMoreLogon DEF Traffic!TrafficInv
  <2>6. CASE s10' = s10 /\ s8' = s8 \cup {w} /\ p \in Ways
    BY <1>2, <1>6, <2>1, <2>4, <2>6 DEF Traffic!RoutesStand, Traffic!ViaOf
  <2> QED BY <1>1, <2>5, <2>6 DEF r, w
<1> QED BY <1>3, <1>5, <1>6 DEF Traffic!TrafficInv

LEMMA LogonKeeps == ASSUME Traffic!TrafficInv, Traffic!StartLogon \/ Traffic!RetryLogon PROVE Traffic!TrafficInv'
<1>1. UNCHANGED <<s1, s2, s14, s5, s6, s12>>
  BY DEF Traffic!StartLogon, Traffic!RetryLogon, Traffic!requestVars
<1>2. PICK a \in Travellers :
        /\ s1[a] # NoWay /\ Traffic!WhenLogonAllowed(a)
        /\ s7' = [s7 EXCEPT ![a] = {Traffic!ViaOf(a)}] \/ (s7[a] # {} /\ UNCHANGED s7)
  BY DEF Traffic!StartLogon, Traffic!RetryLogon
<1>3. DOMAIN s7 = Travellers /\ (~s14 => s7[a] \in {{}, {Traffic!ViaOf(a)}})
  BY DEF Traffic!TrafficInv, Traffic!TrafficTyped, Traffic!RoutesStand
<1>4. DOMAIN s7' = Travellers /\ (~s14 => s7'[a] = {Traffic!ViaOf(a)} /\ \A b \in Travellers \ {a} : s7'[b] = s7[b])
  BY <1>2, <1>3
<1> QED BY <1>1, <1>2, <1>4, AllowedKeeps

LEMMA GrantedKeeps == ASSUME Traffic!TrafficInv, Traffic!Granted PROVE Traffic!TrafficInv'
<1>1. UNCHANGED <<s1, s2, s14, s5, s6, s12, s7>>
  BY DEF Traffic!Granted, Traffic!requestVars
<1>2. PICK w \in s8 : Traffic!HasRoom(w.at) /\ s8' = s8 \ {w}
        /\ IF w.ticket # s9[w.account] THEN UNCHANGED <<s10, s15>>
           ELSE /\ s10' = s10 \cup {[no |-> w.no, at |-> w.at, via |-> CHOOSE v \in s7[w.account] : TRUE]}
                /\ s15' = (s15 \/ s1[w.account] = NoWay)
  BY Zenon DEF Traffic!Granted
<1> DEFINE r == [no |-> w.no, at |-> w.at, via |-> CHOOSE v \in s7[w.account] : TRUE]
<1>3. s10' = s10 \/ s10' = s10 \cup {r}
  BY <1>2
<1>4. Traffic!ConnectionsOwn'
  BY <1>1 DEF Traffic!TrafficInv, Traffic!ConnectionsOwn
<1>5. Traffic!IsFiniteSet(s10') /\ \A v \in s8' : v.account \in Travellers
  <2>1. Traffic!IsFiniteSet(s10) /\ \A v \in s8 : v.account \in Travellers
    BY DEF Traffic!TrafficInv, Traffic!TrafficTyped
  <2>2. Traffic!IsFiniteSet(s10 \cup {r})
    BY <2>1, TrafficAdd
  <2> HIDE DEF r
  <2>3. s8' \subseteq s8
    BY <1>2
  <2> QED BY <1>3, <2>1, <2>2, <2>3
<1>6. Traffic!TrafficTyped'
  BY <1>1, <1>5 DEF Traffic!TrafficInv, Traffic!TrafficTyped
<1>7. ASSUME ~s14 PROVE Traffic!RoutesStand'
  <2>1. Traffic!RoutesStand /\ w.account \in Travellers /\ s7[w.account] = {Traffic!ViaOf(w.account)} /\ w.at = Traffic!ViaOf(w.account)
    BY <1>7 DEF Traffic!TrafficInv, Traffic!TrafficTyped, Traffic!RoutesStand, Traffic!ViaOf
  <2>2. r.via = w.at /\ r.at = w.at
    BY <2>1, OneWay
  <2> HIDE DEF r
  <2>3. CASE s10' = s10
    BY <1>1, <1>2, <1>7, <2>1, <2>3 DEF Traffic!RoutesStand, Traffic!ViaOf
  <2>4. CASE s10' = s10 \cup {r}
    <3>1. \A a \in Travellers : s7'[a] \in {{}, {Traffic!ViaOf(a)}}
      BY <1>1, <2>1 DEF Traffic!RoutesStand
    <3>2. \A v \in s8' : s7'[v.account] # {} /\ v.at = s1[v.account] /\ v.at \in Ways
      BY <1>1, <1>2, <2>1 DEF Traffic!RoutesStand
    <3> QED BY <1>1, <1>2, <2>1, <2>2, <2>4, <3>1, <3>2, OneMoreLogon DEF Traffic!TrafficInv
  <2> QED BY <1>3, <2>3, <2>4 DEF r
<1> QED BY <1>1, <1>4, <1>6, <1>7 DEF Traffic!TrafficInv

LEMMA PassesKeeps == ASSUME Traffic!TrafficInv, Traffic!WindowPasses PROVE Traffic!TrafficInv'
<1>1. UNCHANGED <<s1, s2, s14, s5, s6, s12, s7, s8>>
  BY DEF Traffic!WindowPasses, Traffic!requestVars
<1>2. s10' \subseteq s10
  BY DEF Traffic!WindowPasses
<1>3. Traffic!IsFiniteSet(s10')
  BY <1>2, TrafficPart DEF Traffic!TrafficInv, Traffic!TrafficTyped
<1>4. Traffic!ConnectionsOwn' /\ Traffic!TrafficTyped'
  BY <1>1, <1>3 DEF Traffic!TrafficInv, Traffic!TrafficTyped, Traffic!ConnectionsOwn
<1>5. ASSUME ~s14 PROVE Traffic!RoutesStand'
  <2>1. ASSUME NEW p \in Ways PROVE Traffic!Cardinality({s \in s10' : s.at = p}) <= LogonLimit
    <3>1. Traffic!IsFiniteSet({s \in s10 : s.at = p}) /\ {s \in s10' : s.at = p} \in SUBSET {s \in s10 : s.at = p}
      BY <1>2, TrafficPart DEF Traffic!TrafficInv, Traffic!TrafficTyped
    <3>2. /\ Traffic!Cardinality({s \in s10' : s.at = p}) <= Traffic!Cardinality({s \in s10 : s.at = p})
          /\ Traffic!IsFiniteSet({s \in s10' : s.at = p})
      BY <3>1, TrafficPart
    <3>3. Traffic!Cardinality({s \in s10' : s.at = p}) \in Nat /\ Traffic!Cardinality({s \in s10 : s.at = p}) \in Nat /\ LogonLimit \in Nat
      BY <3>1, <3>2, TrafficNumber, TrafficAssumed DEF Traffic!TrafficConstants
    <3>4. Traffic!Cardinality({s \in s10 : s.at = p}) <= LogonLimit
      BY <1>5 DEF Traffic!TrafficInv, Traffic!RoutesStand
    <3> QED BY <3>2, <3>3, <3>4
  <2> QED BY <1>1, <1>2, <1>5, <2>1 DEF Traffic!TrafficInv, Traffic!RoutesStand, Traffic!ViaOf
<1> QED BY <1>1, <1>4, <1>5 DEF Traffic!TrafficInv

LEMMA TrafficStep == Traffic!TrafficInv /\ [Traffic!TrafficNext]_Traffic!trafficVars => Traffic!TrafficInv'
<1> SUFFICES ASSUME Traffic!TrafficInv, [Traffic!TrafficNext]_Traffic!trafficVars PROVE Traffic!TrafficInv'
  OBVIOUS
<1>1. CASE UNCHANGED <<s1, s2, Traffic!requestVars, Traffic!logonVars, s14>>
  BY <1>1 DEF Traffic!TrafficInv, Traffic!TrafficTyped, Traffic!ConnectionsOwn, Traffic!RoutesStand, Traffic!ViaOf, Traffic!requestVars, Traffic!logonVars
<1>2. CASE Traffic!AccountComesOrGoes \/ UNCHANGED Traffic!trafficVars
  BY <1>1, <1>2 DEF Traffic!AccountComesOrGoes, Traffic!trafficVars
<1> QED BY <1>2, RerouteKeeps, SendKeeps, HopKeeps, LogonKeeps, GrantedKeeps, PassesKeeps DEF Traffic!TrafficNext

\* The limits follow.
LEMMA TrafficHolds == Traffic!TrafficInv => Traffic!TrafficKept
<1> SUFFICES ASSUME Traffic!TrafficInv, ~s14, NEW p \in Ways PROVE Traffic!Cardinality({s \in s10 : s.via = p}) <= LogonLimit
  BY DEF Traffic!TrafficKept, Traffic!LimitsHold, Traffic!TrafficInv
<1>1. {s \in s10 : s.via = p} \in SUBSET {s \in s10 : s.at = p}
  BY DEF Traffic!TrafficInv, Traffic!RoutesStand
<1>2. Traffic!IsFiniteSet({s \in s10 : s.at = p})
  BY TrafficPart DEF Traffic!TrafficInv, Traffic!TrafficTyped
<1>3. Traffic!Cardinality({s \in s10 : s.via = p}) <= Traffic!Cardinality({s \in s10 : s.at = p}) /\ Traffic!IsFiniteSet({s \in s10 : s.via = p})
  BY <1>1, <1>2, TrafficPart
<1>4. Traffic!Cardinality({s \in s10 : s.via = p}) \in Nat /\ Traffic!Cardinality({s \in s10 : s.at = p}) \in Nat /\ LogonLimit \in Nat
  BY <1>2, <1>3, TrafficNumber, TrafficAssumed DEF Traffic!TrafficConstants
<1>5. Traffic!Cardinality({s \in s10 : s.at = p}) <= LogonLimit
  BY DEF Traffic!TrafficInv, Traffic!RoutesStand
<1> QED BY <1>3, <1>4, <1>5

-----------------------------------------------------------------------------
(* The automatic sale on UU.                                               *)
Sale == INSTANCE UuListing WITH
  Goods <- SaleGoods, Wear <- WearOf, Threshold <- PriceThreshold, MaxMoves <- SaleMoves,
  goods <- s1, market <- s2, cfg <- s3, account <- s4, listPass <- s5, cache <- s6, seen <- s7, moves <- s8
ASSUME SaleAssumed == Sale!ListingConstants

LEMMA SaleSizes == \A S : Sale!IsFiniteSet(S) = IsFiniteSet(S)
  BY DEF Sale!IsFiniteSet, IsFiniteSet
LEMMA SaleFinite == ASSUME NEW S, Sale!IsFiniteSet(S), NEW T \in SUBSET S PROVE Sale!IsFiniteSet(T)
  BY SaleSizes, FS_Subset
LEMMA SaleGreatest == ASSUME NEW S \in SUBSET Nat, Sale!IsFiniteSet(S), S # {} PROVE \E x \in S : \A y \in S : x >= y
  BY SaleSizes, GreatestOfSet

LEMMA ListingNumbers ==
  /\ Ranges \in Nat \ {0} /\ WearOf \in [SaleGoods -> 1..Ranges] /\ Allowed \subseteq SaleGoods
  /\ \A m \in Markets : m \in [1..Ranges -> SUBSET (Nat \ {0})] /\ Sale!IsFiniteSet(UNION {m[r] : r \in 1..Ranges})
  BY SaleAssumed DEF Sale!ListingConstants

LEMMA LeastPrice == ASSUME NEW S \in SUBSET (Nat \ {0}), S # {} PROVE Sale!Min(S) \in S
<1>1. \E x \in S : \A y \in S : x <= y
  BY LeastOfSet
<1> QED BY <1>1 DEF Sale!Min

LEMMA GreatestPrice == ASSUME NEW S \in SUBSET (Nat \ {0}), Sale!IsFiniteSet(S), S # {} PROVE Sale!Max(S) \in S
<1>1. \E x \in S : \A y \in S : x >= y
  BY SaleGreatest
<1> QED BY <1>1 DEF Sale!Max

\* The price that is found is one of those that are asked.
LEMMA PriceIsAsked ==
  ASSUME NEW prices \in SUBSET (Nat \ {0}), Sale!IsFiniteSet(prices), prices # {}
  PROVE  Sale!computePrice(prices) \in prices
<1>1. ASSUME NEW n PROVE Sale!Nth(prices, n) \in prices
  <2> DEFINE S == {p \in prices : Sale!Cardinality({q \in prices : q < p}) >= n - 1} \cup {Sale!Max(prices)}
  <2>1. S \subseteq prices /\ S # {}
    BY GreatestPrice
  <2> HIDE DEF S
  <2>2. Sale!Min(S) \in S
    BY <2>1, LeastPrice
  <2> QED BY <2>1, <2>2 DEF Sale!Nth, S
<1>2. Sale!Min(prices) \in prices
  BY LeastPrice
<1>3. Sale!computePrice(prices) \in {Sale!Min(prices), Sale!Nth(prices, 2), Sale!Nth(prices, 3)}
  BY DEF Sale!computePrice
<1> QED BY <1>1, <1>2, <1>3

LEMMA AskedPrices ==
  ASSUME NEW m \in Markets, NEW from \in 1..Ranges, NEW to \in 1..Ranges
  PROVE  /\ Sale!Asked(m, from, to) # {} => Sale!computePrice(Sale!Asked(m, from, to)) \in Nat \ {0}
         /\ Sale!Asked(m, from, to) = {} => Sale!computePrice(Sale!Asked(m, from, to)) = Sale!Nothing
<1> DEFINE prices == Sale!Asked(m, from, to)
<1>1. \A r \in from..to : r \in 1..Ranges
  BY ListingNumbers
<1>2a. prices \subseteq UNION {m[r] : r \in 1..Ranges}
  BY <1>1 DEF Sale!Asked
<1>2b. UNION {m[r] : r \in 1..Ranges} \subseteq Nat \ {0}
  <2>1. m \in [1..Ranges -> SUBSET (Nat \ {0})]
    BY ListingNumbers
  <2>2. \A r \in 1..Ranges : m[r] \in SUBSET (Nat \ {0})
    BY <2>1
  <2> QED BY <2>2, Zenon
<1>2. prices \subseteq UNION {m[r] : r \in 1..Ranges} /\ prices \subseteq Nat \ {0}
  BY <1>2a, <1>2b
<1>3. Sale!IsFiniteSet(prices)
  BY <1>2, ListingNumbers, SaleFinite
<1> HIDE DEF prices
<1>4. prices # {} => Sale!computePrice(prices) \in prices
  BY <1>2, <1>3, PriceIsAsked
<1>5. prices = {} => Sale!computePrice(prices) = Sale!Nothing
  BY DEF Sale!computePrice
<1> QED BY <1>2, <1>4, <1>5 DEF prices

\* What is fair and what was not asked stay so while the pass sees more of the market.
LEMMA MoreIsSeen ==
  ASSUME s7 \subseteq s7'
  PROVE  /\ \A g, price : Sale!FairPrice(g, price) => Sale!FairPrice(g, price)'
         /\ \A g, end : Sale!NothingBelow(g, end) => Sale!NothingBelow(g, end)'
<1>1. ASSUME NEW g, NEW price, Sale!FairPrice(g, price) PROVE Sale!FairPrice(g, price)'
  <2>1. PICK to \in WearOf[g]..Ranges :
          /\ \E m \in s7 : price = Sale!computePrice(Sale!Asked(m, WearOf[g], to))
          /\ \A less \in WearOf[g]..(to - 1) : \E m \in s7 : Sale!Asked(m, WearOf[g], less) = {}
    BY <1>1 DEF Sale!FairPrice
  <2>2. \E m \in s7' : price = Sale!computePrice(Sale!Asked(m, WearOf[g], to))
    BY <2>1
  <2>3. \A less \in WearOf[g]..(to - 1) : \E m \in s7' : Sale!Asked(m, WearOf[g], less) = {}
    BY <2>1
  <2> QED BY <2>2, <2>3 DEF Sale!FairPrice
<1>2. ASSUME NEW g, NEW end, Sale!NothingBelow(g, end) PROVE Sale!NothingBelow(g, end)'
  BY <1>2 DEF Sale!NothingBelow
<1> QED BY <1>1, <1>2

\* Nothing is picked or looked for yet, and what the cache holds stands.
LEMMA NothingPicked ==
  ASSUME Sale!ListingInv, s5' \in Sale!Passes, s5'.item = {}, s5'.picks = {}, s6' \subseteq s6, s7 \subseteq s7'
  PROVE  Sale!PricesStand'
<1>1. \A c \in s6' : \E m \in s7' : c.price = Sale!computePrice(Sale!Asked(m, c.span[1], c.span[2]))
  BY DEF Sale!ListingInv, Sale!PricesStand
<1> QED BY <1>1 DEF Sale!PricesStand

\* The picks, the item and the cache stay, or get fewer.
LEMMA FewerPicked ==
  ASSUME Sale!ListingInv, s5'.item = {} \/ (s5'.item = s5.item /\ s5'.to = s5.to),
         s5'.picks \subseteq s5.picks, s6' \subseteq s6, s7 \subseteq s7', s3' = s3
  PROVE  Sale!PricesStand'
<1>1. \A c \in s6' : \E m \in s7' : c.price = Sale!computePrice(Sale!Asked(m, c.span[1], c.span[2]))
  BY DEF Sale!ListingInv, Sale!PricesStand
<1>2. \A p \in s5'.picks : Sale!FairPrice(p.item, p.price)' /\ (s3'.cap = 0 \/ p.price <= s3'.cap)
  BY MoreIsSeen DEF Sale!ListingInv, Sale!PricesStand
<1>3. ASSUME NEW g \in s5'.item
      PROVE  /\ s5'.item = {g} /\ s5'.to \in WearOf[g]..Ranges + 1
             /\ \A less \in WearOf[g]..s5'.to - 1 : \E m \in s7' : Sale!Asked(m, WearOf[g], less) = {}
  <2>1. g \in s5.item /\ s5'.item = s5.item /\ s5'.to = s5.to
    OBVIOUS
  <2> QED BY <2>1 DEF Sale!ListingInv, Sale!PricesStand, Sale!NothingBelow
<1>4. \A g \in s5'.item : s5'.item = {g} /\ s5'.to \in WearOf[g]..Ranges + 1 /\ Sale!NothingBelow(g, s5.to)'
  BY <1>3 DEF Sale!NothingBelow
<1> QED BY <1>1, <1>2, <1>4 DEF Sale!PricesStand

LEMMA IdlePass == Sale!Idle \in Sale!Passes /\ Sale!Idle.item = {} /\ Sale!Idle.picks = {}
  BY DEF Sale!Idle, Sale!Passes

LEMMA ListingStarts == Sale!ListingInit => Sale!ListingInv
  BY IdlePass DEF Sale!ListingInit, Sale!ListingInv, Sale!ListingTyped, Sale!PricesStand

LEMMA RunKeeps == ASSUME Sale!ListingInv, Sale!ListScan \/ Sale!ListTick PROVE Sale!ListingInv'
<1>1. s5' = [Sale!Idle EXCEPT !.phase = "inventory"] /\ s6' = {} /\ s7' = {s2} /\ UNCHANGED <<s1, s2, s3>>
  BY DEF Sale!ListScan, Sale!ListTick, Sale!Run, Sale!Kept
<1>2. s5' \in Sale!Passes /\ s5'.item = {} /\ s5'.picks = {}
  BY <1>1 DEF Sale!Idle, Sale!Passes
<1>3. Sale!ListingTyped'
  BY <1>1, <1>2 DEF Sale!ListingInv, Sale!ListingTyped
<1>4. Sale!PricesStand'
  BY <1>1, <1>2 DEF Sale!PricesStand
<1> QED BY <1>3, <1>4 DEF Sale!ListingInv

LEMMA OtherStepsKeep ==
  ASSUME Sale!ListingInv, Sale!PassFails \/ Sale!CacheExpires \/ Sale!SetListAuto \/ Sale!BindsToken \/ Sale!DeletesToken \/ Sale!ListingRestart \/ Sale!MarketMoves \/ Sale!GoodsGo
  PROVE  Sale!ListingInv'
<1>1. s5' \in {s5, Sale!Idle} /\ s6' \subseteq s6 /\ s7 \subseteq s7' /\ s3' = s3
  BY DEF Sale!PassFails, Sale!CacheExpires, Sale!SetListAuto, Sale!BindsToken, Sale!DeletesToken, Sale!ListingRestart, Sale!MarketMoves, Sale!GoodsGo, Sale!Kept
<1>2. s2' \in s7' /\ s7' \subseteq Markets
  BY DEF Sale!ListingInv, Sale!ListingTyped, Sale!PassFails, Sale!CacheExpires, Sale!SetListAuto, Sale!BindsToken, Sale!DeletesToken, Sale!ListingRestart, Sale!MarketMoves, Sale!GoodsGo, Sale!Kept
<1>3. s1' \in [SaleGoods -> Nat \cup {Sale!Gone}]
  BY DEF Sale!ListingInv, Sale!ListingTyped, Sale!PassFails, Sale!CacheExpires, Sale!SetListAuto, Sale!BindsToken, Sale!DeletesToken, Sale!ListingRestart, Sale!MarketMoves, Sale!GoodsGo, Sale!Kept
<1>4. Sale!ListingTyped'
  BY <1>1, <1>2, <1>3, IdlePass DEF Sale!ListingInv, Sale!ListingTyped
<1>5. Sale!PricesStand'
  BY <1>1, IdlePass, FewerPicked
<1> QED BY <1>4, <1>5 DEF Sale!ListingInv

LEMMA ListsKeep == ASSUME Sale!ListingInv, Sale!InventoryReply \/ Sale!SellListReply PROVE Sale!ListingInv'
<1>1. UNCHANGED <<s1, s2, s3, s6, s7>>
  BY DEF Sale!InventoryReply, Sale!SellListReply, Sale!Kept
<1>2. PICK phase \in {"price", "reprice"}, todo \in SUBSET Allowed : s5' = [s5 EXCEPT !.phase = phase, !.todo = todo]
  BY DEF Sale!InventoryReply, Sale!SellListReply, Sale!Inventory730, Sale!SellList
<1>3. s5 \in Sale!Passes
  BY DEF Sale!ListingInv, Sale!ListingTyped
<1>4. s5' \in Sale!Passes /\ s5'.item = s5.item /\ s5'.to = s5.to /\ s5'.picks = s5.picks
  BY <1>2, <1>3 DEF Sale!Passes
<1>5. Sale!PricesStand'
  BY <1>1, <1>4, FewerPicked
<1> QED BY <1>1, <1>4, <1>5 DEF Sale!ListingInv, Sale!ListingTyped

LEMMA NextItemKeeps == ASSUME Sale!ListingInv, Sale!NextItem PROVE Sale!ListingInv'
<1>1. UNCHANGED <<s1, s2, s3, s6, s7>> /\ s5.item = {}
  BY DEF Sale!NextItem, Sale!Kept
<1>2. PICK g \in s5.todo :
        LET left == [s5 EXCEPT !.todo = @ \ {g}]
        IN s5' \in {[left EXCEPT !.item = {g}, !.to = WearOf[g]]} \cup (IF g \in Unworn THEN {left} ELSE {})
  BY DEF Sale!NextItem
<1> DEFINE left == [s5 EXCEPT !.todo = @ \ {g}]
<1>3. s5 \in Sale!Passes /\ g \in Allowed /\ g \in SaleGoods /\ WearOf[g] \in 1..Ranges /\ Ranges \in Nat
  BY ListingNumbers DEF Sale!ListingInv, Sale!ListingTyped, Sale!Passes
<1>4. left \in Sale!Passes /\ left.item = {} /\ left.picks = s5.picks
  BY <1>1, <1>3 DEF Sale!Passes
<1>5. s5' = left \/ s5' = [left EXCEPT !.item = {g}, !.to = WearOf[g]]
  BY <1>2
<1> HIDE DEF left
<1>6. CASE s5' = left
  <2>1. Sale!PricesStand'
    BY <1>1, <1>4, <1>6, FewerPicked
  <2> QED BY <1>1, <1>4, <1>6, <2>1 DEF Sale!ListingInv, Sale!ListingTyped
<1>7. CASE s5' = [left EXCEPT !.item = {g}, !.to = WearOf[g]]
  <2>0. {g} \in SUBSET Allowed /\ WearOf[g] \in Nat
    BY <1>3
  <2>1. s5' \in Sale!Passes /\ s5'.item = {g} /\ s5'.to = WearOf[g] /\ s5'.picks = s5.picks
    BY <1>4, <1>7, <2>0 DEF Sale!Passes
  <2>2. WearOf[g] \in WearOf[g]..Ranges + 1 /\ WearOf[g]..WearOf[g] - 1 = {}
    BY <1>3
  <2>3. \A x \in s5'.item : x = g /\ WearOf[x]..s5'.to - 1 = {} /\ s5'.to \in WearOf[x]..Ranges + 1
    BY <2>1, <2>2
  <2>4. \A x \in s5'.item : s5'.item = {x} /\ s5'.to \in WearOf[x]..Ranges + 1 /\ Sale!NothingBelow(x, s5.to)'
    BY <2>1, <2>3 DEF Sale!NothingBelow
  <2>5. \A p \in s5'.picks : Sale!FairPrice(p.item, p.price)' /\ (s3'.cap = 0 \/ p.price <= s3'.cap)
    BY <1>1, <2>1, MoreIsSeen DEF Sale!ListingInv, Sale!PricesStand
  <2>6. Sale!PricesStand'
    BY <1>1, <2>4, <2>5 DEF Sale!ListingInv, Sale!PricesStand
  <2> QED BY <1>1, <2>1, <2>6 DEF Sale!ListingInv, Sale!ListingTyped
<1> QED BY <1>5, <1>6, <1>7

\* What a span costs was asked in it since the pass began, if anything was.
LEMMA PriceFound ==
  ASSUME Sale!ListingInv, NEW span \in (1..Ranges) \X (1..Ranges)
  PROVE  /\ \E m \in s7 : Sale!Price(span) = Sale!computePrice(Sale!Asked(m, span[1], span[2]))
         /\ Sale!Price(span) \in Nat
         /\ Sale!Price(span) = Sale!Nothing => \E m \in s7 : Sale!Asked(m, span[1], span[2]) = {}
<1>1. CASE Sale!Cached(span) # {}
  <2>1. (CHOOSE c \in Sale!Cached(span) : TRUE) \in Sale!Cached(span)
    BY <1>1
  <2>2. PICK c \in Sale!Cached(span) : Sale!Price(span) = c.price
    BY <1>1, <2>1 DEF Sale!Price
  <2>3. c \in s6 /\ c.span = span /\ c.price \in Nat \ {0}
    BY <2>2 DEF Sale!Cached, Sale!ListingInv, Sale!ListingTyped, Sale!Spanned
  <2>4. \E m \in s7 : c.price = Sale!computePrice(Sale!Asked(m, c.span[1], c.span[2]))
    BY <2>3 DEF Sale!ListingInv, Sale!PricesStand
  <2> QED BY <2>2, <2>3, <2>4 DEF Sale!Nothing
<1>2. CASE Sale!Cached(span) = {}
  <2>1. s2 \in s7 /\ s2 \in Markets /\ span[1] \in 1..Ranges /\ span[2] \in 1..Ranges
    BY DEF Sale!ListingInv, Sale!ListingTyped
  <2>2. Sale!Price(span) = Sale!computePrice(Sale!Asked(s2, span[1], span[2]))
    BY <1>2 DEF Sale!Price
  <2> QED BY <2>1, <2>2, AskedPrices DEF Sale!Nothing
<1> QED BY <1>1, <1>2

LEMMA PriceReplyKeeps == ASSUME Sale!ListingInv, Sale!PriceReply PROVE Sale!ListingInv'
<1> DEFINE g == CHOOSE i \in s5.item : TRUE
           span == Sale!Span(g, s5.to)
           price == Sale!Price(span)
           found == [item |-> g, price |-> price]
           priced == [span |-> span, price |-> price]
<1>1. UNCHANGED <<s1, s2, s3, s7>> /\ s5.item # {} /\ s5 \in Sale!Passes
  BY DEF Sale!PriceReply, Sale!Kept, Sale!ListingInv, Sale!ListingTyped
<1>2. g \in s5.item
  BY <1>1
<1>3. g \in Allowed /\ g \in SaleGoods /\ WearOf[g] \in 1..Ranges /\ Ranges \in Nat /\ s5.item = {g} /\ s5.to \in WearOf[g]..Ranges + 1
      /\ Sale!NothingBelow(g, s5.to)
  BY <1>1, <1>2, ListingNumbers DEF Sale!Passes, Sale!ListingInv, Sale!PricesStand
<1>4. \/ price # Sale!Nothing /\ s5' = Sale!Picked(g, price) /\ s6' = {c \in s6 : c.span # span} \cup {priced}
      \/ price = Sale!Nothing /\ s6' = s6
         /\ s5' = IF s5.to > Ranges THEN [s5 EXCEPT !.item = {}] ELSE [s5 EXCEPT !.to = @ + 1]
      \/ s6' = s6 /\ s5' = [s5 EXCEPT !.item = {}]
  BY DEF Sale!PriceReply
<1> HIDE DEF g
<1> DEFINE end == IF s5.to > Ranges THEN Ranges ELSE s5.to
<1>5. span = <<WearOf[g], end>> /\ end \in WearOf[g]..Ranges /\ end \in 1..Ranges /\ span \in (1..Ranges) \X (1..Ranges) /\ span[1] = WearOf[g] /\ span[2] = end
  BY <1>3 DEF Sale!Span
<1> HIDE DEF span
<1>6. /\ \E m \in s7 : price = Sale!computePrice(Sale!Asked(m, WearOf[g], end))
      /\ price \in Nat
      /\ price = Sale!Nothing => \E m \in s7 : Sale!Asked(m, WearOf[g], end) = {}
  BY <1>5, PriceFound
<1> HIDE DEF price
<1>7. ASSUME s5' = [s5 EXCEPT !.item = {}]
      PROVE  s5' \in Sale!Passes /\ s5'.item = {} /\ s5'.picks = s5.picks
  BY <1>1, <1>7 DEF Sale!Passes
<1>8. CASE s6' = s6 /\ s5' = [s5 EXCEPT !.item = {}]
  BY <1>1, <1>7, <1>8, FewerPicked DEF Sale!ListingInv, Sale!ListingTyped
<1>9. CASE price = Sale!Nothing /\ s6' = s6 /\ s5.to <= Ranges /\ s5' = [s5 EXCEPT !.to = @ + 1]
  <2>1. s5.to \in Nat /\ s5.to + 1 \in WearOf[g]..Ranges + 1 /\ end = s5.to
    BY <1>3, <1>9
  <2>2. s5' \in Sale!Passes /\ s5'.item = {g} /\ s5'.to = s5.to + 1 /\ s5'.picks = s5.picks
    BY <1>1, <1>3, <1>9, <2>1 DEF Sale!Passes
  <2>3. ASSUME NEW less \in WearOf[g]..(s5.to + 1) - 1 PROVE \E m \in s7 : Sale!Asked(m, WearOf[g], less) = {}
    <3>1. CASE less = s5.to
      BY <1>6, <1>9, <2>1, <3>1
    <3>2. CASE less < s5.to
      <4>1. less \in WearOf[g]..s5.to - 1
        BY <1>3, <2>1, <3>2
      <4> QED BY <1>3, <4>1 DEF Sale!NothingBelow
    <3>3. less \in Int /\ less <= s5.to
      BY <1>3, <2>1
    <3> QED BY <2>1, <3>1, <3>2, <3>3
  <2>3a. \A x \in s5'.item :
           /\ x = g /\ s5'.to \in WearOf[x]..Ranges + 1
           /\ \A less \in WearOf[x]..s5'.to - 1 : \E m \in s7' : Sale!Asked(m, WearOf[x], less) = {}
    BY <1>1, <2>1, <2>2, <2>3
  <2>4. \A x \in s5'.item : s5'.item = {x} /\ s5'.to \in WearOf[x]..Ranges + 1 /\ Sale!NothingBelow(x, s5.to)'
    BY <2>2, <2>3a DEF Sale!NothingBelow
  <2>5. \A p \in s5'.picks : Sale!FairPrice(p.item, p.price)' /\ (s3'.cap = 0 \/ p.price <= s3'.cap)
    BY <1>1, <2>2, MoreIsSeen DEF Sale!ListingInv, Sale!PricesStand
  <2>6. Sale!PricesStand'
    BY <1>1, <1>9, <2>4, <2>5 DEF Sale!ListingInv, Sale!PricesStand
  <2> QED BY <1>1, <1>9, <2>2, <2>6 DEF Sale!ListingInv, Sale!ListingTyped
<1>10. CASE price # Sale!Nothing /\ s5' = Sale!Picked(g, price) /\ s6' = {c \in s6 : c.span # span} \cup {priced}
  <2>1. price \in Nat \ {0}
    BY <1>6, <1>10 DEF Sale!Nothing
  <2>2. Sale!FairPrice(g, price)
    <3>1. \A less \in WearOf[g]..(end - 1) : less \in WearOf[g]..s5.to - 1
      BY <1>3
    <3>2. \A less \in WearOf[g]..(end - 1) : \E m \in s7 : Sale!Asked(m, WearOf[g], less) = {}
      BY <1>3, <3>1 DEF Sale!NothingBelow
    <3> HIDE DEF end
    <3> QED BY <1>5, <1>6, <3>2 DEF Sale!FairPrice
  <2>3. found \in Sale!Pick /\ found.item = g /\ found.price = price
    BY <1>3, <2>1 DEF Sale!Pick
  <2>4. /\ s5' \in Sale!Passes /\ s5'.item = {}
        /\ \A p \in s5'.picks : p \in s5.picks \/ (p = found /\ Sale!Taken(g, price))
    <3>1. CASE s5' = [s5 EXCEPT !.item = {}]
      BY <1>7, <3>1
    <3>2. CASE Sale!Taken(g, price) /\ s5' = [s5 EXCEPT !.item = {}, !.picks = @ \cup {found}]
      <4> HIDE DEF found
      <4>1. s5.picks \cup {found} \in SUBSET Sale!Pick
        BY <1>1, <2>3 DEF Sale!Passes
      <4>2. s5' \in Sale!Passes /\ s5'.item = {} /\ s5'.picks = s5.picks \cup {found}
        BY <1>1, <3>2, <4>1 DEF Sale!Passes
      <4> QED BY <3>2, <4>2
    <3> QED BY <1>10, <3>1, <3>2 DEF Sale!Picked
  <2>5. \A p \in s5'.picks : Sale!FairPrice(p.item, p.price) /\ (s3.cap = 0 \/ p.price <= s3.cap)
    <3> HIDE DEF found
    <3> QED BY <2>2, <2>3, <2>4 DEF Sale!ListingInv, Sale!PricesStand, Sale!Taken
  <2>6. priced \in Sale!Spanned /\ priced.span = span /\ priced.price = price
    BY <1>5, <2>1 DEF Sale!Spanned
  <2> HIDE DEF priced
  <2>7. s6' \subseteq Sale!Spanned /\ \A c \in s6' : \E m \in s7 : c.price = Sale!computePrice(Sale!Asked(m, c.span[1], c.span[2]))
    BY <1>5, <1>6, <1>10, <2>6 DEF Sale!ListingInv, Sale!ListingTyped, Sale!PricesStand
  <2>8. \A p \in s5'.picks : Sale!FairPrice(p.item, p.price)' /\ (s3'.cap = 0 \/ p.price <= s3'.cap)
    BY <1>1, <2>5, MoreIsSeen
  <2>9. Sale!PricesStand'
    BY <1>1, <2>4, <2>7, <2>8 DEF Sale!PricesStand
  <2> QED BY <1>1, <2>4, <2>7, <2>9 DEF Sale!ListingInv, Sale!ListingTyped
<1>11. s5.to \in Int /\ Ranges \in Int
  BY <1>3
<1> QED BY <1>4, <1>8, <1>9, <1>10, <1>11

\* What is sent to UU: of the picks, in a run that is not dry.
LEMMA SentAsPicked ==
  ASSUME Sale!ListingInv, Sale!SellItems \/ Sale!ChangeSalePrice, NEW g \in SaleGoods, s1'[g] # s1[g]
  PROVE  ~s3.dry /\ \E p \in s5.picks : p.item = g /\ s1'[g] = p.price
<1>1. ~s3.dry /\ \E on \in BOOLEAN : s1' \in Sale!Batches(Sale!Sendable(on))
  BY DEF Sale!SellItems, Sale!ChangeSalePrice
<1>2. PICK on \in BOOLEAN : s1' \in Sale!Batches(Sale!Sendable(on))
  BY <1>1
<1>3. PICK T \in SUBSET Sale!Sendable(on) :
        s1' = [x \in SaleGoods |-> IF \E p \in T : p.item = x THEN (CHOOSE p \in T : p.item = x).price ELSE s1[x]]
  BY <1>2 DEF Sale!Batches
<1>4. \E p \in T : p.item = g
  BY <1>3
<1>5. s1'[g] = (CHOOSE p \in T : p.item = g).price
  BY <1>3, <1>4
<1>6. (CHOOSE p \in T : p.item = g) \in T /\ (CHOOSE p \in T : p.item = g).item = g
  BY <1>4
<1>7. T \subseteq s5.picks
  BY DEF Sale!Sendable
<1> QED BY <1>1, <1>5, <1>6, <1>7

LEMMA SalesKeep == ASSUME Sale!ListingInv, Sale!SellItems \/ Sale!ChangeSalePrice PROVE Sale!ListingInv'
<1>1. UNCHANGED <<s2, s3, s6, s7>>
  BY DEF Sale!SellItems, Sale!ChangeSalePrice, Sale!Kept
<1>2a. s5' \in {Sale!Idle, [Sale!Idle EXCEPT !.phase = "list"]}
  BY DEF Sale!SellItems, Sale!ChangeSalePrice
<1>2. s5' \in Sale!Passes /\ s5'.item = {} /\ s5'.picks = {}
  <2>1. [Sale!Idle EXCEPT !.phase = "list"] \in Sale!Passes /\ [Sale!Idle EXCEPT !.phase = "list"].item = {} /\ [Sale!Idle EXCEPT !.phase = "list"].picks = {}
    BY DEF Sale!Idle, Sale!Passes
  <2> QED BY <1>2a, <2>1, IdlePass
<1>3. Sale!PricesStand'
  BY <1>1, <1>2, NothingPicked
<1>4. s1' \in [SaleGoods -> Nat \cup {Sale!Gone}]
  <2>1. s1 \in [SaleGoods -> Nat \cup {Sale!Gone}] /\ s5.picks \subseteq Sale!Pick
    BY DEF Sale!ListingInv, Sale!ListingTyped, Sale!Passes
  <2>2. \A p \in s5.picks : p.price \in Nat
    BY <2>1 DEF Sale!Pick
  <2>3. DOMAIN s1' = SaleGoods /\ s1' = [g \in SaleGoods |-> s1'[g]]
    BY <2>1 DEF Sale!SellItems, Sale!ChangeSalePrice, Sale!Batches
  <2>4. \A g \in SaleGoods : s1'[g] \in Nat \cup {Sale!Gone}
    BY <2>1, <2>2, SentAsPicked
  <2> QED BY <2>3, <2>4
<1> QED BY <1>1, <1>2, <1>3, <1>4 DEF Sale!ListingInv, Sale!ListingTyped

LEMMA ListingStep == Sale!ListingInv /\ [Sale!ListingNext]_Sale!listingVars => Sale!ListingInv'
<1> SUFFICES ASSUME Sale!ListingInv, [Sale!ListingNext]_Sale!listingVars PROVE Sale!ListingInv'
  OBVIOUS
<1>1. CASE UNCHANGED Sale!listingVars
  <2>1. UNCHANGED <<s1, s2, s3, s5, s6, s7>>
    BY <1>1 DEF Sale!listingVars
  <2>2. Sale!PricesStand'
    BY <2>1, FewerPicked
  <2> QED BY <2>1, <2>2 DEF Sale!ListingInv, Sale!ListingTyped
<1>2. CASE Sale!ListingNext
  BY <1>2, RunKeeps, OtherStepsKeep, ListsKeep, NextItemKeeps, PriceReplyKeeps, SalesKeep DEF Sale!ListingNext
<1> QED BY <1>1, <1>2

\* The terms follow: what changes its price was picked.
LEMMA ListingTerms == Sale!ListingInv /\ [Sale!ListingNext]_Sale!listingVars => Sale!OnTerms
<1> SUFFICES ASSUME Sale!ListingInv, [Sale!ListingNext]_Sale!listingVars, NEW g \in SaleGoods, s1'[g] \notin {s1[g], Sale!Gone}
             PROVE  /\ g \in Allowed /\ ~s3.dry /\ (s3.cap = 0 \/ s1'[g] <= s3.cap)
                    /\ Sale!FairPrice(g, s1'[g])
  BY DEF Sale!OnTerms
<1>1. CASE Sale!SellItems \/ Sale!ChangeSalePrice
  <2>1. ~s3.dry
    BY <1>1, SentAsPicked
  <2>2. PICK p \in s5.picks : p.item = g /\ s1'[g] = p.price
    BY <1>1, SentAsPicked
  <2>3. p \in Sale!Pick
    BY DEF Sale!ListingInv, Sale!ListingTyped, Sale!Passes
  <2>4. g \in Allowed
    BY <2>2, <2>3 DEF Sale!Pick
  <2> QED BY <2>1, <2>2, <2>4 DEF Sale!ListingInv, Sale!PricesStand
<1>2. CASE UNCHANGED s1
  BY <1>2
<1>3. CASE Sale!GoodsGo
  BY <1>3 DEF Sale!GoodsGo, Sale!ListingInv, Sale!ListingTyped
<1> QED BY <1>1, <1>2, <1>3 DEF Sale!ListingNext, Sale!ListScan, Sale!ListTick, Sale!PassFails, Sale!InventoryReply, Sale!SellListReply, Sale!NextItem, Sale!PriceReply, Sale!CacheExpires,
                                Sale!SetListAuto, Sale!BindsToken, Sale!DeletesToken, Sale!ListingRestart, Sale!MarketMoves, Sale!listingVars

LEMMA ListingTypes == Sale!ListingInv => Sale!UuListingTypeOK
<1> SUFFICES ASSUME Sale!ListingInv PROVE Sale!UuListingTypeOK
  OBVIOUS
<1>1. \A g \in SaleGoods : s1[g] >= Sale!Gone
  BY DEF Sale!ListingInv, Sale!ListingTyped, Sale!Gone
<1>2. s5.item \cup s5.todo \subseteq SaleGoods
  BY ListingNumbers DEF Sale!ListingInv, Sale!ListingTyped, Sale!Passes
<1> QED BY <1>1, <1>2 DEF Sale!ListingInv, Sale!ListingTyped, Sale!UuListingTypeOK

-----------------------------------------------------------------------------
(* The page of inventories.                                                *)
Stock == INSTANCE InventoryPage WITH
  Rows <- StockRows, Things <- StockThings, MaxItems <- StockItems, MaxVersions <- StockVersions, MaxChanges <- StockChanges,
  LastTime <- StockTime,
  usable <- s1, inventory <- s2, version <- s3, questions <- s4, view <- s5, changes <- s6, open <- s7,
  time <- s8, now <- s9
ASSUME StockAssumed == Stock!InventoryPageConstants

LEMMA ClearTyped ==
  ASSUME NEW row \in StockRows \cup {Stock!NoRow}
  PROVE  /\ Stock!ClearLoaded(row) \in [selected : StockRows \cup {Stock!NoRow}, loaded : StockRows \cup {Stock!NoRow}, items : {Stock!ClearLoaded(row).items},
                                  failed : BOOLEAN, loading : BOOLEAN]
         /\ Stock!ClearLoaded(row).selected = row /\ ~Stock!ClearLoaded(row).loading /\ Stock!ClearLoaded(row).loaded = Stock!NoRow
  BY DEF Stock!ClearLoaded

LEMMA StockStarts == Stock!InventoryPageInit => Stock!StockInv
<1> SUFFICES ASSUME Stock!InventoryPageInit PROVE Stock!StockInv
  OBVIOUS
<1>1. s2 = Stock!ClearLoaded(Stock!NoRow) /\ s1 = {} /\ s3 = 0 /\ s4 = {} /\ s7 = FALSE
  BY DEF Stock!InventoryPageInit
<1> QED BY <1>1, ClearTyped DEF Stock!StockInv, Stock!StoreTyped, Stock!LastIsAsked, Stock!SelectedIsServed

\* The first account that can be used, if there is one.
LEMMA FirstIsUsable ==
  ASSUME NEW rows \in SUBSET StockRows
  PROVE  IF rows = {} THEN Stock!FirstUsable(rows) = Stock!NoRow ELSE Stock!FirstUsable(rows) \in rows /\ Stock!FirstUsable(rows) # Stock!NoRow
<1>1. CASE rows = {}
  BY <1>1 DEF Stock!FirstUsable
<1>2. CASE rows # {}
  <2>1. rows \subseteq Nat \ {0}
    BY StockAssumed DEF Stock!InventoryPageConstants
  <2>2. \E row \in rows : \A other \in rows : row <= other
    BY <1>2, <2>1, LeastOfSet
  <2> QED BY <1>2, <2>1, <2>2 DEF Stock!FirstUsable, Stock!NoRow
<1> QED BY <1>1, <1>2

\* Whatever account is shown, what is not there is asked for.
LEMMA ShowServes ==
  ASSUME Stock!StockInv, NEW row \in StockRows \cup {Stock!NoRow}, NEW chosen \in BOOLEAN, Stock!Show(row, chosen), ~chosen => row = s2.selected,
         s1' \subseteq StockRows, s7' \in BOOLEAN,
         s7' => row \in s1' \cup {Stock!NoRow} /\ (row = Stock!NoRow => s1' = {})
  PROVE  Stock!StockInv'
<1> DEFINE cleared == IF chosen THEN Stock!ClearLoaded(row) ELSE s2
           asking == row # Stock!NoRow /\ ~cleared.loading /\ (cleared.loaded # row \/ cleared.failed)
           chose == s3 + (IF chosen THEN 1 ELSE 0)
           next == chose + (IF asking THEN 1 ELSE 0)
<1>1. /\ s2' = IF asking THEN [cleared EXCEPT !.loading = TRUE, !.failed = FALSE] ELSE cleared
      /\ s3' = next
      /\ s4' = s4 \cup (IF asking THEN {[version |-> next, row |-> row]} ELSE {})
  BY DEF Stock!Show
<1>2. s3 \in Nat /\ chose \in Nat /\ next \in Nat /\ chose >= s3 /\ next >= chose /\ (chosen => chose > s3) /\ (asking => next > chose)
      /\ (~asking => next = chose)
  BY DEF Stock!StockInv, Stock!StoreTyped
<1>3. /\ cleared \in [selected : StockRows \cup {Stock!NoRow}, loaded : StockRows \cup {Stock!NoRow}, items : {cleared.items}, failed : BOOLEAN, loading : BOOLEAN]
      /\ cleared.selected = row
  BY ClearTyped DEF Stock!StockInv, Stock!StoreTyped
<1>4. /\ s4 \subseteq [version : 0..s3, row : StockRows]
      /\ \A q \in s4 : q.version = s3 => q.row = s2.selected
  BY DEF Stock!StockInv, Stock!LastIsAsked
<1>5. s2.loading <=> \E q \in s4 : q.version = s3
  BY DEF Stock!StockInv, Stock!SelectedIsServed
<1>6. cleared.loading <=> \E q \in s4 : q.version = chose
  <2>1. CASE chosen
    <3>1. \A q \in s4 : q.version # chose
      BY <1>2, <1>4, <2>1
    <3> QED BY <2>1, <3>1, ClearTyped
  <2>2. CASE ~chosen
    BY <1>2, <1>5, <2>2
  <2> QED BY <2>1, <2>2
<1>7. \A q \in s4 : q.version = chose => q.row = row
  BY <1>2, <1>4
<1> HIDE DEF cleared, chose
<1>8. CASE asking
  <2>1. s2' = [cleared EXCEPT !.loading = TRUE, !.failed = FALSE]
    BY <1>1, <1>8
  <2>2. s2' \in [selected : StockRows \cup {Stock!NoRow}, loaded : StockRows \cup {Stock!NoRow}, items : {s2'.items}, failed : BOOLEAN, loading : BOOLEAN]
    BY <1>3, <2>1
  <2>3. s2'.selected = row /\ s2'.loading
    BY <1>3, <2>1
  <2> DEFINE new == [version |-> next, row |-> row]
  <2>4. s4' = s4 \cup {new} /\ new.version = next /\ new.row = row /\ row \in StockRows
    BY <1>1, <1>8
  <2>5. new \in [version : 0..next, row : StockRows]
    BY <1>2, <2>4
  <2> HIDE DEF next, new
  <2>6. s4' \subseteq [version : 0..s3', row : StockRows]
    BY <1>1, <1>2, <1>4, <2>4, <2>5
  <2>7. \A q \in s4' : q.version = s3' => q.row = row
    BY <1>1, <1>2, <1>4, <1>8, <2>4
  <2>8. \E q \in s4' : q.version = s3'
    BY <1>1, <2>4
  <2>9. Stock!StoreTyped' /\ Stock!LastIsAsked'
    BY <1>1, <1>2, <2>2, <2>3, <2>6, <2>7 DEF Stock!StoreTyped, Stock!LastIsAsked
  <2>10. Stock!SelectedIsServed'
    BY <2>3, <2>8 DEF Stock!SelectedIsServed
  <2> QED BY <2>9, <2>10 DEF Stock!StockInv
<1>9. CASE ~asking
  <2>1. s2' = cleared /\ s3' = chose /\ s4' = s4
    BY <1>1, <1>2, <1>9
  <2>2. Stock!LastIsAsked'
    BY <1>2, <1>3, <1>4, <1>7, <2>1 DEF Stock!LastIsAsked
  <2>3. Stock!StoreTyped'
    BY <1>2, <1>3, <2>1 DEF Stock!StoreTyped
  <2>4. Stock!SelectedIsServed'
    BY <1>3, <1>6, <1>9, <2>1 DEF Stock!SelectedIsServed, Stock!Loaded
  <2> QED BY <2>2, <2>3, <2>4 DEF Stock!StockInv
<1> QED BY <1>8, <1>9

LEMMA EnsureServes ==
  ASSUME Stock!StockInv, s1' \subseteq StockRows, Stock!EnsureLoaded(s1'), s7' \in BOOLEAN
  PROVE  Stock!StockInv'
<1>1. CASE s2.selected \in s1'
  <2>1. s2.selected # Stock!NoRow
    BY <1>1, StockAssumed DEF Stock!InventoryPageConstants, Stock!NoRow
  <2> QED BY <1>1, <2>1, ShowServes DEF Stock!EnsureLoaded
<1>2. CASE s2.selected \notin s1'
  <2>1. Stock!Show(Stock!FirstUsable(s1'), TRUE)
    BY <1>2 DEF Stock!EnsureLoaded
  <2> QED BY <2>1, FirstIsUsable, ShowServes
<1> QED BY <1>1, <1>2

LEMMA StockStep == Stock!StockInv /\ [Stock!InventoryPageNext]_Stock!inventoryPageVars => Stock!StockInv'
<1> SUFFICES ASSUME Stock!StockInv, [Stock!InventoryPageNext]_Stock!inventoryPageVars PROVE Stock!StockInv'
  OBVIOUS
<1>1. s1 \subseteq StockRows /\ s7 \in BOOLEAN
  BY DEF Stock!StockInv, Stock!StoreTyped
<1>2. ASSUME UNCHANGED <<s1, s2, s3, s4>>, s7' \in BOOLEAN, s7' => s7 PROVE Stock!StockInv'
  BY <1>2 DEF Stock!StockInv, Stock!StoreTyped, Stock!LastIsAsked, Stock!SelectedIsServed, Stock!Loaded
<1>3. ASSUME NEW row \in StockRows, Stock!SelectAccount(row) PROVE Stock!StockInv'
  <2>1. row # Stock!NoRow /\ row \in s1' /\ s1' = s1 /\ s7' = s7
    BY <1>3, StockAssumed DEF Stock!SelectAccount, Stock!InventoryPageConstants, Stock!NoRow
  <2>2. Stock!Show(row, row # s2.selected)
    BY <1>3 DEF Stock!SelectAccount
  <2> QED BY <1>1, <2>1, <2>2, ShowServes
<1>4. CASE Stock!RefreshInventory
  <2>1. /\ s2.selected \in s1 /\ s3' = s3 + 1 /\ UNCHANGED <<s1, s7>>
        /\ s2' = [s2 EXCEPT !.loading = TRUE, !.failed = FALSE]
        /\ s4' = s4 \cup {[version |-> s3 + 1, row |-> s2.selected]}
    BY <1>4 DEF Stock!RefreshInventory
  <2>2. s2' \in [selected : StockRows \cup {Stock!NoRow}, loaded : StockRows \cup {Stock!NoRow}, items : {s2'.items}, failed : BOOLEAN, loading : BOOLEAN]
    BY <2>1 DEF Stock!StockInv, Stock!StoreTyped
  <2>3. s2'.selected = s2.selected /\ s2'.loading
    BY <2>1 DEF Stock!StockInv, Stock!StoreTyped
  <2>4. s2.selected \in StockRows /\ s2.selected # Stock!NoRow
    BY <1>1, <2>1, StockAssumed DEF Stock!InventoryPageConstants, Stock!NoRow
  <2> DEFINE new == [version |-> s3 + 1, row |-> s2.selected]
  <2>5. /\ s3 \in Nat /\ s4 \subseteq [version : 0..s3, row : StockRows]
        /\ new \in [version : 0..s3 + 1, row : StockRows] /\ new.version = s3 + 1 /\ new.row = s2.selected
        /\ s4' = s4 \cup {new}
    BY <2>1, <2>4 DEF Stock!StockInv, Stock!StoreTyped, Stock!LastIsAsked
  <2> HIDE DEF new
  <2>6. s4' \subseteq [version : 0..s3', row : StockRows]
    BY <2>1, <2>5
  <2>7. \A q \in s4' : q.version = s3' => q.row = s2.selected
    BY <2>1, <2>5
  <2>8. \E q \in s4' : q.version = s3'
    BY <2>1, <2>5
  <2>9. Stock!StoreTyped' /\ Stock!LastIsAsked'
    BY <1>1, <2>1, <2>2, <2>3, <2>5, <2>6, <2>7 DEF Stock!StoreTyped, Stock!LastIsAsked
  <2>10. Stock!SelectedIsServed'
    BY <1>1, <2>1, <2>3, <2>4, <2>8 DEF Stock!SelectedIsServed
  <2> QED BY <2>9, <2>10 DEF Stock!StockInv
<1>5. ASSUME NEW row \in StockRows, Stock!LogsOnOrOff(row) PROVE Stock!StockInv'
  <2>1. s1' \subseteq StockRows /\ s7' = s7
    BY <1>1, <1>5 DEF Stock!LogsOnOrOff
  <2>2. CASE s7
    <3>1. Stock!EnsureLoaded(s1')
      BY <1>5, <2>2 DEF Stock!LogsOnOrOff
    <3> QED BY <1>1, <2>1, <3>1, EnsureServes
  <2>3. CASE ~s7
    <3>1. UNCHANGED <<s2, s3, s4>>
      BY <1>5, <2>3 DEF Stock!LogsOnOrOff
    <3> QED BY <2>1, <2>3, <3>1 DEF Stock!StockInv, Stock!StoreTyped, Stock!LastIsAsked, Stock!SelectedIsServed, Stock!Loaded
  <2> QED BY <2>2, <2>3
<1>6. CASE Stock!OpenPage
  <2>1. s1' = s1 /\ s7' \in BOOLEAN /\ Stock!EnsureLoaded(s1)
    BY <1>6 DEF Stock!OpenPage
  <2>2. Stock!EnsureLoaded(s1')
    BY <2>1
  <2> QED BY <1>1, <2>1, <2>2, EnsureServes
<1>7. CASE Stock!ClosePage
  BY <1>2, <1>7 DEF Stock!ClosePage
<1>8. CASE Stock!Settings \/ \E size \in Stock!PageSizes : Stock!SetPageSize(size)
  <2>1. UNCHANGED <<s1, s2, s3, s4, s7>>
    BY <1>8 DEF Stock!Settings, Stock!SetPageSize, Stock!SetView
  <2> QED BY <1>1, <1>2, <2>1
<1>9. CASE Stock!Minute \/ \E number \in 1..StockItems : Stock!SetPage(number)
  <2>1. UNCHANGED <<s1, s2, s3, s4, s7>>
    BY <1>9 DEF Stock!Minute, Stock!SetPage
  <2> QED BY <1>1, <1>2, <2>1
<1>10. ASSUME NEW question \in s4, NEW outcome, Stock!Settled(question, outcome),
              outcome \in [selected : {s2.selected}, loaded : StockRows \cup {Stock!NoRow}, items : {outcome.items},
                           failed : BOOLEAN, loading : BOOLEAN],
              outcome.failed \/ outcome.loaded = question.row
       PROVE  Stock!StockInv'
  <2>1. UNCHANGED <<s1, s3, s7>> /\ s4' = s4 \ {question}
    BY <1>10 DEF Stock!Settled
  <2>2. /\ s3 \in Nat /\ s4 \subseteq [version : 0..s3, row : StockRows]
        /\ \A q \in s4 : q.version = s3 => q.row = s2.selected
        /\ s2.loading <=> \E q \in s4 : q.version = s3
        /\ s2.selected \in StockRows \cup {Stock!NoRow}
    BY DEF Stock!StockInv, Stock!StoreTyped, Stock!LastIsAsked, Stock!SelectedIsServed
  <2>3. CASE Stock!IsLatest(question)
    <3>1. question.version = s3 /\ s2' = [outcome EXCEPT !.loading = FALSE]
      BY <1>10, <2>3 DEF Stock!Settled, Stock!IsLatest
    <3>2. s2' \in [selected : StockRows \cup {Stock!NoRow}, loaded : StockRows \cup {Stock!NoRow}, items : {s2'.items},
                          failed : BOOLEAN, loading : BOOLEAN]
      BY <1>10, <2>2, <3>1
    <3>3. /\ s2'.selected = s2.selected /\ ~s2'.loading
          /\ s2'.failed \/ s2'.loaded = s2.selected
      BY <1>10, <2>2, <3>1
    <3>4. \A q \in s4' : q.version # s3
      <4>1. ASSUME NEW q \in s4, q.version = s3 PROVE q = question
        <5>1. q.row = question.row /\ q.version = question.version
          BY <2>2, <3>1, <4>1
        <5>2. q \in [version : 0..s3, row : StockRows] /\ question \in [version : 0..s3, row : StockRows]
          BY <2>2
        <5> QED BY <5>1, <5>2
      <4> QED BY <2>1, <4>1
    <3>5. Stock!StoreTyped' /\ Stock!LastIsAsked'
      BY <2>1, <2>2, <3>2, <3>4 DEF Stock!StockInv, Stock!StoreTyped, Stock!LastIsAsked
    <3>6. Stock!SelectedIsServed'
      BY <2>1, <3>3, <3>4 DEF Stock!SelectedIsServed, Stock!StockInv, Stock!Loaded
    <3> QED BY <3>5, <3>6 DEF Stock!StockInv
  <2>4. CASE ~Stock!IsLatest(question)
    <3>1. question.version # s3 /\ s2' = s2
      BY <1>10, <2>4 DEF Stock!Settled, Stock!IsLatest
    <3>2. (\E q \in s4 : q.version = s3) <=> \E q \in s4' : q.version = s3'
      BY <2>1, <3>1
    <3>3. Stock!StoreTyped' /\ Stock!LastIsAsked'
      BY <2>1, <3>1 DEF Stock!StockInv, Stock!StoreTyped, Stock!LastIsAsked
    <3>4. Stock!SelectedIsServed'
      BY <2>1, <3>1, <3>2 DEF Stock!StockInv, Stock!SelectedIsServed, Stock!Loaded
    <3> QED BY <3>3, <3>4 DEF Stock!StockInv
  <2> QED BY <2>3, <2>4
<1>11. ASSUME NEW question \in s4, Stock!CameNot(question) PROVE Stock!StockInv'
  <2> DEFINE outcome == [s2 EXCEPT !.loaded = Stock!NoRow, !.items = <<>>, !.failed = TRUE]
  <2>1. /\ outcome \in [selected : {s2.selected}, loaded : StockRows \cup {Stock!NoRow}, items : {outcome.items},
                        failed : BOOLEAN, loading : BOOLEAN]
        /\ outcome.failed
    BY DEF Stock!StockInv, Stock!StoreTyped
  <2>2. Stock!Settled(question, outcome)
    BY <1>11 DEF Stock!CameNot
  <2> HIDE DEF outcome
  <2> QED BY <1>10, <2>1, <2>2
<1>12. ASSUME NEW question \in s4, NEW list, Stock!Came(question, list) PROVE Stock!StockInv'
  <2> DEFINE outcome == [s2 EXCEPT !.loaded = question.row, !.items = list]
  <2>0. question.row \in StockRows
    BY DEF Stock!StockInv, Stock!LastIsAsked
  <2>1. /\ outcome \in [selected : {s2.selected}, loaded : StockRows \cup {Stock!NoRow}, items : {outcome.items},
                        failed : BOOLEAN, loading : BOOLEAN]
        /\ outcome.loaded = question.row
    BY <2>0 DEF Stock!StockInv, Stock!StoreTyped
  <2>2. Stock!Settled(question, outcome)
    BY <1>12 DEF Stock!Came
  <2> HIDE DEF outcome
  <2> QED BY <1>10, <2>1, <2>2
<1>13. CASE UNCHANGED Stock!inventoryPageVars
  BY <1>1, <1>2, <1>13 DEF Stock!inventoryPageVars
<1> QED
  BY <1>3, <1>4, <1>5, <1>6, <1>7, <1>8, <1>9, <1>11, <1>12, <1>13 DEF Stock!InventoryPageNext, Stock!InventoryClicks

LEMMA StockHolds == Stock!StockInv => Stock!SelectedIsServed
  BY DEF Stock!StockInv

-----------------------------------------------------------------------------
(* The page of accounts, whose invariant AccountsPage proves.               *)
People == INSTANCE AccountsPage WITH
  Members <- PeopleListed, MaxNews <- PeopleNews, MaxCalls <- PeopleCalls, MaxCuts <- PeopleCuts,
  listed <- s1, attempts <- s2, pushes <- s3, connected <- s4, requests <- s5, rows <- s6, reading <- s7,
  filter <- s8, selected <- s9, guard <- s10, failing <- s11, sent <- s12, called <- s13, cuts <- s14,
  astray <- s15

(* The parts that TLC alone checks; and the Steam session, whose invariant  *)
(* SteamSession proves.                                                    *)
Lookups == INSTANCE C5Lookups WITH
  Bound <- {1}, MaxKeys <- 2, MaxLookups <- 2,
  appKey <- s1, keys <- s2, boundAccounts <- s3, priceCache <- s4, balanceOf <- s5, links <- s6,
  sessions <- s7, lookups <- s8, answers <- s9, begun <- s10, crossed <- s11
Query == INSTANCE MarketQuery WITH
  Queries <- {1, 2}, MaxQueries <- 4,
  dbFile <- s1, dbCache <- s2, downloads <- s3, numbers <- s4, queries <- s5, asked <- s6, mistaken <- s7
Schema == INSTANCE ItemSchema WITH
  PrefabNames <- {"a", "b"}, MaxSections <- 2,
  task <- s1, input <- s2, reader <- s3, result <- s4
ImportList == INSTANCE ProxyList WITH
  Samples <- 3, IpUrls <- 2, MaxPool <- 4,
  step <- s1, job <- s2, outcome <- s3
History == INSTANCE HistoryRows WITH
  MaxDigits <- 7,
  job <- s1, outcome <- s2
Sheet == INSTANCE PriceSheet WITH
  MaxNodes <- 2,
  bytes <- s1, sheet <- s2, goods <- s3

\* A saved password, a code asked of the user, and at most one retry of a logon.
Session == INSTANCE SteamSession WITH
  a <- s1, retry <- s2, queued <- s3, client <- s4, ghost <- s5, listed <- s6, intent <- s7, saved <- s8, restoring <- s9

ASSUME Constants ==
  /\ People!PageConstants /\ Lookups!C5LookupConstants /\ Query!MarketQueryConstants /\ Schema!ItemSchemaConstants
  /\ ImportList!ListConstants /\ History!HistoryConstants /\ Sheet!SheetConstants /\ Session!SessionConstants

-----------------------------------------------------------------------------
\* The variables a part does not need.
From16 == s16 = None
From15 == s15 = None /\ From16
From13 == s13 = None /\ s14 = None /\ From15
From12 == s12 = None /\ From13
From10 == s10 = None /\ s11 = None /\ From12
From9 == s9 = None /\ From10
From8 == s8 = None /\ From9
From5 == s5 = None /\ s6 = None /\ s7 = None /\ From8
From4 == s4 = None /\ From5
From3 == s3 = None /\ From4
rest16 == <<s16>>
rest15 == <<s15, rest16>>
rest13 == <<s13, s14, rest15>>
rest12 == <<s12, rest13>>
rest10 == <<s10, s11, rest12>>
rest9 == <<s9, rest10>>
rest8 == <<s8, rest9>>
rest5 == <<s5, s6, s7, rest8>>
rest4 == <<s4, rest5>>
rest3 == <<s3, rest4>>
partsVars == <<atWork, s1, s2, rest3>>

PartsInit ==
  \/ atWork = "purchases" /\ Purchases!PageInit /\ From10
  \/ atWork = "confirmations" /\ Conf!ConfInit /\ From10
  \/ atWork = "terminals" /\ Crates!TerminalInit /\ From15
  \/ atWork = "tokens" /\ UuPage!TokensInit /\ From9
  \/ atWork = "accounts" /\ People!AccountsInit /\ From16
  \/ atWork = "proxies" /\ ProxyRows!ProxyPageInit /\ From16
  \/ atWork = "market" /\ Market!MarketPageInit /\ From15
  \/ atWork = "c5" /\ C5!C5PageInit
  \/ atWork = "buygame" /\ BuyGame!BuyGamePageInit /\ From13
  \/ atWork = "inventory" /\ Stock!InventoryPageInit /\ From10
  \/ atWork = "lookups" /\ Lookups!C5LookupInit /\ From12
  \/ atWork = "query" /\ Query!MarketQueryInit /\ From8
  \/ atWork = "schema" /\ Schema!ItemSchemaInit /\ From5
  \/ atWork = "list" /\ ImportList!ListInit /\ From4
  \/ atWork = "history" /\ History!RowsInit /\ From3
  \/ atWork = "sheet" /\ Sheet!SheetInit /\ From4
  \/ atWork = "traffic" /\ Traffic!TrafficInit /\ From16
  \/ atWork = "sale" /\ Sale!ListingInit /\ From9
  \/ atWork = "session" /\ Session!Init /\ From10

PartsNext == UNCHANGED atWork /\
  \/ atWork = "purchases" /\ Purchases!PageNext /\ UNCHANGED rest10
  \/ atWork = "confirmations" /\ Conf!ConfNext /\ UNCHANGED rest10
  \/ atWork = "terminals" /\ Crates!TerminalNext /\ UNCHANGED rest15
  \/ atWork = "tokens" /\ UuPage!TokensNext /\ UNCHANGED rest9
  \/ atWork = "accounts" /\ People!AccountsNext /\ UNCHANGED rest16
  \/ atWork = "proxies" /\ ProxyRows!ProxyPageNext /\ UNCHANGED rest16
  \/ atWork = "market" /\ Market!MarketPageNext /\ UNCHANGED rest15
  \/ atWork = "c5" /\ C5!C5PageNext
  \/ atWork = "buygame" /\ BuyGame!BuyGamePageNext /\ UNCHANGED rest13
  \/ atWork = "inventory" /\ Stock!InventoryPageNext /\ UNCHANGED rest10
  \/ atWork = "lookups" /\ Lookups!C5LookupNext /\ UNCHANGED rest12
  \/ atWork = "query" /\ Query!MarketQueryNext /\ UNCHANGED rest8
  \/ atWork = "schema" /\ Schema!ItemSchemaNext /\ UNCHANGED rest5
  \/ atWork = "list" /\ ImportList!ListNext /\ UNCHANGED rest4
  \/ atWork = "history" /\ History!RowsNext /\ UNCHANGED rest3
  \/ atWork = "sheet" /\ Sheet!SheetNext /\ UNCHANGED rest4
  \/ atWork = "traffic" /\ Traffic!TrafficNext /\ UNCHANGED rest16
  \/ atWork = "sale" /\ Sale!ListingNext /\ UNCHANGED rest9
  \/ atWork = "session" /\ Session!Next /\ UNCHANGED rest10

PartsSpec == PartsInit /\ [][PartsNext]_partsVars

-----------------------------------------------------------------------------
\* What the pages of accounts, proxies and C5 show follows what the server last
\* said, whatever answers and pushes overtake each other; and the page of
\* inventories shows the account it has selected, or is about to.
PagesFollow ==
  /\ atWork = "accounts" => People!RowsFollow
  /\ atWork = "proxies" => ProxyRows!ProxyPageKept
  /\ atWork = "c5" => C5!C5PageKept
  /\ atWork = "inventory" => Stock!SelectedIsServed

\* What is paid, confirmed or bound from a page is what the page was told to.
PagesPayAsShown ==
  /\ atWork = "purchases" => Purchases!PurchasePageKept
  /\ atWork = "confirmations" => Conf!ConfirmationsKept
  /\ atWork = "market" => Market!MarketPageKept
  /\ atWork = "tokens" => UuPage!TokensKept

\* Requests and logons leave by the proxy they should; and whatever comes late,
\* a session that connects is watched, and one that is online comes back after a
\* restart.
LogonsKept ==
  /\ atWork = "traffic" => Traffic!TrafficKept
  /\ atWork = "session" => Session!ConnectingIsWatched /\ Session!OnlineIsRestored

\* A lookup says what it found, of the key it was made with, and why it found
\* nothing; item schemas, proxy lists, histories and price sheets are read as they
\* are meant; and a page of an inventory lists each item of it once, in order.
ReadAsMeant ==
  /\ atWork = "lookups" => Lookups!LookupsKept
  /\ atWork = "query" => Query!QueryExplained
  /\ atWork = "schema" => Schema!SchemaRight
  /\ atWork = "list" => ImportList!ListKept
  /\ atWork = "history" => History!RowsRead
  /\ atWork = "sheet" => Sheet!GoodsAreTheSheets
  /\ atWork = "inventory" => Stock!ListAsMeant

\* What no step may do: buy in a game for another account or unasked, open a
\* terminal twice, or put on sale on UU but on the terms of user and market.
StepsKept ==
  [][/\ atWork = "buygame" => BuyGame!AskedForFirst /\ BuyGame!NothingUnconfirmed /\ BuyGame!OnlyListsTurnBack
     /\ atWork = "terminals" => Crates!StaysOpen
     /\ atWork = "sale" => Sale!OnTerms]_partsVars

\* The type invariants, where the code keeps a counter, a cursor or a latch.
PartsTypeOK ==
  /\ atWork = "terminals" => Crates!TerminalTypeOK
  /\ atWork = "tokens" => UuPage!UuTokensTypeOK
  /\ atWork = "sale" => Sale!UuListingTypeOK
  /\ atWork = "session" => Session!SessionTypeOK

-----------------------------------------------------------------------------
(* What is proved below holds of every instance the constants allow.       *)

\* A behaviour that stands still keeps the variables of every part.
LEMMA Unmoved ==
  ASSUME UNCHANGED partsVars
  PROVE  UNCHANGED <<atWork, s1, s2, s3, s4, s5, s6, s7, s8, s9, s10, s11, s12, s13, s14, s15, s16>>
  BY DEF partsVars, rest3, rest4, rest5, rest8, rest9, rest10, rest12, rest13, rest15, rest16

LEMMA SessionAssumed == Session!SessionConstants
  BY Constants

LEMMA SessionPart ==
  ASSUME [PartsNext]_partsVars, atWork = "session" => Session!SessionInv
  PROVE  (atWork = "session" => Session!SessionInv)'
<1>1. UNCHANGED atWork
  BY DEF PartsNext, partsVars
<1>2. ASSUME atWork = "session" PROVE [Session!Next]_(Session!vars)
  BY <1>2, Unmoved DEF PartsNext, Session!vars, Session!disk
<1> QED BY <1>1, <1>2, SessionAssumed, Session!SessionStep

\* The same of the part, whatever is at work.
LEMMA TrafficGoesOn ==
  ASSUME [PartsNext]_partsVars, atWork = "traffic" => Traffic!TrafficInv
  PROVE  (atWork = "traffic" => Traffic!TrafficInv)'
<1>1. UNCHANGED atWork
  BY DEF PartsNext, partsVars
<1>2. ASSUME atWork = "traffic" PROVE [Traffic!TrafficNext]_(Traffic!trafficVars)
  BY <1>2, Unmoved DEF PartsNext, Traffic!trafficVars, Traffic!requestVars, Traffic!logonVars
<1> QED BY <1>1, <1>2, TrafficStep

\* Requests and logons leave by the proxy they should; a session that connects is
\* watched, and one that is online comes back after a restart.
THEOREM LogonsAreKept == PartsSpec => []LogonsKept
<1> DEFINE Inv == /\ atWork = "traffic" => Traffic!TrafficInv
                  /\ atWork = "session" => Session!SessionInv
<1>1. PartsInit => Inv
  <2>1. ASSUME PartsInit, atWork = "traffic" PROVE Traffic!TrafficInv
    BY <2>1, TrafficStarts DEF PartsInit
  <2>2. ASSUME PartsInit, atWork = "session" PROVE Session!SessionInv
    <3>1. Session!Init
      BY <2>2 DEF PartsInit
    <3> QED BY <3>1, SessionAssumed, Session!SessionStarts
  <2> QED BY <2>1, <2>2
<1>2. Inv /\ [PartsNext]_partsVars => Inv'
  BY TrafficGoesOn, SessionPart
<1>3. Inv => LogonsKept
  BY TrafficHolds, Session!InvKept DEF LogonsKept
<1> QED BY <1>1, <1>2, <1>3, PTL DEF PartsSpec

\* The same of the part, whatever is at work.
LEMMA TerminalGoesOn ==
  ASSUME [PartsNext]_partsVars, atWork = "terminals" => Crates!TerminalInv
  PROVE  (atWork = "terminals" => Crates!TerminalInv)' /\ (atWork = "terminals" => Crates!StaysOpen)
<1>1. UNCHANGED atWork
  BY DEF PartsNext, partsVars
<1>2. ASSUME atWork = "terminals" PROVE [Crates!TerminalNext]_(Crates!terminalVars)
  BY <1>2, Unmoved DEF PartsNext, Crates!terminalVars, Crates!terminalPage, Crates!terminalGame
<1> QED BY <1>1, <1>2, TerminalStep, TerminalStays

\* The same of the part, whatever is at work.
LEMMA BuyGameGoesOn ==
  ASSUME [PartsNext]_partsVars, atWork = "buygame" => BuyGame!BuyGameInv
  PROVE  /\ (atWork = "buygame" => BuyGame!BuyGameInv)'
         /\ atWork = "buygame" => BuyGame!AskedForFirst /\ BuyGame!NothingUnconfirmed /\ BuyGame!OnlyListsTurnBack
<1>1. UNCHANGED atWork
  BY DEF PartsNext, partsVars
<1>2. ASSUME atWork = "buygame" PROVE [BuyGame!BuyGamePageNext]_(BuyGame!pageVars)
  BY <1>2, Unmoved DEF PartsNext, BuyGame!pageVars
<1> QED BY <1>1, <1>2, BuyGameStep, BuyGameConfirmed, BuyGameTurnsBack, BuyGameAsks

\* The same of the part, whatever is at work.
LEMMA SaleGoesOn ==
  ASSUME [PartsNext]_partsVars, atWork = "sale" => Sale!ListingInv
  PROVE  (atWork = "sale" => Sale!ListingInv)' /\ (atWork = "sale" => Sale!OnTerms)
<1>1. UNCHANGED atWork
  BY DEF PartsNext, partsVars
<1>2. ASSUME atWork = "sale" PROVE [Sale!ListingNext]_(Sale!listingVars)
  BY <1>2, Unmoved DEF PartsNext, Sale!listingVars
<1> QED BY <1>1, <1>2, ListingStep, ListingTerms

\* No step buys in a game unasked, shuts an open terminal again or puts on sale but
\* on the terms of user and market.
THEOREM StepsAreKept == PartsSpec => StepsKept
<1> DEFINE Inv == /\ atWork = "terminals" => Crates!TerminalInv
                  /\ atWork = "buygame" => BuyGame!BuyGameInv
                  /\ atWork = "sale" => Sale!ListingInv
           Steps == /\ atWork = "buygame" => BuyGame!AskedForFirst /\ BuyGame!NothingUnconfirmed /\ BuyGame!OnlyListsTurnBack
                    /\ atWork = "terminals" => Crates!StaysOpen
                    /\ atWork = "sale" => Sale!OnTerms
<1>1. PartsInit => Inv
  <2>1. ASSUME PartsInit, atWork = "terminals" PROVE Crates!TerminalInv
    BY <2>1, TerminalStarts DEF PartsInit
  <2>2. ASSUME PartsInit, atWork = "buygame" PROVE BuyGame!BuyGameInv
    BY <2>2, BuyGameStarts DEF PartsInit
  <2>3. ASSUME PartsInit, atWork = "sale" PROVE Sale!ListingInv
    BY <2>3, ListingStarts DEF PartsInit
  <2> QED BY <2>1, <2>2, <2>3
<1>2. Inv /\ [PartsNext]_partsVars => Inv' /\ Steps
  BY TerminalGoesOn, BuyGameGoesOn, SaleGoesOn
<1>3. Inv /\ [PartsNext]_partsVars => [Steps]_partsVars
  BY <1>2
<1> HIDE DEF Inv, Steps
<1>4. PartsSpec => [][Steps]_partsVars
  BY <1>1, <1>2, <1>3, PTL DEF PartsSpec
<1> QED BY <1>4 DEF StepsKept, Steps

\* The same of the part, whatever is at work.
LEMMA TokensGoOn ==
  ASSUME [PartsNext]_partsVars, atWork = "tokens" => UuPage!TokensInv
  PROVE  (atWork = "tokens" => UuPage!TokensInv)'
<1>1. UNCHANGED atWork
  BY DEF PartsNext, partsVars
<1>2. ASSUME atWork = "tokens" PROVE [UuPage!TokensNext]_(UuPage!tokenVars)
  BY <1>2, Unmoved DEF PartsNext, UuPage!tokenVars
<1> QED BY <1>1, <1>2, TokensStep

\* Counters, cursors and latches stay within their types: of the terminals, the UU
\* tokens, the sale on UU and the session.
THEOREM PartsAreTyped == PartsSpec => []PartsTypeOK
<1> DEFINE Inv == /\ atWork = "terminals" => Crates!TerminalInv
                  /\ atWork = "tokens" => UuPage!TokensInv
                  /\ atWork = "sale" => Sale!ListingInv
                  /\ atWork = "session" => Session!SessionInv
<1>1. PartsInit => Inv
  <2>1. ASSUME PartsInit, atWork = "terminals" PROVE Crates!TerminalInv
    BY <2>1, TerminalStarts DEF PartsInit
  <2>2. ASSUME PartsInit, atWork = "tokens" PROVE UuPage!TokensInv
    BY <2>2, TokensStart DEF PartsInit
  <2>3. ASSUME PartsInit, atWork = "sale" PROVE Sale!ListingInv
    BY <2>3, ListingStarts DEF PartsInit
  <2>4. ASSUME PartsInit, atWork = "session" PROVE Session!SessionInv
    <3>1. Session!Init
      BY <2>4 DEF PartsInit
    <3> QED BY <3>1, SessionAssumed, Session!SessionStarts
  <2> QED BY <2>1, <2>2, <2>3, <2>4
<1>2. Inv /\ [PartsNext]_partsVars => Inv'
  BY TerminalGoesOn, TokensGoOn, SaleGoesOn, SessionPart
<1>3. Inv => PartsTypeOK
  BY TerminalTypes, TokensTypes, ListingTypes, Session!InvKept DEF PartsTypeOK
<1> QED BY <1>1, <1>2, <1>3, PTL DEF PartsSpec

\* The same of the part, whatever is at work.
LEMMA PurchasesGoOn ==
  ASSUME [PartsNext]_partsVars, atWork = "purchases" => Purchases!PurchaseInv
  PROVE  (atWork = "purchases" => Purchases!PurchaseInv)'
<1>1. UNCHANGED atWork
  BY DEF PartsNext, partsVars
<1>2. ASSUME atWork = "purchases" PROVE [Purchases!PageNext]_(Purchases!pageVars)
  BY <1>2, Unmoved DEF PartsNext, Purchases!pageVars, Purchases!serverVars
<1> QED BY <1>1, <1>2, PurchaseStep

\* The same of the part, whatever is at work.
LEMMA ConfirmationsGoOn ==
  ASSUME [PartsNext]_partsVars, atWork = "confirmations" => Conf!ConfInv
  PROVE  (atWork = "confirmations" => Conf!ConfInv)'
<1>1. UNCHANGED atWork
  BY DEF PartsNext, partsVars
<1>2. ASSUME atWork = "confirmations" PROVE [Conf!ConfNext]_(Conf!confVars)
  BY <1>2, Unmoved DEF PartsNext, Conf!confVars
<1> QED BY <1>1, <1>2, ConfStep

\* The same of the part, whatever is at work.
LEMMA MarketGoesOnInParts ==
  ASSUME [PartsNext]_partsVars, atWork = "market" => Market!MarketInv
  PROVE  (atWork = "market" => Market!MarketInv)'
<1>1. UNCHANGED atWork
  BY DEF PartsNext, partsVars
<1>2. ASSUME atWork = "market" PROVE [Market!MarketPageNext]_(Market!marketPageVars)
  BY <1>2, Unmoved DEF PartsNext, Market!marketPageVars, Market!serverSide, Market!marketHistory, Market!marketBounds
<1> QED BY <1>1, <1>2, MarketPageStep

\* What is paid, confirmed or bound from a page is what the page was told to.
THEOREM PagesPayAsTold == PartsSpec => []PagesPayAsShown
<1> DEFINE Inv == /\ atWork = "purchases" => Purchases!PurchaseInv
                  /\ atWork = "confirmations" => Conf!ConfInv
                  /\ atWork = "market" => Market!MarketInv
                  /\ atWork = "tokens" => UuPage!TokensInv
<1>1. PartsInit => Inv
  <2>1. ASSUME PartsInit, atWork = "purchases" PROVE Purchases!PurchaseInv
    BY <2>1, PurchaseStarts DEF PartsInit
  <2>2. ASSUME PartsInit, atWork = "confirmations" PROVE Conf!ConfInv
    BY <2>2, ConfStarts DEF PartsInit
  <2>3. ASSUME PartsInit, atWork = "market" PROVE Market!MarketInv
    BY <2>3, MarketPageStarts DEF PartsInit
  <2>4. ASSUME PartsInit, atWork = "tokens" PROVE UuPage!TokensInv
    BY <2>4, TokensStart DEF PartsInit
  <2> QED BY <2>1, <2>2, <2>3, <2>4
<1>2. Inv /\ [PartsNext]_partsVars => Inv'
  BY PurchasesGoOn, ConfirmationsGoOn, MarketGoesOnInParts, TokensGoOn
<1>3. Inv => PagesPayAsShown
  BY PurchaseHolds, ConfHolds, MarketPageHolds, TokensHold DEF PagesPayAsShown
<1> QED BY <1>1, <1>2, <1>3, PTL DEF PartsSpec

\* The same of the part, whatever is at work.
LEMMA StockGoesOn ==
  ASSUME [PartsNext]_partsVars, atWork = "inventory" => Stock!StockInv
  PROVE  (atWork = "inventory" => Stock!StockInv)'
<1>1. UNCHANGED atWork
  BY DEF PartsNext, partsVars
<1>2. ASSUME atWork = "inventory" PROVE [Stock!InventoryPageNext]_(Stock!inventoryPageVars)
  BY <1>2, Unmoved DEF PartsNext, Stock!inventoryPageVars
<1> QED BY <1>1, <1>2, StockStep

\* The same of the part, whatever is at work.
LEMMA C5GoesOn ==
  ASSUME [PartsNext]_partsVars, atWork = "c5" => C5!C5Inv
  PROVE  (atWork = "c5" => C5!C5Inv)'
<1>1. UNCHANGED atWork
  BY DEF PartsNext, partsVars
<1>2. ASSUME atWork = "c5" PROVE [C5!C5PageNext]_(C5!c5PageVars)
  BY <1>2, Unmoved DEF PartsNext, C5!c5PageVars, C5!pageSide, C5!c5History
<1> QED BY <1>1, <1>2, C5Step

\* The same of the part, whatever is at work.
LEMMA ProxyRowsGoOn ==
  ASSUME [PartsNext]_partsVars, atWork = "proxies" => ProxyRows!ProxyInv
  PROVE  (atWork = "proxies" => ProxyRows!ProxyInv)'
<1>1. UNCHANGED atWork
  BY DEF PartsNext, partsVars
<1>2. ASSUME atWork = "proxies" PROVE [ProxyRows!ProxyPageNext]_(ProxyRows!proxyPageVars)
  BY <1>2, Unmoved DEF PartsNext, ProxyRows!proxyPageVars, ProxyRows!poolVars, ProxyRows!editVars
<1> QED BY <1>1, <1>2, ProxyStep

\* The same of the part, whatever is at work.
LEMMA PeopleGoOn ==
  ASSUME [PartsNext]_partsVars, atWork = "accounts" => People!AccountsInv
  PROVE  (atWork = "accounts" => People!AccountsInv)'
<1>1. UNCHANGED atWork
  BY DEF PartsNext, partsVars
<1>2. ASSUME atWork = "accounts" PROVE [People!AccountsNext]_(People!accountsVars)
  BY <1>2, Unmoved DEF PartsNext, People!accountsVars, People!serverVars, People!pageVars, People!netVars, People!boundVars
<1> QED BY <1>1, <1>2, People!PeopleStep

\* What the pages of accounts, proxies and C5 show follows what the server last
\* said; and the page of inventories shows the account it has selected.
THEOREM PagesFollowTheServer == PartsSpec => []PagesFollow
<1> DEFINE Inv == /\ atWork = "accounts" => People!AccountsInv
                  /\ atWork = "proxies" => ProxyRows!ProxyInv
                  /\ atWork = "c5" => C5!C5Inv
                  /\ atWork = "inventory" => Stock!StockInv
<1>1. PartsInit => Inv
  <2>1. ASSUME PartsInit, atWork = "accounts" PROVE People!AccountsInv
    BY <2>1, People!PeopleStart DEF PartsInit
  <2>2. ASSUME PartsInit, atWork = "proxies" PROVE ProxyRows!ProxyInv
    BY <2>2, ProxyStarts DEF PartsInit
  <2>3. ASSUME PartsInit, atWork = "c5" PROVE C5!C5Inv
    BY <2>3, C5Starts DEF PartsInit
  <2>4. ASSUME PartsInit, atWork = "inventory" PROVE Stock!StockInv
    BY <2>4, StockStarts DEF PartsInit
  <2> QED BY <2>1, <2>2, <2>3, <2>4
<1>2. Inv /\ [PartsNext]_partsVars => Inv'
  BY PeopleGoOn, ProxyRowsGoOn, C5GoesOn, StockGoesOn
<1>3. Inv => PagesFollow
  BY People!PeopleHold, ProxyHolds, C5Holds, StockHolds DEF PagesFollow
<1> QED BY <1>1, <1>2, <1>3, PTL DEF PartsSpec
=============================================================================
