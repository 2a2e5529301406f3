----------------------------- MODULE PriceSheet -----------------------------
(***************************************************************************)
(* From the price sheet of a game's store to the goods of the catalogue:   *)
(* its bytes are unpacked, the prices are taken out of its nodes           *)
(* (src/steam/price-sheet.ts), and each item gets its number, its kind and *)
(* its place in the list (src/purchase/catalog-items.ts).                  *)
(*                                                                         *)
(* A price map is a function from some of the currencies to the smallest   *)
(* units.  A node of the sheet has prices of its own, a table of prices    *)
(* and up to four price tiers; the tiers of the sheet give a map each.     *)
(***************************************************************************)
EXTENDS Integers, Sequences, FiniteSets, SequencesExt

CONSTANT MaxNodes     \* nodes of a sheet, a bound of the model

\* Assumed of them.
SheetConstants == MaxNodes \in Nat

VARIABLES
  bytes,     \* what the coordinator sent
  sheet,     \* what is in it
  goods      \* what was made of it: whether it was decoded, and the catalogue

sheetVars == <<bytes, sheet, goods>>
NotDecoded == [is |-> "bytes", list |-> <<>>]

-----------------------------------------------------------------------------
(* Bytes: plain, in the store's own packing or in the usual one.  An       *)
(* unpacking that fails is no end: they may be plain after all.            *)

Bytes == [form : {"plain", "valve", "packed"}, unpacks : BOOLEAN, parses : BOOLEAN, parsesAsIs : BOOLEAN]
DecodePriceSheet(b) ==
  CASE b.form = "plain" -> b.parsesAsIs
    [] b.form # "plain" /\ b.unpacks /\ b.parses -> TRUE
    [] OTHER -> b.parsesAsIs

-----------------------------------------------------------------------------
(* Prices.                                                                 *)

NoPrices == [c \in {} |-> 0]
NormalizePriceMap(map) == [c \in {c \in DOMAIN map : map[c] > 0} |-> map[c]]
Over(map, later) == [c \in DOMAIN map \cup DOMAIN later |-> IF c \in DOMAIN later THEN later[c] ELSE map[c]]
TierMap(tier) == IF tier \in DOMAIN sheet.tiers THEN NormalizePriceMap(sheet.tiers[tier]) ELSE NoPrices
FirstTier(node) == LET set == SelectSeq(node.tiers, LAMBDA tier : tier # 0) IN IF set = <<>> THEN 0 ELSE Head(set)
ExtractPriceMap(node) ==
  FoldLeft(LAMBDA map, tier : Over(map, TierMap(tier)), Over(NormalizePriceMap(node.own), NormalizePriceMap(node.prices)), node.tiers)

\* Every node with a number, wherever it stands: later ones over earlier ones.
AllNodes == IF sheet.othersFirst THEN sheet.others \o [i \in DOMAIN sheet.entries |-> sheet.entries[i].node]
            ELSE [i \in DOMAIN sheet.entries |-> sheet.entries[i].node] \o sheet.others
Collected(def) == FoldLeft(LAMBDA map, node : IF node.def = def THEN Over(map, ExtractPriceMap(node)) ELSE map, NoPrices, AllNodes)
ResolvePrices(entry, def) == Over(Over(Collected(def), NormalizePriceMap(entry.node.prices)), TierMap(FirstTier(entry.node)))

-----------------------------------------------------------------------------
(* Numbers.  Items of the game, in the order of its files.                 *)

Key == 5
Items == <<[def |-> 1, internal |-> "case", display |-> "key", signs |-> {"capsule", "weapon"}],
           [def |-> 2, internal |-> "", display |-> "pass", signs |-> {"ticket", "tool"}],
           [def |-> 5, internal |-> "key", display |-> "crate key", signs |-> {"key"}]>>
ItemNamed(Is(_)) == LET found == {i \in DOMAIN Items : Is(Items[i])} IN IF found = {} THEN 0 ELSE Items[CHOOSE i \in found : \A j \in found : i <= j].def
\* Mutant: whatever the first item is called by.
ByAnyName(name) == IF name = "" THEN 0 ELSE ItemNamed(LAMBDA item : name \in {item.internal, item.display})
\* By the name in the game's files first, by the one shown to players otherwise.
ByName(name) ==
  IF name = "" THEN 0
  ELSE LET internal == ItemNamed(LAMBDA item : item.internal = name)
       IN IF internal # 0 THEN internal ELSE ItemNamed(LAMBDA item : name \in {item.internal, item.display})
ResolveDefIndex(entry) == IF entry.node.def > 0 THEN entry.node.def ELSE ByName(entry.name)

\* extractStorePrices: the entries in their order, then what is priced elsewhere only.
Taken(list, item) == IF item.def = 0 \/ DOMAIN item.prices = {} \/ \E i \in DOMAIN list : list[i].def = item.def THEN list ELSE Append(list, item)
ExtractStorePrices ==
  LET entries == [i \in DOMAIN sheet.entries |->
                    LET def == ResolveDefIndex(sheet.entries[i]) IN [def |-> def, prices |-> ResolvePrices(sheet.entries[i], def)]]
      others == [i \in DOMAIN AllNodes |-> [def |-> AllNodes[i].def, prices |-> Collected(AllNodes[i].def)]]
  IN FoldLeft(Taken, <<>>, entries \o others)

-----------------------------------------------------------------------------
(* Kinds, and the catalogue.                                               *)

CategoryOrder == <<"tool", "key", "ticket", "music kit", "capsule", "weapon", "hat", "bundle", "accessory", "sticker", "other">>
\* The signs of an item, in its names and its definition, are looked for in this order.
Cs2Order == <<"ticket", "tool", "key", "music kit", "capsule", "weapon", "hat", "bundle", "accessory", "sticker">>
Tf2Order == <<"ticket", "key", "bundle", "hat", "weapon", "accessory", "tool">>
Signs(def) == UNION {IF Items[i].def = def THEN Items[i].signs ELSE {} : i \in DOMAIN Items}
Category(def) ==
  LET order == IF sheet.game = "tf2" THEN Tf2Order ELSE Cs2Order
      found == {i \in DOMAIN order : order[i] \in Signs(def)}
  IN IF found = {} THEN "other" ELSE order[CHOOSE i \in found : \A j \in found : i <= j]
Rank(category) == CHOOSE i \in DOMAIN CategoryOrder : CategoryOrder[i] = category
BuildItem(item) == [def |-> item.def, prices |-> NormalizePriceMap(item.prices), category |-> Category(item.def)]
\* The names are ordered like the numbers here.
CompareItems(left, right) == IF Rank(left.category) # Rank(right.category) THEN Rank(left.category) < Rank(right.category) ELSE left.def < right.def

FallbackPrices == [USD |-> 249, CNY |-> 1700]
\* Mutant: the fixed prices come over those of the sheet.
FallbackFirst(list) ==
  LET keys == SelectSeq(list, LAMBDA item : item.def = Key)
  IN [i \in DOMAIN keys |-> [keys[i] EXCEPT !.prices = NormalizePriceMap(Over(keys[i].prices, FallbackPrices))]]
\* Of TF2 there is only the key; the fixed prices fill what the sheet lacks.
KeepTf2KeyOnly(list) ==
  LET keys == SelectSeq(list, LAMBDA item : item.def = Key)
  IN [i \in DOMAIN keys |-> [keys[i] EXCEPT !.prices = NormalizePriceMap(Over(FallbackPrices, keys[i].prices))]]
BuildCatalog ==
  LET list == ExtractStorePrices
      sorted == SortSeq([i \in DOMAIN list |-> BuildItem(list[i])], CompareItems)
  IN IF sheet.game = "tf2" THEN KeepTf2KeyOnly(sorted) ELSE sorted
\* itemPrice: in the dollar's smallest units when there is no price in the currency.
ItemPrice(item, currency) ==
  IF currency \in DOMAIN item.prices THEN item.prices[currency] ELSE IF "USD" \in DOMAIN item.prices THEN item.prices["USD"] ELSE 0

-----------------------------------------------------------------------------
Own == {NoPrices, [USD |-> 100]}
Tables == {NoPrices, [CNY |-> 700], [USD |-> 0, CNY |-> 800]}
Nodes == [def : {0, 1, 5}, own : Own, prices : Tables, tiers : {<<0, 0>>, <<249, 199>>, <<0, 199>>}]
Entries == [name : {"", "key"}, node : Nodes]
SeqsUpTo(S, n) == UNION {[1..k -> S] : k \in 0..n}
Plain == [form |-> "plain", unpacks |-> FALSE, parses |-> FALSE, parsesAsIs |-> TRUE]
SheetInit ==
  /\ goods = NotDecoded
  /\ \/ bytes \in Bytes /\ sheet = [entries |-> <<>>, others |-> <<>>, othersFirst |-> FALSE, game |-> "cs2", tiers |-> [t \in {} |-> NoPrices]]
     \/ bytes = Plain /\ \E n \in 0..MaxNodes : sheet \in [entries : SeqsUpTo(Entries, n), others : SeqsUpTo(Nodes, MaxNodes - n), othersFirst : BOOLEAN, game : {"cs2", "tf2"},
                                    tiers : {[t \in {249, 199} |-> IF t = 249 THEN [USD |-> 249, CNY |-> 1700] ELSE [USD |-> 199]]}]
Decode ==
  /\ goods = NotDecoded /\ UNCHANGED <<bytes, sheet>>
  /\ goods' = IF DecodePriceSheet(bytes) THEN [is |-> "decoded", list |-> BuildCatalog] ELSE [NotDecoded EXCEPT !.is = "failed"]
SheetNext == Decode
SheetSpec == SheetInit /\ [][SheetNext]_sheetVars

-----------------------------------------------------------------------------
Decoded == goods.is = "decoded"

\* Each item is listed once, in order, and can be bought for something.
ListedOnce ==
  Decoded => \A i, j \in DOMAIN goods.list :
    /\ i < j => goods.list[i].def # goods.list[j].def /\ Rank(goods.list[i].category) <= Rank(goods.list[j].category)
    /\ goods.list[i].def # 0 /\ \E c \in {"USD", "CNY"} : ItemPrice(goods.list[i], c) > 0

\* An entry that names an item by its name in the files is that item, whatever
\* other item is shown under that name; one that names none is none.
EntriesAreTheirs ==
  Decoded /\ sheet.game = "cs2" /\ Len(sheet.entries) = 1 /\ sheet.others = <<>> =>
    LET entry == sheet.entries[1]
    IN \A i \in DOMAIN goods.list :
         /\ goods.list[i].def = (IF entry.node.def # 0 THEN entry.node.def ELSE Key)
         /\ entry.node.def # 0 \/ entry.name = "key"

\* An entry costs what its first tier says; otherwise what its own table says.
TierIsPrice ==
  Decoded /\ sheet.game = "cs2" => \A e \in DOMAIN sheet.entries : \A i \in DOMAIN goods.list :
    LET entry == sheet.entries[e]
        tier == TierMap(FirstTier(entry.node))
        first == \A d \in 1..e - 1 : ResolveDefIndex(sheet.entries[d]) # goods.list[i].def
    IN goods.list[i].def = ResolveDefIndex(entry) /\ first =>
         /\ \A c \in DOMAIN tier : ItemPrice(goods.list[i], c) = tier[c]
         /\ \A c \in DOMAIN NormalizePriceMap(entry.node.prices) \ DOMAIN tier : ItemPrice(goods.list[i], c) = entry.node.prices[c]

\* The TF2 key has a price in every currency, the sheet's where the sheet has one.
KeyIsPriced ==
  Decoded /\ sheet.game = "tf2" => \A i \in DOMAIN goods.list : \A c \in DOMAIN FallbackPrices :
    LET live == ExtractStorePrices
        at == CHOOSE j \in DOMAIN live : live[j].def = Key
    IN goods.list[i].def = Key /\ ItemPrice(goods.list[i], c) = IF c \in DOMAIN live[at].prices THEN live[at].prices[c] ELSE FallbackPrices[c]

\* The goods are the sheet's, at the sheet's prices.
GoodsAreTheSheets == ListedOnce /\ EntriesAreTheirs /\ TierIsPrice /\ KeyIsPriced
=============================================================================
