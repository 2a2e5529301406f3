--------------------------- MODULE InventoryPage ---------------------------
(***************************************************************************)
(* The inventory page: which account is shown and what came for it         *)
(* (src/web/src/stores/inventory.ts), what the filters leave, its order,   *)
(* stacks, pages and counts (src/web/src/lib/inventory.ts,                 *)
(* src/web/src/views/InventoryView.vue and the card of a stack).           *)
(*                                                                         *)
(* An item is a record: id, name, the kind the game coordinator gives, the *)
(* type tag of the community, whether it is painted, its rarity, the time  *)
(* it may be traded from (0: none given), Steam's mark, its wear (NoWear:  *)
(* none given).  Names and wears are numbers, in the order of sorting.     *)
(***************************************************************************)
EXTENDS Integers, Sequences, FiniteSets, SequencesExt

CONSTANTS
  Rows,        \* accounts of the accounts page, in its order: numbers from 1
  Things,      \* the items there are
  MaxItems,    \* items in an inventory, a bound of the model
  MaxVersions, \* questions and changes of account, a bound of the model
  MaxChanges,  \* settings changed by hand, a bound of the model
  LastTime     \* of the clock, a bound of the model

\* Assumed of them.
InventoryPageConstants == Rows \subseteq Nat \ {0} /\ {MaxItems, MaxVersions, MaxChanges, LastTime} \subseteq Nat

VARIABLES
  usable,    \* accounts that are logged on
  inventory, \* selected, loaded, items, failed, loading: the store
  version,   \* of the store: what was asked before it is dropped
  questions, \* to the server, not answered yet
  view,      \* filters and settings of the page
  changes,   \* settings changed so far
  open,      \* the page is shown
  time, now  \* the time, and what the page takes for it

inventoryPageVars == <<usable, inventory, version, questions, view, changes, open, time, now>>

NoRow == 0
NoWear == 9
PageSizes == {1, 2}
Lists == {list \in BoundedSeq(Things, MaxItems) : IsInjective(list)}

-----------------------------------------------------------------------------
(* One item.                                                               *)

KindLabels == [weapon_skin |-> "skin", weapon_case |-> "case", sticker |-> "sticker"]
CommunityTypeLabels == [CSGO_Type_WeaponCase |-> "case", CSGO_Type_Sticker |-> "sticker"]
CategoryOf(item) ==
  CASE item.kind \in DOMAIN KindLabels -> KindLabels[item.kind]
    [] item.kind \notin DOMAIN KindLabels /\ item.tag \in DOMAIN CommunityTypeLabels -> CommunityTypeLabels[item.tag]
    [] item.kind \notin DOMAIN KindLabels /\ item.tag = "CSGO_Type_Pistol" -> IF item.painted THEN "skin" ELSE ""
    [] OTHER -> ""

TradeStateOf(item, at) ==
  CASE item.after > at -> "cooling"
    [] item.after \in 1..at -> "tradable"
    [] OTHER -> IF item.marked THEN "tradable" ELSE "locked"

In(list, P(_)) == Cardinality({i \in DOMAIN list : P(list[i])})
Some(list, P(_)) == \E i \in DOMAIN list : P(list[i])

-----------------------------------------------------------------------------
(* What the page makes of a list.                                          *)

Loaded == inventory.selected # NoRow /\ inventory.loaded = inventory.selected
Shown == IF Loaded THEN inventory.items ELSE <<>>

ActiveCategory == IF Some(Shown, LAMBDA item : view.category # "" /\ CategoryOf(item) = view.category) THEN view.category ELSE "all"
ActiveRarity == IF Some(Shown, LAMBDA item : item.rarity = view.rarity) THEN view.rarity ELSE 0
Matches(item) ==
  /\ ActiveCategory # "all" => CategoryOf(item) = ActiveCategory
  /\ view.trade # "all" => TradeStateOf(item, now) = view.trade
  /\ ActiveRarity # 0 => item.rarity = ActiveRarity
  /\ view.search # 0 => item.name = view.search
FilterItems(list) == SelectSeq(list, Matches)

\* Sorting keeps the order of what is alike.
SortedBy(list, Key(_)) ==
  LET before(i) == {j \in DOMAIN list : Key(list[j]) < Key(list[i]) \/ (Key(list[j]) = Key(list[i]) /\ j < i)}
  IN [place \in DOMAIN list |-> list[CHOOSE i \in DOMAIN list : Cardinality(before(i)) = place - 1]]
UnlockKey(item) ==
  CASE TradeStateOf(item, now) = "tradable" -> 0
    [] TradeStateOf(item, now) = "cooling" -> 100 + 10 * item.after
    [] TradeStateOf(item, now) = "locked" -> 1000
SortItems(list) ==
  CASE view.sort = "name" -> SortedBy(list, LAMBDA item : item.name)
    [] view.sort = "rarity" -> SortedBy(list, LAMBDA item : item.name - 10 * item.rarity)
    [] view.sort = "unlock" -> SortedBy(list, LAMBDA item : UnlockKey(item) + item.name)
    [] view.sort = "wear" -> SortedBy(list, LAMBDA item : 10 * item.wear + item.name)
    [] view.sort = "default" -> list

\* Of one name each; the first of them gives the place.
StackItems(list) ==
  LET first == SelectSeq([i \in DOMAIN list |-> i], LAMBDA i : \A j \in 1..(i - 1) : list[j].name # list[i].name)
  IN [s \in DOMAIN first |-> SelectSeq(list, LAMBDA item : item.name = list[first[s]].name)]
Filtered == SortItems(FilterItems(Shown))
Entries == IF view.mode = "stack" THEN StackItems(Filtered) ELSE [i \in DOMAIN Filtered |-> <<Filtered[i]>>]

PageCount(list) == IF list = <<>> THEN 1 ELSE (Len(list) + view.size - 1) \div view.size
\* Mutant: the number of the page is taken as it is.
CurrentAsSet(list, number) == number
Current(list, number) == IF number > PageCount(list) THEN PageCount(list) ELSE number
PageOf(list, number) ==
  LET first == (Current(list, number) - 1) * view.size + 1
      last == Current(list, number) * view.size
  IN SubSeq(list, first, IF last < Len(list) THEN last ELSE Len(list))
Paged == PageOf(Entries, view.page)

\* The numbers at the top of the page, of everything loaded.
Distinct == Cardinality({item.name : item \in ToSet(Shown)})
InState(list, state) == In(list, LAMBDA item : TradeStateOf(item, now) = state)
NextUnlock == LET times == {item.after : item \in {i \in ToSet(Shown) : TradeStateOf(i, now) = "cooling"}}
              IN IF times = {} THEN 0 ELSE CHOOSE t \in times : \A u \in times : t <= u

\* What the card of a stack says.
Badge(stack) == IF InState(stack, "tradable") = Len(stack) THEN "all"
                ELSE IF InState(stack, "tradable") > 0 THEN "some" ELSE "none"

-----------------------------------------------------------------------------
(* The account shown and what is asked for it.                             *)

FirstUsable(rows) == IF rows = {} THEN NoRow ELSE CHOOSE row \in rows : \A other \in rows : row <= other
ClearLoaded(row) == [selected |-> row, loaded |-> NoRow, items |-> <<>>, failed |-> FALSE, loading |-> FALSE]

\* Select row, ask for what is not there; the page goes back to its first.
Show(row, chosen) ==
  LET cleared == IF chosen THEN ClearLoaded(row) ELSE inventory
      asks == row # NoRow /\ ~cleared.loading /\ (cleared.loaded # row \/ cleared.failed)
      next == version + (IF chosen THEN 1 ELSE 0) + (IF asks THEN 1 ELSE 0)
  IN /\ inventory' = IF asks THEN [cleared EXCEPT !.loading = TRUE, !.failed = FALSE] ELSE cleared
     /\ version' = next
     /\ questions' = questions \cup (IF asks THEN {[version |-> next, row |-> row]} ELSE {})
     /\ view' = IF row # inventory.selected THEN [view EXCEPT !.page = 1] ELSE view
EnsureLoaded(rows) ==
  IF inventory.selected \in rows THEN Show(inventory.selected, FALSE) ELSE Show(FirstUsable(rows), TRUE)

SelectAccount(row) ==
  /\ open /\ row \in usable /\ version + 2 <= MaxVersions
  /\ Show(row, row # inventory.selected)
  /\ UNCHANGED <<usable, changes, open, time, now>>

\* Again, even while an answer is awaited.
RefreshInventory ==
  /\ open /\ inventory.selected \in usable /\ version < MaxVersions
  /\ version' = version + 1
  /\ inventory' = [inventory EXCEPT !.loading = TRUE, !.failed = FALSE]
  /\ questions' = questions \cup {[version |-> version + 1, row |-> inventory.selected]}
  /\ UNCHANGED <<usable, view, changes, open, time, now>>

\* Mutant: whichever answer comes.
AnyAnswer(question) == TRUE
IsLatest(question) == question.version = version
Settled(question, outcome) ==
  /\ question \in questions /\ questions' = questions \ {question}
  /\ inventory' = IF IsLatest(question) THEN [outcome EXCEPT !.loading = FALSE] ELSE inventory
  /\ UNCHANGED <<usable, version, view, changes, open, time, now>>
Came(question, list) == Settled(question, [inventory EXCEPT !.loaded = question.row, !.items = list])
\* What is dropped may as well be empty.
Brought(question) == IF IsLatest(question) THEN Lists ELSE {<<>>}
CameNot(question) == Settled(question, [inventory EXCEPT !.loaded = NoRow, !.items = <<>>, !.failed = TRUE])

LogsOnOrOff(row) ==
  /\ version + 2 <= MaxVersions
  /\ usable' = IF row \in usable THEN usable \ {row} ELSE usable \cup {row}
  /\ IF open THEN EnsureLoaded(usable') ELSE UNCHANGED <<inventory, version, questions, view>>
  /\ UNCHANGED <<changes, open, time, now>>

-----------------------------------------------------------------------------
(* The page.                                                               *)

OpenPage ==
  /\ ~open /\ version + 2 <= MaxVersions
  /\ open' = TRUE /\ now' = time /\ EnsureLoaded(usable)
  /\ UNCHANGED <<usable, changes, time>>
ClosePage ==
  /\ open /\ open' = FALSE
  /\ UNCHANGED <<usable, inventory, version, questions, view, changes, time, now>>

\* A filter, the order or the mode: back to the first page.
SetView(changed) ==
  /\ open /\ changes < MaxChanges /\ changed # view
  /\ changes' = changes + 1 /\ view' = [changed EXCEPT !.page = 1]
  /\ UNCHANGED <<usable, inventory, version, questions, open, time, now>>
SetPageSize(size) == SetView([view EXCEPT !.size = size])
Settings ==
  \/ \E category \in {"all", "skin", "case"} : SetView([view EXCEPT !.category = category])
  \/ \E trade \in {"all", "tradable", "cooling", "locked"} : SetView([view EXCEPT !.trade = trade])
  \/ \E rarity \in {0} \cup {thing.rarity : thing \in Things} : SetView([view EXCEPT !.rarity = rarity])
  \/ \E name \in {0} \cup {thing.name : thing \in Things} : SetView([view EXCEPT !.search = name])
  \/ \E sort \in {"default", "name", "rarity", "unlock", "wear"} : SetView([view EXCEPT !.sort = sort])
  \/ \E mode \in {"single", "stack"} : SetView([view EXCEPT !.mode = mode])
SetPage(number) ==
  /\ open /\ number \in 1..PageCount(Entries) /\ view' = [view EXCEPT !.page = number]
  /\ UNCHANGED <<usable, inventory, version, questions, changes, open, time, now>>

\* The page looks at the clock every minute.
Minute ==
  /\ time < LastTime /\ time' = time + 1 /\ now' = IF open THEN time' ELSE now
  /\ UNCHANGED <<usable, inventory, version, questions, view, changes, open>>

-----------------------------------------------------------------------------
InventoryPageInit ==
  /\ usable = {} /\ inventory = ClearLoaded(NoRow) /\ version = 0 /\ questions = {}
  \* The mode and the size are those of the last visit.
  /\ view \in [mode : {"single", "stack"}, size : PageSizes, page : {1}, search : {0}, category : {"all"}, trade : {"all"}, rarity : {0}, sort : {"default"}]
  /\ changes = 0 /\ open = FALSE /\ time = 0 /\ now = 0
InventoryClicks ==
  \/ \E row \in Rows : SelectAccount(row)
  \/ RefreshInventory \/ OpenPage \/ ClosePage \/ Settings
  \/ \E size \in PageSizes : SetPageSize(size)
  \/ \E number \in 1..MaxItems : SetPage(number)
InventoryPageNext ==
  \/ InventoryClicks \/ Minute
  \/ \E row \in Rows : LogsOnOrOff(row)
  \/ \E question \in questions : CameNot(question) \/ \E list \in Brought(question) : Came(question, list)
InventoryPageSpec == InventoryPageInit /\ [][InventoryPageNext]_inventoryPageVars

-----------------------------------------------------------------------------
(* Properties.                                                             *)

\* An open page that shows an account shows its inventory, says what went
\* wrong or waits for an answer that is still to come and will be taken: no
\* answer that came late or for another account takes its place
\* (stores/inventory.ts, version).
SelectedIsServed ==
  /\ inventory.loading <=> \E question \in questions : question.version = version
  /\ open => /\ inventory.selected \in usable \cup {NoRow} /\ (inventory.selected = NoRow => usable = {})
             /\ inventory.selected # NoRow => inventory.loading \/ inventory.failed \/ Loaded

\* Page after page shows every item the filters leave, and shows it once; as
\* long as anything is left the page shown is not empty; and a filter whose
\* value no item has hides nothing (lib/inventory.ts pageOf, stackItems).
EveryItemOnce ==
  LET entries == Entries
      pages == FlattenSeq([number \in 1..PageCount(entries) |-> FlattenSeq(PageOf(entries, number))])
  IN /\ IsInjective(pages) /\ ToSet(pages) = ToSet(FilterItems(Shown))
     /\ entries # <<>> => Paged # <<>>
     /\ view.trade = "all" /\ view.search = 0 /\ (ActiveCategory = "all" \/ ActiveRarity = 0) /\ Shown # <<>> => entries # <<>>

\* The numbers at the top add up, and agree with what the list shows: with no
\* filter as many stacks as there are items of another name, and nothing is
\* said to unlock earlier than the first cooling item does.
NumbersAgree ==
  /\ InState(Shown, "tradable") + InState(Shown, "cooling") + InState(Shown, "locked") = Len(Shown)
  /\ view.mode = "stack" /\ Len(Filtered) = Len(Shown) => Len(Entries) = Distinct
  /\ NextUnlock = 0 <=> InState(Shown, "cooling") = 0
  /\ NextUnlock # 0 => NextUnlock > now

\* By the time of trading, what can be traded stands before what cannot, and
\* what is free sooner before what is free later; in stacks too, each by its
\* best item (lib/inventory.ts sortItems: sorted first, stacked then).
SoonestFirst ==
  view.sort = "unlock" =>
    LET entries == Entries
        best(i) == entries[i][1]
    IN \A i, j \in DOMAIN entries : i < j =>
         /\ Badge(entries[j]) # "none" => Badge(entries[i]) # "none"
         /\ TradeStateOf(best(i), now) = "locked" => InState(entries[j], "locked") = Len(entries[j])
         /\ TradeStateOf(best(i), now) = "cooling" /\ TradeStateOf(best(j), now) = "cooling" => best(i).after <= best(j).after

\* The list is what the filters leave of the inventory, in order.
ListAsMeant == EveryItemOnce /\ NumbersAgree /\ SoonestFirst

-----------------------------------------------------------------------------
(* Why the selected account is served: what is asked last is asked for it, *)
(* only once, and nothing is newer.                                        *)
StoreTyped ==
  /\ usable \subseteq Rows /\ version \in Nat /\ open \in BOOLEAN
  /\ inventory \in [selected : Rows \cup {NoRow}, loaded : Rows \cup {NoRow}, items : {inventory.items},
                    failed : BOOLEAN, loading : BOOLEAN]
LastIsAsked ==
  /\ questions \subseteq [version : 0..version, row : Rows]
  /\ \A q \in questions : q.version = version => q.row = inventory.selected
StockInv == StoreTyped /\ LastIsAsked /\ SelectedIsServed
=============================================================================
