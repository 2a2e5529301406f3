--------------------------- MODULE C5SweeperProofs ---------------------------
(***************************************************************************)
(* The C5 sweeper, for any number of orders, listings, watch lists and     *)
(* settings: what it may have spent counts; no listing is ordered by its   *)
(* id a second time while an order for it counts; orders go out within the *)
(* caps and leave the reserve; and the money that leaves the account is    *)
(* within the largest budget the user ever allowed.                        *)
(*                                                                         *)
(* The first half needs no numbers: what ties a row to its order (Ledger). *)
(* The second adds up what orders cost: sums over finite sets, what the    *)
(* sweep keeps in its variables (Books), and the steps that keep it.       *)
(***************************************************************************)
EXTENDS C5Sweeper, FiniteSetTheorems, SequenceTheorems, TLAPS

\* The app-key may be deleted and entered again, but it is always the one of the
\* same C5 account.  Without this LiveIsCounted is false: see C5Sweeper_keyswap.
OneAccount == \A k, l \in KeyChoices \ {NoKey} : k = l

-----------------------------------------------------------------------------
(* The inductive invariant. *)

\* Rows and the platform's orders are records of their shapes.
Shaped ==
  /\ rows = [o \in Orders |-> rows[o]] /\ plat = [o \in Orders |-> plat[o]]
  /\ \A o \in Orders : /\ DOMAIN rows[o] = DOMAIN NoRow
                       /\ DOMAIN plat[o] = {"state", "key", "product", "pay"}

\* What ties the row of an order to the order at the platform: there is a row
\* before there is an order, an order waiting for its payment has its number, and
\* an order that has grown old is executed no more.
Tied(o) ==
  /\ rows[o].status = "none" <=> plat[o].state = "none"
  /\ OneAccount /\ LiveOnPlatform(o) => Counted(o)
  /\ plat[o].state = "paying" => rows[o].orderId = TRUE
  /\ o \in old => rows[o].status # "none" /\ plat[o].state # "sent"
  /\ plat[o].state # "none" => plat[o].key \in KeyChoices \ {NoKey}

\* The key is one the user chose, and sweeping goes on with a key only.
Keyed == key \in KeyChoices /\ (run = "sweeping" => key # NoKey)

Ledger == Shaped /\ Keyed /\ \A o \in Orders : Tied(o)

-----------------------------------------------------------------------------
(* The steps. *)

\* No order and no row: nothing that ties them changes.
LEMMA NothingOrdered ==
  ASSUME Ledger, UNCHANGED <<config, rows, old, plat>>
  PROVE  Ledger'
  BY DEF Ledger, Shaped, Keyed, Tied, LiveOnPlatform, Counted, CountedStatus, config, NoRow

\* The row of one order changes; what ties it to its order is seen to.
LEMMA OneRow ==
  ASSUME Ledger, NEW o \in Orders, NEW row, rows' = [rows EXCEPT ![o] = row],
         UNCHANGED <<config, old, plat>>,
         DOMAIN row = DOMAIN NoRow,
         row.status = "none" <=> rows[o].status = "none",
         OneAccount /\ LiveOnPlatform(o) => row.status \in CountedStatus,
         plat[o].state = "paying" => row.orderId = TRUE
  PROVE  Ledger'
<1>1. Shaped'
  BY DEF Ledger, Shaped
<1>2. Keyed'
  BY DEF Ledger, Keyed, config
<1>3. ASSUME NEW q \in Orders PROVE Tied(q)'
  <2>1. CASE q = o
    BY <2>1 DEF Ledger, Shaped, Tied, LiveOnPlatform, Counted
  <2>2. CASE q # o
    BY <2>2 DEF Ledger, Shaped, Tied, LiveOnPlatform, Counted
  <2> QED BY <2>1, <2>2
<1> QED BY <1>1, <1>2, <1>3 DEF Ledger

\* Reconciliation: an order is released only when it can no more be executed.
LEMMA ReconcileStep ==
  ASSUME Ledger, NEW o \in Orders, Reconcile(o)
  PROVE  Ledger'
<1>1. DOMAIN rows[o] = DOMAIN NoRow /\ Tied(o)
  BY DEF Ledger, Shaped
<1> USE DEF NoRow
<1>2. CASE RefreshFails(o)
  BY <1>1, <1>2, OneRow DEF RefreshFails, RefreshOne, world, Tied, Counted
<1>3. CASE RefreshMissing(o)
  <2>1. rows' = [rows EXCEPT ![o] = GivenUp(o)] /\ UNCHANGED <<config, old, plat>> /\ key # NoKey
    BY <1>3 DEF RefreshMissing, RefreshOne, world
  <2>2. DOMAIN GivenUp(o) = DOMAIN rows[o] /\ GivenUp(o).orderId = rows[o].orderId
        /\ \/ GivenUp(o).status = rows[o].status
           \/ /\ GivenUp(o).status = "failed" /\ rows[o].status = "unknown"
              /\ ~rows[o].orderId /\ o \in old
    BY <1>1 DEF GivenUp
  <2>3. OneAccount => plat[o].state \in {"sent", "refused", "paying", "none"}
    <3>1. plat[o].state \in {"sent", "refused", "paying"} \/ plat[o].key # key
      BY <1>3 DEF RefreshMissing
    <3>2. OneAccount /\ plat[o].state # "none" => plat[o].key = key
      BY <1>1, <2>1 DEF OneAccount, Tied, Ledger, Keyed
    <3> QED BY <3>1, <3>2
  <2>4. OneAccount /\ GivenUp(o).status = "failed" => ~LiveOnPlatform(o) \/ rows[o].status = "failed"
    BY <1>1, <2>2, <2>3 DEF Tied, LiveOnPlatform
  <2> QED BY <1>1, <2>1, <2>2, <2>4, OneRow DEF Tied, Counted, CountedStatus
<1>4. CASE RefreshFound(o)
  <2>1. rows' = [rows EXCEPT ![o] = Found(o)] /\ UNCHANGED <<config, old, plat>>
    BY <1>4 DEF RefreshFound, RefreshOne, world
  <2>2. DOMAIN Found(o) = DOMAIN rows[o] /\ Found(o).orderId = TRUE
        /\ Found(o).status = IF plat[o].state = "cancelled" THEN "cancelled"
                             ELSE IF rows[o].status = "unknown" THEN "ok" ELSE rows[o].status
    BY <1>1 DEF Found
  <2>3. plat[o].state \in {"paying", "placed", "settled", "cancelled"}
    BY <1>4 DEF RefreshFound
  <2> QED BY <1>1, <2>1, <2>2, <2>3, OneRow DEF Tied, Counted, CountedStatus, LiveOnPlatform
<1> QED BY <1>2, <1>3, <1>4 DEF Reconcile

\* The user marks an order as the platform shows it.
LEMMA ResolveStep ==
  ASSUME Ledger, NEW o \in Orders, ResolvePurchase(o)
  PROVE  Ledger'
<1>1. DOMAIN rows[o] = DOMAIN NoRow /\ Tied(o)
  BY DEF Ledger, Shaped
<1>2. PICK s \in {"ok", "failed"} :
        /\ rows' = [rows EXCEPT ![o].status = s]
        /\ s = "ok" \/ plat[o].state \in {"refused", "cancelled"}
  BY DEF ResolvePurchase
<1> DEFINE row == [rows[o] EXCEPT !.status = s]
<1>3. rows' = [rows EXCEPT ![o] = row] /\ DOMAIN row = DOMAIN rows[o]
      /\ row.status = s /\ row.orderId = rows[o].orderId
  BY <1>1, <1>2 DEF NoRow
<1>4. UNCHANGED <<config, old, plat>> /\ rows[o].status # "none"
  BY DEF ResolvePurchase, world
<1> HIDE DEF row
<1>5. LiveOnPlatform(o) => row.status \in CountedStatus
  BY <1>2, <1>3 DEF LiveOnPlatform, CountedStatus
<1>6. plat[o].state = "paying" => row.orderId = TRUE
  BY <1>1, <1>3 DEF Tied
<1> QED BY <1>1, <1>2, <1>3, <1>4, <1>5, <1>6, OneRow

\* An order that was not there before: its row and its request go out together.
Ordered(o) == /\ rows[o].status = "none"
              /\ rows'[o].status = "unknown" /\ DOMAIN rows'[o] = DOMAIN NoRow
              /\ plat'[o] = Sent
Kept(o) == rows'[o] = rows[o] /\ plat'[o] = plat[o]

\* New orders are tied to their rows.
LEMMA OrderStep ==
  ASSUME Ledger, key # NoKey, UNCHANGED <<config, old>>,
         rows' = [o \in Orders |-> rows'[o]], plat' = [o \in Orders |-> plat'[o]],
         \A o \in Orders : Ordered(o) \/ Kept(o)
  PROVE  Ledger'
<1>1. ASSUME NEW o \in Orders, Ordered(o)
      PROVE  Tied(o)' /\ DOMAIN rows'[o] = DOMAIN NoRow
             /\ DOMAIN plat'[o] = {"state", "key", "product", "pay"}
  <2>1. plat'[o].state = "sent" /\ plat'[o].key = key
        /\ DOMAIN plat'[o] = {"state", "key", "product", "pay"}
    BY <1>1 DEF Ordered, Sent
  <2>2. o \notin old /\ key \in KeyChoices \ {NoKey}
    BY <1>1 DEF Ordered, Ledger, Tied, Keyed
  <2> QED BY <1>1, <2>1, <2>2 DEF Ordered, Tied, LiveOnPlatform, Counted, CountedStatus
<1>2. ASSUME NEW o \in Orders, Kept(o)
      PROVE  Tied(o)' /\ DOMAIN rows'[o] = DOMAIN NoRow
             /\ DOMAIN plat'[o] = {"state", "key", "product", "pay"}
  BY <1>2 DEF Kept, Ledger, Shaped, Tied, LiveOnPlatform, Counted, CountedStatus
<1>3. Keyed'
  BY DEF Ledger, Keyed, config
<1> QED BY <1>1, <1>2, <1>3 DEF Ledger, Shaped, NoRow

\* What a batch orders: listings no order that counts is for.
LEMMA SearchOrders ==
  ASSUME Ledger, NEW found, SearchReply(found)
  PROVE  /\ key # NoKey /\ UNCHANGED <<config, old>>
         /\ rows' = [o \in Orders |-> rows'[o]] /\ plat' = [o \in Orders |-> plat'[o]]
         /\ \A o \in Orders : Kept(o) \/ (Ordered(o) /\ rows'[o].product \notin ProductIds)
<1>1. key # NoKey /\ UNCHANGED <<config, old>>
  BY DEF SearchReply
<1> DEFINE picks == PickListings(found, Current.item.maxPrice, cyc.qty, cyc.money, ProductIds \cup skip)
<1>2. CASE UNCHANGED <<rows, plat>>
  BY <1>1, <1>2 DEF Ledger, Shaped, Kept
<1>3. CASE ~UNCHANGED <<rows, plat>>
  <2>1. PICK no \in [picks -> Unused] :
          /\ rows' = [o \in Orders |-> IF \E l \in picks : no[l] = o
                                       THEN LET l == CHOOSE l \in picks : no[l] = o
                                            IN  SendOrder(o, l.id, l.price)
                                       ELSE rows[o]]
          /\ plat' = [o \in Orders |-> IF \E l \in picks : no[l] = o THEN Sent ELSE plat[o]]
    BY <1>3, Zenon DEF SearchReply
  <2>2. \A l \in picks : l.id \notin ProductIds
    BY DEF PickListings, Eligible
  <2> HIDE DEF picks
  <2>3. ASSUME NEW o \in Orders, \E l \in picks : no[l] = o
        PROVE  Ordered(o) /\ rows'[o].product \notin ProductIds
    <3> DEFINE l == CHOOSE l \in picks : no[l] = o
    <3>1. l \in picks /\ no[l] = o
      BY <2>3
    <3>2. rows'[o] = SendOrder(o, l.id, l.price) /\ plat'[o] = Sent
      BY <2>1, <2>3
    <3>3. o \in Unused
      BY <3>1
    <3> HIDE DEF l
    <3>4. rows'[o].status = "unknown" /\ rows'[o].product = l.id /\ DOMAIN rows'[o] = DOMAIN NoRow
      BY <3>2 DEF SendOrder, NoRow
    <3> QED BY <2>2, <3>1, <3>2, <3>3, <3>4 DEF Ordered, Unused
  <2>4. ASSUME NEW o \in Orders, ~\E l \in picks : no[l] = o PROVE Kept(o)
    BY <2>1, <2>4 DEF Kept
  <2> QED BY <1>1, <2>1, <2>3, <2>4
<1> QED BY <1>2, <1>3

\* A batch goes out.
LEMMA SearchStep ==
  ASSUME Ledger, NEW found, SearchReply(found)
  PROVE  Ledger'
  BY SearchOrders, OrderStep

\* The loop sweeps only while it may, and then there is a key.
LEMMA QuickOrderStep ==
  ASSUME Ledger, NEW o \in Orders, QuickOrder(o)
  PROVE  Ledger'
<1>1. key # NoKey /\ UNCHANGED <<config, old>>
  BY DEF QuickOrder, WantsMore, CanBuy, Ledger, Keyed
<1>2. /\ rows' = [rows EXCEPT ![o] = SendOrder(o, NoProduct, Target)]
      /\ plat' = [plat EXCEPT ![o] = Sent] /\ o \in Unused
  BY DEF QuickOrder
<1>3. Ordered(o)
  <2>1. rows'[o] = SendOrder(o, NoProduct, Target) /\ plat'[o] = Sent
    BY <1>2 DEF Ledger, Shaped
  <2> QED BY <1>2, <2>1 DEF Ordered, Unused, SendOrder, NoRow
<1>4. \A q \in Orders : q # o => Kept(q)
  BY <1>2 DEF Ledger, Shaped, Kept
<1>5. rows' = [q \in Orders |-> rows'[q]] /\ plat' = [q \in Orders |-> plat'[q]]
  BY <1>2 DEF Ledger, Shaped
<1> QED BY <1>1, <1>3, <1>4, <1>5, OrderStep

\* Replies.  A row follows its order, or stays as it is: it is released only
\* together with a refusal.
Follows(o) ==
  /\ DOMAIN rows'[o] = DOMAIN rows[o] /\ DOMAIN plat'[o] = DOMAIN plat[o] /\ plat'[o].key = plat[o].key
  /\ rows'[o].status = "none" <=> rows[o].status = "none"
  /\ plat'[o].state = "none" <=> plat[o].state = "none"
  /\ OneAccount => plat'[o].state \in {"refused", "cancelled"} \/ rows'[o].status \in CountedStatus
  /\ plat'[o].state = "paying" => rows'[o].orderId = TRUE
  /\ plat'[o].state = "sent" => plat[o].state = "sent"

\* Orders are answered, each by itself.
LEMMA ReplyStep ==
  ASSUME Ledger, UNCHANGED <<config, old>>,
         rows' = [o \in Orders |-> rows'[o]], plat' = [o \in Orders |-> plat'[o]],
         \A o \in Orders : Follows(o) \/ Kept(o)
  PROVE  Ledger'
<1>1. ASSUME NEW o \in Orders, Follows(o) PROVE Tied(o)'
  BY <1>1 DEF Follows, Ledger, Tied, LiveOnPlatform, Counted, CountedStatus
<1>2. ASSUME NEW o \in Orders, Kept(o) PROVE Tied(o)'
  BY <1>2 DEF Kept, Ledger, Tied, LiveOnPlatform, Counted
<1>3. Keyed'
  BY DEF Ledger, Keyed, config
<1>4. Shaped'
  BY DEF Ledger, Shaped, Follows, Kept, NoRow
<1> QED BY <1>1, <1>2, <1>3, <1>4 DEF Ledger

\* The answer to a batch, or none.
LEMMA BatchStep ==
  ASSUME Ledger, BatchTimeout \/ BatchRefused \/ \E ok, bad : BatchReply(ok, bad)
  PROVE  Ledger'
<1>1. CASE BatchTimeout
  BY <1>1, NothingOrdered DEF BatchTimeout, table, world
<1>2. CASE BatchRefused
  <2>1. /\ rows' = [o \in Orders |-> IF o \in cyc.sent THEN [rows[o] EXCEPT !.status = "failed"] ELSE rows[o]]
        /\ plat' = [o \in Orders |-> IF o \in cyc.sent THEN [plat[o] EXCEPT !.state = "refused"] ELSE plat[o]]
        /\ \A o \in cyc.sent : plat[o].state = "sent"
        /\ UNCHANGED <<config, old>>
    BY <1>2 DEF BatchRefused
  <2>2. ASSUME NEW o \in Orders, o \in cyc.sent PROVE Follows(o)
    BY <2>1, <2>2 DEF Follows, Ledger, Shaped, Tied, NoRow
  <2>3. ASSUME NEW o \in Orders, o \notin cyc.sent PROVE Kept(o)
    BY <2>1, <2>3 DEF Kept
  <2> QED BY <2>1, <2>2, <2>3, ReplyStep
<1>3. ASSUME NEW ok, NEW bad, BatchReply(ok, bad) PROVE Ledger'
  <2>1. /\ rows' = [o \in Orders |->
              CASE o \in ok  -> [rows[o] EXCEPT !.status = "ok", !.pay = Paid(o), !.orderId = TRUE]
                [] o \in bad -> [rows[o] EXCEPT !.status = "failed"]
                [] OTHER     -> rows[o]]
        /\ \A o \in ok : plat[o].state = "placed"
        /\ \A o \in bad : plat[o].state = "refused"
        /\ UNCHANGED <<config, old, plat>>
    BY <1>3 DEF BatchReply, world
  <2>2. ASSUME NEW o \in Orders, o \in ok PROVE Follows(o)
    <3>1. rows'[o] = [rows[o] EXCEPT !.status = "ok", !.pay = Paid(o), !.orderId = TRUE]
      BY <2>1, <2>2
    <3> QED BY <2>1, <2>2, <3>1 DEF Follows, Ledger, Shaped, Tied, NoRow, CountedStatus
  <2>3. ASSUME NEW o \in Orders, o \in bad PROVE Follows(o)
    <3>1. rows'[o] = [rows[o] EXCEPT !.status = "failed"]
      BY <2>1, <2>3
    <3> QED BY <2>1, <2>3, <3>1 DEF Follows, Ledger, Shaped, Tied, NoRow, CountedStatus
  <2>4. ASSUME NEW o \in Orders, o \notin ok, o \notin bad PROVE Kept(o)
    BY <2>1, <2>4 DEF Kept
  <2>5. rows' = [o \in Orders |-> rows'[o]] /\ plat' = [o \in Orders |-> plat'[o]]
    BY <2>1 DEF Ledger, Shaped
  <2> QED BY <2>1, <2>2, <2>3, <2>4, <2>5, ReplyStep
<1> QED BY <1>1, <1>2, <1>3

\* One order at a time: every other one is kept.
LEMMA OneFollows ==
  ASSUME Ledger, UNCHANGED <<config, old>>, NEW o \in Orders, Follows(o), NEW row, NEW order,
         rows' = [rows EXCEPT ![o] = row], plat' = [plat EXCEPT ![o] = order]
  PROVE  Ledger'
<1>1. rows' = [q \in Orders |-> rows'[q]] /\ plat' = [q \in Orders |-> plat'[q]]
  BY DEF Ledger, Shaped
<1>2. \A q \in Orders : q # o => Kept(q)
  BY DEF Ledger, Shaped, Kept
<1> QED BY <1>1, <1>2, ReplyStep

\* The answer to a quick order, or none.
LEMMA QuickStep ==
  ASSUME Ledger, NEW o \in Orders, QuickRefused(o) \/ QuickPaid(o) \/ QuickPaying(o)
  PROVE  Ledger'
<1>0. /\ DOMAIN rows[o] = DOMAIN NoRow /\ Tied(o)
      /\ DOMAIN plat[o] = {"state", "key", "product", "pay"}
      /\ rows = [q \in Orders |-> rows[q]] /\ plat = [q \in Orders |-> plat[q]]
  BY DEF Ledger, Shaped
<1>1. CASE QuickRefused(o)
  <2> DEFINE row == [rows[o] EXCEPT !.status = "failed"]
             order == [plat[o] EXCEPT !.state = "refused"]
  <2>1. rows' = [rows EXCEPT ![o] = row] /\ plat' = [plat EXCEPT ![o] = order]
        /\ UNCHANGED <<config, old>>
        /\ plat[o].state \in {"sent", "refused"}
    BY <1>1 DEF QuickRefused
  <2>2. rows'[o] = row /\ plat'[o] = order
    BY <1>0, <2>1
  <2>3. Follows(o)
    BY <1>0, <2>1, <2>2 DEF Follows, Tied, NoRow
  <2> QED BY <2>1, <2>3, OneFollows
<1>2. CASE QuickPaid(o)
  <2> DEFINE row == [rows[o] EXCEPT !.status = "ok", !.pay = Paid(o), !.orderId = TRUE]
  <2>1. rows' = [rows EXCEPT ![o] = row] /\ UNCHANGED <<config, old, plat>> /\ plat[o].state = "placed"
    BY <1>2 DEF QuickPaid, QuickTaken, world
  <2>2. rows'[o] = row /\ plat'[o] = plat[o] /\ plat' = [plat EXCEPT ![o] = plat[o]]
    BY <1>0, <2>1
  <2>3. Follows(o)
    BY <1>0, <2>1, <2>2 DEF Follows, Tied, NoRow, CountedStatus
  <2> QED BY <2>1, <2>2, <2>3, OneFollows
<1>3. CASE QuickPaying(o)
  <2> DEFINE row == [rows[o] EXCEPT !.pay = Target, !.orderId = TRUE]
             order == [plat[o] EXCEPT !.state = "paying"]
  <2>1. rows' = [rows EXCEPT ![o] = row] /\ plat' = [plat EXCEPT ![o] = order]
        /\ UNCHANGED <<config, old>>
        /\ plat[o].state = "sent"
    BY <1>3 DEF QuickPaying, QuickTaken
  <2>2. rows'[o] = row /\ plat'[o] = order
    BY <1>0, <2>1
  <2>3. OneAccount => rows[o].status \in CountedStatus
    BY <1>0, <2>1 DEF Tied, LiveOnPlatform, Counted
  <2>4. Follows(o)
    BY <1>0, <2>1, <2>2, <2>3 DEF Follows, NoRow
  <2> QED BY <2>1, <2>4, OneFollows
<1> QED BY <1>1, <1>2, <1>3

\* The platform carries an order out, refuses, cancels or settles it.
LEMMA OneOrder ==
  ASSUME Ledger, NEW o \in Orders, NEW order, UNCHANGED <<config, old, rows>>,
         plat' = [plat EXCEPT ![o] = order],
         DOMAIN order = DOMAIN plat[o], order.key = plat[o].key,
         \/ plat[o].state \in {"sent", "paying", "placed"} /\ order.state \in {"placed", "settled"}
         \/ plat[o].state # "none" /\ order.state \in {"refused", "cancelled"}
  PROVE  Ledger'
<1>1. Tied(o) /\ rows' = [rows EXCEPT ![o] = rows[o]]
  BY DEF Ledger, Shaped
<1>2. plat'[o] = order /\ rows'[o] = rows[o]
  BY DEF Ledger, Shaped
<1>3. Follows(o)
  BY <1>1, <1>2 DEF Follows, Tied, LiveOnPlatform, Counted
<1> QED BY <1>1, <1>3, OneFollows

\* The platform executes, refuses, cancels or settles an order.
LEMMA PlatformStep ==
  ASSUME Ledger, Platform
  PROVE  Ledger'
<1>1. PICK o \in Orders : (\E l \in Listings : Execute(o, l)) \/ Refuse(o) \/ Cancel(o) \/ Settle(o)
  BY DEF Platform
<1>2. DOMAIN plat[o] = {"state", "key", "product", "pay"}
  BY DEF Ledger, Shaped
<1>3. UNCHANGED <<config, old, rows>>
  BY <1>1 DEF Execute, Refuse, Cancel, Settle, table
<1>4. ASSUME NEW l \in Listings, Execute(o, l) PROVE Ledger'
  <2> DEFINE order == [plat[o] EXCEPT !.state = "placed", !.product = l.id, !.pay = l.price]
  <2>1. plat' = [plat EXCEPT ![o] = order] /\ plat[o].state \in {"sent", "paying"}
    BY <1>4 DEF Execute, Ledger, Shaped
  <2>2. DOMAIN order = DOMAIN plat[o] /\ order.key = plat[o].key /\ order.state = "placed"
    BY <1>2
  <2> HIDE DEF order
  <2> QED BY <1>3, <2>1, <2>2, OneOrder
<1>5. ASSUME NEW to \in {"refused", "cancelled", "settled"}, plat' = [plat EXCEPT ![o].state = to],
             \/ plat[o].state # "none" /\ to \in {"refused", "cancelled"}
             \/ plat[o].state = "placed"
      PROVE  Ledger'
  <2> DEFINE order == [plat[o] EXCEPT !.state = to]
  <2>1. DOMAIN order = DOMAIN plat[o] /\ order.key = plat[o].key /\ order.state = to
    BY <1>2
  <2>2. plat' = [plat EXCEPT ![o] = order]
    BY <1>5
  <2> HIDE DEF order
  <2> QED BY <1>3, <1>5, <2>1, <2>2, OneOrder
<1>6. CASE Refuse(o)
  <2>1. (IF plat[o].state = "sent" THEN "refused" ELSE "cancelled") \in {"refused", "cancelled"}
    OBVIOUS
  <2> QED BY <1>5, <1>6, <2>1 DEF Refuse
<1>7. CASE Cancel(o)
  BY <1>5, <1>7 DEF Cancel
<1>8. CASE Settle(o)
  BY <1>5, <1>8 DEF Settle
<1> QED BY <1>1, <1>4, <1>6, <1>7, <1>8

\* Settings, watch list, key and run state; restarts.
LEMMA PageStep ==
  ASSUME Ledger, \/ \E next \in {"stopped", "sweeping"} : SetRun(next)
                 \/ \E s \in SettingsChoices, k \in KeyChoices : SaveSettings(s, k)
                 \/ \E w \in Watchlists : SaveWatchlist(w)
                 \/ Restart
  PROVE  Ledger'
<1>1. UNCHANGED <<rows, old, plat>>
  BY DEF SetRun, SaveSettings, SaveWatchlist, Restart, table, world
<1>2. Keyed'
  BY DEF Ledger, Keyed, SetRun, SaveSettings, SaveWatchlist, Restart
<1> QED BY <1>1, <1>2 DEF Ledger, Shaped, Tied, LiveOnPlatform, Counted, NoRow

\* Time passes.
LEMMA ClockStep ==
  ASSUME Ledger, Clock
  PROVE  Ledger'
<1>1. ASSUME NEW o \in Orders, GrowsOld(o) PROVE Ledger'
  <2>1. old' = old \cup {o} /\ UNCHANGED <<config, rows, plat>>
        /\ rows[o].status = "unknown" /\ plat[o].state # "sent"
    BY <1>1 DEF GrowsOld, world
  <2>2. \A q \in Orders : Tied(q)'
    BY <2>1 DEF Ledger, Tied, LiveOnPlatform, Counted
  <2> QED BY <2>1, <2>2 DEF Ledger, Shaped, Keyed, config, NoRow
<1>2. ASSUME NEW o \in Orders, DueAgain(o) PROVE Ledger'
  BY <1>2, NothingOrdered DEF DueAgain, world
<1>3. ASSUME NEW x, PauseEnds(x) \/ SkipEnds(x) PROVE Ledger'
  BY <1>3, NothingOrdered DEF PauseEnds, SkipEnds, table, world
<1> QED BY <1>1, <1>2, <1>3 DEF Clock

-----------------------------------------------------------------------------
(* The theorems. *)

\* Every step keeps rows and orders tied.
LEMMA LedgerStep ==
  ASSUME Ledger, [Next]_vars
  PROVE  Ledger'
<1>1. CASE StartCycle \/ RefreshOrders
  BY <1>1, NothingOrdered DEF StartCycle, RefreshOrders, world
<1>2. ASSUME NEW hit, StatsReply(hit) PROVE Ledger'
  BY <1>2, NothingOrdered DEF StatsReply, table, world
<1>3. CASE PickItem \/ BalanceReply \/ CycleFails \/ SearchFails \/ QuickEnds \/ QuickTimeout
  BY <1>3, NothingOrdered
     DEF PickItem, BalanceReply, CycleFails, SearchFails, QuickEnds, QuickTimeout, table, world
<1>4. CASE Buy
  BY <1>2, <1>3, <1>4, SearchStep, BatchStep, QuickOrderStep, QuickStep DEF Buy
<1>5. CASE Page
  BY <1>1, <1>5, PageStep, ResolveStep DEF Page
<1>6. CASE UNCHANGED vars
  BY <1>6, NothingOrdered DEF vars, table, world
<1> QED BY <1>1, <1>4, <1>5, <1>6, ClockStep, PlatformStep, PageStep, ReconcileStep DEF Next

\* So they are always.
LEMMA LedgerHolds == Spec => []Ledger
<1>1. Init => Ledger
  <2> SUFFICES ASSUME Init PROVE Ledger
    OBVIOUS
  <2>1. \A o \in Orders : rows[o] = NoRow
        /\ plat[o] = [state |-> "none", key |-> NoKey, product |-> NoProduct, pay |-> 0]
        /\ o \notin old
    BY DEF Init
  <2>2. Shaped
    BY <2>1 DEF Init, Shaped
  <2>3. Keyed
    BY DEF Init, Keyed
  <2>4. \A o \in Orders : rows[o].status = "none" /\ plat[o].state = "none" /\ o \notin old
    <3>1. NoRow.status = "none"
      BY DEF NoRow
    <3> QED BY <2>1, <3>1
  <2>5. \A o \in Orders : Tied(o)
    BY <2>4 DEF Tied, LiveOnPlatform
  <2> QED BY <2>2, <2>3, <2>5 DEF Ledger
<1>2. Ledger /\ [Next]_vars => Ledger'
  BY LedgerStep
<1> QED BY <1>1, <1>2, PTL DEF Spec

\* While all app-keys are of one C5 account, an order that was executed, or may
\* still be, counts: whatever is lost, timed out, marked by hand, or restarted.
THEOREM WhatMayBeSpentCounts ==
  ASSUME OneAccount
  PROVE  Spec => []LiveIsCounted
<1>1. Ledger => LiveIsCounted
  BY DEF Ledger, Tied, LiveIsCounted
<1> QED BY <1>1, LedgerHolds, PTL

\* Orders come from the two strategies alone.
LEMMA NoOtherOrders ==
  ASSUME Ledger, Ledger', [Next]_vars, ~\E found \in SUBSET Listings : SearchReply(found),
         ~\E o \in Orders : QuickOrder(o)
  PROVE  NewOrders = {}
<1> SUFFICES ASSUME NEW o \in Orders, plat[o].state = "none" PROVE plat'[o].state = "none"
  BY DEF NewOrders, Ledger, Tied
<1> USE DEF Ledger, Shaped
<1>1. ASSUME NEW ok, NEW bad, BatchReply(ok, bad) PROVE plat' = plat
  BY <1>1 DEF BatchReply, world
<1>2. ASSUME NEW hit, StatsReply(hit) PROVE plat' = plat
  BY <1>2 DEF StatsReply, world
<1>3. CASE BatchRefused
  BY <1>3 DEF BatchRefused
<1>4. ASSUME NEW q \in Orders, QuickRefused(q) \/ QuickPaid(q) \/ QuickPaying(q) PROVE plat'[o].state = "none"
  BY <1>4 DEF QuickRefused, QuickPaid, QuickPaying, world
<1>5. CASE Buy
  <2>1. CASE PickItem \/ BalanceReply \/ CycleFails \/ SearchFails \/ QuickEnds \/ BatchTimeout \/ QuickTimeout
    BY <2>1 DEF PickItem, BalanceReply, CycleFails, SearchFails, QuickEnds, BatchTimeout,
       QuickTimeout, world
  <2> QED BY <1>1, <1>2, <1>3, <1>4, <1>5, <2>1 DEF Buy
<1>6. CASE Page \/ Restart
  BY <1>6 DEF Page, SetRun, SaveSettings, SaveWatchlist, RefreshOrders, ResolvePurchase, Restart, world
<1>7. CASE Clock \/ StartCycle \/ UNCHANGED vars
  BY <1>7 DEF Clock, DueAgain, GrowsOld, PauseEnds, SkipEnds, StartCycle, vars, world
<1>8. CASE Platform
  BY <1>8 DEF Platform, Execute, Refuse, Cancel, Settle
<1>9. CASE \E q \in Orders : Reconcile(q)
  BY <1>9 DEF Reconcile, RefreshFails, RefreshMissing, RefreshFound, RefreshOne, world
<1> QED BY <1>5, <1>6, <1>7, <1>8, <1>9 DEF Next

\* However stale a search result is, a listing that an earlier order may have
\* bought is not ordered again by its id while that order counts.
THEOREM NoListingTwice == Spec => ListingOrderedOnce
<1> DEFINE Once == \A o \in NewOrders, p \in CountedOrders :
             rows'[o].product # NoProduct => rows'[o].product # rows[p].product
<1>1. Ledger /\ Ledger' /\ [Next]_vars => Once
  <2> SUFFICES ASSUME Ledger, Ledger', [Next]_vars, NEW o \in NewOrders, NEW p \in CountedOrders,
                      rows'[o].product # NoProduct
               PROVE  rows'[o].product # rows[p].product
    OBVIOUS
  <2>1. ASSUME NEW found, SearchReply(found) PROVE rows'[o].product \notin ProductIds
    <3>1. ~Kept(o) /\ o \in Orders
      BY DEF NewOrders, Kept
    <3> QED BY <2>1, <3>1, SearchOrders
  <2>2. ASSUME NEW q \in Orders, QuickOrder(q) PROVE FALSE
    <3>1. rows' = [rows EXCEPT ![q] = SendOrder(q, NoProduct, Target)]
      BY <2>2 DEF QuickOrder
    <3>2. o = q /\ rows'[o] = SendOrder(q, NoProduct, Target)
      BY <3>1 DEF NewOrders, Ledger, Shaped
    <3> QED BY <3>2 DEF SendOrder
  <2>3. rows'[o].product \notin ProductIds
    BY <2>1, <2>2, NoOtherOrders
  <2> QED BY <2>3 DEF ProductIds
<1> QED BY <1>1, LedgerHolds, PTL DEF Spec, ListingOrderedOnce

-----------------------------------------------------------------------------
(***************************************************************************)
(* Sums over finite sets.  Sum is a fold; that it does not depend on the   *)
(* order the fold takes is proved here, by taking a smallest set that      *)
(* would be a counterexample.                                              *)
(***************************************************************************)

\* Of the sets in a family of finite sets one holds no other of them.
LEMMA SmallestSet ==
  ASSUME NEW S, IsFiniteSet(S), NEW F, F \subseteq SUBSET S, F # {}
  PROVE  \E T \in F : \A U \in F : U \subseteq T => U = T
<1>1. F \subseteq FiniteSubsetsOf(S)
  BY FS_FiniteSubsetsOfFinite
<1>2. IsWellFoundedOn(StrictSubsetOrdering(S), FiniteSubsetsOf(S))
  BY FS_StrictSubsetOrderingWellFounded
<1>3. PICK T \in F : \A U \in F : ~(<<U, T>> \in StrictSubsetOrdering(S))
  BY <1>1, <1>2, WFMin
<1> QED BY <1>3 DEF StrictSubsetOrdering

First(T) == CHOOSE x \in T : TRUE
Sums(g, w, S) == g = [T \in SUBSET S |-> IF T = {} THEN 0 ELSE w[First(T)] + g[T \ {First(T)}]]

\* What the fold of the library comes to.
LEMMA SumUnfolds ==
  ASSUME NEW w, NEW S
  PROVE  Sum(w, S) = (CHOOSE g : Sums(g, w, S))[S]
  BY DEF Sum, SumFunctionOnSet, FoldFunctionOnSet, MapThenFoldSet, Sums, First

\* Two such functions agree where both are defined.
LEMMA SumsAgree ==
  ASSUME NEW w, NEW S, IsFiniteSet(S), NEW R, NEW Q, NEW g, NEW h, S \subseteq R, S \subseteq Q,
         Sums(g, w, R), Sums(h, w, Q)
  PROVE  g[S] = h[S]
<1> DEFINE F == {T \in SUBSET S : g[T] # h[T]}
<1> SUFFICES ASSUME F # {} PROVE FALSE
  OBVIOUS
<1>1. PICK T \in F : \A U \in F : U \subseteq T => U = T
  <2>1. F \subseteq SUBSET S
    OBVIOUS
  <2> HIDE DEF F
  <2> QED BY <2>1, SmallestSet
<1>2. \A U \in SUBSET S : /\ g[U] = IF U = {} THEN 0 ELSE w[First(U)] + g[U \ {First(U)}]
                          /\ h[U] = IF U = {} THEN 0 ELSE w[First(U)] + h[U \ {First(U)}]
  BY DEF Sums
<1>3. T # {} /\ T \in SUBSET S
  BY <1>1, <1>2
<1>4. First(T) \in T
  BY <1>3 DEF First
<1>5. g[T \ {First(T)}] = h[T \ {First(T)}]
  BY <1>1, <1>3, <1>4
<1> QED BY <1>1, <1>2, <1>3, <1>5

\* And there is one, for every finite set.
LEMMA SumsExist ==
  ASSUME NEW w, NEW S, IsFiniteSet(S)
  PROVE  \E g : Sums(g, w, S)
<1> DEFINE F == {T \in SUBSET S : ~\E g : Sums(g, w, T)}
<1> SUFFICES ASSUME F # {} PROVE FALSE
  OBVIOUS
<1>1. PICK T \in F : \A U \in F : U \subseteq T => U = T
  <2>1. F \subseteq SUBSET S
    OBVIOUS
  <2> HIDE DEF F
  <2> QED BY <2>1, SmallestSet
<1> DEFINE of(U) == CHOOSE g : Sums(g, w, U)
           rest(U) == U \ {First(U)}
           whole == [U \in SUBSET T |-> IF U = {} THEN 0 ELSE w[First(U)] + of(rest(U))[rest(U)]]
<1>2. \A U \in SUBSET T : U # T => Sums(of(U), w, U)
  BY <1>1
<1>3. \A U \in SUBSET T : U # {} => rest(U) \in SUBSET T /\ rest(U) # T
  BY DEF First
<1>4. ASSUME NEW U \in SUBSET T, U # {} PROVE of(rest(U))[rest(U)] = whole[rest(U)]
  <2> DEFINE V == rest(U)
  <2>1. V \in SUBSET T /\ Sums(of(V), w, V)
    BY <1>2, <1>3, <1>4
  <2>2. CASE V = {}
    BY <2>1, <2>2 DEF Sums
  <2>3. CASE V # {}
    <3>1. rest(V) \in SUBSET T /\ Sums(of(rest(V)), w, rest(V)) /\ rest(V) \subseteq V
      BY <1>2, <1>3, <2>1, <2>3
    <3>2. IsFiniteSet(rest(V))
      BY <3>1, FS_Subset
    <3>3. of(V)[rest(V)] = of(rest(V))[rest(V)]
      BY <2>1, <3>1, <3>2, SumsAgree
    <3>4. of(V)[V] = w[First(V)] + of(V)[rest(V)]
      BY <2>1, <2>3 DEF Sums
    <3>5. whole[V] = w[First(V)] + of(rest(V))[rest(V)]
      BY <2>1, <2>3
    <3> QED BY <3>3, <3>4, <3>5
  <2> QED BY <2>2, <2>3
<1>5. Sums(whole, w, T)
  <2>1. ASSUME NEW U \in SUBSET T PROVE whole[U] = IF U = {} THEN 0 ELSE w[First(U)] + whole[rest(U)]
    <3>1. whole[U] = IF U = {} THEN 0 ELSE w[First(U)] + of(rest(U))[rest(U)]
      OBVIOUS
    <3> HIDE DEF whole, of, rest
    <3> QED BY <1>4, <3>1
  <2>2. whole = [U \in SUBSET T |-> whole[U]]
    OBVIOUS
  <2> HIDE DEF whole
  <2> QED BY <2>1, <2>2 DEF Sums
<1> QED BY <1>1, <1>5

\* The sum of nothing, and the sum that begins with the first element.
LEMMA SumFirst ==
  ASSUME NEW w, NEW S, IsFiniteSet(S)
  PROVE  /\ S = {} => Sum(w, S) = 0
         /\ S # {} => Sum(w, S) = w[First(S)] + Sum(w, S \ {First(S)})
<1> DEFINE of(U) == CHOOSE g : Sums(g, w, U)
           R == S \ {First(S)}
<1>1. IsFiniteSet(R)
  BY FS_Subset
<1>2. Sums(of(S), w, S) /\ Sums(of(R), w, R)
  BY <1>1, SumsExist
<1>3. of(S)[R] = of(R)[R]
  BY <1>1, <1>2, SumsAgree
<1>4. Sum(w, S) = of(S)[S] /\ Sum(w, R) = of(R)[R]
  BY SumUnfolds
<1>5. of(S)[S] = IF S = {} THEN 0 ELSE w[First(S)] + of(S)[R]
  BY <1>2 DEF Sums
<1> QED BY <1>3, <1>4, <1>5

\* The sum of nothing.
LEMMA SumEmpty == ASSUME NEW w PROVE Sum(w, {}) = 0
  BY SumFirst, FS_EmptySet

\* Induction over the subsets of a finite set.
LEMMA SubsetInduction ==
  ASSUME NEW S, IsFiniteSet(S), NEW G, {} \in G,
         \A T \in SUBSET S, x \in S : T \in G /\ x \notin T => T \cup {x} \in G
  PROVE  S \in G
<1> DEFINE F == {T \in SUBSET S : T \notin G}
<1> SUFFICES ASSUME F # {} PROVE FALSE
  OBVIOUS
<1>1. PICK T \in F : \A U \in F : U \subseteq T => U = T
  <2>1. F \subseteq SUBSET S
    OBVIOUS
  <2> HIDE DEF F
  <2> QED BY <2>1, SmallestSet
<1>2. T \in SUBSET S /\ T \notin G
  BY <1>1
<1> HIDE DEF F
<1>3. PICK x \in T : TRUE
  <2>1. T # {}
    BY <1>2
  <2> QED BY <2>1
<1> USE DEF F
<1>4. T \ {x} \in G /\ T \ {x} \in SUBSET S /\ (T \ {x}) \cup {x} = T /\ x \in S
  BY <1>1, <1>2, <1>3
<1> QED BY <1>2, <1>4

\* A sum of integers is one.
LEMMA SumType ==
  ASSUME NEW w, NEW S, IsFiniteSet(S), \A x \in S : w[x] \in Int
  PROVE  Sum(w, S) \in Int
<1> DEFINE F == {T \in SUBSET S : Sum(w, T) \notin Int}
<1> SUFFICES ASSUME F # {} PROVE FALSE
  OBVIOUS
<1>1. PICK T \in F : \A U \in F : U \subseteq T => U = T
  <2>1. F \subseteq SUBSET S
    OBVIOUS
  <2> HIDE DEF F
  <2> QED BY <2>1, SmallestSet
<1>2. T \in SUBSET S /\ IsFiniteSet(T) /\ Sum(w, T) \notin Int
  BY <1>1, FS_Subset
<1>3. T # {}
  BY <1>2, SumEmpty
<1> DEFINE f == First(T)
<1>4. f \in T
  BY <1>3 DEF First
<1>5. Sum(w, T) = w[f] + Sum(w, T \ {f})
  BY <1>2, <1>3, SumFirst
<1> HIDE DEF f
<1>6. Sum(w, T \ {f}) \in Int
  BY <1>1, <1>2, <1>4
<1> QED BY <1>2, <1>4, <1>5, <1>6

\* The sum with any of its terms apart.
LEMMA SumWithout ==
  ASSUME NEW w, NEW S, IsFiniteSet(S), \A x \in S : w[x] \in Int, NEW y \in S
  PROVE  Sum(w, S) = w[y] + Sum(w, S \ {y})
<1> DEFINE F == {T \in SUBSET S : \E x \in T : Sum(w, T) # w[x] + Sum(w, T \ {x})}
<1> SUFFICES ASSUME F # {} PROVE FALSE
  OBVIOUS
<1>1. PICK T \in F : \A U \in F : U \subseteq T => U = T
  <2>1. F \subseteq SUBSET S
    OBVIOUS
  <2> HIDE DEF F
  <2> QED BY <2>1, SmallestSet
<1>2. T \in SUBSET S /\ IsFiniteSet(T)
  BY <1>1, FS_Subset
<1>3. PICK x \in T : Sum(w, T) # w[x] + Sum(w, T \ {x})
  BY <1>1
<1> DEFINE f == First(T)
<1>4. f \in T
  BY <1>3 DEF First
<1>5. Sum(w, T) = w[f] + Sum(w, T \ {f})
  BY <1>2, <1>3, SumFirst
<1> HIDE DEF f
<1>6. x # f
  BY <1>3, <1>5
<1>7. \A U \in SUBSET T : U # T => \A z \in U : Sum(w, U) = w[z] + Sum(w, U \ {z})
  BY <1>1, <1>2
<1>8. Sum(w, T \ {f}) = w[x] + Sum(w, (T \ {f}) \ {x})
  BY <1>4, <1>6, <1>7
<1>9. Sum(w, T \ {x}) = w[f] + Sum(w, (T \ {x}) \ {f})
  BY <1>4, <1>6, <1>7
<1> DEFINE R == (T \ {f}) \ {x}
<1>10. (T \ {x}) \ {f} = R
  OBVIOUS
<1>11. Sum(w, R) \in Int
  <2>1. IsFiniteSet(R) /\ \A z \in R : w[z] \in Int
    BY <1>2, FS_Subset
  <2> HIDE DEF R
  <2> QED BY <2>1, SumType
<1>12. w[x] \in Int /\ w[f] \in Int
  BY <1>2, <1>4
<1> HIDE DEF R, F
<1>13. Sum(w, T) = w[f] + (w[x] + Sum(w, R)) /\ Sum(w, T \ {x}) = w[f] + Sum(w, R)
  BY <1>5, <1>8, <1>9, <1>10 DEF R
<1> QED BY <1>3, <1>11, <1>12, <1>13

\* The sum over a set and one element more.
LEMMA SumWith ==
  ASSUME NEW w, NEW S, IsFiniteSet(S), \A x \in S : w[x] \in Int, NEW y, y \notin S, w[y] \in Int
  PROVE  Sum(w, S \cup {y}) = w[y] + Sum(w, S)
<1>1. (S \cup {y}) \ {y} = S /\ IsFiniteSet(S \cup {y})
  BY FS_AddElement
<1> QED BY <1>1, SumWithout

\* Larger terms make a larger sum.
LEMMA SumMonotone ==
  ASSUME NEW w, NEW v, NEW S, IsFiniteSet(S), \A x \in S : w[x] \in Int /\ v[x] \in Int /\ w[x] <= v[x]
  PROVE  Sum(w, S) <= Sum(v, S)
<1> DEFINE G == {T \in SUBSET S : Sum(w, T) <= Sum(v, T)}
<1>1. {} \in G
  BY SumEmpty
<1>2. ASSUME NEW T \in SUBSET S, NEW x \in S, T \in G, x \notin T PROVE T \cup {x} \in G
  <2>1. IsFiniteSet(T) /\ \A y \in T : w[y] \in Int /\ v[y] \in Int
    BY FS_Subset
  <2>2. Sum(w, T \cup {x}) = w[x] + Sum(w, T) /\ Sum(v, T \cup {x}) = v[x] + Sum(v, T)
    BY <1>2, <2>1, SumWith
  <2>3. Sum(w, T) \in Int /\ Sum(v, T) \in Int
    BY <2>1, SumType
  <2> QED BY <1>2, <2>2, <2>3
<1>3. S \in G
  <2> HIDE DEF G
  <2> QED BY <1>1, <1>2, SubsetInduction
<1> QED BY <1>3

\* Sums of the same terms are the same.
LEMMA SumSame ==
  ASSUME NEW w, NEW v, NEW S, IsFiniteSet(S), \A x \in S : w[x] \in Int /\ v[x] = w[x]
  PROVE  Sum(v, S) = Sum(w, S)
<1>1. Sum(v, S) <= Sum(w, S) /\ Sum(w, S) <= Sum(v, S)
  BY SumMonotone
<1>2. Sum(v, S) \in Int /\ Sum(w, S) \in Int
  BY SumType
<1> QED BY <1>1, <1>2

\* The sum over two sets that share nothing.
LEMMA SumUnion ==
  ASSUME NEW w, NEW S, NEW R, IsFiniteSet(S), IsFiniteSet(R), S \cap R = {}, \A x \in S \cup R : w[x] \in Int
  PROVE  Sum(w, S \cup R) = Sum(w, S) + Sum(w, R)
<1> DEFINE G == {T \in SUBSET S : Sum(w, T \cup R) = Sum(w, T) + Sum(w, R)}
<1>0. Sum(w, R) \in Int
  BY SumType
<1>1. {} \in G
  <2>1. {} \cup R = R
    OBVIOUS
  <2> QED BY <1>0, <2>1, SumEmpty
<1>2. ASSUME NEW T \in SUBSET S, NEW x \in S, T \in G, x \notin T PROVE T \cup {x} \in G
  <2>1. IsFiniteSet(T) /\ IsFiniteSet(T \cup R)
    BY FS_Subset, FS_Union
  <2>2. Sum(w, T \cup {x}) = w[x] + Sum(w, T)
    BY <1>2, <2>1, SumWith
  <2>3. Sum(w, (T \cup R) \cup {x}) = w[x] + Sum(w, T \cup R)
    BY <1>2, <2>1, SumWith
  <2>4. (T \cup R) \cup {x} = (T \cup {x}) \cup R
    OBVIOUS
  <2>5. Sum(w, T) \in Int /\ w[x] \in Int /\ Sum(w, T \cup R) = Sum(w, T) + Sum(w, R)
    BY <1>2, <2>1, SumType
  <2>6. Sum(w, (T \cup {x}) \cup R) = Sum(w, T \cup {x}) + Sum(w, R)
    <3>1. Sum(w, (T \cup {x}) \cup R) = w[x] + (Sum(w, T) + Sum(w, R))
      BY <2>3, <2>4, <2>5
    <3> QED BY <1>0, <2>2, <2>5, <3>1
  <2> QED BY <1>2, <2>6
<1>3. S \in G
  <2> HIDE DEF G
  <2> QED BY <1>1, <1>2, SubsetInduction
<1> QED BY <1>3

\* What is summed over more is not less, if nothing is negative.
LEMMA SumGrows ==
  ASSUME NEW w, NEW S, NEW R, IsFiniteSet(S), R \subseteq S, \A x \in S : w[x] \in Nat
  PROVE  0 <= Sum(w, R) /\ Sum(w, R) <= Sum(w, S)
<1>0. IsFiniteSet(R) /\ IsFiniteSet(S \ R) /\ S = R \cup (S \ R)
  BY FS_Subset
<1>1. ASSUME NEW T \in SUBSET S PROVE Sum(w, T) >= 0
  <2> DEFINE G == {U \in SUBSET T : Sum(w, U) >= 0}
  <2>1. IsFiniteSet(T)
    BY FS_Subset
  <2>2. {} \in G
    BY SumEmpty
  <2>3. ASSUME NEW U \in SUBSET T, NEW x \in T, U \in G, x \notin U PROVE U \cup {x} \in G
    <3>1. IsFiniteSet(U) /\ \A y \in U : w[y] \in Int
      BY <2>1, FS_Subset
    <3>2. Sum(w, U \cup {x}) = w[x] + Sum(w, U) /\ Sum(w, U) \in Int
      BY <2>3, <3>1, SumWith, SumType
    <3> QED BY <2>3, <3>2
  <2>4. T \in G
    <3> HIDE DEF G
    <3> QED BY <2>1, <2>2, <2>3, SubsetInduction
  <2> QED BY <2>4
<1>2. Sum(w, S) = Sum(w, R) + Sum(w, S \ R)
  <2>1. R \cap (S \ R) = {} /\ \A x \in R \cup (S \ R) : w[x] \in Int
    BY <1>0
  <2>2. Sum(w, R \cup (S \ R)) = Sum(w, R) + Sum(w, S \ R)
    BY <1>0, <2>1, SumUnion
  <2> QED BY <1>0, <2>2
<1>3. Sum(w, R) \in Int /\ Sum(w, S \ R) \in Int
  BY <1>0, SumType
<1> QED BY <1>0, <1>1, <1>2, <1>3

\* The same terms under other names.
LEMMA SumRenamed ==
  ASSUME NEW w, NEW v, NEW S, NEW f, IsFiniteSet(S),
         \A x, y \in S : f[x] = f[y] => x = y, \A x \in S : w[x] \in Int /\ v[f[x]] = w[x]
  PROVE  Sum(v, {f[x] : x \in S}) = Sum(w, S)
<1> DEFINE Image(T) == {f[x] : x \in T}
           G == {T \in SUBSET S : IsFiniteSet(Image(T)) /\ Sum(v, Image(T)) = Sum(w, T)}
<1>1. {} \in G
  <2>1. Image({}) = {}
    OBVIOUS
  <2> QED BY <2>1, SumEmpty, FS_EmptySet
<1>2. ASSUME NEW T \in SUBSET S, NEW x \in S, T \in G, x \notin T PROVE T \cup {x} \in G
  <2>1. IsFiniteSet(T) /\ \A y \in T : w[y] \in Int
    BY FS_Subset
  <2>2. IsFiniteSet(Image(T))
    BY <1>2
  <2>3. Image(T \cup {x}) = Image(T) \cup {f[x]} /\ f[x] \notin Image(T)
    BY <1>2
  <2>4. (\A z \in Image(T) : v[z] \in Int) /\ v[f[x]] = w[x] /\ w[x] \in Int
    BY <2>1
  <2>5. Sum(v, Image(T)) = Sum(w, T)
    BY <1>2
  <2>6. Sum(w, T \cup {x}) = w[x] + Sum(w, T)
    BY <1>2, <2>1, <2>4, SumWith
  <2>7. Sum(v, Image(T) \cup {f[x]}) = v[f[x]] + Sum(v, Image(T))
    <3> HIDE DEF Image
    <3> QED BY <2>2, <2>3, <2>4, SumWith
  <2>8. Sum(v, Image(T \cup {x})) = Sum(w, T \cup {x})
    <3> HIDE DEF Image
    <3> QED BY <2>3, <2>4, <2>5, <2>6, <2>7
  <2>9. IsFiniteSet(Image(T \cup {x}))
    <3> DEFINE image == Image(T)
    <3>1. IsFiniteSet(image) /\ Image(T \cup {x}) = image \cup {f[x]}
      BY <2>2, <2>3
    <3> HIDE DEF image
    <3>2. \A y : IsFiniteSet(image \cup {y})
      BY <3>1, FS_AddElement
    <3> QED BY <3>1, <3>2
  <2> QED BY <2>8, <2>9
<1>3. S \in G
  <2> HIDE DEF G
  <2> QED BY <1>1, <1>2, SubsetInduction
<1> QED BY <1>3

\* The sum of one.
LEMMA SumOne ==
  ASSUME NEW w, NEW y, w[y] \in Int
  PROVE  Sum(w, {y}) = w[y]
<1>1. {y} \ {y} = {} /\ IsFiniteSet({y})
  BY FS_Singleton
<1>2. Sum(w, {y}) = w[y] + Sum(w, {y} \ {y})
  BY <1>1, SumWithout
<1> QED BY <1>1, <1>2, SumEmpty

-----------------------------------------------------------------------------
(***************************************************************************)
(* The books: what the sweep keeps in its variables adds up with the rows  *)
(* and with what the platform charged.                                     *)
(***************************************************************************)

\* What the user saves is valid, and sweeping needs a trade link and a budget.
Configured ==
  /\ settings \in SettingsChoices /\ items \in Watchlists
  /\ run = "sweeping" => ~Blocked(settings)

\* What an order may still cost is what its row says it costs, and what it did
\* cost is no more.
Priced(o) ==
  /\ rows[o].price \in Nat /\ rows[o].pay \in Nat /\ rows[o].pay <= rows[o].price
  /\ plat[o].pay \in Nat
  /\ plat[o].state \in {"placed", "settled"} => plat[o].pay <= Cost(rows[o])
  /\ UnderWay(o) => Cost(rows[o]) = rows[o].price

\* The orders the account was charged for, and what is left in it.
Charged == {o \in Orders : plat[o].state \in {"placed", "settled"}}
Charges == [o \in Orders |-> plat[o].pay]
Balanced == wallet = Money - Sum(Charges, Charged)

Sweeping == {"items", "balance", "search", "batch", "loop", "quick"}
Buying == {"search", "batch", "loop", "quick"}
Ordering == {"batch", "quick"}

\* The job's own variables, besides what it counts.
Fields(c) ==
  /\ DOMAIN c = DOMAIN Idle
  /\ c.budget \in Int /\ c.balance \in Int /\ c.left \in Int /\ c.qty \in Int /\ c.money \in Int
  /\ c.bought \in Int /\ c.cost \in Int
Chosen(c) == c.set \in SettingsChoices /\ c.set.maxTotalSpend > 0
Job ==
  /\ Fields(cyc)
  /\ pc \in {"refresh", "stats"} \cup Sweeping /\ cyc.kind # "manual" => Chosen(cyc)
  /\ pc \in {"stats"} \cup Sweeping => cyc.kind # "manual" /\ cyc.list \in Watchlists
  /\ pc \notin Ordering => cyc.sent = {}
  /\ pc \notin Sweeping => cyc.calm = FALSE
  /\ pc \notin {"loop", "quick"} => cyc.bought = 0 /\ cyc.cost = 0

Entries == [item : WatchItems, qty : Int, spend : Int]
\* What is left to do is from the watch list as the cycle read it.
ListedIn(list, todo) ==
  /\ todo \in Seq(Entries)
  /\ \A i \in DOMAIN todo : \E j \in DOMAIN list : todo[i].item = list[j]
  /\ \A i, j \in DOMAIN todo : todo[i].item.name = todo[j].item.name => i = j
Listed == /\ ListedIn(cyc.list, cyc.todo)
          /\ pc \in {"balance"} \cup Buying => cyc.todo # <<>>

\* What is ordered now: of the item in hand, not paid yet, and within what the
\* item was given.
SentOk ==
  /\ cyc.sent \subseteq CountedOrders
  /\ \A o \in cyc.sent : rows[o].pay = 0 /\ rows[o].name = Current.item.name
  /\ pc \in Ordering => /\ cyc.bought + Cardinality(cyc.sent) <= cyc.qty
                        /\ cyc.cost + SpentOn(cyc.sent) <= cyc.money
  /\ pc = "quick" => \E o \in Orders : cyc.sent = {o} /\ rows[o].price = Target
  /\ pc \in Buying => /\ cyc.qty <= Current.qty
                      /\ cyc.money <= cyc.budget /\ cyc.money <= Current.spend
                      /\ cyc.money <= cyc.balance

\* What counts besides the orders just sent, and what is left, keep the total
\* budget,
Budgeted ==
  SpentOn(CountedOrders \ cyc.sent) + (cyc.budget - cyc.cost) <= cyc.set.maxTotalSpend

\* and the caps of every item left to do.
Capped(i) ==
  LET e    == cyc.todo[i]
      held == OrdersFor(e.item.name) \ cyc.sent
  IN  /\ Cardinality(held) + e.qty - (IF i = 1 THEN cyc.bought ELSE 0) <= e.item.maxQty
      /\ e.item.maxSpend > 0 =>
           SpentOn(held) + e.spend - (IF i = 1 THEN cyc.cost ELSE 0) <= e.item.maxSpend

Underway == {o \in Orders : UnderWay(o)}
\* If nothing was under way when the balance was read.
Reserved ==
  cyc.calm =>
    wallet - SpentOn(Underway \ cyc.sent)
      >= (cyc.balance + cyc.set.minBalanceReserve) - cyc.cost - Sum(Charges, Charged \cap cyc.sent)

Sweep == pc \in Sweeping => Listed /\ SentOk /\ Budgeted /\ \A i \in DOMAIN cyc.todo : Capped(i)
Purse == (\A o \in Orders : Priced(o)) /\ Balanced /\ Reserved

Books == Configured /\ Purse /\ Job /\ Sweep

-----------------------------------------------------------------------------
(* What orders cost, and how many there are. *)

Costs == [o \in Orders |-> Cost(rows[o])]

\* Sums of what orders cost, over any sets of them.
LEMMA OrderSums ==
  ASSUME NEW w, \A o \in Orders : w[o] \in Nat
  PROVE  /\ \A S \in SUBSET Orders : Sum(w, S) \in Nat
         /\ \A S, T \in SUBSET Orders : S \subseteq T => Sum(w, S) <= Sum(w, T)
         /\ \A S, T \in SUBSET Orders : S \cap T = {} => Sum(w, S \cup T) = Sum(w, S) + Sum(w, T)
         /\ \A o \in Orders : Sum(w, {o}) = w[o]
<1>1. \A S \in SUBSET Orders : IsFiniteSet(S)
  BY FS_Subset, ConstantsOK
<1>2. ASSUME NEW S \in SUBSET Orders PROVE Sum(w, S) \in Nat
  <2>1. Sum(w, S) \in Int /\ 0 <= Sum(w, S)
    BY <1>1, SumType, SumGrows
  <2> QED BY <2>1
<1>3. ASSUME NEW S \in SUBSET Orders, NEW T \in SUBSET Orders, S \subseteq T PROVE Sum(w, S) <= Sum(w, T)
  BY <1>1, <1>3, SumGrows
<1>4. ASSUME NEW S \in SUBSET Orders, NEW T \in SUBSET Orders, S \cap T = {}
      PROVE  Sum(w, S \cup T) = Sum(w, S) + Sum(w, T)
  <2>1. \A x \in S \cup T : w[x] \in Int
    OBVIOUS
  <2> QED BY <1>1, <1>4, <2>1, SumUnion
<1>5. ASSUME NEW o \in Orders PROVE Sum(w, {o}) = w[o]
  <2>1. w[o] \in Int
    OBVIOUS
  <2> QED BY <2>1, SumOne
<1> QED BY <1>2, <1>3, <1>4, <1>5

\* Orders that cost the same, cost the same together.
LEMMA SameSum ==
  ASSUME NEW w, NEW v, NEW S \in SUBSET Orders, \A o \in S : w[o] \in Nat /\ v[o] = w[o]
  PROVE  Sum(v, S) = Sum(w, S)
<1>1. IsFiniteSet(S) /\ \A o \in S : w[o] \in Int
  BY FS_Subset, ConstantsOK
<1> QED BY <1>1, SumSame

\* A sum with one order's part apart.
LEMMA Apart ==
  ASSUME NEW w, \A q \in Orders : w[q] \in Nat, NEW S \in SUBSET Orders, NEW o \in Orders
  PROVE  Sum(w, S) = Sum(w, S \ {o}) + (IF o \in S THEN w[o] ELSE 0)
<1> DEFINE Y == S \ {o}
<1>1. Y \in SUBSET Orders /\ {o} \in SUBSET Orders /\ Y \cap {o} = {}
  OBVIOUS
<1>2. Sum(w, Y) \in Nat /\ Sum(w, Y \cup {o}) = Sum(w, Y) + Sum(w, {o}) /\ Sum(w, {o}) = w[o]
  <2> HIDE DEF Y
  <2> QED BY <1>1, OrderSums
<1>3. CASE o \in S
  <2>1. Y \cup {o} = S
    BY <1>3
  <2>2. Sum(w, S) = Sum(w, Y) + w[o]
    BY <1>2, <2>1, Zenon
  <2> QED BY <1>3, <2>2
<1>4. CASE o \notin S
  <2>1. Y = S
    BY <1>4
  <2>2. Sum(w, Y) = Sum(w, Y) + 0
    BY <1>2
  <2>3. Sum(w, S) = Sum(w, Y) + 0
    BY <2>1, <2>2, Zenon
  <2> QED BY <1>4, <2>3
<1> QED BY <1>3, <1>4

\* Only one order's part changes.
LEMMA OneDiffers ==
  ASSUME NEW w, NEW v, NEW S \in SUBSET Orders, NEW T \in SUBSET Orders, NEW o \in Orders,
         \A q \in Orders : w[q] \in Nat /\ v[q] \in Nat,
         \A q \in Orders : q # o => v[q] = w[q] /\ (q \in S <=> q \in T)
  PROVE  Sum(v, T) - (IF o \in T THEN v[o] ELSE 0) = Sum(w, S) - (IF o \in S THEN w[o] ELSE 0)
<1> DEFINE R == S \ {o}
<1>1. R = T \ {o}
  OBVIOUS
<1>3. Sum(v, R) = Sum(w, R)
  BY SameSum
<1>4. Sum(w, R) \in Nat
  BY OrderSums
<1> HIDE DEF R
<1>5. Sum(w, S) = Sum(w, R) + (IF o \in S THEN w[o] ELSE 0)
      /\ Sum(v, T) = Sum(v, R) + (IF o \in T THEN v[o] ELSE 0)
  BY <1>1, Apart DEF R
<1> QED BY <1>3, <1>4, <1>5

\* So many orders.
LEMMA OrderCounts ==
  /\ \A S \in SUBSET Orders : IsFiniteSet(S) /\ Cardinality(S) \in Nat
  /\ \A S, T \in SUBSET Orders : S \subseteq T => Cardinality(S) <= Cardinality(T)
  /\ \A S, T \in SUBSET Orders : S \cap T = {} =>
       Cardinality(S \cup T) = Cardinality(S) + Cardinality(T)
  /\ \A o \in Orders : Cardinality({o}) = 1
  /\ Cardinality({}) = 0
<1>1. \A S \in SUBSET Orders : IsFiniteSet(S) /\ Cardinality(S) \in Nat
  BY FS_Subset, FS_CardinalityType, ConstantsOK
<1>2. \A S, T \in SUBSET Orders : S \subseteq T => Cardinality(S) <= Cardinality(T)
  BY <1>1, FS_Subset
<1>3. ASSUME NEW S \in SUBSET Orders, NEW T \in SUBSET Orders, S \cap T = {}
      PROVE  Cardinality(S \cup T) = Cardinality(S) + Cardinality(T)
  <2>1. Cardinality(S \cup T) = Cardinality(S) + Cardinality(T) - Cardinality(S \cap T)
    BY <1>1, FS_Union
  <2> QED BY <1>1, <1>3, <2>1, FS_EmptySet
<1> QED BY <1>1, <1>2, <1>3, FS_Singleton, FS_EmptySet

\* Costs and charges are numbers.
LEMMA CostsAreNumbers ==
  ASSUME \A o \in Orders : Priced(o)
  PROVE  \A o \in Orders : Costs[o] = Cost(rows[o]) /\ Costs[o] \in Nat
         /\ Charges[o] = plat[o].pay /\ Charges[o] \in Nat
  BY DEF Priced, Costs, Charges, Cost

\* Nothing is counted otherwise, and the cycle stays where it is.
LEMMA SweepStays ==
  ASSUME Job, Sweep, UNCHANGED <<rows, pc, cyc>>
  PROVE  Job' /\ Sweep'
<1>1. Job'
  BY DEF Job
<1>2. SpentOn(CountedOrders \ cyc.sent)' = SpentOn(CountedOrders \ cyc.sent)
      /\ CountedOrders' = CountedOrders
  BY DEF SpentOn, CountedOrders, Counted, Cost
<1>3. Budgeted' <=> Budgeted
  BY <1>2 DEF Budgeted
<1>4. SentOk' <=> SentOk
  BY <1>2 DEF SentOk, Current, Target, SpentOn, Cost
<1>5. Listed' <=> Listed
  BY DEF Listed, ListedIn
<1>6. ASSUME NEW i PROVE Capped(i)' <=> Capped(i)
  BY <1>2 DEF Capped, OrdersFor, SpentOn, Cost
<1> QED BY <1>1, <1>3, <1>4, <1>5, <1>6 DEF Sweep

\* The platform charges an order, or gives the money back, or does neither.
LEMMA PlatformBooks ==
  ASSUME Ledger, Books, Platform
  PROVE  Books'
<1>1. PICK o \in Orders : (\E l \in Listings : Execute(o, l)) \/ Refuse(o) \/ Cancel(o) \/ Settle(o)
  BY DEF Platform
<1>2. UNCHANGED <<config, rows, pc, cyc>>
  BY <1>1 DEF Execute, Refuse, Cancel, Settle, table
<1>3. Ledger'
  BY PlatformStep
<1>4. /\ DOMAIN plat[o] = {"state", "key", "product", "pay"} /\ plat = [q \in Orders |-> plat[q]]
      /\ \A q \in Orders : Priced(q) /\ Costs[q] = Cost(rows[q]) /\ Costs[q] \in Nat
                           /\ Charges[q] = plat[q].pay /\ Charges[q] \in Nat
      /\ wallet = Money - Sum(Charges, Charged)
  BY CostsAreNumbers DEF Ledger, Shaped, Books, Purse, Balanced
<1>5. /\ Costs' = Costs /\ (\A q \in Orders : q # o => plat'[q] = plat[q])
      /\ \A q \in Orders : q # o => (UnderWay(q)' <=> UnderWay(q)) /\ Charges'[q] = Charges[q]
                                    /\ (q \in Charged' <=> q \in Charged)
  BY <1>1, <1>2, <1>4 DEF Execute, Refuse, Cancel, Settle, Costs, Cost, Charged, Charges, UnderWay
<1>6. ASSUME NEW l \in Listings, Execute(o, l)
      PROVE  /\ UnderWay(o) /\ ~UnderWay(o)' /\ o \notin Charged /\ o \in Charged'
             /\ Charges'[o] = l.price /\ wallet' = wallet - l.price /\ l.price \in Nat
                /\ l.price <= Costs[o]
  <2>1. plat' = [plat EXCEPT ![o] = [plat[o] EXCEPT !.state = "placed", !.product = l.id, !.pay = l.price]]
    BY <1>4, <1>6 DEF Execute
  <2>2. plat'[o] = [plat[o] EXCEPT !.state = "placed", !.product = l.id, !.pay = l.price]
    BY <1>4, <2>1
  <2>3. plat'[o].state = "placed" /\ plat'[o].pay = l.price
    BY <1>4, <2>2
  <2>4. l.price \in Nat /\ l.price <= rows[o].price
    BY <1>4, <1>6, ConstantsOK DEF SellListings, Execute, Matches, Priced
  <2>5. UnderWay(o) /\ wallet' = wallet - l.price
    BY <1>6 DEF Execute, UnderWay
  <2> QED BY <1>4, <2>3, <2>4, <2>5 DEF UnderWay, Priced, Charged, Charges
<1>7. ASSUME Refuse(o)
      PROVE  UnderWay(o) /\ ~UnderWay(o)' /\ o \notin Charged /\ o \notin Charged' /\ wallet' = wallet
             /\ Charges'[o] = Charges[o]
  <2>1. plat'[o] = [plat[o] EXCEPT !.state = IF plat[o].state = "sent" THEN "refused" ELSE "cancelled"]
    BY <1>4, <1>7 DEF Refuse
  <2>2. plat'[o].state \in {"refused", "cancelled"} /\ plat'[o].pay = plat[o].pay
    BY <1>4, <2>1
  <2>3. UnderWay(o) /\ wallet' = wallet
    BY <1>7 DEF Refuse, UnderWay
  <2> QED BY <2>2, <2>3 DEF UnderWay, Charged, Charges
<1>8. ASSUME Cancel(o)
      PROVE  ~UnderWay(o) /\ ~UnderWay(o)' /\ o \in Charged /\ o \notin Charged'
             /\ wallet' = wallet + Charges[o]
             /\ Charges'[o] = Charges[o]
  <2>1. plat'[o].state = "cancelled" /\ plat'[o].pay = plat[o].pay /\ plat[o].state = "placed"
        /\ wallet' = wallet + plat[o].pay
    BY <1>4, <1>8 DEF Cancel
  <2> QED BY <2>1 DEF UnderWay, Charged, Charges
<1>9. ASSUME Settle(o)
      PROVE  ~UnderWay(o) /\ ~UnderWay(o)' /\ o \in Charged /\ o \in Charged' /\ wallet' = wallet
             /\ Charges'[o] = Charges[o]
  <2>1. plat'[o].state = "settled" /\ plat'[o].pay = plat[o].pay /\ plat[o].state = "placed"
        /\ wallet' = wallet
    BY <1>4, <1>9 DEF Settle
  <2> QED BY <2>1 DEF UnderWay, Charged, Charges
<1>10. Priced(o)'
  <2>1. Priced(o) /\ UNCHANGED rows /\ Charges'[o] = plat'[o].pay
    BY <1>2, <1>4 DEF Charges
  <2>2. Charges[o] = plat[o].pay /\ Costs[o] = Cost(rows[o]) /\ Cost(rows[o]) = Cost(rows[o])'
    BY <1>2, <1>4
  <2>3. CASE \E l \in Listings : Execute(o, l)
    BY <1>6, <2>1, <2>2, <2>3 DEF Priced, UnderWay
  <2>4. CASE Refuse(o) \/ Cancel(o)
    BY <1>7, <1>8, <2>1, <2>2, <2>4 DEF Priced, UnderWay, Charged
  <2>5. CASE Settle(o)
    BY <1>9, <2>1, <2>2, <2>5 DEF Priced, UnderWay, Charged
  <2> QED BY <1>1, <2>3, <2>4, <2>5
<1>11. \A q \in Orders : Priced(q)' /\ Charges'[q] \in Nat
  <2>1. \A q \in Orders : q # o => Priced(q)'
    BY <1>2, <1>4, <1>5 DEF Priced, UnderWay
  <2> QED BY <1>10, <2>1 DEF Priced, Charges
<1> DEFINE sent == cyc.sent
<1>12. Sum(Charges', Charged') - (IF o \in Charged' THEN Charges'[o] ELSE 0)
         = Sum(Charges, Charged) - (IF o \in Charged THEN Charges[o] ELSE 0)
  <2>1. Charged \in SUBSET Orders /\ Charged' \in SUBSET Orders
    BY DEF Charged
  <2> QED BY <1>4, <1>5, <1>11, <2>1, OneDiffers
<1>13. Sum(Charges', Charged' \cap sent) - (IF o \in Charged' \cap sent THEN Charges'[o] ELSE 0)
         = Sum(Charges, Charged \cap sent) - (IF o \in Charged \cap sent THEN Charges[o] ELSE 0)
  <2>1. Charged \cap sent \in SUBSET Orders /\ Charged' \cap sent \in SUBSET Orders
    BY DEF Charged
  <2> QED BY <1>4, <1>5, <1>11, <2>1, OneDiffers
<1>14. SpentOn(Underway \ sent)' - (IF o \in Underway' \ sent THEN Costs[o] ELSE 0)
         = SpentOn(Underway \ sent) - (IF o \in Underway \ sent THEN Costs[o] ELSE 0)
  <2>1. Underway \ sent \in SUBSET Orders /\ Underway' \ sent \in SUBSET Orders
    BY DEF Underway
  <2>2. Sum(Costs, Underway' \ sent) - (IF o \in Underway' \ sent THEN Costs[o] ELSE 0)
         = Sum(Costs, Underway \ sent) - (IF o \in Underway \ sent THEN Costs[o] ELSE 0)
    BY <1>4, <1>5, <2>1, OneDiffers DEF Underway
  <2> QED BY <1>2, <1>5, <2>2 DEF SpentOn, Costs
<1>15. /\ \A S \in SUBSET Orders : Sum(Charges, S) \in Nat /\ Sum(Charges', S) \in Nat
          /\ Sum(Costs, S) \in Nat
       /\ SpentOn(Underway \ sent) \in Nat /\ SpentOn(Underway \ sent)' \in Nat
  <2>1. \A S \in SUBSET Orders : Sum(Charges, S) \in Nat /\ Sum(Charges', S) \in Nat
        /\ Sum(Costs, S) \in Nat
    BY <1>4, <1>11, OrderSums
  <2>2. Underway \ sent \in SUBSET Orders /\ Underway' \ sent \in SUBSET Orders
    BY DEF Underway
  <2> QED BY <1>2, <1>5, <2>1, <2>2 DEF SpentOn, Costs
<1>16. Charged \in SUBSET Orders /\ Charged' \in SUBSET Orders
  BY DEF Charged
<1>17. o \in Underway <=> UnderWay(o)
  BY DEF Underway
<1>18. o \in Underway' <=> UnderWay(o)'
  BY DEF Underway
<1>19. Balanced'
  <2>1. wallet' = Money - Sum(Charges', Charged')
    <3> DEFINE a == Sum(Charges, Charged)
               b == Sum(Charges', Charged')
    <3>1. a \in Nat /\ b \in Nat /\ Money \in Nat /\ wallet = Money - a
          /\ Charges[o] \in Nat /\ Charges'[o] \in Nat
      BY <1>4, <1>11, <1>15, <1>16, ConstantsOK
    <3>2. b - (IF o \in Charged' THEN Charges'[o] ELSE 0) = a - (IF o \in Charged THEN Charges[o] ELSE 0)
      BY <1>12
    <3> HIDE DEF a, b
    <3>3. wallet' = Money - b
      BY <1>1, <1>6, <1>7, <1>8, <1>9, <3>1, <3>2
    <3> QED BY <3>3 DEF b
  <2> QED BY <2>1 DEF Balanced
<1>20. Reserved'
  <2>0. Reserved
    BY DEF Books, Purse
  <2> DEFINE a == Sum(Charges, Charged \cap sent)
             b == Sum(Charges', Charged' \cap sent)
             c == SpentOn(Underway \ sent)
             d == SpentOn(Underway \ sent)'
             r == (cyc.balance + cyc.set.minBalanceReserve) - cyc.cost
  <2>1. cyc.calm => wallet - c >= r - a
    BY <2>0, Zenon DEF Reserved
  <2>2. cyc.calm => r \in Int
    <3>0. Job
      BY DEF Books
    <3>1. cyc.calm => cyc.set \in Settings /\ cyc.balance \in Int /\ cyc.cost \in Int
      BY <3>0, ConstantsOK DEF Job, Fields, Chosen
    <3> QED BY <3>1 DEF Settings
  <2>3. wallet \in Int /\ Charges[o] \in Nat /\ Charges'[o] \in Nat /\ Costs[o] \in Nat
    BY <1>4, <1>11, <1>15, <1>16, ConstantsOK
  <2>4. a \in Nat /\ b \in Nat /\ c \in Nat /\ d \in Nat
    <3>1. Charged \cap sent \in SUBSET Orders /\ Charged' \cap sent \in SUBSET Orders
      BY <1>16
    <3> QED BY <1>15, <3>1
  <2>5. b - (IF o \in Charged' /\ o \in sent THEN Charges'[o] ELSE 0)
          = a - (IF o \in Charged /\ o \in sent THEN Charges[o] ELSE 0)
    BY <1>13
  <2>6. d - (IF UnderWay(o)' /\ o \notin sent THEN Costs[o] ELSE 0)
          = c - (IF UnderWay(o) /\ o \notin sent THEN Costs[o] ELSE 0)
    BY <1>14, <1>17, <1>18
  <2> HIDE DEF a, b, c, d, r
  <2>7. cyc.calm => wallet' - d >= r - b
    BY <1>1, <1>6, <1>7, <1>8, <1>9, <2>1, <2>2, <2>3, <2>4, <2>5, <2>6
  <2> USE DEF b, d, r
  <2>8. cyc' = cyc
    BY <1>2
  <2> QED BY <2>7, <2>8, Zenon DEF Reserved
<1>21. Job' /\ Sweep'
  BY <1>2, SweepStays DEF Books
<1>22. Configured'
  BY <1>2 DEF Books, Configured, config
<1> QED BY <1>11, <1>19, <1>20, <1>21, <1>22 DEF Books, Purse
\* Outside the sweep.

\* A job that is over keeps nothing.
LEMMA JobEnds ==
  ASSUME Finish
  PROVE  Job' /\ pc' = "idle" /\ cyc'.calm = FALSE
<1>1. /\ DOMAIN cyc' = DOMAIN Idle /\ cyc'.budget = 0 /\ cyc'.balance = NoBalance
         /\ cyc'.left = 0 /\ cyc'.qty = 0
      /\ cyc'.money = 0 /\ cyc'.bought = 0 /\ cyc'.cost = 0 /\ cyc'.sent = {}
         /\ cyc'.calm = FALSE /\ pc' = "idle"
  BY DEF Finish, Idle
<1>2. NoBalance \in Int
  BY ConstantsOK DEF NoBalance
<1> QED BY <1>1, <1>2 DEF Job, Fields, Sweeping, Ordering

\* What a job is before it sweeps.
Resting(c) == /\ Fields(c) /\ c.sent = {} /\ c.calm = FALSE /\ c.bought = 0 /\ c.cost = 0
              /\ c.kind # "manual" => Chosen(c)

\* A job goes on querying, or goes on to the market, or is over.
LEMMA JobContinues ==
  ASSUME NEW c, Resting(c), items \in Watchlists, Continue(c)
  PROVE  Job' /\ pc' \notin Sweeping /\ cyc'.calm = FALSE
<1>1. CASE Finish
  BY <1>1, JobEnds DEF Sweeping
<1>2. CASE pc' = "refresh" /\ cyc' = c
  BY <1>2 DEF Resting, Job, Sweeping, Ordering
<1>3. CASE c.kind # "manual" /\ pc' = "stats" /\ cyc' = [c EXCEPT !.list = items]
  <2>1. /\ \A f \in DOMAIN Idle : f # "list" => cyc'[f] = c[f]
        /\ cyc'.list = items /\ DOMAIN cyc' = DOMAIN Idle
    BY <1>3 DEF Resting, Fields, Idle
  <2>2. /\ cyc'.kind = c.kind /\ cyc'.set = c.set /\ cyc'.sent = c.sent /\ cyc'.calm = c.calm
        /\ cyc'.bought = c.bought /\ cyc'.cost = c.cost /\ cyc'.budget = c.budget
           /\ cyc'.balance = c.balance
        /\ cyc'.left = c.left /\ cyc'.qty = c.qty /\ cyc'.money = c.money
    BY <2>1 DEF Idle
  <2> QED BY <1>3, <2>1, <2>2 DEF Resting, Job, Fields, Chosen, Sweeping, Ordering
<1> QED BY <1>1, <1>2, <1>3 DEF Continue

\* Prices and payments stay as they are, and so does the account.
LEMMA PurseStays ==
  ASSUME Purse, UNCHANGED <<plat, wallet>>,
         \A o \in Orders : rows'[o].price = rows[o].price /\ rows'[o].pay = rows[o].pay,
         cyc' = cyc \/ cyc'.calm = FALSE
  PROVE  Purse'
<1>1. Costs' = Costs
  BY DEF Costs, Cost
<1>2. \A o \in Orders : Priced(o)'
  BY DEF Purse, Priced, Cost, UnderWay
<1>3. Balanced'
  BY DEF Purse, Balanced, Charges, Charged
<1>4. Reserved'
  <2>1. CASE cyc'.calm = FALSE
    BY <2>1 DEF Reserved
  <2>2. CASE cyc' = cyc
    <3>1. SpentOn(Underway \ cyc.sent)' = SpentOn(Underway \ cyc.sent)
      BY <1>1, <2>2 DEF SpentOn, Costs, Underway, UnderWay
    <3> QED BY <2>2, <3>1 DEF Purse, Reserved, Charges, Charged
  <2> QED BY <2>1, <2>2
<1> QED BY <1>2, <1>3, <1>4 DEF Purse

\* Prices stay as they are and the job is not sweeping.
LEMMA RestBooks ==
  ASSUME Books, Configured', UNCHANGED <<plat, wallet>>,
         \A o \in Orders : rows'[o].price = rows[o].price /\ rows'[o].pay = rows[o].pay,
         Job', pc' \notin Sweeping, cyc'.calm = FALSE
  PROVE  Books'
  BY PurseStays DEF Books, Sweep

\* The user saves something, or time passes.
LEMMA QuietBooks ==
  ASSUME Books, Configured', UNCHANGED <<rows, pc, cyc, plat, wallet>>
  PROVE  Books'
  BY PurseStays, SweepStays DEF Books

\* Settings, watch list and run state; restarts; time.
LEMMA PageBooks ==
  ASSUME Books, \/ \E next \in {"stopped", "sweeping"} : SetRun(next)
                \/ \E s \in SettingsChoices, k \in KeyChoices : SaveSettings(s, k)
                \/ \E w \in Watchlists : SaveWatchlist(w)
                \/ Restart \/ Clock \/ UNCHANGED vars
  PROVE  Books'
<1>1. Configured'
  BY DEF Books, Configured, SetRun, SaveSettings, SaveWatchlist, Restart, Clock, DueAgain,
     GrowsOld, PauseEnds, SkipEnds,
         config, vars, Blocked
<1>2. CASE Restart
  <2>1. Finish /\ UNCHANGED <<rows, plat, wallet>>
    BY <1>2 DEF Restart, Finish, table, world
  <2> QED BY <1>1, <2>1, JobEnds, RestBooks DEF Sweeping
<1>3. CASE ~Restart
  <2>1. UNCHANGED <<rows, pc, cyc, plat, wallet>>
    BY <1>3 DEF SetRun, SaveSettings, SaveWatchlist, Clock, DueAgain, GrowsOld, PauseEnds,
       SkipEnds, vars, table, world
  <2> QED BY <1>1, <2>1, QuietBooks
<1> QED BY <1>2, <1>3

\* Reconciliation, and marks made by hand.
LEMMA RefreshBooks ==
  ASSUME Ledger, Books, StartCycle \/ RefreshOrders \/ (\E o \in Orders : Reconcile(o) \/ ResolvePurchase(o))
  PROVE  Books'
<1>1. Configured' /\ items \in Watchlists /\ Job
  BY DEF Books, Configured, StartCycle, RefreshOrders, Reconcile, RefreshFails, RefreshMissing,
     RefreshFound, RefreshOne,
         ResolvePurchase, config
<1>2. CASE StartCycle \/ RefreshOrders
  <2>1. UNCHANGED <<rows, plat, wallet>>
    BY <1>2 DEF StartCycle, RefreshOrders, world
  <2>2. \E c : Continue(c) /\ Resting(c)
    <3>1. ASSUME NEW c, \A f \in DOMAIN Idle \ {"kind", "set", "due"} : c[f] = Idle[f],
                 DOMAIN c = DOMAIN Idle, c.kind # "manual" => Chosen(c)
          PROVE  Resting(c)
      <4>1. NoBalance \in Int
        BY ConstantsOK DEF NoBalance
      <4>2. /\ c.budget = 0 /\ c.balance = NoBalance /\ c.left = 0 /\ c.qty = 0 /\ c.money = 0
            /\ c.bought = 0 /\ c.cost = 0 /\ c.sent = {} /\ c.calm = FALSE
        BY <3>1 DEF Idle
      <4> QED BY <3>1, <4>1, <4>2 DEF Resting, Fields
    <3>2. CASE StartCycle
      <4>1. PICK D : Continue([Idle EXCEPT !.kind = "cycle", !.set = settings, !.due = D])
        BY <3>2 DEF StartCycle
      <4> DEFINE c == [Idle EXCEPT !.kind = "cycle", !.set = settings, !.due = D]
      <4>2. c.set = settings /\ c.kind = "cycle" /\ DOMAIN c = DOMAIN Idle
            /\ \A f \in DOMAIN Idle \ {"kind", "set", "due"} : c[f] = Idle[f]
        BY DEF Idle
      <4>3. settings \in SettingsChoices /\ settings.maxTotalSpend > 0
        <5>1. settings \in Settings /\ ~Blocked(settings)
          BY <3>2, ConstantsOK DEF Books, Configured, StartCycle, CanBuy
        <5>2. settings.maxTotalSpend \in Nat
          BY <5>1 DEF Settings
        <5> QED BY <5>1, <5>2 DEF Books, Configured, Blocked
      <4> HIDE DEF c
      <4>4. Resting(c)
        BY <3>1, <4>2, <4>3 DEF Chosen
      <4> QED BY <4>1, <4>4 DEF c
    <3>3. CASE RefreshOrders
      <4>1. PICK D : Continue([Idle EXCEPT !.kind = "manual", !.due = D])
        BY <3>3 DEF RefreshOrders
      <4> DEFINE c == [Idle EXCEPT !.kind = "manual", !.due = D]
      <4>2. c.kind = "manual" /\ DOMAIN c = DOMAIN Idle
            /\ \A f \in DOMAIN Idle \ {"kind", "set", "due"} : c[f] = Idle[f]
        BY DEF Idle
      <4> HIDE DEF c
      <4>3. Resting(c)
        BY <3>1, <4>2
      <4> QED BY <4>1, <4>3 DEF c
    <3> QED BY <1>2, <3>2, <3>3
  <2> QED BY <1>1, <2>1, <2>2, JobContinues, RestBooks
<1>3. ASSUME NEW o \in Orders, Reconcile(o) PROVE Books'
  <2>1. UNCHANGED <<plat, wallet>> /\ pc = "refresh" /\ Continue([cyc EXCEPT !.due = @ \ {o}])
    BY <1>3 DEF Reconcile, RefreshFails, RefreshMissing, RefreshFound, RefreshOne, world
  <2>2. \A q \in Orders : rows'[q].price = rows[q].price /\ rows'[q].pay = rows[q].pay
    <3>1. DOMAIN rows[o] = DOMAIN NoRow /\ rows = [q \in Orders |-> rows[q]]
      BY DEF Ledger, Shaped
    <3>2. PICK row \in {rows[o], GivenUp(o), Found(o)} : rows' = [rows EXCEPT ![o] = row]
      BY <1>3 DEF Reconcile, RefreshFails, RefreshMissing, RefreshFound, RefreshOne
    <3>3. row.price = rows[o].price /\ row.pay = rows[o].pay
      BY <3>1 DEF GivenUp, Found, NoRow
    <3> QED BY <3>1, <3>2, <3>3
  <2>3. Resting([cyc EXCEPT !.due = @ \ {o}])
    <3> DEFINE c == [cyc EXCEPT !.due = @ \ {o}]
    <3>1. DOMAIN c = DOMAIN Idle /\ \A f \in DOMAIN Idle : f # "due" => c[f] = cyc[f]
      BY <1>1 DEF Job, Fields
    <3>2. /\ c.kind = cyc.kind /\ c.set = cyc.set /\ c.sent = cyc.sent /\ c.calm = cyc.calm
          /\ c.bought = cyc.bought /\ c.cost = cyc.cost /\ c.budget = cyc.budget
             /\ c.balance = cyc.balance
          /\ c.left = cyc.left /\ c.qty = cyc.qty /\ c.money = cyc.money
      BY <3>1 DEF Idle
    <3> HIDE DEF c
    <3>3. Resting(c)
      BY <1>1, <2>1, <3>1, <3>2 DEF Resting, Job, Fields, Chosen, Sweeping, Ordering
    <3> QED BY <3>3 DEF c
  <2> QED BY <1>1, <2>1, <2>2, <2>3, JobContinues, RestBooks
<1>4. ASSUME NEW o \in Orders, ResolvePurchase(o) PROVE Books'
  <2>1. UNCHANGED <<pc, cyc, plat, wallet>> /\ pc = "idle"
    BY <1>4 DEF ResolvePurchase, world
  <2>2. \A q \in Orders : rows'[q].price = rows[q].price /\ rows'[q].pay = rows[q].pay
    <3>1. DOMAIN rows[o] = DOMAIN NoRow /\ rows = [q \in Orders |-> rows[q]]
      BY DEF Ledger, Shaped
    <3>2. PICK s : rows' = [rows EXCEPT ![o] = [rows[o] EXCEPT !.status = s]]
      BY <1>4, <3>1 DEF ResolvePurchase
    <3> QED BY <3>1, <3>2 DEF NoRow
  <2>3. Job' /\ pc' \notin Sweeping /\ cyc'.calm = FALSE
    BY <1>1, <2>1 DEF Job, Sweeping
  <2> QED BY <1>1, <2>1, <2>2, <2>3, RestBooks
<1> QED BY <1>2, <1>3, <1>4

-----------------------------------------------------------------------------
(* The market, the next item, the balance. *)

\* What comes after the items that are done or passed over.
LEMMA RestOfList ==
  ASSUME NEW list, NEW todo, ListedIn(list, todo), NEW m \in 1 .. Len(todo) + 1
  PROVE  LET rest == SubSeq(todo, m, Len(todo))
         IN  /\ ListedIn(list, rest) /\ Len(rest) = Len(todo) - m + 1
             /\ \A i \in DOMAIN rest : m + i - 1 \in DOMAIN todo /\ rest[i] = todo[m + i - 1]
<1> DEFINE rest == SubSeq(todo, m, Len(todo))
           n == Len(todo)
<1>0. todo \in Seq(Entries) /\ n \in Nat /\ DOMAIN todo = 1 .. n /\ m \in Int
  BY DEF ListedIn
<1>1. \A i \in m .. n : todo[i] \in Entries
  BY <1>0
<1>2. /\ rest \in Seq(Entries) /\ Len(rest) = IF m <= n THEN n - m + 1 ELSE 0
      /\ \A i \in 1 .. n - m + 1 : rest[i] = todo[m + i - 1]
  BY <1>0, <1>1, SubSeqProperties
<1>3. Len(rest) = n - m + 1 /\ DOMAIN rest = 1 .. n - m + 1
  BY <1>0, <1>2
<1>4. \A i \in DOMAIN rest : m + i - 1 \in DOMAIN todo /\ rest[i] = todo[m + i - 1]
  BY <1>0, <1>2, <1>3
<1> HIDE DEF rest, n
<1>5. ListedIn(list, rest)
  <2>1. \A i \in DOMAIN rest : i \in Int
    BY <1>3
  <2>2. \A i, j \in DOMAIN rest : rest[i].item.name = rest[j].item.name => i = j
    BY <1>0, <1>4, <2>1 DEF ListedIn
  <2>3. ASSUME NEW i \in DOMAIN rest PROVE \E j \in DOMAIN list : rest[i].item = list[j]
    <3>1. PICK k \in DOMAIN todo : rest[i] = todo[k]
      BY <1>4
    <3> QED BY <3>1 DEF ListedIn
  <2> QED BY <1>2, <2>2, <2>3 DEF ListedIn
<1> QED BY <1>3, <1>4, <1>5 DEF rest, n

\* The smallest of some numbers.
LEMMA Least ==
  ASSUME NEW S, S # {}, S \subseteq Nat
  PROVE  Min(S) \in S /\ \A y \in S : Min(S) <= y
<1>1. PICK x \in S : \A y \in S : ~(<<y, x>> \in OpToRel(<, Nat))
  BY NatLessThanWellFounded, WFMin
<1>2. ASSUME NEW y \in S PROVE x <= y
  <2>1. x \in Nat /\ y \in Nat
    OBVIOUS
  <2>2. y < x => <<y, x>> \in OpToRel(<, Nat)
    BY <2>1 DEF OpToRel
  <2>3. ~(y < x)
    BY <1>1, <2>2, Zenon
  <2> QED BY <2>1, <2>3
<1> QED BY <1>2 DEF Min

\* The smallest of two or three.
LEMMA LeastOf ==
  ASSUME NEW a \in Int, NEW b \in Int, NEW c \in Int
  PROVE  /\ Min({a, b}) \in Int /\ Min({a, b}) <= a /\ Min({a, b}) <= b
         /\ Min({a, b, c}) \in Int /\ Min({a, b, c}) <= a /\ Min({a, b, c}) <= b /\ Min({a, b, c}) <= c
<1>1. \E x \in {a, b} : \A y \in {a, b} : x <= y
  OBVIOUS
<1>2. \E x \in {a, b, c} : \A y \in {a, b, c} : x <= y
  OBVIOUS
<1> QED BY <1>1, <1>2 DEF Min

\* The market's answer: the caps of the items as they were read.
LEMMA StatsBooks ==
  ASSUME Ledger, Books, NEW hit, StatsReply(hit)
  PROVE  Books'
<1>1. UNCHANGED <<config, rows, plat, wallet>> /\ pc = "stats"
  BY DEF StatsReply, table, world
<1>2. Configured' /\ Job /\ Purse
  BY <1>1 DEF Books, Configured, config
<1>3. CASE Finish
  BY <1>1, <1>2, <1>3, JobEnds, RestBooks DEF Sweeping
<1>4. CASE ~Finish
  <2>1. /\ pc' = "items"
        /\ cyc' = [cyc EXCEPT !.hit = hit, !.todo = Todo(cyc.list),
                              !.budget = Left(cyc.set.maxTotalSpend, SpentOn(CountedOrders)),
                              !.left = cyc.set.maxBuyPerCycle]
    BY <1>4 DEF StatsReply
  <2>2. /\ DOMAIN cyc' = DOMAIN Idle /\ cyc'.todo = Todo(cyc.list) /\ cyc'.left = cyc.set.maxBuyPerCycle
        /\ cyc'.budget = Left(cyc.set.maxTotalSpend, SpentOn(CountedOrders))
        /\ \A f \in DOMAIN Idle \ {"hit", "todo", "budget", "left"} : cyc'[f] = cyc[f]
    BY <1>2, <2>1 DEF Job, Fields, Idle
  <2>3. /\ cyc'.kind = cyc.kind /\ cyc'.set = cyc.set /\ cyc'.list = cyc.list /\ cyc'.sent = {}
           /\ cyc'.calm = FALSE
        /\ cyc'.bought = 0 /\ cyc'.cost = 0 /\ cyc'.balance = cyc.balance /\ cyc'.qty = cyc.qty
           /\ cyc'.money = cyc.money
        /\ Chosen(cyc) /\ cyc.list \in Watchlists /\ cyc.kind # "manual"
    BY <1>1, <1>2, <2>2 DEF Job, Idle, Sweeping, Ordering
  <2>4. \A S \in SUBSET Orders : SpentOn(S) \in Nat /\ Cardinality(S) \in Nat
    BY <1>2, OrderSums, CostsAreNumbers, OrderCounts DEF Purse, SpentOn, Costs
  <2>5. CountedOrders \in SUBSET Orders /\ \A name : OrdersFor(name) \in SUBSET Orders
    BY DEF CountedOrders, OrdersFor
  <2>6. cyc.set.maxTotalSpend \in Nat \ {0} /\ cyc.set.maxBuyPerCycle \in Nat
    BY <2>3, ConstantsOK DEF Chosen, Settings
  <2>7. cyc'.budget = cyc.set.maxTotalSpend - SpentOn(CountedOrders)
    BY <2>2, <2>6 DEF Left
  <2>8. Job'
    <3>1. Fields(cyc)'
      BY <1>2, <2>2, <2>3, <2>4, <2>5, <2>6, <2>7 DEF Job, Fields
    <3> QED BY <2>1, <2>3, <3>1 DEF Job, Chosen, Sweeping, Ordering
  <2>9. Purse'
    BY <1>1, <1>2, <2>3, PurseStays
  <2>10. cyc.list \in Seq(WatchItems)
         /\ \A i, j \in DOMAIN cyc.list : cyc.list[i].name = cyc.list[j].name => i = j
    BY <2>3, ConstantsOK
  <2> DEFINE list == cyc.list
  <2>11. \A i \in DOMAIN list : /\ Entry(list[i]).item = list[i]
                                /\ Entry(list[i]).qty = list[i].maxQty - Cardinality(OrdersFor(list[i].name))
                                /\ list[i].maxSpend > 0 =>
                                     Entry(list[i]).spend = list[i].maxSpend - SpentOn(OrdersFor(list[i].name))
                                /\ Entry(list[i]) \in Entries
    <3> SUFFICES ASSUME NEW i \in DOMAIN list
                 PROVE  /\ Entry(list[i]).item = list[i]
                        /\ Entry(list[i]).qty = list[i].maxQty - Cardinality(OrdersFor(list[i].name))
                        /\ list[i].maxSpend > 0 =>
                             Entry(list[i]).spend = list[i].maxSpend - SpentOn(OrdersFor(list[i].name))
                        /\ Entry(list[i]) \in Entries
      OBVIOUS
    <3> DEFINE item == list[i]
    <3>1. item \in WatchItems
      BY <2>10
    <3> HIDE DEF item
    <3>2. item.maxQty \in Int /\ item.maxSpend \in Nat
      BY <3>1 DEF WatchItems
    <3>3. SpentOn(OrdersFor(item.name)) \in Nat /\ Cardinality(OrdersFor(item.name)) \in Nat
      BY <2>4, <2>5
    <3>4. Entry(item) = [item |-> item, qty |-> item.maxQty - Cardinality(OrdersFor(item.name)),
                         spend |-> IF item.maxSpend > 0 THEN item.maxSpend - SpentOn(OrdersFor(item.name)) ELSE NoLimit]
      BY DEF Entry, Total, Left
    <3>5. Entry(item) \in Entries
      BY <3>1, <3>2, <3>3, <3>4, ConstantsOK DEF Entries
    <3> QED BY <3>4, <3>5 DEF item
  <2>12. DOMAIN cyc'.todo = DOMAIN list /\ \A i \in DOMAIN list : cyc'.todo[i] = Entry(list[i])
    BY <2>2 DEF Todo
  <2>13. ListedIn(cyc'.list, cyc'.todo)
    <3>1. cyc'.todo = [i \in 1 .. Len(list) |-> Entry(list[i])] /\ Len(list) \in Nat
          /\ DOMAIN list = 1 .. Len(list)
      BY <2>2, <2>10 DEF Todo
    <3>2. cyc'.todo \in Seq(Entries)
      BY <2>11, <3>1, IsASeq
    <3> QED BY <2>3, <2>10, <2>11, <2>12, <3>2 DEF ListedIn
  <2>14. \A S : SpentOn(S \ {}) = SpentOn(S) /\ Cardinality(S \ {}) = Cardinality(S)
    <3>1. \A S : S \ {} = S
      OBVIOUS
    <3> QED BY <3>1
  <2>15. /\ rows' = rows /\ CountedOrders' = CountedOrders
            /\ \A name : OrdersFor(name)' = OrdersFor(name)
         /\ SpentOn(CountedOrders \ cyc.sent)' = SpentOn(CountedOrders)
    BY <1>1, <2>3, <2>14 DEF CountedOrders, Counted, OrdersFor, SpentOn, Cost
  <2>16. Budgeted'
    <3> DEFINE a == SpentOn(CountedOrders)
               m == cyc.set.maxTotalSpend
    <3>1. a \in Nat /\ m \in Nat /\ cyc'.budget = m - a /\ cyc'.cost = 0 /\ cyc'.set.maxTotalSpend = m
      BY <2>3, <2>4, <2>5, <2>6, <2>7
    <3> HIDE DEF a, m
    <3>2. a + (cyc'.budget - cyc'.cost) <= cyc'.set.maxTotalSpend
      BY <3>1
    <3> QED BY <2>15, <3>2 DEF Budgeted, a
  <2>17. ASSUME NEW i \in DOMAIN cyc'.todo PROVE Capped(i)'
    <3> DEFINE item == list[i]
               e == cyc.todo[i]
               held == OrdersFor(item.name)
    <3>1. i \in DOMAIN list /\ e' = Entry(item) /\ e'.item = item
      BY <2>11, <2>12, <2>17
    <3>2. item \in WatchItems /\ held \in SUBSET Orders
      BY <2>5, <2>10, <3>1
    <3>3. item.maxQty \in Nat /\ item.maxSpend \in Nat /\ SpentOn(held) \in Nat
          /\ Cardinality(held) \in Nat
      BY <2>4, <3>2 DEF WatchItems
    <3>4. e'.qty = item.maxQty - Cardinality(held) /\ (item.maxSpend > 0 =>
            e'.spend = item.maxSpend - SpentOn(held))
      BY <2>11, <3>1
    <3>5. (OrdersFor(e.item.name) \ cyc.sent)' = held
      BY <2>3, <2>15, <3>1
    <3>6. SpentOn(OrdersFor(e.item.name) \ cyc.sent)' = SpentOn(held)
      BY <2>15, <3>5 DEF SpentOn, Cost
    <3> HIDE DEF item, held
    <3>7. /\ Cardinality(held) + e'.qty - (IF i = 1 THEN cyc'.bought ELSE 0) <= e'.item.maxQty
          /\ e'.item.maxSpend > 0 =>
               SpentOn(held) + e'.spend - (IF i = 1 THEN cyc'.cost ELSE 0) <= e'.item.maxSpend
      BY <2>3, <3>1, <3>3, <3>4
    <3> QED BY <3>5, <3>6, <3>7 DEF Capped
  <2>18. Listed' /\ SentOk'
    BY <2>1, <2>3, <2>13 DEF Listed, SentOk, Buying, Ordering
  <2> QED BY <1>2, <2>8, <2>9, <2>16, <2>17, <2>18 DEF Books, Sweep
<1> QED BY <1>3, <1>4

\* On to the next item that is at its price: to the balance, or to its sweep.
LEMMA BeginBooks ==
  ASSUME Books, pc \in {"items", "balance"}, UNCHANGED <<config, rows, plat, wallet>>,
         NEW c, DOMAIN c = DOMAIN Idle,
         \A f \in DOMAIN Idle \ {"todo", "balance", "calm"} : c[f] = cyc[f],
         NEW m \in DOMAIN cyc.todo, c.todo = SubSeq(cyc.todo, m, Len(cyc.todo)), c.balance \in Int,
         c.calm => wallet - SpentOn(Underway) >= c.balance + c.set.minBalanceReserve,
         BeginSweep(c) \/ (pc' = "balance" /\ cyc' = c)
  PROVE  Books'
<1>1. Configured' /\ Job /\ Purse /\ Sweep
  BY DEF Books, Configured, config
<1>2. /\ c.kind = cyc.kind /\ c.set = cyc.set /\ c.list = cyc.list /\ c.sent = {}
         /\ c.budget = cyc.budget
      /\ c.bought = 0 /\ c.cost = 0 /\ c.left = cyc.left /\ c.qty = cyc.qty /\ c.money = cyc.money
      /\ Chosen(cyc) /\ cyc.list \in Watchlists /\ cyc.kind # "manual" /\ Fields(cyc)
      /\ cyc.sent = {} /\ cyc.bought = 0 /\ cyc.cost = 0
  <2>1. /\ c.kind = cyc.kind /\ c.set = cyc.set /\ c.list = cyc.list /\ c.sent = cyc.sent
           /\ c.budget = cyc.budget
        /\ c.bought = cyc.bought /\ c.cost = cyc.cost /\ c.left = cyc.left /\ c.qty = cyc.qty
           /\ c.money = cyc.money
    BY DEF Idle
  <2>2. pc \notin Ordering /\ pc \notin {"loop", "quick"} /\ pc \in Sweeping
    BY DEF Sweeping, Ordering
  <2> QED BY <1>1, <2>1, <2>2 DEF Job
<1>3. Listed /\ Budgeted /\ \A i \in DOMAIN cyc.todo : Capped(i)
  BY <1>1 DEF Sweep, Sweeping
<1>4. /\ ListedIn(c.list, c.todo) /\ Len(c.todo) = Len(cyc.todo) - m + 1
      /\ \A i \in DOMAIN c.todo : m + i - 1 \in DOMAIN cyc.todo /\ c.todo[i] = cyc.todo[m + i - 1]
  <2>1. m \in 1 .. Len(cyc.todo) + 1
    BY <1>3 DEF Listed, ListedIn
  <2> QED BY <1>2, <1>3, <2>1, RestOfList DEF Listed
<1>5. c.todo \in Seq(Entries) /\ c.todo # <<>> /\ Head(c.todo) = c.todo[1] /\ c.todo[1] \in Entries
  <2>1. c.todo \in Seq(Entries) /\ cyc.todo \in Seq(Entries)
    BY <1>3, <1>4 DEF Listed, ListedIn
  <2> DEFINE t == c.todo
  <2>2. t \in Seq(Entries) /\ Len(t) >= 1
    BY <1>4, <2>1
  <2> HIDE DEF t
  <2>3. t # <<>> /\ t[1] \in Entries /\ Head(t) = t[1]
    BY <2>2
  <2> QED BY <2>1, <2>3 DEF t
<1> DEFINE e == c.todo[1]
<1>6. e.qty \in Int /\ e.spend \in Int
  BY <1>5 DEF Entries
<1>7. /\ DOMAIN cyc' = DOMAIN Idle /\ cyc'.todo = c.todo /\ cyc'.kind = cyc.kind
         /\ cyc'.set = cyc.set /\ cyc'.list = cyc.list
      /\ cyc'.sent = {} /\ cyc'.budget = cyc.budget /\ cyc'.left = cyc.left /\ cyc'.balance = c.balance
      /\ cyc'.calm = c.calm /\ cyc'.bought = 0 /\ cyc'.cost = 0 /\ cyc'.qty \in Int
         /\ cyc'.money \in Int
      /\ pc' \in {"balance", "search", "loop"}
      /\ pc' # "balance" => /\ cyc'.qty <= e.qty
                            /\ cyc'.money <= cyc.budget /\ cyc'.money <= e.spend
                               /\ cyc'.money <= c.balance
  <2>1. CASE pc' = "balance" /\ cyc' = c
    BY <1>2, <2>1 DEF Fields
  <2>2. CASE BeginSweep(c)
    <3> DEFINE money == Min({c.budget, e.spend, c.balance})
               qty == Min({e.qty, c.left})
    <3>1. money \in Int /\ money <= c.budget /\ money <= e.spend /\ money <= c.balance
          /\ qty \in Int /\ qty <= e.qty
      BY <1>2, <1>6, LeastOf DEF Fields
    <3>2. pc' \in {"search", "loop"}
          /\ cyc' = [c EXCEPT !.money = money, !.qty = qty, !.bought = 0, !.cost = 0]
      BY <1>5, <2>2 DEF BeginSweep
    <3> HIDE DEF money, qty
    <3>3. /\ DOMAIN cyc' = DOMAIN Idle /\ cyc'.money = money /\ cyc'.qty = qty
             /\ cyc'.bought = 0 /\ cyc'.cost = 0
          /\ \A f \in DOMAIN Idle \ {"money", "qty", "bought", "cost"} : cyc'[f] = c[f]
      BY <3>2 DEF Idle
    <3>4. /\ cyc'.todo = c.todo /\ cyc'.kind = c.kind /\ cyc'.set = c.set /\ cyc'.list = c.list
             /\ cyc'.sent = c.sent
          /\ cyc'.budget = c.budget /\ cyc'.left = c.left /\ cyc'.balance = c.balance
             /\ cyc'.calm = c.calm
      BY <3>3 DEF Idle
    <3> QED BY <1>2, <3>1, <3>2, <3>3, <3>4
  <2> QED BY <2>1, <2>2
<1> HIDE DEF e
<1>8. Job'
  BY <1>2, <1>7 DEF Job, Fields, Chosen, Sweeping, Ordering
<1>9. /\ rows' = rows /\ plat' = plat /\ wallet' = wallet
      /\ \A S : SpentOn(S \ {}) = SpentOn(S) /\ S \ {} = S /\ S \cap {} = {}
  <2>1. \A S : S \ {} = S /\ S \cap {} = {}
    OBVIOUS
  <2> QED BY <2>1
<1>10. Purse'
  <2>1. \A o \in Orders : Priced(o)'
    BY <1>1, <1>9 DEF Purse, Priced, UnderWay, Cost
  <2>2. Balanced'
    BY <1>1, <1>9 DEF Purse, Balanced, Charges, Charged
  <2>3. Reserved'
    <3>1. SpentOn(Underway \ cyc.sent)' = SpentOn(Underway)
      BY <1>7, <1>9 DEF SpentOn, Cost, Underway, UnderWay
    <3>2. Sum(Charges', Charged' \cap cyc'.sent) = 0
      <4>1. Charged' \cap cyc'.sent = {}
        BY <1>7
      <4> QED BY <4>1, SumEmpty
    <3> DEFINE r == c.balance + c.set.minBalanceReserve
    <3>3. r \in Int
      <4>1. c.set.minBalanceReserve \in Nat
        BY <1>2, ConstantsOK DEF Chosen, Settings
      <4> QED BY <4>1
    <3>4. cyc'.calm => wallet' - SpentOn(Underway) >= r
      BY <1>7, <1>9
    <3>5. r = (cyc'.balance + cyc'.set.minBalanceReserve)
      BY <1>2, <1>7
    <3>6. r = (r - cyc'.cost) - Sum(Charges', Charged' \cap cyc'.sent)
      BY <1>7, <3>2, <3>3
    <3> HIDE DEF r
    <3>7. cyc'.calm => wallet' - SpentOn(Underway \ cyc.sent)'
            >= (cyc'.balance + cyc'.set.minBalanceReserve) - cyc'.cost - Sum(Charges', Charged' \cap cyc'.sent)
      BY <3>1, <3>4, <3>5, <3>6, Zenon
    <3> QED BY <3>7, Zenon DEF Reserved
  <2> QED BY <2>1, <2>2, <2>3 DEF Purse
<1>11. Budgeted'
  <2>1. SpentOn(CountedOrders \ cyc.sent)' = SpentOn(CountedOrders \ cyc.sent)
    BY <1>2, <1>7, <1>9 DEF SpentOn, Cost, CountedOrders, Counted
  <2> QED BY <1>2, <1>3, <1>7, <2>1 DEF Budgeted
<1>12. ASSUME NEW i \in DOMAIN cyc'.todo PROVE Capped(i)'
  <2> DEFINE k == m + i - 1
  <2>1. k \in DOMAIN cyc.todo /\ cyc'.todo[i] = cyc.todo[k]
    BY <1>4, <1>7, <1>12
  <2> HIDE DEF k
  <2>2. Capped(k)
    BY <1>3, <2>1
  <2> DEFINE later == cyc.todo[k]
             held == OrdersFor(later.item.name)
  <2>3. /\ Cardinality(held) + later.qty - 0 <= later.item.maxQty
        /\ later.item.maxSpend > 0 => SpentOn(held) + later.spend - 0 <= later.item.maxSpend
    <3>1. held \ cyc.sent = held
      BY <1>2
    <3>2. (IF k = 1 THEN cyc.bought ELSE 0) = 0 /\ (IF k = 1 THEN cyc.cost ELSE 0) = 0
      BY <1>2
    <3> QED BY <2>2, <3>1, <3>2, Zenon DEF Capped
  <2>4. (OrdersFor(cyc.todo[i].item.name) \ cyc.sent)' = held
    BY <1>7, <1>9, <2>1 DEF OrdersFor, CountedOrders, Counted
  <2>5. SpentOn(OrdersFor(cyc.todo[i].item.name) \ cyc.sent)' = SpentOn(held)
    BY <1>9, <2>4 DEF SpentOn, Cost
  <2>6. (IF i = 1 THEN cyc'.bought ELSE 0) = 0 /\ (IF i = 1 THEN cyc'.cost ELSE 0) = 0
    BY <1>7
  <2> HIDE DEF held
  <2> QED BY <2>1, <2>3, <2>4, <2>5, <2>6, Zenon DEF Capped
<1>13. Listed' /\ SentOk'
  <2>1. Current' = e
    BY <1>5, <1>7 DEF Current, e
  <2>2. Listed'
    BY <1>2, <1>4, <1>5, <1>7 DEF Listed
  <2> QED BY <1>7, <2>1, <2>2 DEF SentOk, Ordering, Buying
<1> QED BY <1>1, <1>8, <1>10, <1>11, <1>12, <1>13 DEF Books, Sweep

\* The next item that is at its price, the balance, or the end of the cycle.
LEMMA PickBooks ==
  ASSUME Ledger, Books, PickItem \/ BalanceReply \/ CycleFails
  PROVE  Books'
<1>1. UNCHANGED <<config, rows, plat, wallet>> /\ Job /\ Sweep /\ Purse
  BY DEF PickItem, BalanceReply, CycleFails, BeginSweep, table, world, Books
<1>2. CASE Finish
  <2>1. Configured'
    BY <1>1 DEF Books, Configured, config
  <2> QED BY <1>1, <1>2, <2>1, JobEnds, RestBooks DEF Sweeping
<1>3. CASE PickItem /\ ~Finish
  <2> DEFINE ready == {i \in DOMAIN cyc.todo : Takeable(cyc.todo[i])}
             m == Min(ready)
             c == [cyc EXCEPT !.todo = SubSeq(@, m, Len(@))]
  <2>1. ready # {} /\ pc = "items" /\ (BeginSweep(c) \/ (pc' = "balance" /\ cyc' = c))
    BY <1>3 DEF PickItem
  <2>2. ListedIn(cyc.list, cyc.todo)
    BY <1>1, <2>1 DEF Sweep, Sweeping, Listed
  <2>3. m \in DOMAIN cyc.todo
    <3>1. ready \subseteq Nat
      BY <2>2 DEF ListedIn
    <3> QED BY <2>1, <3>1, Least
  <2>4. /\ DOMAIN c = DOMAIN Idle /\ c.todo = SubSeq(cyc.todo, m, Len(cyc.todo))
        /\ \A f \in DOMAIN Idle \ {"todo"} : c[f] = cyc[f]
    BY <1>1 DEF Job, Fields, Idle
  <2>5. c.balance = cyc.balance /\ c.balance \in Int /\ c.calm = cyc.calm /\ c.set = cyc.set
    BY <1>1, <2>4 DEF Job, Fields, Idle
  <2>6. c.calm => wallet - SpentOn(Underway) >= c.balance + c.set.minBalanceReserve
    <3> DEFINE r == cyc.balance + cyc.set.minBalanceReserve
    <3>1. cyc.sent = {} /\ cyc.cost = 0 /\ cyc.balance \in Int /\ cyc.set.minBalanceReserve \in Nat
      BY <1>1, <2>1, ConstantsOK DEF Job, Fields, Chosen, Settings, Sweeping, Ordering
    <3>2. Underway \ cyc.sent = Underway /\ Charged \cap cyc.sent = {}
      BY <3>1
    <3>3. Sum(Charges, Charged \cap cyc.sent) = 0
      BY <3>2, SumEmpty
    <3>4. (r - cyc.cost) - Sum(Charges, Charged \cap cyc.sent) = r
      BY <3>1, <3>3
    <3> HIDE DEF r
    <3>5. cyc.calm =>
            wallet - SpentOn(Underway \ cyc.sent) >= (r - cyc.cost) - Sum(Charges, Charged \cap cyc.sent)
      BY <1>1, Zenon DEF Purse, Reserved, r
    <3>6. cyc.calm => wallet - SpentOn(Underway) >= r
      BY <3>2, <3>4, <3>5, Zenon
    <3> QED BY <2>5, <3>6 DEF r
  <2> HIDE DEF c, m, ready
  <2> QED BY <1>1, <2>1, <2>3, <2>4, <2>5, <2>6, BeginBooks
<1>4. CASE BalanceReply
  <2> DEFINE c == [cyc EXCEPT !.balance = wallet - cyc.set.minBalanceReserve, !.calm = Calm]
  <2>1. pc = "balance" /\ BeginSweep(c)
    BY <1>4 DEF BalanceReply
  <2>2. ListedIn(cyc.list, cyc.todo) /\ cyc.todo # <<>>
    BY <1>1, <2>1 DEF Sweep, Sweeping, Listed
  <2>3. 1 \in DOMAIN cyc.todo /\ SubSeq(cyc.todo, 1, Len(cyc.todo)) = cyc.todo
    <3>1. cyc.todo \in Seq(Entries)
      BY <2>2 DEF ListedIn
    <3> QED BY <2>2, <3>1, SubSeqFull
  <2>4. /\ DOMAIN c = DOMAIN Idle /\ c.balance = wallet - cyc.set.minBalanceReserve /\ c.calm = Calm
        /\ \A f \in DOMAIN Idle \ {"balance", "calm"} : c[f] = cyc[f]
    BY <1>1 DEF Job, Fields, Idle
  <2>5. c.todo = cyc.todo /\ c.set = cyc.set
    BY <2>4 DEF Idle
  <2>6. wallet \in Int /\ cyc.set.minBalanceReserve \in Nat
    <3>1. Sum(Charges, Charged) \in Nat
      BY <1>1, CostsAreNumbers, OrderSums DEF Purse, Charged
    <3> QED BY <1>1, <2>1, <3>1, ConstantsOK DEF Purse, Balanced, Job, Chosen, Settings, Sweeping
  <2>7. c.calm => wallet - SpentOn(Underway) >= c.balance + c.set.minBalanceReserve
    <3>1. Calm => Underway = {}
      BY DEF Calm, Underway
    <3>2. Calm => SpentOn(Underway) = 0
      BY <3>1, SumEmpty DEF SpentOn
    <3> QED BY <2>4, <2>5, <2>6, <3>2
  <2> HIDE DEF c
  <2>8. \A f \in DOMAIN Idle \ {"todo", "balance", "calm"} : c[f] = cyc[f]
    BY <2>4
  <2> QED BY <1>1, <2>1, <2>3, <2>4, <2>5, <2>6, <2>7, <2>8, BeginBooks
<1> QED BY <1>1, <1>2, <1>3, <1>4 DEF CycleFails

-----------------------------------------------------------------------------
(* Orders go out. *)

\* What a set of orders costs that are left alone, and of others with them.
LEMMA LeftAlone ==
  ASSUME \A o \in Orders : Priced(o) /\ Priced(o)',
         NEW H \in SUBSET Orders, NEW K \in SUBSET Orders, H \cap K = {}, \A o \in H : rows'[o] = rows[o]
  PROVE  /\ Sum(Costs', H) = Sum(Costs, H) /\ Sum(Costs', H \cup K) = Sum(Costs, H) + Sum(Costs', K)
         /\ Sum(Costs, H) \in Nat /\ Sum(Costs', K) \in Nat
         /\ Cardinality(H \cup K) = Cardinality(H) + Cardinality(K)
         /\ Cardinality(H) \in Nat /\ Cardinality(K) \in Nat
<1>1. \A o \in Orders : Costs[o] \in Nat /\ Costs[o] = Cost(rows[o]) /\ Costs'[o] \in Nat
      /\ Costs'[o] = Cost(rows'[o])
  BY DEF Priced, Costs, Cost
<1>2. \A o \in H : Costs'[o] = Costs[o]
  BY <1>1
<1>3. Sum(Costs', H) = Sum(Costs, H)
  BY <1>1, <1>2, SameSum
<1>4. Sum(Costs', H \cup K) = Sum(Costs', H) + Sum(Costs', K)
  BY <1>1, OrderSums
<1>5. Sum(Costs, H) \in Nat /\ Sum(Costs', K) \in Nat
  BY <1>1, OrderSums
<1> QED BY <1>3, <1>4, <1>5, OrderCounts

\* Orders go out, each with its row.
LEMMA SendBooks ==
  ASSUME Ledger, Books, pc \in {"search", "loop"}, UNCHANGED <<config, wallet>>,
         NEW N \in SUBSET Unused,
         \A o \in N : /\ rows'[o].status = "unknown" /\ rows'[o].name = Current.item.name
                      /\ rows'[o].pay = 0 /\ rows'[o].price \in Nat /\ plat'[o] = Sent,
         \A o \in Orders \ N : rows'[o] = rows[o] /\ plat'[o] = plat[o],
         pc' \in Ordering, cyc' = [cyc EXCEPT !.sent = N],
         cyc.bought + Cardinality(N) <= cyc.qty, cyc.cost + Sum(Costs', N) <= cyc.money,
         pc = "search" <=> pc' = "batch",
         pc' = "quick" => \E o \in Orders : N = {o} /\ rows'[o].price = Target
  PROVE  Books'
<1>1. Configured' /\ Job /\ Sweep /\ (\A o \in Orders : Priced(o)) /\ Balanced /\ Reserved
  BY DEF Books, Configured, config, Purse
<1>2. /\ cyc.sent = {} /\ Chosen(cyc) /\ cyc.list \in Watchlists /\ cyc.kind # "manual" /\ Fields(cyc)
      /\ Listed /\ SentOk /\ Budgeted /\ \A i \in DOMAIN cyc.todo : Capped(i)
  BY <1>1 DEF Job, Sweep, Sweeping, Ordering
<1>3. DOMAIN cyc' = DOMAIN Idle /\ cyc'.sent = N /\ \A f \in DOMAIN Idle \ {"sent"} : cyc'[f] = cyc[f]
  BY <1>2 DEF Fields, Idle
<1>4. /\ cyc'.kind = cyc.kind /\ cyc'.set = cyc.set /\ cyc'.list = cyc.list /\ cyc'.todo = cyc.todo
      /\ cyc'.budget = cyc.budget /\ cyc'.left = cyc.left /\ cyc'.balance = cyc.balance
         /\ cyc'.calm = cyc.calm
      /\ cyc'.bought = cyc.bought /\ cyc'.cost = cyc.cost /\ cyc'.qty = cyc.qty
         /\ cyc'.money = cyc.money
  BY <1>3 DEF Idle
<1>5. \A o \in N : o \in Orders /\ rows[o].status = "none" /\ plat[o].state = "none"
      /\ plat'[o].state = "sent" /\ plat'[o].pay = 0
  BY DEF Unused, Ledger, Tied, Sent
<1>6. \A o \in Orders : Priced(o)'
  <2>1. \A o \in N : Priced(o)'
    BY <1>5 DEF Priced, Cost
  <2>2. \A o \in Orders \ N : Priced(o)'
    BY <1>1 DEF Priced, Cost, UnderWay
  <2> QED BY <2>1, <2>2
<1>7. Charged' = Charged /\ Charged \cap N = {} /\ Charged \in SUBSET Orders
      /\ (\A o \in Orders : Charges[o] \in Nat) /\ \A o \in Charged : Charges'[o] = Charges[o]
  BY <1>1, <1>5 DEF Charged, Charges, Priced
<1>8. Underway' \ N = Underway /\ Underway \in SUBSET (Orders \ N)
  BY <1>5 DEF Underway, UnderWay
<1>9. /\ CountedOrders' \ N = CountedOrders /\ CountedOrders \in SUBSET (Orders \ N)
         /\ N \subseteq CountedOrders'
      /\ \A name : OrdersFor(name)' \ N = OrdersFor(name) /\ OrdersFor(name) \in SUBSET (Orders \ N)
  BY <1>5 DEF CountedOrders, OrdersFor, Counted, CountedStatus
<1>10. \A S \in SUBSET (Orders \ N) : Sum(Costs', S) = Sum(Costs, S)
  <2> SUFFICES ASSUME NEW S \in SUBSET (Orders \ N) PROVE Sum(Costs', S) = Sum(Costs, S)
    OBVIOUS
  <2>1. S \in SUBSET Orders /\ {} \in SUBSET Orders /\ S \cap {} = {} /\ \A o \in S : rows'[o] = rows[o]
    OBVIOUS
  <2> QED BY <1>1, <1>6, <2>1, LeftAlone
<1>11. Job'
  <2>1. pc' = "batch" => cyc'.bought = 0 /\ cyc'.cost = 0
    BY <1>1, <1>4 DEF Job
  <2>2. Fields(cyc)' /\ Chosen(cyc)'
    BY <1>2, <1>3, <1>4 DEF Fields, Chosen
  <2> QED BY <1>2, <1>4, <2>1, <2>2 DEF Job, Sweeping, Ordering
<1>12. Purse'
  <2>1. Balanced'
    BY <1>1, <1>7, SameSum DEF Balanced
  <2>2. Reserved'
    <3>1. SpentOn(Underway \ cyc.sent)' = SpentOn(Underway \ cyc.sent)
      <4>1. Underway \ cyc.sent = Underway
        BY <1>2
      <4>2. Underway' \ cyc'.sent = Underway
        BY <1>3, <1>8
      <4>3. Sum(Costs', Underway) = Sum(Costs, Underway)
        BY <1>8, <1>10
      <4> QED BY <4>1, <4>2, <4>3 DEF SpentOn, Costs
    <3>2. Charged' \cap cyc'.sent = {} /\ Charged \cap cyc.sent = {}
      BY <1>2, <1>3, <1>7
    <3>3. Sum(Charges', Charged' \cap cyc'.sent) = Sum(Charges, Charged \cap cyc.sent)
      BY <3>2, SumEmpty
    <3> QED BY <1>1, <1>4, <3>1, <3>3, Zenon DEF Reserved
  <2> QED BY <1>6, <2>1, <2>2 DEF Purse
<1>13. Budgeted'
  <2>1. SpentOn(CountedOrders \ cyc.sent)' = SpentOn(CountedOrders \ cyc.sent)
    <3>1. CountedOrders \ cyc.sent = CountedOrders /\ CountedOrders' \ cyc'.sent = CountedOrders
      BY <1>2, <1>3, <1>9
    <3>2. Sum(Costs', CountedOrders) = Sum(Costs, CountedOrders)
      BY <1>9, <1>10
    <3> QED BY <3>1, <3>2 DEF SpentOn, Costs
  <2> QED BY <1>2, <1>4, <2>1 DEF Budgeted
<1>14. ASSUME NEW i \in DOMAIN cyc'.todo PROVE Capped(i)'
  <2> DEFINE held == OrdersFor(cyc.todo[i].item.name)
  <2>1. held \ cyc.sent = held
    BY <1>2
  <2>2. (OrdersFor(cyc.todo[i].item.name) \ cyc.sent)' = held
    BY <1>3, <1>4, <1>9
  <2>3. Sum(Costs', held) = Sum(Costs, held)
    BY <1>9, <1>10
  <2>4. SpentOn(OrdersFor(cyc.todo[i].item.name) \ cyc.sent)' = SpentOn(held \ cyc.sent)
    BY <2>1, <2>2, <2>3 DEF SpentOn, Costs
  <2>5. Capped(i)
    BY <1>2, <1>4, <1>14
  <2> QED BY <1>4, <2>1, <2>2, <2>4, <2>5, Zenon DEF Capped
<1>15. Listed' /\ SentOk'
  <2>1. Listed'
    BY <1>2, <1>4 DEF Listed, Buying, Ordering
  <2>2. Current' = Current /\ Target' = Target
    BY <1>4 DEF Current, Target
  <2>3. Sum(Costs', N) = SpentOn(cyc.sent)'
    BY <1>3 DEF SpentOn, Costs
  <2>4. pc \in Buying
    BY DEF Buying
  <2>5. cyc'.sent \subseteq CountedOrders' /\ \A o \in cyc'.sent : rows'[o].pay = 0
        /\ rows'[o].name = Current'.item.name
    BY <1>3, <1>9, <2>2
  <2>6. cyc'.bought + Cardinality(cyc'.sent) <= cyc'.qty /\ cyc'.cost + SpentOn(cyc.sent)' <= cyc'.money
    BY <1>3, <1>4, <2>3
  <2>7. cyc'.qty <= Current'.qty /\ cyc'.money <= cyc'.budget /\ cyc'.money <= Current'.spend
        /\ cyc'.money <= cyc'.balance
    BY <1>2, <1>4, <2>2, <2>4 DEF SentOk
  <2>8. pc' = "quick" => \E o \in Orders : cyc'.sent = {o} /\ rows'[o].price = Target'
    BY <1>3, <2>2
  <2>9. SentOk'
    BY <2>5, <2>6, <2>7, <2>8 DEF SentOk
  <2> QED BY <2>1, <2>9
<1> QED BY <1>1, <1>11, <1>12, <1>13, <1>14, <1>15 DEF Books, Sweep

-----------------------------------------------------------------------------
(* Orders are answered, or not. *)

\* The orders just sent are answered, or not: those in K count from now on, and
\* what the sweep takes for spent is no less than they cost.
Answered(K, spent) ==
  /\ UNCHANGED <<config, wallet>>
  /\ \A o \in Orders \ cyc.sent : rows'[o] = rows[o] /\ plat'[o] = plat[o]
  /\ \A o \in cyc.sent : rows'[o].name = rows[o].name /\ plat'[o].pay = plat[o].pay
                         /\ (o \in Charged' <=> o \in Charged)
  /\ \A o \in cyc.sent : o \in K <=> Counted(o)'
  /\ K \subseteq cyc.sent
  /\ Charged \cap cyc.sent \subseteq K /\ Underway' \cap cyc.sent \subseteq K
  /\ \A o \in Orders : Priced(o)'
  /\ spent \in Int /\ cyc.cost + Sum(Costs', K) <= spent

\* The account, the budget and the reserve, with what is answered.
LEMMA AnswerBooks ==
  ASSUME Books, pc \in Buying, NEW K, NEW spent, Answered(K, spent)
  PROVE  /\ Balanced' /\ Configured'
         /\ Sum(Costs', CountedOrders') + (cyc.budget - spent) <= cyc.set.maxTotalSpend
         /\ cyc.calm =>
              wallet' - Sum(Costs', Underway') >= (cyc.balance + cyc.set.minBalanceReserve) - spent
         /\ \A name : OrdersFor(name)' = (OrdersFor(name) \ cyc.sent) \cup (IF name = Current.item.name THEN K ELSE {})
<1> DEFINE sent == cyc.sent
<1>1. Configured' /\ Job /\ Sweep /\ (\A o \in Orders : Priced(o)) /\ Balanced /\ Reserved
  BY DEF Books, Configured, config, Purse, Answered
<1>2. Listed /\ SentOk /\ Budgeted /\ Chosen(cyc) /\ Fields(cyc)
  BY <1>1 DEF Job, Sweep, Sweeping, Buying
<1>3. sent \subseteq CountedOrders /\ CountedOrders \subseteq Orders
      /\ (\A o \in sent : rows[o].name = Current.item.name)
  BY <1>2 DEF SentOk, CountedOrders
<1>4. CountedOrders' = (CountedOrders \ sent) \cup K
  BY <1>3 DEF Answered, CountedOrders, Counted
<1>5. Underway' = (Underway \ sent) \cup (Underway' \cap sent)
  BY <1>3 DEF Answered, Underway, UnderWay
<1>6. /\ \A o \in Orders : Costs[o] \in Nat /\ Charges[o] \in Nat /\ Costs'[o] \in Nat
         /\ Charges'[o] \in Nat
      /\ \A o \in Orders : o \in Charged => Charges[o] <= Costs'[o]
      /\ Charged' = Charged /\ \A o \in Orders : Charges'[o] = Charges[o]
  <2>1. Charged' = Charged
    BY DEF Answered, Charged
  <2>2. \A o \in Orders : plat'[o].pay = plat[o].pay
    BY DEF Answered
  <2>3. \A o \in Orders : o \in Charged' => plat'[o].pay <= Costs'[o]
    BY DEF Answered, Priced, Charged, Costs
  <2> QED BY <1>1, <2>1, <2>2, <2>3 DEF Answered, Priced, Costs, Charges, Cost
<1>7. Balanced'
  <2>1. Charged \in SUBSET Orders /\ \A o \in Charged : Charges[o] \in Nat /\ Charges'[o] = Charges[o]
    BY <1>6 DEF Charged
  <2>2. Sum(Charges', Charged') = Sum(Charges, Charged)
    BY <1>6, <2>1, SameSum
  <2> QED BY <1>1, <2>2 DEF Balanced, Answered
<1>8. \A H \in SUBSET (Orders \ sent), L \in SUBSET sent :
         /\ Sum(Costs', H \cup L) = Sum(Costs, H) + Sum(Costs', L)
         /\ Sum(Costs, H) \in Nat /\ Sum(Costs', L) \in Nat
  <2> SUFFICES ASSUME NEW H \in SUBSET (Orders \ sent), NEW L \in SUBSET sent
               PROVE  /\ Sum(Costs', H \cup L) = Sum(Costs, H) + Sum(Costs', L)
                      /\ Sum(Costs, H) \in Nat /\ Sum(Costs', L) \in Nat
    OBVIOUS
  <2>1. H \in SUBSET Orders /\ L \in SUBSET Orders /\ H \cap L = {} /\ \A o \in H : rows'[o] = rows[o]
    BY <1>3 DEF Answered
  <2>2. \A o \in Orders : Priced(o) /\ Priced(o)'
    BY <1>1 DEF Answered
  <2> QED BY <2>1, <2>2, LeftAlone
<1>9. Sum(Costs', CountedOrders') + (cyc.budget - spent) <= cyc.set.maxTotalSpend
  <2> DEFINE H == CountedOrders \ sent
  <2>1. H \in SUBSET (Orders \ sent) /\ K \in SUBSET sent
    BY <1>3 DEF Answered
  <2>2. Sum(Costs', CountedOrders') = Sum(Costs, H) + Sum(Costs', K) /\ Sum(Costs, H) \in Nat
        /\ Sum(Costs', K) \in Nat
    BY <1>4, <1>8, <2>1
  <2>3. Sum(Costs, H) + (cyc.budget - cyc.cost) <= cyc.set.maxTotalSpend
    BY <1>2 DEF Budgeted, SpentOn, Costs
  <2>4. cyc.budget \in Int /\ cyc.cost \in Int /\ spent \in Int /\ cyc.cost + Sum(Costs', K) <= spent
        /\ cyc.set.maxTotalSpend \in Int
    BY <1>2, ConstantsOK DEF Answered, Fields, Chosen, Settings
  <2> HIDE DEF H
  <2> QED BY <2>2, <2>3, <2>4
<1>10. cyc.calm => wallet' - Sum(Costs', Underway') >= (cyc.balance + cyc.set.minBalanceReserve) - spent
  <2> DEFINE H == Underway \ sent
             L == Underway' \cap sent
             E == Charged \cap sent
             r == cyc.balance + cyc.set.minBalanceReserve
  <2>1. H \in SUBSET (Orders \ sent) /\ L \in SUBSET sent /\ E \in SUBSET Orders
        /\ L \in SUBSET Orders /\ K \in SUBSET Orders
    BY <1>3 DEF Answered, Underway
  <2>2. E \cap L = {} /\ E \cup L \subseteq K /\ E \cup L \in SUBSET Orders
    BY <1>3, <1>6 DEF Answered, Charged, Underway, UnderWay
  <2> HIDE DEF H, L, E
  <2>3. Sum(Costs', Underway') = Sum(Costs, H) + Sum(Costs', L) /\ Sum(Costs, H) \in Nat
        /\ Sum(Costs', L) \in Nat
    BY <1>5, <1>8, <2>1 DEF H, L
  <2>4. Sum(Charges, E) <= Sum(Costs', E) /\ Sum(Charges, E) \in Nat /\ Sum(Costs', E) \in Nat
    <3>1. IsFiniteSet(E) /\ \A o \in E : Charges[o] \in Int /\ Costs'[o] \in Int
          /\ Charges[o] <= Costs'[o]
      BY <1>6, <2>1, OrderCounts DEF E
    <3> QED BY <1>6, <2>1, <3>1, SumMonotone, OrderSums
  <2>5. Sum(Costs', E \cup L) = Sum(Costs', E) + Sum(Costs', L)
        /\ Sum(Costs', E \cup L) <= Sum(Costs', K)
        /\ Sum(Costs', K) \in Nat
    BY <1>6, <2>1, <2>2, OrderSums
  <2>6. cyc.calm => wallet - Sum(Costs, H) >= r - cyc.cost - Sum(Charges, E)
    BY <1>1, Zenon DEF Reserved, SpentOn, Costs, H, E
  <2>7. r \in Int /\ cyc.cost \in Int /\ spent \in Int /\ cyc.cost + Sum(Costs', K) <= spent
        /\ wallet' = wallet
    BY <1>2, ConstantsOK DEF Answered, Fields, Chosen, Settings
  <2>8. wallet \in Int
    <3>1. Sum(Charges, Charged) \in Nat
      BY <1>6, OrderSums DEF Charged
    <3> QED BY <1>1, <3>1, ConstantsOK DEF Balanced
  <2> HIDE DEF r
  <2>9. cyc.calm => wallet' - Sum(Costs', Underway') >= r - spent
    BY <2>3, <2>4, <2>5, <2>6, <2>7, <2>8
  <2> QED BY <2>9 DEF r
<1>11. ASSUME NEW name
       PROVE  OrdersFor(name)' = (OrdersFor(name) \ cyc.sent) \cup (IF name = Current.item.name THEN K ELSE {})
  <2>1. \A o \in CountedOrders' : rows'[o].name = rows[o].name
    BY <1>3, <1>4 DEF Answered, CountedOrders
  <2>2. \A o \in K : o \in sent /\ rows[o].name = Current.item.name
    BY <1>3 DEF Answered
  <2>3. OrdersFor(name)' = {o \in CountedOrders' : rows[o].name = name}
    BY <2>1 DEF OrdersFor
  <2> QED BY <1>3, <1>4, <2>2, <2>3 DEF OrdersFor
<1> QED BY <1>1, <1>7, <1>9, <1>10, <1>11

\* What an item holds, of the orders that are not answered now.
LEMMA OtherItems ==
  ASSUME Books, pc \in Buying, NEW K, NEW spent, Answered(K, spent),
         NEW name
  PROVE  /\ OrdersFor(name) \ cyc.sent \in SUBSET Orders
         /\ Sum(Costs', OrdersFor(name) \ cyc.sent) = Sum(Costs, OrdersFor(name) \ cyc.sent)
<1> DEFINE H == OrdersFor(name) \ cyc.sent
<1>1. H \in SUBSET Orders /\ {} \in SUBSET Orders /\ H \cap {} = {} /\ \A o \in H : rows'[o] = rows[o]
  BY DEF OrdersFor, CountedOrders, Answered
<1>2. \A o \in Orders : Priced(o) /\ Priced(o)'
  BY DEF Books, Purse, Answered
<1> HIDE DEF H
<1>3. Sum(Costs', H) = Sum(Costs, H)
  BY <1>1, <1>2, LeftAlone
<1> QED BY <1>1, <1>3 DEF H

\* The sweep of an item is over.
LEMMA DoneBooks ==
  ASSUME Books, pc \in Buying, NEW K, NEW spent, Answered(K, spent),
         NEW b \in Int, ItemDone(b, spent)
  PROVE  Books'
<1>1. Job /\ Sweep /\ Listed /\ cyc.todo # <<>> /\ Chosen(cyc) /\ Fields(cyc)
      /\ cyc.list \in Watchlists /\ cyc.kind # "manual"
      /\ \A i \in DOMAIN cyc.todo : Capped(i)
  BY DEF Books, Job, Sweep, Sweeping, Buying, Listed
<1>2. /\ Balanced' /\ Configured' /\ (\A o \in Orders : Priced(o)') /\ spent \in Int
         /\ K \subseteq cyc.sent
      /\ Sum(Costs', CountedOrders') + (cyc.budget - spent) <= cyc.set.maxTotalSpend
      /\ cyc.calm =>
           wallet' - Sum(Costs', Underway') >= (cyc.balance + cyc.set.minBalanceReserve) - spent
      /\ \A name : OrdersFor(name)' = (OrdersFor(name) \ cyc.sent) \cup (IF name = Current.item.name THEN K ELSE {})
  BY AnswerBooks DEF Answered
<1>3. /\ DOMAIN cyc' = DOMAIN Idle /\ cyc'.todo = Tail(cyc.todo) /\ cyc'.left = cyc.left - b
      /\ cyc'.budget = cyc.budget - spent /\ cyc'.balance = cyc.balance - spent /\ cyc'.qty = 0
         /\ cyc'.money = 0
      /\ cyc'.bought = 0 /\ cyc'.cost = 0 /\ cyc'.sent = {} /\ pc' = "items"
      /\ cyc'.kind = cyc.kind /\ cyc'.set = cyc.set /\ cyc'.list = cyc.list /\ cyc'.calm = cyc.calm
  BY <1>1 DEF ItemDone, Fields, Idle
<1>4. Job'
  BY <1>1, <1>2, <1>3 DEF Job, Fields, Chosen, Sweeping, Ordering
<1>5. \A S : S \ {} = S /\ S \cap {} = {}
  OBVIOUS
<1>6. Purse'
  <2> DEFINE r == cyc.balance + cyc.set.minBalanceReserve
             q == (cyc'.balance + cyc'.set.minBalanceReserve) - cyc'.cost - Sum(Charges', Charged' \cap cyc'.sent)
  <2>1. Sum(Charges', Charged' \cap cyc'.sent) = 0
    <3>1. Charged' \cap cyc'.sent = {}
      BY <1>3
    <3> QED BY <3>1, SumEmpty
  <2>2. cyc.balance \in Int /\ cyc.set.minBalanceReserve \in Nat
    BY <1>1, ConstantsOK DEF Fields, Chosen, Settings
  <2>3. q = r - spent
    BY <1>2, <1>3, <2>1, <2>2
  <2>4. SpentOn(Underway \ cyc.sent)' = Sum(Costs', Underway')
    BY <1>3, <1>5 DEF SpentOn, Costs
  <2>5. cyc.calm => wallet' - Sum(Costs', Underway') >= r - spent
    BY <1>2
  <2> HIDE DEF r, q
  <2>6. cyc'.calm => wallet' - SpentOn(Underway \ cyc.sent)' >= q
    BY <1>3, <2>3, <2>4, <2>5, Zenon
  <2>7. Reserved'
    BY <2>6, Zenon DEF Reserved, q
  <2> QED BY <1>2, <2>7 DEF Purse
<1>7. Budgeted'
  <2> DEFINE a == Sum(Costs', CountedOrders')
  <2>1. SpentOn(CountedOrders \ cyc.sent)' = a
    BY <1>3, <1>5 DEF SpentOn, Costs
  <2>2. a + (cyc'.budget - cyc'.cost) <= cyc'.set.maxTotalSpend
    <3>1. a + (cyc.budget - spent) <= cyc.set.maxTotalSpend
      BY <1>2
    <3>2. cyc'.budget - cyc'.cost = cyc.budget - spent
      BY <1>1, <1>2, <1>3 DEF Fields
    <3> HIDE DEF a
    <3> QED BY <1>3, <3>1, <3>2, Zenon
  <2> HIDE DEF a
  <2> QED BY <2>1, <2>2, Zenon DEF Budgeted
<1>8. /\ ListedIn(cyc.list, cyc'.todo) /\ cyc.todo \in Seq(Entries) /\ Current = cyc.todo[1]
         /\ 1 \in DOMAIN cyc.todo
      /\ \A i \in DOMAIN cyc'.todo : i \in Nat \ {0} /\ i + 1 \in DOMAIN cyc.todo
         /\ cyc'.todo[i] = cyc.todo[i + 1]
  <2> DEFINE t == cyc.todo
             rest == SubSeq(t, 2, Len(t))
  <2>1. t \in Seq(Entries) /\ t # <<>> /\ ListedIn(cyc.list, t)
    BY <1>1 DEF Listed, ListedIn
  <2> HIDE DEF t
  <2>2. Len(t) \in Nat /\ Len(t) > 0 /\ 2 \in 1 .. Len(t) + 1 /\ 1 \in DOMAIN t /\ Head(t) = t[1]
    BY <2>1
  <2>3. Tail(t) = rest
    BY <2>1, TailIsSubSeq
  <2>4. ListedIn(cyc.list, rest) /\ \A i \in DOMAIN rest : 2 + i - 1 \in DOMAIN t
        /\ rest[i] = t[2 + i - 1]
    BY <2>1, <2>2, RestOfList
  <2>5. \A i \in DOMAIN rest : i \in Nat \ {0}
    BY <2>4 DEF ListedIn
  <2>6. \A i \in Nat : 2 + i - 1 = i + 1
    OBVIOUS
  <2> HIDE DEF rest
  <2>7. \A i \in DOMAIN rest : i + 1 \in DOMAIN t /\ rest[i] = t[i + 1]
    BY <2>4, <2>5, <2>6
  <2>8. cyc'.todo = rest /\ Current = t[1]
    BY <1>3, <2>2, <2>3 DEF t, Current
  <2>9. t \in Seq(Entries) /\ ListedIn(cyc.list, cyc'.todo) /\ 1 \in DOMAIN t
        /\ \A i \in DOMAIN cyc'.todo : i \in Nat \ {0} /\ i + 1 \in DOMAIN t /\ cyc'.todo[i] = t[i + 1]
    BY <2>1, <2>2, <2>4, <2>5, <2>7, <2>8
  <2> QED BY <2>8, <2>9 DEF t
<1>9. ASSUME NEW i \in DOMAIN cyc'.todo PROVE Capped(i)'
  <2> DEFINE e == cyc.todo[i + 1]
             held == OrdersFor(e.item.name) \ cyc.sent
  <2>1. i + 1 \in DOMAIN cyc.todo /\ cyc'.todo[i] = e /\ i + 1 # 1
    BY <1>8, <1>9
  <2>2. e.item.name # Current.item.name
    <3>1. cyc.todo[1].item.name = e.item.name => 1 = i + 1
      BY <1>1, <1>8, <2>1 DEF Listed, ListedIn
    <3> QED BY <1>8, <2>1, <3>1
  <2>3. (OrdersFor(cyc.todo[i].item.name) \ cyc.sent)' = held
    <3>1. \A name : name # Current.item.name => OrdersFor(name)' = OrdersFor(name) \ cyc.sent
      BY <1>2
    <3>2. (OrdersFor(cyc.todo[i].item.name) \ cyc.sent)' = {o \in CountedOrders' : rows'[o].name = e.item.name}
      BY <1>3, <2>1 DEF OrdersFor
    <3>3. {o \in CountedOrders' : rows'[o].name = e.item.name} = OrdersFor(e.item.name) \ cyc.sent
      BY <2>2, <3>1 DEF OrdersFor
    <3> QED BY <3>2, <3>3
  <2>4. SpentOn(OrdersFor(cyc.todo[i].item.name) \ cyc.sent)' = SpentOn(held)
    <3>1. Sum(Costs', held) = Sum(Costs, held)
      BY OtherItems
    <3> QED BY <2>3, <3>1 DEF SpentOn, Costs
  <2>5. /\ Cardinality(held) + e.qty - 0 <= e.item.maxQty
        /\ e.item.maxSpend > 0 => SpentOn(held) + e.spend - 0 <= e.item.maxSpend
    <3>1. Capped(i + 1)
      BY <1>1, <2>1
    <3>2. (IF i + 1 = 1 THEN cyc.bought ELSE 0) = 0 /\ (IF i + 1 = 1 THEN cyc.cost ELSE 0) = 0
      BY <2>1
    <3> QED BY <3>1, <3>2, Zenon DEF Capped
  <2>6. (IF i = 1 THEN cyc'.bought ELSE 0) = 0 /\ (IF i = 1 THEN cyc'.cost ELSE 0) = 0
    BY <1>3
  <2> HIDE DEF held, e
  <2> QED BY <2>1, <2>3, <2>4, <2>5, <2>6, Zenon DEF Capped
<1>10. Listed' /\ SentOk'
  <2>1. Listed'
    BY <1>3, <1>8 DEF Listed, Buying
  <2> QED BY <1>3, <2>1 DEF SentOk, Ordering, Buying
<1> QED BY <1>2, <1>4, <1>6, <1>7, <1>9, <1>10 DEF Books, Sweep

\* One order more was bought, and the sweep of the item goes on.
LEMMA GoesOnBooks ==
  ASSUME Books, pc = "quick", NEW o \in cyc.sent, NEW spent, Answered({o}, spent), pc' = "loop",
         cyc' = [cyc EXCEPT !.bought = @ + 1, !.cost = spent, !.sent = {}]
  PROVE  Books'
<1>1. Job /\ Sweep /\ Listed /\ cyc.todo # <<>> /\ Chosen(cyc) /\ Fields(cyc)
      /\ cyc.list \in Watchlists /\ cyc.kind # "manual"
      /\ pc \in Buying /\ SentOk /\ \A i \in DOMAIN cyc.todo : Capped(i)
  BY DEF Books, Job, Sweep, Sweeping, Buying, Listed
<1>2. /\ Balanced' /\ Configured' /\ (\A q \in Orders : Priced(q)') /\ spent \in Int
         /\ {o} \subseteq cyc.sent
      /\ cyc.cost + Sum(Costs', {o}) <= spent
      /\ Sum(Costs', CountedOrders') + (cyc.budget - spent) <= cyc.set.maxTotalSpend
      /\ cyc.calm =>
           wallet' - Sum(Costs', Underway') >= (cyc.balance + cyc.set.minBalanceReserve) - spent
      /\ \A name : OrdersFor(name)' = (OrdersFor(name) \ cyc.sent) \cup (IF name = Current.item.name THEN {o} ELSE {})
  BY <1>1, AnswerBooks DEF Answered
<1>3. /\ DOMAIN cyc' = DOMAIN Idle /\ cyc'.bought = cyc.bought + 1 /\ cyc'.cost = spent
         /\ cyc'.sent = {}
      /\ \A f \in DOMAIN Idle \ {"bought", "cost", "sent"} : cyc'[f] = cyc[f]
  BY <1>1 DEF Fields, Idle
<1>4. /\ cyc'.todo = cyc.todo /\ cyc'.left = cyc.left /\ cyc'.budget = cyc.budget
         /\ cyc'.balance = cyc.balance
      /\ cyc'.qty = cyc.qty /\ cyc'.money = cyc.money /\ cyc'.kind = cyc.kind /\ cyc'.set = cyc.set
      /\ cyc'.list = cyc.list /\ cyc'.calm = cyc.calm
  BY <1>3 DEF Idle
<1>5. Job'
  BY <1>1, <1>2, <1>3, <1>4 DEF Job, Fields, Chosen, Sweeping, Ordering
<1>6. \A S : S \ {} = S /\ S \cap {} = {}
  OBVIOUS
<1>7. Purse'
  <2> DEFINE r == cyc.balance + cyc.set.minBalanceReserve
             q == (cyc'.balance + cyc'.set.minBalanceReserve) - cyc'.cost - Sum(Charges', Charged' \cap cyc'.sent)
  <2>1. Sum(Charges', Charged' \cap cyc'.sent) = 0
    <3>1. Charged' \cap cyc'.sent = {}
      BY <1>3
    <3> QED BY <3>1, SumEmpty
  <2>2. cyc.balance \in Int /\ cyc.set.minBalanceReserve \in Nat
    BY <1>1, ConstantsOK DEF Fields, Chosen, Settings
  <2>3. q = r - spent
    BY <1>2, <1>3, <1>4, <2>1, <2>2
  <2>4. SpentOn(Underway \ cyc.sent)' = Sum(Costs', Underway')
    BY <1>3, <1>6 DEF SpentOn, Costs
  <2>5. cyc.calm => wallet' - Sum(Costs', Underway') >= r - spent
    BY <1>2
  <2> HIDE DEF r, q
  <2>6. cyc'.calm => wallet' - SpentOn(Underway \ cyc.sent)' >= q
    BY <1>4, <2>3, <2>4, <2>5, Zenon
  <2>7. Reserved'
    BY <2>6, Zenon DEF Reserved, q
  <2> QED BY <1>2, <2>7 DEF Purse
<1>8. Budgeted'
  <2> DEFINE a == Sum(Costs', CountedOrders')
  <2>1. SpentOn(CountedOrders \ cyc.sent)' = a
    BY <1>3, <1>6 DEF SpentOn, Costs
  <2>2. a + (cyc'.budget - cyc'.cost) <= cyc'.set.maxTotalSpend
    BY <1>2, <1>3, <1>4
  <2> HIDE DEF a
  <2> QED BY <2>1, <2>2, Zenon DEF Budgeted
<1>9. cyc.todo \in Seq(Entries) /\ Current = cyc.todo[1] /\ 1 \in DOMAIN cyc.todo
  <2> DEFINE t == cyc.todo
  <2>1. t \in Seq(Entries) /\ t # <<>>
    BY <1>1 DEF Listed, ListedIn
  <2> HIDE DEF t
  <2>2. 1 \in DOMAIN t /\ Head(t) = t[1]
    BY <2>1
  <2>3. t \in Seq(Entries) /\ Current = t[1] /\ 1 \in DOMAIN t
    BY <2>1, <2>2 DEF t, Current
  <2> QED BY <2>3 DEF t
<1>10. ASSUME NEW i \in DOMAIN cyc'.todo PROVE Capped(i)'
  <2> DEFINE e == cyc.todo[i]
             name == e.item.name
             held == OrdersFor(name) \ cyc.sent
             bought == IF i = 1 THEN cyc.bought ELSE 0
             cost == IF i = 1 THEN cyc.cost ELSE 0
             more == IF i = 1 THEN {o} ELSE {}
             new == held \cup more
  <2>1. i \in DOMAIN cyc.todo /\ e \in Entries
    BY <1>4, <1>9, <1>10
  <2>2. name = Current.item.name <=> i = 1
    BY <1>1, <1>9, <2>1 DEF Listed, ListedIn
  <2>3. (OrdersFor(cyc.todo[i].item.name) \ cyc.sent)' = new
    <3>1. (OrdersFor(cyc.todo[i].item.name) \ cyc.sent)' = {q \in CountedOrders' : rows'[q].name = name}
      BY <1>3, <1>4 DEF OrdersFor
    <3>2. {q \in CountedOrders' : rows'[q].name = name} = new
      BY <1>2, <2>2 DEF OrdersFor
    <3> QED BY <3>1, <3>2
  <2>4. held \in SUBSET Orders /\ o \in Orders /\ o \notin held /\ Sum(Costs', held) = Sum(Costs, held)
    <3>1. o \in Orders
      BY <1>1 DEF SentOk, CountedOrders
    <3> QED BY <1>1, <3>1, OtherItems
  <2>5. \A q \in Orders : Costs'[q] \in Nat /\ Costs[q] \in Nat
    BY <1>2, CostsAreNumbers DEF Books, Purse, Priced, Costs, Cost
  <2>6. /\ Sum(Costs', new) = Sum(Costs, held) + (IF i = 1 THEN Sum(Costs', {o}) ELSE 0)
        /\ Sum(Costs, held) \in Nat /\ Sum(Costs', {o}) \in Nat
        /\ Cardinality(new) = Cardinality(held) + (IF i = 1 THEN 1 ELSE 0) /\ Cardinality(held) \in Nat
    <3>1. {o} \in SUBSET Orders /\ held \cap {o} = {}
      BY <2>4
    <3>2. Sum(Costs, held) \in Nat /\ Sum(Costs', {o}) \in Nat /\ Cardinality(held) \in Nat
      BY <2>4, <2>5, <3>1, OrderSums, OrderCounts
    <3>3. CASE i = 1
      <4>1. new = held \cup {o}
        BY <3>3
      <4> HIDE DEF new, held
      <4>2. Sum(Costs', held \cup {o}) = Sum(Costs', held) + Sum(Costs', {o})
        BY <2>4, <2>5, <3>1, OrderSums
      <4>3. Cardinality(held \cup {o}) = Cardinality(held) + 1
        BY <2>4, <3>1, OrderCounts
      <4> QED BY <2>4, <3>2, <3>3, <4>1, <4>2, <4>3
    <3>4. CASE i # 1
      <4>1. new = held
        BY <3>4
      <4> HIDE DEF new, held
      <4> QED BY <2>4, <3>2, <3>4, <4>1
    <3> QED BY <3>3, <3>4
  <2>7. /\ Cardinality(held) + e.qty - bought <= e.item.maxQty
        /\ e.item.maxSpend > 0 => Sum(Costs, held) + e.spend - cost <= e.item.maxSpend
    <3>1. Capped(i)
      BY <1>1, <2>1
    <3> QED BY <3>1, Zenon DEF Capped, SpentOn, Costs
  <2>8. e.qty \in Int /\ e.spend \in Int /\ e.item.maxQty \in Int /\ e.item.maxSpend \in Int
        /\ cyc.bought \in Int /\ cyc.cost \in Int /\ spent \in Int
    BY <1>1, <1>2, <2>1 DEF Entries, WatchItems, Fields
  <2>9. SpentOn(OrdersFor(cyc.todo[i].item.name) \ cyc.sent)' = Sum(Costs', new)
    BY <2>3 DEF SpentOn, Costs
  <2>10. (IF i = 1 THEN cyc'.bought ELSE 0) = bought + (IF i = 1 THEN 1 ELSE 0)
         /\ (IF i = 1 THEN cyc'.cost ELSE 0) >= cost + (IF i = 1 THEN Sum(Costs', {o}) ELSE 0)
         /\ (IF i = 1 THEN cyc'.cost ELSE 0) \in Int
    BY <1>2, <1>3, <2>6, <2>8
  <2>11. bought \in Int /\ cost \in Int
    BY <2>8
  <2> HIDE DEF held, new, more, bought, cost
  <2>12. Cardinality(new) + e.qty - (IF i = 1 THEN cyc'.bought ELSE 0) <= e.item.maxQty
    BY <2>6, <2>7, <2>8, <2>10, <2>11
  <2>13. e.item.maxSpend > 0 =>
           Sum(Costs', new) + e.spend - (IF i = 1 THEN cyc'.cost ELSE 0) <= e.item.maxSpend
    BY <2>6, <2>7, <2>8, <2>10, <2>11
  <2>14. cyc'.todo[i] = e
    BY <1>4
  <2> HIDE DEF e
  <2> QED BY <2>3, <2>9, <2>12, <2>13, <2>14, Zenon DEF Capped
<1>11. Listed' /\ SentOk'
  <2>1. Listed'
    BY <1>1, <1>4 DEF Listed, Buying
  <2>2. Current' = Current
    BY <1>4 DEF Current
  <2> QED BY <1>1, <1>3, <1>4, <2>1, <2>2 DEF SentOk, Ordering, Buying
<1> QED BY <1>2, <1>5, <1>7, <1>8, <1>10, <1>11 DEF Books, Sweep

\* The answer to a batch, or none.
LEMMA BatchBooks ==
  ASSUME Ledger, Books,
         \/ BatchTimeout \/ BatchRefused
         \/ \E ok \in SUBSET cyc.sent : \E bad \in SUBSET (cyc.sent \ ok) : BatchReply(ok, bad)
  PROVE  Books'
<1> DEFINE sent == cyc.sent
<1>1. /\ pc = "batch" /\ UNCHANGED <<config, wallet>> /\ pc \in Buying
      /\ Job /\ Purse /\ SentOk /\ Fields(cyc) /\ cyc.cost = 0
  BY DEF BatchTimeout, BatchRefused, BatchReply, table, world, Books, Job, Sweep, Sweeping, Buying
<1>2. sent \in SUBSET Orders /\ (\A o \in sent : Counted(o) /\ rows[o].pay = 0 /\ rows[o] = rows[o])
      /\ Cardinality(sent) \in Nat
  BY <1>1, OrderCounts DEF SentOk, CountedOrders
<1>3. /\ rows = [o \in Orders |-> rows[o]] /\ plat = [o \in Orders |-> plat[o]]
      /\ \A o \in Orders : DOMAIN rows[o] = DOMAIN NoRow
         /\ DOMAIN plat[o] = {"state", "key", "product", "pay"}
  BY DEF Ledger, Shaped
<1>4. \A o \in Orders : Priced(o) /\ Costs[o] \in Nat /\ Costs[o] = Cost(rows[o])
  BY <1>1, CostsAreNumbers DEF Purse
<1>5. CASE BatchTimeout
  <2> DEFINE spent == SpentOn(sent)
  <2>1. rows' = rows /\ plat' = plat /\ ItemDone(Cardinality(sent), spent)
    BY <1>5 DEF BatchTimeout, table, world
  <2>2. spent = Sum(Costs, sent) /\ Costs' = Costs
    BY <2>1 DEF SpentOn, Costs
  <2>3. Sum(Costs, sent) \in Nat
    BY <1>2, <1>4, OrderSums
  <2> HIDE DEF spent
  <2>4. \A o \in Orders : Priced(o)' /\ (o \in Charged' <=> o \in Charged)
    BY <1>4, <2>1 DEF Priced, Cost, UnderWay, Charged
  <2>5. cyc.cost + Sum(Costs', sent) <= spent /\ spent \in Int
    BY <1>1, <2>2, <2>3
  <2>6. Answered(sent, spent)
    BY <1>1, <1>2, <2>1, <2>4, <2>5 DEF Answered, Counted
  <2> QED BY <1>1, <1>2, <2>1, <2>6, DoneBooks
<1>6. CASE BatchRefused
  <2>1. ItemDone(0, 0) /\ (\A o \in sent : plat[o].state = "sent")
        /\ rows' = [o \in Orders |-> IF o \in sent THEN [rows[o] EXCEPT !.status = "failed"] ELSE rows[o]]
        /\ plat' = [o \in Orders |-> IF o \in sent THEN [plat[o] EXCEPT !.state = "refused"] ELSE plat[o]]
    BY <1>6 DEF BatchRefused
  <2>2. \A o \in Orders \ sent : rows'[o] = rows[o] /\ plat'[o] = plat[o]
    BY <2>1
  <2>3. \A o \in sent : /\ rows'[o].status = "failed" /\ rows'[o].name = rows[o].name
        /\ rows'[o].price = rows[o].price
                        /\ rows'[o].pay = rows[o].pay /\ plat'[o].state = "refused"
                           /\ plat'[o].pay = plat[o].pay
    BY <1>2, <1>3, <2>1 DEF NoRow
  <2>4. \A o \in Orders : Priced(o)'
    BY <1>4, <2>2, <2>3 DEF Priced, Cost, UnderWay
  <2>5. \A o \in sent : ~Counted(o)' /\ o \notin Charged /\ o \notin Charged' /\ o \notin Underway'
    BY <2>1, <2>3 DEF Counted, CountedStatus, Charged, Underway, UnderWay
  <2>6. Sum(Costs', {}) = 0
    BY SumEmpty
  <2>7. Answered({}, 0)
    BY <1>1, <2>2, <2>3, <2>4, <2>5, <2>6 DEF Answered
  <2> QED BY <1>1, <2>1, <2>7, DoneBooks
<1>7. ASSUME NEW ok \in SUBSET cyc.sent, NEW bad \in SUBSET (cyc.sent \ ok), BatchReply(ok, bad)
      PROVE  Books'
  <2> DEFINE left == sent \ (ok \cup bad)
             paid == [o \in ok |-> Paid(o)]
             spent == Sum(paid, ok) + SpentOn(left)
             K == ok \cup left
  <2>1. /\ ItemDone(Cardinality(ok) + Cardinality(left), spent)
        /\ \A o \in ok : plat[o].state = "placed"
        /\ \A o \in bad : plat[o].state = "refused"
        /\ plat' = plat
        /\ rows' = [o \in Orders |->
             CASE o \in ok  -> [rows[o] EXCEPT !.status = "ok", !.pay = Paid(o), !.orderId = TRUE]
               [] o \in bad -> [rows[o] EXCEPT !.status = "failed"]
               [] OTHER     -> rows[o]]
    BY <1>7 DEF BatchReply, world
  <2>2. ok \in SUBSET Orders /\ left \in SUBSET Orders /\ ok \cap left = {} /\ K = sent \ bad
    BY <1>2
  <2>3. \A o \in Orders : o \notin ok /\ o \notin bad => rows'[o] = rows[o]
    BY <2>1
  <2>4. \A o \in ok : /\ rows'[o].status = "ok" /\ rows'[o].name = rows[o].name
        /\ rows'[o].price = rows[o].price
                      /\ rows'[o].pay = Paid(o) /\ plat[o].state = "placed"
    BY <1>2, <1>3, <2>1 DEF NoRow
  <2>5. \A o \in bad : /\ rows'[o].status = "failed" /\ rows'[o].name = rows[o].name
        /\ rows'[o].price = rows[o].price
                       /\ rows'[o].pay = rows[o].pay /\ plat[o].state = "refused"
    BY <1>2, <1>3, <2>1 DEF NoRow
  <2>6. \A o \in ok : Priced(o)' /\ Costs'[o] = Paid(o) /\ Costs'[o] \in Nat
    <3> SUFFICES ASSUME NEW o \in ok PROVE Priced(o)' /\ Costs'[o] = Paid(o) /\ Costs'[o] \in Nat
      OBVIOUS
    <3>1. o \in Orders /\ rows[o].price \in Nat /\ plat[o].pay \in Nat /\ plat[o].pay <= rows[o].price
          /\ rows[o].pay = 0 /\ plat'[o] = plat[o]
      <4>1. o \in Orders /\ o \in sent /\ plat[o].state = "placed" /\ plat' = plat
        BY <1>2, <2>1
      <4>2. rows[o].pay = 0
        BY <1>2, <4>1
      <4>3. Cost(rows[o]) = rows[o].price
        BY <4>2 DEF Cost
      <4> QED BY <1>4, <4>1, <4>2, <4>3 DEF Priced
    <3>2. Paid(o) \in Nat /\ Paid(o) <= rows[o].price /\ plat[o].pay <= Paid(o) /\ (Paid(o) = 0 =>
            rows[o].price = 0)
      BY <3>1 DEF Paid
    <3>3. Costs'[o] = Cost(rows'[o])
      BY <3>1 DEF Costs
    <3>4. Cost(rows'[o]) = Paid(o)
      BY <2>4, <3>1, <3>2 DEF Cost
    <3> QED BY <2>4, <3>1, <3>2, <3>3, <3>4 DEF Priced, UnderWay
  <2>7. \A o \in Orders : Priced(o)'
    <3>1. \A o \in Orders : o \notin ok => Priced(o)'
      BY <1>4, <2>1, <2>3, <2>5 DEF Priced, Cost, UnderWay
    <3> QED BY <2>6, <3>1
  <2>8. \A o \in left : Costs'[o] = Costs[o]
    BY <2>2, <2>3 DEF Costs
  <2>9. /\ \A o \in Orders : Costs'[o] \in Nat
        /\ Sum(Costs', ok \cup left) = Sum(Costs', ok) + Sum(Costs', left)
        /\ Sum(Costs', ok) \in Nat /\ Sum(Costs', left) \in Nat
    <3>1. \A o \in Orders : Costs'[o] \in Nat
      BY <2>7 DEF Priced, Costs, Cost
    <3> HIDE DEF left
    <3> QED BY <2>2, <3>1, OrderSums
  <2>10. Sum(Costs', ok) = Sum(paid, ok)
    <3>1. \A o \in ok : Costs'[o] \in Nat /\ paid[o] = Costs'[o]
      BY <2>6
    <3> HIDE DEF paid
    <3> QED BY <2>2, <3>1, SameSum
  <2>11. Sum(Costs', left) = SpentOn(left)
    <3>1. Sum(Costs', left) = Sum(Costs, left)
      <4> HIDE DEF left
      <4> QED BY <1>4, <2>2, <2>8, SameSum
    <3> QED BY <3>1 DEF SpentOn, Costs
  <2>12. cyc.cost + Sum(Costs', K) <= spent /\ spent \in Int
    <3> HIDE DEF left, paid
    <3> QED BY <1>1, <2>9, <2>10, <2>11
  <2>13. \A o \in sent : /\ o \in K <=> Counted(o)'
                         /\ rows'[o].name = rows[o].name
                         /\ o \in Charged' <=> o \in Charged
                         /\ o \in bad => o \notin Charged /\ o \notin Underway'
    BY <1>2, <2>1, <2>3, <2>4, <2>5 DEF Counted, CountedStatus, Charged, Underway, UnderWay
  <2>14. Answered(K, spent)
    <3> HIDE DEF spent
    <3> QED BY <1>1, <2>1, <2>2, <2>3, <2>7, <2>12, <2>13 DEF Answered
  <2>15. Cardinality(ok) + Cardinality(left) \in Int
    <3> HIDE DEF left
    <3> QED BY <2>2, OrderCounts
  <2> HIDE DEF spent, K, left
  <2> QED BY <1>1, <2>1, <2>14, <2>15, DoneBooks
<1> QED BY <1>5, <1>6, <1>7

\* A quick order is answered, or not.
LEMMA QuickBooks ==
  ASSUME Ledger, Books, QuickTimeout \/ \E o \in Orders : QuickRefused(o) \/ QuickPaid(o) \/ QuickPaying(o)
  PROVE  Books'
<1>1. /\ pc = "quick" /\ UNCHANGED <<config, wallet>> /\ pc \in Buying
      /\ Job /\ Purse /\ SentOk /\ Fields(cyc)
  BY DEF QuickTimeout, QuickRefused, QuickPaid, QuickPaying, QuickTaken, table, world, Books, Job,
     Sweep, Sweeping, Buying
<1>2. PICK o \in Orders : /\ cyc.sent = {o} /\ rows[o].price = Target /\ rows[o].pay = 0 /\ Counted(o)
                          /\ rows[o].name = Current.item.name
  BY <1>1 DEF SentOk, CountedOrders
<1>3. /\ rows = [q \in Orders |-> rows[q]] /\ plat = [q \in Orders |-> plat[q]]
      /\ DOMAIN rows[o] = DOMAIN NoRow /\ DOMAIN plat[o] = {"state", "key", "product", "pay"}
  BY DEF Ledger, Shaped
<1>4. \A q \in Orders : Priced(q) /\ Costs[q] \in Nat /\ Costs[q] = Cost(rows[q])
  BY <1>1, CostsAreNumbers DEF Purse
<1>5. Target \in Nat /\ Costs[o] = Target /\ cyc.cost \in Int /\ cyc.bought \in Int
  BY <1>1, <1>2, <1>4 DEF Priced, Cost, Fields
\* What is left to show of an answer that changes only this order.
<1>6. ASSUME NEW K \in {{}, {o}}, NEW spent \in Int,
             \A q \in Orders : q # o => rows'[q] = rows[q] /\ plat'[q] = plat[q],
             rows'[o].name = rows[o].name, plat'[o].pay = plat[o].pay, o \in K <=> Counted(o)',
             o \in Charged' <=> o \in Charged, o \in Charged => o \in K, UnderWay(o)' => o \in K,
             Priced(o)', cyc.cost + (IF o \in K THEN Costs'[o] ELSE 0) <= spent
      PROVE  Answered(K, spent)
  <2>1. \A q \in Orders : Priced(q)' /\ Costs'[q] \in Nat
    <3>1. \A q \in Orders : q # o => Priced(q)'
      BY <1>4, <1>6 DEF Priced, Cost, UnderWay
    <3> QED BY <1>6, <3>1 DEF Priced, Costs, Cost
  <2>2. Sum(Costs', K) = IF o \in K THEN Costs'[o] ELSE 0
    <3>1. CASE K = {}
      BY <3>1, SumEmpty
    <3>2. CASE K = {o}
      BY <2>1, <3>2, OrderSums
    <3> QED BY <1>6, <3>1, <3>2
  <2>3. K \subseteq {o}
    OBVIOUS
  <2> QED BY <1>1, <1>2, <1>6, <2>1, <2>2, <2>3 DEF Answered, Underway
<1>7. CASE QuickTimeout
  <2> DEFINE spent == cyc.cost + Target
  <2>1. rows' = rows /\ plat' = plat /\ ItemDone(cyc.bought + 1, spent)
    BY <1>7 DEF QuickTimeout, table, world
  <2>2. Costs'[o] = Target /\ Priced(o)' /\ Counted(o)' /\ (o \in Charged' <=> o \in Charged)
        /\ spent \in Int
    BY <1>2, <1>4, <1>5, <2>1 DEF Costs, Priced, Cost, UnderWay, Counted, Charged
  <2>3. Answered({o}, spent)
    BY <1>5, <1>6, <2>1, <2>2
  <2> HIDE DEF spent
  <2> QED BY <1>1, <1>5, <2>1, <2>3, DoneBooks
<1>8. ASSUME NEW q \in Orders, QuickRefused(q) PROVE Books'
  <2>1. q = o /\ ItemDone(cyc.bought, cyc.cost) /\ plat[o].state \in {"sent", "refused"}
        /\ rows' = [rows EXCEPT ![o] = [rows[o] EXCEPT !.status = "failed"]]
        /\ plat' = [plat EXCEPT ![o] = [plat[o] EXCEPT !.state = "refused"]]
    BY <1>2, <1>8 DEF QuickRefused
  <2>2. /\ rows'[o].status = "failed" /\ rows'[o].name = rows[o].name /\ rows'[o].price = rows[o].price
        /\ rows'[o].pay = rows[o].pay /\ plat'[o].state = "refused" /\ plat'[o].pay = plat[o].pay
    BY <1>3, <2>1 DEF NoRow
  <2>3. Priced(o)' /\ ~Counted(o)' /\ o \notin Charged /\ o \notin Charged' /\ ~UnderWay(o)'
    BY <1>4, <2>1, <2>2 DEF Priced, Cost, UnderWay, Counted, CountedStatus, Charged
  <2>4. \A p \in Orders : p # o => rows'[p] = rows[p] /\ plat'[p] = plat[p]
    BY <1>3, <2>1
  <2>5. Answered({}, cyc.cost)
    BY <1>5, <1>6, <2>2, <2>3, <2>4
  <2> QED BY <1>1, <1>5, <2>1, <2>5, DoneBooks
<1>9. ASSUME NEW q \in Orders, QuickPaid(q) PROVE Books'
  <2> DEFINE spent == cyc.cost + Paid(o)
             row == [rows[o] EXCEPT !.status = "ok", !.pay = Paid(o), !.orderId = TRUE]
  <2>1. q = o /\ plat[o].state = "placed" /\ plat' = plat /\ QuickTaken(o, row)
    BY <1>2, <1>9 DEF QuickPaid, world
  <2>2. row.status = "ok" /\ row.name = rows[o].name /\ row.price = rows[o].price /\ row.pay = Paid(o)
    BY <1>3 DEF NoRow
  <2> HIDE DEF row
  <2>3. rows'[o] = row /\ (\A p \in Orders : p # o => rows'[p] = rows[p]) /\ pc' = "loop"
        /\ cyc' = [cyc EXCEPT !.bought = @ + 1, !.cost = spent, !.sent = {}]
    BY <1>3, <2>1, <2>2 DEF QuickTaken
  <2>4. plat[o].pay \in Nat /\ plat[o].pay <= rows[o].price /\ rows[o].price \in Nat
    BY <1>2, <1>4, <2>1 DEF Priced, Cost
  <2>5. Paid(o) \in Nat /\ Paid(o) <= rows[o].price /\ plat[o].pay <= Paid(o) /\ (Paid(o) = 0 =>
          rows[o].price = 0)
    BY <2>4 DEF Paid
  <2>6. Costs'[o] = Paid(o)
    BY <2>2, <2>3, <2>5 DEF Costs, Cost
  <2>7. Priced(o)'
    BY <2>1, <2>2, <2>3, <2>4, <2>5 DEF Priced, Cost, UnderWay
  <2>8. Counted(o)' /\ o \in Charged /\ o \in Charged' /\ rows'[o].name = rows[o].name
    BY <2>1, <2>2, <2>3 DEF Counted, CountedStatus, Charged
  <2>9. spent \in Int /\ cyc.cost + Costs'[o] <= spent
    BY <1>5, <2>5, <2>6
  <2> HIDE DEF spent
  <2>10. Answered({o}, spent)
    BY <1>6, <2>1, <2>3, <2>7, <2>8, <2>9
  <2> QED BY <1>1, <1>2, <2>3, <2>10, GoesOnBooks
<1>10. ASSUME NEW q \in Orders, QuickPaying(q) PROVE Books'
  <2> DEFINE spent == cyc.cost + Target
             row == [rows[o] EXCEPT !.pay = Target, !.orderId = TRUE]
  <2>1. q = o /\ plat[o].state = "sent"
        /\ plat' = [plat EXCEPT ![o] = [plat[o] EXCEPT !.state = "paying"]]
        /\ QuickTaken(o, row)
    BY <1>2, <1>10 DEF QuickPaying
  <2>2. row.status = rows[o].status /\ row.name = rows[o].name /\ row.price = rows[o].price
        /\ row.pay = Target
    BY <1>3 DEF NoRow
  <2> HIDE DEF row
  <2>3. rows'[o] = row /\ (\A p \in Orders : p # o => rows'[p] = rows[p]) /\ pc' = "loop"
        /\ cyc' = [cyc EXCEPT !.bought = @ + 1, !.cost = spent, !.sent = {}]
    BY <1>3, <2>1, <2>2 DEF QuickTaken
  <2>4. plat'[o].state = "paying" /\ plat'[o].pay = plat[o].pay /\ \A p \in Orders : p # o =>
          plat'[p] = plat[p]
    BY <1>3, <2>1
  <2>5. Costs'[o] = Target
    BY <1>2, <1>5, <2>2, <2>3 DEF Costs, Cost
  <2>6. Priced(o)'
    BY <1>2, <1>4, <1>5, <2>2, <2>3, <2>4 DEF Priced, Cost, UnderWay
  <2>7. Counted(o)' /\ o \notin Charged /\ o \notin Charged' /\ rows'[o].name = rows[o].name
    BY <1>2, <2>1, <2>2, <2>3, <2>4 DEF Counted, Charged
  <2>8. spent \in Int /\ cyc.cost + Costs'[o] <= spent
    BY <1>5, <2>5
  <2> HIDE DEF spent
  <2>9. Answered({o}, spent)
    BY <1>6, <2>3, <2>4, <2>6, <2>7, <2>8
  <2> QED BY <1>1, <1>2, <2>3, <2>9, GoesOnBooks
<1> QED BY <1>7, <1>8, <1>9, <1>10

\* The item is left without an order more.
LEMMA LeaveBooks ==
  ASSUME Books, UNCHANGED <<config, rows, plat, wallet>>,
         \/ pc = "search" /\ ItemDone(0, 0)
         \/ pc = "loop" /\ ItemDone(cyc.bought, cyc.cost)
  PROVE  Books'
<1>1. /\ pc \in Buying /\ cyc.sent = {} /\ Fields(cyc) /\ \A o \in Orders : Priced(o)
      /\ pc = "search" => cyc.bought = 0 /\ cyc.cost = 0
  BY DEF Books, Buying, Job, Purse, Ordering
<1>2. Sum(Costs', {}) = 0 /\ cyc.cost \in Int /\ cyc.bought \in Int
  BY <1>1, SumEmpty DEF Fields
<1>3. \A o \in Orders : Priced(o)'
  BY <1>1 DEF Priced, Cost, UnderWay
<1>4. Answered({}, cyc.cost)
  BY <1>1, <1>2, <1>3 DEF Answered
<1>5. ItemDone(cyc.bought, cyc.cost)
  BY <1>1
<1> QED BY <1>1, <1>2, <1>4, <1>5, DoneBooks

-----------------------------------------------------------------------------
(* What is picked, and what is ordered. *)

ListPrice == [l \in Listings |-> l.price]

\* What is picked is no more than the quantity and the money allow: the loop was
\* at the last of the picks with all of them behind it.
LEMMA PicksFit ==
  ASSUME NEW found, found \subseteq Listings, NEW maxPrice, NEW qty \in Int, NEW money \in Int, NEW ids,
         PickListings(found, maxPrice, qty, money, ids) # {}
  PROVE  LET picks == PickListings(found, maxPrice, qty, money, ids)
         IN  Cardinality(picks) <= qty /\ Sum(ListPrice, picks) <= money
<1> DEFINE ls == Eligible(found, maxPrice, ids)
           picks == PickListings(found, maxPrice, qty, money, ids)
           G == {T \in SUBSET picks : T = {} \/ \E l \in T : T \subseteq UpTo(l, ls)}
<1>1. /\ picks \subseteq ls /\ ls \subseteq Listings
      /\ \A l \in picks : Cardinality(UpTo(l, ls)) <= qty /\ PriceOf(UpTo(l, ls)) <= money
  BY DEF PickListings, Eligible
<1>2. /\ \A l \in Listings : l.price \in Nat /\ l.id \in Nat
      /\ \A S \in SUBSET Listings : IsFiniteSet(S) /\ Cardinality(S) \in Nat
  BY ConstantsOK, FS_Subset, FS_CardinalityType DEF SellListings
<1> HIDE DEF ls
<1>3. picks \in G
  <2>1. {} \in G
    OBVIOUS
  <2>2. ASSUME NEW T \in SUBSET picks, NEW x \in picks, T \in G, x \notin T PROVE T \cup {x} \in G
    <3>1. CASE T = {}
      BY <1>1, <1>2, <3>1 DEF UpTo
    <3>2. CASE T # {}
      <4>1. PICK l \in T : T \subseteq UpTo(l, ls)
        BY <2>2, <3>2
      <4>2. \A m \in picks : m \in ls /\ m.price \in Nat /\ m.id \in Nat
        BY <1>1, <1>2
      <4>3. x \in UpTo(l, ls) \/ (l \in UpTo(x, ls) /\ \A m \in T : m \in UpTo(x, ls))
        BY <4>1, <4>2 DEF UpTo
      <4>4. x \in UpTo(x, ls)
        BY <4>2 DEF UpTo
      <4> QED BY <4>1, <4>3, <4>4
    <3> QED BY <3>1, <3>2
  <2>3. IsFiniteSet(picks)
    BY <1>1, <1>2
  <2> HIDE DEF G, picks
  <2> QED BY <2>1, <2>2, <2>3, SubsetInduction
<1>4. PICK l \in picks : picks \subseteq UpTo(l, ls)
  BY <1>3
<1> DEFINE up == UpTo(l, ls)
<1>5. picks \subseteq up /\ up \in SUBSET Listings /\ Cardinality(up) <= qty /\ PriceOf(up) <= money
  BY <1>1, <1>4 DEF UpTo
<1>6. Cardinality(picks) <= Cardinality(up)
  BY <1>2, <1>5, FS_Subset
<1> HIDE DEF up, picks
<1>7. Sum(ListPrice, picks) <= Sum(ListPrice, up) /\ Sum(ListPrice, picks) \in Int
  <2>1. IsFiniteSet(up) /\ IsFiniteSet(picks) /\ \A x \in up : ListPrice[x] \in Nat
    BY <1>2, <1>5 DEF ListPrice
  <2>2. \A x \in picks : ListPrice[x] \in Int
    BY <1>5, <2>1
  <2> QED BY <1>5, <2>1, <2>2, SumGrows, SumType
<1>8. PriceOf(up) = Sum(ListPrice, up) /\ Sum(ListPrice, up) \in Int
  <2>1. IsFiniteSet(up) /\ \A x \in up : ListPrice[x] \in Int
        /\ [m \in up |-> m.price][x] = ListPrice[x]
    BY <1>2, <1>5 DEF ListPrice
  <2> QED BY <2>1, SumSame, SumType DEF PriceOf
<1>9. Cardinality(picks) \in Nat /\ Cardinality(up) \in Nat
  BY <1>2, <1>5
<1>10. Cardinality(picks) <= qty /\ Sum(ListPrice, picks) <= money
  BY <1>5, <1>6, <1>7, <1>8, <1>9
<1> QED BY <1>10 DEF picks

\* The search is answered: a batch goes out, or the item is left.
LEMMA SearchBooks ==
  ASSUME Ledger, Books, NEW found, SearchReply(found)
  PROVE  Books'
<1> DEFINE picks == PickListings(found, Current.item.maxPrice, cyc.qty, cyc.money, ProductIds \cup skip)
<1>1. pc = "search" /\ UNCHANGED <<config, wallet>> /\ found \subseteq Listings /\ Fields(cyc)
      /\ cyc.bought = 0 /\ cyc.cost = 0
  BY DEF SearchReply, Books, Job
<1>2. CASE ItemDone(0, 0) /\ UNCHANGED <<rows, plat>>
  BY <1>1, <1>2, LeaveBooks
<1>3. ASSUME picks # {}, NEW no \in [picks -> Unused],
             \A l, m \in picks : no[l] = no[m] => l = m,
             rows' = [o \in Orders |-> IF \E l \in picks : no[l] = o
                                       THEN LET l == CHOOSE l \in picks : no[l] = o
                                            IN  SendOrder(o, l.id, l.price)
                                       ELSE rows[o]],
             plat' = [o \in Orders |-> IF \E l \in picks : no[l] = o THEN Sent ELSE plat[o]],
             pc' = "batch", cyc' = [cyc EXCEPT !.sent = {no[l] : l \in picks}]
      PROVE  Books'
  <2> DEFINE N == {no[l] : l \in picks}
  <2>1. cyc.qty \in Int /\ cyc.money \in Int
    BY <1>1 DEF Fields
  <2>2. Cardinality(picks) <= cyc.qty /\ Sum(ListPrice, picks) <= cyc.money
    BY <1>1, <1>3, <2>1, PicksFit
  <2>3. picks \subseteq Listings
    BY <1>1 DEF PickListings, Eligible
  <2> HIDE DEF picks
  <2>4. N \subseteq Unused /\ Unused \subseteq Orders
    BY DEF Unused
  <2>5. ASSUME NEW l \in picks
        PROVE  /\ rows'[no[l]].status = "unknown" /\ rows'[no[l]].name = Current.item.name
               /\ rows'[no[l]].pay = 0 /\ rows'[no[l]].price = l.price /\ plat'[no[l]] = Sent
    <3> DEFINE o == no[l]
               m == CHOOSE m \in picks : no[m] = o
    <3>1. o \in Orders /\ m = l
      BY <1>3, <2>4
    <3>2. \E k \in picks : no[k] = o
      OBVIOUS
    <3>3. rows'[o] = SendOrder(o, m.id, m.price) /\ plat'[o] = Sent
      BY <1>3, <3>1, <3>2
    <3> HIDE DEF m
    <3> QED BY <3>1, <3>3 DEF SendOrder
  <2>6. \A l \in picks : l.price \in Nat /\ ListPrice[l] = l.price
    BY <2>3, ConstantsOK DEF SellListings, ListPrice
  <2>7. /\ \A o \in N : /\ rows'[o].status = "unknown" /\ rows'[o].name = Current.item.name
                        /\ rows'[o].pay = 0 /\ rows'[o].price \in Nat /\ plat'[o] = Sent
    BY <2>5, <2>6
  <2>8. \A o \in Orders \ N : rows'[o] = rows[o] /\ plat'[o] = plat[o]
    BY <1>3
  <2>9. IsFiniteSet(picks)
    BY <2>3, ConstantsOK, FS_Subset
  <2>10. Cardinality(N) <= Cardinality(picks) /\ Cardinality(N) \in Nat /\ Cardinality(picks) \in Nat
    <3>1. no \in Surjection(picks, N)
      BY DEF Surjection
    <3> HIDE DEF N
    <3> QED BY <2>9, <3>1, FS_Surjection, FS_CardinalityType
  <2>11. Sum(Costs', N) = Sum(ListPrice, picks)
    <3>1. \A l \in picks : no[l] \in Orders /\ Costs'[no[l]] = Cost(rows'[no[l]])
      BY <2>4 DEF Costs
    <3>2. \A l \in picks : ListPrice[l] \in Int /\ Costs'[no[l]] = ListPrice[l]
      BY <2>5, <2>6, <3>1 DEF Cost
    <3> QED BY <1>3, <2>9, <3>2, SumRenamed
  <2>12. Sum(ListPrice, picks) \in Int
    <3>1. \A l \in picks : ListPrice[l] \in Int
      BY <2>6
    <3> QED BY <2>9, <3>1, SumType
  <2>13. cyc.bought + Cardinality(N) <= cyc.qty /\ cyc.cost + Sum(Costs', N) <= cyc.money
    <3> HIDE DEF N
    <3> QED BY <1>1, <2>1, <2>2, <2>10, <2>11, <2>12
  <2>14. cyc' = [cyc EXCEPT !.sent = N] /\ pc' = "batch"
    BY <1>3
  <2> HIDE DEF N
  <2> QED BY <1>1, <2>4, <2>7, <2>8, <2>13, <2>14, SendBooks DEF Ordering
<1> QED BY <1>2, <1>3, Zenon DEF SearchReply

\* One more quick order.
LEMMA QuickOrderBooks ==
  ASSUME Ledger, Books, NEW o \in Orders, QuickOrder(o)
  PROVE  Books'
<1>1. /\ pc = "loop" /\ UNCHANGED <<config, wallet>> /\ Fields(cyc) /\ o \in Unused
      /\ cyc.bought < cyc.qty /\ Target <= cyc.money - cyc.cost /\ pc' = "quick"
         /\ cyc' = [cyc EXCEPT !.sent = {o}]
  BY DEF QuickOrder, WantsMore, Books, Job
<1>2. /\ rows = [q \in Orders |-> rows[q]] /\ plat = [q \in Orders |-> plat[q]]
      /\ rows' = [rows EXCEPT ![o] = SendOrder(o, NoProduct, Target)]
         /\ plat' = [plat EXCEPT ![o] = Sent]
  BY DEF QuickOrder, Ledger, Shaped
<1>3. /\ rows'[o] = SendOrder(o, NoProduct, Target) /\ plat'[o] = Sent
      /\ \A q \in Orders \ {o} : rows'[q] = rows[q] /\ plat'[q] = plat[q]
  BY <1>2
<1>4. Target \in Nat
  <2>1. cyc.todo \in Seq(Entries) /\ cyc.todo # <<>>
    BY <1>1 DEF Books, Sweep, Sweeping, Listed, ListedIn, Buying
  <2>2. Current \in Entries
    <3> DEFINE t == cyc.todo
    <3>1. t \in Seq(Entries) /\ t # <<>>
      BY <2>1
    <3> HIDE DEF t
    <3>2. Head(t) \in Entries
      BY <3>1
    <3> QED BY <3>2 DEF t, Current
  <2> QED BY <2>2 DEF Entries, WatchItems, Target
<1>5. /\ rows'[o].status = "unknown" /\ rows'[o].name = Current.item.name
      /\ rows'[o].pay = 0 /\ rows'[o].price = Target
  BY <1>3 DEF SendOrder
<1>6. Cardinality({o}) = 1
  BY OrderCounts
<1>7. Sum(Costs', {o}) = Target
  <2>1. Costs'[o] = Target
    BY <1>5 DEF Costs, Cost
  <2> QED BY <1>4, <2>1, SumOne
<1>8. cyc.bought + Cardinality({o}) <= cyc.qty /\ cyc.cost + Sum(Costs', {o}) <= cyc.money
  BY <1>1, <1>4, <1>6, <1>7 DEF Fields
<1>9. {o} \in SUBSET Unused /\ pc' \in Ordering
  BY <1>1 DEF Ordering
<1>10. \A q \in {o} : /\ rows'[q].status = "unknown" /\ rows'[q].name = Current.item.name
                      /\ rows'[q].pay = 0 /\ rows'[q].price \in Nat /\ plat'[q] = Sent
  BY <1>3, <1>4, <1>5
<1>11. \E q \in Orders : {o} = {q} /\ rows'[q].price = Target
  BY <1>5
<1> HIDE DEF Target
<1> QED BY <1>1, <1>3, <1>8, <1>9, <1>10, <1>11, SendBooks

-----------------------------------------------------------------------------
(* The theorems about money. *)

\* Every step keeps the books.
LEMMA BooksStep ==
  ASSUME Ledger, Books, [Next]_vars
  PROVE  Books'
<1>1. ASSUME NEW hit, StatsReply(hit) PROVE Books'
  BY <1>1, StatsBooks
<1>2. ASSUME NEW found, SearchReply(found) PROVE Books'
  BY <1>2, SearchBooks
<1>3. CASE SearchFails
  BY <1>3, LeaveBooks DEF SearchFails, table, world
<1>4. CASE QuickEnds
  BY <1>4, LeaveBooks DEF QuickEnds, table, world
<1>5. CASE Buy
  BY <1>1, <1>2, <1>3, <1>4, <1>5, PickBooks, BatchBooks, QuickBooks, QuickOrderBooks DEF Buy
<1>6. CASE Page
  BY <1>6, PageBooks, RefreshBooks DEF Page
<1>7. CASE Next
  BY <1>5, <1>6, <1>7, PageBooks, PlatformBooks, RefreshBooks DEF Next
<1> QED BY <1>7, PageBooks

\* They are in order at the start.
LEMMA BooksInit ==
  ASSUME Init
  PROVE  Books
<1>1. \A o \in Orders : rows[o] = NoRow /\ plat[o].state = "none" /\ plat[o].pay = 0
  BY DEF Init
<1>2. \A o \in Orders : Priced(o)
  <2>1. NoRow.price = 0 /\ NoRow.pay = 0
    BY DEF NoRow
  <2> QED BY <1>1, <2>1 DEF Priced, UnderWay
<1>3. Balanced
  <2>1. Charged = {}
    BY <1>1 DEF Charged
  <2>2. Sum(Charges, Charged) = 0
    BY <2>1, SumEmpty
  <2> QED BY <2>2, ConstantsOK DEF Init, Balanced
<1>4. /\ pc = "idle" /\ DOMAIN cyc = DOMAIN Idle /\ cyc.budget = 0 /\ cyc.balance = NoBalance
         /\ cyc.left = 0 /\ cyc.qty = 0
      /\ cyc.money = 0 /\ cyc.bought = 0 /\ cyc.cost = 0 /\ cyc.sent = {} /\ cyc.calm = FALSE
  BY DEF Init, Idle
<1>5. NoBalance \in Int
  BY ConstantsOK DEF NoBalance
<1>6. Job /\ Reserved /\ Sweep
  BY <1>4, <1>5 DEF Job, Fields, Reserved, Sweep, Sweeping, Ordering
<1>7. Configured
  BY DEF Init, Configured
<1> QED BY <1>2, <1>3, <1>6, <1>7 DEF Books, Purse

\* So they are always.
LEMMA BooksHolds == Spec => []Books
<1>1. Init => Books
  BY BooksInit
<1>2. Ledger /\ Books /\ [Next]_vars => Books'
  BY BooksStep
<1> QED BY <1>1, <1>2, LedgerHolds, PTL DEF Spec

\* While orders go out, all that counts is within the caps.
LEMMA OrderingKeepsCaps ==
  ASSUME Books, pc \in Ordering
  PROVE  CapsKept
<1> DEFINE sent == cyc.sent
<1>1. /\ Chosen(cyc) /\ Fields(cyc) /\ cyc.list \in Watchlists /\ Listed /\ cyc.todo # <<>>
         /\ SentOk /\ Budgeted
      /\ (\A i \in DOMAIN cyc.todo : Capped(i)) /\ \A o \in Orders : Priced(o)
  BY DEF Books, Job, Sweep, Sweeping, Ordering, Buying, Listed, Purse
<1>2. /\ sent \subseteq CountedOrders /\ CountedOrders \in SUBSET Orders
      /\ cyc.bought + Cardinality(sent) <= cyc.qty /\ cyc.qty <= Current.qty
      /\ cyc.cost + Sum(Costs, sent) <= cyc.money /\ cyc.money <= cyc.budget
         /\ cyc.money <= Current.spend
      /\ \A o \in sent : rows[o].name = Current.item.name
  BY <1>1 DEF SentOk, Ordering, Buying, SpentOn, Costs, CountedOrders
<1>3. ASSUME NEW S \in SUBSET Orders, sent \subseteq S
      PROVE  /\ Sum(Costs, S) = Sum(Costs, S \ sent) + Sum(Costs, sent)
             /\ Cardinality(S) = Cardinality(S \ sent) + Cardinality(sent)
             /\ Sum(Costs, S \ sent) \in Nat /\ Sum(Costs, sent) \in Nat
             /\ Cardinality(S \ sent) \in Nat /\ Cardinality(sent) \in Nat
  <2> DEFINE H == S \ sent
  <2>1. H \in SUBSET Orders /\ sent \in SUBSET Orders /\ H \cap sent = {} /\ S = H \cup sent
    BY <1>3
  <2>2. \A o \in Orders : Costs[o] \in Nat
    BY <1>1, CostsAreNumbers
  <2> HIDE DEF H, sent
  <2>3. /\ Sum(Costs, S) = Sum(Costs, H) + Sum(Costs, sent)
           /\ Cardinality(S) = Cardinality(H) + Cardinality(sent)
        /\ Sum(Costs, H) \in Nat /\ Sum(Costs, sent) \in Nat /\ Cardinality(H) \in Nat
           /\ Cardinality(sent) \in Nat
    BY <2>1, <2>2, OrderSums, OrderCounts
  <2> QED BY <2>3 DEF H
<1>4. cyc.budget \in Int /\ cyc.cost \in Int /\ cyc.bought \in Int /\ cyc.money \in Int
      /\ cyc.qty \in Int
      /\ cyc.set.maxTotalSpend \in Nat
  BY <1>1, ConstantsOK DEF Fields, Chosen, Settings
<1>5. SpentOn(CountedOrders) <= cyc.set.maxTotalSpend
  <2>1. Sum(Costs, CountedOrders \ sent) + (cyc.budget - cyc.cost) <= cyc.set.maxTotalSpend
    BY <1>1 DEF Budgeted, SpentOn, Costs
  <2>2. Sum(Costs, CountedOrders) <= cyc.set.maxTotalSpend
    <3>1. /\ Sum(Costs, CountedOrders) = Sum(Costs, CountedOrders \ sent) + Sum(Costs, sent)
          /\ Sum(Costs, CountedOrders \ sent) \in Nat /\ Sum(Costs, sent) \in Nat
      BY <1>2, <1>3
    <3> HIDE DEF sent
    <3> QED BY <1>2, <1>4, <2>1, <3>1
  <2> QED BY <2>2 DEF SpentOn, Costs
<1>6. ASSUME NEW i \in DOMAIN cyc.list, \E o \in sent : rows[o].name = cyc.list[i].name
      PROVE  /\ Total(cyc.list[i].name).qty <= cyc.list[i].maxQty
             /\ cyc.list[i].maxSpend > 0 => Total(cyc.list[i].name).spent <= cyc.list[i].maxSpend
  <2> DEFINE e == Current
             name == Current.item.name
             held == OrdersFor(name) \ sent
  <2>1. Current = cyc.todo[1] /\ 1 \in DOMAIN cyc.todo /\ e \in Entries
    <3> DEFINE t == cyc.todo
    <3>1. t \in Seq(Entries) /\ t # <<>>
      BY <1>1 DEF Listed, ListedIn
    <3> HIDE DEF t
    <3>2. 1 \in DOMAIN t /\ Head(t) = t[1] /\ Head(t) \in Entries
      BY <3>1
    <3> QED BY <3>2 DEF t, Current
  <2>2. cyc.list[i] = e.item
    <3>1. PICK j \in DOMAIN cyc.list : e.item = cyc.list[j]
      BY <1>1, <2>1 DEF Listed, ListedIn
    <3>2. cyc.list[i].name = cyc.list[j].name
      BY <1>2, <1>6, <3>1
    <3>3. i = j
      BY <1>1, <3>2, ConstantsOK
    <3> QED BY <3>1, <3>3
  <2>3. /\ Cardinality(held) + e.qty - cyc.bought <= e.item.maxQty
        /\ e.item.maxSpend > 0 => Sum(Costs, held) + e.spend - cyc.cost <= e.item.maxSpend
    <3>1. Capped(1)
      BY <1>1, <2>1
    <3>2. (IF 1 = 1 THEN cyc.bought ELSE 0) = cyc.bought /\ (IF 1 = 1 THEN cyc.cost ELSE 0) = cyc.cost
      OBVIOUS
    <3> QED BY <2>1, <3>1, <3>2, Zenon DEF Capped, SpentOn, Costs
  <2>4. OrdersFor(name) \in SUBSET Orders /\ sent \subseteq OrdersFor(name)
    BY <1>2 DEF OrdersFor
  <2>5. e.qty \in Int /\ e.spend \in Int /\ e.item.maxQty \in Int /\ e.item.maxSpend \in Int
    BY <2>1 DEF Entries, WatchItems
  <2>6. Total(name).qty = Cardinality(OrdersFor(name))
        /\ Total(name).spent = Sum(Costs, OrdersFor(name))
    BY DEF Total, SpentOn, Costs
  <2>7. /\ Cardinality(OrdersFor(name)) <= e.item.maxQty
        /\ e.item.maxSpend > 0 => Sum(Costs, OrdersFor(name)) <= e.item.maxSpend
    <3>1. /\ Sum(Costs, OrdersFor(name)) = Sum(Costs, held) + Sum(Costs, sent)
          /\ Cardinality(OrdersFor(name)) = Cardinality(held) + Cardinality(sent)
          /\ Sum(Costs, held) \in Nat /\ Sum(Costs, sent) \in Nat
          /\ Cardinality(held) \in Nat /\ Cardinality(sent) \in Nat
      BY <1>3, <2>4
    <3> HIDE DEF held, sent, name
    <3> QED BY <1>2, <1>4, <2>3, <2>5, <3>1
  <2> QED BY <2>2, <2>6, <2>7
<1> QED BY <1>5, <1>6, Zenon DEF CapsKept

\* Orders that have just gone out, in a cycle that read its balance while nothing
\* was under way.
Sending == pc \in Ordering /\ cyc.calm /\ \A o \in cyc.sent : plat[o].state = "sent"

\* What was sent is within the balance less the reserve.
LEMMA SendingLeavesReserve ==
  ASSUME Books, Sending
  PROVE  LeavesReserve
<1> DEFINE sent == cyc.sent
           H == Underway \ sent
           r == cyc.set.minBalanceReserve
<1>1. /\ Chosen(cyc) /\ Fields(cyc) /\ SentOk /\ Reserved /\ Balanced /\ cyc.calm /\ pc \in Ordering
      /\ \A o \in Orders : Priced(o)
  BY DEF Books, Job, Sweep, Sweeping, Ordering, Purse, Sending
<1>2. sent \in SUBSET Orders /\ cyc.cost + Sum(Costs, sent) <= cyc.money /\ cyc.money <= cyc.balance
  BY <1>1 DEF SentOk, CountedOrders, Ordering, Buying, SpentOn, Costs
<1>3. Charged \cap sent = {} /\ sent \subseteq Underway /\ Underway \in SUBSET Orders
  BY <1>2 DEF Sending, Charged, Underway, UnderWay
<1>4. \A o \in Orders : Costs[o] \in Nat /\ Charges[o] \in Nat
  BY <1>1, CostsAreNumbers
<1>5. Sum(Costs, Underway) = Sum(Costs, H) + Sum(Costs, sent) /\ Sum(Costs, H) \in Nat
      /\ Sum(Costs, sent) \in Nat
  <2>1. H \in SUBSET Orders /\ H \cap sent = {} /\ Underway = H \cup sent
    BY <1>3
  <2> HIDE DEF H, sent
  <2> QED BY <1>2, <1>4, <2>1, OrderSums
<1>6. Sum(Charges, Charged \cap sent) = 0
  BY <1>3, SumEmpty
<1>7. wallet \in Int /\ cyc.cost \in Int /\ cyc.money \in Int /\ cyc.balance \in Int /\ r \in Nat
  <2>1. Sum(Charges, Charged) \in Nat
    BY <1>4, OrderSums DEF Charged
  <2> QED BY <1>1, <2>1, ConstantsOK DEF Balanced, Fields, Chosen, Settings
<1>8. wallet - Sum(Costs, H) >= (cyc.balance + r) - cyc.cost - Sum(Charges, Charged \cap sent)
  BY <1>1, Zenon DEF Reserved, SpentOn, Costs
<1> HIDE DEF H, sent, r
<1>9. wallet - Sum(Costs, Underway) >= r
  BY <1>2, <1>5, <1>6, <1>7, <1>8
<1> QED BY <1>9, Zenon DEF LeavesReserve, Underway, SpentOn, Costs, r

\* What a step orders, it orders in a batch or as a quick order.
LEMMA OrdersGoOut ==
  ASSUME Ledger, Books, [Next]_vars, NewOrders # {}
  PROVE  pc' \in Ordering /\ (cyc.calm => Sending')
<1>1. Ledger' /\ Fields(cyc)
  BY LedgerStep DEF Books, Job
<1>2. ASSUME NEW found \in SUBSET Listings, SearchReply(found) PROVE pc' \in Ordering
             /\ (cyc.calm => Sending')
  <2> DEFINE picks == PickListings(found, Current.item.maxPrice, cyc.qty, cyc.money, ProductIds \cup skip)
  <2>1. ~UNCHANGED <<rows, plat>>
    BY DEF NewOrders
  <2>2. PICK no \in [picks -> Unused] :
          /\ plat' = [o \in Orders |-> IF \E l \in picks : no[l] = o THEN Sent ELSE plat[o]]
          /\ pc' = "batch" /\ cyc' = [cyc EXCEPT !.sent = {no[l] : l \in picks}]
    BY <1>2, <2>1, Zenon DEF SearchReply
  <2> HIDE DEF picks
  <2>3. cyc'.sent = {no[l] : l \in picks} /\ cyc'.calm = cyc.calm
    BY <1>1, <2>2 DEF Fields, Idle
  <2>4. \A o \in cyc'.sent : plat'[o] = Sent
    BY <2>2, <2>3 DEF Unused
  <2>5. Sent.state = "sent"
    BY DEF Sent
  <2> QED BY <2>2, <2>3, <2>4, <2>5 DEF Sending, Ordering
<1>3. ASSUME NEW o \in Orders, QuickOrder(o) PROVE pc' \in Ordering /\ (cyc.calm => Sending')
  <2>1. pc' = "quick" /\ cyc' = [cyc EXCEPT !.sent = {o}] /\ plat' = [plat EXCEPT ![o] = Sent]
    BY <1>3 DEF QuickOrder
  <2>2. cyc'.sent = {o} /\ cyc'.calm = cyc.calm /\ plat'[o] = Sent
    BY <1>1, <2>1 DEF Fields, Idle, Ledger, Shaped
  <2> QED BY <2>1, <2>2 DEF Sending, Ordering, Sent
<1> QED BY <1>1, <1>2, <1>3, NoOtherOrders

\* Without an order, no order counts that did not, and none costs more: what
\* the platform charges is no more than was offered, and what the user marks as
\* bought counted before.
LEMMA CountsNoMore ==
  ASSUME OneAccount, Ledger, Books, [Next]_vars, NewOrders = {}, NEW o \in Orders
  PROVE  (Counted(o)' => Counted(o)) /\ Cost(rows[o])' <= Cost(rows[o])
<1>1. /\ rows = [q \in Orders |-> rows[q]] /\ DOMAIN rows[o] = DOMAIN NoRow /\ Tied(o)
      /\ Priced(o) /\ Cost(rows[o]) \in Nat
  BY DEF Ledger, Shaped, Books, Purse, Priced, Cost
<1>2. CASE UNCHANGED rows
  BY <1>1, <1>2 DEF Counted
<1>3. ASSUME NEW found, SearchReply(found) PROVE UNCHANGED rows
  <2>1. \A q \in Orders : Kept(q) \/ Ordered(q)
    BY <1>3, SearchOrders
  <2>2. \A q \in Orders : Kept(q)
    BY <2>1 DEF NewOrders, Ordered
  <2> QED BY <1>1, <1>3, <2>2, SearchOrders DEF Kept
<1>4. ASSUME NEW q \in Orders, QuickOrder(q) PROVE FALSE
  <2>1. rows'[q].status = "unknown" /\ rows[q].status = "none"
    BY <1>1, <1>4 DEF QuickOrder, SendOrder, Unused
  <2> QED BY <2>1 DEF NewOrders
\* A row that is only relabelled.
<1>5. ASSUME rows'[o].price = rows[o].price, rows'[o].pay = rows[o].pay, Counted(o)' => Counted(o)
      PROVE  (Counted(o)' => Counted(o)) /\ Cost(rows[o])' <= Cost(rows[o])
  BY <1>1, <1>5 DEF Cost
<1>6. ASSUME NEW q \in Orders, Reconcile(q)
      PROVE  (Counted(o)' => Counted(o)) /\ Cost(rows[o])' <= Cost(rows[o])
  <2>1. PICK row \in {rows[q], GivenUp(q), Found(q)} : rows' = [rows EXCEPT ![q] = row]
    BY <1>6 DEF Reconcile, RefreshFails, RefreshMissing, RefreshFound, RefreshOne
  <2>2. CASE o # q
    BY <1>1, <2>1, <2>2, <1>5 DEF Counted
  <2>3. CASE o = q
    <3>1. rows'[o] \in {rows[o], GivenUp(o), Found(o)}
      BY <1>1, <2>1, <2>3
    <3>2. rows'[o].price = rows[o].price /\ rows'[o].pay = rows[o].pay /\ (Counted(o)' => Counted(o))
      BY <1>1, <3>1 DEF GivenUp, Found, Counted, CountedStatus, NoRow
    <3> QED BY <1>5, <3>2
  <2> QED BY <2>2, <2>3
<1>7. ASSUME NEW q \in Orders, ResolvePurchase(q)
      PROVE  (Counted(o)' => Counted(o)) /\ Cost(rows[o])' <= Cost(rows[o])
  <2>1. PICK s \in {"ok", "failed"} : /\ rows' = [rows EXCEPT ![q] = [rows[q] EXCEPT !.status = s]]
                                      /\ s = "ok" => plat[q].state \in {"placed", "settled"}
    BY <1>1, <1>7 DEF ResolvePurchase
  <2>2. CASE o # q
    BY <1>1, <2>1, <2>2, <1>5 DEF Counted
  <2>3. CASE o = q
    <3>1. rows'[o].price = rows[o].price /\ rows'[o].pay = rows[o].pay /\ rows'[o].status = s
      BY <1>1, <2>1, <2>3 DEF NoRow
    <3>2. Counted(o)' => Counted(o)
      BY <1>1, <2>1, <2>3, <3>1 DEF Counted, CountedStatus, Tied, LiveOnPlatform
    <3> QED BY <1>5, <3>1, <3>2
  <2> QED BY <2>2, <2>3
<1>8. CASE BatchRefused
  <2>1. rows'[o] = rows[o] \/ rows'[o] = [rows[o] EXCEPT !.status = "failed"]
    BY <1>8 DEF BatchRefused
  <2>2. rows'[o].price = rows[o].price /\ rows'[o].pay = rows[o].pay /\ (Counted(o)' => Counted(o))
    BY <1>1, <2>1 DEF NoRow, Counted, CountedStatus
  <2> QED BY <1>5, <2>2
\* An order the sweep just sent: its price is the offer.
<1>9. pc \in Ordering => cyc.sent \subseteq Orders /\ \A q \in cyc.sent : Counted(q) /\ rows[q].pay = 0
  BY DEF Books, Sweep, Sweeping, Ordering, SentOk, CountedOrders
<1>10. ASSUME pc \in Ordering, o \in cyc.sent, plat[o].state = "placed", rows'[o].price = rows[o].price, rows'[o].pay = Paid(o)
       PROVE  (Counted(o)' => Counted(o)) /\ Cost(rows[o])' <= Cost(rows[o])
  <2>1. rows[o].pay = 0 /\ Counted(o) /\ Cost(rows[o]) = rows[o].price
    BY <1>9, <1>10 DEF Cost
  <2>2. plat[o].pay \in Nat /\ plat[o].pay <= rows[o].price /\ rows[o].price \in Nat
    BY <1>1, <1>10, <2>1 DEF Priced
  <2>3. Paid(o) \in Nat /\ Paid(o) <= rows[o].price
    BY <2>2 DEF Paid
  <2>4. Cost(rows'[o]) <= rows[o].price
    BY <1>10, <2>2, <2>3 DEF Cost
  <2> QED BY <2>1, <2>4
<1>11. ASSUME NEW ok \in SUBSET cyc.sent, NEW bad \in SUBSET (cyc.sent \ ok), BatchReply(ok, bad)
       PROVE  (Counted(o)' => Counted(o)) /\ Cost(rows[o])' <= Cost(rows[o])
  <2>1. /\ rows'[o] = CASE o \in ok  -> [rows[o] EXCEPT !.status = "ok", !.pay = Paid(o), !.orderId = TRUE]
                        [] o \in bad -> [rows[o] EXCEPT !.status = "failed"]
                        [] OTHER     -> rows[o]
        /\ pc \in Ordering /\ (o \in ok => plat[o].state = "placed")
    BY <1>11 DEF BatchReply, Ordering
  <2>2. CASE o \in ok
    <3>1. rows'[o].price = rows[o].price /\ rows'[o].pay = Paid(o)
      BY <1>1, <2>1, <2>2 DEF NoRow
    <3> QED BY <1>10, <2>1, <2>2, <3>1
  <2>3. CASE o \notin ok
    <3>1. rows'[o] = rows[o] \/ rows'[o] = [rows[o] EXCEPT !.status = "failed"]
      BY <2>1, <2>3
    <3>2. rows'[o].price = rows[o].price /\ rows'[o].pay = rows[o].pay /\ (Counted(o)' => Counted(o))
      BY <1>1, <3>1 DEF NoRow, Counted, CountedStatus
    <3> QED BY <1>5, <3>2
  <2> QED BY <2>2, <2>3
<1>12. ASSUME NEW q \in Orders, QuickRefused(q) \/ QuickPaid(q) \/ QuickPaying(q)
       PROVE  (Counted(o)' => Counted(o)) /\ Cost(rows[o])' <= Cost(rows[o])
  <2>1. /\ pc \in Ordering /\ q \in cyc.sent
        /\ \/ rows' = [rows EXCEPT ![q] = [rows[q] EXCEPT !.status = "failed"]]
           \/ /\ rows' = [rows EXCEPT ![q] = [rows[q] EXCEPT !.status = "ok", !.pay = Paid(q), !.orderId = TRUE]]
              /\ plat[q].state = "placed"
           \/ rows' = [rows EXCEPT ![q] = [rows[q] EXCEPT !.pay = Target, !.orderId = TRUE]]
           /\ pc = "quick"
    BY <1>1, <1>12 DEF QuickRefused, QuickPaid, QuickPaying, QuickTaken, Ordering
  <2>2. CASE o # q
    BY <1>1, <2>1, <2>2, <1>5 DEF Counted
  <2>3. CASE o = q /\ rows'[o] = [rows[o] EXCEPT !.status = "failed"]
    <3>1. rows'[o].price = rows[o].price /\ rows'[o].pay = rows[o].pay /\ (Counted(o)' => Counted(o))
      BY <1>1, <2>3 DEF NoRow, Counted, CountedStatus
    <3> QED BY <1>5, <3>1
  <2>4. CASE o = q /\ rows'[o] = [rows[o] EXCEPT !.status = "ok", !.pay = Paid(o), !.orderId = TRUE]
             /\ plat[o].state = "placed"
    <3>1. rows'[o].price = rows[o].price /\ rows'[o].pay = Paid(o)
      BY <1>1, <2>4 DEF NoRow
    <3> QED BY <1>10, <2>1, <2>4, <3>1
  <2>5. CASE o = q /\ rows'[o] = [rows[o] EXCEPT !.pay = Target, !.orderId = TRUE] /\ pc = "quick"
    <3>1. rows'[o].price = rows[o].price /\ rows'[o].pay = Target /\ Counted(o) /\ rows[o].pay = 0
      BY <1>1, <1>9, <2>1, <2>5 DEF NoRow
    <3>2. Target = rows[o].price
      BY <2>1, <2>5 DEF Books, Sweep, Sweeping, SentOk
    <3>3. Cost(rows'[o]) = Cost(rows[o])
      BY <1>1, <3>1, <3>2 DEF Cost, Priced
    <3> QED BY <1>1, <3>1, <3>3
  <2>6. rows'[q] = [rows[q] EXCEPT !.status = "failed"]
        \/ (rows'[q] = [rows[q] EXCEPT !.status = "ok", !.pay = Paid(q), !.orderId = TRUE]
        /\ plat[q].state = "placed")
        \/ (rows'[q] = [rows[q] EXCEPT !.pay = Target, !.orderId = TRUE] /\ pc = "quick")
    BY <1>1, <2>1
  <2> QED BY <2>2, <2>3, <2>4, <2>5, <2>6
<1>13. ASSUME NEW hit, StatsReply(hit) PROVE UNCHANGED rows
  BY <1>13 DEF StatsReply, table
<1>14. CASE Buy
  <2>1. CASE PickItem \/ BalanceReply \/ CycleFails \/ SearchFails \/ QuickEnds \/ BatchTimeout \/ QuickTimeout
    BY <1>2, <2>1
       DEF PickItem, BalanceReply, CycleFails, SearchFails, QuickEnds, BatchTimeout, QuickTimeout, table
  <2> QED BY <1>2, <1>3, <1>4, <1>8, <1>11, <1>12, <1>13, <1>14, <2>1 DEF Buy
<1>15. CASE Page \/ Restart \/ Clock \/ StartCycle \/ Platform \/ UNCHANGED vars
  <2>1. CASE \E q \in Orders : ResolvePurchase(q)
    BY <1>7, <2>1
  <2>2. CASE ~\E q \in Orders : ResolvePurchase(q)
    <3>1. UNCHANGED rows
      BY <1>15, <2>2
         DEF Page, SetRun, SaveSettings, SaveWatchlist, RefreshOrders, Restart, Clock, DueAgain, GrowsOld,
         PauseEnds, SkipEnds, StartCycle, Platform, Execute, Refuse, Cancel, Settle, vars, table
    <3> QED BY <1>2, <3>1
  <2> QED BY <2>1, <2>2
<1> QED BY <1>6, <1>14, <1>15 DEF Next

\* The total of what counts, while nothing is ordered.
Within == pc \notin Ordering => \E s \in SettingsChoices : SpentOn(CountedOrders) <= s.maxTotalSpend

\* So some budget the user may have saved covers what counts.
LEMMA SomeBudget ==
  ASSUME Books, Within
  PROVE  \E s \in SettingsChoices : SpentOn(CountedOrders) <= s.maxTotalSpend
<1>1. pc \in Ordering => CapsKept /\ cyc.set \in SettingsChoices
  BY OrderingKeepsCaps DEF Books, Job, Chosen, Sweeping, Ordering
<1> QED BY <1>1 DEF CapsKept, Within

\* And every step keeps it so.
LEMMA WithinStep ==
  ASSUME OneAccount, Ledger, Books, Within, [Next]_vars
  PROVE  Within'
<1> SUFFICES ASSUME pc' \notin Ordering
             PROVE  \E s \in SettingsChoices : SpentOn(CountedOrders)' <= s.maxTotalSpend
  BY DEF Within
<1>1. NewOrders = {}
  BY OrdersGoOut
<1>2. PICK s \in SettingsChoices : SpentOn(CountedOrders) <= s.maxTotalSpend
  BY SomeBudget
<1>3. Books'
  BY BooksStep
<1>4. \A o \in Orders : Costs[o] \in Nat /\ Costs'[o] \in Nat /\ Costs'[o] <= Costs[o]
  <2>1. \A o \in Orders : Priced(o) /\ Priced(o)'
    BY <1>3 DEF Books, Purse
  <2>2. \A o \in Orders : Cost(rows[o])' <= Cost(rows[o])
    BY <1>1, CountsNoMore
  <2> QED BY <2>1, <2>2 DEF Costs, Priced, Cost
<1>5. CountedOrders' \subseteq CountedOrders /\ CountedOrders \in SUBSET Orders
      /\ CountedOrders' \in SUBSET Orders
  BY <1>1, CountsNoMore DEF CountedOrders
<1> DEFINE new == Sum(Costs', CountedOrders')
           mid == Sum(Costs, CountedOrders')
           former == Sum(Costs, CountedOrders)
<1>6. new <= mid
  <2>1. IsFiniteSet(CountedOrders') /\ \A o \in CountedOrders' : Costs'[o] \in Int
        /\ Costs[o] \in Int /\ Costs'[o] <= Costs[o]
    BY <1>4, <1>5, OrderCounts
  <2> QED BY <2>1, SumMonotone
<1>7. mid <= former /\ new \in Nat /\ mid \in Nat /\ former \in Nat
  BY <1>4, <1>5, OrderSums
<1>8. SpentOn(CountedOrders)' = new /\ SpentOn(CountedOrders) = former
  BY DEF SpentOn, Costs
<1>9. s.maxTotalSpend \in Nat
  BY ConstantsOK DEF Settings
<1> HIDE DEF new, mid, former
<1> QED BY <1>2, <1>6, <1>7, <1>8, <1>9

\* However the settings are changed meanwhile, while all app-keys are of one
\* account the money that left it is within the largest budget ever allowed.
THEOREM MoneyIsWithinBudget ==
  ASSUME OneAccount
  PROVE  Spec => []MoneyWithinBudget
<1>1. Init => Within
  <2> SUFFICES ASSUME Init PROVE \E s \in SettingsChoices : SpentOn(CountedOrders) <= s.maxTotalSpend
    BY DEF Within
  <2>1. \A o \in Orders : ~Counted(o)
    BY DEF Init, NoRow, Counted, CountedStatus
  <2>2. CountedOrders = {}
    BY <2>1 DEF CountedOrders
  <2>3. SpentOn(CountedOrders) = 0
    BY <2>2, SumEmpty DEF SpentOn
  <2> QED BY <2>3, ConstantsOK DEF Init, Settings
<1>2. Ledger /\ Books /\ Within /\ [Next]_vars => Within'
  BY WithinStep
<1>3. Ledger /\ Books /\ Within => MoneyWithinBudget
  <2> SUFFICES ASSUME Ledger, Books, Within PROVE MoneyWithinBudget
    OBVIOUS
  <2>1. PICK s \in SettingsChoices : SpentOn(CountedOrders) <= s.maxTotalSpend
    BY SomeBudget
  <2>2. (\A o \in Orders : Priced(o)) /\ Balanced
    BY DEF Books, Purse
  <2>3. Charged \subseteq CountedOrders /\ CountedOrders \in SUBSET Orders /\ Charged \in SUBSET Orders
    BY DEF Charged, CountedOrders, Ledger, Tied, LiveOnPlatform
  <2>4. \A o \in Orders : Costs[o] \in Nat /\ Charges[o] \in Nat /\ (o \in Charged =>
          Charges[o] <= Costs[o])
    BY <2>2, CostsAreNumbers DEF Priced, Charged
  <2> DEFINE a == Sum(Charges, Charged)
             b == Sum(Costs, Charged)
             c == Sum(Costs, CountedOrders)
  <2>5. a <= b
    <3>1. IsFiniteSet(Charged) /\ \A o \in Charged : Charges[o] \in Int /\ Costs[o] \in Int
          /\ Charges[o] <= Costs[o]
      BY <2>3, <2>4, OrderCounts
    <3> QED BY <3>1, SumMonotone
  <2>6. b <= c /\ a \in Nat /\ b \in Nat /\ c \in Nat
    BY <2>3, <2>4, OrderSums
  <2>7. c <= s.maxTotalSpend /\ s.maxTotalSpend \in Nat /\ wallet = Money - a /\ Money \in Nat
    BY <2>1, <2>2, ConstantsOK DEF SpentOn, Costs, Settings, Balanced
  <2> HIDE DEF a, b, c
  <2> QED BY <2>5, <2>6, <2>7 DEF MoneyWithinBudget
<1> QED BY <1>1, <1>2, <1>3, LedgerHolds, BooksHolds, PTL DEF Spec

\* Whatever timed out, failed or was reconciled before, an order goes out only if
\* all that counts is, with it, within the total budget and the caps of its item.
THEOREM CapsAreKept == Spec => OrdersWithinCaps
<1> DEFINE GoingOut == pc \in Ordering
<1>1. Books => (GoingOut => CapsKept)
  BY OrderingKeepsCaps
<1>2. Ledger /\ Books /\ [Next]_vars => (NewOrders # {} => GoingOut')
  BY OrdersGoOut
<1> HIDE DEF GoingOut
<1> QED BY <1>1, <1>2, LedgerHolds, BooksHolds, PTL DEF Spec, OrdersWithinCaps

\* If nothing was under way when the balance was read, an order goes out only if
\* the reserve is left after it and every order still under way is paid.
THEOREM ReserveIsHeld == Spec => ReserveHeld
<1>1. Books => (Sending => LeavesReserve)
  BY SendingLeavesReserve
<1>2. Ledger /\ Books /\ [Next]_vars => (NewOrders # {} /\ cyc.calm => Sending')
  BY OrdersGoOut
<1> QED BY <1>1, <1>2, LedgerHolds, BooksHolds, PTL DEF Spec, ReserveHeld
=============================================================================
