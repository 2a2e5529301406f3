------------------------------ MODULE MarketOrders ------------------------------
(***************************************************************************)
(* Market buy orders (src/src/market/index.ts, ledger.ts, client.ts) and   *)
(* their mobile confirmation (src/src/steam/confirmations.ts): several     *)
(* requests place orders, cancel them and reconcile the ledger with Steam  *)
(* at the same time, while Steam lists other confirmations (trade offers)  *)
(* of the same accounts.                                                   *)
(*                                                                         *)
(* Every request is cut at its awaits.  A call to Steam is one step for    *)
(* what Steam does and, where the code touches shared state afterwards,    *)
(* a second one for the arrival of the answer.                             *)
(***************************************************************************)
EXTENDS Naturals, FiniteSets, TLC

CONSTANTS
  Accounts, Placements,  \* a placement: one account of one place() request
  AccountOf,             \* [Placements \cup Trades -> Accounts]
  Trades,                \* trade offers that may wait for confirmation
  Secret,                \* accounts whose maFile is imported (identity_secret)
  ConfIds,               \* confirmation_id of a pending answer: does it match
                         \* the list ("own"), not match it ("other"), or lack
  Attempts,              \* attempts of confirmBuyOrder (4 in the source)
  RESEND_ATTEMPTS,       \* 4 in the source
  SaveFails,             \* may writing the ledger file fail?
  MaxClock,              \* bound: ticks of Date.now that matter
  None, Unread           \* model values: nothing; a list that was not read

ASSUME MarketAssumption ==
  /\ AccountOf \in [Placements \cup Trades -> Accounts]
  /\ Secret \subseteq Accounts
  /\ ConfIds \subseteq {"own", "other", None} /\ ConfIds # {}
  /\ Attempts \in Nat \ {0} /\ RESEND_ATTEMPTS \in Nat \ {0}
  /\ SaveFails \in BOOLEAN /\ MaxClock \in Nat

VARIABLES
  live,    \* buy orders in force at Steam
  made,    \* how many orders Steam has made for a placement
  conf,    \* the confirmations at Steam
  ledger,  \* data/market-buyorders.json
  clock,   \* Date.now
  pl,      \* the placements under way
  sync,    \* the reconciliation under way
  cancel   \* the cancellation under way

vars == <<live, made, conf, ledger, clock, pl, sync, cancel>>

(* The k-th createbuyorder that p sends without a confirmation: it stands   *)
(* for the order, for its number and for its confirmation.                  *)
Orders == Placements \X (1 .. RESEND_ATTEMPTS + 1)
Items == Orders \cup Trades
OwnerOf(i) == IF i \in Trades THEN AccountOf[i] ELSE AccountOf[i[1]]

ASSUME MarketNames ==
  /\ IsFiniteSet(Placements) /\ IsFiniteSet(Trades)
  /\ Trades \cap Orders = {} /\ None \notin Items

Answer == [id : Orders \cup {None}, needs : BOOLEAN, confId : ConfIds \cup {None}]
NoAnswer == [id |-> None, needs |-> FALSE, confId |-> None]
Steps == {"idle", "create", "created", "list", "accept", "resend",
          "resent", "done"}

(* prior: the snapshot of the list, Unread when it failed (null).           *)
Placement ==
  [pc : Steps, prior : (SUBSET Items) \cup {Unread}, first : Answer, again : Answer,
   item : Items \cup {None}, sent : 0 .. RESEND_ATTEMPTS + 1, tries : Nat,
   ok : BOOLEAN, order : Orders \cup {None}]
Idle == [pc |-> "idle", prior |-> Unread, first |-> NoAnswer, again |-> NoAnswer,
         item |-> None, sent |-> 0, tries |-> 0, ok |-> FALSE, order |-> None]

Record == [order : Orders, at : 0 .. MaxClock, status : {"active", "pending_confirm"}]

NoSync == [pc |-> "idle", since |-> 0, pulled |-> [a \in Accounts |-> None]]
NoCancel == [pc |-> "idle", order |-> None]

Init ==
  /\ live = {} /\ ledger = {} /\ clock = 0
  /\ made = [p \in Placements |-> 0]
  /\ conf = [i \in Items |-> "absent"]
  /\ pl = [p \in Placements |-> Idle]
  /\ sync = NoSync /\ cancel = NoCancel

-----------------------------------------------------------------------------
(* Steam: what createbuyorder, mobileconf and mylistings do.                *)

Listed(a) == {i \in Items : conf[i] = "listed" /\ OwnerOf(i) = a}

Made(o) ==
  /\ live' = live \cup {o}
  /\ made' = [made EXCEPT ![o[1]] = @ + 1]

NothingMade == UNCHANGED <<live, made>>

(* createbuyorder without a confirmation: placed at once, or held back      *)
(* until its confirmation, which the list shows a little later.             *)
Submit(o, answer) ==
  \/ /\ Made(o)
     /\ answer = [NoAnswer EXCEPT !.id = o]
     /\ UNCHANGED conf
  \/ /\ conf' = [conf EXCEPT ![o] = "coming"]
     /\ \E c \in ConfIds, id \in {None, o} :
          answer = [id |-> id, needs |-> TRUE, confId |-> c]
     /\ NothingMade

(* createbuyorder with the confirmation of o: the order is made once the    *)
(* confirmation is allowed and has taken effect.  Steam is not trusted to   *)
(* accept an allowed confirmation only once.                                *)
SubmitConfirmed(o, answer) ==
  /\ UNCHANGED conf
  /\ \/ /\ conf[o] = "allowed"
        /\ Made(o)
        /\ answer = [NoAnswer EXCEPT !.id = o]
     \/ /\ conf[o] # "handled"
        /\ answer = [NoAnswer EXCEPT !.needs = TRUE]
        /\ NothingMade
     \/ /\ answer = NoAnswer
        /\ NothingMade

ConfirmationAppears(i) ==
  /\ conf[i] = "coming"
  /\ conf' = [conf EXCEPT ![i] = "listed"]
  /\ UNCHANGED <<live, made, ledger, clock, pl, sync, cancel>>

(* A trade offer of the account comes to wait for confirmation.             *)
TradeWaits(t) ==
  /\ conf[t] = "absent"
  /\ conf' = [conf EXCEPT ![t] = "listed"]
  /\ UNCHANGED <<live, made, ledger, clock, pl, sync, cancel>>

(* The user deals with a confirmation in the Steam app; an order allowed    *)
(* there may come into force or be discarded.                               *)
HandledInApp(i) ==
  /\ conf[i] = "listed"
  /\ conf' = [conf EXCEPT ![i] = "handled"]
  /\ \/ i \in Orders /\ Made(i)
     \/ NothingMade
  /\ UNCHANGED <<ledger, clock, pl, sync, cancel>>

(* An order is filled, expires, or is cancelled outside the program.        *)
OrderGone(o) ==
  /\ live' = live \ {o}
  /\ o \in live
  /\ UNCHANGED <<made, conf, ledger, clock, pl, sync, cancel>>

-----------------------------------------------------------------------------
(* The ledger: each change reads the file, changes it and writes it back    *)
(* without an await in between.                                             *)

Save(records) ==
  \/ ledger' = records
  \/ SaveFails /\ UNCHANGED ledger

Add(o, status) == Save({[order |-> o, at |-> clock, status |-> status]} \cup ledger)

RemoveBuyOrder(o) == Save({r \in ledger : r.order # o})

\* Mutant: a record of the very millisecond of the start is not spared.
KeptAsIsLater(r) ==
  LET pulled == sync.pulled[AccountOf[r.order[1]]]
  IN  pulled \in {None, Unread} \/ r.at > sync.since

KeptAsIs(r) ==
  LET pulled == sync.pulled[AccountOf[r.order[1]]]
  IN  pulled \in {None, Unread} \/ r.at >= sync.since

StillThere(r) == r.order \in sync.pulled[AccountOf[r.order[1]]]

\* Mutant: orders of the pull that are not in the ledger are put into it.
ReconcileImports ==
  Save(LET known == {r \in ledger : KeptAsIs(r) \/ StillThere(r)}
           found == UNION {sync.pulled[a] : a \in {x \in Accounts : sync.pulled[x] # Unread}}
           missing == {o \in found : \A r \in ledger : r.order # o}
       IN  known \cup {[order |-> o, at |-> clock, status |-> "active"] : o \in missing})

Reconcile ==
  Save({r \in ledger : KeptAsIs(r)}
       \cup {[r EXCEPT !.status = "active"] :
               r \in {x \in ledger : ~KeptAsIs(x) /\ StillThere(x)}})

-----------------------------------------------------------------------------
(* placeForAccount.                                                         *)

Goto(p, changed) == pl' = [pl EXCEPT ![p] = changed]

(* The end of a placement: an order with a number goes into the ledger.     *)
Finish(p, o, confirmed) ==
  /\ Goto(p, [Idle EXCEPT !.pc = "done", !.ok = confirmed,
                         !.order = IF confirmed THEN o ELSE None])
  /\ IF o = None
     THEN UNCHANGED ledger
     ELSE Add(o, IF confirmed THEN "active" ELSE "pending_confirm")

(* An exception outside the confirmation: nothing is recorded.              *)
Failed(p) == Goto(p, [Idle EXCEPT !.pc = "done"])

(* The confirmations there were before the order; a list that cannot be     *)
(* read does not stop the placement.                                        *)
Snapshot(p) ==
  IF AccountOf[p] \in Secret THEN {Listed(AccountOf[p]), Unread} ELSE {Unread}

Begin(p) ==
  /\ pl[p].pc = "idle"
  /\ \E prior \in Snapshot(p) : Goto(p, [pl[p] EXCEPT !.pc = "create", !.prior = prior])
  /\ UNCHANGED <<live, made, conf, ledger, clock, sync, cancel>>

Create(p) ==
  /\ pl[p].pc = "create"
  /\ \/ \E answer \in Answer :
          /\ Submit(<<p, 1>>, answer)
          /\ Goto(p, [pl[p] EXCEPT !.pc = "created", !.first = answer, !.sent = 1])
     \/ /\ \E answer \in Answer : Submit(<<p, 1>>, answer)
        /\ Failed(p)
     \/ /\ Failed(p)
        /\ NothingMade /\ UNCHANGED conf
  /\ UNCHANGED <<ledger, clock, sync, cancel>>

CanBeFound(p) ==
  \/ pl[p].first.confId # None
  \/ pl[p].first.id # None
  \/ pl[p].prior # Unread

Created(p) ==
  /\ pl[p].pc = "created"
  /\ \/ /\ ~pl[p].first.needs
        /\ Finish(p, pl[p].first.id, TRUE)
     \/ /\ pl[p].first.needs
        /\ AccountOf[p] \notin Secret \/ ~CanBeFound(p)
        /\ Finish(p, pl[p].first.id, FALSE)
     \/ /\ pl[p].first.needs
        /\ AccountOf[p] \in Secret /\ CanBeFound(p)
        /\ Goto(p, [pl[p] EXCEPT !.pc = "list"])
        /\ UNCHANGED ledger
  /\ UNCHANGED <<live, made, conf, clock, sync, cancel>>

-----------------------------------------------------------------------------
(* confirmBuyOrder.                                                         *)

Candidates(p) ==
  Listed(AccountOf[p]) \ (IF pl[p].prior = Unread THEN {} ELSE pl[p].prior)

(* By confirmation_id, by buy_orderid, or because there is only one.        *)
Identified(p) ==
  IF pl[p].first.confId = "own" \/ pl[p].first.id # None
  THEN Candidates(p) \cap {<<p, 1>>}
  ELSE {}

\* Mutant: the first candidate is as good as any.
PickedAny(p) == Candidates(p)

Picked(p) ==
  IF Identified(p) # {} THEN Identified(p)
  ELSE IF Cardinality(Candidates(p)) = 1 THEN Candidates(p)
  ELSE {}

\* Mutant: one attempt more.
AnotherLookMore(p) == pl[p].tries < Attempts

AnotherLook(p) == pl[p].tries + 1 < Attempts

FindConfirmation(p) ==
  /\ pl[p].pc = "list"
  /\ \/ \E i \in Picked(p) :
          /\ Goto(p, [pl[p] EXCEPT !.pc = "accept", !.item = i, !.prior = Unread, !.tries = 0])
          /\ UNCHANGED ledger
     \/ /\ Candidates(p) = {}
        /\ AnotherLook(p)
        /\ Goto(p, [pl[p] EXCEPT !.tries = @ + 1])
        /\ UNCHANGED ledger
     \/ /\ Candidates(p) = {}
        /\ ~AnotherLook(p)
        /\ Finish(p, pl[p].first.id, FALSE)
     \/ /\ Picked(p) = {} /\ Candidates(p) # {}
        /\ Finish(p, pl[p].first.id, FALSE)
     \/ Finish(p, pl[p].first.id, FALSE)     \* the list could not be read
  /\ UNCHANGED <<live, made, conf, clock, sync, cancel>>

(* mobileconf allow: carried out and answered, carried out without an       *)
(* answer, or refused (the confirmation may be gone by now).                *)
Accept(p) ==
  /\ pl[p].pc = "accept"
  /\ \/ /\ conf[pl[p].item] = "listed"
        /\ conf' = [conf EXCEPT ![pl[p].item] = "allowed"]
        /\ \/ /\ Goto(p, [pl[p] EXCEPT !.pc = "resend", !.item = None])
              /\ UNCHANGED ledger
           \/ Finish(p, pl[p].first.id, FALSE)
     \/ /\ Finish(p, pl[p].first.id, FALSE)
        /\ UNCHANGED conf
  /\ UNCHANGED <<live, made, clock, sync, cancel>>

-----------------------------------------------------------------------------
(* createbuyorder again, with the confirmation_id of the first answer; an   *)
(* empty one is left out of the form, which makes it a new submission.      *)

SubmitAgain(p, answer) ==
  IF pl[p].first.confId = None
  THEN Submit(<<p, pl[p].sent + 1>>, answer)
  ELSE SubmitConfirmed(<<p, 1>>, answer)

SentNow(p) == IF pl[p].first.confId = None THEN pl[p].sent + 1 ELSE pl[p].sent

\* Mutant: a lost answer is tried again.
AnswerLostResent(p) ==
  /\ Goto(p, [pl[p] EXCEPT !.pc = "resend", !.again = NoAnswer])
  /\ UNCHANGED ledger

(* An exception (the answer is lost): the placement ends there.             *)
AnswerLost(p) == Finish(p, pl[p].first.id, FALSE)

Resend(p) ==
  /\ pl[p].pc = "resend"
  /\ \/ \E answer \in Answer :
          /\ SubmitAgain(p, answer)
          /\ Goto(p, [pl[p] EXCEPT !.pc = "resent", !.again = answer, !.sent = SentNow(p)])
          /\ UNCHANGED ledger
     \/ /\ \E answer \in Answer : SubmitAgain(p, answer)
        /\ AnswerLost(p)
     \/ /\ AnswerLost(p)
        /\ NothingMade /\ UNCHANGED conf
  /\ UNCHANGED <<clock, sync, cancel>>

Resent(p) ==
  /\ pl[p].pc = "resent"
  /\ LET again == pl[p].again
     IN \/ /\ again.id # None
           /\ Finish(p, again.id, TRUE)
        \/ /\ again.id = None /\ again.needs /\ pl[p].tries + 1 < RESEND_ATTEMPTS
           /\ Goto(p, [pl[p] EXCEPT !.pc = "resend", !.tries = @ + 1, !.again = NoAnswer])
           /\ UNCHANGED ledger
        \/ /\ again.id = None
           /\ ~again.needs \/ pl[p].tries + 1 >= RESEND_ATTEMPTS
           /\ Finish(p, pl[p].first.id, FALSE)
  /\ UNCHANGED <<live, made, conf, clock, sync, cancel>>

Place(p) ==
  \/ Create(p) \/ Created(p) \/ FindConfirmation(p)
  \/ Accept(p) \/ Resend(p) \/ Resent(p)

-----------------------------------------------------------------------------
(* cancel and sync.                                                         *)

(* Steam cancels the order of a record and answers so, cancels it and the   *)
(* answer is lost, or refuses; the last two leave the record.               *)
CancelAtSteam(r) ==
  /\ cancel.pc = "idle"
  /\ \/ /\ live' = live \ {r.order}
        /\ cancel' \in {[pc |-> "granted", order |-> r.order], NoCancel}
     \/ UNCHANGED <<live, cancel>>
  /\ UNCHANGED <<made, conf, ledger, clock, pl, sync>>

Cancelled ==
  /\ cancel.pc = "granted"
  /\ cancel' = NoCancel
  /\ RemoveBuyOrder(cancel.order)
  /\ UNCHANGED <<live, made, conf, clock, pl, sync>>

SyncStart ==
  /\ sync.pc = "idle"
  /\ sync' = [NoSync EXCEPT !.pc = "pulling", !.since = clock]
  /\ UNCHANGED <<live, made, conf, ledger, clock, pl, cancel>>

Pull(a) ==
  /\ sync.pc = "pulling" /\ sync.pulled[a] = None
  /\ \E found \in {{o \in live : OwnerOf(o) = a}, Unread} :
       sync' = [sync EXCEPT !.pulled[a] = found]
  /\ UNCHANGED <<live, made, conf, ledger, clock, pl, cancel>>

SyncFinish ==
  /\ sync.pc = "pulling" /\ \A a \in Accounts : sync.pulled[a] # None
  /\ Reconcile
  /\ sync' = NoSync
  /\ UNCHANGED <<live, made, conf, clock, pl, cancel>>

Tick ==
  /\ clock < MaxClock
  /\ clock' = clock + 1
  /\ UNCHANGED <<live, made, conf, ledger, pl, sync, cancel>>

(* The process dies and starts again: what was under way is lost.           *)
Restart ==
  /\ pl' = [p \in Placements |->
              IF pl[p].pc \in {"idle", "done"} THEN pl[p] ELSE [Idle EXCEPT !.pc = "done"]]
  /\ sync' = NoSync /\ cancel' = NoCancel
  /\ pl' # pl \/ sync' # sync \/ cancel' # cancel
  /\ UNCHANGED <<live, made, conf, ledger, clock>>

Next ==
  \/ \E p \in Placements : Begin(p) \/ Place(p)
  \/ \E r \in ledger : CancelAtSteam(r)
  \/ Cancelled
  \/ SyncStart \/ SyncFinish
  \/ \E a \in Accounts : Pull(a)
  \/ \E i \in Items : ConfirmationAppears(i) \/ HandledInApp(i)
  \/ \E t \in Trades : TradeWaits(t)
  \/ \E o \in Orders : OrderGone(o)
  \/ Tick \/ Restart

Spec == Init /\ [][Next]_vars

-----------------------------------------------------------------------------
MarketTypeOK ==
  /\ live \subseteq Orders
  /\ made \in [Placements -> Nat]
  /\ conf \in [Items -> {"absent", "coming", "listed", "allowed", "handled"}]
  /\ ledger \subseteq Record
  /\ clock \in 0 .. MaxClock
  /\ \A p \in Placements :
       /\ pl[p] \in Placement
       /\ pl[p].pc = "list" => pl[p].tries < Attempts
       /\ pl[p].pc \in {"resend", "resent"} => pl[p].tries < RESEND_ATTEMPTS
  /\ sync.pc \in {"idle", "pulling"} /\ sync.since <= clock
  /\ \A a \in Accounts : sync.pulled[a] \in (SUBSET Orders) \cup {None, Unread}
  /\ cancel.pc \in {"idle", "granted"} /\ cancel.order \in Orders \cup {None}

Recorded(p) == \E r \in ledger : r.order[1] = p

(* An order that was reported as placed and is still in force is in the     *)
(* ledger, whatever reconciliations and cancellations ran meanwhile: the    *)
(* list the user cancels from never loses a live order.                     *)
LedgerKeepsLive ==
  \A p \in Placements : pl[p].ok /\ pl[p].order \in live =>
    \E r \in ledger : r.order = pl[p].order

(* A record that has left the ledger (cancelled, filled, expired) does not  *)
(* come back: no request writes back a list it read earlier.                *)
RemovedStaysRemoved ==
  [][\A p \in Placements : pl[p].pc = "done" /\ ~Recorded(p) => ~Recorded(p)']_vars

(* A placement makes at most one order, whatever answers were lost and      *)
(* however often createbuyorder was sent again.                             *)
OneOrderEach == \A p \in Placements : made[p] <= 1

(* Whatever was lost or sent again: one order each, and none of them lost.  *)
OrdersKept == LedgerKeepsLive /\ OneOrderEach

(* When the confirmation of the order is on the list, the confirmer never   *)
(* takes another one.                                                       *)
OwnConfirmationFirst ==
  [][\A p \in Placements :
       pl[p].pc = "list" /\ pl'[p].pc = "accept" /\ conf[<<p, 1>>] = "listed"
         => pl'[p].item = <<p, 1>>]_vars

(* confirmations.ts:10: the confirmer never confirms something else         *)
(* blindly, a pending trade offer for instance.                             *)
TradesUntouched == \A t \in Trades : conf[t] # "allowed"

-----------------------------------------------------------------------------
(* Small instances: every placement and trade offer is of one account.      *)
OneAccount == [x \in Placements \cup Trades |-> CHOOSE a \in Accounts : TRUE]
PlacementSymmetry == Permutations(Placements)
=============================================================================
