----------------------------- MODULE UuDelivery -----------------------------
(***************************************************************************)
(* Automatic delivery of UU orders, for one account and one game           *)
(* (src/src/uu/delivery.ts), with the polling that drives it               *)
(* (src/src/uu/index.ts) and the acceptance of trade offers                *)
(* (src/src/steam/trade-offer.ts).                                         *)
(*                                                                         *)
(* A pass reads the orders that wait for delivery, has UU send the offers  *)
(* that are not sent yet, and accepts the sent ones one by one.  Between   *)
(* any two of its awaits the user, UU, Steam, the clock and other passes   *)
(* may act.                                                                *)
(***************************************************************************)
EXTENDS Integers, FiniteSets

CONSTANTS
  Orders,        \* orders of the account in this game
  Contents,      \* what an offer may hold: [partner, receives, give]
  Buyer,         \* the buyer of every order
  Sold,          \* Sold[o]: the asset sold, [app, asset]
  Named,         \* orders whose detail names the asset
  Game,          \* app of the game
  OfferPolls,    \* queries of the sending state (5 in the code)
  Cooldown,      \* orderCooldownMs, in ticks of the clock
  MaxClock,      \* bound on the clock
  MaxOffers      \* bound on the offers made for one order

ASSUME UuAssumption ==
  /\ Sold \in [Orders -> [app : {Game}, asset : {Sold[o].asset : o \in Orders}]]
  /\ Named \subseteq Orders
  /\ OfferPolls \in Nat \ {0} /\ Cooldown \in Nat \ {0}
  /\ MaxClock \in Nat /\ MaxOffers \in Nat \ {0}

VARIABLES
  acct,        \* token of the account, auto switch of the game
  timer,       \* game.pollTimer
  pass,        \* the pass under way (game.running), see NoPass
  delivered,   \* game.delivered
  cooldown,    \* game.orderCooldown: end of the cooldown, 0 without an entry
  clock,
  disk,        \* the delivery configuration: token, auto
  uu,          \* state of each order at UU
  offer,       \* its latest offer on Steam
  tried        \* history: when each order was last attempted, 0 if never

vars == <<acct, timer, pass, delivered, cooldown, clock, disk, uu, offer, tried>>
outside == <<uu, offer>>
mine == <<delivered, cooldown, tried>>
user == <<acct, timer, disk>>

UuStates == {"none", "waitSend", "waitConfirm", "gone"}
OfferStates == {"none", "active", "given", "dead"}
Phases == {"none", "list", "send", "status", "gap", "detail", "confirm", "offer",
           "accept", "mobile"}

\* send: orders whose offer is still to be sent; todo: orders to deliver;
\* found: the orders to confirm of the list; id: the offer in the order detail.
NoPass == [phase |-> "none", found |-> {}, send |-> {}, todo |-> {}, polls |-> 0,
           cur |-> {}, id |-> 0]
Running == pass.phase # "none"
NoOffer == [id |-> 0, state |-> "none", has |-> [partner |-> Buyer, receives |-> FALSE, give |-> {}]]

Init ==
  /\ acct = [token |-> FALSE, auto |-> FALSE]
  /\ timer = FALSE /\ pass = NoPass
  /\ delivered = {} /\ cooldown = [o \in Orders |-> 0] /\ tried = cooldown /\ clock = 1
  /\ disk = [token |-> FALSE, auto |-> FALSE]
  /\ uu = [o \in Orders |-> "none"] /\ offer = [o \in Orders |-> NoOffer]

-----------------------------------------------------------------------------
(***************************************************************************)
(* checkOffer: the offer is accepted only if nothing about it is wrong.    *)
(***************************************************************************)
\* Mutant: the asset sold has to be among those given, but not alone.
CheckOfferLoose(o, has) ==
  /\ has.partner = Buyer /\ ~has.receives /\ has.give # {}
  /\ \A item \in has.give : item.app = Game
  /\ o \in Named => Sold[o] \in has.give

CheckOffer(o, has) ==
  /\ has.partner = Buyer
  /\ ~has.receives
  /\ has.give # {}
  /\ \A item \in has.give : item.app = Game
  /\ o \in Named => has.give = {Sold[o]}

-----------------------------------------------------------------------------
(***************************************************************************)
(* Polling.                                                                *)
(***************************************************************************)
\* runDeliveryPass up to its first await; nothing while the last pass runs,
\* and nothing but a message while the account is not ready.
StartPass(polling) ==
  \/ polling /\ ~Running /\ pass' = [NoPass EXCEPT !.phase = "list"]
  \/ UNCHANGED pass

\* startPolling: the timer, and a first pass at once.
StartPolling(a) ==
  /\ timer' = (timer \/ (a.token /\ a.auto))
  /\ StartPass(~timer /\ a.token /\ a.auto)

PollTick == timer /\ acct.token /\ StartPass(TRUE)
            /\ UNCHANGED <<user, mine, clock, outside>>

\* Mutant: the page may ask for a pass without a token.
ScanUnbound == StartPass(TRUE)
               /\ UNCHANGED <<user, mine, clock, outside>>

Scan == acct.token /\ StartPass(TRUE)
        /\ UNCHANGED <<user, mine, clock, outside>>

\* saveConfig: accounts without a token are not saved.
SaveConfig(a) == disk' = [token |-> a.token, auto |-> a.token /\ a.auto]

SetAuto(enabled) ==
  /\ acct.token
  /\ acct' = [acct EXCEPT !.auto = enabled]
  /\ IF enabled THEN StartPolling(acct') ELSE timer' = FALSE /\ UNCHANGED pass
  /\ SaveConfig(acct')
  /\ UNCHANGED <<mine, clock, outside>>

\* A timer that runs is restarted with the new interval.
SetPollInterval ==
  /\ timer
  /\ timer' = (acct.token /\ acct.auto)
  /\ StartPass(acct.token /\ acct.auto)
  /\ SaveConfig(acct)
  /\ UNCHANGED <<acct, mine, clock, outside>>

\* bindToken: UU has verified the token; nothing is changed before.
Bind ==
  /\ acct' = [acct EXCEPT !.token = TRUE]
  /\ SaveConfig(acct')
  /\ UNCHANGED <<timer, pass, mine, clock, outside>>

\* Mutant: the switch is left on when the token is deleted.
DeleteAccountTokenKeepsAuto ==
  /\ acct.token
  /\ acct' = [acct EXCEPT !.token = FALSE]
  /\ timer' = FALSE
  /\ SaveConfig(acct')
  /\ UNCHANGED <<pass, mine, clock, outside>>

DeleteAccountToken ==
  /\ acct.token
  /\ acct' = [acct EXCEPT !.token = FALSE, !.auto = FALSE]
  /\ timer' = FALSE
  /\ SaveConfig(acct')
  /\ UNCHANGED <<pass, mine, clock, outside>>

\* The process stops at any point and start() reads the configuration; the
\* first pass finds no session yet.
Restart ==
  /\ acct' = disk
  /\ timer' = (disk.token /\ disk.auto)
  /\ pass' = NoPass
  /\ delivered' = {} /\ cooldown' = [o \in Orders |-> 0] /\ tried' = cooldown'
  /\ UNCHANGED <<disk, clock, outside>>

-----------------------------------------------------------------------------
(***************************************************************************)
(* The pass.                                                               *)
(***************************************************************************)
\* deliverOrder of one of the orders that are left, up to its first await; an
\* order delivered before is passed over.
Deliver(p) ==
  \/ p.todo = {} /\ pass' = NoPass
  \/ \E o \in p.todo :
       LET rest == [p EXCEPT !.todo = @ \ {o}, !.cur = {o}]
       IN pass' = IF o \notin delivered THEN [rest EXCEPT !.phase = "detail"]
                  ELSE IF rest.todo = {} THEN NoPass
                  ELSE [rest EXCEPT !.phase = "gap", !.cur = {}]

\* After an order: the pause of deliverGapMs, or the end.
NextOrder == pass' = IF pass.todo = {} THEN NoPass
                     ELSE [pass EXCEPT !.phase = "gap", !.cur = {}, !.id = 0]

Cooling(o) == cooldown[o] # 0 /\ clock < cooldown[o]

\* The orders to confirm, without those in their cooldown; expired entries go.
Filter(p) ==
  /\ Deliver([p EXCEPT !.todo = {o \in p.found : ~Cooling(o)}, !.found = {}, !.send = {},
                       !.cur = {}, !.polls = 0])
  /\ cooldown' = [o \in Orders |-> IF Cooling(o) THEN cooldown[o] ELSE 0]

\* sendOrderOffer of the next order without an offer.
SendNext(p) == \E o \in p.send :
  pass' = [p EXCEPT !.phase = "send", !.cur = {o}, !.send = @ \ {o}, !.polls = 0]

\* getWaitDeliverList answers.
ListReply ==
  /\ pass.phase = "list"
  /\ LET p == [pass EXCEPT !.send = {o \in Orders : uu[o] = "waitSend"},
                           !.found = {o \in Orders : uu[o] = "waitConfirm"}]
     IN IF p.send # {} THEN SendNext(p) /\ UNCHANGED cooldown ELSE Filter(p)
  /\ UNCHANGED <<user, delivered, tried, clock, outside>>

ListFails == pass.phase = "list" /\ pass' = NoPass
             /\ UNCHANGED <<user, mine, clock, outside>>

\* The order is dealt with: on to the next one, after a pause, or to the
\* deliveries at once.
SentOne == IF pass.send # {} THEN SendNext(pass) /\ UNCHANGED cooldown ELSE Filter(pass)

\* sendOffer: UU makes the offer or not (OfferMade), whatever it answers.
SendOffer(o, ok) ==
  /\ pass.phase = "send" /\ pass.cur = {o}
  /\ IF ok THEN pass' = [pass EXCEPT !.phase = "status"] /\ UNCHANGED cooldown ELSE SentOne
  /\ UNCHANGED <<user, delivered, tried, clock, outside>>

\* Mutant: the queries are not counted.
OfferStatusForever(o, sent) ==
  /\ pass.phase = "status" /\ pass.cur = {o}
  /\ sent => offer[o].id # 0
  /\ IF sent THEN SentOne ELSE UNCHANGED <<pass, cooldown>>
  /\ UNCHANGED <<user, delivered, tried, clock, outside>>

\* getOfferStatus after a pause; "sent" only when the offer exists.
OfferStatus(o, sent) ==
  /\ pass.phase = "status" /\ pass.cur = {o}
  /\ sent => offer[o].id # 0
  /\ IF sent \/ pass.polls + 1 = OfferPolls THEN SentOne
     ELSE pass' = [pass EXCEPT !.polls = @ + 1] /\ UNCHANGED cooldown
  /\ UNCHANGED <<user, delivered, tried, clock, outside>>

GapOver == pass.phase = "gap" /\ Deliver(pass)
           /\ UNCHANGED <<user, mine, clock, outside>>

\* Mutant: the cooldown is entered only once the order is delivered.
EnterCooldownLate(o) == UNCHANGED cooldown

EnterCooldown(o) == cooldown' = [cooldown EXCEPT ![o] = clock + Cooldown]

\* getOrderDetail: the offer of the order, if there is one.
DetailReply(o) ==
  /\ pass.phase = "detail" /\ pass.cur = {o}
  /\ IF offer[o].id = 0 THEN NextOrder /\ UNCHANGED <<cooldown, tried>>
     ELSE /\ pass' = [pass EXCEPT !.phase = "confirm", !.id = offer[o].id]
          /\ tried' = [tried EXCEPT ![o] = clock]
          /\ EnterCooldown(o)
  /\ UNCHANGED <<user, delivered, clock, outside>>

\* confirmOffer: the delivery goes on whatever UU answers, unless it throws.
ConfirmReply ==
  /\ pass.phase = "confirm" /\ pass' = [pass EXCEPT !.phase = "offer"]
  /\ UNCHANGED <<user, mine, clock, outside>>

\* getOffer, and checkOffer of what Steam says.
Verified(o) == /\ offer[o].id = pass.id /\ offer[o].state = "active"
               /\ CheckOffer(o, offer[o].has)

GetOffer(o) ==
  /\ pass.phase = "offer" /\ pass.cur = {o}
  /\ IF Verified(o) THEN pass' = [pass EXCEPT !.phase = "accept"] ELSE NextOrder
  /\ UNCHANGED <<user, mine, clock, outside>>

\* Any of the requests of an order throws or times out.
OrderFails ==
  /\ pass.phase \in {"detail", "confirm", "offer", "accept", "mobile"}
  /\ NextOrder
  /\ UNCHANGED <<user, mine, clock, outside>>

\* Mutant: an order counts as delivered when its acceptance needs confirming.
AcceptedPendingDone(o) ==
  /\ delivered' = delivered \cup {o} /\ NextOrder
AcceptedPending(o) ==
  /\ pass' = [pass EXCEPT !.phase = "mobile"] /\ UNCHANGED delivered

Succeeded(o) == delivered' = delivered \cup {o} /\ NextOrder

\* offer.accept: Steam gives the items away at once or asks for the mobile
\* confirmation; the answer may be lost.
Live(o) == offer[o].id = pass.id /\ offer[o].state = "active"
Give(o) == offer' = [offer EXCEPT ![o].state = "given"]

Accept(o) ==
  /\ pass.phase = "accept" /\ pass.cur = {o} /\ Live(o)
  /\ \/ Give(o) /\ Succeeded(o)
     \/ Give(o) /\ NextOrder /\ UNCHANGED delivered
     \/ UNCHANGED offer /\ AcceptedPending(o)
  /\ UNCHANGED <<user, cooldown, tried, clock, uu>>

MobileConfirm(o) ==
  /\ pass.phase = "mobile" /\ pass.cur = {o} /\ Live(o)
  /\ Give(o)
  /\ \/ Succeeded(o)
     \/ NextOrder /\ UNCHANGED delivered
  /\ UNCHANGED <<user, cooldown, tried, clock, uu>>

-----------------------------------------------------------------------------
(***************************************************************************)
(* UU, Steam, the buyer and the clock.                                     *)
(***************************************************************************)
OrderPlaced(o) ==
  /\ uu[o] = "none" /\ uu' = [uu EXCEPT ![o] = "waitSend"]
  /\ UNCHANGED <<user, pass, mine, clock, offer>>

\* An offer for the order appears on Steam; also one that replaces the last.
OfferMade(o, has) ==
  /\ uu[o] \in {"waitSend", "waitConfirm"}
  /\ offer[o].id < MaxOffers /\ offer[o].state \in {"none", "dead"}
  /\ offer' = [offer EXCEPT ![o] = [id |-> @.id + 1, state |-> "active", has |-> has]]
  /\ uu' = [uu EXCEPT ![o] = "waitConfirm"]
  /\ UNCHANGED <<user, pass, mine, clock>>

\* The buyer withdraws the offer, or it expires.
OfferDies(o) ==
  /\ offer[o].state = "active" /\ offer' = [offer EXCEPT ![o].state = "dead"]
  /\ UNCHANGED <<user, pass, mine, clock, uu>>

\* UU notices that the offer was accepted, or the order is cancelled.
OrderGone(o) ==
  /\ uu[o] \notin {"none", "gone"} /\ offer[o].state # "active"
  /\ uu' = [uu EXCEPT ![o] = "gone"]
  /\ UNCHANGED <<user, pass, mine, clock, offer>>

ClockTick == clock < MaxClock /\ clock' = clock + 1
             /\ UNCHANGED <<user, pass, mine, outside>>

-----------------------------------------------------------------------------
User == \/ Scan \/ SetPollInterval \/ Bind \/ DeleteAccountToken
        \/ \E b \in BOOLEAN : SetAuto(b)

Pass == \/ ListReply \/ ListFails \/ GapOver \/ ConfirmReply \/ OrderFails
        \/ \E o \in Orders, b \in BOOLEAN :
             SendOffer(o, b) \/ OfferStatus(o, b)
        \/ \E o \in Orders : DetailReply(o) \/ GetOffer(o) \/ Accept(o) \/ MobileConfirm(o)

World == \/ ClockTick
         \/ \E o \in Orders : OrderPlaced(o) \/ OfferDies(o) \/ OrderGone(o)
         \/ \E o \in Orders, has \in Contents : OfferMade(o, has)

Next == User \/ Pass \/ World \/ PollTick \/ Restart

Spec == Init /\ [][Next]_vars

-----------------------------------------------------------------------------
(***************************************************************************)
(* What must hold.                                                         *)
(***************************************************************************)
\* Every variable has its shape, and a pass works on orders in hand.
UuTypeOK ==
  /\ acct \in [token : BOOLEAN, auto : BOOLEAN]
  /\ disk \in [token : BOOLEAN, auto : BOOLEAN]
  /\ timer \in BOOLEAN
  /\ pass \in [phase : Phases, found : SUBSET Orders, send : SUBSET Orders,
              todo : SUBSET Orders, polls : 0..OfferPolls - 1,
              cur : SUBSET Orders, id : 0..MaxOffers]
  /\ delivered \subseteq Orders /\ clock \in 1..MaxClock
  /\ {cooldown, tried} \subseteq [Orders -> 0..MaxClock + Cooldown]
  /\ uu \in [Orders -> UuStates]
  /\ offer \in [Orders -> [id : 0..MaxOffers, state : OfferStates, has : Contents \cup {NoOffer.has}]]

\* An order that went into delivery is not tried again before its cooldown is
\* over, by whatever mixture of timers, page actions and slow passes, unless
\* the process died meanwhile: UU may show it as waiting for a long time.
Attempt(o) == pass.phase = "detail" /\ pass.cur = {o} /\ pass'.phase = "confirm"
CooldownKept ==
  [][\A o \in Orders : Attempt(o) /\ tried[o] # 0 => clock >= tried[o] + Cooldown]_vars

\* What counts as delivered was really given away on Steam, confirmations
\* included; an offer replaced or withdrawn half-way does not count.
DeliveredIsGiven == \A o \in delivered : offer[o].state = "given"

\* Whatever offers appear for an order and whenever they are replaced, an item
\* is only given to its buyer, nothing is taken, and when UU names the asset
\* nothing else is given with it.
OnlySoldGiven ==
  \A o \in Orders : offer[o].state = "given" =>
    /\ offer[o].has.partner = Buyer /\ ~offer[o].has.receives
    /\ IF o \in Named THEN offer[o].has.give = {Sold[o]}
       ELSE \A item \in offer[o].has.give : item.app = Game

\* Whatever fails half-way, what is reported was given, and what is given was sold.
DeliveryHonest == DeliveredIsGiven /\ OnlySoldGiven

\* The account is polled exactly while it has a token and the switch is on:
\* no sequence of binding, deleting, switching, changing the interval and
\* restarting leaves a timer behind, or a switch that is on without one.
PolledAsWanted == timer <=> (acct.token /\ acct.auto)

\* Deleting the token does not stop the pass that runs, which holds token,
\* cookies and list of its beginning.  But no other one begins, and the running
\* one goes on with nothing but the rest of the list it has read.
Held(p) == p.found \cup p.send \cup p.todo \cup p.cur
StoppedGivesTheRest ==
  [][~acct.token =>
       /\ ~Running => pass'.phase = NoPass.phase
       /\ pass.phase # "list" => Held(pass') \subseteq Held(pass)]_vars

\* A pass ends, whatever UU and Steam answer: game.running never shuts the
\* account out of delivery.  Each request is answered or times out.
Fairness == WF_vars(Pass)
FairSpec == Spec /\ Fairness
PassEnds == Running ~> ~Running
-----------------------------------------------------------------------------
(* Small instances: an order sells the asset of its number.  The offers: as *)
(* it should be for the first order, one that gives more, and a stranger's. *)
SoldByNumber == [o \in Orders |-> [app |-> Game, asset |-> o]]
Gives(partner, assets) ==
  [partner |-> partner, receives |-> FALSE, give |-> {[app |-> Game, asset |-> n] : n \in assets}]
ThreeOffers == {Gives(Buyer, {1}), Gives(Buyer, {1, 3}), Gives("stranger", {1})}
=============================================================================
