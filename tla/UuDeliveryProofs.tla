--------------------------- MODULE UuDeliveryProofs ---------------------------
(***************************************************************************)
(* Automatic delivery, for any number of orders, offers and contents of    *)
(* offers, any cooldown and any sequence of what user, UU and Steam do.    *)
(***************************************************************************)
EXTENDS UuDelivery, TLAPS

PassType == [phase : Phases, found : SUBSET Orders, send : SUBSET Orders,
             todo : SUBSET Orders, polls : 0..OfferPolls - 1,
             cur : SUBSET Orders, id : 0..MaxOffers]

LEMMA PassFields ==
  ASSUME NEW p \in PassType
  PROVE  /\ {p.found, p.send, p.todo, p.cur} \subseteq SUBSET Orders
         /\ p.phase \in Phases /\ p.polls \in 0..OfferPolls - 1 /\ p.id \in 0..MaxOffers
  BY DEF PassType

LEMMA Zeros == 0 \in 0..OfferPolls - 1 /\ 0 \in 0..MaxOffers
  BY UuAssumption DEF UuAssumption

-----------------------------------------------------------------------------
(* From one order to the next. *)

\* What every way on has in common: the pass works on orders it held.
Onward(p) ==
  /\ pass' \in PassType
  /\ Held(pass') \subseteq Held(p)
  /\ pass'.cur \cap pass'.todo = {}

\* To the deliveries: only orders to deliver are left.
LEMMA DeliverGoesOn ==
  ASSUME NEW p \in PassType, Deliver(p)
  PROVE  /\ Onward(p)
         /\ pass'.todo \cup pass'.cur \subseteq p.todo
         /\ pass'.phase \in {"none", "gap", "detail"}
<1> USE UuAssumption DEF UuAssumption, PassType, Phases, Held, Onward
<1>1. CASE p.todo = {} /\ pass' = NoPass
  BY <1>1 DEF NoPass
<1>2. ASSUME NEW o \in p.todo,
             LET rest == [p EXCEPT !.todo = @ \ {o}, !.cur = {o}]
             IN pass' = IF o \notin delivered THEN [rest EXCEPT !.phase = "detail"]
                        ELSE IF rest.todo = {} THEN NoPass
                        ELSE [rest EXCEPT !.phase = "gap", !.cur = {}]
      PROVE  /\ Onward(p)
             /\ pass'.todo \cup pass'.cur \subseteq p.todo
             /\ pass'.phase \in {"none", "gap", "detail"}
  <2> DEFINE rest == [p EXCEPT !.todo = @ \ {o}, !.cur = {o}]
  <2>1. /\ rest \in PassType /\ rest.todo = p.todo \ {o} /\ rest.cur = {o}
        /\ rest.found = p.found /\ rest.send = p.send
    OBVIOUS
  <2> HIDE DEF rest
  <2>2. CASE pass' = [rest EXCEPT !.phase = "detail"]
    BY <2>1, <2>2
  <2>3. CASE pass' = NoPass
    BY <2>3 DEF NoPass
  <2>4. CASE pass' = [rest EXCEPT !.phase = "gap", !.cur = {}]
    BY <2>1, <2>4
  <2> QED BY <1>2, <2>2, <2>3, <2>4 DEF rest
<1> QED BY <1>1, <1>2 DEF Deliver

LEMMA NextOrderGoesOn ==
  ASSUME pass \in PassType, NextOrder
  PROVE  /\ Onward(pass)
         /\ pass'.todo \subseteq pass.todo /\ pass'.cur = {}
         /\ pass'.phase \in {"none", "gap"}
<1>1. CASE pass.todo = {}
  <2>1. pass' = NoPass
    BY <1>1 DEF NextOrder
  <2> QED BY <2>1, Zeros DEF NoPass, PassType, Phases, Held, Onward
<1>2. CASE pass.todo # {}
  <2>1. pass' = [pass EXCEPT !.phase = "gap", !.cur = {}, !.id = 0]
    BY <1>2 DEF NextOrder
  <2>2. /\ pass'.phase = "gap" /\ pass'.cur = {} /\ pass'.todo = pass.todo
        /\ pass'.found = pass.found /\ pass'.send = pass.send
    BY <2>1 DEF PassType
  <2>3. pass' \in PassType
    BY <2>1, Zeros DEF PassType, Phases
  <2> QED BY <2>2, <2>3 DEF Held, Onward
<1> QED BY <1>1, <1>2

\* To the next offer to send, or past the last one to what has no cooldown.
LEMMA FilterGoesOn ==
  ASSUME NEW p \in PassType, Filter(p)
  PROVE  /\ Onward(p)
         /\ pass'.todo \cup pass'.cur \subseteq {o \in p.found : ~Cooling(o)}
         /\ pass'.phase \in {"none", "gap", "detail"}
<1> DEFINE q == [p EXCEPT !.todo = {o \in p.found : ~Cooling(o)}, !.found = {}, !.send = {},
                          !.cur = {}, !.polls = 0]
<1>1. /\ q \in PassType /\ q.cur = {} /\ q.todo = {o \in p.found : ~Cooling(o)}
      /\ q.found = {} /\ q.send = {}
  <2>1. /\ q.cur = {} /\ q.todo = {o \in p.found : ~Cooling(o)}
        /\ q.found = {} /\ q.send = {}
    BY DEF PassType
  <2>2. {o \in p.found : ~Cooling(o)} \in SUBSET Orders
    BY PassFields
  <2>3. q \in PassType
    BY <2>2, Zeros DEF PassType
  <2> QED BY <2>1, <2>3
<1>2. Deliver(q)
  BY DEF Filter
<1> HIDE DEF q
<1>3. Held(q) \subseteq Held(p)
  BY <1>1 DEF Held, PassType
<1> QED BY <1>1, <1>2, <1>3, DeliverGoesOn DEF Onward

LEMMA SendNextGoesOn ==
  ASSUME NEW p \in PassType, p.todo = {}, SendNext(p)
  PROVE  Onward(p) /\ pass'.todo = {} /\ pass'.phase = "send"
<1>1. PICK o \in p.send : pass' = [p EXCEPT !.phase = "send", !.cur = {o}, !.send = @ \ {o}, !.polls = 0]
  BY DEF SendNext
<1>2. /\ pass'.phase = "send" /\ pass'.cur = {o} /\ pass'.todo = {}
      /\ pass'.found = p.found /\ pass'.send = p.send \ {o}
  BY <1>1 DEF PassType
<1>3. pass' \in PassType
  <2>1. p.send \ {o} \in SUBSET Orders /\ {o} \in SUBSET Orders
    BY PassFields
  <2> QED BY <1>1, <2>1, Zeros DEF PassType, Phases
<1> QED BY <1>2, <1>3 DEF Held, Onward

-----------------------------------------------------------------------------
(* What a pass has in hand. *)

\* The order in hand is none of those to come, and those to deliver are known
\* only once all offers are sent.
Sending == pass.phase \in {"list", "send", "status"}
Orderly == /\ pass \in PassType
           /\ pass.cur \cap pass.todo = {}
           /\ Sending => pass.todo = {}

FirstPass == [NoPass EXCEPT !.phase = "list"]

LEMMA Starts ==
  ASSUME NEW polling, StartPass(polling)
  PROVE  pass' = pass \/ (~Running /\ pass' = FirstPass)
  BY DEF StartPass, FirstPass

LEMMA Beginnings ==
  /\ NoPass \in PassType /\ FirstPass \in PassType
  /\ {NoPass.cur, NoPass.todo, FirstPass.cur, FirstPass.todo} = {{}}
  /\ NoPass.phase = "none" /\ FirstPass.phase = "list"
  BY Zeros DEF NoPass, FirstPass, PassType, Phases

\* How a step may change the pass: not at all, begin or end it, go on with the
\* next order, deliver what has waited, or go on with the order in hand.
Settled == Onward(pass) /\ pass'.todo \subseteq pass.todo /\ pass'.phase \in {"none", "gap"}
Delivers(os) == Onward(pass) /\ pass'.todo \cup pass'.cur \subseteq os /\ pass'.phase \in {"none", "gap", "detail"}
Sends == Onward(pass) /\ pass'.todo = {} /\ pass'.phase \in {"send", "status"}
Advances(from, to) ==
  /\ pass.phase = from /\ pass'.phase = to /\ pass' \in PassType
  /\ pass'.cur = pass.cur /\ pass'.todo = pass.todo /\ Held(pass') = Held(pass)

LEMMA ListReplyMoves ==
  ASSUME Orderly, ListReply
  PROVE  /\ pass.phase = "list"
         /\ pass' \in PassType /\ pass'.cur \cap pass'.todo = {}
         /\ \/ pass'.todo = {} /\ pass'.phase = "send" /\ UNCHANGED cooldown
            \/ /\ pass'.todo \cup pass'.cur \subseteq {o \in Orders : ~Cooling(o)}
               /\ pass'.phase \in {"none", "gap", "detail"}
               /\ cooldown' = [o \in Orders |-> IF Cooling(o) THEN cooldown[o] ELSE 0]
<1> DEFINE p == [pass EXCEPT !.send = {o \in Orders : uu[o] = "waitSend"},
                             !.found = {o \in Orders : uu[o] = "waitConfirm"}]
<1>1. p \in PassType /\ p.todo = {} /\ pass.phase = "list"
  <2>1. {o \in Orders : uu[o] = "waitSend"} \in SUBSET Orders /\ {o \in Orders : uu[o] = "waitConfirm"} \in SUBSET Orders
    OBVIOUS
  <2> QED BY <2>1 DEF Orderly, Sending, PassType, ListReply
<1>2. \/ SendNext(p) /\ UNCHANGED cooldown
      \/ Filter(p)
  BY DEF ListReply
<1> HIDE DEF p
<1>3. CASE SendNext(p) /\ UNCHANGED cooldown
  BY <1>1, <1>3, SendNextGoesOn DEF Onward
<1>4. CASE Filter(p)
  <2>1. p.found \subseteq Orders
    BY <1>1, PassFields
  <2> QED BY <1>1, <1>4, <2>1, FilterGoesOn DEF Onward, Filter
<1> QED BY <1>2, <1>3, <1>4

\* The order in hand is sent or given up.
LEMMA SentOneMoves ==
  ASSUME Orderly, Sending, SentOne
  PROVE  \/ Sends /\ UNCHANGED cooldown
         \/ Delivers({o \in Orders : ~Cooling(o)})
            /\ cooldown' = [o \in Orders |-> IF Cooling(o) THEN cooldown[o] ELSE 0]
<1>1. CASE SendNext(pass) /\ UNCHANGED cooldown
  BY <1>1, SendNextGoesOn DEF Orderly, Sends
<1>2. CASE Filter(pass)
  <2>1. pass.found \subseteq Orders
    BY PassFields DEF Orderly
  <2> QED BY <1>2, <2>1, FilterGoesOn DEF Orderly, Filter, Delivers
<1> QED BY <1>1, <1>2 DEF SentOne

LEMMA SendingMoves ==
  ASSUME Orderly, NEW o, NEW b, SendOffer(o, b) \/ OfferStatus(o, b)
  PROVE  \/ Sends /\ UNCHANGED cooldown
         \/ Delivers({q \in Orders : ~Cooling(q)})
            /\ cooldown' = [q \in Orders |-> IF Cooling(q) THEN cooldown[q] ELSE 0]
<1>1. Sending
  BY DEF SendOffer, OfferStatus, Sending
<1>2. CASE SentOne
  BY <1>1, <1>2, SentOneMoves
<1>3. CASE ~SentOne
  <2>1. UNCHANGED cooldown
        /\ \/ pass' = [pass EXCEPT !.phase = "status"]
           \/ pass' = [pass EXCEPT !.polls = @ + 1] /\ pass.polls + 1 # OfferPolls /\ pass.phase = "status"
    BY <1>3 DEF SendOffer, OfferStatus
  <2>2. pass.polls + 1 # OfferPolls => pass.polls + 1 \in 0..OfferPolls - 1
    BY UuAssumption DEF UuAssumption, Orderly, PassType
  <2>3. pass' \in PassType
    BY <2>1, <2>2 DEF Orderly, PassType, Phases
  <2>4. /\ pass'.phase = "status" /\ pass'.todo = pass.todo /\ pass'.cur = pass.cur
        /\ pass'.found = pass.found /\ pass'.send = pass.send
    BY <2>1 DEF Orderly, PassType
  <2> QED BY <1>1, <2>1, <2>3, <2>4 DEF Sends, Onward, Orderly, Held
<1> QED BY <1>2, <1>3

LEMMA OrderMoves ==
  ASSUME Orderly, NEW o
  PROVE  /\ OrderFails \/ ListFails => Settled
         /\ GapOver => Delivers(pass.todo)
         /\ ConfirmReply => Advances("confirm", "offer") /\ pass'.id = pass.id
         /\ GetOffer(o) => \/ Settled
                           \/ Advances("offer", "accept") /\ pass'.id = pass.id /\ Verified(o)
<1> USE DEF Orderly
<1>0. NextOrder => Settled
  BY NextOrderGoesOn DEF Settled
<1>1. ASSUME OrderFails \/ ListFails PROVE Settled
  <2>1. CASE OrderFails
    BY <1>0, <2>1 DEF OrderFails
  <2>2. CASE ListFails
    BY <2>2, Beginnings DEF ListFails, Settled, Onward, Held, NoPass
  <2> QED BY <1>1, <2>1, <2>2
<1>2. ASSUME GapOver PROVE Delivers(pass.todo)
  BY <1>2, DeliverGoesOn DEF GapOver, Delivers
<1>3. ASSUME NEW from, NEW to \in Phases, NEW id \in 0..MaxOffers,
             pass.phase = from, pass' = [pass EXCEPT !.phase = to, !.id = id]
      PROVE  Advances(from, to) /\ pass'.id = id
  <2>1. /\ pass'.phase = to /\ pass'.todo = pass.todo /\ pass'.cur = pass.cur /\ pass'.id = id
        /\ pass'.found = pass.found /\ pass'.send = pass.send
    BY <1>3 DEF PassType
  <2>2. pass' \in PassType
    BY <1>3 DEF PassType
  <2> QED BY <1>3, <2>1, <2>2 DEF Advances, Held
<1>4. ASSUME NEW to, pass' = [pass EXCEPT !.phase = to]
      PROVE  pass' = [pass EXCEPT !.phase = to, !.id = pass.id] /\ pass.id \in 0..MaxOffers
  BY <1>4 DEF PassType
<1>5. {"confirm", "offer", "accept", "mobile"} \subseteq Phases
  BY DEF Phases
<1>6. ASSUME ConfirmReply PROVE Advances("confirm", "offer") /\ pass'.id = pass.id
  BY <1>3, <1>4, <1>5, <1>6 DEF ConfirmReply
<1>7. ASSUME GetOffer(o)
      PROVE  Settled \/ (Advances("offer", "accept") /\ pass'.id = pass.id /\ Verified(o))
  BY <1>0, <1>3, <1>4, <1>5, <1>7 DEF GetOffer
<1> QED BY <1>1, <1>2, <1>6, <1>7

\* The offer an order has when its detail is asked for.
LEMMA DetailMoves ==
  ASSUME Orderly, NEW o \in Orders, offer[o].id \in 0..MaxOffers, DetailReply(o)
  PROVE  \/ Settled /\ UNCHANGED <<cooldown, tried>>
         \/ /\ Advances("detail", "confirm") /\ pass'.id = offer[o].id
            /\ tried' = [tried EXCEPT ![o] = clock] /\ EnterCooldown(o)
<1>1. CASE offer[o].id = 0
  BY <1>1, NextOrderGoesOn DEF DetailReply, Settled, Orderly
<1>2. CASE offer[o].id # 0
  <2>1. pass' = [pass EXCEPT !.phase = "confirm", !.id = offer[o].id] /\ pass.phase = "detail"
    BY <1>2 DEF DetailReply
  <2>2. /\ pass'.phase = "confirm" /\ pass'.todo = pass.todo /\ pass'.cur = pass.cur /\ pass'.id = offer[o].id
        /\ pass'.found = pass.found /\ pass'.send = pass.send
    BY <2>1 DEF PassType, Orderly
  <2>3. pass' \in PassType
    BY <2>1 DEF PassType, Phases, Orderly
  <2> QED BY <1>2, <2>1, <2>2, <2>3 DEF Advances, Held, DetailReply
<1> QED BY <1>1, <1>2

\* Giving away: the order in hand is dealt with, or waits for its confirmation.
LEMMA GivingMoves ==
  ASSUME Orderly, NEW o, Accept(o) \/ MobileConfirm(o)
  PROVE  /\ pass.phase \in {"accept", "mobile"} /\ pass.cur = {o} /\ Live(o)
         /\ \/ Settled /\ Give(o) /\ delivered' \in {delivered, delivered \cup {o}}
            \/ Advances("accept", "mobile") /\ pass'.id = pass.id /\ UNCHANGED <<offer, delivered>>
<1>1. NextOrder => Settled
  BY NextOrderGoesOn DEF Settled, Orderly
<1>2. CASE AcceptedPending(o) /\ Accept(o) /\ UNCHANGED offer
  <2>1. pass' = [pass EXCEPT !.phase = "mobile"] /\ pass.phase = "accept"
    BY <1>2 DEF AcceptedPending, Accept
  <2>2. /\ pass'.phase = "mobile" /\ pass'.todo = pass.todo /\ pass'.cur = pass.cur /\ pass'.id = pass.id
        /\ pass'.found = pass.found /\ pass'.send = pass.send
    BY <2>1 DEF PassType, Orderly
  <2>3. pass' \in PassType
    BY <2>1 DEF PassType, Phases, Orderly
  <2> QED BY <1>2, <2>1, <2>2, <2>3 DEF Advances, Held, AcceptedPending, Accept
<1>3. CASE ~(AcceptedPending(o) /\ Accept(o) /\ UNCHANGED offer)
  BY <1>1, <1>3 DEF Accept, MobileConfirm, Succeeded
<1> QED BY <1>2, <1>3

-----------------------------------------------------------------------------
(* The kinds of steps. *)

\* The user and the timer: a pass begins, or not.
LEMMA UserMoves ==
  ASSUME User \/ PollTick
  PROVE  (pass' = pass \/ pass' = FirstPass) /\ UNCHANGED <<mine, clock, outside>>
<1>1. ASSUME NEW polling, StartPass(polling) PROVE pass' = pass \/ pass' = FirstPass
  BY <1>1, Starts
<1>2. CASE PollTick
  BY <1>1, <1>2, Zenon DEF PollTick
<1>3. CASE Scan \/ SetPollInterval \/ Bind \/ DeleteAccountToken
  BY <1>1, <1>3, Zenon DEF Scan, SetPollInterval, Bind, DeleteAccountToken
<1>4. ASSUME NEW b \in BOOLEAN, SetAuto(b) PROVE (pass' = pass \/ pass' = FirstPass) /\ UNCHANGED <<mine, clock, outside>>
  BY <1>1, <1>4, Zenon DEF SetAuto, StartPolling
<1> QED BY <1>2, <1>3, <1>4 DEF User

\* The steps of a pass, by what they may change beside it.
LEMMA PassMoves ==
  ASSUME Pass
  PROVE  \/ (ListFails \/ GapOver \/ ConfirmReply \/ OrderFails) /\ UNCHANGED <<mine, clock, outside>>
         \/ ListReply /\ UNCHANGED <<delivered, tried, clock, outside>>
         \/ \E o \in Orders, b \in BOOLEAN : /\ SendOffer(o, b) \/ OfferStatus(o, b)
                                             /\ UNCHANGED <<delivered, tried, clock, outside>>
         \/ \E o \in Orders : GetOffer(o) /\ pass.cur = {o} /\ UNCHANGED <<mine, clock, outside>>
         \/ \E o \in Orders : DetailReply(o) /\ pass.cur = {o} /\ UNCHANGED <<delivered, clock, outside>>
         \/ \E o \in Orders : (Accept(o) \/ MobileConfirm(o)) /\ UNCHANGED <<cooldown, tried, clock, uu>>
<1>1. CASE ListFails \/ GapOver \/ ConfirmReply \/ OrderFails
  BY <1>1, Zenon DEF ListFails, GapOver, ConfirmReply, OrderFails
<1>2. CASE ListReply
  BY <1>2, Zenon DEF ListReply
<1>3. ASSUME NEW o \in Orders, NEW b \in BOOLEAN, SendOffer(o, b) \/ OfferStatus(o, b)
      PROVE  UNCHANGED <<delivered, tried, clock, outside>>
  BY <1>3, Zenon DEF SendOffer, OfferStatus
<1>4. ASSUME NEW o \in Orders, GetOffer(o) PROVE pass.cur = {o} /\ UNCHANGED <<mine, clock, outside>>
  BY <1>4, Zenon DEF GetOffer
<1>5. ASSUME NEW o \in Orders, DetailReply(o) PROVE pass.cur = {o} /\ UNCHANGED <<delivered, clock, outside>>
  BY <1>5, Zenon DEF DetailReply
<1>6. ASSUME NEW o \in Orders, Accept(o) \/ MobileConfirm(o) PROVE UNCHANGED <<cooldown, tried, clock, uu>>
  BY <1>6, Zenon DEF Accept, MobileConfirm
<1> QED BY <1>1, <1>2, <1>3, <1>4, <1>5, <1>6, Zenon DEF Pass

\* What goes on outside of the program.
LEMMA WorldMoves ==
  ASSUME World
  PROVE  UNCHANGED <<pass, mine>>
  BY DEF World, ClockTick, OrderPlaced, OfferMade, OfferDies, OrderGone

-----------------------------------------------------------------------------
(* Offers and passes keep their shape. *)
OfferType == [id : 0..MaxOffers, state : OfferStates, has : Contents \cup {NoOffer.has}]
Shaped == Orderly /\ offer \in [Orders -> OfferType]

LEMMA OfferStep ==
  ASSUME offer \in [Orders -> OfferType], Orderly, [Next]_vars
  PROVE  offer' \in [Orders -> OfferType]
<1>1. ASSUME NEW o \in Orders, NEW to \in OfferStates, offer' = [offer EXCEPT ![o].state = to]
      PROVE  offer' \in [Orders -> OfferType]
  BY <1>1 DEF OfferType
<1>2. CASE World
  <2>1. ASSUME NEW o \in Orders, NEW has \in Contents, OfferMade(o, has)
        PROVE  offer' \in [Orders -> OfferType]
    <3> DEFINE next == [id |-> offer[o].id + 1, state |-> "active", has |-> has]
    <3>1. next \in OfferType
      BY <2>1, UuAssumption DEF UuAssumption, OfferMade, OfferType, OfferStates
    <3>2. offer' = [offer EXCEPT ![o] = next]
      BY <2>1 DEF OfferMade
    <3> QED BY <3>1, <3>2
  <2>2. ASSUME NEW o \in Orders, OfferDies(o) PROVE offer' \in [Orders -> OfferType]
    BY <1>1, <2>2 DEF OfferDies, OfferStates
  <2> QED BY <1>2, <2>1, <2>2 DEF World, ClockTick, OrderPlaced, OrderGone, outside
<1>3. CASE Pass
  <2>1. ASSUME NEW o \in Orders, Accept(o) \/ MobileConfirm(o) PROVE offer' \in [Orders -> OfferType]
    <3>1. Give(o) \/ UNCHANGED offer
      BY <2>1, GivingMoves
    <3>2. CASE Give(o)
      BY <1>1, <3>2 DEF Give, OfferStates
    <3> QED BY <3>1, <3>2
  <2> QED BY <1>3, <2>1, PassMoves DEF outside
<1>4. CASE User \/ PollTick \/ Restart \/ UNCHANGED vars
  BY <1>4, UserMoves DEF Restart, vars, outside
<1> QED BY <1>2, <1>3, <1>4 DEF Next

LEMMA OrderlyStep ==
  ASSUME Shaped, [Next]_vars
  PROVE  Orderly'
<1> USE DEF Shaped
<1>1. Settled => Orderly'
  BY DEF Settled, Onward, Orderly, Sending
<1>2. ASSUME NEW os, Delivers(os) PROVE Orderly'
  BY <1>2 DEF Delivers, Onward, Orderly, Sending
<1>3. Sends => Orderly'
  BY DEF Sends, Onward, Orderly, Sending
<1>4. ASSUME NEW from, NEW to \in {"confirm", "offer", "accept", "mobile"}, Advances(from, to) PROVE Orderly'
  BY <1>4 DEF Advances, Orderly, Sending
<1>5. CASE Pass
  <2>1. CASE ListFails \/ GapOver \/ ConfirmReply \/ OrderFails
    BY <1>1, <1>2, <1>4, <2>1, OrderMoves
  <2>2. CASE ListReply
    BY <2>2, ListReplyMoves DEF Orderly, Sending
  <2>3. ASSUME NEW o \in Orders, NEW b \in BOOLEAN, SendOffer(o, b) \/ OfferStatus(o, b) PROVE Orderly'
    BY <1>2, <1>3, <2>3, SendingMoves
  <2>4. ASSUME NEW o \in Orders, GetOffer(o) PROVE Orderly'
    BY <1>1, <1>4, <2>4, OrderMoves
  <2>5. ASSUME NEW o \in Orders, DetailReply(o) PROVE Orderly'
    <3>1. offer[o].id \in 0..MaxOffers
      BY DEF OfferType
    <3> QED BY <1>1, <1>4, <2>5, <3>1, DetailMoves
  <2>6. ASSUME NEW o \in Orders, Accept(o) \/ MobileConfirm(o) PROVE Orderly'
    BY <1>1, <1>4, <2>6, GivingMoves
  <2> QED BY <1>5, <2>1, <2>2, <2>3, <2>4, <2>5, <2>6, PassMoves
<1>6. CASE pass' = pass \/ pass' = FirstPass \/ pass' = NoPass
  BY <1>6, Beginnings DEF Orderly, Sending
<1>7. CASE User \/ PollTick
  BY <1>6, <1>7, UserMoves
<1>8. CASE World \/ Restart \/ UNCHANGED vars
  BY <1>6, <1>8, WorldMoves DEF Restart, vars
<1> QED BY <1>5, <1>7, <1>8 DEF Next

LEMMA ShapedHolds == Spec => []Shaped
<1>1. Init => Shaped
  <2> SUFFICES ASSUME Init PROVE Shaped
    OBVIOUS
  <2>1. NoOffer \in OfferType
    BY UuAssumption DEF UuAssumption, NoOffer, OfferType, OfferStates
  <2>2. Orderly
    BY Beginnings DEF Init, Orderly
  <2> QED BY <2>1, <2>2 DEF Init, Shaped
<1>2. Shaped /\ [Next]_vars => Shaped'
  BY OrderlyStep, OfferStep DEF Shaped
<1> QED BY <1>1, <1>2, PTL DEF Spec

-----------------------------------------------------------------------------
(* What is given. *)

\* The offer in hand is not newer than the order's, and once Steam has been asked
\* it is one that was checked, as long as no other has replaced it.
Checked ==
  \A o \in Orders : o \in pass.cur =>
    /\ pass.phase \in {"confirm", "offer", "accept", "mobile"} => pass.id <= offer[o].id
    /\ pass.phase \in {"accept", "mobile"} /\ offer[o].id = pass.id => CheckOffer(o, offer[o].has)

Honest == Checked /\ DeliveryHonest

LEMMA UnhandedIsHonest ==
  ASSUME Honest, pass'.phase \notin {"confirm", "offer", "accept", "mobile"},
         delivered' \subseteq delivered, UNCHANGED offer
  PROVE  Honest'
  BY DEF Honest, Checked, DeliveryHonest, DeliveredIsGiven, OnlySoldGiven

LEMMA HonestWorld ==
  ASSUME Shaped, Honest, World
  PROVE  Honest'
<1> USE DEF Shaped, Honest, Checked, DeliveryHonest, DeliveredIsGiven, OnlySoldGiven
<1>1. UNCHANGED <<pass, mine>>
  BY WorldMoves
<1>2. ASSUME NEW o \in Orders, NEW has \in Contents, OfferMade(o, has) PROVE Honest'
  <2>1. /\ offer' = [offer EXCEPT ![o] = [id |-> offer[o].id + 1, state |-> "active", has |-> has]]
        /\ offer[o].state # "given"
    BY <1>2 DEF OfferMade
  <2>2. offer'[o].id = offer[o].id + 1 /\ offer'[o].state = "active" /\ \A q \in Orders : q # o => offer'[q] = offer[q]
    BY <2>1
  <2>3. pass.id \in Nat /\ offer[o].id \in Nat
    BY UuAssumption DEF UuAssumption, Orderly, PassType, OfferType
  <2>4. Checked'
    <3> SUFFICES ASSUME NEW q \in Orders, q \in pass.cur
                 PROVE  /\ pass.phase \in {"confirm", "offer", "accept", "mobile"} => pass.id <= offer'[q].id
                        /\ pass.phase \in {"accept", "mobile"} /\ offer'[q].id = pass.id => CheckOffer(q, offer'[q].has)
      BY <1>1
    <3>1. CASE q = o
      BY <2>2, <2>3, <3>1
    <3>2. CASE q # o
      BY <2>2, <3>2
    <3> QED BY <3>1, <3>2
  <2>5. DeliveryHonest'
    <3>1. \A q \in Orders : offer'[q].state = "given" => q # o
      BY <2>2
    <3>2. \A q \in delivered : q \in Orders => q # o
      BY <2>1
    <3> QED BY <1>1, <2>1, <2>2, <3>1, <3>2 DEF mine
  <2> QED BY <2>4, <2>5
<1>3. ASSUME NEW o \in Orders, OfferDies(o) PROVE Honest'
  <2>1. offer' = [offer EXCEPT ![o].state = "dead"] /\ offer[o].state = "active"
    BY <1>3 DEF OfferDies
  <2>2. \A q \in Orders : /\ offer'[q].id = offer[q].id /\ offer'[q].has = offer[q].has
                          /\ q # o => offer'[q] = offer[q]
    BY <2>1 DEF OfferType
  <2>3. offer'[o].state = "dead"
    BY <2>1 DEF OfferType
  <2>4. Checked'
    BY <1>1, <2>2
  <2>5. DeliveryHonest'
    BY <1>1, <2>1, <2>2, <2>3 DEF mine
  <2> QED BY <2>4, <2>5
<1>4. CASE UNCHANGED offer
  BY <1>1, <1>4 DEF mine
<1> QED BY <1>2, <1>3, <1>4 DEF World, ClockTick, OrderPlaced, OrderGone, outside

LEMMA HonestPass ==
  ASSUME Shaped, Honest, Pass
  PROVE  Honest'
<1> USE DEF Shaped
<1>1. Settled \/ Sends => pass'.phase \notin {"confirm", "offer", "accept", "mobile"}
  BY DEF Settled, Sends
<1>2. ASSUME NEW os, Delivers(os) PROVE pass'.phase \notin {"confirm", "offer", "accept", "mobile"}
  BY <1>2 DEF Delivers
<1>3. CASE (ListFails \/ GapOver \/ OrderFails) /\ UNCHANGED <<mine, clock, outside>>
  <2>1. pass'.phase \notin {"confirm", "offer", "accept", "mobile"}
    BY <1>1, <1>2, <1>3, OrderMoves
  <2> QED BY <1>3, <2>1, UnhandedIsHonest DEF mine, outside
<1>4. CASE ConfirmReply /\ UNCHANGED <<mine, clock, outside>>
  <2>1. Advances("confirm", "offer") /\ pass'.id = pass.id
    BY <1>4, OrderMoves
  <2> QED BY <1>4, <2>1 DEF Advances, Honest, Checked, DeliveryHonest, DeliveredIsGiven, OnlySoldGiven, mine, outside
<1>5. CASE ListReply /\ UNCHANGED <<delivered, tried, clock, outside>>
  <2>1. pass'.phase \notin {"confirm", "offer", "accept", "mobile"}
    BY <1>5, ListReplyMoves
  <2> QED BY <1>5, <2>1, UnhandedIsHonest DEF outside
<1>6. ASSUME NEW o \in Orders, NEW b \in BOOLEAN, SendOffer(o, b) \/ OfferStatus(o, b),
             UNCHANGED <<delivered, tried, clock, outside>>
      PROVE  Honest'
  <2>1. pass'.phase \notin {"confirm", "offer", "accept", "mobile"}
    BY <1>1, <1>2, <1>6, SendingMoves
  <2> QED BY <1>6, <2>1, UnhandedIsHonest DEF outside
<1>7. ASSUME NEW o \in Orders, GetOffer(o), pass.cur = {o}, UNCHANGED <<mine, clock, outside>> PROVE Honest'
  <2>1. CASE Settled
    BY <1>1, <1>7, <2>1, UnhandedIsHonest DEF mine, outside
  <2>2. CASE Advances("offer", "accept") /\ pass'.id = pass.id /\ Verified(o)
    BY <1>7, <2>2 DEF Verified, Advances, Honest, Checked, DeliveryHonest, DeliveredIsGiven, OnlySoldGiven, mine, outside
  <2> QED BY <1>7, <2>1, <2>2, OrderMoves
<1>8. ASSUME NEW o \in Orders, DetailReply(o), pass.cur = {o}, UNCHANGED <<delivered, clock, outside>> PROVE Honest'
  <2>1. offer[o].id \in 0..MaxOffers
    BY DEF OfferType
  <2>2. CASE Settled
    BY <1>1, <1>8, <2>2, UnhandedIsHonest DEF outside
  <2>3. CASE Advances("detail", "confirm") /\ pass'.id = offer[o].id
    BY <1>8, <2>1, <2>3 DEF Advances, Honest, Checked, DeliveryHonest, DeliveredIsGiven, OnlySoldGiven, outside
  <2> QED BY <1>8, <2>1, <2>2, <2>3, DetailMoves
<1>9. ASSUME NEW o \in Orders, Accept(o) \/ MobileConfirm(o) PROVE Honest'
  <2>1. /\ pass.phase \in {"accept", "mobile"} /\ pass.cur = {o} /\ Live(o)
        /\ \/ Settled /\ Give(o) /\ delivered' \in {delivered, delivered \cup {o}}
           \/ Advances("accept", "mobile") /\ pass'.id = pass.id /\ UNCHANGED <<offer, delivered>>
    BY <1>9, GivingMoves
  <2>2. CheckOffer(o, offer[o].has)
    BY <2>1 DEF Honest, Checked, Live
  <2>3. CASE Settled /\ Give(o) /\ delivered' \in {delivered, delivered \cup {o}}
    <3>1. /\ offer'[o].state = "given" /\ offer'[o].has = offer[o].has
          /\ \A q \in Orders : q # o => offer'[q] = offer[q]
      BY <2>3 DEF Give, OfferType
    <3>2. Checked'
      BY <1>1, <2>3 DEF Checked
    <3>3. OnlySoldGiven'
      BY <2>2, <3>1 DEF Honest, DeliveryHonest, OnlySoldGiven, CheckOffer
    <3>4. \A q \in delivered : offer'[q].state = "given"
      <4>1. \A q : q # o => offer'[q] = offer[q]
        BY <2>3 DEF Give
      <4> QED BY <3>1, <4>1 DEF Honest, DeliveryHonest, DeliveredIsGiven
    <3> QED BY <2>3, <3>1, <3>2, <3>3, <3>4 DEF Honest, DeliveryHonest, DeliveredIsGiven
  <2>4. CASE Advances("accept", "mobile") /\ pass'.id = pass.id /\ UNCHANGED <<offer, delivered>>
    BY <2>1, <2>4 DEF Advances, Honest, Checked, DeliveryHonest, DeliveredIsGiven, OnlySoldGiven
  <2> QED BY <2>1, <2>3, <2>4
<1> QED BY <1>3, <1>4, <1>5, <1>6, <1>7, <1>8, <1>9, PassMoves

\* However offers are replaced or withdrawn and whatever fails half-way, what is
\* reported as delivered was given, and what is given is what was sold.
THEOREM DeliveryIsHonest == Spec => []DeliveryHonest
<1>1. Init => Honest
  BY Beginnings DEF Init, Honest, Checked, DeliveryHonest, DeliveredIsGiven, OnlySoldGiven, NoOffer
<1>2. Shaped /\ Honest /\ [Next]_vars => Honest'
  <2> SUFFICES ASSUME Shaped, Honest, [Next]_vars PROVE Honest'
    OBVIOUS
  <2>1. CASE pass' \in {FirstPass, NoPass} /\ delivered' \subseteq delivered /\ UNCHANGED offer
    <3>1. pass'.phase \notin {"confirm", "offer", "accept", "mobile"}
      BY <2>1, Beginnings
    <3> QED BY <2>1, <3>1, UnhandedIsHonest
  <2>2. CASE UNCHANGED <<pass, delivered, offer>>
    BY <2>2 DEF Honest, Checked, DeliveryHonest, DeliveredIsGiven, OnlySoldGiven
  <2>3. CASE User \/ PollTick
    BY <2>1, <2>2, <2>3, UserMoves DEF mine, outside
  <2>4. CASE Restart \/ UNCHANGED vars
    BY <2>1, <2>2, <2>4 DEF Restart, vars, outside
  <2> QED BY <2>3, <2>4, HonestPass, HonestWorld DEF Next
<1>3. Honest => DeliveryHonest
  BY DEF Honest
<1> QED BY <1>1, <1>2, <1>3, ShapedHolds, PTL DEF Spec

-----------------------------------------------------------------------------
(* Pauses between attempts. *)

Rested(o) == tried[o] # 0 => clock >= tried[o] + Cooldown

\* An order that was tried has its entry until its cooldown is over, and those a
\* pass is about to deliver had none when it read its list.
Rests ==
  /\ tried \in [Orders -> Nat] /\ cooldown \in [Orders -> Nat] /\ clock \in Nat \ {0}
  /\ \A o \in Orders : cooldown[o] = tried[o] + Cooldown \/ Rested(o)
  /\ \A o \in Orders : o \in pass.todo \/ (pass.phase = "detail" /\ o \in pass.cur) => Rested(o)

\* A list is read, or taken up, at an instant at which some orders rest.
LEMMA RestsAfterFilter ==
  ASSUME Rests, UNCHANGED <<tried, clock>>,
         cooldown' = [o \in Orders |-> IF Cooling(o) THEN cooldown[o] ELSE 0],
         pass'.todo \cup pass'.cur \subseteq {o \in Orders : ~Cooling(o)}
  PROVE  Rests'
<1> USE UuAssumption DEF UuAssumption
<1>1. \A o \in Orders : ~Cooling(o) => Rested(o)
  BY DEF Rests, Cooling, Rested
<1>2. \A o \in Orders : Cooling(o) => cooldown'[o] = cooldown[o]
  OBVIOUS
<1>3. cooldown' \in [Orders -> Nat]
  BY DEF Rests
<1>4. \A o \in Orders : Rested(o)' <=> Rested(o)
  BY DEF Rested
<1> QED BY <1>1, <1>2, <1>3, <1>4 DEF Rests

\* Nothing new comes into hand, and nothing is tried.
LEMMA RestsOnward ==
  ASSUME Rests, UNCHANGED <<tried, cooldown>>, clock' \in Nat, clock' >= clock,
         \A o \in Orders : o \in pass'.todo \/ (pass'.phase = "detail" /\ o \in pass'.cur) => Rested(o)
  PROVE  Rests'
<1>1. \A o \in Orders : Rested(o) => Rested(o)'
  BY UuAssumption DEF UuAssumption, Rests, Rested
<1>2. clock' \in Nat \ {0}
  BY DEF Rests
<1> QED BY <1>1, <1>2 DEF Rests

LEMMA RestsStep ==
  ASSUME Shaped, Rests, [Next]_vars
  PROVE  Rests'
<1> USE DEF Shaped
<1>0. clock \in Nat /\ clock >= clock
  BY DEF Rests
<1>1. Settled \/ Sends => \A o \in Orders : o \in pass'.todo \/ (pass'.phase = "detail" /\ o \in pass'.cur) => Rested(o)
  BY DEF Settled, Sends, Rests
<1>2. Delivers(pass.todo) => \A o \in Orders : o \in pass'.todo \/ (pass'.phase = "detail" /\ o \in pass'.cur) => Rested(o)
  BY DEF Delivers, Rests
<1>3. ASSUME NEW from, NEW to \in {"offer", "accept", "mobile"}, Advances(from, to)
      PROVE  \A o \in Orders : o \in pass'.todo \/ (pass'.phase = "detail" /\ o \in pass'.cur) => Rested(o)
  BY <1>3 DEF Advances, Rests
<1>4. CASE (ListFails \/ GapOver \/ ConfirmReply \/ OrderFails) /\ UNCHANGED <<mine, clock, outside>>
  BY <1>0, <1>1, <1>2, <1>3, <1>4, OrderMoves, RestsOnward DEF mine
<1>5. CASE ListReply /\ UNCHANGED <<delivered, tried, clock, outside>>
  BY <1>0, <1>5, ListReplyMoves, RestsAfterFilter, RestsOnward
<1>6. ASSUME NEW o \in Orders, NEW b \in BOOLEAN, SendOffer(o, b) \/ OfferStatus(o, b),
             UNCHANGED <<delivered, tried, clock, outside>>
      PROVE  Rests'
  <2>1. CASE Sends /\ UNCHANGED cooldown
    BY <1>0, <1>1, <1>6, <2>1, RestsOnward
  <2>2. CASE Delivers({q \in Orders : ~Cooling(q)})
             /\ cooldown' = [q \in Orders |-> IF Cooling(q) THEN cooldown[q] ELSE 0]
    BY <1>6, <2>2, RestsAfterFilter DEF Delivers
  <2> QED BY <1>6, <2>1, <2>2, SendingMoves
<1>7. ASSUME NEW o \in Orders, GetOffer(o), UNCHANGED <<mine, clock, outside>> PROVE Rests'
  BY <1>0, <1>1, <1>3, <1>7, OrderMoves, RestsOnward DEF mine
<1>8. ASSUME NEW o \in Orders, DetailReply(o), pass.cur = {o}, UNCHANGED <<delivered, clock, outside>> PROVE Rests'
  <2>1. offer[o].id \in 0..MaxOffers
    BY DEF OfferType
  <2>2. CASE Settled /\ UNCHANGED <<cooldown, tried>>
    BY <1>0, <1>1, <1>8, <2>2, RestsOnward
  <2>3. CASE Advances("detail", "confirm") /\ tried' = [tried EXCEPT ![o] = clock] /\ EnterCooldown(o)
    <3>1. /\ tried' \in [Orders -> Nat] /\ tried'[o] = clock /\ cooldown'[o] = clock + Cooldown
          /\ cooldown' \in [Orders -> Nat]
          /\ \A q \in Orders : q # o => tried'[q] = tried[q] /\ cooldown'[q] = cooldown[q]
      BY <2>3, UuAssumption DEF UuAssumption, Rests, EnterCooldown
    <3>2. \A q \in Orders : q # o => (Rested(q)' <=> Rested(q))
      BY <1>8, <3>1 DEF Rested
    <3>3. \A q \in Orders : ~(pass'.phase = "detail") /\ (q \in pass'.todo => q \in pass.todo /\ q # o)
      BY <1>8, <2>3 DEF Advances, Orderly
    <3> QED BY <1>8, <3>1, <3>2, <3>3 DEF Rests
  <2> QED BY <1>8, <2>1, <2>2, <2>3, DetailMoves
<1>9. ASSUME NEW o \in Orders, Accept(o) \/ MobileConfirm(o), UNCHANGED <<cooldown, tried, clock, uu>> PROVE Rests'
  BY <1>0, <1>1, <1>3, <1>9, GivingMoves, RestsOnward
<1>10. CASE User \/ PollTick
  BY <1>0, <1>10, UserMoves, Beginnings, RestsOnward DEF mine, Rests
<1>11. CASE World
  <2>1. clock' \in Nat /\ clock' >= clock
    BY <1>0, <1>11 DEF World, ClockTick, OrderPlaced, OfferMade, OfferDies, OrderGone
  <2> QED BY <1>11, <2>1, WorldMoves, RestsOnward DEF mine, Rests
<1>12. CASE Restart
  <2>1. tried' = [o \in Orders |-> 0] /\ cooldown' = [o \in Orders |-> 0] /\ UNCHANGED clock
    BY <1>12 DEF Restart
  <2>2. \A o \in Orders : Rested(o)'
    BY <2>1 DEF Rested
  <2> QED BY <2>1, <2>2 DEF Rests
<1>13. CASE UNCHANGED vars
  BY <1>13 DEF vars, Rests, Rested
<1> QED BY <1>4, <1>5, <1>6, <1>7, <1>8, <1>9, <1>10, <1>11, <1>12, <1>13, PassMoves DEF Next

\* However timers, the page and slow passes mix, no order is tried again before
\* its cooldown is over.
THEOREM CooldownIsKept == Spec => CooldownKept
<1>1. Init => Rests
  <2> SUFFICES ASSUME Init PROVE Rests
    OBVIOUS
  <2>1. tried = [o \in Orders |-> 0] /\ cooldown = [o \in Orders |-> 0] /\ clock = 1
    BY DEF Init
  <2>2. \A o \in Orders : Rested(o)
    BY <2>1 DEF Rested
  <2> QED BY <2>1, <2>2 DEF Rests
<1>2. Shaped /\ Rests /\ [Next]_vars => Rests'
  BY RestsStep
<1>3. Rests => \A o \in Orders : Attempt(o) /\ tried[o] # 0 => clock >= tried[o] + Cooldown
  BY DEF Rests, Rested, Attempt
<1>4. Rests /\ [Next]_vars => [\A o \in Orders : Attempt(o) /\ tried[o] # 0 => clock >= tried[o] + Cooldown]_vars
  BY <1>3
<1> QED BY <1>1, <1>2, <1>4, ShapedHolds, PTL DEF Spec, CooldownKept

-----------------------------------------------------------------------------
(* Polling. *)

\* A switch is on only with a token, in memory and on disk: a token bound later
\* finds none that is on without its timer.
Polled ==
  /\ {acct, disk} \subseteq [token : BOOLEAN, auto : BOOLEAN]
  /\ acct.auto => acct.token
  /\ disk.auto => disk.token
  /\ PolledAsWanted

LEMMA Saved ==
  ASSUME NEW a \in [token : BOOLEAN, auto : BOOLEAN], SaveConfig(a)
  PROVE  disk' \in [token : BOOLEAN, auto : BOOLEAN] /\ (disk'.auto => disk'.token)
  BY DEF SaveConfig

\* A token is there exactly with a timer of the switch: no sequence of binding,
\* deleting, switching and restarting leaves one without the other.
THEOREM PollingIsAsWanted == Spec => []PolledAsWanted
<1>1. Init => Polled
  BY DEF Init, Polled, PolledAsWanted
<1>2. Polled /\ [Next]_vars => Polled'
  <2> SUFFICES ASSUME Polled, [Next]_vars PROVE Polled'
    OBVIOUS
  <2> USE DEF Polled, PolledAsWanted
  <2>1. ASSUME NEW b \in BOOLEAN, SetAuto(b) PROVE Polled'
    <3>1. acct' \in [token : BOOLEAN, auto : BOOLEAN] /\ acct'.token /\ (acct'.auto <=> b)
      BY <2>1 DEF SetAuto
    <3>2. timer' <=> b
      BY <2>1, <3>1 DEF SetAuto, StartPolling
    <3> QED BY <2>1, <3>1, <3>2, Saved DEF SetAuto
  <2>2. CASE SetPollInterval
    BY <2>2, Saved DEF SetPollInterval
  <2>3. CASE Bind
    <3>1. acct' \in [token : BOOLEAN, auto : BOOLEAN] /\ acct'.token /\ (acct'.auto <=> acct.auto)
      BY <2>3 DEF Bind
    <3> QED BY <2>3, <3>1, Saved DEF Bind
  <2>4. CASE DeleteAccountToken
    <3>1. acct' \in [token : BOOLEAN, auto : BOOLEAN] /\ ~acct'.token /\ ~acct'.auto
      BY <2>4 DEF DeleteAccountToken
    <3> QED BY <2>4, <3>1, Saved DEF DeleteAccountToken
  <2>5. CASE Restart
    BY <2>5 DEF Restart
  <2>6. CASE Scan \/ PollTick \/ World \/ Pass \/ UNCHANGED vars
    <3>1. UNCHANGED user
      <4>1. CASE World \/ UNCHANGED vars
        BY <4>1 DEF World, ClockTick, OrderPlaced, OfferMade, OfferDies, OrderGone, vars, user
      <4>2. CASE Scan \/ PollTick
        BY <4>2 DEF Scan, PollTick, user
      <4>3. CASE Pass
        BY <4>3, Zenon DEF Pass, ListReply, ListFails, GapOver, ConfirmReply, OrderFails, SendOffer, OfferStatus, DetailReply, GetOffer, Accept, MobileConfirm, user
      <4> QED BY <2>6, <4>1, <4>2, <4>3
    <3> QED BY <3>1 DEF user
  <2> QED BY <2>1, <2>2, <2>3, <2>4, <2>5, <2>6 DEF Next, User
<1>3. Polled => PolledAsWanted
  BY DEF Polled
<1> QED BY <1>1, <1>2, <1>3, PTL DEF Spec

-----------------------------------------------------------------------------
(* After the token is deleted. *)

\* Without a token no pass begins, and the one that runs takes up nothing that
\* was not on its list.
THEOREM OnlyTheRestIsGiven == Spec => StoppedGivesTheRest
<1> DEFINE Rest == ~acct.token => /\ ~Running => pass'.phase = NoPass.phase
                                  /\ pass.phase # "list" => Held(pass') \subseteq Held(pass)
<1>1. Shaped /\ [Next]_vars => [Rest]_vars
  <2> SUFFICES ASSUME Shaped, Next, ~acct.token PROVE Rest
    OBVIOUS
  <2> USE DEF Shaped
  <2>1. CASE pass' = pass
    BY <2>1 DEF Running, NoPass
  <2>2. CASE Restart
    BY <2>2 DEF Restart, Held, NoPass
  <2>3. CASE User \/ PollTick
    <3>1. SetPollInterval => pass' = pass
      BY Zenon DEF SetPollInterval, StartPass
    <3>2. Bind => pass' = pass
      BY DEF Bind
    <3>3. ~PollTick /\ ~Scan /\ ~DeleteAccountToken /\ \A b \in BOOLEAN : ~SetAuto(b)
      BY DEF PollTick, Scan, DeleteAccountToken, SetAuto
    <3> QED BY <2>1, <2>3, <3>1, <3>2, <3>3, Zenon DEF User
  <2>4. CASE Pass
    <3>1. Running
      BY <2>4 DEF Pass, Running, ListReply, ListFails, GapOver, ConfirmReply, OrderFails, SendOffer, OfferStatus, DetailReply, GetOffer, Accept, MobileConfirm
    <3>2. Settled \/ Sends \/ (\E os : Delivers(os)) \/ (\E from, to : Advances(from, to))
            => Held(pass') \subseteq Held(pass)
      BY DEF Settled, Sends, Delivers, Advances, Onward
    <3>3. ASSUME NEW o \in Orders, DetailReply(o) PROVE Held(pass') \subseteq Held(pass)
      <4>1. offer[o].id \in 0..MaxOffers
        BY DEF OfferType
      <4> QED BY <3>2, <3>3, <4>1, DetailMoves
    <3>4. ListReply => pass.phase = "list"
      BY DEF ListReply
    <3>5. ASSUME NEW o \in Orders, NEW b \in BOOLEAN, SendOffer(o, b) \/ OfferStatus(o, b) PROVE Held(pass') \subseteq Held(pass)
      BY <3>2, <3>5, SendingMoves
    <3>6. ASSUME NEW o \in Orders, GetOffer(o) PROVE Held(pass') \subseteq Held(pass)
      BY <3>2, <3>6, OrderMoves
    <3>7. ASSUME NEW o \in Orders, Accept(o) \/ MobileConfirm(o) PROVE Held(pass') \subseteq Held(pass)
      BY <3>2, <3>7, GivingMoves
    <3>8. ListFails \/ GapOver \/ ConfirmReply \/ OrderFails => Held(pass') \subseteq Held(pass)
      BY <3>2, OrderMoves
    <3>9. pass.phase = "list" \/ Held(pass') \subseteq Held(pass)
      BY <2>4, <3>3, <3>4, <3>5, <3>6, <3>7, <3>8, Zenon DEF Pass
    <3> QED BY <3>1, <3>9
  <2>5. CASE World
    BY <2>1, <2>5, WorldMoves
  <2> QED BY <2>2, <2>3, <2>4, <2>5 DEF Next
<1> QED BY <1>1, ShapedHolds, PTL DEF Spec, StoppedGivesTheRest
=============================================================================
