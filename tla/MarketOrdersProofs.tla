-------------------------- MODULE MarketOrdersProofs --------------------------
(***************************************************************************)
(* What MarketOrders keeps, for every number of placements, accounts and   *)
(* attempts.                                                               *)
(***************************************************************************)
EXTENDS MarketOrders, FiniteSetTheorems, TLAPS

-----------------------------------------------------------------------------
(* The shape of a placement: what bounds its attempts, and that its answers *)
(* are about its own orders.                                                *)
Own(p) == <<p, 1>>
Shaped(p, x) ==
  /\ x \in Placement
  /\ x.pc \in {"idle", "create", "created"} => x.tries = 0
  /\ x.pc \in {"created", "list", "accept"} => x.sent = 1
  /\ x.pc = "accept" => x.tries = 0 /\ x.item \in Items
  /\ x.pc = "list" => x.tries < Attempts
  /\ x.pc = "resend" => x.tries < RESEND_ATTEMPTS /\ x.sent <= x.tries + 1
  /\ x.pc = "resent" => x.tries < RESEND_ATTEMPTS /\ x.sent <= x.tries + 2
  /\ x.first.id \in {None, Own(p)}
  /\ x.again.id # None => x.again.id[1] = p
  /\ x.ok => x.pc = "done"

Pulls == [Accounts -> (SUBSET Orders) \cup {None, Unread}]
MarketInv ==
  /\ live \subseteq Orders
  /\ made \in [Placements -> Nat]
  /\ conf \in [Items -> {"absent", "coming", "listed", "allowed", "handled"}]
  /\ ledger \subseteq Record
  /\ clock \in 0 .. MaxClock
  /\ pl \in [Placements -> Placement]
  /\ \A p \in Placements : Shaped(p, pl[p])
  /\ sync \in [pc : {"idle", "pulling"}, since : Nat, pulled : Pulls] /\ sync.since <= clock
  /\ cancel \in [pc : {"idle", "granted"}, order : Orders \cup {None}]

\* The first submission of a placement stands for its order.
LEMMA OwnIsAnOrder ==
  ASSUME NEW p \in Placements PROVE Own(p) \in Orders /\ Own(p) \in Items /\ Own(p)[1] = p
  BY MarketAssumption DEF Own, Orders, Items

\* Every order belongs to a placement.
LEMMA OrdersHaveOwners == \A o \in Orders : o[1] \in Placements /\ o \in Items
  BY DEF Orders, Items

\* Answers have the fields that are read of them.
LEMMA Answers ==
  ASSUME NEW id \in Orders \cup {None}, NEW needs \in BOOLEAN, NEW c \in ConfIds \cup {None}
  PROVE  [id |-> id, needs |-> needs, confId |-> c] \in Answer
  BY DEF Answer

LEMMA EmptyAnswer == NoAnswer \in Answer /\ NoAnswer.id = None /\ NoAnswer.needs = FALSE /\ NoAnswer.confId = None
  BY Answers DEF NoAnswer

\* The fields of a placement that has not begun.
LEMMA IdleFields ==
  /\ Idle \in Placement
  /\ Idle.pc = "idle" /\ Idle.ok = FALSE /\ Idle.order = None /\ Idle.prior = Unread
  /\ Idle.first = NoAnswer /\ Idle.again = NoAnswer /\ Idle.tries = 0
<1>1. 0 \in 0 .. RESEND_ATTEMPTS + 1 /\ 0 \in Nat /\ "idle" \in Steps
  BY MarketAssumption DEF Steps
<1>2. Unread \in (SUBSET Items) \cup {Unread} /\ None \in Items \cup {None} /\ NoAnswer \in Answer
  BY EmptyAnswer
<1> QED BY <1>1, <1>2 DEF Placement, Idle

\* A placement that has ended, with an order or without.
Ended(ok, o) == [Idle EXCEPT !.pc = "done", !.ok = ok, !.order = o]
LEMMA EndedFields ==
  ASSUME NEW ok \in BOOLEAN, NEW o \in Orders \cup {None}
  PROVE  LET x == Ended(ok, o)
         IN  /\ x \in Placement /\ x.pc = "done" /\ x.ok = ok /\ x.order = o
             /\ x.prior = Unread /\ x.first = NoAnswer /\ x.again = NoAnswer
  BY IdleFields DEF Placement, Steps, Ended

Dead == [Idle EXCEPT !.pc = "done"]
\* A placement that ended by an exception or a restart.
LEMMA DeadFields ==
  /\ Dead \in Placement /\ Dead.pc = "done" /\ Dead.ok = FALSE /\ Dead.order = None
  /\ Dead.prior = Unread /\ Dead.first = NoAnswer /\ Dead.again = NoAnswer
  BY IdleFields DEF Placement, Steps, Dead

LEMMA EndedIsShaped ==
  ASSUME NEW p \in Placements, NEW x \in Placement, x.first = NoAnswer, x.again = NoAnswer, x.pc = "done"
  PROVE  Shaped(p, x)
  BY EmptyAnswer DEF Shaped

\* One placement changes.
LEMMA Changes ==
  ASSUME MarketInv, NEW p \in Placements, NEW x, Shaped(p, x), Goto(p, x)
  PROVE  /\ pl' \in [Placements -> Placement] /\ pl'[p] = x
         /\ \A q \in Placements : Shaped(q, pl'[q]) /\ (q # p => pl'[q] = pl[q])
  BY DEF MarketInv, Goto, Shaped

\* Steam makes the order that was asked for, or a confirmation for it.
LEMMA Submitting ==
  ASSUME MarketInv, NEW o \in Orders, NEW answer, Submit(o, answer)
  PROVE  /\ answer \in Answer /\ answer.id \in {None, o}
         /\ \/ /\ live' = live \cup {o} /\ made' = [made EXCEPT ![o[1]] = @ + 1] /\ UNCHANGED conf
               /\ answer.id = o /\ answer.needs = FALSE
            \/ /\ conf' = [conf EXCEPT ![o] = "coming"] /\ UNCHANGED <<live, made>>
               /\ answer.needs = TRUE /\ answer.confId \in ConfIds
         /\ live' \subseteq Orders /\ made' \in [Placements -> Nat]
         /\ conf' \in [Items -> {"absent", "coming", "listed", "allowed", "handled"}]
<1>1. o[1] \in Placements /\ o \in Items
  BY OrdersHaveOwners
<1>2. CASE Made(o) /\ answer = [NoAnswer EXCEPT !.id = o] /\ UNCHANGED conf
  <2>1. answer = [id |-> o, needs |-> FALSE, confId |-> None]
    BY <1>2 DEF NoAnswer
  <2>2. answer \in Answer /\ answer.id = o /\ answer.needs = FALSE
    BY <2>1, Answers
  <2>3. made' = [made EXCEPT ![o[1]] = @ + 1] /\ live' = live \cup {o}
    BY <1>2 DEF Made
  <2> QED BY <1>1, <1>2, <2>2, <2>3 DEF MarketInv
<1>3. ASSUME NEW c \in ConfIds, NEW id \in {None, o}, conf' = [conf EXCEPT ![o] = "coming"],
             answer = [id |-> id, needs |-> TRUE, confId |-> c], NothingMade
      PROVE  /\ answer \in Answer /\ answer.id \in {None, o} /\ answer.needs = TRUE /\ answer.confId \in ConfIds
             /\ conf' \in [Items -> {"absent", "coming", "listed", "allowed", "handled"}] /\ UNCHANGED <<live, made>>
  BY <1>1, <1>3, Answers DEF NothingMade, MarketInv
<1>4. CASE ~(Made(o) /\ answer = [NoAnswer EXCEPT !.id = o] /\ UNCHANGED conf)
  BY <1>3, <1>4 DEF Submit, MarketInv
<1> QED BY <1>2, <1>4

\* createbuyorder with a confirmation: the order is made only once it is
\* allowed.
LEMMA SubmittingConfirmed ==
  ASSUME MarketInv, NEW o \in Orders, NEW answer, SubmitConfirmed(o, answer)
  PROVE  /\ answer \in Answer /\ answer.id \in {None, o} /\ UNCHANGED conf
         /\ \/ /\ live' = live \cup {o} /\ made' = [made EXCEPT ![o[1]] = @ + 1]
               /\ answer.id = o /\ conf[o] = "allowed"
            \/ UNCHANGED <<live, made>> /\ answer.id = None
         /\ live' \subseteq Orders /\ made' \in [Placements -> Nat]
<1>1. o[1] \in Placements /\ o \in Items
  BY OrdersHaveOwners
<1>2. CASE conf[o] = "allowed" /\ Made(o) /\ answer = [NoAnswer EXCEPT !.id = o]
  <2>1. answer = [id |-> o, needs |-> FALSE, confId |-> None]
    BY <1>2 DEF NoAnswer
  <2>2. answer \in Answer /\ answer.id = o
    BY <2>1, Answers
  <2>3. made' = [made EXCEPT ![o[1]] = @ + 1] /\ live' = live \cup {o} /\ UNCHANGED conf
    BY <1>2 DEF Made, SubmitConfirmed
  <2> QED BY <1>1, <1>2, <2>2, <2>3 DEF MarketInv
<1>3. CASE answer = [NoAnswer EXCEPT !.needs = TRUE] /\ NothingMade
  <2>1. answer = [id |-> None, needs |-> TRUE, confId |-> None]
    BY <1>3 DEF NoAnswer
  <2>2. answer \in Answer /\ answer.id = None
    BY <2>1, Answers
  <2> QED BY <1>3, <2>2 DEF SubmitConfirmed, NothingMade, MarketInv
<1>4. CASE answer = NoAnswer /\ NothingMade
  BY <1>4, EmptyAnswer DEF SubmitConfirmed, NothingMade, MarketInv
<1> QED BY <1>2, <1>3, <1>4 DEF SubmitConfirmed

\* A placement ends: its order goes into the ledger.
LEMMA Finishing ==
  ASSUME MarketInv, NEW p \in Placements, NEW o \in Orders \cup {None}, NEW confirmed \in BOOLEAN,
         Finish(p, o, confirmed)
  PROVE  /\ pl' \in [Placements -> Placement]
         /\ \A q \in Placements : Shaped(q, pl'[q]) /\ (q # p => pl'[q] = pl[q])
         /\ pl'[p].pc = "done" /\ pl'[p].ok = confirmed /\ pl'[p].prior = Unread
         /\ pl'[p].order = IF confirmed THEN o ELSE None
         /\ ledger' \subseteq Record
         /\ \/ ledger' = ledger /\ (o = None \/ SaveFails)
            \/ \E r \in Record : ledger' = ledger \cup {r} /\ r.order = o /\ r.at = clock /\ o # None
<1> DEFINE named == IF confirmed THEN o ELSE None
           x == Ended(confirmed, named)
<1>0. named \in Orders \cup {None}
  OBVIOUS
<1>1. Goto(p, x)
  BY DEF Finish, Ended
<1> HIDE DEF named
<1>2. /\ x \in Placement
      /\ x.pc = "done" /\ x.prior = Unread /\ x.first = NoAnswer /\ x.again = NoAnswer
      /\ x.ok = confirmed /\ x.order = named
  BY <1>0, EndedFields
<1> HIDE DEF x
<1>3. /\ ledger' \subseteq Record
      /\ \/ ledger' = ledger /\ (o = None \/ SaveFails)
         \/ \E r \in Record : ledger' = ledger \cup {r} /\ r.order = o /\ r.at = clock /\ o # None
  <2>1. CASE o = None
    BY <2>1 DEF Finish, MarketInv
  <2>2. CASE o # None
    <3> DEFINE r == [order |-> o, at |-> clock, status |-> IF confirmed THEN "active" ELSE "pending_confirm"]
    <3>1. r \in Record /\ r.order = o /\ r.at = clock
      BY <2>2 DEF Record, MarketInv
    <3>2. ledger' = {r} \cup ledger \/ (SaveFails /\ UNCHANGED ledger)
      BY <2>2 DEF Finish, Add, Save
    <3> HIDE DEF r
    <3> QED BY <2>2, <3>1, <3>2 DEF MarketInv
  <2> QED BY <2>1, <2>2
<1>4. Shaped(p, x)
  BY <1>2, EndedIsShaped
<1> QED BY <1>1, <1>2, <1>3, <1>4, Changes DEF named

-----------------------------------------------------------------------------
(* The steps of a placement.                                                *)
Others(p) == \A q \in Placements : q # p => pl'[q] = pl[q]
MakesIt(o) == live' = live \cup {o} /\ made' = [made EXCEPT ![o[1]] = @ + 1] /\ UNCHANGED conf
HoldsIt(o) == conf' = [conf EXCEPT ![o] = "coming"] /\ UNCHANGED <<live, made>>

\* The snapshot of the list before createbuyorder.
LEMMA BeginStep ==
  ASSUME MarketInv, NEW p \in Placements, Begin(p)
  PROVE  /\ MarketInv' /\ Others(p) /\ pl[p].pc = "idle"
         /\ pl'[p].pc = "create" /\ pl'[p].ok = FALSE /\ pl'[p].prior \in Snapshot(p)
         /\ UNCHANGED <<live, made, conf, ledger, clock, sync, cancel>>
<1>1. PICK prior \in Snapshot(p) : Goto(p, [pl[p] EXCEPT !.pc = "create", !.prior = prior])
  BY DEF Begin
<1>2. pl[p] \in Placement /\ Shaped(p, pl[p]) /\ pl[p].pc = "idle"
  BY DEF MarketInv, Begin
<1>3. prior \in (SUBSET Items) \cup {Unread}
  BY DEF Snapshot, Listed
<1> DEFINE x == [pl[p] EXCEPT !.pc = "create", !.prior = prior]
<1>4. /\ x \in Placement /\ x.pc = "create" /\ x.prior = prior /\ x.tries = pl[p].tries /\ x.ok = pl[p].ok
      /\ x.first = pl[p].first /\ x.again = pl[p].again
  BY <1>2, <1>3 DEF Placement, Steps
<1> HIDE DEF x
<1>5. Shaped(p, x) /\ x.ok = FALSE
  BY <1>2, <1>4 DEF Shaped, Placement
<1>6. Goto(p, x)
  BY <1>1 DEF x
<1> QED BY <1>2, <1>4, <1>5, <1>6, Changes DEF Begin, MarketInv, Others

\* An exception before anything is recorded.
LEMMA FailedStep ==
  ASSUME MarketInv, NEW p \in Placements, Failed(p)
  PROVE  /\ pl' \in [Placements -> Placement] /\ Others(p) /\ \A q \in Placements : Shaped(q, pl'[q])
         /\ pl'[p].pc = "done" /\ pl'[p].ok = FALSE /\ pl'[p].prior = Unread
<1>1. Goto(p, Dead)
  BY DEF Failed, Dead
<1>2. Shaped(p, Dead)
  BY DeadFields, EndedIsShaped
<1> QED BY <1>1, <1>2, DeadFields, Changes DEF Others

\* The first createbuyorder: an order, a confirmation for it, or neither,
\* and an answer that may be lost.
LEMMA CreateStep ==
  ASSUME MarketInv, NEW p \in Placements, Create(p)
  PROVE  /\ MarketInv' /\ Others(p) /\ pl[p].pc = "create"
         /\ UNCHANGED <<ledger, clock, sync, cancel>>
         /\ pl'[p].ok = FALSE /\ pl'[p].prior \in {pl[p].prior, Unread}
         /\ \/ /\ pl'[p].pc = "created"
               /\ \/ MakesIt(Own(p)) /\ ~pl'[p].first.needs /\ pl'[p].first.id = Own(p)
                  \/ HoldsIt(Own(p)) /\ pl'[p].first.needs /\ pl'[p].first.confId \in ConfIds
            \/ /\ pl'[p].pc = "done"
               /\ MakesIt(Own(p)) \/ HoldsIt(Own(p)) \/ UNCHANGED <<live, made, conf>>
<1>1. pl[p] \in Placement /\ Shaped(p, pl[p]) /\ pl[p].pc = "create" /\ UNCHANGED <<ledger, clock, sync, cancel>>
  BY DEF MarketInv, Create
<1>2. Own(p) \in Orders /\ Own(p) = <<p, 1>>
  BY OwnIsAnOrder DEF Own
<1>3. ASSUME NEW answer, Submit(<<p, 1>>, answer)
      PROVE  /\ answer \in Answer /\ answer.id \in {None, Own(p)}
             /\ \/ MakesIt(Own(p)) /\ ~answer.needs /\ answer.id = Own(p)
                \/ HoldsIt(Own(p)) /\ answer.needs /\ answer.confId \in ConfIds
             /\ live' \subseteq Orders /\ made' \in [Placements -> Nat]
             /\ conf' \in [Items -> {"absent", "coming", "listed", "allowed", "handled"}]
  BY <1>2, <1>3, Submitting DEF MakesIt, HoldsIt
<1>4. ASSUME NEW answer \in Answer, Submit(<<p, 1>>, answer),
             Goto(p, [pl[p] EXCEPT !.pc = "created", !.first = answer, !.sent = 1])
      PROVE  /\ pl' \in [Placements -> Placement] /\ Others(p) /\ \A q \in Placements : Shaped(q, pl'[q])
             /\ pl'[p].pc = "created" /\ pl'[p].first = answer /\ pl'[p].ok = FALSE /\ pl'[p].prior = pl[p].prior
  <2> DEFINE x == [pl[p] EXCEPT !.pc = "created", !.first = answer, !.sent = 1]
  <2>1. 1 \in 0 .. RESEND_ATTEMPTS + 1
    BY MarketAssumption
  <2>2. /\ x \in Placement /\ x.pc = "created" /\ x.prior = pl[p].prior /\ x.tries = pl[p].tries /\ x.ok = pl[p].ok
        /\ x.first = answer /\ x.again = pl[p].again /\ x.sent = 1
    BY <1>1, <2>1 DEF Placement, Steps
  <2>3. Goto(p, x)
    BY <1>4
  <2> HIDE DEF x
  <2>4. Shaped(p, x) /\ x.ok = FALSE
    BY <1>1, <1>3, <1>4, <2>2 DEF Shaped, Placement
  <2> QED BY <2>2, <2>3, <2>4, Changes DEF Others
<1>5. CASE \E answer \in Answer : /\ Submit(<<p, 1>>, answer)
                                  /\ Goto(p, [pl[p] EXCEPT !.pc = "created", !.first = answer, !.sent = 1])
  BY <1>1, <1>3, <1>4, <1>5 DEF MarketInv
<1>6. CASE Failed(p) /\ \E answer \in Answer : Submit(<<p, 1>>, answer)
  BY <1>1, <1>3, <1>6, FailedStep DEF MarketInv
<1>7. CASE Failed(p) /\ NothingMade /\ UNCHANGED conf
  BY <1>1, <1>7, FailedStep DEF MarketInv, NothingMade
<1> QED BY <1>5, <1>6, <1>7 DEF Create

\* What a placement leaves in the ledger when it ends.
Leaves(o) ==
  \/ ledger' = ledger /\ (o = None \/ SaveFails)
  \/ \E r \in Record : ledger' = ledger \cup {r} /\ r.order = o /\ r.at = clock /\ o # None

LEMMA Ends ==
  ASSUME MarketInv, NEW p \in Placements, NEW o \in Orders \cup {None}, NEW confirmed \in BOOLEAN,
         Finish(p, o, confirmed), UNCHANGED <<live, made, conf, clock, sync, cancel>>
  PROVE  /\ MarketInv' /\ Others(p) /\ Leaves(o)
         /\ pl'[p].pc = "done" /\ pl'[p].ok = confirmed /\ pl'[p].prior = Unread
         /\ pl'[p].order = IF confirmed THEN o ELSE None
<1>1. MarketInv'
  BY Finishing DEF MarketInv
<1>2. Others(p) /\ Leaves(o)
  BY Finishing DEF Others, Leaves
<1> QED BY <1>1, <1>2, Finishing

\* What the first answer leads to.
LEMMA CreatedStep ==
  ASSUME MarketInv, NEW p \in Placements, Created(p)
  PROVE  /\ MarketInv' /\ Others(p) /\ pl[p].pc = "created"
         /\ UNCHANGED <<live, made, conf, clock, sync, cancel>>
         /\ \/ /\ pl'[p].pc = "done" /\ pl'[p].prior = Unread /\ Leaves(pl[p].first.id)
               /\ pl'[p].ok = ~pl[p].first.needs /\ (pl'[p].ok => pl'[p].order = pl[p].first.id)
            \/ /\ pl'[p].pc = "list" /\ pl'[p].ok = FALSE /\ UNCHANGED ledger
               /\ pl[p].first.needs /\ pl'[p].first = pl[p].first /\ pl'[p].prior = pl[p].prior
<1>1. /\ pl[p] \in Placement /\ Shaped(p, pl[p]) /\ pl[p].pc = "created"
      /\ UNCHANGED <<live, made, conf, clock, sync, cancel>>
  BY DEF MarketInv, Created
<1>2. pl[p].first.id \in Orders \cup {None} /\ pl[p].first.needs \in BOOLEAN
  BY <1>1 DEF Placement, Answer
<1>3. ASSUME NEW confirmed \in BOOLEAN, confirmed = ~pl[p].first.needs, Finish(p, pl[p].first.id, confirmed)
      PROVE  /\ MarketInv' /\ Others(p)
             /\ pl'[p].pc = "done" /\ pl'[p].prior = Unread /\ Leaves(pl[p].first.id)
             /\ pl'[p].ok = ~pl[p].first.needs /\ (pl'[p].ok => pl'[p].order = pl[p].first.id)
  BY <1>1, <1>2, <1>3, Ends
<1>4. CASE pl[p].first.needs /\ Goto(p, [pl[p] EXCEPT !.pc = "list"]) /\ UNCHANGED ledger
  <2> DEFINE x == [pl[p] EXCEPT !.pc = "list"]
  <2>1. /\ x \in Placement /\ x.pc = "list" /\ x.prior = pl[p].prior /\ x.tries = pl[p].tries /\ x.ok = pl[p].ok
        /\ x.first = pl[p].first /\ x.again = pl[p].again /\ x.sent = pl[p].sent
    BY <1>1 DEF Placement, Steps
  <2>2. Goto(p, x)
    BY <1>4
  <2> HIDE DEF x
  <2>3. Shaped(p, x) /\ x.ok = FALSE
    BY <1>1, <2>1, MarketAssumption DEF Shaped, Placement
  <2> QED BY <1>1, <1>4, <2>1, <2>2, <2>3, Changes DEF MarketInv, Others
<1>5. CASE ~pl[p].first.needs /\ Finish(p, pl[p].first.id, TRUE)
  BY <1>1, <1>3, <1>5
<1>6. CASE pl[p].first.needs /\ Finish(p, pl[p].first.id, FALSE)
  BY <1>1, <1>3, <1>6
<1> QED BY <1>1, <1>4, <1>5, <1>6 DEF Created

\* A placement that ends unconfirmed, all else as it was.
GivesUp(p) ==
  /\ pl'[p].pc = "done" /\ pl'[p].ok = FALSE /\ pl'[p].prior = Unread /\ Leaves(pl[p].first.id)

\* A placement that ends unconfirmed.
LEMMA GivingUp ==
  ASSUME MarketInv, NEW p \in Placements, Finish(p, pl[p].first.id, FALSE)
  PROVE  /\ GivesUp(p) /\ Others(p) /\ ledger' \subseteq Record
         /\ pl' \in [Placements -> Placement] /\ \A q \in Placements : Shaped(q, pl'[q])
<1>1. pl[p].first.id \in Orders \cup {None}
  BY DEF MarketInv, Placement, Answer
<1> QED BY <1>1, Finishing DEF GivesUp, Others, Leaves

\* One look at the list of confirmations.
LEMMA FindStep ==
  ASSUME MarketInv, NEW p \in Placements, FindConfirmation(p)
  PROVE  /\ MarketInv' /\ Others(p) /\ pl[p].pc = "list"
         /\ UNCHANGED <<live, made, conf, clock, sync, cancel>>
         /\ \/ GivesUp(p)
            \/ /\ UNCHANGED ledger /\ pl'[p].ok = FALSE /\ pl'[p].first = pl[p].first
               /\ pl'[p].prior \in {pl[p].prior, Unread}
               /\ pl'[p].pc = "list" \/ (pl'[p].pc = "accept" /\ pl'[p].item \in Picked(p))
<1>1. /\ pl[p] \in Placement /\ Shaped(p, pl[p]) /\ pl[p].pc = "list"
      /\ UNCHANGED <<live, made, conf, clock, sync, cancel>>
  BY DEF MarketInv, FindConfirmation
<1>2. ASSUME NEW i \in Picked(p), UNCHANGED ledger,
             Goto(p, [pl[p] EXCEPT !.pc = "accept", !.item = i, !.prior = Unread, !.tries = 0])
      PROVE  /\ MarketInv' /\ Others(p) /\ pl'[p].ok = FALSE /\ pl'[p].first = pl[p].first
             /\ pl'[p].pc = "accept" /\ pl'[p].item = i /\ pl'[p].prior = Unread
  <2> DEFINE x == [pl[p] EXCEPT !.pc = "accept", !.item = i, !.prior = Unread, !.tries = 0]
  <2>1. i \in Items
    BY DEF Picked, Identified, Candidates, Listed
  <2>2. /\ x \in Placement /\ x.pc = "accept" /\ x.prior = Unread /\ x.tries = 0 /\ x.ok = pl[p].ok
        /\ x.first = pl[p].first /\ x.again = pl[p].again /\ x.sent = pl[p].sent /\ x.item = i
    BY <1>1, <2>1 DEF Placement, Steps
  <2>3. Goto(p, x)
    BY <1>2
  <2> HIDE DEF x
  <2>4. Shaped(p, x) /\ x.ok = FALSE
    BY <1>1, <2>1, <2>2 DEF Shaped, Placement
  <2> QED BY <1>1, <1>2, <2>2, <2>3, <2>4, Changes DEF MarketInv, Others
<1>3. CASE AnotherLook(p) /\ Goto(p, [pl[p] EXCEPT !.tries = @ + 1]) /\ UNCHANGED ledger
  <2> DEFINE x == [pl[p] EXCEPT !.tries = @ + 1]
  <2>2. /\ x \in Placement /\ x.pc = "list" /\ x.prior = pl[p].prior /\ x.tries = pl[p].tries + 1 /\ x.ok = pl[p].ok
        /\ x.first = pl[p].first /\ x.again = pl[p].again /\ x.sent = pl[p].sent
    BY <1>1 DEF Placement
  <2>3. Goto(p, x)
    BY <1>3
  <2> HIDE DEF x
  <2>4. Shaped(p, x) /\ x.ok = FALSE
    BY <1>1, <1>3, <2>2 DEF Shaped, Placement, AnotherLook
  <2> QED BY <1>1, <1>3, <2>2, <2>3, <2>4, Changes DEF MarketInv, Others
<1>4. CASE Finish(p, pl[p].first.id, FALSE)
  BY <1>1, <1>4, GivingUp DEF MarketInv
<1> QED BY <1>1, <1>2, <1>3, <1>4 DEF FindConfirmation

\* One confirmation is allowed, or the placement gives up.
LEMMA AcceptStep ==
  ASSUME MarketInv, NEW p \in Placements, Accept(p)
  PROVE  /\ MarketInv' /\ Others(p) /\ pl[p].pc = "accept"
         /\ UNCHANGED <<live, made, clock, sync, cancel>>
         /\ \/ UNCHANGED conf
            \/ conf[pl[p].item] = "listed" /\ conf' = [conf EXCEPT ![pl[p].item] = "allowed"]
         /\ \/ GivesUp(p)
            \/ /\ UNCHANGED ledger /\ pl'[p].ok = FALSE /\ pl'[p].first = pl[p].first
               /\ pl'[p].prior = pl[p].prior /\ pl'[p].pc = "resend"
<1>1. /\ pl[p] \in Placement /\ Shaped(p, pl[p]) /\ pl[p].pc = "accept"
      /\ UNCHANGED <<live, made, clock, sync, cancel>>
  BY DEF MarketInv, Accept
<1>2. /\ UNCHANGED conf \/ (conf[pl[p].item] = "listed" /\ conf' = [conf EXCEPT ![pl[p].item] = "allowed"])
      /\ conf' \in [Items -> {"absent", "coming", "listed", "allowed", "handled"}]
  BY DEF MarketInv, Accept
<1>3. CASE Goto(p, [pl[p] EXCEPT !.pc = "resend", !.item = None]) /\ UNCHANGED ledger
  <2> DEFINE x == [pl[p] EXCEPT !.pc = "resend", !.item = None]
  <2>2. /\ x \in Placement /\ x.pc = "resend" /\ x.prior = pl[p].prior /\ x.tries = pl[p].tries /\ x.ok = pl[p].ok
        /\ x.first = pl[p].first /\ x.again = pl[p].again /\ x.sent = pl[p].sent
    BY <1>1 DEF Placement, Steps
  <2>3. Goto(p, x)
    BY <1>3
  <2> HIDE DEF x
  <2>4. Shaped(p, x) /\ x.ok = FALSE
    BY <1>1, <2>2, MarketAssumption DEF Shaped, Placement
  <2> QED BY <1>1, <1>2, <1>3, <2>2, <2>3, <2>4, Changes DEF MarketInv, Others
<1>4. CASE Finish(p, pl[p].first.id, FALSE)
  BY <1>1, <1>2, <1>4, GivingUp DEF MarketInv
<1> QED BY <1>1, <1>2, <1>3, <1>4 DEF Accept

\* What createbuyorder does when it is sent again, with the number it answers.
SentAgain(p, id) ==
  \/ /\ pl[p].first.confId = None
     /\ \E o \in Orders : o[1] = p /\ id \in {None, o} /\ (MakesIt(o) \/ HoldsIt(o))
  \/ /\ pl[p].first.confId # None
     /\ \/ MakesIt(Own(p)) /\ id = Own(p) /\ conf[Own(p)] = "allowed"
        \/ UNCHANGED <<live, made, conf>> /\ id = None

\* createbuyorder sent again, in all the ways it may go.
LEMMA SendingAgain ==
  ASSUME MarketInv, NEW p \in Placements, pl[p].pc = "resend", NEW answer, SubmitAgain(p, answer)
  PROVE  /\ answer \in Answer /\ SentAgain(p, answer.id) /\ (answer.id # None => answer.id[1] = p)
         /\ live' \subseteq Orders /\ made' \in [Placements -> Nat]
         /\ conf' \in [Items -> {"absent", "coming", "listed", "allowed", "handled"}]
<1>1. pl[p] \in Placement /\ Shaped(p, pl[p])
  BY DEF MarketInv
<1>2. CASE pl[p].first.confId = None
  <2> DEFINE o == <<p, pl[p].sent + 1>>
  <2>1. pl[p].sent \in Nat /\ pl[p].sent + 1 \in 1 .. RESEND_ATTEMPTS + 1
    BY <1>1, MarketAssumption DEF Placement, Shaped
  <2>2. o \in Orders /\ o[1] = p
    BY <2>1 DEF Orders
  <2>3. Submit(o, answer)
    BY <1>2 DEF SubmitAgain
  <2> HIDE DEF o
  <2> QED BY <1>2, <2>2, <2>3, Submitting DEF SentAgain, MakesIt, HoldsIt
<1>3. CASE pl[p].first.confId # None
  <2>1. SubmitConfirmed(Own(p), answer)
    BY <1>3 DEF SubmitAgain, Own
  <2> QED BY <1>3, <2>1, OwnIsAnOrder, SubmittingConfirmed DEF SentAgain, MakesIt, MarketInv
<1> QED BY <1>2, <1>3

LEMMA ResendStep ==
  ASSUME MarketInv, NEW p \in Placements, Resend(p)
  PROVE  /\ MarketInv' /\ Others(p) /\ pl[p].pc = "resend"
         /\ UNCHANGED <<clock, sync, cancel>>
         /\ \/ /\ GivesUp(p)
               /\ (\E id : SentAgain(p, id)) \/ UNCHANGED <<live, made, conf>>
            \/ /\ UNCHANGED ledger /\ pl'[p].ok = FALSE /\ pl'[p].first = pl[p].first
               /\ pl'[p].prior = pl[p].prior /\ pl'[p].pc = "resent" /\ SentAgain(p, pl'[p].again.id)
<1>1. /\ pl[p] \in Placement /\ Shaped(p, pl[p]) /\ pl[p].pc = "resend"
      /\ UNCHANGED <<clock, sync, cancel>>
  BY DEF MarketInv, Resend
<1>2. ASSUME NEW answer \in Answer, SubmitAgain(p, answer), UNCHANGED ledger,
             Goto(p, [pl[p] EXCEPT !.pc = "resent", !.again = answer, !.sent = SentNow(p)])
      PROVE  /\ MarketInv' /\ Others(p) /\ pl'[p].ok = FALSE /\ pl'[p].first = pl[p].first
             /\ pl'[p].prior = pl[p].prior /\ pl'[p].pc = "resent" /\ SentAgain(p, pl'[p].again.id)
  <2> DEFINE x == [pl[p] EXCEPT !.pc = "resent", !.again = answer, !.sent = SentNow(p)]
  <2>1. /\ SentNow(p) \in 0 .. RESEND_ATTEMPTS + 1
        /\ SentNow(p) <= pl[p].tries + 2 /\ pl[p].tries \in Nat /\ pl[p].tries < RESEND_ATTEMPTS
    BY <1>1, MarketAssumption DEF Placement, Shaped, SentNow
  <2>2. /\ x \in Placement /\ x.pc = "resent" /\ x.prior = pl[p].prior /\ x.tries = pl[p].tries /\ x.ok = pl[p].ok
        /\ x.first = pl[p].first /\ x.again = answer /\ x.sent = SentNow(p)
    BY <1>1, <2>1 DEF Placement, Steps
  <2>3. Goto(p, x)
    BY <1>2
  <2>4. SentAgain(p, answer.id) /\ (answer.id # None => answer.id[1] = p)
    BY <1>1, <1>2, SendingAgain
  <2> HIDE DEF x
  <2>5. Shaped(p, x) /\ x.ok = FALSE
    BY <1>1, <2>1, <2>2, <2>4 DEF Shaped, Placement
  <2> QED BY <1>1, <1>2, <2>2, <2>3, <2>4, <2>5, SendingAgain, Changes DEF MarketInv, Others
<1>3. CASE Finish(p, pl[p].first.id, FALSE) /\ \E answer \in Answer : SubmitAgain(p, answer)
  BY <1>1, <1>3, SendingAgain, GivingUp DEF MarketInv
<1>4. CASE Finish(p, pl[p].first.id, FALSE) /\ NothingMade /\ UNCHANGED conf
  BY <1>1, <1>4, GivingUp DEF MarketInv, NothingMade
<1> QED BY <1>1, <1>2, <1>3, <1>4 DEF Resend, AnswerLost

\* What the answer to a repeated createbuyorder leads to.
LEMMA ResentStep ==
  ASSUME MarketInv, NEW p \in Placements, Resent(p)
  PROVE  /\ MarketInv' /\ Others(p) /\ pl[p].pc = "resent"
         /\ UNCHANGED <<live, made, conf, clock, sync, cancel>>
         /\ \/ /\ pl'[p].pc = "done" /\ pl'[p].prior = Unread
               /\ pl[p].again.id # None /\ Leaves(pl[p].again.id) /\ pl'[p].order = pl[p].again.id
            \/ GivesUp(p)
            \/ /\ UNCHANGED ledger /\ pl'[p].ok = FALSE /\ pl'[p].first = pl[p].first
               /\ pl'[p].prior = pl[p].prior /\ pl'[p].pc = "resend" /\ pl[p].again.id = None
<1>1. /\ pl[p] \in Placement /\ Shaped(p, pl[p]) /\ pl[p].pc = "resent"
      /\ UNCHANGED <<live, made, conf, clock, sync, cancel>>
  BY DEF MarketInv, Resent
<1>2. CASE pl[p].again.id # None /\ Finish(p, pl[p].again.id, TRUE)
  <2>1. pl[p].again.id \in Orders \cup {None}
    BY <1>1 DEF Placement, Answer
  <2> QED BY <1>1, <1>2, <2>1, Ends
<1>3. CASE /\ pl[p].again.id = None /\ pl[p].tries + 1 < RESEND_ATTEMPTS /\ UNCHANGED ledger
           /\ Goto(p, [pl[p] EXCEPT !.pc = "resend", !.tries = @ + 1, !.again = NoAnswer])
  <2> DEFINE more == pl[p].tries + 1
             x == [pl[p] EXCEPT !.pc = "resend", !.tries = more, !.again = NoAnswer]
  <2>1. more \in Nat
    BY <1>1 DEF Placement
  <2>3. Goto(p, x)
    BY <1>3
  <2> HIDE DEF more
  <2>2. /\ x \in Placement /\ x.pc = "resend" /\ x.prior = pl[p].prior /\ x.tries = more /\ x.ok = pl[p].ok
        /\ x.first = pl[p].first /\ x.again = NoAnswer /\ x.sent = pl[p].sent
    BY <1>1, <2>1, EmptyAnswer DEF Placement, Steps
  <2> HIDE DEF x
  <2>4. pl[p].tries \in Nat /\ pl[p].sent \in Nat
    BY <1>1 DEF Placement
  <2>5. Shaped(p, x) /\ x.ok = FALSE
    BY <1>1, <1>3, <2>2, <2>4, EmptyAnswer, MarketAssumption DEF Shaped, Placement, more
  <2> QED BY <1>1, <1>3, <2>2, <2>3, <2>5, Changes DEF MarketInv, Others
<1>4. CASE Finish(p, pl[p].first.id, FALSE)
  BY <1>1, <1>4, GivingUp DEF MarketInv
<1> QED BY <1>1, <1>2, <1>3, <1>4 DEF Resent

-----------------------------------------------------------------------------
(* Everything else.                                                         *)
LEMMA WorldStep ==
  ASSUME MarketInv,
         \/ \E i \in Items : ConfirmationAppears(i) \/ HandledInApp(i)
         \/ \E t \in Trades : TradeWaits(t)
         \/ \E o \in Orders : OrderGone(o)
         \/ Tick
  PROVE  MarketInv' /\ UNCHANGED <<pl, ledger, sync, cancel>>
<1>1. ASSUME NEW i \in Items, ConfirmationAppears(i) \/ (HandledInApp(i) /\ NothingMade)
      PROVE  MarketInv' /\ UNCHANGED <<pl, ledger, sync, cancel>>
  BY <1>1 DEF ConfirmationAppears, HandledInApp, NothingMade, MarketInv
<1>2. ASSUME NEW i \in Items, HandledInApp(i), i \in Orders /\ Made(i)
      PROVE  MarketInv' /\ UNCHANGED <<pl, ledger, sync, cancel>>
  <2>1. i[1] \in Placements
    BY <1>2, OrdersHaveOwners
  <2> QED BY <1>2, <2>1 DEF HandledInApp, Made, MarketInv
<1>3. ASSUME NEW t \in Trades, TradeWaits(t) PROVE MarketInv' /\ UNCHANGED <<pl, ledger, sync, cancel>>
  BY <1>3 DEF TradeWaits, MarketInv
<1>4. ASSUME NEW o \in Orders, OrderGone(o) PROVE MarketInv' /\ UNCHANGED <<pl, ledger, sync, cancel>>
  BY <1>4 DEF OrderGone, MarketInv
<1>5. CASE Tick
  BY <1>5, MarketAssumption DEF Tick, MarketInv
<1>6. ASSUME NEW i \in Items, HandledInApp(i) PROVE (i \in Orders /\ Made(i)) \/ NothingMade
  BY <1>6 DEF HandledInApp
<1> QED BY <1>1, <1>2, <1>3, <1>4, <1>5, <1>6

\* Reconciliations and cancellations only take records away, or say that an
\* order is in force.
Fewer == \A s \in ledger' : \E r \in ledger : r.order = s.order /\ r.at = s.at

\* Reconciliations and the end of a cancellation never add a record.
LEMMA SyncStep ==
  ASSUME MarketInv, SyncStart \/ SyncFinish \/ Cancelled \/ \E a \in Accounts : Pull(a)
  PROVE  MarketInv' /\ Fewer /\ UNCHANGED <<live, made, conf, clock, pl>>
<1>1. CASE SyncStart
  <2>1. NoSync.pulled \in Pulls /\ sync' = [pc |-> "pulling", since |-> clock, pulled |-> NoSync.pulled]
    BY <1>1 DEF NoSync, Pulls, SyncStart
  <2> QED BY <1>1, <2>1 DEF SyncStart, MarketInv, Fewer
<1>2. ASSUME NEW a \in Accounts, Pull(a) PROVE MarketInv' /\ Fewer /\ UNCHANGED <<live, made, conf, clock, pl>>
  <2>1. PICK found \in {{o \in live : OwnerOf(o) = a}, Unread} : sync' = [sync EXCEPT !.pulled[a] = found]
    BY <1>2 DEF Pull
  <2>2. found \in (SUBSET Orders) \cup {None, Unread}
    BY DEF MarketInv
  <2>3. sync'.pulled \in Pulls /\ sync' \in [pc : {"idle", "pulling"}, since : Nat, pulled : Pulls] /\ sync'.since = sync.since
    BY <2>1, <2>2 DEF MarketInv, Pulls
  <2> QED BY <1>2, <2>3 DEF Pull, MarketInv, Fewer
<1>3. CASE SyncFinish
  <2> DEFINE kept == {r \in ledger : KeptAsIs(r)}
             there == {x \in ledger : ~KeptAsIs(x) /\ StillThere(x)}
             records == kept \cup {[r EXCEPT !.status = "active"] : r \in there}
  <2>1. ASSUME NEW r \in Record
        PROVE  LET s == [r EXCEPT !.status = "active"] IN s \in Record /\ s.order = r.order /\ s.at = r.at
    BY DEF Record
  <2>2. ledger' = records \/ ledger' = ledger
    BY <1>3 DEF SyncFinish, Reconcile, Save
  <2>3. kept \subseteq ledger /\ there \subseteq ledger /\ ledger \subseteq Record
    BY DEF MarketInv
  <2> HIDE DEF kept, there
  <2>4. ledger' \subseteq Record /\ Fewer
    BY <2>1, <2>2, <2>3 DEF Fewer
  <2>5. NoSync \in [pc : {"idle", "pulling"}, since : Nat, pulled : Pulls] /\ NoSync.since = 0
    BY DEF NoSync, Pulls
  <2> QED BY <1>3, <2>4, <2>5 DEF SyncFinish, MarketInv
<1>4. CASE Cancelled
  <2>1. ledger' \subseteq ledger
    BY <1>4 DEF Cancelled, RemoveBuyOrder, Save
  <2>2. NoCancel \in [pc : {"idle", "granted"}, order : Orders \cup {None}]
    BY DEF NoCancel
  <2> QED BY <1>4, <2>1, <2>2 DEF Cancelled, MarketInv, Fewer
<1> QED BY <1>1, <1>2, <1>3, <1>4

\* Steam grants a cancellation once the order is out of force.
LEMMA CancelStep ==
  ASSUME MarketInv, NEW r \in ledger, CancelAtSteam(r)
  PROVE  /\ MarketInv' /\ UNCHANGED <<made, conf, ledger, clock, pl, sync>> /\ live' \subseteq live
         /\ cancel'.pc = "granted" => cancel'.order = r.order /\ r.order \notin live'
<1>1. r.order \in Orders
  BY DEF MarketInv, Record
<1>2. /\ NoCancel \in [pc : {"idle", "granted"}, order : Orders \cup {None}] /\ NoCancel.pc = "idle"
      /\ [pc |-> "granted", order |-> r.order] \in [pc : {"idle", "granted"}, order : Orders \cup {None}]
  BY <1>1 DEF NoCancel
<1>3. cancel.pc = "idle"
  BY DEF CancelAtSteam
<1> QED BY <1>2, <1>3 DEF CancelAtSteam, MarketInv

\* A restart ends what is under way and changes nothing at Steam.
LEMMA RestartStep ==
  ASSUME MarketInv, Restart
  PROVE  /\ MarketInv' /\ UNCHANGED <<live, made, conf, ledger, clock>>
         /\ sync' = NoSync /\ cancel' = NoCancel
         /\ \A p \in Placements :
              \/ pl'[p] = pl[p] /\ pl[p].pc \in {"idle", "done"}
              \/ pl'[p].pc = "done" /\ pl'[p].ok = FALSE /\ pl'[p].prior = Unread /\ pl[p].pc \notin {"idle", "done"}
<1>1. pl' = [p \in Placements |-> IF pl[p].pc \in {"idle", "done"} THEN pl[p] ELSE Dead]
  BY DEF Restart, Dead
<1>2. \A p \in Placements : Shaped(p, Dead)
  BY DeadFields, EndedIsShaped
<1>3. /\ NoSync \in [pc : {"idle", "pulling"}, since : Nat, pulled : Pulls] /\ NoSync.since = 0
      /\ NoCancel \in [pc : {"idle", "granted"}, order : Orders \cup {None}]
  BY DEF NoSync, NoCancel, Pulls
<1>4. ASSUME NEW p \in Placements
      PROVE  IF pl[p].pc \in {"idle", "done"} THEN pl'[p] = pl[p] ELSE pl'[p] = Dead
  BY <1>1
<1>5. pl' \in [Placements -> Placement] /\ \A p \in Placements : Shaped(p, pl'[p])
  BY <1>1, <1>2, <1>4, DeadFields DEF MarketInv
<1>6. MarketInv'
  BY <1>3, <1>5 DEF Restart, MarketInv
<1> QED BY <1>4, <1>6, DeadFields DEF Restart

-----------------------------------------------------------------------------
(* Types, and records that do not come back.                                *)
LEMMA MarketStep == MarketInv /\ [Next]_vars => MarketInv'
<1> SUFFICES ASSUME MarketInv, [Next]_vars PROVE MarketInv'
  OBVIOUS
<1>1. CASE UNCHANGED vars
  BY <1>1 DEF vars, MarketInv
<1> QED BY <1>1, BeginStep, CreateStep, CreatedStep, FindStep, AcceptStep, ResendStep, ResentStep, WorldStep,
           SyncStep, CancelStep, RestartStep DEF Next, Place

LEMMA MarketStarts == Init => MarketInv
<1> SUFFICES ASSUME Init PROVE MarketInv
  OBVIOUS
<1>1. /\ NoSync \in [pc : {"idle", "pulling"}, since : Nat, pulled : Pulls] /\ NoSync.since = 0
      /\ NoCancel \in [pc : {"idle", "granted"}, order : Orders \cup {None}]
  BY DEF NoSync, NoCancel, Pulls
<1>2. \A p \in Placements : Shaped(p, Idle)
  BY IdleFields, EmptyAnswer DEF Shaped
<1> QED BY <1>1, <1>2, IdleFields, MarketAssumption DEF Init, MarketInv

\* Types: whatever requests run at the same time and whatever Steam answers,
\* the ledger and the placements under way (market/index.ts) are well formed,
\* and no loop of the confirmation goes past its number of attempts.
THEOREM MarketTypeCorrect == Spec => []MarketTypeOK
<1>1. MarketInv => MarketTypeOK
  BY DEF MarketInv, MarketTypeOK, Shaped, Pulls
<1> QED BY <1>1, MarketStarts, MarketStep, PTL DEF Spec

\* A record is written once, by its placement, as it ends.
LEMMA Leaving ==
  ASSUME MarketInv, NEW p \in Placements, pl[p].pc # "done", NEW o, Leaves(o), o # None => o[1] = p
  PROVE  \A s \in ledger' : s \in ledger \/ s.order[1] = p
  BY DEF Leaves

\* No step writes a record of a placement that has ended.
LEMMA RecordsStay ==
  ASSUME MarketInv, [Next]_vars
  PROVE  \A p \in Placements : pl[p].pc = "done" /\ ~Recorded(p) => ~Recorded(p)'
<1>1. ASSUME \A s \in ledger' : \E r \in ledger : r.order = s.order
      PROVE  \A p \in Placements : ~Recorded(p) => ~Recorded(p)'
  BY <1>1 DEF Recorded
<1>2. ASSUME NEW q \in Placements, Begin(q) \/ Place(q)
      PROVE  \A p \in Placements : pl[p].pc = "done" /\ ~Recorded(p) => ~Recorded(p)'
  <2>1. /\ pl[q].first.id # None => pl[q].first.id[1] = q
        /\ pl[q].again.id # None => pl[q].again.id[1] = q
    BY OwnIsAnOrder DEF MarketInv, Shaped
  <2>2. pl[q].pc # "done" /\ \/ UNCHANGED ledger
                             \/ \E o : Leaves(o) /\ (o # None => o[1] = q)
    BY <1>2, <2>1, BeginStep, CreateStep, CreatedStep, FindStep, AcceptStep, ResendStep, ResentStep DEF Place, GivesUp
  <2>3. \A s \in ledger' : s \in ledger \/ s.order[1] = q
    BY <2>2, Leaving
  <2> QED BY <2>2, <2>3 DEF Recorded
<1>3. CASE UNCHANGED ledger
  BY <1>1, <1>3
<1>4. CASE ~\E q \in Placements : Begin(q) \/ Place(q)
  <2>1. UNCHANGED ledger \/ Fewer
    BY <1>4, WorldStep, SyncStep, CancelStep, RestartStep DEF Next, vars
  <2> QED BY <1>1, <1>3, <2>1 DEF Fewer
<1> QED BY <1>2, <1>4

\* A record that has left the ledger does not come back: addBuyOrder,
\* removeBuyOrder and reconcile of ledger.ts read the file anew and write it
\* without an await, so none of them writes back a list read earlier.
THEOREM RecordsStayAway == Spec => RemovedStaysRemoved
<1>1. MarketInv /\ [Next]_vars => [\A p \in Placements : pl[p].pc = "done" /\ ~Recorded(p) => ~Recorded(p)']_vars
  BY RecordsStay
<1> QED BY <1>1, MarketStarts, MarketStep, PTL DEF Spec, RemovedStaysRemoved

-----------------------------------------------------------------------------
(* The confirmation of an order.  It is new when the list is read for it:   *)
(* nothing of the order was there when the confirmations before it were     *)
(* noted.                                                                   *)
Fresh ==
  \A p \in Placements :
    /\ pl[p].pc \in {"idle", "create"} => conf[Own(p)] = "absent"
    /\ pl[p].prior # Unread => Own(p) \notin pl[p].prior

\* What happens to the confirmations of a placement while it waits to begin.
Untouched(p) == conf[Own(p)] = "absent" => conf'[Own(p)] = "absent"

\* The order of another placement leaves the confirmations of this one alone.
LEMMA OtherOrders ==
  ASSUME MarketInv, NEW p \in Placements, NEW o \in Orders, o[1] # p, MakesIt(o) \/ HoldsIt(o)
  PROVE  Untouched(p) /\ conf'[Own(p)] = conf[Own(p)] /\ made'[p] = made[p]
<1>1. o # Own(p) /\ o \in Items /\ Own(p) \in Items /\ o[1] \in Placements
  BY OwnIsAnOrder, OrdersHaveOwners DEF Own
<1> QED BY <1>1 DEF MakesIt, HoldsIt, Untouched, MarketInv

\* Nothing puts up a confirmation for a placement that has not submitted.
LEMMA WaitingIsUntouched ==
  ASSUME MarketInv, [Next]_vars, NEW p \in Placements,
         \A q \in Placements : (Create(q) \/ Resend(q)) => q # p
  PROVE  Untouched(p)
<1>1. Own(p) \in Items /\ Own(p) \notin Trades
  BY OwnIsAnOrder, MarketNames
<1>2. CASE UNCHANGED conf
  BY <1>2 DEF Untouched
<1>3. ASSUME NEW q \in Placements, Create(q) \/ Resend(q) PROVE Untouched(p)
  <2>1. UNCHANGED conf \/ \E o \in Orders : o[1] = q /\ (MakesIt(o) \/ HoldsIt(o))
    BY <1>3, CreateStep, ResendStep, OwnIsAnOrder DEF SentAgain
  <2> QED BY <1>2, <1>3, <2>1, OtherOrders
<1>4. ASSUME NEW q \in Placements, Accept(q) PROVE Untouched(p)
  BY <1>1, <1>4, AcceptStep DEF Untouched, MarketInv
<1>5. ASSUME NEW i \in Items, ConfirmationAppears(i) \/ HandledInApp(i) PROVE Untouched(p)
  BY <1>1, <1>5 DEF ConfirmationAppears, HandledInApp, Untouched, MarketInv
<1>6. ASSUME NEW t \in Trades, TradeWaits(t) PROVE Untouched(p)
  BY <1>1, <1>6 DEF TradeWaits, Untouched, MarketInv
<1>7. ASSUME NEW q \in Placements, Begin(q) \/ Created(q) \/ FindConfirmation(q) \/ Resent(q) PROVE Untouched(p)
  BY <1>2, <1>7, BeginStep, CreatedStep, FindStep, ResentStep
<1>8. CASE \/ \E o \in Orders : OrderGone(o)
           \/ \E r \in ledger : CancelAtSteam(r)
           \/ SyncStart \/ SyncFinish \/ Cancelled \/ (\E a \in Accounts : Pull(a))
           \/ Tick \/ Restart \/ UNCHANGED vars
  BY <1>2, <1>8, SyncStep, CancelStep, RestartStep DEF OrderGone, Tick, vars
<1> QED BY <1>3, <1>4, <1>5, <1>6, <1>7, <1>8 DEF Next, Place

LEMMA FreshStep == MarketInv /\ Fresh /\ [Next]_vars => Fresh'
<1> SUFFICES ASSUME MarketInv, Fresh, [Next]_vars, NEW p \in Placements
             PROVE  /\ pl'[p].pc \in {"idle", "create"} => conf'[Own(p)] = "absent"
                    /\ pl'[p].prior # Unread => Own(p) \notin pl'[p].prior
  BY DEF Fresh
<1>1. ASSUME Create(p) \/ Resend(p)
      PROVE  pl'[p].pc \notin {"idle", "create"} /\ pl'[p].prior \in {pl[p].prior, Unread}
  BY <1>1, CreateStep, ResendStep DEF GivesUp
<1>2. CASE Create(p) \/ Resend(p)
  BY <1>1, <1>2 DEF Fresh
<1>3. CASE ~(Create(p) \/ Resend(p))
  <2>1. Untouched(p)
    BY <1>3, WaitingIsUntouched
  <2>2. CASE Begin(p)
    <3>1. pl'[p].prior # Unread => conf[Own(p)] # "absent" \/ Own(p) \notin pl'[p].prior
      BY <2>2, BeginStep DEF Snapshot, Listed
    <3> QED BY <2>1, <2>2, <3>1, BeginStep DEF Fresh, Untouched
  <2>3. CASE Created(p) \/ FindConfirmation(p) \/ Accept(p) \/ Resent(p)
    <3>1. pl'[p].pc \notin {"idle", "create"} /\ pl'[p].prior \in {pl[p].prior, Unread}
      BY <2>3, CreatedStep, FindStep, AcceptStep, ResentStep DEF GivesUp, MarketInv, Shaped
    <3> QED BY <3>1 DEF Fresh
  <2>4. CASE ~(Begin(p) \/ Place(p))
    <3>1. pl'[p] = pl[p] \/ (pl'[p].pc = "done" /\ pl'[p].prior = Unread)
      BY <2>4, BeginStep, CreateStep, CreatedStep, FindStep, AcceptStep, ResendStep, ResentStep, WorldStep,
           SyncStep, CancelStep, RestartStep DEF Next, Place, Others, vars
    <3> QED BY <2>1, <3>1 DEF Fresh, Untouched
  <2> QED BY <1>3, <2>2, <2>3, <2>4 DEF Place
<1> QED BY <1>2, <1>3

LEMMA FreshStarts == Init => Fresh
  BY OwnIsAnOrder, IdleFields DEF Init, Fresh

\* The list of confirmations is finite, so that there may be only one.
LEMMA ItemsAreFinite == IsFiniteSet(Items)
<1>1. IsFiniteSet(1 .. RESEND_ATTEMPTS + 1)
  BY MarketAssumption, FS_Interval
<1>2. IsFiniteSet(Orders)
  BY <1>1, MarketNames, FS_Product DEF Orders
<1> QED BY <1>2, MarketNames, FS_Union DEF Items

\* The one that is taken is the order's own, when that is on the list.
LEMMA OwnIsPicked ==
  ASSUME Fresh, NEW p \in Placements, conf[Own(p)] = "listed", NEW i \in Picked(p)
  PROVE  i = Own(p)
<1>1. Own(p) \in Candidates(p)
  BY OwnIsAnOrder, MarketNames DEF Fresh, Candidates, Listed, OwnerOf
<1>2. CASE Identified(p) # {}
  BY <1>2 DEF Picked, Identified, Own
<1>3. CASE Cardinality(Candidates(p)) = 1 /\ i \in Candidates(p)
  <2>1. IsFiniteSet(Candidates(p))
    BY ItemsAreFinite, FS_Subset DEF Candidates, Listed
  <2>2. PICK one : Candidates(p) = {one}
    BY <1>3, <2>1, FS_Singleton
  <2> QED BY <1>1, <1>3, <2>2
<1> QED BY <1>2, <1>3 DEF Picked

\* When the confirmation of the order is on the list, confirmBuyOrder
\* (confirmations.ts) takes it and no other.  This holds although the first
\* snapshot may have failed and other orders may be waiting.
THEOREM OwnConfirmationIsTaken == Spec => OwnConfirmationFirst
<1> DEFINE Taken == \A p \in Placements :
                      pl[p].pc = "list" /\ pl'[p].pc = "accept" /\ conf[<<p, 1>>] = "listed"
                        => pl'[p].item = <<p, 1>>
<1>1. ASSUME MarketInv, Fresh, [Next]_vars PROVE Taken
  <2> SUFFICES ASSUME NEW p \in Placements, pl[p].pc = "list", pl'[p].pc = "accept", conf[<<p, 1>>] = "listed"
               PROVE  pl'[p].item = <<p, 1>>
    OBVIOUS
  <2>1. FindConfirmation(p)
    BY <1>1, BeginStep, CreateStep, CreatedStep, FindStep, AcceptStep, ResendStep, ResentStep, WorldStep,
           SyncStep, CancelStep, RestartStep DEF Next, Place, Others, vars
  <2>2. pl'[p].item \in Picked(p)
    BY <1>1, <2>1, FindStep DEF GivesUp
  <2> QED BY <1>1, <2>2, OwnIsPicked DEF Own
<1>2. MarketInv /\ Fresh /\ [Next]_vars => [Taken]_vars
  BY <1>1
<1> QED BY <1>2, MarketStarts, MarketStep, FreshStarts, FreshStep, PTL DEF Spec, OwnConfirmationFirst

-----------------------------------------------------------------------------
(* One order for each placement, when every confirmation Steam asks for has *)
(* an id to send it again with.                                             *)
Pending(x) ==
  \/ x.pc \in {"list", "accept", "resend"}
  \/ x.pc = "created" /\ x.first.needs
  \/ x.pc = "resent" /\ x.again.id = None

\* An order is made by the first request, by the user, or by the request that
\* is sent again; whoever makes it, nobody makes it after that.
AtSteam(p) ==
  /\ made[p] \in {0, 1}
  /\ conf[Own(p)] \in {"coming", "listed"} => made[p] = 0
  /\ \A o \in Orders : o[1] = p =>
       /\ o # Own(p) => conf[o] = "absent"
       /\ o \in live => o = Own(p) /\ made[p] = 1
AtHome(p) ==
  /\ pl[p].pc \in {"idle", "create"} => conf[Own(p)] = "absent" /\ made[p] = 0
  /\ Pending(pl[p]) /\ made[p] = 1 => conf[Own(p)] = "handled"
  /\ Pending(pl[p]) \/ pl[p].pc = "resent" => pl[p].first.confId # None
  /\ pl[p].pc = "created" /\ ~pl[p].first.needs => pl[p].first.id = Own(p) /\ made[p] = 1
  /\ pl[p].pc = "resent" /\ pl[p].again.id # None => pl[p].again.id = Own(p) /\ made[p] = 1
  /\ pl[p].ok => pl[p].order = Own(p) /\ made[p] = 1
OneEach == \A p \in Placements : AtSteam(p) /\ AtHome(p)

\* What the others, the user and Steam do to the order of a placement.
Follows(p) ==
  /\ \/ made'[p] = made[p] /\ conf'[Own(p)] = conf[Own(p)]
     \/ made'[p] = made[p] /\ conf[Own(p)] = "coming" /\ conf'[Own(p)] = "listed"
     \/ made'[p] = made[p] /\ conf[Own(p)] = "listed" /\ conf'[Own(p)] \in {"allowed", "handled"}
     \/ made[p] = 0 /\ made'[p] = 1 /\ conf[Own(p)] = "listed" /\ conf'[Own(p)] = "handled"
  /\ \A o \in Orders : o[1] = p =>
       /\ o # Own(p) => conf'[o] = "absent"
       /\ o \in live' => o \in live \/ (o = Own(p) /\ made[p] = 0 /\ made'[p] = 1)

\* Such a step leaves a placement with one order at most.
LEMMA FollowsKeeps == ASSUME OneEach, NEW p \in Placements, Follows(p) PROVE AtSteam(p)'
  BY DEF OneEach, AtSteam, Follows

\* No step but its own creates the order of a placement in another way.
LEMMA Following ==
  ASSUME MarketInv, OneEach, [Next]_vars, NEW p \in Placements,
         \A q \in Placements : (Create(q) \/ Resend(q)) => q # p
  PROVE  Follows(p)
<1>1. Own(p) \in Orders /\ Own(p) \in Items /\ Own(p)[1] = p /\ \A o \in Orders : o \in Items /\ o \notin Trades
  BY OwnIsAnOrder, OrdersHaveOwners, MarketNames
<1>2. \A o \in Orders : o[1] = p => /\ o # Own(p) => conf[o] = "absent"
                                    /\ o \in live => o = Own(p) /\ made[p] = 1
  BY DEF OneEach, AtSteam
<1>3. CASE UNCHANGED <<conf, made>> /\ live' \subseteq live
  BY <1>2, <1>3 DEF Follows
<1>4. ASSUME NEW q \in Placements, Create(q) \/ Resend(q) PROVE Follows(p)
  <2>1. UNCHANGED <<live, made, conf>> \/ \E o \in Orders : o[1] = q /\ (MakesIt(o) \/ HoldsIt(o))
    BY <1>4, CreateStep, ResendStep, OwnIsAnOrder DEF SentAgain
  <2>2. ASSUME NEW n \in Orders, n[1] = q, MakesIt(n) \/ HoldsIt(n) PROVE Follows(p)
    <3>1. q # p /\ n \in Items
      BY <1>1, <1>4
    <3>2. made'[p] = made[p] /\ \A o \in Orders : o[1] = p => conf'[o] = conf[o] /\ (o \in live' => o \in live)
      BY <1>1, <2>2, <3>1 DEF MakesIt, HoldsIt, MarketInv
    <3> QED BY <1>1, <1>2, <3>2 DEF Follows
  <2> QED BY <1>3, <2>1, <2>2
<1>5. ASSUME NEW i \in Items, conf[i] \in {"coming", "listed"}, NEW s \in {"listed", "allowed", "handled"},
             conf' = [conf EXCEPT ![i] = s], UNCHANGED <<live, made>>,
             conf[i] = "coming" => s = "listed", conf[i] = "listed" => s # "listed"
      PROVE  Follows(p)
  <2>1. \A o \in Orders : conf'[o] = IF o = i THEN s ELSE conf[o]
    BY <1>1, <1>5 DEF MarketInv
  <2>2. \A o \in Orders : o[1] = p /\ o # Own(p) => conf'[o] = "absent"
    BY <1>2, <1>5, <2>1
  <2> QED BY <1>1, <1>2, <1>5, <2>1, <2>2 DEF Follows
<1>6. ASSUME NEW i \in Items, HandledInApp(i) PROVE Follows(p)
  <2>1. conf[i] = "listed" /\ conf' = [conf EXCEPT ![i] = "handled"]
    BY <1>6 DEF HandledInApp
  <2>2. CASE i \in Orders /\ Made(i)
    <3>1. i[1] \in Placements /\ live' = live \cup {i} /\ made' = [made EXCEPT ![i[1]] = @ + 1]
      BY <2>2, OrdersHaveOwners DEF Made
    <3>2. CASE i = Own(p)
      <4>1. made[p] = 0 /\ made'[p] = 1
        BY <1>1, <2>1, <3>1, <3>2 DEF OneEach, AtSteam, MarketInv
      <4> QED BY <1>1, <1>2, <2>1, <3>1, <3>2, <4>1 DEF Follows, MarketInv
    <3>3. CASE i # Own(p)
      <4>1. i[1] # p
        BY <1>2, <2>1, <2>2, <3>3
      <4>2. made'[p] = made[p] /\ \A o \in Orders : o[1] = p => conf'[o] = conf[o] /\ (o \in live' => o \in live)
        BY <1>1, <2>1, <3>1, <4>1 DEF MarketInv
      <4> QED BY <1>1, <1>2, <4>2 DEF Follows
    <3> QED BY <3>2, <3>3
  <2>3. CASE NothingMade
    BY <1>5, <2>1, <2>3 DEF NothingMade
  <2> QED BY <1>6, <2>2, <2>3 DEF HandledInApp
<1>7. ASSUME NEW i \in Items, ConfirmationAppears(i) PROVE Follows(p)
  BY <1>5, <1>7 DEF ConfirmationAppears
<1>8. ASSUME NEW q \in Placements, Accept(q) PROVE Follows(p)
  <2>1. pl[q].item \in Items
    BY <1>8, AcceptStep DEF MarketInv, Shaped
  <2> QED BY <1>3, <1>5, <1>8, <2>1, AcceptStep
<1>9. ASSUME NEW t \in Trades, TradeWaits(t) PROVE Follows(p)
  <2>1. made' = made /\ live' = live /\ \A o \in Orders : conf'[o] = conf[o]
    BY <1>1, <1>9 DEF TradeWaits, MarketInv
  <2> QED BY <1>1, <1>2, <2>1 DEF Follows
<1>10. ASSUME NEW q \in Placements, Begin(q) \/ Created(q) \/ FindConfirmation(q) \/ Resent(q) PROVE Follows(p)
  BY <1>3, <1>10, BeginStep, CreatedStep, FindStep, ResentStep
<1>11. CASE \/ \E o \in Orders : OrderGone(o)
            \/ \E r \in ledger : CancelAtSteam(r)
            \/ SyncStart \/ SyncFinish \/ Cancelled \/ (\E a \in Accounts : Pull(a))
            \/ Tick \/ Restart \/ UNCHANGED vars
  BY <1>3, <1>11, SyncStep, CancelStep, RestartStep DEF OrderGone, Tick, vars
<1> QED BY <1>4, <1>6, <1>7, <1>8, <1>9, <1>10, <1>11 DEF Next, Place

\* The steps of the placement itself: it asks for its order once.
LEMMA OwnStep ==
  ASSUME MarketInv, OneEach, None \notin ConfIds, NEW p \in Placements, Begin(p) \/ Place(p)
  PROVE  AtSteam(p)' /\ AtHome(p)'
<1>1. /\ Own(p) \in Orders /\ Own(p) \in Items /\ Own(p)[1] = p /\ Own(p) # None
      /\ \A o \in Orders : o \in Items
  BY OwnIsAnOrder, OrdersHaveOwners, MarketNames
<1>2. AtSteam(p) /\ AtHome(p) /\ Shaped(p, pl[p])
  BY DEF OneEach, MarketInv
<1>3. CASE Create(p) \/ Resend(p)
  <2>1. made[p] = 0 \/ conf[Own(p)] = "handled"
    BY <1>2, <1>3, CreateStep, ResendStep DEF AtSteam, AtHome, Pending
  <2>2. ASSUME UNCHANGED <<live, made, conf>> PROVE AtSteam(p)'
    BY <1>2, <2>2 DEF AtSteam
  <2>3. ASSUME MakesIt(Own(p)), made[p] = 0, conf[Own(p)] \in {"absent", "allowed"} PROVE AtSteam(p)'
    <3>1. made'[p] = 1
      BY <1>1, <2>3 DEF MakesIt, MarketInv
    <3> QED BY <1>1, <1>2, <2>3, <3>1 DEF AtSteam, MakesIt
  <2>4. ASSUME HoldsIt(Own(p)), made[p] = 0 PROVE AtSteam(p)'
    BY <1>1, <1>2, <2>4 DEF AtSteam, HoldsIt, MarketInv
  <2>5. CASE Create(p)
    <3>1. AtSteam(p)'
      BY <1>2, <2>2, <2>3, <2>4, <2>5, CreateStep DEF AtHome
    <3>2. made[p] = 0 /\ (MakesIt(Own(p)) => made'[p] = 1) /\ (HoldsIt(Own(p)) => made'[p] = 0)
      <4>1. made[p] = 0
        BY <1>2, <2>5, CreateStep DEF AtHome
      <4> QED BY <1>1, <4>1 DEF MakesIt, HoldsIt, MarketInv
    <3>3. ASSUME pl'[p].pc = "created" PROVE AtHome(p)'
      <4>1. /\ pl'[p].ok = FALSE
            /\ \/ made'[p] = 1 /\ ~pl'[p].first.needs /\ pl'[p].first.id = Own(p)
               \/ made'[p] = 0 /\ pl'[p].first.needs /\ pl'[p].first.confId # None
        BY <2>5, <3>2, <3>3, CreateStep
      <4> QED BY <3>3, <4>1 DEF AtHome, Pending
    <3>4. ASSUME pl'[p].pc = "done" PROVE AtHome(p)'
      BY <2>5, <3>4, CreateStep DEF AtHome, Pending
    <3> QED BY <2>5, <3>1, <3>3, <3>4, CreateStep
  <2>6. CASE Resend(p)
    <3>1. pl[p].first.confId # None /\ pl[p].pc = "resend"
      BY <1>2, <2>6, ResendStep DEF AtHome, Pending
    <3>2. \A id : SentAgain(p, id) => \/ (MakesIt(Own(p)) /\ id = Own(p) /\ conf[Own(p)] = "allowed")
                                      \/ (UNCHANGED <<live, made, conf>> /\ id = None)
      BY <3>1 DEF SentAgain
    <3>3. AtSteam(p)'
      BY <2>1, <2>2, <2>3, <2>6, <3>2, ResendStep
    <3>4. ASSUME pl'[p].pc = "done", pl'[p].ok = FALSE PROVE AtHome(p)'
      BY <3>4 DEF AtHome, Pending
    <3>5. ASSUME pl'[p].pc = "resent", pl'[p].ok = FALSE, pl'[p].first = pl[p].first, SentAgain(p, pl'[p].again.id)
          PROVE  AtHome(p)'
      <4>1. ASSUME MakesIt(Own(p)), conf[Own(p)] = "allowed" PROVE made'[p] = 1
        BY <1>1, <2>1, <4>1 DEF MakesIt, MarketInv
      <4> QED BY <1>1, <2>1, <3>1, <3>2, <3>5, <4>1 DEF AtHome, Pending
    <3>6. AtHome(p)'
      BY <2>6, <3>4, <3>5, ResendStep DEF GivesUp
    <3> QED BY <3>3, <3>6
  <2> QED BY <1>3, <2>5, <2>6
<1>4. CASE ~(Create(p) \/ Resend(p))
  <2>1. Next /\ \A q \in Placements : (Create(q) \/ Resend(q)) => q # p
    BY <1>4 DEF Next
  <2>2. Follows(p)
    BY <2>1, Following
  <2>3. AtSteam(p)'
    BY <2>2, FollowsKeeps
  <2>4. ASSUME Accept(p) PROVE AtHome(p)'
    BY <1>2, <2>2, <2>4, AcceptStep DEF AtHome, Pending, GivesUp, Follows
  <2>5. ASSUME Begin(p) PROVE AtHome(p)'
    BY <1>2, <2>5, BeginStep DEF AtHome, Pending
  <2>6. ASSUME Created(p) PROVE AtHome(p)'
    BY <1>2, <2>6, CreatedStep DEF AtHome, Pending
  <2>7. ASSUME FindConfirmation(p) PROVE AtHome(p)'
    BY <1>2, <2>7, FindStep DEF AtHome, Pending, GivesUp
  <2>8. ASSUME Resent(p) PROVE AtHome(p)'
    BY <1>2, <2>8, ResentStep DEF AtHome, Pending, GivesUp
  <2> QED BY <1>4, <2>3, <2>4, <2>5, <2>6, <2>7, <2>8 DEF Place
<1> QED BY <1>3, <1>4

\* What a step leaves of a placement that does not make it.
LEMMA NotOwnStep ==
  ASSUME MarketInv, [Next]_vars, NEW p \in Placements, ~(Begin(p) \/ Place(p))
  PROVE  \/ pl'[p] = pl[p]
         \/ pl'[p].pc = "done" /\ pl'[p].ok = FALSE /\ pl[p].pc # "done"
  BY BeginStep, CreateStep, CreatedStep, FindStep, AcceptStep, ResendStep, ResentStep, WorldStep,
     SyncStep, CancelStep, RestartStep DEF Next, Place, Others, vars

LEMMA OneEachStep ==
  ASSUME None \notin ConfIds, MarketInv, OneEach, [Next]_vars PROVE OneEach'
<1> SUFFICES ASSUME NEW p \in Placements PROVE AtSteam(p)' /\ AtHome(p)'
  BY DEF OneEach
<1>1. CASE Begin(p) \/ Place(p)
  BY <1>1, OwnStep
<1>2. CASE ~(Begin(p) \/ Place(p))
  <2>1. \A q \in Placements : (Create(q) \/ Resend(q)) => q # p
    BY <1>2 DEF Place
  <2>2. Follows(p)
    BY <2>1, Following
  <2>3. AtHome(p)'
    BY <1>2, <2>2, NotOwnStep DEF OneEach, AtHome, AtSteam, Pending, Follows
  <2> QED BY <2>2, <2>3, FollowsKeeps
<1> QED BY <1>1, <1>2

LEMMA OneEachStarts == Init => OneEach
<1> SUFFICES ASSUME Init, NEW p \in Placements PROVE AtSteam(p) /\ AtHome(p)
  BY DEF OneEach
<1>1. Own(p) \in Items /\ pl[p] = Idle /\ made[p] = 0 /\ live = {} /\ \A o \in Orders : conf[o] = "absent"
  BY OwnIsAnOrder, OrdersHaveOwners DEF Init
<1>2. conf[Own(p)] = "absent"
  BY <1>1, OwnIsAnOrder
<1> QED BY <1>1, <1>2, IdleFields DEF AtSteam, AtHome, Pending

\* A placement makes at most one order, however often createbuyorder is sent
\* again (placeForAccount of market/index.ts): the first answer of a held back
\* order carries the number of its confirmation, so that the repetition is no
\* new submission.  Without that number it would be one (see the README).
THEOREM OneOrderForEach ==
  ASSUME None \notin ConfIds
  PROVE  Spec => []OneOrderEach
<1>1. MarketInv /\ OneEach /\ [Next]_vars => OneEach'
  BY OneEachStep
<1>2. OneEach => OneOrderEach
  BY DEF OneEach, AtSteam, OneOrderEach
<1> QED BY <1>1, <1>2, MarketStarts, MarketStep, OneEachStarts, PTL DEF Spec

-----------------------------------------------------------------------------
(* No order in force is lost from the ledger: what is taken from it is not  *)
(* in force any more, and does not come into force again.                   *)
Pulled(a) == sync.pulled[a]
CancelHeld ==
  cancel.pc = "granted" =>
    /\ cancel.order \in Orders
    /\ pl[cancel.order[1]].pc = "done"
    /\ pl[cancel.order[1]].ok => cancel.order \notin live
\* A list that was pulled has every order in force that is older than the pull.
PullHeld(r) ==
  sync.pc = "pulling" /\ r.at < sync.since /\ pl[r.order[1]].ok /\ r.order \in live =>
    \/ Pulled(AccountOf[r.order[1]]) \in {None, Unread}
    \/ r.order \in Pulled(AccountOf[r.order[1]])
Held ==
  /\ \A r \in ledger : pl[r.order[1]].pc = "done" /\ PullHeld(r)
  /\ CancelHeld
  /\ LedgerKeepsLive

LEMMA DoneStays ==
  ASSUME MarketInv, [Next]_vars, NEW p \in Placements, pl[p].pc = "done"
  PROVE  pl'[p] = pl[p] /\ ~(Begin(p) \/ Place(p))
<1>1. ~(Begin(p) \/ Place(p))
  BY BeginStep, CreateStep, CreatedStep, FindStep, AcceptStep, ResendStep, ResentStep DEF Place
<1> QED BY <1>1, NotOwnStep

\* An order that was reported is not made again.
LEMMA NotMadeAgain ==
  ASSUME MarketInv, OneEach, [Next]_vars, NEW o \in Orders, pl[o[1]].pc = "done", pl[o[1]].ok, o \in live'
  PROVE  o \in live
<1>1. o[1] \in Placements
  BY OrdersHaveOwners
<1>2. \A q \in Placements : (Create(q) \/ Resend(q)) => q # o[1]
  BY <1>1, DoneStays DEF Place
<1>3. made[o[1]] = 1
  BY <1>1 DEF OneEach, AtHome
<1> QED BY <1>1, <1>2, <1>3, Following DEF Follows

LEMMA CancelHolds ==
  ASSUME MarketInv, OneEach, Held, [Next]_vars PROVE CancelHeld'
<1>1. CASE cancel' = cancel
  <2> SUFFICES ASSUME cancel.pc = "granted"
               PROVE  /\ cancel.order \in Orders /\ pl'[cancel.order[1]].pc = "done"
                      /\ pl'[cancel.order[1]].ok => cancel.order \notin live'
    BY <1>1 DEF CancelHeld
  <2>1. cancel.order \in Orders /\ cancel.order[1] \in Placements
    BY OrdersHaveOwners DEF Held, CancelHeld
  <2> QED BY <2>1, DoneStays, NotMadeAgain DEF Held, CancelHeld
<1>2. ASSUME NEW r \in ledger, CancelAtSteam(r) PROVE CancelHeld'
  <2>1. r.order \in Orders /\ pl[r.order[1]].pc = "done"
    BY DEF Held, MarketInv, Record
  <2> QED BY <1>2, <2>1, CancelStep DEF CancelHeld
<1>3. CASE cancel' = NoCancel
  BY <1>3 DEF CancelHeld, NoCancel
<1>4. cancel' = cancel \/ cancel' = NoCancel \/ \E r \in ledger : CancelAtSteam(r)
  BY BeginStep, CreateStep, CreatedStep, FindStep, AcceptStep, ResendStep, ResentStep, WorldStep, RestartStep
  DEF Next, Place, vars, Cancelled, SyncStart, SyncFinish, Pull
<1> QED BY <1>1, <1>2, <1>3, <1>4

\* Where the records of the ledger come from.
LEMMA RecordsComeFrom ==
  ASSUME MarketInv, [Next]_vars, NEW s \in ledger'
  PROVE  \/ \E r \in ledger : r.order = s.order /\ r.at = s.at
         \/ /\ s.order[1] \in Placements /\ pl[s.order[1]].pc # "done" /\ pl'[s.order[1]].pc = "done"
            /\ s.at = clock /\ UNCHANGED sync
<1>1. ASSUME NEW q \in Placements, Begin(q) \/ Place(q)
      PROVE  \/ s \in ledger
             \/ s.order[1] = q /\ pl[q].pc # "done" /\ pl'[q].pc = "done" /\ s.at = clock /\ UNCHANGED sync
  <2>1. /\ pl[q].first.id # None => pl[q].first.id[1] = q
        /\ pl[q].again.id # None => pl[q].again.id[1] = q
    BY OwnIsAnOrder DEF MarketInv, Shaped
  <2>2. \/ UNCHANGED ledger
        \/ /\ \E o : Leaves(o) /\ (o # None => o[1] = q)
           /\ pl[q].pc # "done" /\ pl'[q].pc = "done" /\ UNCHANGED sync
    BY <1>1, <2>1, BeginStep, CreateStep, CreatedStep, FindStep, AcceptStep, ResendStep, ResentStep DEF Place, GivesUp
  <2> QED BY <2>2 DEF Leaves
<1>2. CASE ~\E q \in Placements : Begin(q) \/ Place(q)
  <2>1. UNCHANGED ledger \/ Fewer
    BY <1>2, WorldStep, SyncStep, CancelStep, RestartStep DEF Next, vars
  <2> QED BY <2>1 DEF Fewer
<1> QED BY <1>1, <1>2

LEMMA RecordsHold ==
  ASSUME MarketInv, OneEach, Held, [Next]_vars, NEW s \in ledger'
  PROVE  pl'[s.order[1]].pc = "done" /\ PullHeld(s)'
<1>0. s.order \in Orders /\ s.order[1] \in Placements /\ s.at \in Nat /\ clock \in Nat /\ sync.since \in Nat /\ sync.since <= clock
  <2>1. s \in Record
    BY MarketStep DEF MarketInv
  <2> QED BY <2>1, OrdersHaveOwners, MarketAssumption DEF Record, MarketInv
<1>1. ASSUME NEW r \in ledger, r.order = s.order, r.at = s.at
      PROVE  pl'[s.order[1]].pc = "done" /\ PullHeld(s)'
  <2>1. pl[s.order[1]].pc = "done" /\ pl'[s.order[1]] = pl[s.order[1]] /\ PullHeld(r)
    BY <1>0, <1>1, DoneStays DEF Held
  <2>2. CASE sync' = sync
    BY <1>0, <1>1, <2>1, <2>2, NotMadeAgain DEF PullHeld, Pulled
  <2>3. CASE SyncStart
    <3>1. sync'.pulled = [a \in Accounts |-> None] /\ AccountOf[s.order[1]] \in Accounts
      BY <1>0, <2>3, MarketAssumption DEF SyncStart, NoSync
    <3> QED BY <2>1, <3>1 DEF PullHeld, Pulled
  <2>4. ASSUME NEW a \in Accounts, Pull(a) PROVE PullHeld(s)'
    <3>1. PICK found \in {{o \in live : OwnerOf(o) = a}, Unread} : sync' = [sync EXCEPT !.pulled[a] = found]
      BY <2>4 DEF Pull
    <3>2. /\ sync.pulled \in Pulls /\ sync'.pc = sync.pc /\ sync'.since = sync.since
          /\ \A b \in Accounts : sync'.pulled[b] = IF b = a THEN found ELSE sync.pulled[b]
      BY <3>1 DEF MarketInv, Pulls
    <3>3. AccountOf[s.order[1]] \in Accounts /\ OwnerOf(s.order) = AccountOf[s.order[1]] /\ UNCHANGED live
      BY <1>0, <2>4, MarketAssumption, MarketNames DEF OwnerOf, Pull
    <3> QED BY <1>1, <2>1, <3>1, <3>2, <3>3 DEF PullHeld, Pulled
  <2>5. CASE sync' = NoSync
    BY <2>1, <2>5 DEF PullHeld, NoSync
  <2>6. sync' = sync \/ SyncStart \/ sync' = NoSync \/ \E a \in Accounts : Pull(a)
    BY BeginStep, CreateStep, CreatedStep, FindStep, AcceptStep, ResendStep, ResentStep, WorldStep, RestartStep, CancelStep
    DEF Next, Place, vars, Cancelled, SyncFinish
  <2> QED BY <2>1, <2>2, <2>3, <2>4, <2>5, <2>6
<1>2. ASSUME pl'[s.order[1]].pc = "done", s.at = clock, UNCHANGED sync
      PROVE  pl'[s.order[1]].pc = "done" /\ PullHeld(s)'
  BY <1>0, <1>2 DEF PullHeld
<1> QED BY <1>1, <1>2, RecordsComeFrom

LEMMA LedgerHolds ==
  ASSUME ~SaveFails, None \notin ConfIds, MarketInv, OneEach, Held, [Next]_vars PROVE LedgerKeepsLive'
<1> SUFFICES ASSUME NEW p \in Placements, pl'[p].ok, pl'[p].order \in live'
             PROVE  \E r \in ledger' : r.order = pl'[p].order
  BY DEF LedgerKeepsLive
<1>1. CASE pl[p].pc = "done"
  <2> DEFINE o == pl[p].order
  <2>1. pl'[p] = pl[p] /\ pl[p].ok /\ o = Own(p) /\ o \in Orders /\ o[1] = p
    BY <1>1, DoneStays, OwnIsAnOrder DEF OneEach, AtHome
  <2>2. o \in live
    BY <1>1, <2>1, NotMadeAgain
  <2>3. PICK r \in ledger : r.order = o
    BY <2>1, <2>2 DEF Held, LedgerKeepsLive
  <2> HIDE DEF o
  <2>4. CASE ledger \subseteq ledger'
    BY <2>1, <2>3, <2>4 DEF o
  <2>5. CASE Cancelled
    <3>1. ledger' = {x \in ledger : x.order # cancel.order} /\ cancel.pc = "granted"
      BY <2>5 DEF Cancelled, RemoveBuyOrder, Save
    <3>2. cancel.order # o
      BY <2>1, <2>2, <3>1 DEF Held, CancelHeld, o
    <3> QED BY <2>1, <2>3, <3>1, <3>2 DEF o
  <2>6. CASE SyncFinish
    <3>1. r \in Record /\ sync.pc = "pulling" /\ PullHeld(r) /\ r.at \in Nat /\ sync.since \in Nat
      BY <2>6, MarketAssumption DEF SyncFinish, Held, MarketInv, Record
    <3>2. KeptAsIs(r) \/ StillThere(r)
      BY <2>1, <2>2, <2>3, <3>1 DEF PullHeld, Pulled, KeptAsIs, StillThere, o
    <3>3. [r EXCEPT !.status = "active"].order = r.order
      BY <3>1 DEF Record
    <3>4. r \in ledger' \/ [r EXCEPT !.status = "active"] \in ledger'
      BY <2>6, <3>2 DEF SyncFinish, Reconcile, Save
    <3> QED BY <2>1, <2>3, <3>3, <3>4 DEF o
  <2>7. \/ ledger \subseteq ledger' \/ Cancelled \/ SyncFinish
    BY BeginStep, CreateStep, CreatedStep, FindStep, AcceptStep, ResendStep, ResentStep, WorldStep, RestartStep, CancelStep
    DEF Next, Place, vars, SyncStart, Pull, GivesUp, Leaves
  <2> QED BY <2>4, <2>5, <2>6, <2>7
<1>2. CASE pl[p].pc # "done"
  <2>1. pl'[p].order = Own(p) /\ pl'[p].order # None
    BY OneEachStep, OwnIsAnOrder, MarketNames DEF OneEach, AtHome
  <2>2. Begin(p) \/ Place(p)
    BY <1>2, NotOwnStep DEF MarketInv, Shaped
  <2>3. Leaves(pl'[p].order)
    BY <2>2, BeginStep, CreateStep, CreatedStep, FindStep, AcceptStep, ResendStep, ResentStep DEF Place, GivesUp
  <2> QED BY <2>1, <2>3 DEF Leaves
<1> QED BY <1>1, <1>2

LEMMA HeldStarts == Init => Held
  BY IdleFields DEF Init, Held, CancelHeld, LedgerKeepsLive, NoCancel

\* Every placement makes at most one order, and an order that was reported and
\* is in force is in the ledger, whatever reconciliations (market/ledger.ts)
\* and cancellations run meanwhile and wherever the process is restarted.  The
\* file of the ledger can be written: when writing fails, the record is lost.
THEOREM OrdersAreKept ==
  ASSUME ~SaveFails, None \notin ConfIds
  PROVE  Spec => []OrdersKept
<1>1. MarketInv /\ OneEach /\ Held /\ [Next]_vars => Held'
  BY CancelHolds, RecordsHold, LedgerHolds DEF Held
<1>2. MarketInv /\ OneEach /\ [Next]_vars => OneEach'
  BY OneEachStep
<1>3. OneEach /\ Held => OrdersKept
  BY DEF OneEach, AtSteam, OneOrderEach, Held, OrdersKept
<1> QED BY <1>1, <1>2, <1>3, MarketStarts, MarketStep, OneEachStarts, HeldStarts, PTL DEF Spec
=============================================================================
