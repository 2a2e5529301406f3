------------------------------- MODULE Terminal -------------------------------
(***************************************************************************)
(* CS2 terminals of one account: unsealing one and turning its offers      *)
(* down, both for good (src/terminal/), and the page for it                *)
(* (web/src/stores/terminal.ts).                                           *)
(*                                                                         *)
(* The game coordinator keeps the terminals.  What it is sent, and what it *)
(* tells the client, arrives in order and later.  Of an offer only its     *)
(* number in its terminal counts; the messages that carry it (terminal.ts  *)
(* and protocol.ts read them by hand) are events here: an offer appears,   *)
(* or is destroyed.                                                        *)
(***************************************************************************)
EXTENDS Integers, Sequences, FiniteSets

CONSTANTS
  Terminals,
  MaxPicks,      \* TERMINAL_MAX_PICKS
  Candidates,    \* ways to open a terminal that probe tries
  MaxClicks,     \* bound of the model: what the page asks, and restarts
  NoTerminal

\* Assumed of them.
TerminalConstants == NoTerminal \notin Terminals /\ {Candidates, MaxClicks} \subseteq Nat /\ MaxPicks \in Nat \ {0}

VARIABLES
  boxes,       \* at the coordinator: origin, picks used, offer (0: none)
  sent,        \* terminals to open, on their way to the coordinator
  news,        \* events on their way to the client
  items,       \* csgo.inventory: the terminals as last told, with their offer
  captured,    \* injectedSkins: by terminal, every offer that appeared
  advances,    \* calls of advanceOffer that wait: their terminals
  unseals,     \* calls of unseal of the page that wait
  probes,      \* calls of probe: terminal, candidates left, whether one worked
  history,     \* terminal-offers.json: by terminal, the offers revealed
  loads,       \* requests of the page for the state, with what they found
  version,     \* of the latest of them
  shown,       \* the page: by terminal, sealed and the offer it shows
  busyId,      \* the terminal the page works on
  clicks       \* bound of the model

terminalPage == <<unseals, loads, version, shown, busyId>>
terminalGame == <<boxes, sent, news, items, captured>>
terminalVars == <<terminalGame, probes, advances, history, terminalPage, clicks>>

Crate == [origin |-> "crate", used |-> 0, offer |-> 0]
Traded == [origin |-> "trade", used |-> 1, offer |-> 1]

TerminalClick == clicks < MaxClicks /\ clicks' = clicks + 1

-----------------------------------------------------------------------------
(***************************************************************************)
(* The coordinator.  Opening a sealed terminal unseals it; opening it      *)
(* again puts the next offer in the place of this one, if there is one.    *)
(***************************************************************************)
Opened(box) ==
  IF box.origin = "crate" THEN [box EXCEPT !.origin = "here"]
  ELSE [box EXCEPT !.used = @ + 1, !.offer = IF box.used < MaxPicks THEN box.used + 1 ELSE 0]

\* The old offer is destroyed before the new one appears.
Events(t, old, new) ==
  (IF old.offer = 0 THEN <<>> ELSE <<[of |-> t, box |-> [new EXCEPT !.offer = 0]]>>)
    \o <<[of |-> t, box |-> new]>>

CoordinatorOpens ==
  /\ sent # <<>> /\ sent' = Tail(sent)
  /\ LET t == Head(sent)
         box == Opened(boxes[t])
     IN IF boxes[t].used > MaxPicks THEN UNCHANGED <<boxes, news>>
        ELSE boxes' = [boxes EXCEPT ![t] = box] /\ news' = news \o Events(t, boxes[t], box)
  /\ UNCHANGED <<items, captured, probes, advances, history, terminalPage, clicks>>

\* onGc captures an offer that appears; the library keeps its inventory.
Captured(e) ==
  IF e.box.offer \in {0} \cup {captured[e.of][k] : k \in DOMAIN captured[e.of]} THEN captured
  ELSE [captured EXCEPT ![e.of] = Append(@, e.box.offer)]

NewsArrive ==
  /\ news # <<>> /\ news' = Tail(news)
  /\ items' = [items EXCEPT ![Head(news).of] = Head(news).box]
  /\ captured' = Captured(Head(news))
  /\ probes' = {[p EXCEPT !.hit = TRUE] : p \in probes}
  /\ UNCHANGED <<boxes, sent, advances, history, terminalPage, clicks>>

-----------------------------------------------------------------------------
(***************************************************************************)
(* The service.                                                            *)
(***************************************************************************)
\* collectSkins: what the inventory has in the terminal, or else what was
\* captured of it.
Offers(t) == IF items[t].offer # 0 THEN <<items[t].offer>> ELSE captured[t]

\* getState: an origin of its own, a pick or an expiry tells a terminal unsealed.
IsSealed(t) == ~(items[t].origin = "here" \/ items[t].used > 0)

State == [t \in Terminals |->
            [sealed |-> IsSealed(t),
             offer  |-> IF IsSealed(t) \/ Offers(t) = <<>> THEN 0 ELSE Head(Offers(t))]]

\* advanceOffer sends the opening if the terminal was unsealed here, by origin.
Advance(t) ==
  IF items[t].origin = "here"
  THEN sent' = Append(sent, t) /\ advances' = Append(advances, t) /\ busyId' = t
  ELSE UNCHANGED <<sent, advances, busyId>>

\* append: the offer is added, unless it is the last one already.
Appended(list, offer) ==
  IF list # <<>> /\ list[Len(list)] = offer THEN list ELSE Append(list, offer)

\* Some seconds later it takes the offers as they are then; the first one is
\* recorded, and goes to the page.
AdvanceEnds ==
  /\ advances # <<>> /\ advances' = Tail(advances)
  /\ LET t == Head(advances)
     IN IF Offers(t) = <<>> THEN UNCHANGED <<history, shown>>
        ELSE /\ history' = [history EXCEPT ![t] = Appended(@, Head(Offers(t)))]
             /\ shown' = [shown EXCEPT ![t].offer = Head(Offers(t))]
  /\ busyId' = NoTerminal
  /\ UNCHANGED <<terminalGame, probes, unseals, loads, version, clicks>>

\* probe tries one candidate after the other, until something has changed after
\* one of them; each may be one that opens the terminal, or not.
ProbeBegins(t) ==
  /\ TerminalClick
  /\ probes' = probes \cup {[of |-> t, left |-> Candidates, hit |-> FALSE]}
  /\ UNCHANGED <<terminalGame, advances, history, terminalPage>>

ProbeStep(p) ==
  /\ IF p.hit \/ p.left = 0
     THEN probes' = probes \ {p} /\ UNCHANGED sent
     ELSE /\ probes' = (probes \ {p}) \cup {[p EXCEPT !.left = @ - 1]}
          /\ sent' \in {sent, Append(sent, p.of)}
  /\ UNCHANGED <<boxes, news, items, captured, advances, history, terminalPage, clicks>>

\* The process starts anew: the inventory is read again, the history kept; the
\* page's requests fail.
TerminalRestart ==
  /\ TerminalClick
  /\ items' = boxes /\ captured' = [t \in Terminals |-> <<>>]
  /\ news' = <<>> /\ probes' = {} /\ advances' = <<>> /\ sent' = <<>>
  /\ loads' = {} /\ busyId' = IF advances = <<>> THEN busyId ELSE NoTerminal
  /\ UNCHANGED <<boxes, history, unseals, version, shown>>

-----------------------------------------------------------------------------
(***************************************************************************)
(* The page.                                                               *)
(***************************************************************************)
\* load, asked for or 800 ms after an advance: the service takes the state,
\* and then may wait for the inventory.
LoadTerminals ==
  /\ TerminalClick /\ version' = version + 1
  /\ loads' = loads \cup {[version |-> version + 1, found |-> {}]}
  /\ UNCHANGED <<terminalGame, probes, advances, history, unseals, shown, busyId>>

StateIsTaken(l) ==
  /\ l.found = {} /\ loads' = (loads \ {l}) \cup {[l EXCEPT !.found = {State}]}
  /\ UNCHANGED <<terminalGame, probes, advances, history, unseals, version, shown, busyId, clicks>>

\* Mutant: an older answer is shown too.
IsAny(l) == l.version <= version

IsLatest(l) == l.version = version

LoadReply(l) ==
  /\ l.found # {} /\ loads' = loads \ {l}
  /\ IF IsLatest(l) THEN shown' \in l.found ELSE UNCHANGED shown
  /\ UNCHANGED <<terminalGame, probes, advances, history, unseals, version, busyId, clicks>>

\* The page names the terminal by the id the coordinator has for it.  The
\* button of the terminal it works on is shut, of any other it is not.
Unseal(t) ==
  /\ TerminalClick
  /\ shown[t].sealed /\ busyId # t
  /\ sent' = Append(sent, t) /\ busyId' = t /\ unseals' = unseals + 1
  /\ UNCHANGED <<boxes, news, items, captured, probes, advances, history, loads, version, shown>>

\* 3.5 seconds later it loads anew; if the call failed, it does not.
UnsealEnds ==
  /\ unseals > 0 /\ unseals' = unseals - 1 /\ busyId' = NoTerminal
  /\ \/ version' = version + 1 /\ loads' = loads \cup {[version |-> version + 1, found |-> {}]}
     \/ UNCHANGED <<version, loads>>
  /\ UNCHANGED <<terminalGame, probes, advances, history, shown, clicks>>

AdvanceClicked(t) ==
  /\ TerminalClick
  /\ ~shown[t].sealed /\ busyId # t
  /\ Advance(t)
  /\ UNCHANGED <<boxes, news, items, captured, probes, history, unseals, loads, version, shown>>

-----------------------------------------------------------------------------
TerminalInit ==
  /\ boxes \in [Terminals -> {Crate, Traded}] /\ items = boxes
  /\ sent = <<>> /\ news = <<>> /\ probes = {} /\ advances = <<>>
  /\ captured = [t \in Terminals |-> <<>>] /\ history = [t \in Terminals |-> <<>>]
  /\ shown = State /\ busyId = NoTerminal /\ clicks = 0
  /\ loads = {} /\ version = 0 /\ unseals = 0

TerminalNext ==
  \/ CoordinatorOpens \/ NewsArrive \/ AdvanceEnds \/ TerminalRestart \/ LoadTerminals
  \/ UnsealEnds
  \/ \E l \in loads : StateIsTaken(l) \/ LoadReply(l)
  \/ \E p \in probes : ProbeStep(p)
  \/ \E t \in Terminals : ProbeBegins(t) \/ Unseal(t) \/ AdvanceClicked(t)

TerminalSpec == TerminalInit /\ [][TerminalNext]_terminalVars

-----------------------------------------------------------------------------
TerminalTypeOK ==
  /\ \A b \in {boxes, items} : \A t \in Terminals :
        b[t].origin \in {"crate", "here", "trade"} /\ b[t].used \in 0..MaxPicks + 1 /\ b[t].offer \in 0..MaxPicks
  /\ \A list \in {sent, advances} : list \in Seq(Terminals)
  /\ \A list \in {captured, history} : list \in [Terminals -> Seq(1..MaxPicks)]
  /\ \A l \in loads : l.version \in 1..version
  /\ \A p \in probes : p.of \in Terminals /\ p.left \in 0..Candidates
  /\ unseals \in Nat
  /\ shown \in [Terminals -> [sealed : BOOLEAN, offer : 0..MaxPicks]]
  /\ busyId \in Terminals \cup {NoTerminal}

\* A terminal the page has shown open is never shown sealed again, whatever
\* order the answers come in: its button would open it once more, for a pick.
StaysOpen == \A t \in Terminals : ~shown[t].sealed => ~shown'[t].sealed
NeverSealedAgain == [][StaysOpen]_terminalVars

Box == [origin : {"crate", "here", "trade"}, used : 0..MaxPicks + 1, offer : 0..MaxPicks]
Shown == [sealed : BOOLEAN, offer : 0..MaxPicks]
Load == [version : Nat, found : SUBSET [Terminals -> Shown]]
BoxesTyped ==
  /\ boxes \in [Terminals -> Box] /\ items \in [Terminals -> Box]
  /\ news \in Seq([of : Terminals, box : Box]) /\ sent \in Seq(Terminals) /\ advances \in Seq(Terminals)
  /\ captured \in [Terminals -> Seq(1..MaxPicks)] /\ history \in [Terminals -> Seq(1..MaxPicks)]
  /\ probes \subseteq [of : Terminals, left : 0..Candidates, hit : BOOLEAN]
PageTyped ==
  /\ loads \subseteq Load /\ version \in Nat /\ \A l \in loads : l.version \in 1..version
  /\ unseals \in Nat /\ shown \in [Terminals -> Shown] /\ busyId \in Terminals \cup {NoTerminal}

\* Why it is so: what was opened stays open at the coordinator, and what it tells
\* of is open; what the page shows open, the inventory has open, and so has the
\* answer to the latest request, of which there is one.
IsOpen(box) == box.origin = "here" \/ box.used > 0
OpenForGood ==
  /\ \A i \in 1..Len(news) : IsOpen(news[i].box) /\ IsOpen(boxes[news[i].of])
  /\ \A t \in Terminals : IsOpen(items[t]) => IsOpen(boxes[t])
  /\ \A t \in Terminals : ~shown[t].sealed => IsOpen(items[t])
  /\ \A l \in loads : \A k \in loads : l.version = k.version => l = k
  /\ \A l \in loads : l.version = version =>
        \A st \in l.found : \A t \in Terminals : ~shown[t].sealed => ~st[t].sealed
  /\ \A l \in loads : \A st \in l.found : \A t \in Terminals : ~st[t].sealed => IsOpen(items[t])

\* Inductive.
TerminalInv == BoxesTyped /\ PageTyped /\ OpenForGood

\* What collectSkins says of its result: the offers are those of the terminal
\* now, not ones that were destroyed.
OffersAreCurrent == \A t \in Terminals : \A k \in DOMAIN Offers(t) : Offers(t)[k] = items[t].offer
=============================================================================
