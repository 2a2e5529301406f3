---------------------------- MODULE RequestGate ----------------------------
(***************************************************************************)
(* The queue of requests for mobile confirmations (src/steam/community.ts): *)
(* each exit lets one through every Gap, and none for Cooldown after Steam *)
(* has answered one with 429.                                              *)
(***************************************************************************)
EXTENDS Integers

CONSTANTS
  Requests,        \* those that may be sent
  Exits,           \* the proxies they leave by
  Gap, Cooldown,   \* MOBILECONF_GAP_MS, MOBILECONF_COOLDOWN_MS
  LastSecond       \* the clock stops there, a bound of the model

ASSUME GateConstants == Exits # {} /\ Gap \in Nat \ {0} /\ Cooldown \in Nat \ {0} /\ LastSecond \in Nat

VARIABLES
  clock,
  next,      \* when each exit lets through the next one
  request,   \* "none", "asleep", "out" or "answered"
  exit,      \* the exit of each, chosen when it begins to wait
  wakes,     \* when it wakes
  released,  \* the last time each exit let one through, or -Gap
  cooled     \* the end of the last cooldown of each exit

gateVars == <<clock, next, request, exit, wakes, released, cooled>>

Larger(a, b) == IF a < b THEN b ELSE a

\* Mutant: who has slept its time is not looked at again.
TurnAwake(r, e, now) ==
  IF next[e] <= now \/ request[r] = "asleep"
  THEN /\ next' = [next EXCEPT ![e] = now + Gap] /\ released' = [released EXCEPT ![e] = now]
       /\ request' = [request EXCEPT ![r] = "out"] /\ UNCHANGED wakes
  ELSE /\ request' = [request EXCEPT ![r] = "asleep"] /\ wakes' = [wakes EXCEPT ![r] = next[e]] /\ UNCHANGED <<next, released>>
\* One turn of the loop of wait: through, or asleep until the exit is free as it looks now.
Turn(r, e, now) ==
  IF next[e] <= now
  THEN /\ next' = [next EXCEPT ![e] = now + Gap] /\ released' = [released EXCEPT ![e] = now]
       /\ request' = [request EXCEPT ![r] = "out"] /\ UNCHANGED wakes
  ELSE /\ request' = [request EXCEPT ![r] = "asleep"] /\ wakes' = [wakes EXCEPT ![r] = next[e]] /\ UNCHANGED <<next, released>>

Wait(r) ==
  /\ request[r] = "none"
  /\ \E e \in Exits : exit' = [exit EXCEPT ![r] = e] /\ Turn(r, e, clock)
  /\ UNCHANGED <<clock, cooled>>
Wakes(r) ==
  /\ request[r] = "asleep" /\ wakes[r] <= clock
  /\ Turn(r, exit[r], clock) /\ UNCHANGED <<clock, exit, cooled>>

\* Mutant: the cooldown of an earlier answer is cut short by a later one's gap.
HoldAnew(at, now) == now + Cooldown - Gap
\* hold only ever puts the next one off.
Hold(at, now) == Larger(at, now + Cooldown)
Answered(r) ==
  /\ request[r] = "out" /\ request' = [request EXCEPT ![r] = "answered"]
  /\ \/ UNCHANGED <<next, cooled>>
     \/ next' = [next EXCEPT ![exit[r]] = Hold(@, clock)] /\ cooled' = [cooled EXCEPT ![exit[r]] = clock + Cooldown]
  /\ UNCHANGED <<clock, exit, wakes, released>>
Passing == clock < LastSecond /\ clock' = clock + 1 /\ UNCHANGED <<next, request, exit, wakes, released, cooled>>

GateInit ==
  /\ clock = 0 /\ next = [e \in Exits |-> 0] /\ request = [r \in Requests |-> "none"]
  /\ exit = [r \in Requests |-> CHOOSE e \in Exits : TRUE] /\ wakes = [r \in Requests |-> 0]
  /\ released = [e \in Exits |-> -Gap] /\ cooled = [e \in Exits |-> 0]
GateNext == Passing \/ \E r \in Requests : Wait(r) \/ Wakes(r) \/ Answered(r)
GateSpec == GateInit /\ [][GateNext]_gateVars

-----------------------------------------------------------------------------
GateTypeOK ==
  /\ clock \in Nat /\ next \in [Exits -> Int] /\ request \in [Requests -> {"none", "asleep", "out", "answered"}]
  /\ exit \in [Requests -> Exits] /\ wakes \in [Requests -> Int] /\ released \in [Exits -> Int] /\ cooled \in [Exits -> Int]

\* An exit that lets one through has let none through for Gap and is in no cooldown,
\* however many wait, were put off while they slept or were overtaken.
SpacedOut == [][\A e \in Exits : released'[e] # released[e] => clock >= released[e] + Gap /\ clock >= cooled[e]]_gateVars
=============================================================================
