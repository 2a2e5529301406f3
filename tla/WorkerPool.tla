------------------------------ MODULE WorkerPool ------------------------------
(***************************************************************************)
(* How a batch is worked through: run() of src/buygame/index.ts and of     *)
(* src/wallet/index.ts.  Each of a few workers takes the entry at the      *)
(* shared cursor, works on it, and takes the next, until none is left.     *)
(***************************************************************************)
EXTENDS Integers

CONSTANTS Entries, Workers   \* how many entries; the workers

ASSUME PoolConstants == Entries \in Nat

VARIABLES
  cursor,   \* the next entry to take
  at        \* the entry each worker is at, or Idle

poolVars == <<cursor, at>>

Idle == 0
Batch == 1..Entries

PoolInit == cursor = 1 /\ at = [w \in Workers |-> Idle]

\* Mutant: the cursor moves on when the work is done, not when it is begun.
TakeAndStay(w) ==
  /\ at[w] = Idle /\ cursor <= Entries
  /\ at' = [at EXCEPT ![w] = cursor]
  /\ UNCHANGED cursor

\* processAccount(cursor++): one step, no await in between.
Take(w) ==
  /\ at[w] = Idle /\ cursor <= Entries
  /\ at' = [at EXCEPT ![w] = cursor]
  /\ cursor' = cursor + 1

\* The worker at entry i is done with it.
Leave(i) == at' = [w \in Workers |-> IF at[w] = i THEN Idle ELSE at[w]] /\ UNCHANGED cursor

PoolDone == cursor > Entries /\ \A w \in Workers : at[w] = Idle

\* No entry is worked on by two workers, and no entry is skipped: those before
\* the cursor have been taken, those from it on have not.
EachByOne ==
  /\ \A w \in Workers : at[w] < cursor
  /\ \A v, w \in Workers : at[v] = at[w] /\ v # w => at[v] = Idle
=============================================================================
