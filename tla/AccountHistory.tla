---------------------------- MODULE AccountHistory ----------------------------
(***************************************************************************)
(* Reading an account's purchase history: the server turns Steam's pages   *)
(* in the background (src/accounts/history.ts), the window of the page     *)
(* asks how far it is (web/src/views/accounts/HistoryModal.vue).           *)
(*                                                                         *)
(* A row is a number, 1 the oldest; how one is parsed shows nowhere here.  *)
(* An answer of Steam counts after its retries.  The server answers a      *)
(* request in one step; the window may have moved on by then.              *)
(***************************************************************************)
EXTENDS Integers, Sequences

CONSTANTS
  Owners,      \* the accounts of the list
  PageSize,    \* rows of a page of Steam
  maxPages,    \* 300 in the code
  MaxRows,     \* bounds of the model: rows of an account, windows opened or
  MaxOpens,    \* readings asked for, requests that fail
  MaxLost,
  Nobody, NoJob

\* Assumed of them.
HistoryConstants ==
  /\ {PageSize, maxPages, MaxRows} \subseteq Nat \ {0} /\ {MaxOpens, MaxLost} \subseteq Nat
  /\ Nobody \notin Owners

VARIABLES
  bought,      \* by account, the rows at Steam
  jobs,        \* by account, its latest reading
  accountName, \* the account of the window, Nobody when it is closed
  generation,
  shown,       \* view.history
  asks,        \* requests on their way
  timer,       \* whether the next poll is due
  opens, lost  \* bounds of the model

historyVars == <<bought, jobs, accountName, generation, shown, asks, timer, opens, lost>>
serverVars  == <<bought, jobs>>
windowVars  == <<accountName, generation, shown, asks, timer>>

-----------------------------------------------------------------------------
(* The server.                                                             *)

\* The rows below one, as Steam's next page shows them.
Below(row) == [i \in 1..(IF row > PageSize THEN PageSize ELSE row - 1) |-> row - i]

Started(a) == [account |-> a, status |-> "loading", rows |-> <<>>, pages |-> 0,
               cursor |-> 0, seen |-> {}, truncated |-> FALSE, stalled |-> FALSE]

\* The loop of readAll after a page: no cursor, or a page without rows, is the
\* end; so are the last page allowed and a cursor seen before.
Ended(j, got) ==
  IF j.cursor = 0 \/ got = <<>> THEN [j EXCEPT !.status = "done"]
  ELSE IF j.pages >= maxPages THEN [j EXCEPT !.status = "done", !.truncated = TRUE]
  ELSE IF j.cursor \in j.seen THEN [j EXCEPT !.status = "done", !.stalled = TRUE]
  ELSE [j EXCEPT !.seen = @ \cup {j.cursor}]

\* The first page shows the newest rows, a further one those below the cursor.
\* Steam may answer a cursor with the same one again.
ReadPage(a) ==
  /\ jobs[a] # NoJob /\ jobs[a].status = "loading"
  /\ LET j    == jobs[a]
         got  == Below(IF j.pages = 0 THEN bought[a] + 1 ELSE j.cursor)
         low  == IF got = <<>> \/ got[Len(got)] = 1 THEN 0 ELSE got[Len(got)]
     IN  \E cursor \in {low} \cup (IF j.pages = 0 THEN {} ELSE {j.cursor}) :
           jobs' = [jobs EXCEPT ![a] =
             Ended([j EXCEPT !.rows = @ \o got, !.pages = @ + 1, !.cursor = cursor], got)]
  /\ UNCHANGED <<bought, windowVars, opens, lost>>

\* Not logged in any more, no page, or no answer after all retries: the rows
\* read so far stay.
ReadFails(a) ==
  /\ jobs[a] # NoJob /\ jobs[a].status = "loading"
  /\ jobs' = [jobs EXCEPT ![a].status = "error"]
  /\ UNCHANGED <<bought, windowVars, opens, lost>>

\* load: a reading under way, or done and not asked for anew, is answered as it is.
load(a, force) ==
  IF jobs[a] # NoJob /\ (jobs[a].status = "loading" \/ ~force) THEN jobs
  ELSE [jobs EXCEPT ![a] = Started(a)]

Buys(a) ==
  /\ bought[a] < MaxRows /\ bought' = [bought EXCEPT ![a] = @ + 1]
  /\ UNCHANGED <<jobs, windowVars, opens, lost>>

\* Another window asks for a new reading.
LoadElsewhere(a) ==
  /\ opens < MaxOpens /\ opens' = opens + 1
  /\ jobs' = load(a, TRUE)
  /\ UNCHANGED <<bought, windowVars, lost>>

-----------------------------------------------------------------------------
(* The window.                                                             *)

Asking(kind) == [kind |-> kind, account |-> accountName, generation |-> generation]

\* The window opens on another account, or closes; answers to come are dropped.
Watch(a) ==
  /\ a # accountName /\ opens < MaxOpens /\ opens' = opens + 1
  /\ accountName' = a /\ generation' = generation + 1
  /\ shown' = NoJob /\ timer' = FALSE
  /\ asks' = IF a = Nobody THEN asks
             ELSE asks \cup {[kind |-> "start", account |-> a, generation |-> generation']}
  /\ UNCHANGED <<serverVars, lost>>

Starting == \E r \in asks : r.kind # "poll" /\ r.generation = generation
Loading == shown # NoJob /\ shown.status = "loading"

\* The button to read anew, while nothing is read.
StartAgain ==
  /\ accountName # Nobody /\ ~Starting /\ ~Loading
  /\ opens < MaxOpens /\ opens' = opens + 1
  /\ asks' = asks \cup {Asking("force")}
  /\ UNCHANGED <<serverVars, accountName, generation, shown, timer, lost>>

\* The next poll, 1.5 s after an answer, 3 s after a failure.
Poll ==
  /\ timer /\ timer' = FALSE
  /\ asks' = asks \cup {Asking("poll")}
  /\ UNCHANGED <<serverVars, accountName, generation, shown, opens, lost>>

\* Mutant: an answer is shown whatever the window has become.
ApplyAny(r, history) == shown' = history /\ timer' = (history # NoJob /\ history.status = "loading")

\* apply: only what the window of now has asked for is shown, and asked on.
Apply(r, history) ==
  IF r.generation = generation
    THEN shown' = history /\ timer' = (history # NoJob /\ history.status = "loading")
    ELSE UNCHANGED <<shown, timer>>

Replied(r) ==
  /\ r \in asks /\ asks' = asks \ {r}
  /\ jobs' = IF r.kind = "poll" THEN jobs ELSE load(r.account, r.kind = "force")
  /\ Apply(r, jobs'[r.account])
  /\ UNCHANGED <<bought, accountName, generation, opens, lost>>

\* No answer, or the account has no session on the web: a poll is repeated.
Unanswered(r) ==
  /\ r \in asks /\ asks' = asks \ {r}
  /\ lost < MaxLost /\ lost' = lost + 1
  /\ timer' = (timer \/ (r.kind = "poll" /\ r.generation = generation))
  /\ UNCHANGED <<serverVars, accountName, generation, shown, opens>>

\* The readings are in memory only.
HistoryRestart ==
  /\ lost < MaxLost /\ lost' = lost + 1
  /\ jobs' = [a \in Owners |-> NoJob]
  /\ UNCHANGED <<bought, windowVars, opens>>

HistoryInit ==
  /\ bought \in [Owners -> {0, MaxRows - 1}]
  /\ jobs = [a \in Owners |-> NoJob]
  /\ accountName = Nobody /\ generation = 0 /\ shown = NoJob /\ asks = {} /\ timer = FALSE
  /\ opens = 0 /\ lost = 0

Reading == \E a \in Owners : ReadPage(a) \/ ReadFails(a)
WindowDue == Poll \/ \E r \in asks : Replied(r)

HistoryNext ==
  \/ Reading \/ WindowDue \/ StartAgain \/ HistoryRestart
  \/ \E a \in Owners : Buys(a) \/ LoadElsewhere(a)
  \/ \E a \in Owners \cup {Nobody} : Watch(a)
  \/ \E r \in asks : Unanswered(r)

HistorySpec == HistoryInit /\ [][HistoryNext]_historyVars

\* Steam answers or fails, and the timer and the answers of the page come.
HistoryFairSpec == HistorySpec /\ WF_historyVars(Reading) /\ WF_historyVars(WindowDue)

-----------------------------------------------------------------------------
\* Each row is read once and none is left out, whatever is bought while pages
\* are turned; a reading that is done and says nothing else has read them all,
\* unless Steam's cursor stood still.
ReadOnce ==
  \A a \in Owners : jobs[a] # NoJob =>
    LET rows == jobs[a].rows IN
    /\ \A i \in 2..Len(rows) : rows[i] = rows[i - 1] - 1
    /\ jobs[a].status = "done" /\ ~jobs[a].truncated /\ ~jobs[a].stalled /\ rows # <<>>
         => rows[Len(rows)] = 1

\* The window never shows another account's history.
ShowsItsOwn == shown # NoJob => shown.account = accountName

\* A window that says the history is being read comes to say how that ended.
ReadingEnds == Loading ~> ~Loading

HistoryKept == ReadOnce /\ ShowsItsOwn

\* What the two rest on: a reading that goes on has turned a page for every cursor,
\* which is the last row it has; and what the window of now has asked for is of its
\* account.
JobOf(a, j) ==
  /\ j.account = a /\ j.rows \in Seq(Nat) /\ j.pages \in Nat
  /\ \A i \in 2..Len(j.rows) : j.rows[i] = j.rows[i - 1] - 1
  /\ j.status = "loading" =>
       IF j.pages = 0 THEN j.rows = <<>>
       ELSE j.rows # <<>> /\ j.cursor = j.rows[Len(j.rows)] /\ j.cursor >= 2 /\ j.cursor \in j.seen
  /\ j.status = "done" /\ ~j.truncated /\ ~j.stalled /\ j.rows # <<>> => j.rows[Len(j.rows)] = 1
JobFields == {"account", "status", "rows", "pages", "cursor", "seen", "truncated", "stalled"}
Jobs == \A a \in Owners : jobs[a] # NoJob => jobs[a] = [f \in JobFields |-> jobs[a][f]] /\ JobOf(a, jobs[a])
Window ==
  /\ accountName \in Owners \cup {Nobody} /\ generation \in Nat /\ (timer => accountName # Nobody)
  /\ \A r \in asks : /\ r.account \in Owners /\ r.generation \in 0..generation
                     /\ r.generation = generation => r.account = accountName
HistoryInv == bought \in [Owners -> Nat] /\ DOMAIN jobs = Owners /\ Jobs /\ Window /\ ShowsItsOwn
=============================================================================
