----------------------------- MODULE BuyGamePage -----------------------------
(***************************************************************************)
(* The page that buys games (src/stores/buygame.ts and                     *)
(* src/views/BuyGameView.vue of the front end) and the service's answers   *)
(* (src/buygame/index.ts): who is online, what a package costs where the   *)
(* first chosen account lives, and the tasks, which are pushed as well.    *)
(*                                                                         *)
(* A request reaches the service when it is sent; answers come in any      *)
(* order, pushes in theirs.  An account that is looked for by a session it *)
(* no longer has is not found.                                             *)
(***************************************************************************)
EXTENDS Integers, Sequences, FiniteSets, SequencesExt

CONSTANTS
  Accounts, Packages,
  NoSession,        \* no attemptId, and no dialog
  MaxSessions,      \* logins, a bound of the model like those below
  MaxAsks, MaxTasks, Steps   \* requests of the page but those for all tasks; tasks; the states of a task

\* Assumed of them.
BuyGamePageConstants == {MaxSessions, MaxAsks, MaxTasks, Steps} \subseteq Nat /\ IsFiniteSet(Accounts)

VARIABLES
  session,   \* Steam sessions: the number of each account's, or NoSession
  tasks,     \* the service: for each task its accounts, its packages and how far it is
  arrived,   \* how far the pushes that came say each task is
  listed,    \* the page: the session it knows of each account, or NoSession
  selected,  \* the accounts chosen, in order
  games,     \* for each package on the list what is known of it
  pricedFor, \* the session the list was priced for
  shown,     \* how far the page says each task is, 0 for those it does not show
  dialog,    \* what the dialog that is open asks to confirm
  asked,     \* requests that will be answered
  asks,      \* how many there were
  logins

pageVars == <<session, tasks, arrived, listed, selected, games, pricedFor, shown, dialog, asked, asks, logins>>
serverVars == <<session, tasks, arrived>>

NoTask == [accounts |-> {}, packages |-> {}, at |-> 0]
Region(s) == IF \E a \in Accounts : session[a] = s /\ s # NoSession THEN s.of ELSE "US"
Known(online, chosen) ==
  LET known[n \in 0..Len(chosen)] ==
        IF n = 0 THEN <<>> ELSE IF online[chosen[n]] # NoSession THEN Append(known[n - 1], chosen[n]) ELSE known[n - 1]
  IN known[Len(chosen)]
FirstAttempt(online, chosen) == LET known == Known(online, chosen) IN IF known = <<>> THEN NoSession ELSE online[Head(known)]
Ready == {p \in DOMAIN games : games[p].price # "" /\ ~games[p].resolving}
\* entry numbers what stands on the list: a package added again is another entry.
Resolving(p, s, entry) == [about |-> "price", package |-> p, session |-> s, found |-> Region(s), entry |-> entry, n |-> asks]
\* What the list holds of a package that is being asked about; newest is for the properties only.
Asked(price, s, entry) == [resolving |-> TRUE, price |-> price, newest |-> s, entry |-> entry]

-----------------------------------------------------------------------------
(* The list.                                                               *)

\* repriceIfNeeded, when the accounts or the choice has changed.
RepriceIfNeeded(online, chosen) ==
  LET first == FirstAttempt(online, chosen)
  IN IF first = pricedFor THEN UNCHANGED <<games, pricedFor>> /\ asked' = asked
     ELSE /\ pricedFor' = first /\ games' = [p \in DOMAIN games |-> Asked(games[p].price, first, games[p].entry)]
          /\ asked' = asked \cup {Resolving(p, first, games[p].entry) : p \in DOMAIN games}
SetSelected ==
  /\ dialog = NoSession /\ asks < MaxAsks /\ asks' = asks + 1
  /\ \E chosen \in UNION {[1..n -> {a \in Accounts : listed[a] # NoSession}] : n \in 0..Cardinality(Accounts)} :
       IsInjective(chosen) /\ chosen # selected /\ selected' = chosen /\ RepriceIfNeeded(listed, chosen)
  /\ UNCHANGED <<serverVars, listed, shown, dialog>>
AddSubids ==
  /\ dialog = NoSession /\ asks < MaxAsks /\ asks' = asks + 1
  /\ \E p \in Packages \ DOMAIN games :
       LET first == FirstAttempt(listed, selected)
       IN /\ games' = [q \in DOMAIN games \cup {p} |-> IF q = p THEN Asked("", first, asks) ELSE games[q]]
          /\ pricedFor' = first /\ asked' = asked \cup {Resolving(p, first, asks)}
  /\ UNCHANGED <<serverVars, listed, selected, shown, dialog>>
RemoveGame ==
  /\ dialog = NoSession /\ \E p \in DOMAIN games : games' = [q \in DOMAIN games \ {p} |-> games[q]]
  /\ UNCHANGED <<serverVars, listed, selected, pricedFor, shown, dialog, asked, asks>>
\* resolveGame: the price of the last answer, or an error; a package that is off the list stays off.
Resolved(answer) ==
  /\ answer.about = "price"
  /\ IF answer.package \in DOMAIN games /\ answer.entry = games[answer.package].entry
     THEN \E price \in {answer.found, ""} : games' = [games EXCEPT ![answer.package].resolving = FALSE, ![answer.package].price = price]
     ELSE UNCHANGED games
  /\ asked' = asked \ {answer} /\ UNCHANGED <<serverVars, listed, selected, pricedFor, shown, dialog, asks>>

RefreshAccounts ==
  /\ asks < MaxAsks /\ asks' = asks + 1
  /\ asked' = asked \cup {[about |-> "accounts", online |-> session, n |-> asks]}
  /\ UNCHANGED <<serverVars, listed, selected, games, pricedFor, shown, dialog>>
\* Mutant: who has gone stays chosen, and the prices as they are.
AccountsCameOnly(answer) ==
  /\ answer.about = "accounts" /\ listed' = answer.online /\ asked' = asked \ {answer}
  /\ UNCHANGED <<serverVars, selected, games, pricedFor, shown, dialog, asks>>
AccountsCame(answer) ==
  /\ answer.about = "accounts" /\ listed' = answer.online
  /\ LET chosen == Known(answer.online, selected)
         first == FirstAttempt(answer.online, chosen)
     IN /\ selected' = chosen /\ pricedFor' = first
        /\ games' = IF first = pricedFor THEN games ELSE [p \in DOMAIN games |-> Asked(games[p].price, first, games[p].entry)]
        /\ asked' = (asked \ {answer}) \cup (IF first = pricedFor THEN {} ELSE {Resolving(p, first, games[p].entry) : p \in DOMAIN games})
  /\ UNCHANGED <<serverVars, shown, dialog, asks>>

-----------------------------------------------------------------------------
(* Buying.                                                                 *)

\* createTask: accounts that are not found are left out; none, and there is no task.
Created(chosen, packages) ==
  LET found == {a \in Range(chosen) : listed[a] = session[a]}
      free == {t \in 1..MaxTasks : tasks[t] = NoTask}
  IN IF found = {} THEN UNCHANGED tasks /\ asked' = asked
     ELSE LET t == CHOOSE i \in free : \A j \in free : i <= j
          IN /\ tasks' = [tasks EXCEPT ![t] = [accounts |-> found, packages |-> packages, at |-> 1]]
             /\ asked' = asked \cup {[about |-> "created", task |-> t, n |-> asks]}
SubmitPurchase ==
  /\ asks' = asks + 1
  /\ IF Known(listed, selected) = <<>> \/ Ready = {} THEN UNCHANGED <<tasks, asked>> ELSE Created(Known(listed, selected), Ready)
CanBuy ==
  /\ asks < MaxAsks /\ Known(listed, selected) # <<>> /\ Ready # {}
  /\ \E t \in 1..MaxTasks : tasks[t] = NoTask /\ \A answer \in asked : answer.about # "created"
Buy ==
  /\ dialog = NoSession /\ CanBuy
  /\ dialog' = [accounts |-> Range(selected), packages |-> DOMAIN games, ready |-> Ready]
  /\ UNCHANGED <<serverVars, listed, selected, games, pricedFor, shown, asked, asks>>
Confirm ==
  /\ dialog # NoSession /\ dialog' = NoSession /\ SubmitPurchase
  /\ UNCHANGED <<session, arrived, listed, selected, games, pricedFor, shown>>
Cancel == dialog # NoSession /\ dialog' = NoSession /\ UNCHANGED <<serverVars, listed, selected, games, pricedFor, shown, asked, asks>>
\* A dry run is not confirmed, and not told apart otherwise.
DryRun ==
  /\ dialog = NoSession /\ CanBuy /\ SubmitPurchase
  /\ UNCHANGED <<session, arrived, listed, selected, games, pricedFor, shown, dialog>>

\* Pushes often come before the answer: a task that is shown is not shown as new.
ShowCreated(t) == shown' = IF shown[t] = 0 THEN [shown EXCEPT ![t] = 1] ELSE shown
CreatedCame(answer) ==
  /\ answer.about = "created" /\ ShowCreated(answer.task) /\ asked' = asked \ {answer}
  /\ UNCHANGED <<serverVars, listed, selected, games, pricedFor, dialog, asks>>
LoadTasks ==
  /\ dialog = NoSession /\ \A answer \in asked : answer.about # "tasks"
  /\ asked' = asked \cup {[about |-> "tasks", at |-> [t \in DOMAIN tasks |-> tasks[t].at]]}
  /\ UNCHANGED <<serverVars, listed, selected, games, pricedFor, shown, dialog, asks>>
TasksCame(answer) ==
  /\ answer.about = "tasks" /\ shown' = answer.at /\ asked' = asked \ {answer}
  /\ UNCHANGED <<serverVars, listed, selected, games, pricedFor, dialog, asks>>

Push ==
  /\ \E t \in DOMAIN tasks : arrived[t] < tasks[t].at /\ arrived' = [arrived EXCEPT ![t] = @ + 1] /\ shown' = [shown EXCEPT ![t] = arrived[t] + 1]
  /\ UNCHANGED <<session, tasks, listed, selected, games, pricedFor, dialog, asked, asks>>
TaskGoesOn ==
  /\ \E t \in DOMAIN tasks : tasks[t].at \in 1..Steps - 1 /\ tasks' = [tasks EXCEPT ![t].at = @ + 1]
  /\ UNCHANGED <<session, arrived, listed, selected, games, pricedFor, shown, dialog, asked, asks>>
\* A login gives an account a session of a new number.
LogsOnOrOff ==
  /\ \E a \in Accounts :
       \/ session[a] = NoSession /\ logins < MaxSessions /\ logins' = logins + 1 /\ session' = [session EXCEPT ![a] = [of |-> a, n |-> logins]]
       \/ session[a] # NoSession /\ session' = [session EXCEPT ![a] = NoSession] /\ UNCHANGED logins
  /\ UNCHANGED <<tasks, arrived, listed, selected, games, pricedFor, shown, dialog, asked, asks>>

BuyGamePageInit ==
  /\ session = [a \in Accounts |-> NoSession] /\ listed = session /\ logins = 0
  /\ tasks = [t \in 1..MaxTasks |-> NoTask] /\ arrived = [t \in 1..MaxTasks |-> 0] /\ shown = arrived
  /\ selected = <<>> /\ games = [p \in {} |-> Asked("", NoSession, 0)] /\ pricedFor = NoSession /\ dialog = NoSession
  /\ asked = {} /\ asks = 0
Service == LogsOnOrOff \/ (UNCHANGED logins /\ TaskGoesOn)
Answers == \E answer \in asked : Resolved(answer) \/ AccountsCame(answer) \/ CreatedCame(answer) \/ TasksCame(answer)
Clicks == SetSelected \/ AddSubids \/ RemoveGame \/ RefreshAccounts \/ LoadTasks \/ Buy \/ Confirm \/ Cancel \/ DryRun
BuyGamePageNext == Service \/ (UNCHANGED logins /\ (Answers \/ Clicks \/ Push))
BuyGamePageSpec == BuyGamePageInit /\ [][BuyGamePageNext]_pageVars

-----------------------------------------------------------------------------
\* Every package of the list was last asked about for the first account of the
\* choice, in the session the page knows.
AskedForFirst == pricedFor = FirstAttempt(listed, selected) /\ \A p \in DOMAIN games : games[p].newest = pricedFor

\* Nothing is bought for an account, or of a package, that was not on the page
\* when the purchase was confirmed; and of those only for accounts online.
NothingUnconfirmed ==
  \A t \in DOMAIN tasks : tasks'[t] # tasks[t] /\ tasks[t] = NoTask /\ dialog # NoSession =>
    /\ tasks'[t].accounts \subseteq dialog.accounts \cap {a \in Accounts : session[a] # NoSession}
    /\ tasks'[t].packages \subseteq dialog.packages

\* Only an answer with the whole list, or a push that comes after a list, takes the
\* page back to an earlier state of a task; the answer to a submission never does.
OnlyListsTurnBack ==
  (\E t \in DOMAIN shown : shown'[t] < shown[t]) => arrived' # arrived \/ \E answer \in asked \ asked' : answer.about = "tasks"

TasksTyped ==
  /\ DOMAIN tasks = 1..MaxTasks
  /\ \A t \in 1..MaxTasks : /\ tasks[t] = [accounts |-> tasks[t].accounts, packages |-> tasks[t].packages, at |-> tasks[t].at]
                            /\ tasks[t].at \in Nat
  /\ {arrived, shown} \subseteq [1..MaxTasks -> Nat]
  /\ \A answer \in asked : answer.about = "tasks" => answer.at \in [1..MaxTasks -> Nat]

\* Why a purchase is as confirmed: while the dialog is open, the choice only gets
\* smaller and the list stays.
ListStands ==
  /\ selected \in Seq(Accounts) /\ pricedFor = FirstAttempt(listed, selected)
  /\ \A p \in DOMAIN games :
        games[p] = [resolving |-> games[p].resolving, price |-> games[p].price, newest |-> pricedFor, entry |-> games[p].entry]
  /\ dialog # NoSession => Range(selected) \subseteq dialog.accounts /\ DOMAIN games \subseteq dialog.packages

\* Inductive.
BuyGameInv == TasksTyped /\ ListStands

\* What the page asks for, submits and shows.
BuyGamePageKept == [][AskedForFirst /\ NothingUnconfirmed /\ OnlyListsTurnBack]_pageVars

\* The price on the page is that of the first chosen account's country (the comment on pricedFor).
PricedForFirst ==
  \A p \in Ready : pricedFor # NoSession /\ session[pricedFor.of] = pricedFor
                   /\ (\A answer \in asked : answer.about = "price" => answer.entry # games[p].entry) => games[p].price = pricedFor.of
\* What is bought is what the dialog said.
BuysWhatWasShown ==
  [][\A t \in DOMAIN tasks : tasks[t] = NoTask /\ tasks'[t] # NoTask /\ dialog # NoSession => tasks'[t].packages = dialog.ready]_pageVars
=============================================================================
