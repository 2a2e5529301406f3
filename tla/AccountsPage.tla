----------------------------- MODULE AccountsPage -----------------------------
(***************************************************************************)
(* The list of accounts in the browser (web/src/stores/accounts.ts) and    *)
(* what it asks of the server (src/accounts/index.ts).  The state of a     *)
(* session comes by three ways: pushed over the socket, in order, but lost *)
(* while it is cut; in the answers to requests, each as it was when the    *)
(* server answered, in any order; and from the page itself.                *)
(*                                                                         *)
(* The sessions are those of SteamSession, reduced to what is pushed.      *)
(* Every state pushed has a number.  Reading the list anew makes every row *)
(* anew: a row is the account and the reading it comes from.               *)
(***************************************************************************)
EXTENDS Integers, Sequences, SequenceTheorems, TLAPS

CONSTANTS
  Members,     \* the account names
  MaxNews,     \* bounds of the model: states of sessions, requests in all,
  MaxCalls,    \* cuts of the socket and restarts of the server
  MaxCuts

\* Assumed of them.
PageConstants == {MaxNews, MaxCalls, MaxCuts} \subseteq Nat

VARIABLES
  listed,      \* the server's list
  attempts,    \* by account, its session: its id (0: none), status and number
  pushes,      \* attempt:update on its way
  connected,   \* the socket
  requests,    \* on their way there and back
  rows,        \* by account shown: status, attemptId, and the number of it
  reading,     \* how often the list was read
  filter,      \* the session filter, or "all"
  selected,
  guard,       \* the session the page asks a code for, 0 if none
  failing,     \* state.error: the list could not be read
  sent, called, cuts,   \* bounds of the model
  astray       \* history: rows that went wrong in a known way, see RowsFollow

serverVars == <<listed, attempts, sent>>
pageVars   == <<rows, reading, filter, selected, guard, failing, astray>>
netVars    == <<pushes, connected, requests>>
boundVars  == <<called, cuts>>
accountsVars == <<serverVars, pageVars, netVars, boundVars>>

NoAttempt == [id |-> 0, status |-> "none", n |-> 0]
FreshRow == [status |-> "offline", attemptId |-> 0, n |-> 0]

\* collapseAttemptStatus: who was online stays so while the session is restored.
Collapse(status, previous) ==
  CASE status = "online" -> "online"
    [] status = "out"    -> "offline"
    [] status = "failed" -> IF previous = "online" THEN "online" ELSE "failed"
    [] status \in {"connecting", "guard"} -> IF previous = "online" THEN "online" ELSE "connecting"
    [] status = "none"   -> IF previous = "failed" THEN "failed" ELSE "offline"

Shows(a) == filter \in {"all", rows[a].status}
Visible == {a \in DOMAIN rows : Shows(a)}

-----------------------------------------------------------------------------
(* The server.  A session's new state is pushed to the open sockets.       *)

Told(a, session) == [account |-> a, id |-> session.id, status |-> session.status, n |-> session.n]
News(a, id, status) ==
  /\ sent < MaxNews /\ sent' = sent + 1
  /\ attempts' = [attempts EXCEPT ![a] = [id |-> id, status |-> status, n |-> sent']]
  /\ pushes' = IF connected THEN Append(pushes, Told(a, attempts'[a])) ELSE pushes

Active(a) == attempts[a].status \in {"connecting", "guard", "online"}
Following == [connecting |-> {"guard", "online", "failed"}, guard |-> {"online", "failed"},
              online |-> {"failed", "connecting"}, failed |-> {"connecting"}, out |-> {}, none |-> {}]

SessionChanges(a) ==
  /\ \E status \in Following[attempts[a].status] : News(a, attempts[a].id, status)
  /\ UNCHANGED <<listed, connected, requests, pageVars, boundVars>>

\* Another page logs in, or the session is restored.
SessionStarts(a) ==
  /\ a \in listed /\ ~Active(a) /\ News(a, sent + 1, "connecting")
  /\ UNCHANGED <<listed, connected, requests, pageVars, boundVars>>

\* What a request does at the server; it leaves with the state of then.
Back(r, answer) == requests' = (requests \ {r}) \cup {[r EXCEPT !.phase = "back", !.answer = answer]}
Answer(a) == {Told(a, attempts'[a])}

HandleLogin(r) ==
  /\ r.kind = "login" /\ r.account \in listed
  /\ IF Active(r.account) THEN UNCHANGED <<attempts, sent, pushes>>
     ELSE News(r.account, sent + 1, "connecting")
  /\ Back(r, Answer(r.account)) /\ UNCHANGED <<listed, astray>>

\* By the id the page has; 404 when that session is gone, see Lost.
HandleLogout(r) ==
  /\ r.kind = "logout" /\ attempts[r.account].id = r.id
  /\ News(r.account, r.id, "out")
  /\ Back(r, Answer(r.account)) /\ UNCHANGED <<listed, astray>>

HandleGuard(r) ==
  /\ r.kind = "guard" /\ attempts[r.account] = [attempts[r.account] EXCEPT !.id = r.id, !.status = "guard"]
  /\ News(r.account, r.id, "connecting")
  /\ Back(r, Answer(r.account)) /\ UNCHANGED <<listed, astray>>

\* cleanup: the sessions end without a push.
HandleCleanup(r) ==
  /\ r.kind = "cleanup"
  /\ listed' = listed \ r.accounts
  /\ attempts' = [a \in Members |-> IF a \in r.accounts THEN NoAttempt ELSE attempts[a]]
  /\ astray' = astray \cup r.accounts
  /\ Back(r, {}) /\ UNCHANGED <<sent, pushes>>

HandleRead(r) ==
  /\ r.kind \in {"list", "upsert", "attempts"}
  /\ listed' = IF r.kind = "upsert" THEN listed \cup r.accounts ELSE listed
  /\ Back(r, IF r.kind = "attempts" THEN {Told(a, attempts[a]) : a \in {b \in Members : attempts[b].id # 0}}
             ELSE listed')
  /\ UNCHANGED <<attempts, sent, pushes, astray>>

Handled(r) ==
  /\ r \in requests /\ r.phase = "there"
  /\ \/ HandleLogin(r) \/ HandleLogout(r) \/ HandleGuard(r) \/ HandleCleanup(r) \/ HandleRead(r)
  /\ UNCHANGED <<connected, rows, reading, filter, selected, guard, failing, boundVars>>

-----------------------------------------------------------------------------
(* The page.                                                               *)

Request(kind, a) ==
  [kind |-> kind, account |-> a, accounts |-> {a}, id |-> 0, reading |-> reading, phase |-> "there", answer |-> {}]
Ask(rs) == called < MaxCalls /\ called' = called + 1 /\ requests' = requests \cup rs /\ UNCHANGED cuts
IsShown(r) == r.reading = reading /\ r.account \in DOMAIN rows

\* mergeAttempt: the row is found by the session or the account name.
MergedRow(row, x) == [status |-> Collapse(x.status, row.status), attemptId |-> x.id, n |-> x.n]
MergedRows(news) ==
  [a \in DOMAIN rows |-> IF \E x \in news : x.account = a
                         THEN MergedRow(rows[a], CHOOSE x \in news : x.account = a) ELSE rows[a]]
MergedGuard(news) ==
  IF \E x \in news : x.status = "guard" THEN (CHOOSE x \in news : x.status = "guard").id
  ELSE IF \E x \in news : x.id = guard THEN 0 ELSE guard

\* A state older than the one shown, or of a session that ended unsaid, leads
\* astray; the server's latest leads back.
MergedAstray(news) ==
  LET old(x)  == x.n < rows[x.account].n \/ x.id # attempts[x.account].id
      wrong   == {x.account : x \in {y \in news : y.account \in DOMAIN rows /\ old(y)}}
      latest  == {x.account : x \in {y \in news : y.n = attempts[y.account].n}}
  IN  (astray \ latest) \cup wrong

Merge(news) ==
  /\ rows' = MergedRows(news) /\ guard' = MergedGuard(news) /\ astray' = MergedAstray(news)
  /\ UNCHANGED <<reading, filter, selected, failing>>

Pushed ==
  /\ connected /\ pushes # <<>> /\ pushes' = Tail(pushes)
  /\ Merge({Head(pushes)})
  /\ UNCHANGED <<serverVars, connected, requests, boundVars>>

\* loginAccount: not for a row that is online, or being logged in.
LoginAccount(a) ==
  /\ a \in DOMAIN rows
  /\ ~(rows[a].attemptId # 0 /\ rows[a].status \in {"online", "connecting"})
  /\ rows' = [rows EXCEPT ![a].status = "connecting"]
  /\ Ask({Request("login", a)})
  /\ UNCHANGED <<serverVars, pushes, connected, reading, filter, selected, guard, failing, astray>>

\* markLoggedOut; a row without a session is marked at once.
LogoutAccount(a) ==
  /\ a \in DOMAIN rows
  /\ IF rows[a].attemptId = 0
       THEN /\ rows' = [rows EXCEPT ![a].status = "offline"]
            /\ UNCHANGED <<requests, boundVars>>
       ELSE /\ Ask({[Request("logout", a) EXCEPT !.id = rows[a].attemptId]}) /\ UNCHANGED rows
  /\ UNCHANGED <<serverVars, pushes, connected, reading, filter, selected, guard, failing, astray>>

SubmitGuardCode ==
  /\ guard # 0
  /\ \E a \in Members : attempts[a].id = guard /\ Ask({[Request("guard", a) EXCEPT !.id = guard]})
  /\ UNCHANGED <<serverVars, pushes, connected, pageVars>>

\* deleteSelected, importAccountText.
DeleteSelected ==
  /\ selected # {}
  /\ Ask({[Request("cleanup", CHOOSE a \in selected : TRUE) EXCEPT !.accounts = selected]})
  /\ UNCHANGED <<serverVars, pushes, connected, pageVars>>
Import(a) ==
  /\ Ask({Request("upsert", a)}) /\ UNCHANGED <<serverVars, pushes, connected, pageVars>>

\* applyList: rows of before keep what they show; then only the visible stay
\* selected.
ApplyList(accounts) ==
  /\ rows' = [a \in accounts |-> IF a \in DOMAIN rows THEN rows[a] ELSE FreshRow]
  /\ reading' = reading + 1
  /\ selected' = {a \in selected \cap accounts : filter \in {"all", rows'[a].status}}
  /\ UNCHANGED <<filter, guard>>

SetFilter(f) ==
  /\ filter' = f /\ selected' = {a \in selected : f \in {"all", rows[a].status}}
  /\ UNCHANGED <<serverVars, netVars, rows, reading, guard, failing, astray, boundVars>>
Select(a) ==
  /\ a \in Visible /\ selected' = selected \cup {a}
  /\ UNCHANGED <<serverVars, netVars, rows, reading, filter, guard, failing, astray, boundVars>>

\* An answer comes back.
Arrived(r) ==
  /\ r \in requests /\ r.phase = "back"
  /\ \/ /\ r.kind \in {"login", "guard", "attempts"}
        /\ Merge(r.answer) /\ requests' = requests \ {r}
     \/ /\ r.kind = "logout" /\ requests' = requests \ {r}
        /\ rows' = IF IsShown(r) THEN [MergedRows(r.answer) EXCEPT ![r.account].status = "offline", ![r.account].attemptId = 0]
                   ELSE MergedRows(r.answer)
        /\ guard' = MergedGuard(r.answer) /\ astray' = MergedAstray(r.answer)
        /\ UNCHANGED <<reading, filter, selected, failing>>
     \/ /\ r.kind = "cleanup"
        /\ requests' = (requests \ {r}) \cup {Request("list", r.account)}
        /\ UNCHANGED pageVars
     \/ /\ r.kind \in {"list", "upsert"}
        /\ ApplyList(r.answer)
        /\ failing' = (failing /\ r.kind = "upsert")
        /\ astray' = (astray \cap r.answer) \cup {a \in r.answer \ DOMAIN rows : attempts[a].id # 0}
        /\ requests' = (requests \ {r}) \cup
             (IF r.kind = "list" THEN {[Request("attempts", r.account) EXCEPT !.reading = reading']} ELSE {})
  /\ UNCHANGED <<serverVars, pushes, connected, boundVars>>

\* No answer, or a refusal.  A failed login marks the row it was pressed on.
Lost(r) ==
  /\ r \in requests
  /\ requests' = (requests \ {r}) \cup (IF r.kind = "cleanup" THEN {Request("list", r.account)} ELSE {})
  /\ rows' = IF r.kind = "login" /\ IsShown(r) THEN [rows EXCEPT ![r.account].status = "failed"] ELSE rows
  /\ failing' = (failing \/ r.kind = "list")
  /\ astray' = CASE r.kind = "login" /\ (~IsShown(r) \/ r.phase = "back" \/ attempts[r.account].id # 0) -> astray \cup {r.account}
                 [] r.kind = "attempts" -> astray \cup {a \in DOMAIN rows : rows[a].n < attempts[a].n}
                 [] OTHER -> astray
  /\ UNCHANGED <<serverVars, pushes, connected, reading, filter, selected, guard, boundVars>>

\* The socket is cut; pushes on their way are lost.  With the server, its
\* sessions end too.
Cut ==
  /\ connected /\ cuts < MaxCuts /\ cuts' = cuts + 1
  /\ connected' = FALSE /\ pushes' = <<>>
  /\ UNCHANGED <<serverVars, requests, pageVars, called>>

\* Mutant: nothing is read after the socket is back.
OnlyConnected ==
  /\ ~connected /\ connected' = TRUE
  /\ UNCHANGED <<serverVars, pushes, requests, pageVars, boundVars>>

Reconnected ==
  /\ ~connected /\ connected' = TRUE
  /\ requests' = requests \cup {Request("attempts", CHOOSE a \in Members : TRUE)}
  /\ UNCHANGED <<serverVars, pushes, pageVars, boundVars>>

AccountsRestart ==
  /\ ~connected
  /\ attempts' = [a \in Members |-> NoAttempt]
  /\ astray' = astray \cup {a \in DOMAIN rows : rows[a].attemptId # 0}
  /\ UNCHANGED <<listed, sent, netVars, rows, reading, filter, selected, guard, failing, boundVars>>

AccountsInit ==
  /\ listed = Members /\ attempts = [a \in Members |-> NoAttempt] /\ sent = 0
  /\ pushes = <<>> /\ connected = TRUE /\ requests = {}
  /\ rows = [a \in Members |-> FreshRow] /\ reading = 1 /\ filter = "all" /\ selected = {}
  /\ guard = 0 /\ failing = FALSE /\ astray = {} /\ called = 0 /\ cuts = 0

AccountsNext ==
  \/ \E a \in Members :
       SessionChanges(a) \/ SessionStarts(a) \/ LoginAccount(a) \/ LogoutAccount(a) \/ Import(a) \/ Select(a)
  \/ \E r \in requests : Handled(r) \/ Arrived(r) \/ Lost(r)
  \/ \E f \in {"all", "online"} : SetFilter(f)
  \/ Pushed \/ SubmitGuardCode \/ DeleteSelected \/ Cut \/ Reconnected \/ AccountsRestart

AccountsSpec == AccountsInit /\ [][AccountsNext]_accountsVars

-----------------------------------------------------------------------------
\* With nothing on its way, each row shows what the server has: merging that
\* again would change nothing.  Astray are rows that took an answer older than
\* a push; whose login failed while the list was read anew, or whose session
\* began although the answer was lost; whose session ended with the server or
\* with the account; or for which the reading after a cut failed.
RowsFollow ==
  connected /\ pushes = <<>> /\ requests = {} /\ ~failing =>
    \A a \in DOMAIN rows \ astray : Collapse(attempts[a].status, rows[a].status) = rows[a].status

\* "Only what the table shows stays selected, or a batch would act on accounts
\* nobody sees" (accounts.ts:86).
SelectedIsVisible == selected \subseteq Visible

-----------------------------------------------------------------------------
(* Why: of every account that is not astray the row is the session's       *)
(* latest state, or that state is on its way.                              *)
Statuses == {"none", "connecting", "guard", "online", "failed", "out"}
Kinds == {"login", "logout", "guard", "attempts", "cleanup", "list", "upsert"}

Rows == [status : {"offline", "connecting", "online", "failed"}, attemptId : Nat, n : Nat]
Sessions == {NoAttempt} \cup {s \in [id : Nat \ {0}, status : Statuses \ {"none"}, n : Nat] : s.id <= s.n}
Tidings == [account : Members, id : Nat \ {0}, status : Statuses, n : Nat]

\* What is told of a session, and the session told of last.
IsNews(x) ==
  /\ x \in Tidings /\ x.id <= x.n /\ x.n <= sent
  /\ x.id = attempts[x.account].id => x.n <= attempts[x.account].n
  /\ x.n = attempts[x.account].n => x = Told(x.account, attempts[x.account])
Speaks(r) == \E x \in r.answer : x.account = r.account /\ (r.kind = "logout" => x.status = "out")
IsRequest(r) ==
  /\ r \in [kind : Kinds, account : {r.account}, accounts : {r.accounts}, id : {r.id}, reading : {r.reading},
            phase : {"there", "back"}, answer : {r.answer}]
  /\ r.kind \in {"cleanup", "upsert"} => r.accounts \subseteq Members
  /\ r.kind \in {"login", "logout", "guard"} => r.account \in Members
  /\ r.kind = "logout" => r.id # 0
  /\ r.phase = "back" /\ r.kind \in {"list", "upsert"} => r.answer \subseteq Members
  /\ r.phase = "back" /\ r.kind \in {"login", "logout"} => Speaks(r)
  /\ r.phase = "back" /\ r.kind \in {"login", "logout", "guard", "attempts"} =>
       (\A x \in r.answer : IsNews(x)) /\ \A x, y \in r.answer : x.account = y.account => x = y
AccountsTyped ==
  /\ listed \subseteq Members /\ sent \in Nat /\ selected \subseteq Members
  /\ attempts \in [Members -> Sessions] /\ \A a \in Members : attempts[a].n <= sent
  /\ \A r \in requests : IsRequest(r)
  /\ pushes \in Seq(Tidings) /\ \A i \in 1..Len(pushes) : IsNews(pushes[i])
  /\ rows \in [DOMAIN rows -> Rows] /\ DOMAIN rows \subseteq Members
  /\ \A a \in DOMAIN rows : rows[a].attemptId <= rows[a].n /\ rows[a].n <= sent

LoggingIn(a) == \E r \in requests : r.kind = "login" /\ r.account = a
Coming(a) ==
  \/ ~connected \/ failing
  \/ \E i \in 1..Len(pushes) : pushes[i].account = a /\ pushes[i].n = attempts[a].n
  \/ \E r \in requests : /\ r.kind = "attempts"
                         /\ r.phase = "there" \/ \E x \in r.answer : x.account = a /\ x.n = attempts[a].n
\* A session that ended unsaid shows nothing of itself, or is astray.
Follows(a) ==
  /\ rows[a].n < attempts[a].n => Coming(a)
  /\ rows[a].n > attempts[a].n => attempts[a].id = 0 /\ rows[a].attemptId = 0
  /\ rows[a].n >= attempts[a].n =>
       /\ Collapse(attempts[a].status, rows[a].status) = rows[a].status \/ LoggingIn(a)
       /\ rows[a].attemptId = 0 => attempts[a].status \in {"none", "out"}
  /\ rows[a].attemptId = 0 => rows[a].status \in {"offline", "failed"} \/ LoggingIn(a)
AccountsInv == AccountsTyped /\ \A a \in DOMAIN rows \ astray : Follows(a)
-----------------------------------------------------------------------------
(***************************************************************************)
(* Proofs.                                                                 *)
(***************************************************************************)
LEMMA Collapses ==
  ASSUME NEW s \in Statuses, NEW p \in {"offline", "connecting", "online", "failed"}
  PROVE  /\ Collapse(s, p) \in {"offline", "connecting", "online", "failed"}
         /\ Collapse(s, Collapse(s, p)) = Collapse(s, p)
<1>1. CASE s = "online"
  BY <1>1 DEF Collapse
<1>2. CASE s = "out"
  BY <1>2 DEF Collapse
<1>3. CASE s = "failed"
  BY <1>3 DEF Collapse
<1>4. CASE s \in {"connecting", "guard"}
  BY <1>4 DEF Collapse
<1>5. CASE s = "none"
  BY <1>5 DEF Collapse
<1> QED BY <1>1, <1>2, <1>3, <1>4, <1>5 DEF Statuses

LEMMA SessionsAre ==
  ASSUME NEW s \in Sessions
  PROVE  /\ s.id \in Nat /\ s.status \in Statuses /\ s.n \in Nat /\ s.id <= s.n
         /\ s.id = 0 => s = NoAttempt
         /\ s.status = "none" => s.id = 0
  BY DEF Sessions, NoAttempt, Statuses

LEMMA PersonTyped ==
  ASSUME AccountsTyped, NEW a \in Members
  PROVE  /\ attempts[a] \in Sessions /\ attempts[a].n \in Nat /\ attempts[a].id \in Nat /\ attempts[a].status \in Statuses
         /\ attempts[a].id <= attempts[a].n /\ attempts[a].n <= sent /\ sent \in Nat
         /\ attempts[a].id = 0 => attempts[a] = NoAttempt
         /\ attempts[a].status = "none" => attempts[a].id = 0
<1>1. attempts[a] \in Sessions /\ attempts[a].n <= sent /\ sent \in Nat
  BY DEF AccountsTyped
<1> QED BY <1>1, SessionsAre

LEMMA RowTyped ==
  ASSUME AccountsTyped, NEW a \in DOMAIN rows
  PROVE  /\ a \in Members /\ rows[a] \in Rows /\ rows[a].status \in {"offline", "connecting", "online", "failed"}
         /\ rows[a].attemptId \in Nat /\ rows[a].n \in Nat /\ rows[a].attemptId <= rows[a].n /\ rows[a].n <= sent
<1>1. rows[a] \in Rows /\ a \in Members /\ rows[a].attemptId <= rows[a].n /\ rows[a].n <= sent
  BY DEF AccountsTyped
<1> QED BY <1>1 DEF Rows

LEMMA PeopleStart == AccountsInit => AccountsInv
<1> SUFFICES ASSUME AccountsInit PROVE AccountsInv
  OBVIOUS
<1>1. /\ listed = Members /\ attempts = [a \in Members |-> NoAttempt] /\ sent = 0 /\ pushes = <<>> /\ requests = {}
      /\ rows = [a \in Members |-> FreshRow] /\ selected = {}
  BY DEF AccountsInit
<1>2. NoAttempt \in Sessions /\ FreshRow \in Rows /\ NoAttempt.n = 0 /\ FreshRow.n = 0 /\ FreshRow.attemptId = 0
      /\ FreshRow.status = "offline" /\ NoAttempt.status = "none"
  BY DEF Sessions, Rows, NoAttempt, FreshRow
<1>3. pushes \in Seq(Tidings) /\ Len(pushes) = 0
  BY <1>1
<1>4. AccountsTyped
  <2>1. attempts \in [Members -> Sessions] /\ \A a \in Members : attempts[a].n <= sent
    BY <1>1, <1>2
  <2>2. /\ rows \in [DOMAIN rows -> Rows] /\ DOMAIN rows = Members
        /\ \A a \in DOMAIN rows : rows[a].attemptId <= rows[a].n /\ rows[a].n <= sent
    BY <1>1, <1>2
  <2> QED BY <1>1, <1>3, <2>1, <2>2 DEF AccountsTyped
<1>5. Collapse("none", "offline") = "offline"
  BY DEF Collapse
<1>6. ASSUME NEW a \in DOMAIN rows PROVE Follows(a)
  <2>1. rows[a] = FreshRow /\ attempts[a] = NoAttempt
    BY <1>1
  <2> QED BY <1>2, <1>5, <2>1 DEF Follows
<1> QED BY <1>4, <1>6 DEF AccountsInv

-----------------------------------------------------------------------------
(* The server.                                                             *)

\* A row whose session and whose news stay follows on.
LEMMA FollowsOn ==
  ASSUME NEW a, Follows(a), rows'[a] = rows[a], attempts'[a] = attempts[a], Coming(a) => Coming(a)', LoggingIn(a) => LoggingIn(a)'
  PROVE  Follows(a)'
  BY DEF Follows

LEMMA RequestsStand ==
  ASSUME NEW r, IsRequest(r), \A x : IsNews(x) => IsNews(x)'
  PROVE  IsRequest(r)'
  BY DEF IsRequest, Speaks

AttemptsStay == \A q \in requests : q.kind = "attempts" => q \in requests'

\* The next state of a session is news to all, and on its way if it can be.
LEMMA NewsIsTold ==
  ASSUME AccountsTyped, NEW a \in Members, NEW id \in Nat \ {0}, NEW status \in Statuses \ {"none"},
         id = attempts[a].id \/ id = sent + 1, News(a, id, status), connected' = connected
  PROVE  /\ attempts' \in [Members -> Sessions] /\ \A b \in Members : attempts'[b].n <= sent'
         /\ \A b \in Members : b # a => attempts'[b] = attempts[b]
         /\ attempts'[a] = [id |-> id, status |-> status, n |-> sent + 1] /\ sent' = sent + 1
         /\ \A x : IsNews(x) => IsNews(x)'
         /\ \A x : x = Told(a, attempts'[a]) => IsNews(x)'
         /\ pushes' \in Seq(Tidings) /\ \A i \in 1..Len(pushes') : IsNews(pushes[i])'
         /\ \A b \in Members : b # a => (Coming(b) /\ failing' = failing /\ AttemptsStay => Coming(b)')
         /\ Coming(a)'
<1> DEFINE s == [id |-> id, status |-> status, n |-> sent + 1]
<1>1. sent' = sent + 1 /\ attempts' = [attempts EXCEPT ![a] = s]
  BY DEF News
<1>2. sent \in Nat /\ attempts \in [Members -> Sessions] /\ pushes \in Seq(Tidings) /\ \A i \in 1..Len(pushes) : IsNews(pushes[i])
  BY DEF AccountsTyped
<1>3. id <= sent + 1 /\ sent + 1 \in Nat
  BY <1>2, PersonTyped
<1>4. s \in Sessions /\ s.id = id /\ s.n = sent + 1 /\ s.status = status
  BY <1>3 DEF Sessions
<1> HIDE DEF s
<1>5. attempts' \in [Members -> Sessions] /\ attempts'[a] = s /\ \A b \in Members : b # a => attempts'[b] = attempts[b]
  BY <1>1, <1>2, <1>4
<1>6. \A b \in Members : attempts'[b].n <= sent'
  <2>1. \A b \in Members : attempts[b].n \in Nat /\ attempts[b].n <= sent
    BY PersonTyped
  <2> QED BY <1>1, <1>2, <1>4, <1>5, <2>1
<1>7. ASSUME NEW x, IsNews(x) PROVE IsNews(x)'
  <2>1. x \in Tidings /\ x.account \in Members /\ x.id \in Nat /\ x.n \in Nat /\ x.id <= x.n /\ x.n <= sent
    BY <1>7 DEF IsNews, Tidings
  <2>2. x.n <= sent' /\ x.n # sent + 1 /\ x.n <= sent + 1 /\ x.id # sent + 1
    BY <1>1, <1>2, <2>1
  <2> QED BY <1>4, <1>5, <1>7, <2>1, <2>2 DEF IsNews
<1> DEFINE told == Told(a, s)
<1>8. told \in Tidings /\ told.account = a /\ told.id = id /\ told.n = sent + 1
  BY <1>3, <1>4 DEF Told, Tidings
<1> HIDE DEF told
<1>9. ASSUME NEW x, x = told PROVE IsNews(x)'
  <2>1. attempts'[x.account] = s /\ x = Told(x.account, attempts'[x.account])
    BY <1>5, <1>8, <1>9 DEF told
  <2> QED BY <1>1, <1>3, <1>4, <1>8, <1>9, <2>1 DEF IsNews
<1>10. CASE connected
  <2>1. pushes' = Append(pushes, told)
    BY <1>5, <1>10 DEF News, told
  <2>2. /\ pushes' \in Seq(Tidings) /\ Len(pushes') = Len(pushes) + 1 /\ pushes'[Len(pushes')] = told /\ Len(pushes) \in Nat
        /\ \A i \in 1..Len(pushes) : pushes'[i] = pushes[i]
    BY <1>2, <1>8, <2>1
  <2>3. ASSUME NEW i \in 1..Len(pushes') PROVE IsNews(pushes[i])'
    <3>1. CASE i \in 1..Len(pushes)
      BY <1>2, <1>7, <2>2, <3>1 DEF IsNews
    <3>2. CASE i \notin 1..Len(pushes)
      <4>1. pushes'[i] = told
        BY <2>2, <3>2
      <4> QED BY <1>9, <4>1 DEF IsNews
    <3> QED BY <3>1, <3>2
  <2>4. Coming(a)'
    <3>1. Len(pushes') \in 1..Len(pushes')
      BY <2>2
    <3> QED BY <1>4, <1>5, <1>8, <2>2, <3>1 DEF Coming
  <2>5. ASSUME NEW b \in Members, b # a, Coming(b), failing' = failing, AttemptsStay PROVE Coming(b)'
    <3>1. \A i \in 1..Len(pushes) : i \in 1..Len(pushes')
      BY <2>2
    <3> QED BY <1>5, <2>2, <2>5, <3>1 DEF Coming, AttemptsStay
  <2> QED BY <1>1, <1>4, <1>5, <1>6, <1>7, <1>9, <2>2, <2>3, <2>4, <2>5 DEF s, told
<1>11. CASE ~connected
  <2>1. pushes' = pushes
    BY <1>11 DEF News
  <2>2. \A b : Coming(b)'
    BY <1>11 DEF Coming
  <2>3. \A i \in 1..Len(pushes') : IsNews(pushes[i])'
    BY <1>2, <1>7, <2>1 DEF IsNews
  <2> QED BY <1>1, <1>2, <1>4, <1>5, <1>6, <1>7, <1>9, <2>1, <2>2, <2>3 DEF s, told
<1> QED BY <1>10, <1>11

LEMMA TellStep ==
  ASSUME AccountsInv, NEW a \in Members, NEW id \in Nat \ {0}, NEW status \in Statuses \ {"none"},
         id = attempts[a].id \/ id = sent + 1, News(a, id, status),
         UNCHANGED <<listed, connected, rows, selected, failing, astray>>,
         (\A x : IsNews(x) => IsNews(x)') /\ (\A x : x = Told(a, attempts'[a]) => IsNews(x)') => \A q \in requests' : IsRequest(q)',
         AttemptsStay, \A b : LoggingIn(b) => LoggingIn(b)'
  PROVE  AccountsInv'
<1>1. /\ attempts' \in [Members -> Sessions] /\ \A b \in Members : attempts'[b].n <= sent'
      /\ \A b \in Members : b # a => attempts'[b] = attempts[b]
      /\ attempts'[a] = [id |-> id, status |-> status, n |-> sent + 1] /\ sent' = sent + 1
      /\ \A x : IsNews(x) => IsNews(x)'
      /\ \A x : x = Told(a, attempts'[a]) => IsNews(x)'
      /\ pushes' \in Seq(Tidings) /\ \A i \in 1..Len(pushes') : IsNews(pushes[i])'
      /\ \A b \in Members : b # a => (Coming(b) => Coming(b)')
      /\ Coming(a)'
  BY NewsIsTold DEF AccountsInv
<1>2. AccountsTyped /\ sent \in Nat
  BY DEF AccountsInv, AccountsTyped
<1>3. AccountsTyped'
  <2>1. \A b \in DOMAIN rows' : rows'[b].attemptId <= rows'[b].n /\ rows'[b].n <= sent'
    <3>1. \A b \in DOMAIN rows : rows[b].attemptId <= rows[b].n /\ rows[b].n \in Nat /\ rows[b].n <= sent
      BY <1>2, RowTyped
    <3> QED BY <1>1, <1>2, <3>1
  <2>2. \A q \in requests' : IsRequest(q)'
    BY <1>1
  <2>3. sent' \in Nat
    BY <1>1, <1>2
  <2> QED BY <1>1, <1>2, <2>1, <2>2, <2>3 DEF AccountsTyped
<1>4. ASSUME NEW b \in DOMAIN rows' \ astray' PROVE Follows(b)'
  <2>1. Follows(b) /\ b \in Members /\ rows[b].n \in Nat /\ rows[b].n <= sent
    BY <1>2, <1>4, RowTyped DEF AccountsInv
  <2>2. CASE b # a
    BY <1>1, <2>1, <2>2, FollowsOn
  <2>3. CASE b = a
    <3>1. rows'[b] = rows[b] /\ rows[b].n < attempts'[b].n /\ ~(rows[b].n > attempts'[b].n) /\ ~(rows[b].n >= attempts'[b].n)
      BY <1>1, <1>2, <2>1, <2>3
    <3> QED BY <1>1, <2>1, <2>3, <3>1 DEF Follows
  <2> QED BY <2>2, <2>3
<1> QED BY <1>3, <1>4 DEF AccountsInv

LEMMA PeopleSessionSteps == ASSUME AccountsInv, NEW a \in Members, SessionChanges(a) \/ SessionStarts(a) PROVE AccountsInv'
<1>0. /\ attempts[a].id \in Nat /\ attempts[a].status \in Statuses /\ sent \in Nat /\ (attempts[a].status = "none" => attempts[a].id = 0)
      /\ (attempts[a].id = 0 => attempts[a] = NoAttempt) /\ \A q \in requests : IsRequest(q)
  BY PersonTyped DEF AccountsInv, AccountsTyped
<1>1. UNCHANGED <<listed, connected, rows, selected, failing, astray, requests>>
  BY DEF SessionChanges, SessionStarts, pageVars
<1>2. AttemptsStay /\ \A b : LoggingIn(b) => LoggingIn(b)'
  BY <1>1 DEF AttemptsStay, LoggingIn
<1>3. (\A x : IsNews(x) => IsNews(x)') => \A q \in requests' : IsRequest(q)'
  BY <1>0, <1>1, RequestsStand
<1>4. CASE SessionChanges(a)
  <2>1. PICK status \in Following[attempts[a].status] : News(a, attempts[a].id, status)
    BY <1>4 DEF SessionChanges
  <2>2. status \in Statuses \ {"none"} /\ attempts[a].status # "none"
    BY <1>0, <2>1 DEF Following, Statuses
  <2>3. attempts[a].id # 0
    BY <1>0, <2>2 DEF NoAttempt
  <2> QED BY <1>0, <1>1, <1>2, <1>3, <2>1, <2>2, <2>3, TellStep
<1>5. CASE SessionStarts(a)
  <2>1. News(a, sent + 1, "connecting") /\ sent + 1 \in Nat \ {0} /\ "connecting" \in Statuses \ {"none"}
    BY <1>0, <1>5 DEF SessionStarts, Statuses
  <2> QED BY <1>0, <1>1, <1>2, <1>3, <2>1, TellStep
<1> QED BY <1>4, <1>5

\* What a handled request comes back as.
LEMMA HandledIs ==
  ASSUME AccountsInv, NEW r \in requests, r.phase = "there", NEW answer, Back(r, answer)
  PROVE  \E t :
           /\ requests' = (requests \ {r}) \cup {t}
           /\ t.kind = r.kind /\ t.account = r.account /\ t.id = r.id /\ t.phase = "back" /\ t.answer = answer
           /\ t \in [kind : Kinds, account : {t.account}, accounts : {r.accounts}, id : {t.id}, reading : {t.reading},
                     phase : {"there", "back"}, answer : {t.answer}]
           /\ IsRequest(r)
           /\ \A b : LoggingIn(b) => LoggingIn(b)'
           /\ r.kind # "attempts" => AttemptsStay
<1> DEFINE t == [r EXCEPT !.phase = "back", !.answer = answer]
<1>1. IsRequest(r)
  BY DEF AccountsInv, AccountsTyped
<1>2. r \in [kind : Kinds, account : {r.account}, accounts : {r.accounts}, id : {r.id}, reading : {r.reading},
             phase : {"there", "back"}, answer : {r.answer}]
  BY <1>1 DEF IsRequest
<1>3. /\ t.kind = r.kind /\ t.account = r.account /\ t.id = r.id /\ t.phase = "back" /\ t.answer = answer
      /\ t.accounts = r.accounts /\ t.reading = r.reading
  BY <1>2
<1>4. t \in [kind : Kinds, account : {t.account}, accounts : {r.accounts}, id : {t.id}, reading : {t.reading},
             phase : {"there", "back"}, answer : {t.answer}]
  BY <1>2, <1>3
<1>5. requests' = (requests \ {r}) \cup {t}
  BY DEF Back
<1> HIDE DEF t
<1>6. \A b : LoggingIn(b) => LoggingIn(b)'
  BY <1>3, <1>5 DEF LoggingIn
<1>7. r.kind # "attempts" => AttemptsStay
  BY <1>5 DEF AttemptsStay
<1> QED BY <1>1, <1>3, <1>4, <1>5, <1>6, <1>7 DEF t

LEMMA SpokenStep ==
  ASSUME AccountsInv, NEW r \in requests, r.phase = "there", HandleLogin(r) \/ HandleLogout(r) \/ HandleGuard(r),
         UNCHANGED <<connected, rows, selected, failing>>
  PROVE  AccountsInv'
<1> DEFINE a == r.account
           answer == Answer(a)
<1>1. Back(r, answer) /\ UNCHANGED <<listed, astray>> /\ r.kind \in {"login", "logout", "guard"}
  BY DEF HandleLogin, HandleLogout, HandleGuard
<1> HIDE DEF answer
<1>2. PICK t :
           /\ requests' = (requests \ {r}) \cup {t}
           /\ t.kind = r.kind /\ t.account = r.account /\ t.id = r.id /\ t.phase = "back" /\ t.answer = answer
           /\ t \in [kind : Kinds, account : {t.account}, accounts : {r.accounts}, id : {t.id}, reading : {t.reading},
                     phase : {"there", "back"}, answer : {t.answer}]
           /\ IsRequest(r)
           /\ \A b : LoggingIn(b) => LoggingIn(b)'
           /\ r.kind # "attempts" => AttemptsStay
  BY <1>1, HandledIs
<1>3. /\ a \in Members /\ AttemptsStay /\ (r.kind = "logout" => r.id # 0) /\ \A q \in requests : IsRequest(q)
  BY <1>1, <1>2 DEF IsRequest, AccountsInv, AccountsTyped
<1>4. /\ attempts[a].id \in Nat /\ attempts[a].status \in Statuses /\ sent \in Nat /\ (attempts[a].status = "none" => attempts[a].id = 0)
      /\ attempts[a].id = 0 => attempts[a] = NoAttempt
  BY <1>3, PersonTyped DEF AccountsInv
<1>5. answer = {Told(a, attempts'[a])} /\ \A x : x = Told(a, attempts'[a]) => x.account = a /\ x.status = attempts'[a].status
  BY DEF answer, Answer, Told
<1> HIDE DEF a
\* The answer is the session as it is then.
<1>6. ASSUME \A x : IsNews(x) => IsNews(x)', \A x : x = Told(a, attempts'[a]) => IsNews(x)', r.kind = "logout" => attempts'[a].status = "out"
      PROVE  \A q \in requests' : IsRequest(q)'
  <2>1. ASSUME NEW q \in requests PROVE IsRequest(q)'
    BY <1>3, <1>6, RequestsStand
  <2>2. IsRequest(t)'
    <3>1. /\ \A x \in t.answer : IsNews(x)'
          /\ \A x, y \in t.answer : x = y
      BY <1>2, <1>5, <1>6
    <3>2. Speaks(t)
      BY <1>2, <1>5, <1>6 DEF Speaks, a
    <3> QED BY <1>1, <1>2, <1>3, <3>1, <3>2 DEF IsRequest, Speaks, a
  <2> QED BY <1>2, <2>1, <2>2
<1>7. ASSUME NEW id \in Nat \ {0}, NEW status \in Statuses \ {"none"}, id = attempts[a].id \/ id = sent + 1, News(a, id, status),
             r.kind = "logout" => status = "out"
      PROVE  AccountsInv'
  <2>1. attempts'[a].status = status
    <3>1. attempts \in [Members -> Sessions]
      BY DEF AccountsInv, AccountsTyped
    <3>2. attempts' = [attempts EXCEPT ![a] = [id |-> id, status |-> status, n |-> sent']]
      BY <1>7 DEF News
    <3> QED BY <1>3, <3>1, <3>2
  <2>2. (\A x : IsNews(x) => IsNews(x)') /\ (\A x : x = Told(a, attempts'[a]) => IsNews(x)') => \A q \in requests' : IsRequest(q)'
    BY <1>6, <1>7, <2>1
  <2> QED BY <1>1, <1>2, <1>3, <1>7, <2>2, TellStep
<1>8. CASE HandleLogin(r) /\ Active(a)
  <2>1. UNCHANGED <<attempts, sent, pushes>> /\ r.kind = "login"
    BY <1>8 DEF HandleLogin, a
  <2>2. \A x : IsNews(x) => IsNews(x)'
    BY <2>1 DEF IsNews
  <2>3. \A x : x = Told(a, attempts'[a]) => IsNews(x)'
    <3>1. attempts[a].id # 0 /\ attempts[a].n \in Nat /\ attempts[a].n <= sent /\ attempts[a].id <= attempts[a].n
      BY <1>3, <1>4, <1>8, PersonTyped DEF Active, NoAttempt, AccountsInv
    <3> DEFINE x == Told(a, attempts[a])
    <3>2. x \in Tidings /\ x.account = a /\ x.id = attempts[a].id /\ x.n = attempts[a].n
      BY <1>3, <1>4, <3>1 DEF Told, Tidings
    <3>3. IsNews(x)
      <4>1. x = Told(x.account, attempts[x.account])
        BY <3>2
      <4> HIDE DEF x
      <4> QED BY <3>1, <3>2, <4>1 DEF IsNews
    <3> QED BY <2>1, <2>2, <3>3
  <2>4. \A q \in requests' : IsRequest(q)'
    BY <1>6, <2>1, <2>2, <2>3
  <2>5. AccountsTyped'
    BY <1>1, <2>1, <2>2, <2>4 DEF AccountsInv, AccountsTyped
  <2>6. ASSUME NEW b \in DOMAIN rows' \ astray' PROVE Follows(b)'
    <3>1. Follows(b) /\ (Coming(b) => Coming(b)')
      BY <1>1, <1>3, <2>1, <2>6 DEF AccountsInv, Coming, AttemptsStay
    <3> QED BY <1>2, <2>1, <3>1, FollowsOn
  <2> QED BY <2>5, <2>6 DEF AccountsInv
<1>9. CASE HandleLogin(r) /\ ~Active(a)
  <2>1. News(a, sent + 1, "connecting") /\ sent + 1 \in Nat \ {0} /\ "connecting" \in Statuses \ {"none"} /\ r.kind = "login"
    BY <1>4, <1>9 DEF HandleLogin, Statuses, a
  <2> QED BY <1>7, <2>1
<1>10. CASE HandleLogout(r)
  <2>1. News(a, r.id, "out") /\ r.id = attempts[a].id /\ r.id # 0 /\ "out" \in Statuses \ {"none"}
    BY <1>3, <1>10 DEF HandleLogout, Statuses, a
  <2> QED BY <1>4, <1>7, <2>1
<1>11. CASE HandleGuard(r)
  <2>1. News(a, r.id, "connecting") /\ attempts[a] = [attempts[a] EXCEPT !.id = r.id, !.status = "guard"] /\ r.kind = "guard"
    BY <1>11 DEF HandleGuard, a
  <2>2. r.id = attempts[a].id /\ attempts[a].status = "guard"
    <3>1. attempts[a] \in Sessions
      BY <1>3, PersonTyped DEF AccountsInv
    <3>2. attempts[a] \in [id : Nat, status : Statuses, n : Nat]
      BY <3>1 DEF Sessions, NoAttempt, Statuses
    <3> QED BY <2>1, <3>2
  <2>3. r.id # 0 /\ "connecting" \in Statuses \ {"none"}
    BY <1>4, <2>2 DEF NoAttempt, Statuses
  <2> QED BY <1>4, <1>7, <2>1, <2>2, <2>3
<1> QED BY <1>8, <1>9, <1>10, <1>11

\* The sessions end unsaid: those accounts are astray.
LEMMA CleanupStep ==
  ASSUME AccountsInv, NEW r \in requests, r.phase = "there", HandleCleanup(r), UNCHANGED <<connected, rows, selected, failing>>
  PROVE  AccountsInv'
<1>1. /\ Back(r, {}) /\ UNCHANGED <<sent, pushes>> /\ r.kind = "cleanup" /\ listed' = listed \ r.accounts
      /\ attempts' = [a \in Members |-> IF a \in r.accounts THEN NoAttempt ELSE attempts[a]]
      /\ astray' = astray \cup r.accounts
  BY DEF HandleCleanup
<1>2. PICK t :
           /\ requests' = (requests \ {r}) \cup {t}
           /\ t.kind = r.kind /\ t.account = r.account /\ t.id = r.id /\ t.phase = "back" /\ t.answer = {}
           /\ t \in [kind : Kinds, account : {t.account}, accounts : {r.accounts}, id : {t.id}, reading : {t.reading},
                     phase : {"there", "back"}, answer : {t.answer}]
           /\ IsRequest(r)
           /\ \A b : LoggingIn(b) => LoggingIn(b)'
           /\ r.kind # "attempts" => AttemptsStay
  BY <1>1, HandledIs
<1>3. NoAttempt \in Sessions /\ NoAttempt.n = 0 /\ NoAttempt.id = 0
  BY DEF Sessions, NoAttempt
<1>4. attempts' \in [Members -> Sessions] /\ \A a \in Members : attempts'[a].n <= sent'
  <2>1. \A a \in Members : attempts[a] \in Sessions /\ attempts[a].n <= sent /\ sent \in Nat
    BY PersonTyped DEF AccountsInv
  <2> QED BY <1>1, <1>3, <2>1
<1>5. ASSUME NEW x, IsNews(x) PROVE IsNews(x)'
  <2>1. x \in Tidings /\ x.account \in Members /\ x.id \in Nat \ {0} /\ x.n \in Nat /\ x.id <= x.n
    BY <1>5 DEF IsNews, Tidings
  <2>2. CASE x.account \in r.accounts
    <3>1. attempts'[x.account] = NoAttempt /\ x.id # 0 /\ x.n # 0
      BY <1>1, <2>1, <2>2
    <3> QED BY <1>1, <1>3, <1>5, <3>1 DEF IsNews
  <2>3. CASE x.account \notin r.accounts
    <3>1. attempts'[x.account] = attempts[x.account]
      BY <1>1, <2>1, <2>3
    <3> QED BY <1>1, <1>5, <3>1 DEF IsNews
  <2> QED BY <2>2, <2>3
<1>6. \A q \in requests' : IsRequest(q)'
  <2>1. \A q \in requests : IsRequest(q)'
    BY <1>5, RequestsStand DEF AccountsInv, AccountsTyped
  <2>2. IsRequest(t)'
    BY <1>1, <1>2 DEF IsRequest
  <2> QED BY <1>2, <2>1, <2>2
<1>7. AccountsTyped'
  <2>1. \A i \in 1..Len(pushes') : IsNews(pushes[i])'
    <3>1. \A i \in 1..Len(pushes) : IsNews(pushes[i])
      BY DEF AccountsInv, AccountsTyped
    <3> QED BY <1>1, <1>5, <3>1 DEF IsNews
  <2> QED BY <1>1, <1>4, <1>6, <2>1 DEF AccountsInv, AccountsTyped
<1>8. ASSUME NEW a \in DOMAIN rows' \ astray' PROVE Follows(a)'
  <2>1. Follows(a) /\ a \in Members /\ a \notin r.accounts
    BY <1>1, <1>8 DEF AccountsInv, AccountsTyped
  <2>2. attempts'[a] = attempts[a] /\ (Coming(a) => Coming(a)')
    <3>1. attempts'[a] = attempts[a]
      BY <1>1, <2>1
    <3> QED BY <1>1, <1>2, <3>1 DEF Coming, AttemptsStay
  <2> QED BY <1>2, <2>1, <2>2, FollowsOn
<1> QED BY <1>7, <1>8 DEF AccountsInv

LEMMA ReadStep ==
  ASSUME AccountsInv, NEW r \in requests, r.phase = "there", HandleRead(r), UNCHANGED <<connected, rows, selected, failing>>
  PROVE  AccountsInv'
<1> DEFINE sessions == {Told(a, attempts[a]) : a \in {b \in Members : attempts[b].id # 0}}
           answer == IF r.kind = "attempts" THEN sessions ELSE listed'
<1>1. /\ Back(r, answer) /\ UNCHANGED <<attempts, sent, pushes, astray>> /\ r.kind \in {"list", "upsert", "attempts"}
      /\ listed' = listed \/ listed' = listed \cup r.accounts
  BY DEF HandleRead
<1>2. /\ \A x \in sessions : IsNews(x)
      /\ \A x, y \in sessions : x.account = y.account => x = y
      /\ \A b \in Members : attempts[b].id # 0 => \E x \in sessions : x.account = b /\ x.n = attempts[b].n
  <2>1. ASSUME NEW b \in Members, attempts[b].id # 0
        PROVE  LET x == Told(b, attempts[b]) IN IsNews(x) /\ x.account = b /\ x.n = attempts[b].n
    <3> DEFINE x == Told(b, attempts[b])
    <3>1. /\ attempts[b].n \in Nat /\ attempts[b].n <= sent /\ attempts[b].id <= attempts[b].n
          /\ attempts[b].id \in Nat /\ attempts[b].status \in Statuses
      BY PersonTyped DEF AccountsInv
    <3>2. x \in Tidings /\ x.account = b /\ x.id = attempts[b].id /\ x.n = attempts[b].n
      BY <2>1, <3>1 DEF Told, Tidings
    <3>3. x = Told(x.account, attempts[x.account])
      BY <3>2
    <3> HIDE DEF x
    <3>4. IsNews(x)
      BY <3>1, <3>2, <3>3 DEF IsNews
    <3> QED BY <3>2, <3>4 DEF x
  <2> QED BY <2>1
<1> HIDE DEF sessions
<1>3. /\ r.kind = "attempts" => answer = sessions
      /\ r.kind # "attempts" => answer = listed'
  OBVIOUS
<1> HIDE DEF answer
<1>4. PICK t :
           /\ requests' = (requests \ {r}) \cup {t}
           /\ t.kind = r.kind /\ t.account = r.account /\ t.id = r.id /\ t.phase = "back" /\ t.answer = answer
           /\ t \in [kind : Kinds, account : {t.account}, accounts : {r.accounts}, id : {t.id}, reading : {t.reading},
                     phase : {"there", "back"}, answer : {t.answer}]
           /\ IsRequest(r)
           /\ \A b : LoggingIn(b) => LoggingIn(b)'
           /\ r.kind # "attempts" => AttemptsStay
  BY <1>1, HandledIs
<1>5. listed' \subseteq Members
  <2>1. r.kind = "upsert" => r.accounts \subseteq Members
    BY <1>4 DEF IsRequest
  <2>2. listed' = IF r.kind = "upsert" THEN listed \cup r.accounts ELSE listed
    BY DEF HandleRead
  <2> QED BY <2>1, <2>2 DEF AccountsInv, AccountsTyped
<1>6. \A x : IsNews(x) => IsNews(x)'
  BY <1>1 DEF IsNews
<1>7. \A q \in requests' : IsRequest(q)'
  <2>1. \A q \in requests : IsRequest(q)'
    BY <1>6, RequestsStand DEF AccountsInv, AccountsTyped
  <2>2. IsRequest(t)'
    <3>1. CASE r.kind = "attempts"
      BY <1>2, <1>3, <1>4, <1>6, <3>1 DEF IsRequest
    <3>2. CASE r.kind # "attempts"
      BY <1>1, <1>3, <1>4, <1>5, <3>2 DEF IsRequest
    <3> QED BY <3>1, <3>2
  <2> QED BY <1>4, <2>1, <2>2
<1>8. AccountsTyped'
  BY <1>1, <1>5, <1>6, <1>7 DEF AccountsInv, AccountsTyped
<1>9. ASSUME NEW a \in DOMAIN rows' \ astray' PROVE Follows(a)'
  <2>1. Follows(a) /\ a \in Members /\ rows[a].n \in Nat
    BY <1>1, <1>9, RowTyped DEF AccountsInv
  <2>2. CASE attempts[a].id # 0
    <3>1. Coming(a) => Coming(a)'
      <4>1. ASSUME NEW q \in requests, q.kind = "attempts", q.phase = "there" \/ \E x \in q.answer : x.account = a /\ x.n = attempts[a].n
            PROVE  Coming(a)'
        <5>1. CASE q = r
          BY <1>1, <1>2, <1>3, <1>4, <2>1, <2>2, <4>1, <5>1 DEF Coming
        <5>2. CASE q # r
          BY <1>1, <1>4, <4>1, <5>2 DEF Coming
        <5> QED BY <5>1, <5>2
      <4>2. CASE ~connected \/ failing \/ \E i \in 1..Len(pushes) : pushes[i].account = a /\ pushes[i].n = attempts[a].n
        BY <1>1, <4>2 DEF Coming
      <4> QED BY <4>1, <4>2 DEF Coming
    <3> QED BY <1>1, <1>4, <2>1, <3>1, FollowsOn
  <2>3. CASE attempts[a].id = 0
    <3>1. attempts[a].n = 0 /\ attempts'[a] = attempts[a] /\ rows'[a] = rows[a]
      BY <1>1, <2>1, <2>3, PersonTyped DEF NoAttempt, AccountsInv
    <3>2. ~(rows'[a].n < attempts'[a].n)
      BY <2>1, <3>1
    <3> QED BY <1>4, <2>1, <3>1, <3>2 DEF Follows
  <2> QED BY <2>2, <2>3
<1> QED BY <1>8, <1>9 DEF AccountsInv

LEMMA PeopleHandled == ASSUME AccountsInv, NEW r \in requests, Handled(r) PROVE AccountsInv'
<1>1. UNCHANGED <<connected, rows, selected, failing>> /\ r.phase = "there"
  BY DEF Handled
<1> QED BY <1>1, SpokenStep, CleanupStep, ReadStep DEF Handled

-----------------------------------------------------------------------------
(* The news that reach the page.                                           *)

\* A set of news, one of an account.
Tells(news) == (\A x \in news : IsNews(x)) /\ \A x, y \in news : x.account = y.account => x = y

\* Who is not led astray was told the latest, or nothing old.
LEMMA PersonNotAstray ==
  ASSUME AccountsTyped, NEW news, Tells(news), NEW b \in DOMAIN rows, b \notin MergedAstray(news)
  PROVE  /\ b \notin astray \/ \E y \in news : y.account = b /\ y.n = attempts[b].n
         /\ \A x \in news : x.account = b => x.n >= rows[b].n /\ x.id = attempts[b].id
<1> DEFINE latest == {x.account : x \in {y \in news : y.n = attempts[y.account].n}}
           wrong == {x.account : x \in {y \in news : y.account \in DOMAIN rows /\ (y.n < rows[y.account].n \/ y.id # attempts[y.account].id)}}
<1>1. b \notin (astray \ latest) /\ b \notin wrong
  BY DEF MergedAstray
<1>2. b \notin astray \/ \E y \in news : y.account = b /\ y.n = attempts[b].n
  BY <1>1
<1>3. ASSUME NEW x \in news, x.account = b PROVE x.n >= rows[b].n /\ x.id = attempts[b].id
  <2>1. ~(x.n < rows[b].n) /\ x.id = attempts[b].id
    BY <1>1, <1>3
  <2>2. x.n \in Nat /\ rows[b].n \in Nat
    BY RowTyped DEF Tells, IsNews, Tidings
  <2> QED BY <2>1, <2>2
<1> QED BY <1>2, <1>3

\* The row a told state makes of one; a logout's ends without a session.
RowBecomes(row, x, old) ==
  \/ row = MergedRow(old, x)
  \/ x.status = "out" /\ row = [MergedRow(old, x) EXCEPT !.status = "offline", !.attemptId = 0]

\* A row after its news; after those of a logout it shows no session.
LEMMA RowMerged ==
  ASSUME AccountsInv, NEW news, Tells(news), NEW x \in news, NEW b \in DOMAIN rows, x.account = b, b \notin MergedAstray(news),
         NEW row, RowBecomes(row, x, rows[b])
  PROVE  /\ row.n = x.n /\ x.n <= attempts[b].n
         /\ x.n < attempts[b].n => Coming(b)
         /\ x.n = attempts[b].n =>
              /\ Collapse(attempts[b].status, row.status) = row.status
              /\ row.attemptId = 0 => attempts[b].status = "out"
         /\ row.attemptId = 0 => row.status = "offline"
<1>1. /\ x \in Tidings /\ x.id \in Nat \ {0} /\ x.status \in Statuses /\ x.n \in Nat
      /\ x.id = attempts[b].id => x.n <= attempts[b].n
      /\ x.n = attempts[b].n => x = Told(b, attempts[b])
  BY DEF Tells, IsNews, Tidings
<1>2. x.n >= rows[b].n /\ x.id = attempts[b].id
  BY PersonNotAstray DEF AccountsInv
<1>3. rows[b].n \in Nat /\ attempts[b].n \in Nat /\ rows[b].status \in {"offline", "connecting", "online", "failed"}
  BY RowTyped, PersonTyped DEF AccountsInv
<1> DEFINE m == MergedRow(rows[b], x)
<1>a. m = [status |-> m.status, attemptId |-> x.id, n |-> x.n] /\ m.status = Collapse(x.status, rows[b].status)
  BY DEF MergedRow
<1>b. row = m \/ (x.status = "out" /\ row = [m EXCEPT !.status = "offline", !.attemptId = 0])
  BY DEF RowBecomes
<1> HIDE DEF m
<1>c. ASSUME row = [m EXCEPT !.status = "offline", !.attemptId = 0]
      PROVE  row.n = x.n /\ row.status = "offline" /\ row.attemptId = 0
  <2>1. m \in [status : {m.status}, attemptId : {x.id}, n : {x.n}]
    BY <1>a
  <2> QED BY <1>c, <2>1
<1>4. row.n = x.n
  BY <1>a, <1>b, <1>c
<1>5. \/ row.attemptId = x.id /\ row.status = Collapse(x.status, rows[b].status)
      \/ x.status = "out" /\ row.status = "offline" /\ row.attemptId = 0
  BY <1>a, <1>b, <1>c
<1>6. Collapse("out", "offline") = "offline"
  BY DEF Collapse
<1>7. ASSUME x.n < attempts[b].n PROVE Coming(b)
  <2>1. \A y \in news : y.account = b => y.n # attempts[b].n
    BY <1>1, <1>3, <1>7 DEF Tells
  <2>2. b \notin astray
    BY <2>1, PersonNotAstray DEF AccountsInv
  <2>3. Follows(b)
    BY <2>2 DEF AccountsInv
  <2> QED BY <1>1, <1>2, <1>3, <1>7, <2>3 DEF Follows
<1>8. ASSUME x.n = attempts[b].n
      PROVE  Collapse(attempts[b].status, row.status) = row.status /\ (row.attemptId = 0 => attempts[b].status = "out")
  <2>1. x.status = attempts[b].status
    <3>1. x = Told(b, attempts[b])
      BY <1>1, <1>8
    <3>2. Told(b, attempts[b]).status = attempts[b].status
      BY DEF Told
    <3> QED BY <3>1, <3>2
  <2> QED BY <1>1, <1>3, <1>5, <1>6, <2>1, Collapses
<1> QED BY <1>1, <1>2, <1>4, <1>5, <1>7, <1>8

\* After news have been taken over, each row follows on.
LEMMA NewsTaken ==
  ASSUME AccountsInv, NEW news, Tells(news), DOMAIN rows' = DOMAIN rows, attempts' = attempts, astray' = MergedAstray(news),
         \A b \in DOMAIN rows : (\A x \in news : x.account # b) =>
             rows'[b] = rows[b] /\ (Coming(b) => Coming(b)') /\ (LoggingIn(b) => LoggingIn(b)'),
         \A b \in DOMAIN rows : \A x \in news : x.account = b => RowBecomes(rows'[b], x, rows[b]),
         \A b \in DOMAIN rows : \A x \in news : x.account = b /\ Coming(b) /\ x.n # attempts[b].n => Coming(b)'
  PROVE  \A b \in DOMAIN rows' \ astray' : Follows(b)'
<1> SUFFICES ASSUME NEW b \in DOMAIN rows' \ astray' PROVE Follows(b)'
  OBVIOUS
<1>0. b \in DOMAIN rows /\ b \notin MergedAstray(news) /\ b \in Members /\ AccountsTyped
  BY DEF AccountsInv, AccountsTyped
<1>1. CASE \E x \in news : x.account = b
  <2>1. PICK x \in news : x.account = b
    BY <1>1
  <2>2. RowBecomes(rows'[b], x, rows[b])
    BY <1>0, <2>1
  <2>a. Coming(b) /\ x.n # attempts[b].n => Coming(b)'
    BY <1>0, <2>1
  <2>b. PICK row : row = rows'[b]
    OBVIOUS
  <2>3. RowBecomes(row, x, rows[b])
    BY <2>2, <2>b
  <2>4. /\ row.n = x.n /\ x.n <= attempts[b].n
        /\ x.n < attempts[b].n => Coming(b)
        /\ x.n = attempts[b].n =>
             /\ Collapse(attempts[b].status, row.status) = row.status
             /\ row.attemptId = 0 => attempts[b].status = "out"
        /\ row.attemptId = 0 => row.status = "offline"
    BY <1>0, <2>1, <2>3, RowMerged
  <2>5. x.n \in Nat /\ attempts[b].n \in Nat
    BY <1>0, <2>1, PersonTyped DEF Tells, IsNews, Tidings
  <2>6. row.n < attempts[b].n => Coming(b)'
    BY <2>4, <2>5, <2>a
  <2>7. ~(row.n > attempts[b].n)
    BY <2>4, <2>5
  <2>8. row.n >= attempts[b].n =>
          /\ Collapse(attempts[b].status, row.status) = row.status
          /\ row.attemptId = 0 => attempts[b].status \in {"none", "out"}
    BY <2>4, <2>5
  <2>9. row.attemptId = 0 => row.status \in {"offline", "failed"}
    BY <2>4
  <2>10. rows'[b] = row /\ attempts'[b] = attempts[b]
    BY <2>b
  <2> QED BY <2>6, <2>7, <2>8, <2>9, <2>10 DEF Follows
<1>2. CASE \A x \in news : x.account # b
  <2>1. b \notin astray
    <3>1. b \notin astray \/ \E y \in news : y.account = b /\ y.n = attempts[b].n
      BY <1>0, PersonNotAstray
    <3> QED BY <1>2, <3>1
  <2>2. Follows(b) /\ rows'[b] = rows[b] /\ attempts'[b] = attempts[b] /\ (Coming(b) => Coming(b)') /\ (LoggingIn(b) => LoggingIn(b)')
    BY <1>0, <1>2, <2>1 DEF AccountsInv
  <2> QED BY <2>2, FollowsOn
<1> QED BY <1>1, <1>2

\* Rows stay rows.
LEMMA RowsStayTyped ==
  ASSUME AccountsInv, NEW news, Tells(news)
  PROVE  /\ MergedRows(news) \in [DOMAIN rows -> Rows] /\ DOMAIN MergedRows(news) = DOMAIN rows
         /\ \A b \in DOMAIN rows : MergedRows(news)[b].attemptId <= MergedRows(news)[b].n /\ MergedRows(news)[b].n <= sent
         /\ \A b \in DOMAIN rows : (\A x \in news : x.account # b) => MergedRows(news)[b] = rows[b]
         /\ \A x \in news : x.account \in DOMAIN rows => MergedRows(news)[x.account] = MergedRow(rows[x.account], x)
<1>1. ASSUME NEW b \in DOMAIN rows, \A x \in news : x.account # b PROVE MergedRows(news)[b] = rows[b]
  BY <1>1 DEF MergedRows
<1>2. ASSUME NEW x \in news, x.account \in DOMAIN rows PROVE MergedRows(news)[x.account] = MergedRow(rows[x.account], x)
  <2>1. (CHOOSE y \in news : y.account = x.account) = x
    BY DEF Tells
  <2> QED BY <1>2, <2>1 DEF MergedRows
<1>3. ASSUME NEW b \in DOMAIN rows
      PROVE  MergedRows(news)[b] \in Rows /\ MergedRows(news)[b].attemptId <= MergedRows(news)[b].n /\ MergedRows(news)[b].n <= sent
  <2>1. CASE \A x \in news : x.account # b
    BY <1>1, <2>1, RowTyped DEF AccountsInv
  <2>2. CASE \E x \in news : x.account = b
    <3>1. PICK x \in news : x.account = b
      BY <2>2
    <3>2. x.status \in Statuses /\ x.id \in Nat /\ x.n \in Nat /\ x.id <= x.n /\ x.n <= sent
      BY DEF Tells, IsNews, Tidings
    <3>3. Collapse(x.status, rows[b].status) \in {"offline", "connecting", "online", "failed"}
      BY <3>2, Collapses, RowTyped DEF AccountsInv
    <3>4. MergedRow(rows[b], x) \in Rows /\ MergedRow(rows[b], x).attemptId = x.id /\ MergedRow(rows[b], x).n = x.n
      BY <3>2, <3>3 DEF MergedRow, Rows
    <3> QED BY <1>2, <3>1, <3>2, <3>4
  <2> QED BY <2>1, <2>2
<1>4. MergedRows(news) \in [DOMAIN rows -> Rows]
  BY <1>3 DEF MergedRows
<1> QED BY <1>1, <1>2, <1>3, <1>4

\* News taken by a page that keeps its list.
LEMMA TakenStep ==
  ASSUME AccountsInv, NEW news, Tells(news), UNCHANGED <<listed, attempts, sent, selected>>, astray' = MergedAstray(news),
         requests' \subseteq requests, pushes' \in Seq(Tidings), \A i \in 1..Len(pushes') : IsNews(pushes'[i]),
         rows' \in [DOMAIN rows -> Rows], \A b \in DOMAIN rows : rows'[b].attemptId <= rows'[b].n /\ rows'[b].n <= sent,
         \A b \in DOMAIN rows : (\A x \in news : x.account # b) =>
             rows'[b] = rows[b] /\ (Coming(b) => Coming(b)') /\ (LoggingIn(b) => LoggingIn(b)'),
         \A b \in DOMAIN rows : \A x \in news : x.account = b => RowBecomes(rows'[b], x, rows[b]),
         \A b \in DOMAIN rows : \A x \in news : x.account = b /\ Coming(b) /\ x.n # attempts[b].n => Coming(b)'
  PROVE  AccountsInv'
<1>1. DOMAIN rows' = DOMAIN rows /\ attempts' = attempts /\ sent' = sent
  OBVIOUS
<1>2. \A b \in DOMAIN rows' \ astray' : Follows(b)'
  BY <1>1, NewsTaken
<1>3. \A x : IsNews(x) => IsNews(x)'
  BY <1>1 DEF IsNews
<1>4. \A q \in requests' : IsRequest(q)'
  BY <1>3, RequestsStand DEF AccountsInv, AccountsTyped
<1>5. \A i \in 1..Len(pushes') : IsNews(pushes[i])'
  BY <1>1 DEF IsNews
<1>6. AccountsTyped'
  <2>1. rows' \in [DOMAIN rows' -> Rows] /\ DOMAIN rows' \subseteq Members
    BY <1>1 DEF AccountsInv, AccountsTyped
  <2>2. \A b \in DOMAIN rows' : rows'[b].attemptId <= rows'[b].n /\ rows'[b].n <= sent'
    BY <1>1
  <2> QED BY <1>1, <1>4, <1>5, <2>1, <2>2 DEF AccountsInv, AccountsTyped
<1> QED BY <1>2, <1>6 DEF AccountsInv

\* With the rows of mergeAttempt.
LEMMA PeopleMergeStep ==
  ASSUME AccountsInv, NEW news, Tells(news), UNCHANGED <<listed, attempts, sent>>, Merge(news),
         requests' \subseteq requests, pushes' \in Seq(Tidings), \A i \in 1..Len(pushes') : IsNews(pushes'[i]),
         \A b \in DOMAIN rows : (\A x \in news : x.account # b) => (Coming(b) => Coming(b)') /\ (LoggingIn(b) => LoggingIn(b)'),
         \A b \in DOMAIN rows : \A x \in news : x.account = b /\ Coming(b) /\ x.n # attempts[b].n => Coming(b)'
  PROVE  AccountsInv'
<1>1. rows' = MergedRows(news) /\ astray' = MergedAstray(news) /\ selected' = selected
  BY DEF Merge
<1>2. \A b \in DOMAIN rows : \A x \in news : x.account = b => RowBecomes(rows'[b], x, rows[b])
  BY <1>1, RowsStayTyped DEF RowBecomes
<1>3. /\ rows' \in [DOMAIN rows -> Rows]
      /\ \A b \in DOMAIN rows : rows'[b].attemptId <= rows'[b].n /\ rows'[b].n <= sent
      /\ \A b \in DOMAIN rows : (\A x \in news : x.account # b) => rows'[b] = rows[b]
  BY <1>1, RowsStayTyped
<1> QED BY <1>1, <1>2, <1>3, TakenStep

LEMMA PeoplePushedStep == ASSUME AccountsInv, Pushed PROVE AccountsInv'
<1> DEFINE news == {Head(pushes)}
<1>1. /\ pushes \in Seq(Tidings) /\ pushes # <<>> /\ pushes' = Tail(pushes)
      /\ \A i \in 1..Len(pushes) : IsNews(pushes[i])
      /\ Merge(news) /\ UNCHANGED <<listed, attempts, sent, connected, requests, failing>>
  BY DEF Pushed, Merge, serverVars, AccountsInv, AccountsTyped
<1>2. /\ Tail(pushes) \in Seq(Tidings) /\ Len(Tail(pushes)) = Len(pushes) - 1
      /\ \A i \in 1..Len(Tail(pushes)) : Tail(pushes)[i] = pushes[i + 1]
  BY <1>1, HeadTailProperties
<1>3. Len(pushes) \in Nat /\ Len(pushes) >= 1 /\ Head(pushes) = pushes[1]
  BY <1>1, EmptySeq
<1>4. Tells(news)
  BY <1>1, <1>3 DEF Tells
<1>5. \A i \in 1..Len(pushes') : i + 1 \in 1..Len(pushes) /\ pushes'[i] = pushes[i + 1]
  BY <1>1, <1>2, <1>3
<1>6. \A i \in 1..Len(pushes) : i = 1 \/ (i - 1 \in 1..Len(pushes') /\ pushes'[i - 1] = pushes[i])
  <2>1. ASSUME NEW i \in 1..Len(pushes), i # 1 PROVE i - 1 \in 1..Len(pushes') /\ pushes'[i - 1] = pushes[i]
    <3>1. i - 1 \in 1..Len(pushes') /\ (i - 1) + 1 = i
      BY <1>1, <1>2, <1>3, <2>1
    <3> QED BY <1>1, <1>2, <3>1
  <2> QED BY <2>1
<1>7. ASSUME NEW b \in DOMAIN rows, Coming(b), Head(pushes).account # b \/ Head(pushes).n # attempts[b].n PROVE Coming(b)'
  <2>1. ASSUME NEW i \in 1..Len(pushes), pushes[i].account = b, pushes[i].n = attempts[b].n PROVE Coming(b)'
    <3>1. i # 1
      BY <1>3, <1>7, <2>1
    <3>2. i - 1 \in 1..Len(pushes') /\ pushes'[i - 1] = pushes[i]
      BY <1>6, <3>1
    <3> QED BY <1>1, <2>1, <3>2 DEF Coming
  <2>2. CASE \E i \in 1..Len(pushes) : pushes[i].account = b /\ pushes[i].n = attempts[b].n
    BY <2>1, <2>2
  <2>3. CASE ~\E i \in 1..Len(pushes) : pushes[i].account = b /\ pushes[i].n = attempts[b].n
    BY <1>1, <1>7, <2>3 DEF Coming
  <2> QED BY <2>2, <2>3
<1>8. \A b : LoggingIn(b) => LoggingIn(b)'
  BY <1>1 DEF LoggingIn
<1>9. \A i \in 1..Len(pushes') : IsNews(pushes'[i])
  BY <1>1, <1>5
<1>10. \A x \in news : x = Head(pushes)
  OBVIOUS
<1>11. Head(pushes) \in news
  OBVIOUS
<1> HIDE DEF news
<1> QED BY <1>1, <1>2, <1>4, <1>7, <1>8, <1>9, <1>10, <1>11, PeopleMergeStep

\* What an answered request tells, and who hears of it.
LEMMA AnswerTells ==
  ASSUME AccountsInv, NEW r \in requests, r.phase = "back", r.kind \in {"login", "logout", "guard", "attempts"},
         requests' = requests \ {r}, UNCHANGED <<attempts, connected, pushes, failing>>
  PROVE  /\ Tells(r.answer)
         /\ \A b : (\A x \in r.answer : x.account # b) => (Coming(b) => Coming(b)') /\ (LoggingIn(b) => LoggingIn(b)')
         /\ \A b : \A x \in r.answer : x.account = b /\ Coming(b) /\ x.n # attempts[b].n => Coming(b)'
<1>1. IsRequest(r)
  BY DEF AccountsInv, AccountsTyped
<1>2. Tells(r.answer)
  BY <1>1 DEF IsRequest, Tells
<1>3. ASSUME NEW b, \A x \in r.answer : ~(x.account = b /\ x.n = attempts[b].n), Coming(b) PROVE Coming(b)'
  <2>1. ASSUME NEW q \in requests, q.kind = "attempts", q.phase = "there" \/ \E x \in q.answer : x.account = b /\ x.n = attempts[b].n
        PROVE  Coming(b)'
    <3>1. q # r
      BY <1>3, <2>1
    <3> QED BY <2>1, <3>1 DEF Coming
  <2>2. CASE ~connected \/ failing \/ \E i \in 1..Len(pushes) : pushes[i].account = b /\ pushes[i].n = attempts[b].n
    BY <2>2 DEF Coming
  <2> QED BY <1>3, <2>1, <2>2 DEF Coming
<1>4. ASSUME NEW b, \A x \in r.answer : x.account # b, LoggingIn(b) PROVE LoggingIn(b)'
  <2>1. PICK q \in requests : q.kind = "login" /\ q.account = b
    BY <1>4 DEF LoggingIn
  <2>2. q # r
    BY <1>1, <1>4, <2>1 DEF IsRequest, Speaks
  <2> QED BY <2>1, <2>2 DEF LoggingIn
<1>5. ASSUME NEW b, NEW x \in r.answer, x.account = b, Coming(b), x.n # attempts[b].n PROVE Coming(b)'
  <2>1. \A y \in r.answer : y.account = b => y = x
    BY <1>2, <1>5 DEF Tells
  <2> QED BY <1>3, <1>5, <2>1
<1> QED BY <1>2, <1>3, <1>4, <1>5

LEMMA SpokenArrives ==
  ASSUME AccountsInv, NEW r \in requests, r.phase = "back", UNCHANGED <<serverVars, pushes, connected>>, requests' = requests \ {r},
         r.kind \in {"login", "guard", "attempts"} /\ Merge(r.answer)
  PROVE  AccountsInv'
<1>1. UNCHANGED <<listed, attempts, sent, pushes, connected, failing>> /\ requests' \subseteq requests
  BY DEF serverVars, Merge
<1>2. pushes' \in Seq(Tidings) /\ \A i \in 1..Len(pushes') : IsNews(pushes'[i])
  BY <1>1 DEF AccountsInv, AccountsTyped
<1> QED BY <1>1, <1>2, AnswerTells, PeopleMergeStep

LEMMA LogoutArrives ==
  ASSUME AccountsInv, NEW r \in requests, r.phase = "back", UNCHANGED <<serverVars, pushes, connected, selected, failing>>,
         r.kind = "logout", requests' = requests \ {r}, astray' = MergedAstray(r.answer),
         rows' = IF IsShown(r) THEN [MergedRows(r.answer) EXCEPT ![r.account].status = "offline", ![r.account].attemptId = 0]
                 ELSE MergedRows(r.answer)
  PROVE  AccountsInv'
<1> DEFINE news == r.answer
           a == r.account
           merged == MergedRows(news)
           out == [merged[a] EXCEPT !.status = "offline", !.attemptId = 0]
<1>1. UNCHANGED <<listed, attempts, sent, pushes, connected, failing>> /\ requests' \subseteq requests
  BY DEF serverVars
<1>2. pushes' \in Seq(Tidings) /\ \A i \in 1..Len(pushes') : IsNews(pushes'[i])
  BY <1>1 DEF AccountsInv, AccountsTyped
<1>3. /\ Tells(news)
      /\ \A b : (\A x \in news : x.account # b) => (Coming(b) => Coming(b)') /\ (LoggingIn(b) => LoggingIn(b)')
      /\ \A b : \A x \in news : x.account = b /\ Coming(b) /\ x.n # attempts[b].n => Coming(b)'
  BY <1>1, AnswerTells
<1>4. PICK y \in news : y.account = a /\ y.status = "out"
  BY DEF AccountsInv, AccountsTyped, IsRequest, Speaks
<1>5. \A x \in news : x.account = a => x.status = "out"
  BY <1>3, <1>4 DEF Tells
<1>6. /\ merged \in [DOMAIN rows -> Rows]
      /\ \A b \in DOMAIN rows : merged[b].attemptId <= merged[b].n /\ merged[b].n <= sent
      /\ \A b \in DOMAIN rows : (\A x \in news : x.account # b) => merged[b] = rows[b]
      /\ \A b \in DOMAIN rows : \A x \in news : x.account = b => merged[b] = MergedRow(rows[b], x)
  BY <1>3, RowsStayTyped
<1> HIDE DEF merged
<1>7. CASE IsShown(r)
  <2>1. a \in DOMAIN rows
    BY <1>7 DEF IsShown
  <2>2. merged[a] \in Rows /\ merged[a].n \in Nat /\ merged[a].n <= sent
    BY <1>6, <2>1 DEF Rows
  <2>3. out \in Rows /\ out.n = merged[a].n /\ out.attemptId = 0
    BY <2>2 DEF Rows
  <2> HIDE DEF out
  <2>4. rows' = [merged EXCEPT ![a] = out]
    BY <1>7 DEF merged, out
  <2>5. rows' \in [DOMAIN rows -> Rows] /\ rows'[a] = out /\ \A b \in DOMAIN rows : b # a => rows'[b] = merged[b]
    BY <1>6, <2>1, <2>3, <2>4
  <2>6. \A b \in DOMAIN rows : rows'[b].attemptId <= rows'[b].n /\ rows'[b].n <= sent
    <3>a. out.attemptId <= out.n /\ out.n <= sent
      BY <2>2, <2>3
    <3>1. rows'[a].attemptId <= rows'[a].n /\ rows'[a].n <= sent
      BY <2>5, <3>a
    <3> QED BY <1>6, <2>5, <3>1
  <2>7. \A b \in DOMAIN rows : (\A x \in news : x.account # b) => rows'[b] = rows[b]
    BY <1>4, <1>6, <2>5
  <2>8. ASSUME NEW b \in DOMAIN rows, NEW x \in news, x.account = b PROVE RowBecomes(rows'[b], x, rows[b])
    <3>1. CASE b = a
      <4>1. merged[a] = MergedRow(rows[a], x) /\ x.status = "out"
        BY <1>5, <1>6, <2>8, <3>1
      <4>2. rows'[b] = [MergedRow(rows[b], x) EXCEPT !.status = "offline", !.attemptId = 0]
        BY <2>5, <3>1, <4>1 DEF out
      <4> QED BY <4>1, <4>2 DEF RowBecomes
    <3>2. CASE b # a
      BY <1>6, <2>5, <2>8, <3>2 DEF RowBecomes
    <3> QED BY <3>1, <3>2
  <2> QED BY <1>1, <1>2, <1>3, <2>5, <2>6, <2>7, <2>8, TakenStep
<1>8. CASE ~IsShown(r)
  <2>1. rows' = merged
    BY <1>8 DEF merged
  <2>2. \A b \in DOMAIN rows : \A x \in news : x.account = b => RowBecomes(rows'[b], x, rows[b])
    BY <1>6, <2>1 DEF RowBecomes
  <2>3. /\ rows' \in [DOMAIN rows -> Rows]
        /\ \A b \in DOMAIN rows : rows'[b].attemptId <= rows'[b].n /\ rows'[b].n <= sent
        /\ \A b \in DOMAIN rows : (\A x \in news : x.account # b) => rows'[b] = rows[b]
    BY <1>6, <2>1
  <2> QED BY <1>1, <1>2, <1>3, <2>2, <2>3, TakenStep
<1> QED BY <1>7, <1>8

-----------------------------------------------------------------------------
(* The page.                                                               *)

LEMMA PeopleRequestIs ==
  ASSUME NEW kind \in Kinds, NEW a
  PROVE  LET q == Request(kind, a) IN
         /\ q.kind = kind /\ q.account = a /\ q.accounts = {a} /\ q.id = 0 /\ q.phase = "there" /\ q.reading = reading
         /\ q \in [kind : Kinds, account : {q.account}, accounts : {q.accounts}, id : {q.id}, reading : {q.reading},
                   phase : {"there", "back"}, answer : {q.answer}]
  BY DEF Request

\* A step that changes no session, no row and no list.
LEMMA PeopleQuietStep ==
  ASSUME AccountsInv, UNCHANGED <<listed, attempts, sent, rows>>, selected' \subseteq Members, astray \subseteq astray',
         \A q \in requests' : q \in requests \/ IsRequest(q), pushes' = pushes \/ pushes' = <<>>,
         \A b : LoggingIn(b) => LoggingIn(b)', \A b \in DOMAIN rows \ astray' : Coming(b) /\ rows[b].n < attempts[b].n => Coming(b)'
  PROVE  AccountsInv'
<1>1. \A x : IsNews(x) => IsNews(x)'
  BY DEF IsNews
<1>2. \A q \in requests' : IsRequest(q)'
  <2>1. \A q \in requests' : IsRequest(q)
    BY DEF AccountsInv, AccountsTyped
  <2> QED BY <1>1, <2>1, RequestsStand
<1>3. pushes' \in Seq(Tidings) /\ \A i \in 1..Len(pushes') : IsNews(pushes[i])'
  <2>1. CASE pushes' = pushes
    BY <1>1, <2>1 DEF AccountsInv, AccountsTyped
  <2>2. CASE pushes' = <<>>
    BY <2>2
  <2> QED BY <2>1, <2>2
<1>4. AccountsTyped'
  BY <1>2, <1>3 DEF AccountsInv, AccountsTyped
<1>5. ASSUME NEW b \in DOMAIN rows' \ astray' PROVE Follows(b)'
  <2>1. Follows(b) /\ rows'[b] = rows[b] /\ attempts'[b] = attempts[b] /\ (rows[b].n < attempts[b].n => Coming(b)')
    BY <1>5 DEF AccountsInv, Follows
  <2> QED BY <2>1 DEF Follows
<1> QED BY <1>4, <1>5 DEF AccountsInv

LEMMA StaysOnItsWay ==
  ASSUME attempts' = attempts, requests \subseteq requests', connected' = connected \/ pushes' = pushes, failing' = failing,
         pushes' = pushes \/ ~connected', connected' # connected => ~connected'
  PROVE  \A b : (Coming(b) => Coming(b)') /\ (LoggingIn(b) => LoggingIn(b)')
  BY DEF Coming, LoggingIn

LEMMA AskedStep ==
  ASSUME AccountsInv, NEW q, IsRequest(q), requests' = requests \cup {q},
         UNCHANGED <<serverVars, pushes, connected, pageVars>>
  PROVE  AccountsInv'
<1>1. UNCHANGED <<listed, attempts, sent, rows, selected, astray, failing, pushes, connected>>
  BY DEF serverVars, pageVars
<1>2. selected' \subseteq Members
  BY <1>1 DEF AccountsInv, AccountsTyped
<1> QED BY <1>1, <1>2, StaysOnItsWay, PeopleQuietStep

LEMMA PeopleSubmitStep == ASSUME AccountsInv, SubmitGuardCode PROVE AccountsInv'
<1>1. PICK a \in Members : attempts[a].id = guard /\ Ask({[Request("guard", a) EXCEPT !.id = guard]})
  BY DEF SubmitGuardCode
<1> DEFINE q == Request("guard", a)
           p == [q EXCEPT !.id = guard]
<1>2. /\ q.kind = "guard" /\ q.account = a /\ q.phase = "there"
      /\ q \in [kind : Kinds, account : {q.account}, accounts : {q.accounts}, id : {q.id}, reading : {q.reading},
                phase : {"there", "back"}, answer : {q.answer}]
  BY PeopleRequestIs DEF Kinds
<1> HIDE DEF q
<1>3. /\ p.kind = "guard" /\ p.account = a /\ p.phase = "there"
      /\ p \in [kind : Kinds, account : {p.account}, accounts : {p.accounts}, id : {p.id}, reading : {p.reading},
                phase : {"there", "back"}, answer : {p.answer}]
  BY <1>2
<1>4. requests' = requests \cup {p}
  BY <1>1 DEF Ask, q
<1> HIDE DEF p
<1>5. IsRequest(p)
  BY <1>3 DEF IsRequest
<1> QED BY <1>4, <1>5, AskedStep DEF SubmitGuardCode

LEMMA PeopleDeleteStep == ASSUME AccountsInv, DeleteSelected PROVE AccountsInv'
<1> DEFINE a == CHOOSE b \in selected : TRUE
           q == Request("cleanup", a)
           p == [q EXCEPT !.accounts = selected]
<1>1. requests' = requests \cup {p}
  BY DEF DeleteSelected, Ask
<1> HIDE DEF a
<1>2. /\ q.kind = "cleanup" /\ q.phase = "there"
      /\ q \in [kind : Kinds, account : {q.account}, accounts : {q.accounts}, id : {q.id}, reading : {q.reading},
                phase : {"there", "back"}, answer : {q.answer}]
  BY PeopleRequestIs DEF Kinds
<1> HIDE DEF q
<1>3. /\ p.kind = "cleanup" /\ p.phase = "there" /\ p.accounts = selected
      /\ p \in [kind : Kinds, account : {p.account}, accounts : {p.accounts}, id : {p.id}, reading : {p.reading},
                phase : {"there", "back"}, answer : {p.answer}]
  BY <1>2
<1> HIDE DEF p
<1>4. IsRequest(p)
  BY <1>3 DEF IsRequest, AccountsInv, AccountsTyped
<1> QED BY <1>1, <1>4, AskedStep DEF DeleteSelected

LEMMA PeopleImportStep == ASSUME AccountsInv, NEW a \in Members, Import(a) PROVE AccountsInv'
<1> DEFINE q == Request("upsert", a)
<1>1. requests' = requests \cup {q}
  BY DEF Import, Ask
<1>2. /\ q.kind = "upsert" /\ q.phase = "there" /\ q.accounts = {a}
      /\ q \in [kind : Kinds, account : {q.account}, accounts : {q.accounts}, id : {q.id}, reading : {q.reading},
                phase : {"there", "back"}, answer : {q.answer}]
  BY PeopleRequestIs DEF Kinds
<1> HIDE DEF q
<1>3. IsRequest(q)
  BY <1>2 DEF IsRequest
<1> QED BY <1>1, <1>3, AskedStep DEF Import

LEMMA ChooseSteps == ASSUME AccountsInv, (\E f \in {"all", "online"} : SetFilter(f)) \/ (\E a \in Members : Select(a)) PROVE AccountsInv'
<1>1. UNCHANGED <<listed, attempts, sent, rows, astray, failing, pushes, connected, requests>>
  BY DEF SetFilter, Select, serverVars, netVars
<1>2. selected' \subseteq Members
  BY DEF SetFilter, Select, AccountsInv, AccountsTyped
<1> QED BY <1>1, <1>2, StaysOnItsWay, PeopleQuietStep

LEMMA PeopleSocketSteps == ASSUME AccountsInv, Cut \/ Reconnected PROVE AccountsInv'
<1>1. UNCHANGED <<listed, attempts, sent, rows, selected, astray, failing>>
  BY DEF Cut, Reconnected, serverVars, pageVars
<1>2. selected' \subseteq Members
  BY <1>1 DEF AccountsInv, AccountsTyped
<1>3. CASE Cut
  <2>1. pushes' = <<>> /\ ~connected' /\ requests' = requests
    BY <1>3 DEF Cut
  <2>2. \A b : Coming(b)' /\ (LoggingIn(b) => LoggingIn(b)')
    BY <2>1 DEF Coming, LoggingIn
  <2> QED BY <1>1, <1>2, <2>1, <2>2, PeopleQuietStep
<1>4. CASE Reconnected
  <2> DEFINE a == CHOOSE b \in Members : TRUE
             q == Request("attempts", a)
  <2>1. pushes' = pushes /\ requests' = requests \cup {q}
    BY <1>4 DEF Reconnected
  <2> HIDE DEF a
  <2>2. /\ q.kind = "attempts" /\ q.phase = "there"
        /\ q \in [kind : Kinds, account : {q.account}, accounts : {q.accounts}, id : {q.id}, reading : {q.reading},
                  phase : {"there", "back"}, answer : {q.answer}]
    BY PeopleRequestIs DEF Kinds
  <2> HIDE DEF q
  <2>3. IsRequest(q)
    BY <2>2 DEF IsRequest
  <2>4. \A b : Coming(b)' /\ (LoggingIn(b) => LoggingIn(b)')
    BY <2>1, <2>2 DEF Coming, LoggingIn
  <2> QED BY <1>1, <1>2, <2>1, <2>3, <2>4, PeopleQuietStep
<1> QED BY <1>3, <1>4

\* A step of the page that changes one row.
LEMMA PersonRowStep ==
  ASSUME AccountsInv, NEW a \in DOMAIN rows, NEW row \in Rows, row.n = rows[a].n, row.attemptId = rows[a].attemptId,
         rows' = [rows EXCEPT ![a] = row], UNCHANGED <<listed, attempts, sent, selected>>, astray \subseteq astray',
         \A q \in requests' : q \in requests \/ IsRequest(q), pushes' = pushes, connected' = connected, failing' <=> failing,
         AttemptsStay, \A b : b # a /\ LoggingIn(b) => LoggingIn(b)',
         a \notin astray' => /\ row.n >= attempts[a].n =>
                                  Collapse(attempts[a].status, row.status) = row.status \/ LoggingIn(a)'
                             /\ row.attemptId = 0 => row.status \in {"offline", "failed"} \/ LoggingIn(a)'
  PROVE  AccountsInv'
<1>1. rows \in [DOMAIN rows -> Rows] /\ rows[a].n \in Nat /\ a \in Members
  BY RowTyped DEF AccountsInv, AccountsTyped
<1>2. rows' \in [DOMAIN rows -> Rows] /\ rows'[a] = row /\ \A b \in DOMAIN rows : b # a => rows'[b] = rows[b]
  BY <1>1
<1>3. DOMAIN rows' = DOMAIN rows
  BY <1>2
<1>4. \A x : IsNews(x) => IsNews(x)'
  BY DEF IsNews
<1>5. \A q \in requests' : IsRequest(q)'
  <2>1. \A q \in requests' : IsRequest(q)
    BY DEF AccountsInv, AccountsTyped
  <2> QED BY <1>4, <2>1, RequestsStand
<1>6. AccountsTyped'
  <2>1. \A b \in DOMAIN rows' : rows'[b].attemptId <= rows'[b].n /\ rows'[b].n <= sent'
    <3>1. \A b \in DOMAIN rows : rows[b].attemptId <= rows[b].n /\ rows[b].n <= sent
      BY RowTyped DEF AccountsInv
    <3>2. row.attemptId <= row.n /\ row.n <= sent
      BY <3>1
    <3> QED BY <1>2, <1>3, <3>1, <3>2
  <2>2. rows' \in [DOMAIN rows' -> Rows] /\ DOMAIN rows' \subseteq Members
    BY <1>2, <1>3 DEF AccountsInv, AccountsTyped
  <2>3. \A i \in 1..Len(pushes') : IsNews(pushes[i])'
    BY <1>4 DEF AccountsInv, AccountsTyped
  <2> QED BY <1>5, <2>1, <2>2, <2>3 DEF AccountsInv, AccountsTyped
<1>7. \A b : Coming(b) => Coming(b)'
  BY DEF Coming, AttemptsStay
<1>8. ASSUME NEW b \in DOMAIN rows' \ astray' PROVE Follows(b)'
  <2>1. Follows(b)
    BY <1>3, <1>8 DEF AccountsInv
  <2>2. CASE b # a
    BY <1>2, <1>3, <1>7, <1>8, <2>1, <2>2, FollowsOn
  <2>3. CASE b = a
    <3>1. rows'[b].n = rows[b].n /\ rows'[b].attemptId = rows[b].attemptId /\ attempts'[b] = attempts[b] /\ rows'[b] = row
      BY <1>2, <2>3
    <3>2. /\ rows'[b].n < attempts'[b].n => Coming(b)'
          /\ rows'[b].n > attempts'[b].n => attempts'[b].id = 0 /\ rows'[b].attemptId = 0
          /\ rows'[b].n >= attempts'[b].n => (rows'[b].attemptId = 0 => attempts'[b].status \in {"none", "out"})
      BY <1>7, <2>1, <3>1 DEF Follows
    <3>3. /\ rows'[b].n >= attempts'[b].n => Collapse(attempts'[b].status, rows'[b].status) = rows'[b].status \/ LoggingIn(b)'
          /\ rows'[b].attemptId = 0 => rows'[b].status \in {"offline", "failed"} \/ LoggingIn(b)'
      BY <1>8, <2>3, <3>1
    <3> QED BY <3>2, <3>3 DEF Follows
  <2> QED BY <2>2, <2>3
<1> QED BY <1>6, <1>8 DEF AccountsInv

LEMMA PeopleLoginStep == ASSUME AccountsInv, NEW a \in Members, LoginAccount(a) PROVE AccountsInv'
<1> DEFINE q == Request("login", a)
           row == [rows[a] EXCEPT !.status = "connecting"]
<1>1. /\ a \in DOMAIN rows /\ requests' = requests \cup {q} /\ rows' = [rows EXCEPT ![a] = row]
      /\ UNCHANGED <<listed, attempts, sent, pushes, connected, selected, failing, astray>>
  BY DEF LoginAccount, Ask, serverVars
<1>2. /\ q.kind = "login" /\ q.account = a /\ q.phase = "there"
      /\ q \in [kind : Kinds, account : {q.account}, accounts : {q.accounts}, id : {q.id}, reading : {q.reading},
                phase : {"there", "back"}, answer : {q.answer}]
  BY PeopleRequestIs DEF Kinds
<1> HIDE DEF q
<1>3. row \in Rows /\ row.n = rows[a].n /\ row.attemptId = rows[a].attemptId
  BY <1>1, RowTyped DEF Rows, AccountsInv
<1> HIDE DEF row
<1>4. IsRequest(q)
  BY <1>2 DEF IsRequest
<1>5. LoggingIn(a)' /\ AttemptsStay /\ \A b : LoggingIn(b) => LoggingIn(b)'
  BY <1>1, <1>2 DEF LoggingIn, AttemptsStay
<1> QED BY <1>1, <1>3, <1>4, <1>5, PersonRowStep

LEMMA PeopleLogoutStep == ASSUME AccountsInv, NEW a \in Members, LogoutAccount(a) PROVE AccountsInv'
<1> DEFINE q == Request("logout", a)
           p == [q EXCEPT !.id = rows[a].attemptId]
           row == [rows[a] EXCEPT !.status = "offline"]
<1>1. a \in DOMAIN rows /\ UNCHANGED <<listed, attempts, sent, pushes, connected, reading, filter, selected, guard, failing, astray>>
  BY DEF LogoutAccount, serverVars
<1>2. CASE rows[a].attemptId = 0
  <2>1. rows' = [rows EXCEPT ![a] = row] /\ requests' = requests
    BY <1>2 DEF LogoutAccount
  <2>2. row \in Rows /\ row.n = rows[a].n /\ row.attemptId = rows[a].attemptId /\ row.status = "offline"
    BY <1>1, RowTyped DEF Rows, AccountsInv
  <2> HIDE DEF row
  <2>3. AttemptsStay /\ \A b : LoggingIn(b) => LoggingIn(b)'
    BY <2>1 DEF LoggingIn, AttemptsStay
  <2>4. ASSUME a \notin astray', row.n >= attempts[a].n PROVE Collapse(attempts[a].status, row.status) = row.status
    <3>1. attempts[a].status \in {"none", "out"}
      BY <1>1, <1>2, <2>2, <2>4 DEF AccountsInv, Follows
    <3> QED BY <2>2, <3>1 DEF Collapse
  <2> QED BY <1>1, <2>1, <2>2, <2>3, <2>4, PersonRowStep
<1>3. CASE rows[a].attemptId # 0
  <2>1. rows' = rows /\ requests' = requests \cup {p}
    BY <1>3 DEF LogoutAccount, Ask
  <2>2. /\ q.kind = "logout" /\ q.account = a /\ q.phase = "there"
        /\ q \in [kind : Kinds, account : {q.account}, accounts : {q.accounts}, id : {q.id}, reading : {q.reading},
                  phase : {"there", "back"}, answer : {q.answer}]
    BY PeopleRequestIs DEF Kinds
  <2> HIDE DEF q
  <2>3. /\ p.kind = "logout" /\ p.account = a /\ p.phase = "there" /\ p.id = rows[a].attemptId
        /\ p \in [kind : Kinds, account : {p.account}, accounts : {p.accounts}, id : {p.id}, reading : {p.reading},
                  phase : {"there", "back"}, answer : {p.answer}]
    BY <2>2
  <2> HIDE DEF p
  <2>4. IsRequest(p)
    BY <1>3, <2>3 DEF IsRequest
  <2> QED BY <1>1, <2>1, <2>4, AskedStep DEF serverVars, pageVars
<1> QED BY <1>2, <1>3

LEMMA CleanupArrives ==
  ASSUME AccountsInv, NEW r \in requests, r.kind = "cleanup", UNCHANGED <<serverVars, pushes, connected, pageVars>>,
         requests' = (requests \ {r}) \cup {Request("list", r.account)}
  PROVE  AccountsInv'
<1> DEFINE q == Request("list", r.account)
<1>1. UNCHANGED <<listed, attempts, sent, rows, selected, astray, failing, pushes, connected>>
  BY DEF serverVars, pageVars
<1>2. requests' = (requests \ {r}) \cup {q}
  OBVIOUS
<1>3. /\ q.kind = "list" /\ q.phase = "there"
      /\ q \in [kind : Kinds, account : {q.account}, accounts : {q.accounts}, id : {q.id}, reading : {q.reading},
                phase : {"there", "back"}, answer : {q.answer}]
  BY PeopleRequestIs DEF Kinds
<1> HIDE DEF q
<1>4. IsRequest(q)
  BY <1>3 DEF IsRequest
<1>5. \A b : (Coming(b) => Coming(b)') /\ (LoggingIn(b) => LoggingIn(b)')
  BY <1>1, <1>2 DEF Coming, LoggingIn
<1>6. selected' \subseteq Members
  BY <1>1 DEF AccountsInv, AccountsTyped
<1> QED BY <1>1, <1>2, <1>4, <1>5, <1>6, PeopleQuietStep

\* applyList: rows of before stay, new ones begin offline.
LEMMA ListArrives ==
  ASSUME AccountsInv, NEW r \in requests, r.phase = "back", r.kind \in {"list", "upsert"},
         UNCHANGED <<serverVars, pushes, connected>>, ApplyList(r.answer), failing' = (failing /\ r.kind = "upsert"),
         astray' = (astray \cap r.answer) \cup {a \in r.answer \ DOMAIN rows : attempts[a].id # 0},
         requests' = (requests \ {r}) \cup
             (IF r.kind = "list" THEN {[Request("attempts", r.account) EXCEPT !.reading = reading']} ELSE {})
  PROVE  AccountsInv'
<1> DEFINE q == Request("attempts", r.account)
           p == [q EXCEPT !.reading = reading']
<1>1. /\ r.answer \subseteq Members /\ UNCHANGED <<listed, attempts, sent, pushes, connected>>
      /\ rows' = [a \in r.answer |-> IF a \in DOMAIN rows THEN rows[a] ELSE FreshRow]
      /\ selected' \subseteq selected
  BY DEF AccountsInv, AccountsTyped, IsRequest, ApplyList, serverVars
<1>2. /\ q.kind = "attempts" /\ q.phase = "there"
      /\ q \in [kind : Kinds, account : {q.account}, accounts : {q.accounts}, id : {q.id}, reading : {q.reading},
                phase : {"there", "back"}, answer : {q.answer}]
  BY PeopleRequestIs DEF Kinds
<1> HIDE DEF q
<1>3. /\ p.kind = "attempts" /\ p.phase = "there"
      /\ p \in [kind : Kinds, account : {p.account}, accounts : {p.accounts}, id : {p.id}, reading : {p.reading},
                phase : {"there", "back"}, answer : {p.answer}]
  BY <1>2
<1>4. requests' = (requests \ {r}) \cup (IF r.kind = "list" THEN {p} ELSE {})
  BY DEF q
<1> HIDE DEF p
<1>5. IsRequest(p)
  BY <1>3 DEF IsRequest
<1>6. \A x : IsNews(x) => IsNews(x)'
  BY <1>1 DEF IsNews
<1>7. \A t \in requests' : IsRequest(t)'
  <2>1. \A t \in requests' : IsRequest(t)
    BY <1>4, <1>5 DEF AccountsInv, AccountsTyped
  <2> QED BY <1>6, <2>1, RequestsStand
<1>8. FreshRow \in Rows /\ FreshRow.n = 0 /\ FreshRow.attemptId = 0 /\ FreshRow.status = "offline"
  BY DEF FreshRow, Rows
<1>9. sent \in Nat /\ \A b \in DOMAIN rows : rows[b] \in Rows /\ rows[b].attemptId <= rows[b].n /\ rows[b].n <= sent
  BY RowTyped DEF AccountsInv, AccountsTyped
<1>10. AccountsTyped'
  <2>1. /\ DOMAIN rows' = r.answer /\ rows' \in [DOMAIN rows' -> Rows]
        /\ \A b \in DOMAIN rows' : rows'[b].attemptId <= rows'[b].n /\ rows'[b].n <= sent'
    BY <1>1, <1>8, <1>9
  <2>2. \A i \in 1..Len(pushes') : IsNews(pushes[i])'
    BY <1>1, <1>6 DEF AccountsInv, AccountsTyped
  <2> QED BY <1>1, <1>7, <2>1, <2>2 DEF AccountsInv, AccountsTyped
<1>11. \A b : (Coming(b) => Coming(b)') /\ (LoggingIn(b) => LoggingIn(b)')
  <2>1. \A b : LoggingIn(b) => LoggingIn(b)'
    BY <1>4 DEF LoggingIn
  <2>2. r.kind = "list" => \A b : Coming(b)'
    BY <1>3, <1>4 DEF Coming
  <2>3. ASSUME r.kind = "upsert", NEW b, Coming(b) PROVE Coming(b)'
    <3>1. requests' = requests \ {r} /\ (failing => failing')
      BY <1>4, <2>3
    <3> QED BY <1>1, <2>3, <3>1 DEF Coming
  <2> QED BY <2>1, <2>2, <2>3
<1>12. ASSUME NEW b \in DOMAIN rows' \ astray' PROVE Follows(b)'
  <2>1. b \in r.answer /\ b \in Members
    BY <1>1, <1>12
  <2>2. CASE b \in DOMAIN rows
    <3>1. rows'[b] = rows[b] /\ b \notin astray /\ attempts'[b] = attempts[b]
      BY <1>1, <1>12, <2>1, <2>2
    <3> QED BY <1>11, <2>2, <3>1, FollowsOn DEF AccountsInv
  <2>3. CASE b \notin DOMAIN rows
    <3>1. rows'[b] = FreshRow /\ attempts'[b] = NoAttempt
      <4>1. attempts[b].id = 0
        BY <1>12, <2>1, <2>3
      <4> QED BY <1>1, <2>1, <2>3, <4>1, PersonTyped DEF AccountsInv
    <3>2. NoAttempt.n = 0 /\ NoAttempt.status = "none" /\ Collapse("none", "offline") = "offline"
      BY DEF NoAttempt, Collapse
    <3> QED BY <1>8, <3>1, <3>2 DEF Follows
  <2> QED BY <2>2, <2>3
<1> QED BY <1>10, <1>12 DEF AccountsInv

LEMMA PeopleArrivedStep == ASSUME AccountsInv, NEW r \in requests, Arrived(r) PROVE AccountsInv'
<1>1. r.phase = "back" /\ UNCHANGED <<serverVars, pushes, connected>>
  BY DEF Arrived
<1> QED BY <1>1, SpokenArrives, LogoutArrives, CleanupArrives, ListArrives DEF Arrived

LEMMA PeopleLostStep == ASSUME AccountsInv, NEW r \in requests, Lost(r) PROVE AccountsInv'
<1>1. /\ UNCHANGED <<listed, attempts, sent, pushes, connected, selected>>
      /\ requests' = (requests \ {r}) \cup (IF r.kind = "cleanup" THEN {Request("list", r.account)} ELSE {})
      /\ failing' = (failing \/ r.kind = "list")
  BY DEF Lost, serverVars
<1>2. selected' \subseteq Members
  BY <1>1 DEF AccountsInv, AccountsTyped
<1>3. CASE r.kind = "login"
  <2> DEFINE a == r.account
             row == [rows[a] EXCEPT !.status = "failed"]
  <2>1. /\ requests' = requests \ {r} /\ (failing' <=> failing)
        /\ AttemptsStay /\ (\A b : b # a /\ LoggingIn(b) => LoggingIn(b)') /\ a \in Members
    <3>1. requests' = requests \ {r}
      BY <1>1, <1>3
    <3>2. failing' <=> failing
      BY <1>3 DEF Lost
    <3>3. AttemptsStay
      BY <1>3, <3>1 DEF AttemptsStay
    <3>4. \A b : b # a /\ LoggingIn(b) => LoggingIn(b)'
      BY <3>1 DEF LoggingIn
    <3>5. a \in Members
      BY <1>3 DEF AccountsInv, AccountsTyped, IsRequest
    <3> QED BY <3>1, <3>2, <3>3, <3>4, <3>5
  <2>2. CASE IsShown(r)
    <3>1. /\ a \in DOMAIN rows /\ rows' = [rows EXCEPT ![a] = row] /\ astray \subseteq astray'
          /\ a \notin astray' => attempts[a].id = 0 /\ a \notin astray
      BY <1>3, <2>2 DEF Lost, IsShown
    <3>2. row \in Rows /\ row.n = rows[a].n /\ row.attemptId = rows[a].attemptId /\ row.status = "failed"
      BY <3>1, RowTyped DEF Rows, AccountsInv
    <3> HIDE DEF row
    <3>3. ASSUME a \notin astray' PROVE Collapse(attempts[a].status, row.status) = row.status
      <4>1. attempts[a].status = "none"
        BY <2>1, <3>1, <3>3, PersonTyped DEF AccountsInv, NoAttempt
      <4> QED BY <3>2, <4>1 DEF Collapse
    <3> HIDE DEF a
    <3> QED BY <1>1, <2>1, <3>1, <3>2, <3>3, PersonRowStep
  <2>3. CASE ~IsShown(r)
    <3>1. rows' = rows /\ astray' = astray \cup {a}
      BY <1>3, <2>3 DEF Lost
    <3>2. AccountsTyped' /\ \A b : Coming(b) => Coming(b)'
      <4>1. \A x : IsNews(x) => IsNews(x)'
        BY <1>1 DEF IsNews
      <4>2. \A q \in requests' : IsRequest(q)'
        BY <2>1, <4>1, RequestsStand DEF AccountsInv, AccountsTyped
      <4>3. \A i \in 1..Len(pushes') : IsNews(pushes[i])'
        BY <1>1, <4>1 DEF AccountsInv, AccountsTyped
      <4>4. AccountsTyped'
        BY <1>1, <3>1, <4>2, <4>3 DEF AccountsInv, AccountsTyped
      <4> QED BY <1>1, <2>1, <4>4 DEF Coming, AttemptsStay
    <3>3. ASSUME NEW b \in DOMAIN rows' \ astray' PROVE Follows(b)'
      <4>1. b # a /\ b \notin astray /\ b \in DOMAIN rows
        BY <3>1, <3>3
      <4> QED BY <1>1, <2>1, <3>1, <3>2, <4>1, FollowsOn DEF AccountsInv
    <3> QED BY <3>2, <3>3 DEF AccountsInv
  <2> QED BY <2>2, <2>3
<1>4. CASE r.kind # "login"
  <2> DEFINE q == Request("list", r.account)
  <2>1. /\ rows' = rows /\ requests' = (requests \ {r}) \cup (IF r.kind = "cleanup" THEN {q} ELSE {})
        /\ astray' = IF r.kind = "attempts" THEN astray \cup {a \in DOMAIN rows : rows[a].n < attempts[a].n} ELSE astray
    BY <1>4 DEF Lost
  <2>2. /\ q.kind = "list" /\ q.phase = "there"
        /\ q \in [kind : Kinds, account : {q.account}, accounts : {q.accounts}, id : {q.id}, reading : {q.reading},
                  phase : {"there", "back"}, answer : {q.answer}]
    BY PeopleRequestIs DEF Kinds
  <2> HIDE DEF q
  <2>3. IsRequest(q)
    BY <2>2 DEF IsRequest
  <2>4. \A b : LoggingIn(b) => LoggingIn(b)'
    BY <1>4, <2>1 DEF LoggingIn
  <2>5. \A b \in DOMAIN rows \ astray' : Coming(b) /\ rows[b].n < attempts[b].n => Coming(b)'
    <3>1. CASE r.kind = "attempts"
      BY <2>1, <3>1
    <3>2. CASE r.kind # "attempts"
      BY <1>1, <2>1, <3>2 DEF Coming
    <3> QED BY <3>1, <3>2
  <2> QED BY <1>1, <1>2, <2>1, <2>3, <2>4, <2>5, PeopleQuietStep
<1> QED BY <1>3, <1>4

\* With the server its sessions end; who showed none is right.
LEMMA PeopleRestart == ASSUME AccountsInv, AccountsRestart PROVE AccountsInv'
<1>1. /\ attempts' = [a \in Members |-> NoAttempt] /\ astray' = astray \cup {a \in DOMAIN rows : rows[a].attemptId # 0}
      /\ UNCHANGED <<listed, sent, pushes, connected, requests, rows, selected, failing>>
  BY DEF AccountsRestart, netVars
<1>2. NoAttempt \in Sessions /\ NoAttempt.n = 0 /\ NoAttempt.id = 0 /\ NoAttempt.status = "none"
  BY DEF Sessions, NoAttempt
<1>3. ASSUME NEW x, IsNews(x) PROVE IsNews(x)'
  <2>1. x \in Tidings /\ x.account \in Members /\ x.id \in Nat \ {0} /\ x.n \in Nat /\ x.id <= x.n
    BY <1>3 DEF IsNews, Tidings
  <2>2. attempts'[x.account] = NoAttempt /\ x.id # 0 /\ x.n # 0
    BY <1>1, <2>1
  <2> QED BY <1>1, <1>2, <1>3, <2>2 DEF IsNews
<1>4. AccountsTyped'
  <2>1. \A q \in requests' : IsRequest(q)'
    BY <1>1, <1>3, RequestsStand DEF AccountsInv, AccountsTyped
  <2>2. \A i \in 1..Len(pushes') : IsNews(pushes[i])'
    BY <1>1, <1>3 DEF AccountsInv, AccountsTyped
  <2>3. attempts' \in [Members -> Sessions] /\ \A a \in Members : attempts'[a].n <= sent'
    BY <1>1, <1>2 DEF AccountsInv, AccountsTyped
  <2> QED BY <1>1, <2>1, <2>2, <2>3 DEF AccountsInv, AccountsTyped
<1>5. ASSUME NEW b \in DOMAIN rows' \ astray' PROVE Follows(b)'
  <2>1. /\ b \in DOMAIN rows /\ b \notin astray /\ rows[b].attemptId = 0 /\ rows'[b] = rows[b] /\ b \in Members
        /\ attempts'[b] = NoAttempt /\ rows[b].n \in Nat
    BY <1>1, <1>5, RowTyped DEF AccountsInv
  <2>2. rows[b].status \in {"offline", "failed"} \/ LoggingIn(b)
    BY <2>1 DEF AccountsInv, Follows
  <2>3. LoggingIn(b) => LoggingIn(b)'
    BY <1>1 DEF LoggingIn
  <2>4. rows[b].status \in {"offline", "failed"} => Collapse("none", rows[b].status) = rows[b].status
    BY DEF Collapse
  <2> QED BY <1>2, <2>1, <2>2, <2>3, <2>4 DEF Follows
<1> QED BY <1>4, <1>5 DEF AccountsInv

LEMMA PeopleStep == ASSUME AccountsInv, AccountsNext \/ UNCHANGED accountsVars PROVE AccountsInv'
<1>1. ASSUME UNCHANGED accountsVars PROVE AccountsInv'
  <2>1. UNCHANGED <<listed, attempts, sent, rows, selected, astray, failing, pushes, connected, requests>>
    BY <1>1 DEF accountsVars, serverVars, pageVars, netVars, boundVars
  <2>2. selected' \subseteq Members
    BY <2>1 DEF AccountsInv, AccountsTyped
  <2> QED BY <2>1, <2>2, StaysOnItsWay, PeopleQuietStep
<1>2. ASSUME AccountsNext PROVE AccountsInv'
  BY <1>2, PeopleSessionSteps, PeopleLoginStep, PeopleLogoutStep, PeopleImportStep, ChooseSteps, PeopleHandled, PeopleArrivedStep, PeopleLostStep, PeoplePushedStep,
     PeopleSubmitStep, PeopleDeleteStep, PeopleSocketSteps, PeopleRestart DEF AccountsNext
<1> QED BY <1>1, <1>2

LEMMA PeopleHold == AccountsInv => RowsFollow
<1> SUFFICES ASSUME AccountsInv, connected, pushes = <<>>, requests = {}, ~failing, NEW a \in DOMAIN rows \ astray
             PROVE  Collapse(attempts[a].status, rows[a].status) = rows[a].status
  BY DEF RowsFollow
<1>1. ~Coming(a) /\ ~LoggingIn(a)
  BY DEF Coming, LoggingIn
<1>2. Follows(a) /\ rows[a].n \in Nat /\ attempts[a].n \in Nat
  BY RowTyped, PersonTyped DEF AccountsInv
<1> QED BY <1>1, <1>2 DEF Follows

\* A row that is not astray shows its account's session once nothing is on its way,
\* for any accounts, states of sessions, requests, cuts and restarts
\* (web/src/stores/accounts.ts, applyAttempt; src/accounts/index.ts).
THEOREM RowsAreFollowed == AccountsSpec => []RowsFollow
<1>1. AccountsInit => AccountsInv
  BY PeopleStart
<1>2. AccountsInv /\ [AccountsNext]_accountsVars => AccountsInv'
  BY PeopleStep
<1>3. AccountsInv => RowsFollow
  BY PeopleHold
<1> QED BY <1>1, <1>2, <1>3, PTL DEF AccountsSpec
=============================================================================
