------------------------------ MODULE ProxyPage ------------------------------
(***************************************************************************)
(* The proxy pages of the browser: the store of the pool's state           *)
(* (web/src/stores/proxy.ts), the list with its selection, the editor of   *)
(* one proxy, the groups and the dialogs (web/src/views/ProxiesView.vue,   *)
(* web/src/views/proxies/).  Every change answers with the whole state and *)
(* is also pushed to every page.                                           *)
(*                                                                         *)
(* A state is numbered by the server and is, of every proxy there is,      *)
(* whether it is in the one group, and whether there is the group.  Which  *)
(* proxy an account uses is ProxyPool's.                                   *)
(***************************************************************************)
EXTENDS Integers, Sequences

CONSTANTS
  ProxiesAtStart, \* how many there are: 1, 2, ...; new ones follow
  MaxAsked,    \* bounds of the model: requests, changes of the pool,
  MaxVersions, \* cuts of the socket
  MaxCut

\* Assumed of them.
ProxyPageConstants == {ProxiesAtStart, MaxAsked, MaxVersions, MaxCut} \subseteq Nat

VARIABLES
  pool,        \* the server's state: proxies, group and its number
  poolPushes,  \* proxies:update on its way
  online,      \* the socket
  asked,       \* requests, on their way there and back
  data,        \* the state shown
  editing,     \* the proxy page open: none, that of a new one or of a proxy
  form,        \* its group switch
  editingGroup,
  ticked,      \* the proxies selected in the list
  doomed,      \* the proxies the open dialog would delete
  unread,      \* state.error: the state could not be read
  made,        \* history: proxies created by the editor of an existing one
  overtaken,   \* history: the state shown is older than one shown or asked for before
  asks, losses \* bounds of the model

poolVars   == <<pool, poolPushes>>
editVars   == <<editing, form, editingGroup, ticked, doomed>>
proxyPageVars == <<poolVars, online, asked, data, editVars, unread, made, overtaken, asks, losses>>

NoEditor == 0
NewEditor == -1
NewProxy == ProxiesAtStart + pool.n + 1

-----------------------------------------------------------------------------
(* The server.  A change is saved and pushed, then answered.               *)

Edit(r) ==
  LET p == pool.proxies IN
  CASE r.kind = "create" -> [pool EXCEPT !.proxies = [x \in DOMAIN p \cup {NewProxy} |-> IF x = NewProxy THEN r.member ELSE p[x]]]
    [] r.kind = "update" -> [pool EXCEPT !.proxies = [x \in DOMAIN p |-> IF x \in r.ids THEN r.member /\ pool.group ELSE p[x]]]
    [] r.kind = "delete" -> [pool EXCEPT !.proxies = [x \in DOMAIN p \ r.ids |-> p[x]]]
    [] r.kind = "bulk"   -> [pool EXCEPT !.proxies = [x \in DOMAIN p |-> IF x \in r.ids THEN r.member ELSE p[x]]]
    [] r.kind = "newGroup" -> [pool EXCEPT !.group = TRUE, !.proxies = [x \in DOMAIN p |-> x \in r.ids]]
    [] r.kind = "noGroup"  -> [pool EXCEPT !.group = FALSE, !.proxies = [x \in DOMAIN p |-> FALSE]]

\* 404, or the group is unknown or its name taken.
EditRefused(r) ==
  \/ r.kind = "update" /\ ~(r.ids \subseteq DOMAIN pool.proxies)
  \/ r.kind \in {"bulk", "create", "update"} /\ r.member /\ ~pool.group
  \/ r.kind = "newGroup" /\ pool.group
  \/ r.kind = "noGroup" /\ ~pool.group

Saved(next) ==
  /\ pool.n < MaxVersions
  /\ pool' = [next EXCEPT !.n = pool.n + 1]
  /\ poolPushes' = IF online THEN Append(poolPushes, pool') ELSE poolPushes

Handle(r) ==
  /\ r \in asked /\ r.phase = "there" /\ ~EditRefused(r)
  /\ IF r.kind \in {"list", "test"} THEN UNCHANGED poolVars ELSE Saved(Edit(r))
  /\ asked' = (asked \ {r}) \cup {[r EXCEPT !.phase = "back", !.answer = pool']}
  /\ UNCHANGED <<online, data, editVars, unread, made, overtaken, asks, losses>>

\* Another page deletes a proxy, or takes one into or out of the group.
ChangedElsewhere ==
  /\ \E x \in DOMAIN pool.proxies :
       \/ Saved([pool EXCEPT !.proxies = [y \in DOMAIN pool.proxies \ {x} |-> pool.proxies[y]]])
       \/ pool.group /\ Saved([pool EXCEPT !.proxies[x] = ~@])
  /\ UNCHANGED <<online, asked, data, editVars, unread, made, overtaken, asks, losses>>

-----------------------------------------------------------------------------
(* The page.                                                               *)

PoolRequest(kind, ids, member) ==
  [kind |-> kind, ids |-> ids, member |-> member, phase |-> "there", answer |-> pool, mine |-> TRUE]
AskPool(r) == asks < MaxAsked /\ asks' = asks + 1 /\ asked' = asked \cup {r}

\* Mutant: the editor stays although its proxy is gone.
StaysOpen(next) == editing' = editing /\ editingGroup' = (editingGroup /\ next.group)

\* Who edits what is no longer there is taken back to the list.
LeavesEditor(next) ==
  /\ editing' = IF editing \in {NoEditor, NewEditor} \cup DOMAIN next.proxies THEN editing ELSE NoEditor
  /\ editingGroup' = (editingGroup /\ next.group)

\* apply
Apply(next) ==
  /\ data' = next /\ unread' = FALSE
  /\ overtaken' = (next.n < data.n \/ ((overtaken \/ unread) /\ next.n # pool.n))

\* A closed editor hears no answers.
Unmounted(rs) == IF editing' = NoEditor THEN {[r EXCEPT !.mine = FALSE] : r \in rs} ELSE rs

PoolPushed ==
  /\ online /\ poolPushes # <<>> /\ poolPushes' = Tail(poolPushes)
  /\ Apply(Head(poolPushes)) /\ LeavesEditor(data')
  /\ form' = (form /\ editing' # NoEditor) /\ asked' = Unmounted(asked)
  /\ UNCHANGED <<pool, online, ticked, doomed, made, asks, losses>>

PoolAnswered(r) ==
  /\ r \in asked /\ r.phase = "back"
  /\ Apply(r.answer)
  /\ IF r.kind = "create" /\ r.mine
       THEN /\ editing' = CHOOSE x \in DOMAIN r.answer.proxies : \A y \in DOMAIN r.answer.proxies : y <= x
            /\ form' = r.member
            /\ UNCHANGED editingGroup
       ELSE LeavesEditor(r.answer) /\ form' = (form /\ editing' # NoEditor)
  /\ asked' = Unmounted(asked \ {r})
  /\ ticked' = IF r.kind = "delete" /\ r.ids = ticked THEN {} ELSE ticked
  /\ UNCHANGED <<poolVars, online, doomed, made, asks, losses>>

PoolAnswerLost(r) ==
  /\ r \in asked /\ asked' = asked \ {r} /\ unread' = (unread \/ r.kind = "list")
  /\ UNCHANGED <<poolVars, online, data, editVars, made, overtaken, asks, losses>>

\* editProxy, onCrumb, back.  The list is gone with its ticks.
OpenEditor(x) ==
  /\ editing = NoEditor /\ ~editingGroup /\ x \in {NewEditor} \cup DOMAIN data.proxies
  /\ editing' = x /\ form' = (x # NewEditor /\ data.proxies[x])
  /\ editingGroup' = FALSE /\ ticked' = {}
  /\ UNCHANGED <<poolVars, online, asked, data, doomed, unread, made, overtaken, asks, losses>>
CloseEditor ==
  /\ editing # NoEditor \/ editingGroup
  /\ editing' = NoEditor /\ editingGroup' = FALSE /\ form' = FALSE
  /\ asked' = Unmounted(asked)
  /\ UNCHANGED <<poolVars, online, data, ticked, doomed, unread, made, overtaken, asks, losses>>
SwitchGroup ==
  /\ editing # NoEditor /\ data.group /\ form' = ~form
  /\ UNCHANGED <<poolVars, online, asked, data, editing, editingGroup, ticked, doomed, unread, made, overtaken, asks, losses>>

\* Of a proxy that is there it is an update, else it creates one; one at a time.
Idle == ~\E r \in asked : r.kind \in {"create", "update"} /\ r.mine
IsThere(x) == x \in DOMAIN data.proxies
SaveForm ==
  /\ editing # NoEditor /\ Idle
  /\ IF IsThere(editing) THEN AskPool(PoolRequest("update", {editing}, form)) /\ UNCHANGED made
     ELSE /\ AskPool(PoolRequest("create", {}, form))
          /\ made' = IF editing = NewEditor THEN made ELSE made \cup {editing}
  /\ UNCHANGED <<poolVars, online, data, editVars, unread, overtaken, losses>>

\* The list: ticks outlive the rows, only rows that are there count.
Ticked == ticked \cap DOMAIN data.proxies
Tick(x) ==
  /\ editing = NoEditor /\ ~editingGroup /\ x \in DOMAIN data.proxies
  /\ ticked' = IF x \in Ticked THEN Ticked \ {x} ELSE Ticked \cup {x}
  /\ UNCHANGED <<poolVars, online, asked, data, editing, form, editingGroup, doomed, unread, made, overtaken, asks, losses>>
BulkGroup(member) ==
  /\ editing = NoEditor /\ Ticked # {} /\ data.group
  /\ AskPool(PoolRequest("bulk", Ticked, member))
  /\ UNCHANGED <<poolVars, online, data, editVars, unread, made, overtaken, losses>>
TestTicked ==
  /\ editing = NoEditor /\ Ticked # {} /\ AskPool(PoolRequest("test", Ticked, FALSE))
  /\ UNCHANGED <<poolVars, online, data, editVars, unread, made, overtaken, losses>>

\* confirmDeleteProxies: what the dialog deletes is fixed when it opens.
AskDelete ==
  /\ doomed = {} /\ ~editingGroup
  /\ doomed' = IF IsThere(editing) THEN {editing} ELSE IF editing = NoEditor THEN Ticked ELSE {}
  /\ doomed' # {}
  /\ UNCHANGED <<poolVars, online, asked, data, editing, form, editingGroup, ticked, unread, made, overtaken, asks, losses>>
ConfirmDelete(sure) ==
  /\ doomed # {} /\ doomed' = {}
  /\ IF sure THEN AskPool(PoolRequest("delete", doomed, FALSE)) ELSE UNCHANGED <<asked, asks>>
  /\ UNCHANGED <<poolVars, online, data, editing, form, editingGroup, ticked, unread, made, overtaken, losses>>

\* submitNewGroup, confirmDeleteGroup.
NewGroup ==
  /\ editing = NoEditor /\ ~data.group /\ AskPool(PoolRequest("newGroup", Ticked, FALSE))
  /\ UNCHANGED <<poolVars, online, data, editVars, unread, made, overtaken, losses>>
OpenGroup ==
  /\ editing = NoEditor /\ data.group /\ ~editingGroup /\ editingGroup' = TRUE /\ ticked' = {}
  /\ UNCHANGED <<poolVars, online, asked, data, editing, form, doomed, unread, made, overtaken, asks, losses>>
DropGroup ==
  /\ editingGroup /\ AskPool(PoolRequest("noGroup", {}, FALSE))
  /\ UNCHANGED <<poolVars, online, data, editVars, unread, made, overtaken, losses>>

SocketCut ==
  /\ online /\ losses < MaxCut /\ losses' = losses + 1
  /\ online' = FALSE /\ poolPushes' = <<>>
  /\ UNCHANGED <<pool, asked, data, editVars, unread, made, overtaken, asks>>

\* Pushes may have been missed: the state is read again.
SocketBack ==
  /\ ~online /\ online' = TRUE /\ asked' = asked \cup {PoolRequest("list", {}, FALSE)}
  /\ UNCHANGED <<poolVars, data, editVars, unread, made, overtaken, asks, losses>>

ProxyPageInit ==
  /\ \E g \in BOOLEAN : pool = [proxies |-> [x \in 1..ProxiesAtStart |-> FALSE], group |-> g, n |-> 0]
  /\ data = pool /\ poolPushes = <<>> /\ online = TRUE /\ asked = {}
  /\ editing = NoEditor /\ form = FALSE /\ editingGroup = FALSE /\ ticked = {} /\ doomed = {}
  /\ unread = FALSE /\ made = {} /\ overtaken = FALSE /\ asks = 0 /\ losses = 0

ProxyPageNext ==
  \/ ChangedElsewhere \/ PoolPushed \/ SocketCut \/ SocketBack
  \/ \E r \in asked : Handle(r) \/ PoolAnswered(r) \/ PoolAnswerLost(r)
  \/ \E x \in {NewEditor} \cup DOMAIN data.proxies : OpenEditor(x)
  \/ \E x \in DOMAIN data.proxies : Tick(x)
  \/ CloseEditor \/ SwitchGroup \/ SaveForm \/ TestTicked \/ AskDelete \/ NewGroup \/ OpenGroup \/ DropGroup
  \/ \E b \in BOOLEAN : BulkGroup(b) \/ ConfirmDelete(b)

ProxyPageSpec == ProxyPageInit /\ [][ProxyPageNext]_proxyPageVars
-----------------------------------------------------------------------------
\* With nothing on its way the page shows the pool as it is, unless the last
\* reading failed or an answer came after a newer push.
ShowsPool ==
  online /\ poolPushes = <<>> /\ asked = {} /\ ~unread /\ ~overtaken => data = pool

\* The editor of a proxy that is deleted elsewhere never makes it anew, though
\* saving creates whatever is not there.
NeverMadeAnew == made = {}

ProxyPageKept == ShowsPool /\ NeverMadeAnew

-----------------------------------------------------------------------------
(* Why: as long as nothing is overtaken, the page has the pool's newest    *)
(* state, or a push of it or a list is on its way.                         *)
Tables == UNION {[S -> BOOLEAN] : S \in SUBSET Nat}
Pools == [proxies : Tables, group : BOOLEAN, n : Nat]
PoolRequests ==
  [kind : {"create", "update", "delete", "bulk", "newGroup", "noGroup", "list", "test"}, ids : SUBSET Int, member : BOOLEAN,
   phase : {"there", "back"}, answer : Pools, mine : BOOLEAN]

\* No number is used twice, of a proxy or of a state.
Known(x) ==
  /\ x \in Pools /\ DOMAIN x.proxies \subseteq 1..ProxiesAtStart + x.n
  /\ x.n <= pool.n /\ (x.n = pool.n => x = pool)
Answers(r) == r \in PoolRequests /\ Known(r.answer) /\ (r.kind = "create" /\ r.phase = "back" => DOMAIN r.answer.proxies # {})
PoolTyped ==
  /\ Known(pool) /\ Known(data) /\ \A r \in asked : Answers(r)
  /\ poolPushes \in Seq(Pools) /\ \A i \in 1..Len(poolPushes) : Known(poolPushes[i])
  /\ editing \in {NoEditor, NewEditor} \cup DOMAIN data.proxies
  /\ form \in BOOLEAN /\ ticked \subseteq Int /\ doomed \subseteq Int
ListComes == \E r \in asked : r.kind = "list" /\ (r.phase = "there" \/ r.answer.n = pool.n)
NewsComes ==
  /\ poolPushes # <<>> => online /\ poolPushes[Len(poolPushes)].n = pool.n
  /\ online /\ poolPushes = <<>> /\ ~overtaken /\ ~unread => data.n = pool.n \/ ListComes
ProxyInv == PoolTyped /\ NewsComes /\ NeverMadeAnew
=============================================================================
