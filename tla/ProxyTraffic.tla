---------------------------- MODULE ProxyTraffic ----------------------------
(***************************************************************************)
(* What goes out by the proxies: the Steam requests (steamFetch of         *)
(* src/proxy/index.ts and createProxyFetch of src/core/proxy.ts, which     *)
(* follows redirections itself) and the logons, which queue for the proxy  *)
(* (queueLogin; whenLogonAllowed of src/steam/session-manager.ts).         *)
(*                                                                         *)
(* Which proxy an account gets is ProxyPool's matter: here a route changes *)
(* to a proxy, to a direct connection, or to a refusal, because all the    *)
(* proxies bound to the account are disabled.  LoginLimit has the limiter  *)
(* in detail: here a logon leaves the window at some time.                 *)
(***************************************************************************)
EXTENDS Integers, FiniteSets

CONSTANTS
  Accounts, Proxies,
  Anybody, Direct, Refused,            \* requests of no known account; routes
  Limit,                               \* logins per minute of every proxy
  MaxMoves, MaxHops, MaxStarts         \* bounds of the model

\* Assumed of them.
TrafficConstants ==
  /\ Limit \in Nat \ {0} /\ {MaxMoves, MaxHops, MaxStarts} \subseteq Nat
  /\ Anybody \notin Accounts /\ Direct \notin Proxies /\ Refused \notin Proxies \cup {Direct}

Keys == Accounts \cup {Anybody}

VARIABLES
  route,       \* key -> proxy, Direct or Refused
  address,     \* proxy -> a number of its address, which edits change; 0 when deleted
  known,       \* accounts whose SteamID the tool can name
  steamIds,    \* accounts it has named before
  fetchers,    \* [key, proxy, address]: connections kept for requests
  requests,    \* on their way: [no, by, conn, method, body, hop]
  clients,     \* account -> what its Steam client was built with, {} if none
  waiting,     \* logons in a queue: [account, at, ticket]
  tickets,     \* account -> number of its last logon
  starts,      \* logons of the last minute: [no, at: whose limiter, via]
  moves, sent, begun,    \* bounds of the model
  moved,       \* history: a route or an address was changed after a client was built
  outcast      \* history: a logon began that the tool refuses

requestVars == <<steamIds, fetchers, requests, sent>>
logonVars == <<clients, waiting, tickets, starts, begun, outcast>>
trafficVars == <<route, address, known, requestVars, logonVars, moves, moved>>

-----------------------------------------------------------------------------
(* What happens to the pool.                                               *)

Reroute ==
  /\ moves < MaxMoves /\ moves' = moves + 1
  /\ \/ \E k \in Keys, r \in Proxies \cup {Direct} \cup {Refused} :
          /\ r = Refused => k # Anybody
          /\ r \in Proxies => address[r] # 0
          /\ route[k] # r /\ route' = [route EXCEPT ![k] = r] /\ UNCHANGED address
     \/ \E p \in Proxies : address[p] # 0 /\ address' = [address EXCEPT ![p] = @ + 1] /\ UNCHANGED route
     \/ \E p \in Proxies : /\ address[p] # 0 /\ address' = [address EXCEPT ![p] = 0]
                           /\ route' = [k \in Keys |-> IF route[k] = p THEN Direct ELSE route[k]]
  /\ moved' = TRUE /\ UNCHANGED <<known, requestVars, logonVars>>
AccountComesOrGoes ==
  /\ moves < MaxMoves /\ moves' = moves + 1
  /\ \E a \in Accounts : known' = IF a \in known THEN known \ {a} ELSE known \cup {a}
  /\ UNCHANGED <<route, address, requestVars, logonVars, moved>>

-----------------------------------------------------------------------------
(* Requests.                                                               *)

\* accountOfCookies: a SteamID that was named once stays so.
KeyOf(a) == IF a \in known \cup steamIds THEN a ELSE Anybody

\* Mutant: the connection under the old address is kept as well.
KeepsOld(conn) == fetchers \cup {conn}
\* fetcherFor: one connection for each account, made anew for another address.
FetcherFor(conn) == {f \in fetchers : f.key # conn.key} \cup {conn}
ByDirect == [key |-> Anybody, proxy |-> Direct, address |-> 0]

\* steamFetch: to Steam by the account's proxy, to other hosts directly.
Send ==
  /\ sent + begun < MaxStarts /\ sent' = sent + 1
  /\ \E a \in Accounts, method \in {"GET", "POST"}, steam \in BOOLEAN :
       LET k == KeyOf(a)
           conn == IF steam /\ route[k] \in Proxies THEN [key |-> k, proxy |-> route[k], address |-> address[route[k]]] ELSE ByDirect
       IN /\ steam => route[k] # Refused
          /\ steamIds' = IF steam /\ k = a THEN steamIds \cup {a} ELSE steamIds
          /\ fetchers' = IF conn = ByDirect THEN fetchers ELSE FetcherFor(conn)
          /\ requests' = requests \cup {[no |-> sent', by |-> k, conn |-> conn, method |-> method, body |-> method = "POST", hop |-> 0]}
  /\ UNCHANGED <<route, address, known, logonVars, moves, moved>>

\* Mutant: what was sent goes along to the next address.
KeepsBody(r, status) == IF status = 303 \/ (status = 302 /\ r.method = "POST") THEN [r EXCEPT !.method = "GET"] ELSE r
Redirected(r, status) ==
  IF status = 303 \/ (status = 302 /\ r.method = "POST") THEN [r EXCEPT !.method = "GET", !.body = FALSE] ELSE r

\* once: the last answer, a failure, too many redirections; or a redirection, which
\* is another request by the same connection.
HopAnswered ==
  /\ \E r \in requests :
       \/ requests' = requests \ {r}
       \/ \E status \in {302, 303, 307} :
            r.hop < MaxHops /\ requests' = (requests \ {r}) \cup {[Redirected(r, status) EXCEPT !.hop = @ + 1]}
  /\ UNCHANGED <<route, address, known, steamIds, fetchers, sent, logonVars, moves, moved>>

-----------------------------------------------------------------------------
(* Logons.                                                                 *)

ViaOf(a) == IF route[a] \in Proxies THEN route[a] ELSE Direct
\* A limiter of a proxy that was deleted lets everybody go.
HasRoom(p) == address[p] = 0 \/ Cardinality({s \in starts : s.at = p}) < Limit

LogsOn(a, at) ==
  /\ starts' = starts \cup {[no |-> begun', at |-> at, via |-> CHOOSE v \in clients'[a] : TRUE]}
  /\ outcast' = (outcast \/ route[a] = Refused)
\* Mutant: a logon does not wait for those that wait.
AllowedAtOnce(a) ==
  /\ tickets' = [tickets EXCEPT ![a] = @ + 1]
  /\ LogsOn(a, route[a]) /\ UNCHANGED waiting
\* whenLogonAllowed: at once by a direct connection, or with room and nobody waiting.
WhenLogonAllowed(a) ==
  LET p == route[a]
  IN /\ tickets' = [tickets EXCEPT ![a] = @ + 1]
     /\ IF p \in Proxies /\ (~HasRoom(p) \/ \E w \in waiting : w.at = p)
        THEN waiting' = waiting \cup {[account |-> a, at |-> p, ticket |-> tickets'[a], no |-> begun']} /\ UNCHANGED <<starts, outcast>>
        ELSE LogsOn(a, p) /\ UNCHANGED waiting

\* startLogon: a client by the proxy of now.
StartLogon ==
  /\ sent + begun < MaxStarts /\ begun' = begun + 1
  /\ \E a \in Accounts : route[a] # Refused /\ clients' = [clients EXCEPT ![a] = {ViaOf(a)}] /\ WhenLogonAllowed(a)
  /\ UNCHANGED <<route, address, known, requestVars, moves, moved>>
\* retryLogon: the same client once more.
RetryLogon ==
  /\ sent + begun < MaxStarts /\ begun' = begun + 1
  /\ \E a \in Accounts : clients[a] # {} /\ route[a] # Refused /\ UNCHANGED clients /\ WhenLogonAllowed(a)
  /\ UNCHANGED <<route, address, known, requestVars, moves, moved>>

\* pump: the first in the queue, unless another logon of the account came after it.
Granted ==
  /\ \E w \in waiting :
       /\ HasRoom(w.at) /\ \A v \in waiting : v.at = w.at => w.no <= v.no
       /\ waiting' = waiting \ {w} /\ UNCHANGED <<clients, begun, tickets>>
       /\ IF w.ticket # tickets[w.account] THEN UNCHANGED <<starts, outcast>>
          ELSE /\ starts' = starts \cup {[no |-> w.no, at |-> w.at, via |-> CHOOSE v \in clients[w.account] : TRUE]}
               /\ outcast' = (outcast \/ route[w.account] = Refused)
  /\ UNCHANGED <<route, address, known, requestVars, moves, moved>>
\* The oldest logon leaves the window.
WindowPasses ==
  /\ \E s \in starts : (\A t \in starts : s.no <= t.no) /\ starts' = starts \ {s}
  /\ UNCHANGED <<route, address, known, requestVars, clients, waiting, tickets, begun, outcast, moves, moved>>

-----------------------------------------------------------------------------
TrafficInit ==
  /\ route \in [Keys -> Proxies \cup {Direct}] /\ address = [p \in Proxies |-> 1]
  /\ known = Accounts /\ steamIds = {} /\ fetchers = {} /\ requests = {}
  /\ clients = [a \in Accounts |-> {}] /\ waiting = {} /\ tickets = [a \in Accounts |-> 0] /\ starts = {}
  /\ moves = 0 /\ sent = 0 /\ begun = 0 /\ moved = FALSE /\ outcast = FALSE
TrafficNext == Reroute \/ AccountComesOrGoes \/ Send \/ HopAnswered \/ StartLogon \/ RetryLogon \/ Granted \/ WindowPasses
TrafficSpec == TrafficInit /\ [][TrafficNext]_trafficVars

-----------------------------------------------------------------------------
\* Accounts do not share connections and an account has one: a request goes to its
\* end by the one it began with, and only a POST carries something.
ConnectionsOwn ==
  /\ \A f, g \in fetchers : f.key = g.key => f = g
  /\ \A r \in requests : r.conn # ByDirect => r.conn.key = r.by
  /\ \A r \in requests : r.body => r.method = "POST"

\* While no route changes, no proxy has more logons in a minute than it allows,
\* retries and those that waited included.
LimitsHold == ~moved => \A p \in Proxies : Cardinality({s \in starts : s.via = p}) <= Limit

\* What goes out by the proxies.
TrafficKept == ConnectionsOwn /\ LimitsHold

\* What a request or a logon is made of.
Connection == [key : Keys, proxy : Proxies \cup {Direct}, address : Nat]
Request == [no : Nat, by : Keys, conn : Connection, method : {"GET", "POST"}, body : BOOLEAN, hop : Nat]
TrafficTyped ==
  /\ route \in [Keys -> Proxies \cup {Direct, Refused}] /\ address \in [Proxies -> Nat]
  /\ sent \in Nat /\ fetchers \subseteq Connection /\ requests \subseteq Request
  /\ DOMAIN clients = Accounts /\ IsFiniteSet(starts) /\ \A w \in waiting : w.account \in Accounts

\* Why the limits hold while no route changes: a client was built for the proxy
\* its account has, and who waits does so for that proxy; what the limiter of a
\* proxy counts is what left by it, and a limiter that is there lets nobody past.
RoutesStand ==
  /\ \A k \in Keys : route[k] # Refused
  /\ \A p \in Proxies : address[p] # 0 /\ Cardinality({s \in starts : s.at = p}) <= Limit
  /\ \A a \in Accounts : clients[a] \in {{}, {ViaOf(a)}}
  /\ \A w \in waiting : clients[w.account] # {} /\ w.at = route[w.account] /\ w.at \in Proxies
  /\ \A s \in starts : s.via \in Proxies => s.at = s.via

\* Inductive.
TrafficInv == TrafficTyped /\ ConnectionsOwn /\ (~moved => RoutesStand)

\* "绑定的代理全停用了就拒绝(登录、请求都不发…)" (proxy/index.ts:7): no logon begins
\* for an account whose proxies are all disabled, also one that waited.
RefusedStaysOut == ~outcast
=============================================================================
