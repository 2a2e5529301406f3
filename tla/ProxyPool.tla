------------------------------ MODULE ProxyPool ------------------------------
(***************************************************************************)
(* The proxy pool: createProxyService of src/proxy/index.ts over the       *)
(* configuration of src/store/proxies.ts.  Proxies, groups of proxies,     *)
(* what each account is bound to, and which proxy (and which of its IPs)   *)
(* each account has been given while the process runs.                     *)
(*                                                                         *)
(* Ids of proxies are random and never used again; here an id may come     *)
(* back once nothing refers to it.  There is one account group.            *)
(***************************************************************************)
EXTENDS Integers, FiniteSets, Functions

CONSTANTS
  Proxies, Groups, Accounts,
  Conns,       \* ways to connect: an endpoint (protocol, host, port, user) and
               \* the number of IPs it has to choose from, 0 if no choice
  Bindings,    \* what an account may be bound to
  Configs,     \* configurations to start from
  MaxEdits,    \* bound of the model: changes of the configuration, and checks
  Direct, None

ASSUME ProxyConstants ==
  /\ IsFiniteSet(Proxies) /\ IsFiniteSet(Accounts) /\ MaxEdits \in Nat
  /\ \A c \in Conns : c.size \in Nat

\* What a configuration is made of.
CheckResults == {None} \cup [ok : BOOLEAN, of : Conns]
ProxyRecords == [on : BOOLEAN, conn : Conns, groups : SUBSET Groups, check : CheckResults]
BindRecords == [mode : {"pool", "direct", "bind"}, proxies : SUBSET Proxies, groups : SUBSET Groups]
ConfigRecords ==
  [proxies : UNION {[ps -> ProxyRecords] : ps \in SUBSET Proxies}, groups : SUBSET Groups,
   bind : [Accounts -> BindRecords], linked : SUBSET Groups]

ASSUME ConfigConstants ==
  /\ Configs \subseteq ConfigRecords /\ Bindings \subseteq BindRecords
  /\ Direct \notin Proxies /\ Direct # None /\ None \notin Conns

VARIABLES
  config,      \* the configuration in memory
  saved,       \* the one in the database
  saveTimer,   \* results of checks wait to be saved
  member,      \* the accounts of the account group
  assigned,    \* the IP each account has been given
  checking,    \* how each proxy being checked was connected when that began
  sent,        \* history: the request just sent
  edits        \* bound of the model

proxyVars == <<config, saved, saveTimer, member, assigned, checking, sent, edits>>

-----------------------------------------------------------------------------
(***************************************************************************)
(* Which proxy an account may use, and which it is given.                  *)
(***************************************************************************)
Bound(c, a) ==
  LET b  == c.bind[a]
      gs == b.groups \cup (IF a \in member THEN c.linked ELSE {})
  IN  {p \in DOMAIN c.proxies : p \in b.proxies \/ c.proxies[p].groups \cap gs # {}}

Pinned(c) == UNION {c.bind[a].proxies : a \in Accounts}

Enabled(c, ps) == {p \in ps : c.proxies[p].on}

\* candidatesFor: {Direct}, proxies, or nothing if the account is refused.
Candidates(c, a) ==
  LET bound == Bound(c, a)
      pool  == Enabled(c, DOMAIN c.proxies \ Pinned(c))
  IN  IF c.bind[a].mode = "direct" THEN {Direct}
      ELSE IF bound # {} THEN Enabled(c, bound)
      ELSE IF pool # {} THEN pool ELSE {Direct}

\* accountProxyView: what the list of accounts says of an account.
AccountView(c, a) ==
  LET b      == c.bind[a]
      groups == (IF b.mode = "bind" THEN b.groups ELSE {}) \cup (IF a \in member THEN c.linked ELSE {})
      own    == IF b.mode = "bind" THEN b.proxies ELSE {}
      bound  == {p \in DOMAIN c.proxies : p \in own \/ \E g \in groups : g \in c.proxies[p].groups}
      free   == {p \in DOMAIN c.proxies : c.proxies[p].on /\ \A x \in Accounts : p \notin c.bind[x].proxies}
  IN  CASE b.mode = "direct" -> "direct"
        [] b.mode # "direct" /\ bound # {} -> IF \E p \in bound : c.proxies[p].on THEN "bind" ELSE "refused"
        [] OTHER -> IF free = {} THEN "direct" ELSE "pool"

\* An IP is a proxy and the number of one of its IPs, 0 if it has no choice.
Numbers(conn) == IF conn.size = 0 THEN {0} ELSE 1..conn.size
AllIPs == Proxies \X UNION {Numbers(conn) : conn \in Conns}
\* Neither Direct nor None is a pair.
ASSUME IPsAreOthers == Direct \notin AllIPs /\ None \notin AllIPs
IPsOf(c, p) == {p} \X Numbers(c.proxies[p].conn)

\* slotValid, of every IP of every candidate.
Usable(c, a) == UNION {IPsOf(c, p) : p \in Candidates(c, a) \ {Direct}}

Users(a, ips) == {b \in Accounts \ {a} : assigned[b] \in ips}
Looks(p) == \/ config.proxies[p].check = None \/ config.proxies[p].check.ok
            \/ checking[p] # None

\* Mutant: any IP of the proxies it may use.
PicksAny(a, ps) == UNION {IPsOf(config, p) : p \in ps}

\* pickSlot: healthy ones first, then the proxy with the fewest accounts per
\* IP, then an IP nobody has, or else one that the fewest have.
Picks(a, ps) ==
  LET good     == {p \in ps : Looks(p)}
      pool     == IF good # {} THEN good ELSE ps
      IPCount(p) == Cardinality(IPsOf(config, p))
      Load(p)  == Cardinality(Users(a, IPsOf(config, p)))
      lightest == {p \in pool : \A q \in pool : Load(p) * IPCount(q) <= Load(q) * IPCount(p)}
      Having(ip) == Cardinality(Users(a, {ip}))
  IN  UNION {{ip \in IPsOf(config, p) : \A other \in IPsOf(config, p) : Having(ip) <= Having(other)} :
             p \in lightest}

\* resolve, and the request that goes over what it returns.  An account whose
\* proxies are all disabled gets an error instead.
Request(a) ==
  LET may == Candidates(config, a)
  IN  /\ IF may = {Direct}
         THEN sent' = <<a, Direct>> /\ UNCHANGED assigned
         ELSE \E ip \in IF assigned[a] \in Usable(config, a) THEN {assigned[a]} ELSE Picks(a, may) :
                sent' = <<a, ip>> /\ assigned' = [assigned EXCEPT ![a] = ip]
      /\ UNCHANGED <<config, saved, saveTimer, member, checking, edits>>

-----------------------------------------------------------------------------
(***************************************************************************)
(* Changes of the configuration.                                           *)
(***************************************************************************)
\* save: stored at once (with the results of checks that waited for it), and
\* who may not use its IP any more loses it.
Save(next) ==
  /\ edits < MaxEdits /\ edits' = edits + 1
  /\ config' = next /\ saved' = next /\ saveTimer' = FALSE
  /\ assigned' = [a \in Accounts |-> IF assigned[a] \in Usable(next, a) THEN assigned[a] ELSE None]
  /\ sent' = None
  /\ UNCHANGED <<member, checking>>

WithProxies(f) == [config EXCEPT !.proxies = f]

\* assertUnique: an endpoint is there once.
Unique(f) == \A p, q \in DOMAIN f : f[p].conn.endpoint = f[q].conn.endpoint => p = q

AddProxies(ps) ==
  \E conn \in [ps -> Conns], on \in BOOLEAN, gs \in SUBSET config.groups :
    LET f == [p \in DOMAIN config.proxies \cup ps |->
                IF p \in ps THEN [on |-> on, conn |-> conn[p], groups |-> gs, check |-> None]
                ELSE config.proxies[p]]
    IN  Unique(f) /\ Save(WithProxies(f))

NewId(p) == p \notin DOMAIN config.proxies /\ checking[p] = None
CreateProxy(p) == NewId(p) /\ AddProxies({p})

\* Several at once, those that are there already skipped.
ImportProxies(ps) == ps # {} /\ (\A p \in ps : NewId(p)) /\ AddProxies(ps)

\* checkedProxy: the result of a check is void when the connection changes.
Edited(proxy, conn, on, gs) ==
  [on |-> on, conn |-> conn, groups |-> gs,
   check |-> IF conn = proxy.conn THEN proxy.check ELSE None]

UpdateProxy(p) ==
  /\ p \in DOMAIN config.proxies
  /\ \E conn \in Conns, on \in BOOLEAN, gs \in SUBSET config.groups :
       LET f == [config.proxies EXCEPT ![p] = Edited(@, conn, on, gs)]
       IN  Unique(f) /\ Save(WithProxies(f))

\* A binding that is left empty is none.
Rebound(b) == IF b.mode = "bind" /\ b.proxies = {} /\ b.groups = {} THEN [b EXCEPT !.mode = "pool"] ELSE b

Deleted(ids) ==
  [config EXCEPT !.proxies = Restrict(@, DOMAIN @ \ ids),
                 !.bind = [a \in Accounts |-> Rebound([config.bind[a] EXCEPT !.proxies = @ \ ids])]]

DeleteProxies(ids) == ids # {} /\ Save(Deleted(ids))

\* bulk: enable, disable, addGroups, removeGroups.
Bulk(ids) ==
  /\ ids # {}
  /\ \E action \in {"enable", "disable", "addGroups", "removeGroups"}, gs \in SUBSET config.groups :
       Save(WithProxies([p \in DOMAIN config.proxies |->
              IF p \notin ids THEN config.proxies[p]
              ELSE CASE action = "enable"  -> [config.proxies[p] EXCEPT !.on = TRUE]
                     [] action = "disable" -> [config.proxies[p] EXCEPT !.on = FALSE]
                     [] action = "addGroups" -> [config.proxies[p] EXCEPT !.groups = @ \cup gs]
                     [] action = "removeGroups" -> [config.proxies[p] EXCEPT !.groups = @ \ gs]]))

CreateGroup(g) ==
  /\ g \notin config.groups
  /\ \E ids \in SUBSET DOMAIN config.proxies :
       Save([config EXCEPT !.groups = @ \cup {g},
                           !.proxies = [p \in DOMAIN @ |-> IF p \in ids THEN [config.proxies[p] EXCEPT !.groups = @ \cup {g}]
                                                     ELSE config.proxies[p]]])

DeleteGroup(g) ==
  /\ g \in config.groups
  /\ Save([proxies |-> [p \in DOMAIN config.proxies |-> [config.proxies[p] EXCEPT !.groups = @ \ {g}]],
           groups |-> config.groups \ {g},
           bind |-> [a \in Accounts |-> Rebound([config.bind[a] EXCEPT !.groups = @ \ {g}])],
           linked |-> config.linked \ {g}])

\* bindAccounts: only to what exists.
BindAccounts(as, b) ==
  /\ as # {} /\ b.proxies \subseteq DOMAIN config.proxies /\ b.groups \subseteq config.groups
  /\ Save([config EXCEPT !.bind = [a \in Accounts |-> IF a \in as THEN b ELSE @[a]]])

\* distributeProxies: one each, those that the fewest others are bound to first.
BoundTo(p, bind) == Cardinality({a \in DOMAIN bind : p \in bind[a].proxies})
BindOne(p) == [mode |-> "bind", proxies |-> {p}, groups |-> {}]
Distributed(as, ids) ==
  {bind \in [as -> {BindOne(p) : p \in ids}] :
     LET kept == Restrict(config.bind, Accounts \ as)
         Load(p) == BoundTo(p, kept) + BoundTo(p, bind)
     IN  \A p, q \in ids : BoundTo(p, bind) > 0 => Load(p) <= Load(q) + 1}

DistributeProxies(as, ids) ==
  /\ as # {} /\ ids # {} /\ ids \subseteq DOMAIN config.proxies
  /\ \E bind \in Distributed(as, ids) :
       Save([config EXCEPT !.bind = [a \in Accounts |-> IF a \in as THEN bind[a] ELSE @[a]]])

LinkAccountGroup(gs) ==
  /\ gs \subseteq config.groups
  /\ Save([config EXCEPT !.linked = gs])

\* The account list puts an account into the account group or takes it out: the
\* pool is not told.
MoveAccount(a) ==
  /\ edits < MaxEdits /\ edits' = edits + 1
  /\ member' = IF a \in member THEN member \ {a} ELSE member \cup {a}
  /\ sent' = None
  /\ UNCHANGED <<config, saved, saveTimer, assigned, checking>>

-----------------------------------------------------------------------------
(***************************************************************************)
(* Checks, and the database.                                               *)
(***************************************************************************)
\* test: those being checked already are not checked twice.
Test(ids) ==
  /\ edits < MaxEdits /\ edits' = edits + 1
  /\ \E p \in ids : p \in DOMAIN config.proxies /\ checking[p] = None
  /\ checking' = [p \in Proxies |-> IF p \in ids \cap DOMAIN config.proxies /\ checking[p] = None
                                    THEN config.proxies[p].conn ELSE checking[p]]
  /\ sent' = None
  /\ UNCHANGED <<config, saved, saveTimer, member, assigned>>

\* Mutant: the proxy is looked up again, its connection is not.
CountsIfThere(p) == p \in DOMAIN config.proxies

\* Deleted or connected otherwise meanwhile: the result is of no use.
Counts(p) == p \in DOMAIN config.proxies /\ config.proxies[p].conn = checking[p]

\* persistSoon: one timer for all results that come before it fires.
CheckEnds(p, ok) ==
  /\ checking[p] # None
  /\ checking' = [checking EXCEPT ![p] = None]
  /\ IF Counts(p)
     THEN /\ config' = WithProxies([config.proxies EXCEPT ![p].check = [ok |-> ok, of |-> checking[p]]])
          /\ saveTimer' = TRUE
     ELSE UNCHANGED <<config, saveTimer>>
  /\ sent' = None
  /\ UNCHANGED <<saved, member, assigned, edits>>

SaveTimerFires ==
  /\ saveTimer
  /\ saved' = config /\ saveTimer' = FALSE
  /\ sent' = None
  /\ UNCHANGED <<config, member, assigned, checking, edits>>

\* load and currentConfig: references to what is not there are dropped.
Loaded(c) ==
  [c EXCEPT !.proxies = [p \in DOMAIN @ |-> [c.proxies[p] EXCEPT !.groups = @ \cap c.groups]],
            !.bind = [a \in Accounts |-> Rebound([c.bind[a] EXCEPT !.proxies = @ \cap DOMAIN c.proxies,
                                                                    !.groups = @ \cap c.groups])],
            !.linked = @ \cap c.groups]

ProxyRestart ==
  /\ config' = Loaded(saved)
  /\ saveTimer' = FALSE /\ sent' = None
  /\ assigned' = [a \in Accounts |-> None]
  /\ checking' = [p \in Proxies |-> None]
  /\ UNCHANGED <<saved, member, edits>>

ProxyInit ==
  /\ config \in Configs /\ saved = config /\ saveTimer = FALSE
  /\ member = {} /\ edits = 0 /\ sent = None
  /\ assigned = [a \in Accounts |-> None]
  /\ checking = [p \in Proxies |-> None]

ProxyNext ==
  \/ \E a \in Accounts : Request(a) \/ MoveAccount(a)
  \/ \E p \in Proxies : CreateProxy(p) \/ UpdateProxy(p) \/ \E ok \in BOOLEAN : CheckEnds(p, ok)
  \/ \E ps \in SUBSET Proxies : ImportProxies(ps)
  \/ \E ids \in SUBSET DOMAIN config.proxies : DeleteProxies(ids) \/ Bulk(ids) \/ Test(ids)
  \/ \E g \in Groups : CreateGroup(g) \/ DeleteGroup(g)
  \/ \E as \in SUBSET Accounts :
       \/ \E b \in Bindings : BindAccounts(as, b)
       \/ \E ids \in SUBSET Proxies : DistributeProxies(as, ids)
  \/ \E gs \in SUBSET Groups : LinkAccountGroup(gs)
  \/ SaveTimerFires \/ ProxyRestart

ProxySpec == ProxyInit /\ [][ProxyNext]_proxyVars

-----------------------------------------------------------------------------
\* A configuration is sound: it refers to nothing that is not there.
SoundConfig(c) ==
  /\ DOMAIN c.proxies \subseteq Proxies /\ c.groups \subseteq Groups /\ c.linked \subseteq c.groups
  /\ Unique(c.proxies)
  /\ \A p \in DOMAIN c.proxies :
       /\ c.proxies[p].on \in BOOLEAN /\ c.proxies[p].conn \in Conns
       /\ c.proxies[p].groups \subseteq c.groups
  /\ \A a \in Accounts :
       /\ c.bind[a].proxies \subseteq DOMAIN c.proxies /\ c.bind[a].groups \subseteq c.groups
       /\ (c.bind[a].mode = "bind") = (c.bind[a].proxies \cup c.bind[a].groups # {})

ProxyTypeOK ==
  /\ SoundConfig(config) /\ SoundConfig(saved) /\ saveTimer \in BOOLEAN
  /\ member \subseteq Accounts /\ edits \in 0..MaxEdits
  /\ assigned \in [Accounts -> AllIPs \cup {None}]
  /\ checking \in [Proxies -> Conns \cup {None}]

\* A result shown for a proxy was measured over the connection it has now: no
\* change, deletion or restart during a check hands it to another one.
OwnChecks(c) ==
  \A p \in DOMAIN c.proxies : c.proxies[p].check # None => c.proxies[p].check.of = c.proxies[p].conn
ChecksAreOwn == OwnChecks(config)

\* What there is at the start was saved by the program, and only a binding to
\* proxies is kept with some.
ASSUME SoundStart ==
  /\ \A c \in Configs : SoundConfig(c) /\ OwnChecks(c)
  /\ \A b \in Bindings : (b.mode = "bind") = (b.proxies \cup b.groups # {})

\* The database has every change; only results of checks may wait, and then a
\* timer is armed for them.
Unchecked(c) == [c EXCEPT !.proxies = [p \in DOMAIN @ |-> [@[p] EXCEPT !.check = None]]]
OnlyChecksWait ==
  Unchecked(saved) = Unchecked(config) /\ (saved # config => saveTimer)

\* The list of accounts has a rule of its own for which proxies an account uses:
\* it says the same as the one that is followed.
SaysWhatIsUsed ==
  \A a \in Accounts : LET says == AccountView(config, a) may == Candidates(config, a) IN
    /\ (says = "direct") = (may = {Direct})
    /\ (says = "refused") = (may = {})
    /\ says = "pool" => Bound(config, a) = {}

PoolKept == ChecksAreOwn /\ OnlyChecksWait /\ SaysWhatIsUsed

-----------------------------------------------------------------------------
\* The pool implements what it promises to accounts.
Promise == INSTANCE ProxyAssignment WITH
  IPs     <- AllIPs,
  allowed <- [a \in Accounts |-> IF Candidates(config, a) = {Direct} THEN {Direct} ELSE Usable(config, a)],
  kept    <- assigned

\* Through edits of proxies, groups and bindings, moves between account groups,
\* checks and restarts: an account never sends over what it is not bound to or
\* directly when it is bound, and keeps its IP as long as it may.
KeepsPromise == Promise!PromiseSpec
=============================================================================
