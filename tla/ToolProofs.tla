----------------------------- MODULE ToolProofs -----------------------------
(***************************************************************************)
(* What the tool itself keeps: the promise of the proxy pool, for any      *)
(* number of proxies, groups and accounts and any sequence of edits; the   *)
(* counts of requests; sessions and the limit on guesses at the password;  *)
(* the queue of requests, purchases, inventories and the update.           *)
(***************************************************************************)
EXTENDS MC_Tool, FiniteSetTheorems, TLAPS

-----------------------------------------------------------------------------
(* The proxy pool. *)

\* A result is of the connection that the proxy has; only a binding to proxies is
\* kept with some.
Own(r) == r.check # None => r.check.of = r.conn
Bind(b) == (b.mode = "bind") = (b.proxies \cup b.groups # {})

\* What every configuration of the program is.
Proper(c) == c \in ConfigRecords /\ SoundConfig(c) /\ OwnChecks(c)

Whole(f, gs, bind, linked) == [proxies |-> f, groups |-> gs, bind |-> bind, linked |-> linked]

\* Its parts, and what makes parts a configuration.
Parts(f, gs, bind, linked) ==
  /\ gs \subseteq Groups /\ linked \subseteq gs
  /\ DOMAIN f \subseteq Proxies /\ f \in [DOMAIN f -> ProxyRecords] /\ Unique(f)
  /\ \A p \in DOMAIN f : f[p].groups \subseteq gs /\ Own(f[p])
  /\ bind \in [Accounts -> BindRecords]
  /\ \A a \in Accounts : bind[a].proxies \subseteq DOMAIN f /\ bind[a].groups \subseteq gs /\ Bind(bind[a])

LEMMA ProperParts ==
  ASSUME NEW c, Proper(c)
  PROVE  c = Whole(c.proxies, c.groups, c.bind, c.linked) /\ Parts(c.proxies, c.groups, c.bind, c.linked)
<1>1. c \in ConfigRecords /\ SoundConfig(c) /\ OwnChecks(c)
  BY DEF Proper
<1>2. c = Whole(c.proxies, c.groups, c.bind, c.linked)
  BY <1>1 DEF ConfigRecords, Whole
<1>3. c.bind \in [Accounts -> BindRecords]
  BY <1>1 DEF ConfigRecords
<1>4. PICK ps \in SUBSET Proxies : c.proxies \in [ps -> ProxyRecords]
  BY <1>1 DEF ConfigRecords
<1>5. c.proxies \in [DOMAIN c.proxies -> ProxyRecords]
  BY <1>4
<1> QED BY <1>1, <1>2, <1>3, <1>5 DEF Parts, Own, Bind, OwnChecks, SoundConfig

LEMMA PartsProper ==
  ASSUME NEW f, NEW gs, NEW bind, NEW linked, Parts(f, gs, bind, linked)
  PROVE  Proper(Whole(f, gs, bind, linked))
<1> DEFINE c == Whole(f, gs, bind, linked)
<1>1. c.proxies = f /\ c.groups = gs /\ c.bind = bind /\ c.linked = linked
  BY DEF Whole
<1>2. c \in ConfigRecords
  <2>1. f \in UNION {[ps -> ProxyRecords] : ps \in SUBSET Proxies}
    BY DEF Parts
  <2> QED BY <2>1 DEF Parts, ConfigRecords, Whole
<1>3. OwnChecks(c)
  BY <1>1 DEF OwnChecks, Parts, Own
<1>4. SoundConfig(c)
  <2>1. \A p \in DOMAIN f : f[p].on \in BOOLEAN /\ f[p].conn \in Conns
    BY DEF Parts, ProxyRecords
  <2> HIDE DEF c
  <2> QED BY <1>1, <2>1 DEF SoundConfig, Parts, Bind
<1> QED BY <1>2, <1>3, <1>4 DEF Proper

\* Proxies that are connected as before are as different as before.
LEMMA StillUnique ==
  ASSUME NEW f, NEW g, Unique(f), DOMAIN g \subseteq DOMAIN f, \A p \in DOMAIN g : g[p].conn = f[p].conn
  PROVE  Unique(g)
  BY DEF Unique

\* Every edit saves such a configuration.
Edits == \E after : Proper(after) /\ Save(after)

LEMMA WithParts ==
  ASSUME Proper(config), NEW f
  PROVE  WithProxies(f) = Whole(f, config.groups, config.bind, config.linked)
<1>1. config = Whole(config.proxies, config.groups, config.bind, config.linked)
  BY ProperParts
<1> QED BY <1>1 DEF WithProxies, Whole

LEMMA ProxiesChange ==
  ASSUME Proper(config), NEW f, DOMAIN config.proxies \subseteq DOMAIN f, DOMAIN f \subseteq Proxies,
         f \in [DOMAIN f -> ProxyRecords], Unique(f),
         \A p \in DOMAIN f : f[p].groups \subseteq config.groups /\ Own(f[p]),
         Save(WithProxies(f))
  PROVE  Edits
<1>1. Parts(f, config.groups, config.bind, config.linked)
  BY ProperParts DEF Parts
<1> QED BY <1>1, WithParts, PartsProper DEF Edits

LEMMA AddProxiesSaves ==
  ASSUME Proper(config), NEW ps \in SUBSET Proxies, AddProxies(ps)
  PROVE  Edits
<1>1. PICK conn \in [ps -> Conns], on \in BOOLEAN, gs \in SUBSET config.groups :
        LET f == [p \in DOMAIN config.proxies \cup ps |->
                    IF p \in ps THEN [on |-> on, conn |-> conn[p], groups |-> gs, check |-> None]
                    ELSE config.proxies[p]]
        IN  Unique(f) /\ Save(WithProxies(f))
  BY DEF AddProxies
<1> DEFINE f == [p \in DOMAIN config.proxies \cup ps |->
                   IF p \in ps THEN [on |-> on, conn |-> conn[p], groups |-> gs, check |-> None]
                   ELSE config.proxies[p]]
<1>2. Parts(config.proxies, config.groups, config.bind, config.linked)
  BY ProperParts
<1>3. ASSUME NEW p \in DOMAIN f
      PROVE  f[p] \in ProxyRecords /\ f[p].groups \subseteq config.groups /\ Own(f[p])
  <2>1. CASE p \in ps
    <3>1. f[p] = [on |-> on, conn |-> conn[p], groups |-> gs, check |-> None] /\ gs \subseteq Groups
      BY <1>2, <2>1 DEF Parts
    <3> QED BY <2>1, <3>1 DEF ProxyRecords, CheckResults, Own
  <2>2. CASE p \notin ps
    BY <1>2, <1>3, <2>2 DEF Parts
  <2> QED BY <2>1, <2>2
<1>4. DOMAIN f = DOMAIN config.proxies \cup ps /\ f \in [DOMAIN f -> ProxyRecords]
  BY <1>3
<1>5. DOMAIN f \subseteq Proxies
  BY <1>2, <1>4 DEF Parts
<1>6. Unique(f) /\ Save(WithProxies(f))
  BY <1>1
<1> HIDE DEF f
<1> QED BY <1>3, <1>4, <1>5, <1>6, ProxiesChange

LEMMA UpdateProxySaves ==
  ASSUME Proper(config), NEW p \in Proxies, UpdateProxy(p)
  PROVE  Edits
<1>1. PICK conn \in Conns, on \in BOOLEAN, gs \in SUBSET config.groups :
        LET f == [config.proxies EXCEPT ![p] = Edited(@, conn, on, gs)]
        IN  Unique(f) /\ Save(WithProxies(f))
  BY DEF UpdateProxy
<1> DEFINE f == [config.proxies EXCEPT ![p] = Edited(@, conn, on, gs)]
<1>2. Parts(config.proxies, config.groups, config.bind, config.linked)
  BY ProperParts
<1>3. ASSUME NEW r \in ProxyRecords, Own(r)
      PROVE  LET e == Edited(r, conn, on, gs) IN e \in ProxyRecords /\ e.groups = gs /\ Own(e)
  <2>1. gs \subseteq Groups
    BY <1>2 DEF Parts
  <2> QED BY <1>3, <2>1 DEF Edited, ProxyRecords, CheckResults, Own
<1>4. p \in DOMAIN config.proxies /\ DOMAIN f = DOMAIN config.proxies
  BY DEF UpdateProxy
<1>5. ASSUME NEW q \in DOMAIN f
      PROVE  f[q] \in ProxyRecords /\ f[q].groups \subseteq config.groups /\ Own(f[q])
  <2>1. CASE q = p
    <3>1. f[q] = Edited(config.proxies[p], conn, on, gs) /\ config.proxies[p] \in ProxyRecords /\ Own(config.proxies[p])
      BY <1>2, <1>4, <2>1 DEF Parts
    <3> QED BY <1>3, <3>1
  <2>2. CASE q # p
    BY <1>2, <1>4, <2>2 DEF Parts
  <2> QED BY <2>1, <2>2
<1>6. f \in [DOMAIN f -> ProxyRecords] /\ DOMAIN f \subseteq Proxies /\ Unique(f) /\ Save(WithProxies(f))
  BY <1>1, <1>2, <1>4, <1>5 DEF Parts
<1> HIDE DEF f
<1> QED BY <1>4, <1>5, <1>6, ProxiesChange

\* A binding that loses proxies or groups is none when it has none left.
LEMMA ReboundBinds ==
  ASSUME NEW b \in BindRecords, Bind(b), NEW d \in BindRecords, d.mode = b.mode,
         d.proxies \subseteq b.proxies, d.groups \subseteq b.groups
  PROVE  Rebound(d) \in BindRecords /\ Bind(Rebound(d)) /\ Rebound(d).proxies = d.proxies /\ Rebound(d).groups = d.groups
  BY DEF Rebound, Bind, BindRecords

LEMMA DeleteProxiesSaves ==
  ASSUME Proper(config), NEW ids, DeleteProxies(ids)
  PROVE  Edits
<1> DEFINE f == Restrict(config.proxies, DOMAIN config.proxies \ ids)
           bind == [a \in Accounts |-> Rebound([config.bind[a] EXCEPT !.proxies = @ \ ids])]
<1>1. /\ config = Whole(config.proxies, config.groups, config.bind, config.linked)
      /\ Parts(config.proxies, config.groups, config.bind, config.linked)
  BY ProperParts
<1>2. Deleted(ids) = Whole(f, config.groups, bind, config.linked)
  <2>1. Deleted(ids) = [config EXCEPT !.proxies = f, !.bind = bind]
    BY <1>1 DEF Deleted, Whole
  <2> HIDE DEF f, bind
  <2> QED BY <1>1, <2>1 DEF Whole
<1>3. DOMAIN f = DOMAIN config.proxies \ ids /\ \A p \in DOMAIN f : f[p] = config.proxies[p]
  BY DEF Restrict
<1>4. f \in [DOMAIN f -> ProxyRecords]
  BY <1>1, <1>3 DEF Restrict, Parts
<1>5. Unique(f)
  BY <1>1, <1>3, StillUnique DEF Parts
<1>6. ASSUME NEW a \in Accounts
      PROVE  /\ bind[a] \in BindRecords /\ Bind(bind[a])
             /\ bind[a].proxies \subseteq DOMAIN f /\ bind[a].groups \subseteq config.groups
  <2> DEFINE d == [config.bind[a] EXCEPT !.proxies = @ \ ids]
  <2>1. /\ config.bind[a] \in BindRecords /\ Bind(config.bind[a])
        /\ config.bind[a].proxies \subseteq DOMAIN config.proxies /\ config.bind[a].groups \subseteq config.groups
    BY <1>1 DEF Parts
  <2>2. /\ d \in BindRecords /\ d.mode = config.bind[a].mode
        /\ d.proxies = config.bind[a].proxies \ ids /\ d.groups = config.bind[a].groups
    BY <2>1 DEF BindRecords
  <2>3. bind[a] = Rebound(d)
    OBVIOUS
  <2> HIDE DEF d, bind
  <2> QED BY <1>3, <2>1, <2>2, <2>3, ReboundBinds
<1> HIDE DEF f
<1>7. bind \in [Accounts -> BindRecords]
  BY <1>6
<1> HIDE DEF bind
<1>8. Parts(f, config.groups, bind, config.linked)
  BY <1>1, <1>3, <1>4, <1>5, <1>6, <1>7 DEF Parts
<1> QED BY <1>2, <1>8, PartsProper DEF DeleteProxies, Edits

LEMMA BulkSaves ==
  ASSUME Proper(config), NEW ids, Bulk(ids)
  PROVE  Edits
<1> DEFINE f(action, gs) ==
             [p \in DOMAIN config.proxies |->
                IF p \notin ids THEN config.proxies[p]
                ELSE CASE action = "enable"  -> [config.proxies[p] EXCEPT !.on = TRUE]
                       [] action = "disable" -> [config.proxies[p] EXCEPT !.on = FALSE]
                       [] action = "addGroups" -> [config.proxies[p] EXCEPT !.groups = @ \cup gs]
                       [] action = "removeGroups" -> [config.proxies[p] EXCEPT !.groups = @ \ gs]]
<1>1. PICK action \in {"enable", "disable", "addGroups", "removeGroups"}, gs \in SUBSET config.groups :
        Save(WithProxies(f(action, gs)))
  BY DEF Bulk
<1>2. Parts(config.proxies, config.groups, config.bind, config.linked)
  BY ProperParts
<1>3. ASSUME NEW p \in DOMAIN config.proxies
      PROVE  LET r == f(action, gs)[p]
             IN r \in ProxyRecords /\ r.conn = config.proxies[p].conn /\ r.groups \subseteq config.groups /\ Own(r)
  <2>1. config.proxies[p] \in ProxyRecords /\ Own(config.proxies[p])
        /\ config.proxies[p].groups \subseteq config.groups /\ config.groups \subseteq Groups
    BY <1>2, <1>3 DEF Parts
  <2>2. PICK r \in ProxyRecords : r = config.proxies[p]
    BY <2>1
  <2>3. CASE p \notin ids
    BY <2>1, <2>3
  <2>4. CASE p \in ids /\ action = "enable"
    <3>1. f(action, gs)[p] = [r EXCEPT !.on = TRUE]
      BY <2>2, <2>4
    <3> QED BY <2>1, <2>2, <3>1 DEF ProxyRecords, Own
  <2>5. CASE p \in ids /\ action = "disable"
    <3>1. f(action, gs)[p] = [r EXCEPT !.on = FALSE]
      BY <2>2, <2>5
    <3> QED BY <2>1, <2>2, <3>1 DEF ProxyRecords, Own
  <2>6. CASE p \in ids /\ action = "addGroups"
    <3>1. f(action, gs)[p] = [r EXCEPT !.groups = @ \cup gs]
      BY <2>2, <2>6
    <3> QED BY <2>1, <2>2, <3>1 DEF ProxyRecords, Own
  <2>7. CASE p \in ids /\ action = "removeGroups"
    <3>1. f(action, gs)[p] = [r EXCEPT !.groups = @ \ gs]
      BY <2>2, <2>7
    <3> QED BY <2>1, <2>2, <3>1 DEF ProxyRecords, Own
  <2> HIDE DEF f
  <2> QED BY <2>3, <2>4, <2>5, <2>6, <2>7
<1>4. DOMAIN f(action, gs) = DOMAIN config.proxies
  OBVIOUS
<1>5. f(action, gs) \in [DOMAIN f(action, gs) -> ProxyRecords]
  BY <1>3, <1>4
<1> HIDE DEF f
<1>6. Unique(f(action, gs)) /\ DOMAIN f(action, gs) \subseteq Proxies
  BY <1>2, <1>3, <1>4, StillUnique DEF Parts
<1> QED BY <1>1, <1>3, <1>4, <1>5, <1>6, ProxiesChange

LEMMA CreateGroupSaves ==
  ASSUME Proper(config), NEW g \in Groups, CreateGroup(g)
  PROVE  Edits
<1> DEFINE f(ids) == [p \in DOMAIN config.proxies |-> IF p \in ids THEN [config.proxies[p] EXCEPT !.groups = @ \cup {g}]
                                                     ELSE config.proxies[p]]
           gs == config.groups \cup {g}
<1>1. /\ config = Whole(config.proxies, config.groups, config.bind, config.linked)
      /\ Parts(config.proxies, config.groups, config.bind, config.linked)
  BY ProperParts
<1> DEFINE after(ids) ==
      [config EXCEPT !.groups = @ \cup {g},
                     !.proxies = [p \in DOMAIN @ |-> IF p \in ids THEN [config.proxies[p] EXCEPT !.groups = @ \cup {g}]
                                                     ELSE config.proxies[p]]]
<1>2. PICK ids \in SUBSET DOMAIN config.proxies : Save(after(ids))
  BY DEF CreateGroup
<1>0. after(ids) = Whole(f(ids), gs, config.bind, config.linked)
  <2>1. after(ids) = [config EXCEPT !.groups = gs, !.proxies = f(ids)]
    BY <1>1 DEF Whole
  <2> HIDE DEF after, f, gs
  <2> QED BY <1>1, <2>1 DEF Whole
<1> HIDE DEF after
<1>3. ASSUME NEW p \in DOMAIN config.proxies
      PROVE  LET r == f(ids)[p]
             IN r \in ProxyRecords /\ r.conn = config.proxies[p].conn /\ r.groups \subseteq gs /\ Own(r)
  <2>1. config.proxies[p] \in ProxyRecords /\ Own(config.proxies[p]) /\ config.proxies[p].groups \subseteq config.groups
    BY <1>1, <1>3 DEF Parts
  <2> QED BY <2>1 DEF ProxyRecords, Own
<1>4. DOMAIN f(ids) = DOMAIN config.proxies
  OBVIOUS
<1>5. f(ids) \in [DOMAIN f(ids) -> ProxyRecords]
  BY <1>3, <1>4
<1> HIDE DEF f
<1>6. Unique(f(ids))
  BY <1>1, <1>3, <1>4, StillUnique DEF Parts
<1>7. Parts(f(ids), gs, config.bind, config.linked)
  BY <1>1, <1>3, <1>4, <1>5, <1>6 DEF Parts
<1> QED BY <1>0, <1>2, <1>7, PartsProper DEF Edits

LEMMA DeleteGroupSaves ==
  ASSUME Proper(config), NEW g \in Groups, DeleteGroup(g)
  PROVE  Edits
<1> DEFINE f == [p \in DOMAIN config.proxies |-> [config.proxies[p] EXCEPT !.groups = @ \ {g}]]
           gs == config.groups \ {g}
           bind == [a \in Accounts |-> Rebound([config.bind[a] EXCEPT !.groups = @ \ {g}])]
<1>1. Save(Whole(f, gs, bind, config.linked \ {g}))
  BY DEF DeleteGroup, Whole
<1>2. Parts(config.proxies, config.groups, config.bind, config.linked)
  BY ProperParts
<1>3. ASSUME NEW p \in DOMAIN config.proxies
      PROVE  f[p] \in ProxyRecords /\ f[p].conn = config.proxies[p].conn /\ f[p].groups \subseteq gs /\ Own(f[p])
  <2>1. config.proxies[p] \in ProxyRecords /\ Own(config.proxies[p]) /\ config.proxies[p].groups \subseteq config.groups
    BY <1>2, <1>3 DEF Parts
  <2> QED BY <2>1 DEF ProxyRecords, Own
<1>4. DOMAIN f = DOMAIN config.proxies
  OBVIOUS
<1>5. f \in [DOMAIN f -> ProxyRecords]
  BY <1>3, <1>4
<1>6. ASSUME NEW a \in Accounts
      PROVE  /\ bind[a] \in BindRecords /\ Bind(bind[a])
             /\ bind[a].proxies \subseteq DOMAIN f /\ bind[a].groups \subseteq gs
  <2> DEFINE d == [config.bind[a] EXCEPT !.groups = @ \ {g}]
  <2>1. /\ config.bind[a] \in BindRecords /\ Bind(config.bind[a])
        /\ config.bind[a].proxies \subseteq DOMAIN config.proxies /\ config.bind[a].groups \subseteq config.groups
    BY <1>2 DEF Parts
  <2>2. /\ d \in BindRecords /\ d.mode = config.bind[a].mode
        /\ d.groups = config.bind[a].groups \ {g} /\ d.proxies = config.bind[a].proxies
    BY <2>1 DEF BindRecords
  <2>3. bind[a] = Rebound(d)
    OBVIOUS
  <2> HIDE DEF d, bind, f
  <2> QED BY <1>4, <2>1, <2>2, <2>3, ReboundBinds
<1>7. bind \in [Accounts -> BindRecords]
  BY <1>6
<1> HIDE DEF f, bind
<1>8. Unique(f)
  BY <1>2, <1>3, <1>4, StillUnique DEF Parts
<1>9. Parts(f, gs, bind, config.linked \ {g})
  BY <1>2, <1>3, <1>4, <1>5, <1>6, <1>7, <1>8 DEF Parts
<1> QED BY <1>1, <1>9, PartsProper DEF Edits

\* Edits that leave the proxies alone.
LEMMA BindingsChange ==
  ASSUME Proper(config), NEW bind \in [Accounts -> BindRecords],
         \A a \in Accounts : /\ bind[a].proxies \subseteq DOMAIN config.proxies
                             /\ bind[a].groups \subseteq config.groups /\ Bind(bind[a])
  PROVE  Proper([config EXCEPT !.bind = bind])
<1>1. /\ config = Whole(config.proxies, config.groups, config.bind, config.linked)
      /\ Parts(config.proxies, config.groups, config.bind, config.linked)
  BY ProperParts
<1>2. [config EXCEPT !.bind = bind] = Whole(config.proxies, config.groups, bind, config.linked)
  BY <1>1 DEF Whole
<1>3. Parts(config.proxies, config.groups, bind, config.linked)
  BY <1>1 DEF Parts
<1> QED BY <1>2, <1>3, PartsProper

LEMMA BindAccountsSaves ==
  ASSUME Proper(config), NEW as, NEW b \in Bindings, BindAccounts(as, b)
  PROVE  Edits
<1> DEFINE bind == [a \in Accounts |-> IF a \in as THEN b ELSE config.bind[a]]
<1>1. Save([config EXCEPT !.bind = bind])
  BY DEF BindAccounts
<1>2. Parts(config.proxies, config.groups, config.bind, config.linked)
  BY ProperParts
<1>3. b \in BindRecords /\ Bind(b) /\ b.proxies \subseteq DOMAIN config.proxies /\ b.groups \subseteq config.groups
  BY ConfigConstants, SoundStart DEF BindAccounts, Bind
<1>4. /\ bind \in [Accounts -> BindRecords]
      /\ \A a \in Accounts : /\ bind[a].proxies \subseteq DOMAIN config.proxies
                             /\ bind[a].groups \subseteq config.groups /\ Bind(bind[a])
  BY <1>2, <1>3 DEF Parts
<1> HIDE DEF bind
<1> QED BY <1>1, <1>4, BindingsChange DEF Edits

LEMMA DistributeProxiesSaves ==
  ASSUME Proper(config), NEW as, NEW ids \in SUBSET Proxies, DistributeProxies(as, ids)
  PROVE  Edits
<1> DEFINE bind(d) == [a \in Accounts |-> IF a \in as THEN d[a] ELSE config.bind[a]]
<1>1. PICK d \in Distributed(as, ids) : Save([config EXCEPT !.bind = bind(d)])
  BY DEF DistributeProxies
<1>2. Parts(config.proxies, config.groups, config.bind, config.linked)
  BY ProperParts
<1>3. ASSUME NEW p \in ids
      PROVE  BindOne(p) \in BindRecords /\ Bind(BindOne(p)) /\ BindOne(p).proxies = {p} /\ BindOne(p).groups = {}
  BY DEF BindOne, BindRecords, Bind
<1>4. \A a \in as : d[a] \in {BindOne(p) : p \in ids}
  BY DEF Distributed
<1>5. ids \subseteq DOMAIN config.proxies
  BY DEF DistributeProxies
<1>6. ASSUME NEW a \in as
      PROVE  /\ d[a] \in BindRecords /\ Bind(d[a])
             /\ d[a].proxies \subseteq DOMAIN config.proxies /\ d[a].groups \subseteq config.groups
  <2>1. PICK p \in ids : d[a] = BindOne(p)
    BY <1>4
  <2> QED BY <1>3, <1>5, <2>1
<1>7. /\ bind(d) \in [Accounts -> BindRecords]
      /\ \A a \in Accounts : /\ bind(d)[a].proxies \subseteq DOMAIN config.proxies
                             /\ bind(d)[a].groups \subseteq config.groups /\ Bind(bind(d)[a])
  BY <1>2, <1>6 DEF Parts
<1> HIDE DEF bind
<1> QED BY <1>1, <1>7, BindingsChange DEF Edits

LEMMA LinkAccountGroupSaves ==
  ASSUME Proper(config), NEW gs, LinkAccountGroup(gs)
  PROVE  Edits
<1>1. /\ config = Whole(config.proxies, config.groups, config.bind, config.linked)
      /\ Parts(config.proxies, config.groups, config.bind, config.linked)
  BY ProperParts
<1>2. [config EXCEPT !.linked = gs] = Whole(config.proxies, config.groups, config.bind, gs)
  BY <1>1 DEF Whole
<1>3. Parts(config.proxies, config.groups, config.bind, gs)
  BY <1>1 DEF LinkAccountGroup, Parts
<1> QED BY <1>2, <1>3, PartsProper DEF LinkAccountGroup, Edits

\* Only the results of checks may be newer in memory than in the database.
PoolSaved ==
  /\ Proper(config) /\ Proper(saved) /\ saveTimer \in BOOLEAN
  /\ checking \in [Proxies -> Conns \cup {None}]
  /\ OnlyChecksWait

\* What is loaded is what was saved.
LEMMA LoadedIsSaved == ASSUME NEW c, Proper(c) PROVE Loaded(c) = c
<1> DEFINE f == [p \in DOMAIN c.proxies |-> [c.proxies[p] EXCEPT !.groups = @ \cap c.groups]]
           bind == [a \in Accounts |-> Rebound([c.bind[a] EXCEPT !.proxies = @ \cap DOMAIN c.proxies,
                                                                 !.groups = @ \cap c.groups])]
           linked == c.linked \cap c.groups
<1>1. /\ c = Whole(c.proxies, c.groups, c.bind, c.linked)
      /\ Parts(c.proxies, c.groups, c.bind, c.linked)
  BY ProperParts
<1>2. f = c.proxies
  <2>1. ASSUME NEW p \in DOMAIN c.proxies PROVE f[p] = c.proxies[p]
    <3>1. c.proxies[p] \in ProxyRecords /\ c.proxies[p].groups \cap c.groups = c.proxies[p].groups
      BY <1>1, <2>1 DEF Parts
    <3> QED BY <2>1, <3>1 DEF ProxyRecords
  <2> QED BY <1>1, <2>1 DEF Parts
<1>3. bind = c.bind
  <2>1. ASSUME NEW a \in Accounts PROVE bind[a] = c.bind[a]
    <3>1. /\ c.bind[a] \in BindRecords /\ Bind(c.bind[a])
          /\ c.bind[a].proxies \cap DOMAIN c.proxies = c.bind[a].proxies
          /\ c.bind[a].groups \cap c.groups = c.bind[a].groups
      BY <1>1, <2>1 DEF Parts
    <3>2. PICK b \in BindRecords : b = c.bind[a]
      BY <3>1
    <3>3. [b EXCEPT !.proxies = b.proxies, !.groups = b.groups] = b
      BY <3>2 DEF BindRecords
    <3>4. [c.bind[a] EXCEPT !.proxies = @ \cap DOMAIN c.proxies, !.groups = @ \cap c.groups] = b
      BY <3>1, <3>2, <3>3 DEF BindRecords
    <3>5. Rebound(b) = b
      BY <3>1, <3>2 DEF Rebound, Bind
    <3> QED BY <2>1, <3>2, <3>4, <3>5
  <2> QED BY <1>1, <2>1 DEF Parts
<1>4. linked = c.linked
  BY <1>1 DEF Parts
<1>5. Loaded(c) = [c EXCEPT !.proxies = f, !.bind = bind, !.linked = linked]
  BY <1>1 DEF Loaded, Whole
<1> HIDE DEF f, bind, linked
<1> QED BY <1>1, <1>2, <1>3, <1>4, <1>5 DEF Whole

LEMMA CheckSaved ==
  ASSUME PoolSaved, NEW p \in Proxies, NEW ok \in BOOLEAN, CheckEnds(p, ok)
  PROVE  PoolSaved'
<1>1. checking[p] \in Conns /\ checking' \in [Proxies -> Conns \cup {None}] /\ saved' = saved
  BY DEF CheckEnds, PoolSaved
<1>2. CASE ~Counts(p)
  BY <1>1, <1>2 DEF CheckEnds, PoolSaved, OnlyChecksWait
<1>3. CASE Counts(p)
  <2> DEFINE f == [config.proxies EXCEPT ![p].check = [ok |-> ok, of |-> checking[p]]]
  <2>1. config' = WithProxies(f) /\ saveTimer' = TRUE
    BY <1>3 DEF CheckEnds
  <2>2. Parts(config.proxies, config.groups, config.bind, config.linked) /\ p \in DOMAIN config.proxies
    BY <1>3, ProperParts DEF PoolSaved, Counts
  <2>3. ASSUME NEW q \in DOMAIN config.proxies
        PROVE  /\ f[q] \in ProxyRecords /\ f[q].conn = config.proxies[q].conn
               /\ f[q].groups \subseteq config.groups /\ Own(f[q])
               /\ [f[q] EXCEPT !.check = None] = [config.proxies[q] EXCEPT !.check = None]
    <3>1. PICK r \in ProxyRecords : r = config.proxies[q]
      BY <2>2, <2>3 DEF Parts
    <3>2. r.groups \subseteq config.groups /\ Own(r)
      BY <2>2, <2>3, <3>1 DEF Parts
    <3>3. CASE q = p
      <4>1. f[q] = [r EXCEPT !.check = [ok |-> ok, of |-> checking[p]]] /\ r.conn = checking[p]
        BY <1>3, <2>2, <3>1, <3>3 DEF Counts
      <4> QED BY <1>1, <3>1, <3>2, <4>1 DEF ProxyRecords, CheckResults, Own
    <3>4. CASE q # p
      <4>1. f[q] = r
        BY <2>2, <2>3, <3>1, <3>4
      <4> HIDE DEF f
      <4> QED BY <3>1, <3>2, <4>1
    <3> QED BY <3>3, <3>4
  <2>4. DOMAIN f = DOMAIN config.proxies
    OBVIOUS
  <2>5. f \in [DOMAIN f -> ProxyRecords]
    BY <2>3, <2>4
  <2> HIDE DEF f
  <2>6. Unique(f)
    BY <2>2, <2>3, <2>4, StillUnique DEF Parts
  <2>7. Parts(f, config.groups, config.bind, config.linked)
    BY <2>2, <2>3, <2>4, <2>5, <2>6 DEF Parts
  <2>8. config' = Whole(f, config.groups, config.bind, config.linked)
    BY <2>1, WithParts DEF PoolSaved
  <2>9. Proper(config)'
    BY <2>7, <2>8, PartsProper
  <2>10. Unchecked(config)' = Unchecked(config)
    <3>1. config = Whole(config.proxies, config.groups, config.bind, config.linked)
      BY ProperParts DEF PoolSaved
    <3>2. [q \in DOMAIN f |-> [f[q] EXCEPT !.check = None]]
            = [q \in DOMAIN config.proxies |-> [config.proxies[q] EXCEPT !.check = None]]
      BY <2>3, <2>4
    <3> QED BY <2>8, <3>1, <3>2 DEF Unchecked, Whole
  <2>11. Unchecked(saved)' = Unchecked(saved)
    BY <1>1 DEF Unchecked
  <2> QED BY <1>1, <2>1, <2>9, <2>10, <2>11 DEF PoolSaved, OnlyChecksWait
<1> QED BY <1>2, <1>3

LEMMA EditSaved == ASSUME PoolSaved, Edits PROVE PoolSaved'
<1>1. PICK after : Proper(after) /\ Save(after)
  BY DEF Edits
<1> QED BY <1>1 DEF Save, PoolSaved, OnlyChecksWait, Unchecked

\* The list of accounts reads the same configuration in another way.
LEMMA ViewAgrees == ASSUME Proper(config) PROVE SaysWhatIsUsed
<1> SUFFICES ASSUME NEW a \in Accounts
             PROVE  /\ (AccountView(config, a) = "direct") = (Candidates(config, a) = {Direct})
                    /\ (AccountView(config, a) = "refused") = (Candidates(config, a) = {})
                    /\ AccountView(config, a) = "pool" => Bound(config, a) = {}
  BY DEF SaysWhatIsUsed
<1> DEFINE b == config.bind[a]
           groups == (IF b.mode = "bind" THEN b.groups ELSE {}) \cup (IF a \in member THEN config.linked ELSE {})
           own    == IF b.mode = "bind" THEN b.proxies ELSE {}
           bound  == {p \in DOMAIN config.proxies : p \in own \/ \E g \in groups : g \in config.proxies[p].groups}
           free   == {p \in DOMAIN config.proxies : config.proxies[p].on /\ \A x \in Accounts : p \notin config.bind[x].proxies}
<1>1. Parts(config.proxies, config.groups, config.bind, config.linked)
  BY ProperParts
<1>2. b \in BindRecords /\ Bind(b)
  BY <1>1 DEF Parts
<1>3. bound = Bound(config, a)
  BY <1>2 DEF Bound, Bind
<1>4. free = Enabled(config, DOMAIN config.proxies \ Pinned(config))
  BY DEF Enabled, Pinned
<1>5. AccountView(config, a) =
        IF b.mode = "direct" THEN "direct"
        ELSE IF bound # {} THEN IF \E p \in bound : config.proxies[p].on THEN "bind" ELSE "refused"
        ELSE IF free = {} THEN "direct" ELSE "pool"
  BY DEF AccountView
<1>6. (\E p \in bound : config.proxies[p].on) <=> Enabled(config, bound) # {}
  BY DEF Enabled
<1>7. Direct \notin Enabled(config, bound) /\ Direct \notin free
  BY <1>1, ConfigConstants DEF Enabled, Parts
<1>8. Candidates(config, a) = IF b.mode = "direct" THEN {Direct} ELSE IF bound # {} THEN Enabled(config, bound)
                              ELSE IF free # {} THEN free ELSE {Direct}
  BY <1>3, <1>4 DEF Candidates
<1> HIDE DEF b, bound, free
<1>9. /\ (AccountView(config, a) = "direct") <=> (Candidates(config, a) = {Direct})
      /\ (AccountView(config, a) = "refused") <=> (Candidates(config, a) = {})
      /\ AccountView(config, a) = "pool" => Bound(config, a) = {}
  BY <1>3, <1>5, <1>6, <1>7, <1>8
<1> QED BY <1>9

-----------------------------------------------------------------------------
(* What accounts may use. *)

PoolTyped == PoolSaved /\ assigned \in [Accounts -> AllIPs \cup {None}]

\* That is all the promise depends on: an account is given an IP of a proxy that
\* is in the configuration.
LEMMA ProxiesThere ==
  ASSUME NEW c, Proper(c)
  PROVE  DOMAIN c.proxies \subseteq Proxies /\ \A p \in DOMAIN c.proxies : c.proxies[p].conn \in Conns
<1>1. Parts(c.proxies, c.groups, c.bind, c.linked)
  BY ProperParts
<1> QED BY <1>1 DEF Parts, ProxyRecords

LEMMA CandidatesAreThere ==
  ASSUME NEW c, NEW a \in Accounts
  PROVE  Candidates(c, a) = {Direct} \/ Candidates(c, a) \subseteq DOMAIN c.proxies
  BY DEF Candidates, Bound, Enabled

LEMMA IPsAreIPs ==
  ASSUME NEW c, Proper(c), NEW p \in DOMAIN c.proxies
  PROVE  IPsOf(c, p) \subseteq AllIPs
  BY ProxiesThere DEF IPsOf, AllIPs

\* What the abstract specification calls allowed.
Allowed == [a \in Accounts |-> IF Candidates(config, a) = {Direct} THEN {Direct} ELSE Usable(config, a)]

AllowedIsTyped == Allowed \in [Accounts -> SUBSET (AllIPs \cup {Direct})]

LEMMA AllowedTyped == PoolTyped => AllowedIsTyped
<1> SUFFICES ASSUME PoolTyped, NEW a \in Accounts, Candidates(config, a) # {Direct}
             PROVE  Usable(config, a) \subseteq AllIPs
  BY DEF Allowed, AllowedIsTyped
<1>1. Candidates(config, a) \subseteq DOMAIN config.proxies
  BY CandidatesAreThere
<1> QED BY <1>1, IPsAreIPs DEF PoolTyped, PoolSaved, Usable

-----------------------------------------------------------------------------
(* PoolTyped is inductive. *)

LEMMA SaveTyped ==
  ASSUME PoolTyped, Edits
  PROVE  PoolTyped'
<1>1. PICK after : Save(after)
  BY DEF Edits
<1>2. assigned' = [a \in Accounts |-> IF assigned[a] \in Usable(after, a) THEN assigned[a] ELSE None]
  BY <1>1 DEF Save
<1>3. assigned' \in [Accounts -> AllIPs \cup {None}]
  BY <1>2 DEF PoolTyped
<1> QED BY <1>3, EditSaved DEF PoolTyped

LEMMA StaySaved ==
  ASSUME PoolSaved, UNCHANGED <<config, saved, saveTimer>>, checking' \in [Proxies -> Conns \cup {None}]
  PROVE  PoolSaved'
  BY DEF PoolSaved, OnlyChecksWait, Unchecked

\* What pickSlot returns is an IP of a proxy it was offered, and nobody else has
\* it while that proxy has one that nobody has.
LEMMA PickIsUsable ==
  ASSUME NEW a \in Accounts, NEW ps, NEW ip \in Picks(a, ps)
  PROVE  \E p \in ps :
           /\ ip \in IPsOf(config, p)
           /\ \A other \in IPsOf(config, p) : Cardinality(Users(a, {ip})) <= Cardinality(Users(a, {other}))
  BY DEF Picks

LEMMA RequestTyped ==
  ASSUME PoolTyped, NEW a \in Accounts, Request(a)
  PROVE  PoolTyped'
<1> DEFINE may == Candidates(config, a)
<1>1. PoolSaved'
  BY StaySaved DEF Request, PoolTyped, PoolSaved
<1>2. CASE may = {Direct}
  BY <1>1, <1>2 DEF Request, PoolTyped
<1>3. CASE may # {Direct}
  <2>1. PICK ip \in IF assigned[a] \in Usable(config, a) THEN {assigned[a]} ELSE Picks(a, may) :
          assigned' = [assigned EXCEPT ![a] = ip]
    BY <1>3 DEF Request
  <2>2. ip \in AllIPs \cup {None}
    <3>1. CASE assigned[a] \in Usable(config, a)
      BY <2>1, <3>1 DEF PoolTyped
    <3>2. CASE assigned[a] \notin Usable(config, a)
      <4>1. may \subseteq DOMAIN config.proxies
        BY <1>3, CandidatesAreThere
      <4>2. PICK p \in may : ip \in IPsOf(config, p)
        BY <2>1, <3>2, PickIsUsable
      <4> QED BY <4>1, <4>2, IPsAreIPs DEF PoolTyped, PoolSaved
    <3> QED BY <3>1, <3>2
  <2> QED BY <1>1, <2>1, <2>2 DEF PoolTyped
<1> QED BY <1>2, <1>3

LEMMA RestartTyped ==
  ASSUME PoolTyped, ProxyRestart
  PROVE  PoolTyped'
<1>1. Loaded(saved) = saved
  BY LoadedIsSaved DEF PoolTyped, PoolSaved
<1>2. config' = saved /\ saved' = saved /\ saveTimer' = FALSE /\ checking' = [p \in Proxies |-> None]
  BY <1>1 DEF ProxyRestart
<1>3. PoolSaved'
  BY <1>2 DEF PoolTyped, PoolSaved, OnlyChecksWait, Unchecked
<1> QED BY <1>3 DEF ProxyRestart, PoolTyped

\* The edits, the requests, and the rest of the steps of the pool.
Unassigning == \/ \E a \in Accounts : MoveAccount(a)
               \/ \E ids : Test(ids)
               \/ \E p \in Proxies, ok \in BOOLEAN : CheckEnds(p, ok)
               \/ SaveTimerFires

LEMMA StepsSorted ==
  ASSUME PoolTyped, ProxyNext
  PROVE  Edits \/ (\E a \in Accounts : Request(a)) \/ Unassigning \/ ProxyRestart
<1>0. Proper(config)
  BY DEF PoolTyped, PoolSaved
<1>1. CASE \E a \in Accounts : Request(a) \/ MoveAccount(a)
  BY <1>1 DEF Unassigning
<1>2. CASE \E p \in Proxies : CreateProxy(p) \/ UpdateProxy(p) \/ \E ok \in BOOLEAN : CheckEnds(p, ok)
  <2>1. PICK p \in Proxies : CreateProxy(p) \/ UpdateProxy(p) \/ \E ok \in BOOLEAN : CheckEnds(p, ok)
    BY <1>2
  <2>2. CASE CreateProxy(p)
    BY <2>2, <1>0, AddProxiesSaves DEF CreateProxy
  <2>3. CASE UpdateProxy(p)
    BY <2>3, <1>0, UpdateProxySaves
  <2>4. CASE \E ok \in BOOLEAN : CheckEnds(p, ok)
    BY <2>4 DEF Unassigning
  <2> QED BY <2>1, <2>2, <2>3, <2>4
<1>3. CASE \E ps \in SUBSET Proxies : ImportProxies(ps)
  BY <1>3, <1>0, AddProxiesSaves DEF ImportProxies
<1>4. CASE \E ids \in SUBSET DOMAIN config.proxies : DeleteProxies(ids) \/ Bulk(ids) \/ Test(ids)
  BY <1>4, <1>0, DeleteProxiesSaves, BulkSaves DEF Unassigning
<1>5. CASE \E g \in Groups : CreateGroup(g) \/ DeleteGroup(g)
  BY <1>5, <1>0, CreateGroupSaves, DeleteGroupSaves
<1>6. CASE \E as \in SUBSET Accounts :
             \/ \E b \in Bindings : BindAccounts(as, b)
             \/ \E ids \in SUBSET Proxies : DistributeProxies(as, ids)
  BY <1>6, <1>0, BindAccountsSaves, DistributeProxiesSaves
<1>7. CASE \E gs \in SUBSET Groups : LinkAccountGroup(gs)
  BY <1>7, <1>0, LinkAccountGroupSaves
<1>8. CASE SaveTimerFires \/ ProxyRestart
  BY <1>8 DEF Unassigning
<1> QED BY <1>1, <1>2, <1>3, <1>4, <1>5, <1>6, <1>7, <1>8 DEF ProxyNext

LEMMA UnassigningTyped ==
  ASSUME PoolTyped, Unassigning
  PROVE  PoolTyped' /\ UNCHANGED assigned /\ sent' = None
<1>1. CASE \E a \in Accounts : MoveAccount(a)
  BY <1>1, StaySaved DEF MoveAccount, PoolTyped, PoolSaved
<1>2. CASE \E ids : Test(ids)
  <2>1. PICK ids : Test(ids)
    BY <1>2
  <2>2. checking' \in [Proxies -> Conns \cup {None}]
    BY <2>1, ProxiesThere DEF Test, PoolTyped, PoolSaved
  <2> QED BY <2>1, <2>2, StaySaved DEF Test, PoolTyped
<1>3. CASE \E p \in Proxies, ok \in BOOLEAN : CheckEnds(p, ok)
  BY <1>3, CheckSaved DEF CheckEnds, PoolTyped
<1>4. CASE SaveTimerFires
  BY <1>4 DEF SaveTimerFires, PoolTyped, PoolSaved, OnlyChecksWait, Unchecked
<1> QED BY <1>1, <1>2, <1>3, <1>4 DEF Unassigning

LEMMA InitTyped == ProxyInit => PoolTyped
  BY ConfigConstants, SoundStart DEF ProxyInit, PoolTyped, PoolSaved, OnlyChecksWait, Unchecked, Proper

LEMMA NextTyped == PoolTyped /\ [ProxyNext]_proxyVars => PoolTyped'
<1> SUFFICES ASSUME PoolTyped, [ProxyNext]_proxyVars
             PROVE  PoolTyped'
  OBVIOUS
<1>1. CASE UNCHANGED proxyVars
  BY <1>1, StaySaved DEF proxyVars, PoolTyped, PoolSaved
<1>2. CASE ProxyNext
  BY <1>2, StepsSorted, SaveTyped, RequestTyped, UnassigningTyped, RestartTyped
<1> QED BY <1>1, <1>2

-----------------------------------------------------------------------------
(* Every step is one the promise allows. *)

\* Whoever loses its IP may not use it any more.
LEMMA ReconfigureMaps ==
  ASSUME PoolTyped, PoolTyped', sent' = None,
         \A a \in Accounts : assigned'[a] # assigned[a] => assigned'[a] = None /\ assigned[a] \notin Allowed'[a]
  PROVE  Promise!Reconfigure
<1> DEFINE losing == {a \in Accounts : assigned'[a] # assigned[a]}
<1>1. AllowedIsTyped'
  BY AllowedTyped, PTL
<1>2. losing \in SUBSET {a \in Accounts : assigned[a] \notin Allowed'[a]}
  OBVIOUS
<1>3. assigned' = [a \in Accounts |-> IF a \in losing THEN None ELSE assigned[a]]
  BY DEF PoolTyped
<1> HIDE DEF losing
<1> QED BY <1>1, <1>2, <1>3 DEF Promise!Reconfigure, Allowed, AllowedIsTyped

LEMMA SaveMaps ==
  ASSUME PoolTyped, PoolTyped', Edits
  PROVE  Promise!Reconfigure
<1>1. PICK after : Save(after)
  BY DEF Edits
<1>2. config' = after /\ member' = member /\ sent' = None
      /\ assigned' = [a \in Accounts |-> IF assigned[a] \in Usable(after, a) THEN assigned[a] ELSE None]
  BY <1>1 DEF Save
<1>3. ASSUME NEW a \in Accounts, assigned'[a] # assigned[a]
      PROVE  assigned'[a] = None /\ assigned[a] \notin Allowed'[a]
  <2>1. assigned'[a] = None /\ assigned[a] \notin Usable(after, a)
    BY <1>2, <1>3
  <2>2. Usable(config, a)' = Usable(after, a)
    BY <1>2 DEF Usable, Candidates, Bound, Pinned, Enabled, IPsOf
  <2>3. assigned[a] # Direct
    BY IPsAreOthers, ConfigConstants DEF PoolTyped
  <2> QED BY <2>1, <2>2, <2>3 DEF Allowed
<1> QED BY <1>2, <1>3, ReconfigureMaps

LEMMA RequestMaps ==
  ASSUME PoolTyped, NEW a \in Accounts, Request(a)
  PROVE  Promise!SendDirect(a) \/ \E ip \in AllIPs : Promise!SendOver(a, ip)
<1> DEFINE may == Candidates(config, a)
<1>1. Allowed' = Allowed
  <2>1. config' = config /\ member' = member
    BY DEF Request
  <2>2. \A b \in Accounts : Candidates(config, b)' = Candidates(config, b)
    BY <2>1 DEF Candidates, Bound, Pinned, Enabled
  <2>3. \A b \in Accounts : Usable(config, b)' = Usable(config, b)
    BY <2>1, <2>2 DEF Usable, IPsOf
  <2> QED BY <2>2, <2>3 DEF Allowed
<1>2. CASE may = {Direct}
  <2>1. sent' = <<a, Direct>> /\ UNCHANGED assigned
    BY <1>2 DEF Request
  <2>2. Allowed[a] = {Direct}
    BY <1>2 DEF Allowed
  <2> QED BY <1>1, <2>1, <2>2 DEF Promise!SendDirect, Allowed
<1>3. CASE may # {Direct}
  <2>1. PICK ip \in IF assigned[a] \in Usable(config, a) THEN {assigned[a]} ELSE Picks(a, may) :
          sent' = <<a, ip>> /\ assigned' = [assigned EXCEPT ![a] = ip]
    BY <1>3 DEF Request
  <2>2. Allowed[a] = Usable(config, a)
    BY <1>3 DEF Allowed
  <2>3. may \subseteq DOMAIN config.proxies /\ Direct \notin may
    BY <1>3, CandidatesAreThere, ConfigConstants, ProxiesThere DEF PoolTyped, PoolSaved
  <2>4. CASE assigned[a] \in Usable(config, a)
    <3>1. ip = assigned[a] /\ ip \in Allowed[a]
      BY <2>1, <2>2, <2>4
    <3>2. ip \in AllIPs /\ ip # Direct
      BY <2>3, <2>2, <3>1, IPsAreIPs, IPsAreOthers DEF PoolTyped, PoolSaved, Usable
    <3>3. Promise!SendOver(a, ip)
      BY <1>1, <2>1, <2>2, <3>1, <3>2 DEF Promise!SendOver, Allowed
    <3> QED BY <3>2, <3>3
  <2>5. CASE assigned[a] \notin Usable(config, a)
    <3>1. PICK p \in may :
            /\ ip \in IPsOf(config, p)
            /\ \A other \in IPsOf(config, p) : Cardinality(Users(a, {ip})) <= Cardinality(Users(a, {other}))
      BY <2>1, <2>5, PickIsUsable
    <3>2. ip \in Allowed[a] /\ ip \in AllIPs /\ ip # Direct
      BY <2>2, <2>3, <3>1, IPsAreIPs, IPsAreOthers DEF PoolTyped, PoolSaved, Usable
    <3>3. ASSUME NEW other \in Allowed[a], other[1] = ip[1], Promise!Sharing(a, ip) # {}
          PROVE  Promise!Sharing(a, other) # {}
      <4>1. other \in IPsOf(config, p)
        BY <2>2, <3>1, <3>3 DEF Usable, IPsOf
      <4>2. \A x : Users(a, {x}) = Promise!Sharing(a, x)
        BY DEF Users, Promise!Sharing
      <4>3. IsFiniteSet(Users(a, {ip})) /\ IsFiniteSet(Users(a, {other}))
        BY ProxyConstants, FS_Subset DEF Users
      <4>4. Cardinality(Users(a, {ip})) # 0 /\ Cardinality(Users(a, {ip})) \in Nat
            /\ Cardinality(Users(a, {other})) \in Nat
        BY <3>3, <4>2, <4>3, FS_EmptySet, FS_CardinalityType
      <4>5. Cardinality(Users(a, {other})) # 0
        BY <3>1, <4>1, <4>4
      <4> QED BY <4>2, <4>5, FS_EmptySet
    <3>4. Promise!SendOver(a, ip)
      BY <1>1, <2>1, <2>2, <2>5, <3>2, <3>3 DEF Promise!SendOver, Allowed
    <3> QED BY <3>2, <3>4
  <2> QED BY <2>4, <2>5
<1> QED BY <1>2, <1>3

LEMMA RestartMaps ==
  ASSUME PoolTyped', ProxyRestart
  PROVE  Promise!Forget
<1>1. AllowedIsTyped'
  BY AllowedTyped, PTL
<1> QED BY <1>1 DEF ProxyRestart, Promise!Forget, Allowed, AllowedIsTyped

\* Whatever proxies, groups, bindings and numbers of IPs there are, and through
\* any sequence of edits, requests, checks and restarts: an account sends over
\* what it is bound to and nothing else, keeps its IP as long as it may, and gets
\* one that nobody has if the proxy has one (resolve, pickSlot and
\* pruneAssignments of proxy/index.ts implement ProxyAssignment).
THEOREM PoolKeepsPromise == ProxySpec => KeepsPromise
<1>1. ProxyInit => Promise!PromiseInit
  <2> SUFFICES ASSUME ProxyInit PROVE Promise!PromiseInit
    OBVIOUS
  <2>1. Allowed \in [Accounts -> SUBSET (AllIPs \cup {Direct})]
    BY InitTyped, AllowedTyped DEF AllowedIsTyped
  <2> QED BY <2>1 DEF ProxyInit, Promise!PromiseInit, Allowed
<1>2. PoolTyped /\ PoolTyped' /\ [ProxyNext]_proxyVars => [Promise!PromiseNext]_(Promise!promiseVars)
  <2> SUFFICES ASSUME PoolTyped, PoolTyped', [ProxyNext]_proxyVars
               PROVE  [Promise!PromiseNext]_(Promise!promiseVars)
    OBVIOUS
  <2>1. CASE UNCHANGED proxyVars
    BY <2>1 DEF proxyVars, Promise!promiseVars, Usable, Candidates, Bound, Pinned, Enabled, IPsOf
  <2>2. CASE Edits
    BY <2>2, SaveMaps DEF Promise!PromiseNext
  <2>3. CASE \E a \in Accounts : Request(a)
    BY <2>3, RequestMaps DEF Promise!PromiseNext
  <2>4. CASE Unassigning
    BY <2>4, UnassigningTyped, ReconfigureMaps DEF Promise!PromiseNext
  <2>5. CASE ProxyRestart
    BY <2>5, RestartMaps DEF Promise!PromiseNext
  <2> QED BY <2>1, <2>2, <2>3, <2>4, <2>5, StepsSorted
<1> QED BY <1>1, <1>2, InitTyped, NextTyped, PTL DEF ProxySpec, KeepsPromise, Promise!PromiseSpec

\* Through any sequence of edits, checks and restarts: a result of a check stands
\* for the connection that was checked (checkedProxy and test of proxy/index.ts),
\* the database has every change but such results, and for these a timer is armed
\* (save and persistSoon), and what the list of accounts says of an account is
\* what is followed when it sends (accountProxyView and candidatesFor).
THEOREM PoolIsKept == ProxySpec => []PoolKept
<1>1. PoolTyped => PoolKept
  BY ViewAgrees DEF PoolTyped, PoolSaved, PoolKept, Proper, ChecksAreOwn
<1> QED BY <1>1, InitTyped, NextTyped, PTL DEF ProxySpec

-----------------------------------------------------------------------------
(* Usage of the proxies. *)

\* Counts are numbers, and of the days to report none is losing or counted twice.
Counters ==
  /\ today \in Days
  /\ pending \in [Days -> Nat] /\ usage \in [Days -> Nat]
  /\ made \in [Days -> Nat] /\ dropped \in [Days -> Nat]
  /\ UsageCounted

LEMMA Sums ==
  ASSUME NEW f \in [Days -> Nat], NEW g \in [Days -> Nat]
  PROVE  Plus(f, g) \in [Days -> Nat] /\ Zero \in [Days -> Nat]
         /\ \A d \in Days : Plus(f, g)[d] = f[d] + g[d] /\ Zero[d] = 0
  BY DEF Plus, Zero

LEMMA CountersStep == Counters /\ [UsageNext]_usageVars => Counters'
<1> SUFFICES ASSUME Counters, [UsageNext]_usageVars PROVE Counters'
  OBVIOUS
<1> USE UsageConstants DEF UsageConstants
<1>1. CASE Record
  <2>1. /\ pending' \in [Days -> Nat] /\ made' \in [Days -> Nat]
        /\ \A d \in Days : \/ pending'[d] = pending[d] /\ made'[d] = made[d]
                           \/ pending'[d] = pending[d] + 1 /\ made'[d] = made[d] + 1
    BY <1>1 DEF Record, Counters
  <2> QED BY <1>1, <2>1 DEF Record, Counters, UsageCounted, Reported
<1>2. CASE Flush
  <2>1. pending' = Zero /\ UNCHANGED <<today, made>>
    BY <1>2 DEF Flush
  <2>2. CASE usage' = Plus(usage, pending) /\ UNCHANGED dropped
    BY <2>1, <2>2, Sums DEF Counters, UsageCounted, Reported
  <2>3. CASE usage' = Pruned(Plus(usage, pending)) /\ UNCHANGED dropped
    <3> DEFINE rows == Plus(usage, pending)
    <3>1. rows \in [Days -> Nat] /\ \A d \in Days : rows[d] = usage[d] + pending[d]
      BY Sums DEF Counters
    <3> HIDE DEF rows
    <3>2. usage' \in [Days -> Nat]
      BY <2>3, <3>1 DEF Pruned, rows
    <3>3. \A d \in Days : d > today - KeepDays => usage'[d] = rows[d]
      BY <2>3 DEF Pruned, rows, Days, Counters
    <3> QED BY <2>1, <2>3, <3>1, <3>2, <3>3, Sums DEF Counters, UsageCounted, Reported
  <2>4. CASE dropped' = Plus(dropped, pending) /\ UNCHANGED usage
    BY <2>1, <2>4, Sums DEF Counters, UsageCounted, Reported
  <2> QED BY <1>2, <2>2, <2>3, <2>4 DEF Flush
<1>3. CASE MeterCrash
  BY <1>3, Sums DEF MeterCrash, Counters, UsageCounted, Reported
<1>4. CASE NextDay
  BY <1>4 DEF NextDay, Counters, UsageCounted, Reported, Days
<1>5. CASE UNCHANGED usageVars
  BY <1>5 DEF usageVars, Counters, UsageCounted, Reported
<1> QED BY <1>1, <1>2, <1>3, <1>4, <1>5 DEF UsageNext

\* For any number of days and of days kept: whenever writes fail, the process
\* crashes or the day turns, each request of a day to report is in the report
\* once, or was lost by a failed write or a crash.
THEOREM UsageIsCounted == UsageSpec => []UsageCounted
<1>1. UsageInit => Counters
  BY UsageConstants DEF UsageConstants, UsageInit, Counters, UsageCounted, Reported, Zero, Days
<1>2. Counters => UsageCounted
  BY DEF Counters
<1> QED BY <1>1, <1>2, CountersStep, PTL DEF UsageSpec

-----------------------------------------------------------------------------
(* Sessions of the tool. *)

\* A session was opened under a password, and that is still the one in force.
SessionsInv ==
  /\ fileCred \in Nat /\ issued \in Seq(Nat) /\ DOMAIN sessions \subseteq 1..Len(issued)
  /\ ~configured => DOMAIN sessions = {}
  /\ OnlyCurrentSessions

\* A token opened beside others that are under the password in force.
LEMMA IssueKeeps ==
  ASSUME SessionsInv, NEW b, NEW kept \in SUBSET DOMAIN sessions, issueToken(b, kept),
         fileCred' \in Nat, fileCred' = authFile', configured',
         \A t \in kept : issued[t] = fileCred'
  PROVE  SessionsInv'
<1> DEFINE t == Len(issued) + 1
<1>1. /\ issued' = Append(issued, fileCred')
      /\ DOMAIN sessions' = kept \cup {t}
  BY DEF issueToken
<1>2. Len(issued) \in Nat /\ issued' \in Seq(Nat) /\ Len(issued') = t
  BY <1>1 DEF SessionsInv
<1>3. issued'[t] = fileCred' /\ \A s \in 1..Len(issued) : issued'[s] = issued[s]
  BY <1>1 DEF SessionsInv
<1>4. \A s \in DOMAIN sessions' : s \in 1..Len(issued') /\ issued'[s] = fileCred'
  BY <1>1, <1>2, <1>3 DEF SessionsInv
<1> QED BY <1>2, <1>4 DEF SessionsInv, OnlyCurrentSessions

\* Nothing new, under the same password.
LEMMA FewerKeep ==
  ASSUME SessionsInv, UNCHANGED <<issued, envPassword, authFile>>, fileCred' = fileCred,
         DOMAIN sessions' \subseteq DOMAIN sessions
  PROVE  SessionsInv'
  BY DEF SessionsInv, OnlyCurrentSessions, configured

LEMMA SessionsStep == SessionsInv /\ [LoginNext]_loginVars => SessionsInv'
<1> SUFFICES ASSUME SessionsInv, [LoginNext]_loginVars PROVE SessionsInv'
  OBVIOUS
<1>1. ASSUME NEW b \in Browsers, Login(b) PROVE SessionsInv'
  <2>1. UNCHANGED <<envPassword, authFile, fileCred>> /\ configured /\ issueToken(b, pruned)
    BY <1>1 DEF Login, credVars
  <2>2. pruned \in SUBSET DOMAIN sessions
    BY DEF pruned
  <2>3. configured' /\ fileCred' \in Nat /\ fileCred' = authFile' /\ \A t \in pruned : issued[t] = fileCred'
    BY <2>1, <2>2 DEF configured, SessionsInv, OnlyCurrentSessions
  <2> QED BY <2>1, <2>2, <2>3, IssueKeeps
<1>2. ASSUME NEW b \in Browsers, Setup(b) \/ ChangePassword(b) PROVE SessionsInv'
  <2>1. persistPassword /\ issueToken(b, {})
    BY <1>2 DEF Setup, ChangePassword, SessionsInv
  <2>2. fileCred' \in Nat /\ fileCred' = authFile' /\ configured'
    BY <2>1 DEF persistPassword, SessionsInv, configured
  <2> QED BY <2>1, <2>2, IssueKeeps
<1>3. ASSUME NEW b \in Browsers, LoginWrong(b) \/ SetupWrong(b) \/ ChangeWrong(b) \/ Logout(b) PROVE SessionsInv'
  <2>1. UNCHANGED <<issued, envPassword, authFile, fileCred>>
    BY <1>3 DEF LoginWrong, SetupWrong, ChangeWrong, Logout, credVars
  <2>2. DOMAIN sessions' \subseteq DOMAIN sessions
    BY <1>3 DEF LoginWrong, SetupWrong, ChangeWrong, Logout, pruned
  <2> QED BY <2>1, <2>2, FewerKeep
<1>4. CASE Passes \/ LoginRestart \/ UNCHANGED loginVars
  <2>1. UNCHANGED <<issued, envPassword, authFile>> /\ fileCred' = fileCred
    BY <1>4 DEF Passes, LoginRestart, loginVars, credVars, SessionsInv, OnlyCurrentSessions
  <2>2. DOMAIN sessions' \subseteq DOMAIN sessions
    BY <1>4 DEF Passes, LoginRestart, loginVars
  <2> QED BY <2>1, <2>2, FewerKeep
<1> QED BY <1>1, <1>2, <1>3, <1>4 DEF LoginNext

\* What the tool asks for it asks for after a restart, and a change of password
\* ends every session but the one it opens.
THEOREM SessionsAreCurrent == LoginSpec => []OnlyCurrentSessions
<1>1. LoginInit => SessionsInv
  BY DEF LoginInit, SessionsInv, OnlyCurrentSessions
<1>2. SessionsInv => OnlyCurrentSessions
  BY DEF SessionsInv
<1> QED BY <1>1, <1>2, SessionsStep, PTL DEF LoginSpec

-----------------------------------------------------------------------------
(* Wrong passwords. *)

FailType == [count : 0..MAX_FAILS_PER_IP - 1, firstAt : Nat \cup {-1}, lockedUntil : Nat]

\* The guesses compared for an address, n of them up to now: those before the
\* count began are no later than it, and all but the last of them that may not
\* have locked are a window ago.
Counting(e, g, now) ==
  /\ \A i \in 1..Len(g) - e.count : g[i] <= e.firstAt
  /\ \A i \in 1..Len(g) - e.count - (MAX_FAILS_PER_IP - 1) : g[i] <= now - FAIL_WINDOW

\* From the failure that locks to the end of the lock.
HasLocked(e, g) ==
  /\ e.count = 0 /\ e.firstAt <= e.lockedUntil - FAIL_WINDOW
  /\ \A i \in 1..Len(g) : g[i] <= e.lockedUntil - FAIL_WINDOW

FewInWindow(g) ==
  \A i, j \in 1..Len(g) : i <= j /\ g[j] - g[i] < FAIL_WINDOW => j - i < 2 * MAX_FAILS_PER_IP - 1

Limited(e, g, now) ==
  /\ e \in FailType /\ g \in Seq(Nat) /\ now \in Nat
  /\ e.firstAt = -1 => g = <<>>
  /\ \A i \in 1..Len(g) : g[i] <= now
  /\ e.firstAt <= now
  /\ Counting(e, g, now) \/ HasLocked(e, g)
  /\ FewInWindow(g)

LEMMA LimitNumbers ==
  /\ MAX_FAILS_PER_IP \in Nat \ {0} /\ FAIL_WINDOW \in Nat \ {0} /\ LOCK = FAIL_WINDOW
  BY LoginConstants DEF LoginConstants

LEMMA FailFields ==
  ASSUME NEW e \in FailType
  PROVE  /\ e.count \in Int /\ 0 <= e.count /\ e.count <= MAX_FAILS_PER_IP - 1
         /\ e.firstAt \in Int /\ e.firstAt >= -1
         /\ e.lockedUntil \in Nat
<1>1. e.count \in 0..MAX_FAILS_PER_IP - 1 /\ e.firstAt \in Nat \cup {-1} /\ e.lockedUntil \in Nat
  BY DEF FailType
<1> QED BY <1>1, LimitNumbers

\* bumpWindow counts on, or anew from now.
LEMMA Bumped ==
  ASSUME NEW e \in FailType, at \in Nat, e.firstAt <= at
  PROVE  /\ bumpWindow(e) \in FailType
         /\ \/ /\ e.firstAt < 0 \/ at - e.firstAt > FAIL_WINDOW
               /\ bumpWindow(e).count = 0 /\ bumpWindow(e).firstAt = at
            \/ /\ e.firstAt >= 0 /\ at - e.firstAt <= FAIL_WINDOW
               /\ bumpWindow(e) = e
<1>1. 0 \in 0..MAX_FAILS_PER_IP - 1 /\ e.firstAt \in Int
  BY LimitNumbers, FailFields
<1>2. CASE e.firstAt < 0 \/ at - e.firstAt > FAIL_WINDOW
  <2>1. bumpWindow(e) = [e EXCEPT !.count = 0, !.firstAt = at]
    BY <1>2 DEF bumpWindow
  <2>2. bumpWindow(e) \in FailType
    BY <1>1, <2>1 DEF FailType
  <2>3. bumpWindow(e).count = 0 /\ bumpWindow(e).firstAt = at
    BY <2>1 DEF FailType
  <2> QED BY <1>2, <2>2, <2>3
<1>3. CASE ~(e.firstAt < 0 \/ at - e.firstAt > FAIL_WINDOW)
  <2>1. bumpWindow(e) = e
    BY <1>3 DEF bumpWindow
  <2>2. e.firstAt >= 0 /\ at - e.firstAt <= FAIL_WINDOW
    BY <1>1, <1>3, LimitNumbers
  <2> QED BY <2>1, <2>2
<1> QED BY <1>2, <1>3

\* A failure that is compared falls into no lock of its address.
LEMMA FailureCounted ==
  ASSUME NEW e, NEW g, Limited(e, g, at), e.lockedUntil <= at
  PROVE  Limited(Counted(e, MAX_FAILS_PER_IP), Append(g, at), at)
<1> DEFINE u == bumpWindow(e)
           n == Len(g)
           h == Append(g, at)
<1>1. e \in FailType /\ at \in Nat /\ n \in Nat /\ e.firstAt <= at /\ (e.firstAt = -1 => n = 0)
  BY DEF Limited
<1>2. /\ e.count \in Int /\ 0 <= e.count /\ e.count <= MAX_FAILS_PER_IP - 1
      /\ e.firstAt \in Int /\ e.firstAt >= -1 /\ e.lockedUntil \in Nat
  BY <1>1, FailFields
<1>3. /\ u \in FailType
      /\ u.count \in Int /\ 0 <= u.count /\ u.count <= MAX_FAILS_PER_IP - 1
      /\ u.firstAt \in Int /\ u.firstAt >= 0 /\ u.firstAt <= at
      /\ \/ /\ e.firstAt < 0 \/ at - e.firstAt > FAIL_WINDOW
            /\ u.count = 0 /\ u.firstAt = at
         \/ /\ e.firstAt >= 0 /\ at - e.firstAt <= FAIL_WINDOW
            /\ u = e
  BY <1>1, Bumped, FailFields
<1>4. /\ h \in Seq(Nat) /\ Len(h) = n + 1 /\ h[n + 1] = at
      /\ \A i \in 1..n : h[i] = g[i] /\ g[i] \in Nat /\ g[i] <= at
  BY <1>1 DEF Limited
<1>5. /\ MAX_FAILS_PER_IP \in Nat \ {0} /\ FAIL_WINDOW \in Nat \ {0} /\ LOCK = FAIL_WINDOW
  BY LimitNumbers
<1> HIDE DEF u, h, n
<1>6. Counting(e, g, at) \/ HasLocked(e, g)
  BY DEF Limited
<1>7. Counting(u, g, at)
  <2>1. \A i \in 1..n - u.count : g[i] <= u.firstAt
    <3>1. CASE u.firstAt = at
      <4>1. \A i \in 1..n - u.count : i \in 1..n
        BY <1>1, <1>3
      <4> QED BY <3>1, <4>1, <1>4
    <3>2. CASE u = e /\ HasLocked(e, g) /\ at - e.firstAt <= FAIL_WINDOW
      <4>1. e.count = 0 /\ e.firstAt = e.lockedUntil - FAIL_WINDOW
        BY <3>2, <1>1, <1>2, <1>5 DEF HasLocked
      <4>2. \A i \in 1..n : g[i] <= e.firstAt
        BY <3>2, <4>1 DEF HasLocked, n
      <4>3. n - u.count = n
        BY <3>2, <4>1, <1>1
      <4> QED BY <3>2, <4>2, <4>3
    <3>3. CASE u = e /\ Counting(e, g, at)
      BY <3>3 DEF Counting, n
    <3> QED BY <1>3, <1>6, <3>1, <3>2, <3>3
  <2>2. \A i \in 1..n - u.count - (MAX_FAILS_PER_IP - 1) : g[i] <= at - FAIL_WINDOW
    <3>1. CASE HasLocked(e, g)
      <4> SUFFICES ASSUME NEW i \in 1..n - u.count - (MAX_FAILS_PER_IP - 1) PROVE g[i] <= at - FAIL_WINDOW
        OBVIOUS
      <4>1. i \in 1..n
        BY <1>1, <1>3, <1>5
      <4>2. g[i] <= e.lockedUntil - FAIL_WINDOW /\ e.lockedUntil <= at
        BY <3>1, <4>1 DEF HasLocked, n
      <4>3. g[i] \in Nat
        BY <1>4, <4>1
      <4> QED BY <4>2, <4>3, <1>1, <1>2, <1>5
    <3>2. CASE u = e /\ Counting(e, g, at)
      BY <3>2 DEF Counting, n
    <3>3. CASE Counting(e, g, at) /\ u.count = 0 /\ (e.firstAt < 0 \/ at - e.firstAt > FAIL_WINDOW)
      <4> SUFFICES ASSUME NEW i \in 1..n - u.count - (MAX_FAILS_PER_IP - 1) PROVE g[i] <= at - FAIL_WINDOW
        OBVIOUS
      <4>1. i \in 1..n - e.count /\ i \in 1..n /\ n # 0
        BY <3>3, <1>1, <1>2, <1>5
      <4>2. g[i] <= e.firstAt
        BY <3>3, <4>1 DEF Counting, n
      <4> QED BY <3>3, <4>1, <4>2, <1>1, <1>2, <1>4, <1>5, SMTT(30)
    <3> QED BY <1>3, <1>6, <3>1, <3>2, <3>3
  <2> QED BY <2>1, <2>2 DEF Counting, n
<1>8. FewInWindow(h)
  <2> SUFFICES ASSUME NEW i \in 1..n + 1, NEW j \in 1..n + 1, i <= j, h[j] - h[i] < FAIL_WINDOW
               PROVE  j - i < 2 * MAX_FAILS_PER_IP - 1
    BY <1>4 DEF FewInWindow
  <2>1. CASE j \in 1..n
    <3>1. i \in 1..n
      BY <2>1, <1>1
    <3> QED BY <2>1, <3>1, <1>4 DEF FewInWindow, Limited, n
  <2>2. CASE j = n + 1 /\ i \in 1..n
    <3>1. ~(g[i] <= at - FAIL_WINDOW)
      BY <2>2, <1>1, <1>4, <1>5
    <3>2. i > n - u.count - (MAX_FAILS_PER_IP - 1)
      BY <3>1, <2>2, <1>1, <1>3, <1>5, <1>7 DEF Counting, n
    <3> QED BY <2>2, <3>2, <1>1, <1>3, <1>5
  <2> QED BY <2>1, <2>2, <1>1, <1>5
<1>9. h # <<>> /\ \A i \in 1..n + 1 : h[i] <= at
  BY <1>1, <1>4
<1>10. CASE u.count + 1 >= MAX_FAILS_PER_IP
  <2> DEFINE v == [u EXCEPT !.count = 0, !.lockedUntil = at + LOCK]
  <2>1. v \in FailType /\ v.count = 0 /\ v.lockedUntil = at + LOCK /\ v.firstAt = u.firstAt
    <3>1. 0 \in 0..MAX_FAILS_PER_IP - 1 /\ at + LOCK \in Nat
      BY <1>1, <1>5
    <3> QED BY <1>3, <3>1 DEF FailType
  <2>2. Counted(e, MAX_FAILS_PER_IP) = v
    BY <1>10 DEF Counted, u
  <2> HIDE DEF v
  <2>3. HasLocked(v, h)
    BY <2>1, <1>1, <1>3, <1>4, <1>5, <1>9 DEF HasLocked
  <2> QED BY <2>1, <2>2, <2>3, <1>1, <1>3, <1>4, <1>8, <1>9 DEF Limited, h
<1>11. CASE ~(u.count + 1 >= MAX_FAILS_PER_IP)
  <2> DEFINE v == [u EXCEPT !.count = u.count + 1]
  <2>1. v \in FailType /\ v.count = u.count + 1 /\ v.firstAt = u.firstAt
    <3>1. u.count + 1 \in 0..MAX_FAILS_PER_IP - 1
      BY <1>11, <1>3, <1>5
    <3> QED BY <1>3, <3>1 DEF FailType
  <2>2. Counted(e, MAX_FAILS_PER_IP) = v
    BY <1>11 DEF Counted, u
  <2> HIDE DEF v
  <2>3. Counting(v, h, at)
    <3>1. Len(h) - v.count = n - u.count
      BY <2>1, <1>1, <1>3, <1>4
    <3>2. (\A i \in 1..n - u.count : i \in 1..n) /\ \A i \in 1..n - u.count - (MAX_FAILS_PER_IP - 1) : i \in 1..n
      BY <1>1, <1>3, <1>5
    <3> QED BY <2>1, <3>1, <3>2, <1>1, <1>4, <1>7 DEF Counting, n
  <2> QED BY <2>1, <2>2, <2>3, <1>1, <1>3, <1>4, <1>8, <1>9 DEF Limited, h
<1> QED BY <1>10, <1>11

GuessesInv ==
  /\ at \in Nat
  /\ guesses \in [Browsers -> Seq(Nat)] /\ failsByIp \in [Browsers -> FailType]
  /\ \A b \in Browsers : Limited(failsByIp[b], guesses[b], at)

LEMMA NoFailsLimited == ASSUME NEW now \in Nat PROVE NoFails \in FailType /\ Limited(NoFails, <<>>, now)
<1>1. NoFails \in FailType /\ NoFails.count = 0 /\ NoFails.firstAt = -1
  BY LimitNumbers DEF FailType, NoFails
<1>2. Len(<<>>) = 0 /\ <<>> \in Seq(Nat)
  OBVIOUS
<1> HIDE DEF NoFails
<1>3. Counting(NoFails, <<>>, now) /\ FewInWindow(<<>>)
  BY <1>1, <1>2, LimitNumbers DEF Counting, FewInWindow
<1> QED BY <1>1, <1>2, <1>3 DEF Limited

LEMMA GuessesStep == GuessesInv /\ [LoginNext]_loginVars => GuessesInv'
<1> SUFFICES ASSUME GuessesInv, [LoginNext]_loginVars PROVE GuessesInv'
  OBVIOUS
<1>1. ASSUME NEW b \in Browsers, Cleared(b), UNCHANGED at PROVE GuessesInv'
  BY <1>1, NoFailsLimited DEF Cleared, GuessesInv
<1>2. ASSUME NEW b \in Browsers, recordFailure(b), ~Locked(b), UNCHANGED at PROVE GuessesInv'
  <2>1. failsByIp[b].lockedUntil <= at
    BY <1>2 DEF Locked, GuessesInv, FailType
  <2> DEFINE f == Counted(failsByIp[b], MAX_FAILS_PER_IP)
             g == Append(guesses[b], at)
  <2>2. Limited(f, g, at)
    BY <2>1, FailureCounted DEF GuessesInv
  <2>3. failsByIp' = [failsByIp EXCEPT ![b] = f] /\ guesses' = [guesses EXCEPT ![b] = g]
    BY <1>2 DEF recordFailure
  <2>4. f \in FailType /\ g \in Seq(Nat)
    BY <2>2 DEF Limited
  <2> HIDE DEF f, g
  <2> QED BY <1>2, <2>2, <2>3, <2>4 DEF GuessesInv
<1>3. CASE UNCHANGED <<at, failsByIp, guesses>>
  BY <1>3 DEF GuessesInv
<1>4. ASSUME NEW b \in Browsers,
             Login(b) \/ LoginWrong(b) \/ Setup(b) \/ SetupWrong(b)
               \/ ChangePassword(b) \/ ChangeWrong(b) \/ Logout(b)
      PROVE  GuessesInv'
  BY <1>1, <1>2, <1>3, <1>4, Zenon DEF Login, LoginWrong, Setup, SetupWrong, ChangePassword, ChangeWrong, Logout, lockVars
<1>5. CASE Passes
  <2>1. at' = at + 1 /\ UNCHANGED <<failsByIp, guesses>>
    BY <1>5 DEF Passes, lockVars
  <2>2. ASSUME NEW e, NEW g, NEW now \in Nat, Limited(e, g, now) PROVE Limited(e, g, now + 1)
    <3>1. now + 1 \in Nat /\ Len(g) \in Nat /\ \A i \in 1..Len(g) : g[i] \in Nat
      BY <2>2 DEF Limited
    <3>2. \A i \in 1..Len(g) - e.count - (MAX_FAILS_PER_IP - 1) : i \in 1..Len(g)
      BY <2>2, <3>1, LimitNumbers DEF Limited, FailType
    <3>3. Counting(e, g, now) => Counting(e, g, now + 1)
      BY <3>1, <3>2, LimitNumbers DEF Counting
    <3>4. e.firstAt <= now + 1
      BY <2>2 DEF Limited, FailType
    <3> QED BY <2>2, <3>1, <3>3, <3>4 DEF Limited
  <2> QED BY <2>1, <2>2 DEF GuessesInv
<1>6. CASE LoginRestart
  BY <1>6, NoFailsLimited DEF LoginRestart, GuessesInv
<1> QED BY <1>3, <1>4, <1>5, <1>6 DEF LoginNext, loginVars

\* However wrong passwords, logins, locks of the address and of all, and restarts
\* fall: no window has twice the failures allowed.
THEOREM FewGuessesCompared == LoginSpec => []GuessesBounded
<1>1. LoginInit => GuessesInv
  BY NoFailsLimited DEF LoginInit, GuessesInv
<1>2. GuessesInv => GuessesBounded
  BY DEF GuessesInv, GuessesBounded, Limited, FewInWindow
<1> QED BY <1>1, <1>2, GuessesStep, PTL DEF LoginSpec

\* Sessions belong to the password in force, and a stranger compares few
\* guesses with it (src/core/auth.ts).
THEOREM LoginIsKept == LoginSpec => []LoginKept
  BY SessionsAreCurrent, FewGuessesCompared, PTL DEF LoginKept

-----------------------------------------------------------------------------
(* The queue of requests, for any number of requests and exits, every gap    *)
(* and cooldown.                                                             *)

\* When an exit is free again covers the gap after the last request it let
\* through, and the last cooldown: neither is ever forgotten for the other.
Covered == \A e \in Exits : next[e] >= released[e] + Gap /\ next[e] >= cooled[e]
GateInv == GateTypeOK /\ Covered

LEMMA GateStarts == GateInit => GateInv
  BY GateConstants DEF GateInit, GateInv, GateTypeOK, Covered

\* A turn of the loop, at whatever exit.
LEMMA TurnKeeps ==
  ASSUME GateInv, NEW r \in Requests, NEW e \in Exits, Turn(r, e, clock), UNCHANGED <<clock, cooled>>,
         exit' \in [Requests -> Exits]
  PROVE  GateInv'
<1> USE GateConstants DEF GateInv, GateTypeOK, Covered
<1>1. CASE next[e] <= clock
  <2>1. /\ next' = [next EXCEPT ![e] = clock + Gap] /\ released' = [released EXCEPT ![e] = clock]
        /\ request' = [request EXCEPT ![r] = "out"] /\ wakes' = wakes /\ clock' = clock /\ cooled' = cooled
    BY <1>1 DEF Turn
  <2>2. GateTypeOK'
    BY <2>1
  <2>3. Covered'
    <3> SUFFICES ASSUME NEW x \in Exits PROVE (next[x] >= released[x] + Gap /\ next[x] >= cooled[x])'
      OBVIOUS
    <3>1. CASE x = e
      BY <1>1, <2>1, <3>1
    <3>2. CASE x # e
      BY <2>1, <3>2
    <3> QED BY <3>1, <3>2
  <2> QED BY <2>2, <2>3
<1>2. CASE ~(next[e] <= clock)
  BY <1>2 DEF Turn
<1> QED BY <1>1, <1>2

LEMMA GateKept == GateInv /\ [GateNext]_gateVars => GateInv'
<1> SUFFICES ASSUME GateInv, [GateNext]_gateVars PROVE GateInv'
  OBVIOUS
<1>1. ASSUME NEW r \in Requests, Wait(r) PROVE GateInv'
  BY <1>1, TurnKeeps DEF Wait, GateInv, GateTypeOK
<1>2. ASSUME NEW r \in Requests, Wakes(r) PROVE GateInv'
  BY <1>2, TurnKeeps DEF Wakes, GateInv, GateTypeOK
<1>3. ASSUME NEW r \in Requests, Answered(r) PROVE GateInv'
  BY <1>3, GateConstants DEF Answered, Hold, Larger, GateInv, GateTypeOK, Covered
<1>4. CASE Passing \/ UNCHANGED gateVars
  BY <1>4 DEF Passing, gateVars, GateInv, GateTypeOK, Covered
<1> QED BY <1>1, <1>2, <1>3, <1>4 DEF GateNext

\* An exit that lets a request through has let none through for Gap and is in no
\* cooldown, however many wait, are put off while they sleep or are overtaken.
THEOREM GateSpaces == GateSpec => SpacedOut
<1>1. GateInv /\ [GateNext]_gateVars
        => [\A e \in Exits : released'[e] # released[e] => clock >= released[e] + Gap /\ clock >= cooled[e]]_gateVars
  <2> SUFFICES ASSUME GateInv, GateNext, NEW e \in Exits, released'[e] # released[e]
               PROVE  clock >= released[e] + Gap /\ clock >= cooled[e]
    OBVIOUS
  <2> USE DEF GateInv, GateTypeOK, Covered
  <2>1. ASSUME NEW r \in Requests, NEW x \in Exits, Turn(r, x, clock)
        PROVE  clock >= released[e] + Gap /\ clock >= cooled[e]
    <3>1. next[x] <= clock /\ e = x
      BY <2>1 DEF Turn
    <3> QED BY <3>1, GateConstants
  <2>2. ASSUME NEW r \in Requests, Wait(r) PROVE \E x \in Exits : Turn(r, x, clock)
    BY <2>2 DEF Wait
  <2>3. ASSUME NEW r \in Requests, Wakes(r) PROVE \E x \in Exits : Turn(r, x, clock)
    BY <2>3 DEF Wakes
  <2>4. \E r \in Requests : Wait(r) \/ Wakes(r)
    BY DEF GateNext, Passing, Answered
  <2> QED BY <2>1, <2>2, <2>3, <2>4
<1> QED BY <1>1, GateStarts, GateKept, PTL DEF GateSpec, SpacedOut

-----------------------------------------------------------------------------
(* The purchase catalogue. *)

LEMMA CatalogueStarts == CatalogueInit => CatalogueInv
  BY DEF CatalogueInit, CatalogueInv, CatalogueTypeOK, CallsHonest, CatalogueKept, RatesFollow, CatalogueSaved, emptyState, GameIds

LEMMA RefreshedKeeps ==
  ASSUME CatalogueInv, NEW c \in calls, NEW game \in GameIds, NEW list \in {0, c.id}, c.phase = "query",
         Refreshed(game, c, list)
  PROVE  CatalogueInv'
<1> USE DEF CatalogueInv, CatalogueTypeOK, CallsHonest, CatalogueKept
<1>1. /\ states' = [states EXCEPT ![game] = [list |-> list, rates |-> c.rates]]
      /\ files' = [files EXCEPT ![game] = saveCache(@, states'[game])]
      /\ calls' = calls \ {c} /\ rateState' = rateState /\ asked' = asked
      /\ overtaken' = IF c.late THEN overtaken \cup {game} ELSE overtaken \ {game}
      /\ unsaved' = IF list = 0 THEN unsaved \cup {game} ELSE unsaved \ {game}
  BY DEF Refreshed
<1>2. states'[game] = [list |-> list, rates |-> c.rates] /\ states'[game] \in [list : 0..asked, rates : 0..asked]
  BY <1>1
<1>3. files'[game] \in [list : 0..asked, rates : 0..asked] /\ (list # 0 => files'[game] = states'[game])
  BY <1>1, <1>2 DEF saveCache
<1>4. CatalogueTypeOK'
  BY <1>1, <1>2, <1>3
<1>5. CallsHonest'
  BY <1>1
<1>6. RatesFollow'
  BY <1>1, <1>2 DEF RatesFollow
<1>7. CatalogueSaved'
  BY <1>1, <1>2, <1>3 DEF CatalogueSaved
<1> QED BY <1>1, <1>4, <1>5, <1>6, <1>7

LEMMA CatalogueStep == CatalogueConstants /\ CatalogueInv /\ [CatalogueNext]_catalogueVars => CatalogueInv'
<1> SUFFICES ASSUME CatalogueConstants, CatalogueInv, [CatalogueNext]_catalogueVars PROVE CatalogueInv'
  OBVIOUS
<1> USE DEF CatalogueInv, CatalogueTypeOK, CallsHonest, CatalogueKept
<1>1. ASSUME NEW kind \in {"rates"} \cup GameIds, Begin(kind) PROVE CatalogueInv'
  <2>1. asked' = asked + 1 /\ UNCHANGED <<states, files, rateState, overtaken, unsaved>>
    BY <1>1 DEF Begin, Ask
  <2>2. CatalogueTypeOK' /\ CatalogueKept'
    BY <2>1 DEF RatesFollow, CatalogueSaved
  <2>3. CallsHonest'
    <3> DEFINE call == [kind |-> kind, id |-> asked', rates |-> rateState, late |-> FALSE,
                        phase |-> IF fresh /\ kind # "rates" THEN "query" ELSE "fetch"]
    <3>1. calls' = calls \cup {call}
      BY <1>1 DEF Begin
    <3>2. call \in [kind : {"rates"} \cup GameIds, id : 0..asked', rates : 0..asked', late : BOOLEAN,
                    phase : {"query", "fetch"}]
      BY <1>1, <2>1
    <3>3. call.rates = rateState'
      BY <2>1
    <3> HIDE DEF call
    <3>4. calls \subseteq [kind : {"rates"} \cup GameIds, id : 0..asked', rates : 0..asked', late : BOOLEAN,
                           phase : {"query", "fetch"}]
      BY <2>1
    <3> QED BY <2>1, <3>1, <3>2, <3>3, <3>4
  <2> QED BY <2>1, <2>2, <2>3
<1>2. ASSUME NEW c \in calls, RatesReply(c) PROVE CatalogueInv'
  <2>1. CASE NewRates(c.id) /\ unsaved' = {g \in unsaved : states[g].list = 0}
             /\ calls' = Outdated(calls \ {c}) \cup
                  (IF c.kind = "rates" THEN {} ELSE {[c EXCEPT !.phase = "query", !.rates = c.id]})
    <3>1. /\ rateState' = c.id /\ overtaken' = {} /\ asked' = asked
          /\ \A g \in GameIds : states'[g] = [states[g] EXCEPT !.rates = c.id]
                                /\ files'[g] = saveCache(files[g], states'[g])
          /\ states' \in [GameIds -> [list : 0..asked, rates : 0..asked]]
      BY <1>2, <2>1 DEF NewRates, RatesReply
    <3>2. files' \in [GameIds -> [list : 0..asked, rates : 0..asked]]
      BY <2>1, <3>1 DEF NewRates, saveCache
    <3>3. CatalogueTypeOK' /\ RatesFollow'
      BY <2>1, <3>1, <3>2 DEF RatesFollow
    <3>4. CatalogueSaved'
      BY <2>1, <3>1 DEF CatalogueSaved, saveCache
    <3>5. CallsHonest'
      <4>1. ASSUME NEW d \in calls' \ Outdated(calls \ {c})
            PROVE  d \in [kind : {"rates"} \cup GameIds, id : 0..asked, rates : 0..asked, late : BOOLEAN,
                          phase : {"query", "fetch"}] /\ d.rates = c.id
        BY <2>1, <4>1
      <4>2. ASSUME NEW d \in Outdated(calls \ {c})
            PROVE  d \in [kind : {"rates"} \cup GameIds, id : 0..asked, rates : 0..asked, late : BOOLEAN,
                          phase : {"query", "fetch"}] /\ (d.phase = "query" => d.late)
        BY <4>2 DEF Outdated
      <4> QED BY <3>1, <4>1, <4>2
    <3> QED BY <3>1, <3>3, <3>4, <3>5
  <2>2. CASE calls' = calls \ {c} /\ UNCHANGED <<states, files, rateState, fresh, overtaken, unsaved>>
    BY <1>2, <2>2 DEF RatesReply, RatesFollow, CatalogueSaved
  <2> QED BY <1>2, <2>1, <2>2 DEF RatesReply
<1>3. ASSUME NEW c \in calls, BuildStaticTf2State(c) PROVE CatalogueInv'
  BY <1>3, RefreshedKeeps DEF BuildStaticTf2State, GameIds
<1>4. ASSUME NEW c \in calls, StoreDataReply(c) PROVE CatalogueInv'
  BY <1>4, RefreshedKeeps DEF StoreDataReply, Listed, GameIds
<1>5. ASSUME NEW c \in calls, RefreshFails(c) PROVE CatalogueInv'
  BY <1>5 DEF RefreshFails, RatesFollow, CatalogueSaved
<1>6. ASSUME NEW game \in GameIds, EnsureLoaded(game) PROVE CatalogueInv'
  BY <1>6 DEF EnsureLoaded, RatesFollow, CatalogueSaved
<1>7. ASSUME NEW game \in GameIds, AdoptStoreData(game) PROVE CatalogueInv'
  <2>1. /\ asked' = asked + 1 /\ states' = [states EXCEPT ![game] = [list |-> asked', rates |-> rateState]]
        /\ overtaken' = overtaken \ {game} /\ unsaved' = unsaved \cup {game}
        /\ UNCHANGED <<files, rateState, calls>>
    BY <1>7 DEF AdoptStoreData, Ask
  <2>2. states' \in [GameIds -> [list : 0..asked', rates : 0..asked']] /\ files' \in [GameIds -> [list : 0..asked', rates : 0..asked']]
    BY <2>1
  <2>3. CatalogueTypeOK' /\ CallsHonest'
    BY <2>1, <2>2
  <2>4. RatesFollow' /\ CatalogueSaved'
    BY <2>1, <2>2 DEF RatesFollow, CatalogueSaved
  <2> QED BY <2>1, <2>3, <2>4
<1>8. CASE Preload
  BY <1>8 DEF Preload, RatesFollow, CatalogueSaved
<1>9. CASE RatesAge \/ UNCHANGED catalogueVars
  BY <1>9 DEF RatesAge, catalogueVars, RatesFollow, CatalogueSaved
<1> QED BY <1>1, <1>2, <1>3, <1>4, <1>5, <1>6, <1>7, <1>8, <1>9 DEF CatalogueNext

-----------------------------------------------------------------------------
(* Account histories. *)

LEMMA HistoryStarts == HistoryConstants /\ HistoryInit => HistoryInv
<1> SUFFICES ASSUME HistoryConstants, HistoryInit PROVE HistoryInv
  OBVIOUS
<1>1. MaxRows - 1 \in Nat
  BY DEF HistoryConstants
<1> QED BY <1>1 DEF HistoryInit, HistoryInv, Jobs, Window, ShowsItsOwn

LEMMA HistoryInvKept == HistoryInv => HistoryKept
  BY DEF HistoryInv, HistoryKept, Jobs, JobOf, ReadOnce

\* The rows of a page are those below its cursor, one after the other.
LEMMA PageBelow ==
  ASSUME HistoryConstants, NEW row \in Nat \ {0}
  PROVE  /\ Below(row) \in Seq(Nat)
         /\ \A i \in 1..Len(Below(row)) : Below(row)[i] = row - i
         /\ Len(Below(row)) \in Nat /\ (row >= 2 <=> Len(Below(row)) # 0)
         /\ Len(Below(row)) < row
<1> DEFINE n == IF row > PageSize THEN PageSize ELSE row - 1
<1>1. n \in Nat /\ n < row /\ (row >= 2 <=> n # 0)
  BY DEF HistoryConstants
<1>2. Below(row) = [i \in 1..n |-> row - i]
  BY DEF Below
<1> HIDE DEF n
<1>3. \A i \in 1..n : row - i \in Nat
  BY <1>1
<1>4. Below(row) \in [1..n -> Nat]
  BY <1>2, <1>3
<1>5. Below(row) \in Seq(Nat) /\ Len(Below(row)) = n
  BY <1>1, <1>4
<1> QED BY <1>1, <1>2, <1>5

Joined(rows, row) == rows \o Below(row)

\* A job's rows with those below a row, where it went on reading.
Turned(j, row) ==
  /\ row \in Nat \ {0} /\ (j.pages # 0 => row >= 2) /\ Joined(j.rows, row) \in Seq(Nat)
  /\ \A i \in 2..Len(Joined(j.rows, row)) : Joined(j.rows, row)[i] = Joined(j.rows, row)[i - 1] - 1
  /\ Len(Below(row)) # 0 => /\ Joined(j.rows, row) # <<>>
                            /\ Joined(j.rows, row)[Len(Joined(j.rows, row))] = Below(row)[Len(Below(row))]
  /\ Len(Below(row)) = 0 => Joined(j.rows, row) = <<>>

LEMMA TurnedPage ==
  ASSUME HistoryConstants, NEW a \in Owners, NEW b \in Nat, NEW j, JobOf(a, j), j.status = "loading",
         NEW row, row = (IF j.pages = 0 THEN b + 1 ELSE j.cursor)
  PROVE  Turned(j, row)
<1> DEFINE got == Below(row)
           rows == Joined(j.rows, row)
<1>1. JobOf(a, j) /\ b \in Nat
  OBVIOUS
<1>2. row \in Nat \ {0} /\ (j.pages # 0 => row >= 2 /\ j.rows # <<>> /\ row = j.rows[Len(j.rows)])
      /\ (j.pages = 0 => j.rows = <<>>)
  <2>1. CASE j.pages = 0
    BY <1>1, <2>1 DEF JobOf
  <2>2. CASE j.pages # 0
    <3>1. j.rows # <<>> /\ j.cursor = j.rows[Len(j.rows)] /\ j.cursor >= 2 /\ row = j.cursor
      BY <1>1, <2>2 DEF JobOf
    <3>2. j.rows[Len(j.rows)] \in Nat
      BY <1>1, <3>1 DEF JobOf
    <3> QED BY <2>2, <3>1, <3>2
  <2> QED BY <2>1, <2>2
<1>3. j.rows \in Seq(Nat) /\ \A i \in 2..Len(j.rows) : j.rows[i] = j.rows[i - 1] - 1
  BY <1>1 DEF JobOf
<1>4. /\ got \in Seq(Nat) /\ \A i \in 1..Len(got) : got[i] = row - i
      /\ Len(got) \in Nat /\ (row >= 2 <=> Len(got) # 0)
  BY <1>2, PageBelow
<1>0. rows = j.rows \o got
  BY DEF Joined
<1> HIDE DEF got, rows
<1>5. rows \in Seq(Nat) /\ Len(rows) = Len(j.rows) + Len(got) /\ Len(j.rows) \in Nat
      /\ \A i \in 1..Len(rows) : rows[i] = IF i <= Len(j.rows) THEN j.rows[i] ELSE got[i - Len(j.rows)]
  BY <1>0, <1>3, <1>4
<1> DEFINE m == Len(j.rows)
           n == Len(got)
<1>6. ASSUME NEW i \in 2..Len(rows) PROVE rows[i] = rows[i - 1] - 1
  <2>0. m \in Nat /\ n \in Nat /\ Len(rows) = m + n /\ row \in Nat
    BY <1>2, <1>4, <1>5
  <2>1. rows[i] = IF i <= m THEN j.rows[i] ELSE got[i - m]
    BY <1>5, <2>0
  <2>2. rows[i - 1] = IF i - 1 <= m THEN j.rows[i - 1] ELSE got[i - 1 - m]
    <3>1. i - 1 \in 1..Len(rows)
      BY <2>0
    <3> QED BY <1>5, <3>1
  <2>3. \A x \in 1..n : got[x] = row - x
    BY <1>4
  <2>4. m # 0 => row = j.rows[m]
    BY <1>2
  <2>5. \A x \in 2..m : j.rows[x] = j.rows[x - 1] - 1
    BY <1>3
  <2> HIDE DEF m, n
  <2>6. CASE i <= m
    <3>1. i \in 2..m
      BY <2>0, <2>6
    <3>2. rows[i] = j.rows[i] /\ rows[i - 1] = j.rows[i - 1]
      BY <2>0, <2>1, <2>2, <2>6
    <3> QED BY <2>5, <3>1, <3>2
  <2>7. CASE i - 1 > m
    <3>1. i - m \in 1..n /\ i - 1 - m \in 1..n
      BY <2>0, <2>7
    <3>2. rows[i] = got[i - m] /\ rows[i - 1] = got[i - 1 - m]
      BY <2>0, <2>1, <2>2, <2>7
    <3>3. rows[i] = row - (i - m) /\ rows[i - 1] = row - (i - 1 - m)
      BY <2>3, <3>1, <3>2
    <3> QED BY <2>0, <3>3
  <2>8. CASE i - 1 = m
    <3>1. i - m = 1 /\ m # 0 /\ 1 \in 1..n /\ i > m
      BY <2>0, <2>8
    <3>2. rows[i] = got[1] /\ rows[i - 1] = j.rows[m]
      BY <2>0, <2>1, <2>2, <2>8, <3>1
    <3>3. got[1] = row - 1 /\ row = j.rows[m]
      BY <2>3, <2>4, <3>1
    <3> QED BY <3>2, <3>3
  <2> QED BY <2>0, <2>6, <2>7, <2>8
<1>7. Len(got) # 0 => rows # <<>> /\ rows[Len(rows)] = got[Len(got)]
  <2>1. SUFFICES ASSUME Len(got) # 0 PROVE rows # <<>> /\ rows[Len(rows)] = got[Len(got)]
    OBVIOUS
  <2>2. Len(rows) > Len(j.rows) /\ Len(rows) \in 1..Len(rows) /\ Len(rows) - Len(j.rows) = Len(got)
    BY <1>4, <1>5, <2>1
  <2>3. rows # <<>>
    BY <1>5, <2>2
  <2>4. \A i \in 1..Len(rows) : ~(i <= Len(j.rows)) => rows[i] = got[i - Len(j.rows)]
    BY <1>5
  <2>5. ~(Len(rows) <= Len(j.rows))
    BY <1>5, <2>2
  <2>6. rows[Len(rows)] = got[Len(rows) - Len(j.rows)]
    BY <2>2, <2>4, <2>5
  <2> QED BY <2>2, <2>3, <2>6
<1>8. Len(got) = 0 => rows = <<>>
  <2>1. SUFFICES ASSUME Len(got) = 0 PROVE rows = <<>>
    OBVIOUS
  <2>2. j.rows = <<>>
    BY <1>2, <1>4, <2>1
  <2> QED BY <1>5, <2>1, <2>2
<1> QED
  <2>1. row \in Nat \ {0} /\ (j.pages # 0 => row >= 2) /\ Joined(j.rows, row) \in Seq(Nat)
    BY <1>2, <1>5 DEF rows
  <2>2. \A i \in 2..Len(Joined(j.rows, row)) : Joined(j.rows, row)[i] = Joined(j.rows, row)[i - 1] - 1
    BY <1>6 DEF rows
  <2>3. Len(Below(row)) # 0 => /\ Joined(j.rows, row) # <<>>
                               /\ Joined(j.rows, row)[Len(Joined(j.rows, row))] = Below(row)[Len(Below(row))]
    BY <1>7 DEF got, rows
  <2>4. Len(Below(row)) = 0 => Joined(j.rows, row) = <<>>
    BY <1>8 DEF got, rows
  <2> QED BY <2>1, <2>2, <2>3, <2>4, Zenon DEF Turned

LEMMA ReadPageKeeps ==
  ASSUME HistoryConstants, HistoryInv, NEW a \in Owners, ReadPage(a)
  PROVE  HistoryInv'
<1> DEFINE j == jobs[a]
           row == IF j.pages = 0 THEN bought[a] + 1 ELSE j.cursor
           got == Below(row)
           low == IF got = <<>> \/ got[Len(got)] = 1 THEN 0 ELSE got[Len(got)]
           rows == Joined(j.rows, row)
<1>1. PICK cursor \in {low} \cup (IF j.pages = 0 THEN {} ELSE {j.cursor}) :
        jobs' = [jobs EXCEPT ![a] = Ended([j EXCEPT !.rows = @ \o got, !.pages = @ + 1, !.cursor = cursor], got)]
  BY DEF ReadPage
<1>2. j # NoJob /\ j.status = "loading" /\ UNCHANGED <<bought, windowVars>>
  BY DEF ReadPage
<1>3. j = [f \in JobFields |-> j[f]] /\ JobOf(a, j)
  BY <1>2 DEF HistoryInv, Jobs
<1> DEFINE k == [j EXCEPT !.rows = @ \o got, !.pages = @ + 1, !.cursor = cursor]
           e == Ended(k, got)
<1> HIDE DEF j, got, low, rows
<1>4. /\ k = [f \in JobFields |-> k[f]] /\ k.account = j.account /\ k.status = "loading"
      /\ k.rows = rows /\ k.pages = j.pages + 1 /\ k.cursor = cursor /\ k.seen = j.seen
      /\ k.truncated = j.truncated /\ k.stalled = j.stalled
  BY <1>2, <1>3 DEF JobFields, rows, got, Joined
<1> HIDE DEF k
<1>5. /\ e = [f \in JobFields |-> e[f]] /\ e.account = k.account /\ e.rows = k.rows /\ e.pages = k.pages /\ e.cursor = k.cursor
      /\ \/ e.status = "done" /\ (cursor = 0 \/ got = <<>>)
         \/ e.status = "done" /\ e.truncated
         \/ e.status = "done" /\ e.stalled /\ cursor \in k.seen
         \/ e.status = "loading" /\ cursor # 0 /\ got # <<>> /\ cursor \notin k.seen /\ cursor \in e.seen
  <2>1. CASE cursor = 0 \/ got = <<>>
    <3>1. e = [k EXCEPT !.status = "done"]
      BY <1>4, <2>1 DEF Ended
    <3> HIDE DEF e
    <3> QED BY <1>4, <2>1, <3>1 DEF JobFields
  <2>2. CASE ~(cursor = 0 \/ got = <<>>) /\ k.pages >= maxPages
    <3>1. e = [k EXCEPT !.status = "done", !.truncated = TRUE]
      BY <1>4, <2>2 DEF Ended
    <3> HIDE DEF e
    <3> QED BY <1>4, <2>2, <3>1 DEF JobFields
  <2>3. CASE ~(cursor = 0 \/ got = <<>>) /\ ~(k.pages >= maxPages) /\ cursor \in k.seen
    <3>1. e = [k EXCEPT !.status = "done", !.stalled = TRUE]
      BY <1>4, <2>3 DEF Ended
    <3> HIDE DEF e
    <3> QED BY <1>4, <2>3, <3>1 DEF JobFields
  <2>4. CASE ~(cursor = 0 \/ got = <<>>) /\ ~(k.pages >= maxPages) /\ cursor \notin k.seen
    <3>1. e = [k EXCEPT !.seen = @ \cup {cursor}]
      BY <1>4, <2>4 DEF Ended
    <3> HIDE DEF e
    <3> QED BY <1>4, <2>4, <3>1 DEF JobFields
  <2> QED BY <2>1, <2>2, <2>3, <2>4
<1> HIDE DEF e
<1>6. /\ row \in Nat \ {0} /\ (j.pages # 0 => row >= 2) /\ rows \in Seq(Nat)
      /\ \A i \in 2..Len(rows) : rows[i] = rows[i - 1] - 1
      /\ Len(got) # 0 => rows # <<>> /\ rows[Len(rows)] = got[Len(got)]
      /\ Len(got) = 0 => rows = <<>>
  <2>1. /\ JobOf(a, j) /\ j.status = "loading" /\ bought[a] \in Nat
        /\ row = (IF j.pages = 0 THEN bought[a] + 1 ELSE j.cursor)
    BY <1>2, <1>3 DEF HistoryInv
  <2> DEFINE b == bought[a]
  <2> HIDE DEF row, b
  <2>2. Turned(j, row)
    <3>1. b \in Nat /\ row = (IF j.pages = 0 THEN b + 1 ELSE j.cursor)
      BY <2>1 DEF b
    <3> QED BY <2>1, <3>1, TurnedPage
  <2> QED BY <2>2 DEF Turned, got, rows
<1>7. got \in Seq(Nat) /\ Len(got) \in Nat /\ (\A i \in 1..Len(got) : got[i] = row - i) /\ Len(got) < row
  BY <1>6, PageBelow DEF got
<1>8. j.pages \in Nat /\ (j.pages # 0 => j.cursor >= 2 /\ j.cursor \in j.seen) /\ j.account = a
  BY <1>2, <1>3 DEF JobOf
<1>9. got # <<>> => Len(got) # 0 /\ got[Len(got)] \in Nat /\ got[Len(got)] >= 1
  <2>1. ASSUME got # <<>> PROVE Len(got) \in 1..Len(got)
    BY <1>7, <2>1
  <2> QED BY <1>6, <1>7, <2>1
<1>10. JobOf(a, e)
  <2>a. e.account = a /\ e.rows = rows /\ e.pages \in Nat /\ e.pages # 0
    BY <1>4, <1>5, <1>8
  <2>0. /\ e.account = a /\ e.rows = rows /\ e.pages \in Nat /\ e.pages # 0 /\ e.rows \in Seq(Nat)
        /\ \A i \in 2..Len(e.rows) : e.rows[i] = e.rows[i - 1] - 1
    BY <1>6, <2>a
  <2>1. CASE e.status = "done" /\ (cursor = 0 \/ got = <<>>)
    <3>1. ASSUME rows # <<>> PROVE rows[Len(rows)] = 1
      <4>1. got # <<>>
        BY <1>6, <1>7, <3>1
      <4>2. cursor = 0
        BY <2>1, <4>1
      <4>3. cursor = low
        BY <1>1, <1>8, <4>2
      <4> QED BY <1>6, <1>9, <4>1, <4>2, <4>3 DEF low
    <3> QED BY <2>0, <2>1, <3>1 DEF JobOf
  <2>2. CASE e.status = "done" /\ (e.truncated \/ e.stalled)
    BY <2>0, <2>2 DEF JobOf
  <2>3. CASE e.status = "loading" /\ cursor # 0 /\ got # <<>> /\ cursor \notin k.seen /\ cursor \in e.seen
    <3>1. cursor = low
      BY <1>1, <1>4, <1>8, <2>3
    <3>2. cursor = got[Len(got)] /\ cursor # 1
      BY <2>3, <3>1 DEF low
    <3>3. rows # <<>> /\ cursor = rows[Len(rows)] /\ cursor >= 2
      BY <1>6, <1>9, <2>3, <3>2
    <3>4. e.cursor = cursor
      BY <1>4, <1>5
    <3> QED BY <2>0, <2>3, <3>3, <3>4 DEF JobOf
  <2> QED BY <1>5, <2>1, <2>2, <2>3
<1>11. jobs' = [jobs EXCEPT ![a] = e]
  BY <1>1 DEF e, k
<1>12. DOMAIN jobs' = Owners /\ Jobs'
  BY <1>5, <1>10, <1>11 DEF HistoryInv, Jobs
<1> QED BY <1>2, <1>12 DEF HistoryInv, windowVars, Window, ShowsItsOwn

LEMMA LoadKeeps ==
  ASSUME HistoryInv, NEW a \in Owners, NEW force \in BOOLEAN, jobs' = load(a, force)
  PROVE  DOMAIN jobs' = Owners /\ Jobs'
<1>1. CASE jobs' = jobs
  BY <1>1 DEF HistoryInv, Jobs
<1>2. CASE jobs' = [jobs EXCEPT ![a] = Started(a)]
  <2>1. Started(a) = [f \in JobFields |-> Started(a)[f]]
    BY DEF Started, JobFields
  <2>2. JobOf(a, Started(a))
    <3>1. <<>> \in Seq(Nat) /\ Len(<<>>) = 0
      OBVIOUS
    <3> QED BY <3>1 DEF JobOf, Started
  <2> QED BY <1>2, <2>1, <2>2 DEF HistoryInv, Jobs
<1> QED BY <1>1, <1>2 DEF load

LEMMA HistoryStays == HistoryConstants /\ HistoryInv /\ [HistoryNext]_historyVars => HistoryInv'
<1> SUFFICES ASSUME HistoryConstants, HistoryInv, [HistoryNext]_historyVars PROVE HistoryInv'
  OBVIOUS
<1>0. Nobody \notin Owners
  BY DEF HistoryConstants
<1>1. ASSUME NEW a \in Owners, ReadPage(a) PROVE HistoryInv'
  BY <1>1, ReadPageKeeps
<1>2. ASSUME NEW a \in Owners, ReadFails(a) PROVE HistoryInv'
  <2>1. jobs[a] # NoJob /\ jobs' = [jobs EXCEPT ![a].status = "error"] /\ UNCHANGED <<bought, windowVars>>
    BY <1>2 DEF ReadFails
  <2>2. jobs[a] = [f \in JobFields |-> jobs[a][f]] /\ JobOf(a, jobs[a])
    BY <2>1 DEF HistoryInv, Jobs
  <2> DEFINE e == [jobs[a] EXCEPT !.status = "error"]
  <2>3. e = [f \in JobFields |-> e[f]] /\ e.status = "error" /\ e.account = jobs[a].account
        /\ e.rows = jobs[a].rows /\ e.pages = jobs[a].pages
    BY <2>2 DEF JobFields
  <2>4. jobs' = [jobs EXCEPT ![a] = e]
    BY <2>1
  <2> HIDE DEF e
  <2>5. JobOf(a, e)
    BY <2>2, <2>3 DEF JobOf
  <2>6. DOMAIN jobs' = Owners /\ Jobs'
    BY <2>3, <2>4, <2>5 DEF HistoryInv, Jobs
  <2> QED BY <2>1, <2>6 DEF HistoryInv, windowVars, Window, ShowsItsOwn
<1>3. ASSUME NEW r \in asks, Replied(r) PROVE HistoryInv'
  <2>1. /\ asks' = asks \ {r} /\ Apply(r, jobs'[r.account])
        /\ jobs' = IF r.kind = "poll" THEN jobs ELSE load(r.account, r.kind = "force")
        /\ UNCHANGED <<bought, accountName, generation>>
    BY <1>3 DEF Replied
  <2>2. r.account \in Owners /\ (r.generation = generation => r.account = accountName)
    BY DEF HistoryInv, Window
  <2>3. DOMAIN jobs' = Owners /\ Jobs'
    <3>1. CASE r.kind = "poll"
      BY <2>1, <3>1 DEF HistoryInv, Jobs
    <3>2. CASE r.kind # "poll"
      BY <2>1, <2>2, <3>2, LoadKeeps
    <3> QED BY <3>1, <3>2
  <2>4. CASE r.generation = generation
    <3>1. shown' = jobs'[accountName] /\ accountName \in Owners
      BY <2>1, <2>2, <2>4 DEF Apply
    <3>2. ShowsItsOwn'
      BY <2>1, <2>3, <3>1 DEF ShowsItsOwn, Jobs, JobOf
    <3>3. Window'
      BY <1>0, <2>1, <3>1 DEF HistoryInv, Window
    <3> QED BY <2>1, <2>3, <3>2, <3>3 DEF HistoryInv
  <2>5. CASE r.generation # generation
    <3>1. UNCHANGED <<shown, timer>>
      BY <2>1, <2>5 DEF Apply
    <3> QED BY <2>1, <2>3, <3>1 DEF HistoryInv, Window, ShowsItsOwn
  <2> QED BY <2>4, <2>5
<1>4. CASE Poll
  <2>1. accountName \in Owners /\ generation \in 0..generation
    BY <1>4 DEF Poll, HistoryInv, Window
  <2> QED BY <1>4, <2>1 DEF Poll, Asking, serverVars, HistoryInv, Jobs, Window, ShowsItsOwn
<1>5. CASE StartAgain
  <2>1. accountName \in Owners /\ generation \in 0..generation
    BY <1>5 DEF StartAgain, HistoryInv, Window
  <2> QED BY <1>5, <2>1 DEF StartAgain, Asking, serverVars, HistoryInv, Jobs, Window, ShowsItsOwn
<1>6. CASE HistoryRestart
  BY <1>6 DEF HistoryRestart, windowVars, HistoryInv, Jobs, Window, ShowsItsOwn
<1>7. ASSUME NEW a \in Owners, Buys(a) PROVE HistoryInv'
  <2>1. bought' \in [Owners -> Nat]
    BY <1>7 DEF Buys, HistoryInv
  <2> QED BY <1>7, <2>1 DEF Buys, windowVars, HistoryInv, Jobs, Window, ShowsItsOwn
<1>8. ASSUME NEW a \in Owners, LoadElsewhere(a) PROVE HistoryInv'
  <2>1. DOMAIN jobs' = Owners /\ Jobs'
    BY <1>8, LoadKeeps DEF LoadElsewhere
  <2> QED BY <1>8, <2>1 DEF LoadElsewhere, windowVars, HistoryInv, Window, ShowsItsOwn
<1>9. ASSUME NEW a \in Owners \cup {Nobody}, Watch(a) PROVE HistoryInv'
  <2>1. /\ accountName' = a /\ generation' = generation + 1 /\ shown' = NoJob /\ timer' = FALSE
        /\ asks' = IF a = Nobody THEN asks
                   ELSE asks \cup {[kind |-> "start", account |-> a, generation |-> generation + 1]}
        /\ UNCHANGED serverVars
    BY <1>9 DEF Watch
  <2>2. generation \in Nat /\ generation' \in Nat /\ generation' \in 0..generation'
        /\ \A n \in 0..generation : n \in 0..generation' /\ n # generation'
    BY <2>1 DEF HistoryInv, Window
  <2>3. \A r \in asks' : /\ r.account \in Owners /\ r.generation \in 0..generation'
                         /\ r.generation = generation' => r.account = accountName'
    BY <2>1, <2>2 DEF HistoryInv, Window
  <2> QED BY <2>1, <2>2, <2>3 DEF serverVars, HistoryInv, Jobs, Window, ShowsItsOwn
<1>10. ASSUME NEW r \in asks, Unanswered(r) PROVE HistoryInv'
  <2>1. /\ asks' = asks \ {r} /\ UNCHANGED <<serverVars, accountName, generation, shown>>
        /\ timer' = (timer \/ (r.kind = "poll" /\ r.generation = generation))
    BY <1>10 DEF Unanswered
  <2>2. timer' => accountName # Nobody
    BY <1>0, <2>1 DEF HistoryInv, Window
  <2> QED BY <2>1, <2>2 DEF serverVars, HistoryInv, Jobs, Window, ShowsItsOwn
<1>11. CASE UNCHANGED historyVars
  BY <1>11 DEF historyVars, HistoryInv, Jobs, Window, ShowsItsOwn
<1> QED
  BY <1>1, <1>2, <1>3, <1>4, <1>5, <1>6, <1>7, <1>8, <1>9, <1>10, <1>11 DEF HistoryNext, Reading, WindowDue

-----------------------------------------------------------------------------
(* The inventory: its page and its service.                                 *)
LEMMA StockStarts == Stock!InventoryInit => Stock!InventoryInv
  BY DEF Stock!InventoryInit, Stock!InventoryInv, Stock!Sessions, Stock!Fetched, Stock!Waits, Stock!Awaited,
         Stock!Whole, Stock!Calls, Stock!Views, Stock!Cleared

LEMMA StockKept == Stock!InventoryInv => Stock!InventoryKept
  BY DEF Stock!InventoryInv, Stock!InventoryKept, Stock!ShowsSelected, Stock!LoadingIsAwaited, Stock!NeverWithoutGc,
         Stock!Waits, Stock!Views, Stock!Whole

LEMMA ShownWaits ==
  ASSUME NEW cs, NEW v, Stock!Waits(cs, v), NEW c \in cs, NEW snapshot \in Stock!Whole
  PROVE  /\ Stock!Waits(cs \ {c}, Stock!Shown(v, c, snapshot))
         /\ c.live => ~Stock!Shown(v, c, snapshot).loading
<1>1. CASE ~c.live
  BY <1>1 DEF Stock!Waits, Stock!Shown
<1>2. CASE c.live
  <2> DEFINE w == Stock!Shown(v, c, snapshot)
  <2>1. w = [v EXCEPT !.loading = FALSE, !.items = snapshot,
                 !.loaded = IF snapshot = None THEN Nobody ELSE c.account,
                 !.error = snapshot = None]
    BY <1>2 DEF Stock!Shown
  <2>2. v \in Stock!Views /\ c \in Stock!Calls
    BY DEF Stock!Waits
  <2>3. (IF snapshot = None THEN Nobody ELSE c.account) \in Accounts \cup {Nobody}
    BY <2>2 DEF Stock!Calls
  <2>4. w \in Stock!Views /\ ~w.loading /\ w.items = snapshot /\ w.selected = v.selected
        /\ w.loaded = IF snapshot = None THEN Nobody ELSE c.account
    BY <2>1, <2>2, <2>3 DEF Stock!Views
  <2>5. \A d \in cs \ {c} : ~d.live
    BY <1>2 DEF Stock!Waits
  <2>6. c.account = v.selected
    BY <1>2 DEF Stock!Waits
  <2> HIDE DEF w
  <2> QED BY <2>4, <2>5, <2>6 DEF Stock!Waits, w
<1> QED BY <1>1, <1>2

LEMMA ShownAllWaits ==
  ASSUME NEW cs, NEW v, Stock!Waits(cs, v), NEW ds \in SUBSET cs, NEW snapshot \in Stock!Whole
  PROVE  Stock!Waits(cs \ ds, Stock!ShownAll(v, ds, snapshot))
<1>1. CASE \A c \in ds : ~c.live
  BY <1>1 DEF Stock!Waits, Stock!ShownAll
<1>2. CASE \E c \in ds : c.live
  <2> DEFINE c == CHOOSE c \in ds : c.live
  <2>1. c \in ds /\ c.live
    BY <1>2
  <2>2. Stock!ShownAll(v, ds, snapshot) = Stock!Shown(v, c, snapshot)
    BY <1>2 DEF Stock!ShownAll
  <2> HIDE DEF c
  <2>3. Stock!Waits(cs \ {c}, Stock!Shown(v, c, snapshot)) /\ ~Stock!Shown(v, c, snapshot).loading
    BY <2>1, ShownWaits
  <2> QED BY <2>1, <2>2, <2>3 DEF Stock!Waits
<1> QED BY <1>1, <1>2

LEMMA SupersededIdle ==
  ASSUME NEW cs \in SUBSET Stock!Calls
  PROVE  /\ Stock!Superseded(cs) \subseteq Stock!Calls
         /\ \A c \in Stock!Superseded(cs) : ~c.live /\ c.at = "gc" /\ \E d \in cs : d.at = "gc" /\ d.account = c.account
  BY DEF Stock!Superseded, Stock!Calls

LEMMA CallsLeft ==
  ASSUME Stock!InventoryInv
  PROVE  /\ s10 \subseteq Stock!Calls /\ Stock!Superseded(s10) \subseteq Stock!Calls
         /\ \A c \in Stock!Superseded(s10) : ~c.live /\ c.at = "gc" /\ c.account \in s6
<1>1. s10 \in SUBSET Stock!Calls
  BY DEF Stock!InventoryInv, Stock!Waits
<1>2. /\ Stock!Superseded(s10) \subseteq Stock!Calls
      /\ \A c \in Stock!Superseded(s10) : ~c.live /\ c.at = "gc" /\ \E d \in s10 : d.at = "gc" /\ d.account = c.account
  BY <1>1, SupersededIdle
<1>3. \A d \in s10 : d.at = "gc" => d.account \in s6
  BY DEF Stock!InventoryInv, Stock!Awaited
<1> QED BY <1>1, <1>2, <1>3

\* Calls that move on are of the same account, and as live as they were.
LEMMA MovedWaits ==
  ASSUME NEW cs, NEW v, Stock!Waits(cs, v), NEW f \in [cs -> Stock!Calls], NEW ds \in SUBSET {f[c] : c \in cs},
         \A c \in cs : /\ f[c].live = c.live /\ f[c].account = c.account
                       /\ c.live => f[c] \in ds
  PROVE  Stock!Waits(ds, v)
  BY DEF Stock!Waits

LEMMA GcFetches == Stock!InventoryConstants => [gc |-> TRUE] # None
<1>1. [gc |-> TRUE] \in [gc : BOOLEAN]
  OBVIOUS
<1> QED BY <1>1 DEF Stock!InventoryConstants

LEMMA GetKeeps ==
  ASSUME Stock!InventoryConstants, Stock!Fetched, NEW c \in Stock!Calls, NEW rest, NEW v, Stock!Get(c, rest, v), c.account \in s4,
         rest \subseteq Stock!Calls, \A d \in rest : d.at = "old" => d.force,
         UNCHANGED <<s7, s8>>
  PROVE  /\ Stock!Fetched'
         /\ \A a \in Accounts : s9[a] # None => s9'[a] # None
         /\ \/ Stock!Serves(c.account, c.force) /\ s10' = rest /\ s11' = Stock!Shown(v, c, s7[c.account])
            \/ /\ s11' = v /\ s9'[c.account] # None
               /\ s10' = rest \cup (IF c.live THEN {[c EXCEPT !.at = "fetch", !.force = FALSE]} ELSE {})
<1>1. c.account \in Accounts /\ c.live \in BOOLEAN
  BY DEF Stock!Calls
<1>2. [gc |-> c.account \in s4] = [gc |-> TRUE]
  OBVIOUS
<1>3. [gc |-> TRUE] # None
  BY GcFetches
<1>4. CASE Stock!Serves(c.account, c.force)
  <2>1. s10' = rest /\ s11' = Stock!Shown(v, c, s7[c.account]) /\ s9' = s9
    BY <1>4 DEF Stock!Get
  <2> QED BY <2>1, <1>4 DEF Stock!Fetched
<1>5. CASE ~Stock!Serves(c.account, c.force)
  <2>1. /\ s10' = rest \cup Stock!Joined({c}) /\ s11' = v
        /\ s9' = [s9 EXCEPT ![c.account] = IF @ = None THEN [gc |-> TRUE] ELSE @]
    BY <1>5, <1>2 DEF Stock!Get
  <2>2. Stock!Joined({c}) = IF c.live THEN {[c EXCEPT !.at = "fetch", !.force = FALSE]} ELSE {}
    BY DEF Stock!Joined
  <2>3. \A d \in Stock!Joined({c}) : d.at # "old"
    BY <2>2, [c EXCEPT !.at = "fetch", !.force = FALSE].at = "fetch" DEF Stock!Calls
  <2>4. s9' \in [Accounts -> {None, [gc |-> TRUE]}] /\ s9'[c.account] # None
        /\ \A a \in Accounts : s9[a] # None => s9'[a] # None
    BY <2>1, <1>1, <1>3 DEF Stock!Fetched
  <2>5. Stock!Fetched'
    BY <2>1, <2>3, <2>4 DEF Stock!Fetched
  <2> QED BY <2>1, <2>2, <2>4, <2>5
<1> QED BY <1>4, <1>5

LEMMA PageGetsKeeps ==
  ASSUME Stock!InventoryConstants, Stock!InventoryInv, NEW v \in Stock!Views, NEW force \in BOOLEAN, Stock!PageGets(v, force),
         v.selected \in Accounts, v.items # None => v.loaded = v.selected,
         UNCHANGED <<s1, s2, s3, s4, s5, s7, s8>>
  PROVE  Stock!InventoryInv'
<1> DEFINE a == v.selected
           call == [account |-> a, live |-> TRUE, force |-> force, at |-> "gc"]
           asking == [v EXCEPT !.loading = TRUE, !.error = FALSE]
           here == Stock!Superseded(s10) \cup {call}
<1>1. call \in Stock!Calls
  BY DEF Stock!Calls
<1>2. asking \in Stock!Views /\ asking.loading /\ asking.selected = a /\ asking.items = v.items /\ asking.loaded = v.loaded
  BY DEF Stock!Views
<1>3. /\ s10 \subseteq Stock!Calls /\ Stock!Superseded(s10) \subseteq Stock!Calls
      /\ \A c \in Stock!Superseded(s10) : ~c.live /\ c.at = "gc" /\ c.account \in s6
  BY CallsLeft
<1>4. Stock!Waits(here, asking)
  <2>1. call.live /\ call.account = a
    OBVIOUS
  <2> HIDE DEF call, asking
  <2> QED BY <1>1, <1>2, <1>3, <2>1 DEF Stock!Waits
<1>5. Stock!Sessions'
  BY DEF Stock!InventoryInv, Stock!Sessions
<1>6. /\ Stock!Waits(Stock!Superseded(s10), Stock!Shown(asking, call, None))
      /\ Stock!Waits(Stock!Superseded(s10), Stock!Shown(asking, call, s7[a]))
  <2>1. None \in Stock!Whole /\ s7[a] \in Stock!Whole
    BY DEF Stock!InventoryInv, Stock!Fetched, Stock!Whole
  <2>2. call \in here /\ here \ {call} = Stock!Superseded(s10)
    BY <1>3
  <2> HIDE DEF here, call, asking
  <2> QED BY <1>4, <2>1, <2>2, ShownWaits
<1>7. CASE Stock!GcReady(a)
  <2>1. Stock!Get(call, Stock!Superseded(s10), asking) /\ s6' = s6
    BY <1>7 DEF Stock!PageGets
  <2>2. a \in s4
    BY <1>7 DEF Stock!GcReady, Stock!InventoryInv, Stock!Sessions
  <2>3. call.account = a /\ call.live
    OBVIOUS
  <2> HIDE DEF call, asking
  <2>4. /\ Stock!Fetched'
        /\ \A b \in Accounts : s9[b] # None => s9'[b] # None
        /\ \/ s10' = Stock!Superseded(s10) /\ s11' = Stock!Shown(asking, call, s7[a])
           \/ /\ s11' = asking /\ s9'[a] # None
              /\ s10' = Stock!Superseded(s10) \cup {[call EXCEPT !.at = "fetch", !.force = FALSE]}
    BY <1>1, <1>3, <2>1, <2>2, <2>3, GetKeeps DEF Stock!InventoryInv
  <2>5. CASE s10' = Stock!Superseded(s10) /\ s11' = Stock!Shown(asking, call, s7[a])
    BY <1>3, <1>5, <1>6, <2>1, <2>4, <2>5 DEF Stock!InventoryInv, Stock!Awaited
  <2>6. CASE /\ s11' = asking /\ s9'[a] # None
             /\ s10' = Stock!Superseded(s10) \cup {[call EXCEPT !.at = "fetch", !.force = FALSE]}
    <3> DEFINE moved == [call EXCEPT !.at = "fetch", !.force = FALSE]
    <3>1. moved \in Stock!Calls /\ moved.live /\ moved.account = a /\ moved.at = "fetch"
      BY <1>1, <2>3 DEF Stock!Calls
    <3> HIDE DEF moved
    <3>2. Stock!Waits(s10', s11')
      BY <1>2, <1>3, <2>6, <3>1 DEF Stock!Waits, moved
    <3>3. Stock!Awaited'
      BY <1>3, <2>1, <2>6, <3>1 DEF Stock!Awaited, moved
    <3> QED BY <1>5, <2>4, <3>2, <3>3 DEF Stock!InventoryInv
  <2> QED BY <2>4, <2>5, <2>6
<1>8. CASE ~Stock!GcReady(a)
  <2>1. s9' = s9
    BY <1>8 DEF Stock!PageGets
  <2>2. CASE a \in s1
    <3>1. s6' = s6 \cup {a} /\ s10' = here /\ s11' = asking
      BY <1>8, <2>2 DEF Stock!PageGets
    <3>2. \A c \in here : c.at = "gc" /\ c.account \in s6'
      BY <1>3, <3>1
    <3>3. Stock!Fetched' /\ Stock!Awaited'
      BY <2>1, <3>1, <3>2 DEF Stock!InventoryInv, Stock!Fetched, Stock!Awaited
    <3> QED BY <1>4, <1>5, <3>1, <3>3 DEF Stock!InventoryInv
  <2>3. CASE a \notin s1
    <3>1. s6' = s6 /\ s10' = Stock!Superseded(s10) /\ s11' = Stock!Shown(asking, call, None)
      BY <1>8, <2>3 DEF Stock!PageGets
    <3>2. Stock!Fetched' /\ Stock!Awaited'
      BY <1>3, <2>1, <3>1 DEF Stock!InventoryInv, Stock!Fetched, Stock!Awaited
    <3> QED BY <1>5, <1>6, <3>1, <3>2 DEF Stock!InventoryInv
  <2> QED BY <2>2, <2>3
<1> QED BY <1>7, <1>8

LEMMA ReadyViews ==
  ASSUME NEW cs, NEW v, Stock!Waits(cs, v), NEW a \in Accounts \cup {Nobody}
  PROVE  /\ Stock!Ready(v, a) \in Stock!Views /\ Stock!Ready(v, a).selected = a
         /\ Stock!Ready(v, a).items # None => Stock!Ready(v, a).loaded = a
         /\ v.selected = a => Stock!Ready(v, a) = v
         /\ v.selected # a => Stock!Ready(v, a) = Stock!Cleared(a)
  BY DEF Stock!Ready, Stock!Waits, Stock!Views, Stock!Cleared, Stock!Whole

LEMMA StockStays == Stock!InventoryConstants /\ Stock!InventoryInv /\ [Stock!InventoryNext]_Stock!inventoryVars => Stock!InventoryInv'
<1> SUFFICES ASSUME Stock!InventoryConstants, Stock!InventoryInv, [Stock!InventoryNext]_Stock!inventoryVars PROVE Stock!InventoryInv'
  OBVIOUS
<1>0. /\ s10 \subseteq Stock!Calls /\ s11 \in Stock!Views /\ None \in Stock!Whole
      /\ Stock!OfGc \in Stock!Whole /\ Stock!Community(TRUE) \in Stock!Whole
  BY DEF Stock!InventoryInv, Stock!Waits, Stock!Whole, Stock!Snapshots, Stock!OfGc, Stock!Community
<1>1. ASSUME NEW force \in BOOLEAN, Stock!RefreshInventory(force) PROVE Stock!InventoryInv'
  <2>1. Stock!Selection \in Accounts \cup {Nobody}
    BY DEF Stock!Selection, Stock!InventoryInv, Stock!Sessions
  <2>2. CASE Stock!Selection = Nobody
    <3>1. /\ s11' = Stock!Cleared(Nobody) /\ s10' = Stock!Superseded(s10)
          /\ UNCHANGED <<s6, s9, s1, s2, s3, s4, s5, s7, s8>>
      BY <1>1, <2>2 DEF Stock!RefreshInventory
    <3>2. /\ s10' \subseteq Stock!Calls
          /\ \A c \in s10' : ~c.live /\ c.at = "gc" /\ c.account \in s6
      BY <3>1, CallsLeft
    <3>3. Stock!Waits(s10', s11')
      BY <1>0, <3>1, <3>2 DEF Stock!Waits, Stock!Cleared, Stock!Views
    <3> QED BY <3>1, <3>2, <3>3 DEF Stock!InventoryInv, Stock!Sessions, Stock!Fetched, Stock!Awaited
  <2>3. CASE Stock!Selection # Nobody
    <3>1. /\ Stock!PageGets(Stock!Ready(s11, Stock!Selection), force)
          /\ UNCHANGED <<s1, s2, s3, s4, s5, s7, s8>>
      BY <1>1, <2>3 DEF Stock!RefreshInventory
    <3> QED BY <2>1, <2>3, <3>1, ReadyViews, PageGetsKeeps DEF Stock!InventoryInv
  <2> QED BY <2>2, <2>3
<1>2. ASSUME NEW a \in Accounts, Stock!SelectAccount(a) PROVE Stock!InventoryInv'
  <2> DEFINE v == Stock!Ready(s11, a)
  <2>1. /\ v \in Stock!Views /\ v.selected = a /\ (v.items # None => v.loaded = a)
        /\ (s11.selected = a => v = s11) /\ (s11.selected # a => v = Stock!Cleared(a))
    BY ReadyViews DEF Stock!InventoryInv
  <2>2. UNCHANGED <<s1, s2, s3, s4, s5, s7, s8>>
    BY <1>2 DEF Stock!SelectAccount
  <2>3. CASE v.loading \/ (v.loaded = a /\ ~v.error)
    <3>1. s11' = v /\ UNCHANGED <<s6, s10, s9>>
      BY <1>2, <2>3 DEF Stock!SelectAccount
    <3>2. s11.selected = a
      BY <2>1, <2>3 DEF Stock!Cleared, Stock!InventoryConstants
    <3> QED BY <2>1, <2>2, <3>1, <3>2 DEF Stock!InventoryInv, Stock!Sessions, Stock!Fetched, Stock!Awaited
  <2>4. CASE ~(v.loading \/ (v.loaded = a /\ ~v.error))
    <3>1. Stock!PageGets(v, FALSE)
      BY <1>2, <2>4 DEF Stock!SelectAccount
    <3> HIDE DEF v
    <3> QED BY <2>1, <2>2, <3>1, PageGetsKeeps
  <2> QED BY <2>3, <2>4
<1>3. ASSUME NEW a \in Accounts, Stock!TerminalOpens(a) PROVE Stock!InventoryInv'
  BY <1>3 DEF Stock!TerminalOpens, Stock!InventoryInv, Stock!Sessions, Stock!Fetched, Stock!Awaited
<1>4. ASSUME NEW a \in Accounts, Stock!TerminalAsks(a) PROVE Stock!InventoryInv'
  <2> DEFINE c == [account |-> a, live |-> FALSE, force |-> FALSE, at |-> "fetch"]
  <2>1. /\ Stock!Get(c, s10, s11) /\ s5' = s5 \ {a} /\ a \in s5
        /\ UNCHANGED <<s1, s2, s3, s4, s6, s7, s8>>
    BY <1>4 DEF Stock!TerminalAsks
  <2>2. c \in Stock!Calls /\ c.account = a /\ ~c.live
    BY DEF Stock!Calls
  <2>3. a \in s4 /\ Stock!Sessions'
    BY <2>1 DEF Stock!InventoryInv, Stock!Sessions
  <2>4. Stock!Shown(s11, c, s7[a]) = s11
    BY <2>2 DEF Stock!Shown
  <2> HIDE DEF c
  <2>5. /\ Stock!Fetched' /\ s10' = s10 /\ s11' = s11
        /\ \A b \in Accounts : s9[b] # None => s9'[b] # None
    <3>1. Stock!Fetched /\ \A d \in s10 : d.at = "old" => d.force
      BY DEF Stock!InventoryInv, Stock!Fetched
    <3>2. s10 \subseteq Stock!Calls /\ c.account \in s4
      BY <1>0, <2>2, <2>3
    <3>3. /\ Stock!Fetched' /\ \A b \in Accounts : s9[b] # None => s9'[b] # None
          /\ \/ s10' = s10 /\ s11' = Stock!Shown(s11, c, s7[c.account])
             \/ /\ s11' = s11
                /\ s10' = s10 \cup (IF c.live THEN {[c EXCEPT !.at = "fetch", !.force = FALSE]} ELSE {})
      BY <2>1, <2>2, <3>1, <3>2, GetKeeps
    <3> QED BY <2>2, <2>4, <3>3
  <2> QED BY <1>0, <2>1, <2>3, <2>5 DEF Stock!InventoryInv, Stock!Awaited, Stock!Calls
<1>5. ASSUME NEW a \in Accounts, Stock!GcConnects(a) PROVE Stock!InventoryInv'
  <2> DEFINE waited == {c \in s10 : c.account = a /\ c.at = "gc"}
  <2>1. /\ a \in s1 /\ s3' = [s3 EXCEPT ![a] = TRUE] /\ s4' = s4 \cup {a}
        /\ s7' = [s7 EXCEPT ![a] = Stock!FromGc(a)] /\ s6' = s6 \ {a}
        /\ s10' = (s10 \ waited) \cup Stock!Joined(waited)
        /\ s9' = [s9 EXCEPT ![a] = IF waited # {} /\ @ = None THEN [gc |-> TRUE] ELSE @]
        /\ UNCHANGED <<s1, s2, s5, s8, s11>>
    BY <1>5 DEF Stock!GcConnects
  <2> DEFINE f == [c \in s10 |-> IF c \in waited THEN [c EXCEPT !.at = "fetch", !.force = FALSE] ELSE c]
  <2>2. f \in [s10 -> Stock!Calls] /\ \A c \in s10 : f[c].live = c.live /\ f[c].account = c.account
    <3>1. \A c \in Stock!Calls : LET d == [c EXCEPT !.at = "fetch", !.force = FALSE]
                                 IN  d \in Stock!Calls /\ d.live = c.live /\ d.account = c.account
      BY DEF Stock!Calls
    <3> HIDE DEF waited
    <3> QED BY <1>0, <3>1
  <2>3. s10' \subseteq {f[c] : c \in s10} /\ \A c \in s10 : c.live => f[c] \in s10'
    BY <2>1 DEF Stock!Joined
  <2>4. \A d \in Stock!Joined(waited) : d.at = "fetch" /\ d.account = a
    BY <1>0 DEF Stock!Joined, Stock!Calls
  <2>5. Stock!Waits(s10', s11')
    <3> HIDE DEF f, waited
    <3> QED BY <2>1, <2>2, <2>3, MovedWaits DEF Stock!InventoryInv
  <2>6. Stock!Sessions'
    BY <2>1 DEF Stock!InventoryInv, Stock!Sessions
  <2>7. Stock!FromGc(a) \in Stock!Whole
    BY <1>0 DEF Stock!FromGc, Stock!InventoryInv, Stock!Fetched
  <2>8. s9' \in [Accounts -> {None, [gc |-> TRUE]}]
    BY <2>1 DEF Stock!InventoryInv, Stock!Fetched
  <2>9. Stock!Fetched'
    BY <2>1, <2>4, <2>7, <2>8 DEF Stock!InventoryInv, Stock!Fetched
  <2>10. \A b \in Accounts : s9[b] # None \/ (b = a /\ waited # {}) => s9'[b] # None
    BY <2>1, GcFetches DEF Stock!InventoryInv, Stock!Fetched
  <2>11. Stock!Joined(waited) # {} => waited # {}
    BY DEF Stock!Joined
  <2>12. ASSUME NEW c \in s10' PROVE (c.at = "gc" => c.account \in s6') /\ (c.at = "fetch" => s9'[c.account] # None)
    <3>1. CASE c \in s10 \ waited
      <4>1. c \in s10 /\ c.account \in Accounts /\ (c.at = "gc" => c.account # a)
        BY <1>0, <3>1 DEF Stock!Calls
      <4>2. (c.at = "gc" => c.account \in s6) /\ (c.at = "fetch" => s9[c.account] # None)
        BY <4>1 DEF Stock!InventoryInv, Stock!Awaited
      <4> QED BY <2>1, <2>10, <4>1, <4>2
    <3>2. CASE c \in Stock!Joined(waited)
      BY <2>4, <2>10, <2>11, <3>2
    <3> QED BY <2>1, <3>1, <3>2
  <2> QED BY <2>5, <2>6, <2>9, <2>12 DEF Stock!InventoryInv, Stock!Awaited
<1>6. ASSUME NEW a \in Accounts, Stock!GcFails(a) PROVE Stock!InventoryInv'
  <2> DEFINE waited == {c \in s10 : c.account = a /\ c.at = "gc"}
  <2>1. /\ s6' = s6 \ {a} /\ s10' = s10 \ waited /\ s11' = Stock!ShownAll(s11, waited, None)
        /\ UNCHANGED <<s1, s2, s3, s4, s5, s7, s8, s9>>
    BY <1>6 DEF Stock!GcFails
  <2>2. Stock!Waits(s10', s11')
    BY <1>0, <2>1, ShownAllWaits DEF Stock!InventoryInv
  <2> QED BY <2>1, <2>2 DEF Stock!InventoryInv, Stock!Sessions, Stock!Fetched, Stock!Awaited
<1>7. ASSUME NEW a \in Accounts, Stock!GcDisconnects(a) PROVE Stock!InventoryInv'
  BY <1>7 DEF Stock!GcDisconnects, Stock!InventoryInv, Stock!Sessions, Stock!Fetched, Stock!Awaited
<1>8. ASSUME NEW a \in Accounts, Stock!GcItemsChange(a) PROVE Stock!InventoryInv'
  <2>1. Stock!FromGc(a) \in Stock!Whole
    BY <1>0 DEF Stock!FromGc, Stock!InventoryInv, Stock!Fetched
  <2> QED BY <1>8, <2>1 DEF Stock!GcItemsChange, Stock!InventoryInv, Stock!Sessions, Stock!Fetched, Stock!Awaited
<1>9. ASSUME NEW a \in Accounts, Stock!FetchEnds(a) PROVE Stock!InventoryInv'
  <2> DEFINE joined == {c \in s10 : c.account = a /\ c.at = "fetch"}
  <2>1. PICK snapshot \in {Stock!Community(s9[a].gc), Stock!OfGc, None} :
          /\ s7' = [s7 EXCEPT ![a] = IF snapshot = None THEN @ ELSE snapshot]
          /\ s8' = [s8 EXCEPT ![a] = snapshot = None \/ snapshot = Stock!OfGc]
          /\ s11' = Stock!ShownAll(s11, joined, snapshot)
    BY <1>9 DEF Stock!FetchEnds
  <2>2. /\ s9[a] # None /\ s9' = [s9 EXCEPT ![a] = None]
        /\ s10' = s10 \ joined /\ UNCHANGED <<s1, s2, s3, s4, s5, s6>>
    BY <1>9 DEF Stock!FetchEnds
  <2>3. s9[a].gc = TRUE
    BY <2>2 DEF Stock!InventoryInv, Stock!Fetched
  <2>4. snapshot \in Stock!Whole
    BY <1>0, <2>1, <2>3
  <2>5. Stock!Waits(s10', s11')
    BY <2>1, <2>2, <2>4, ShownAllWaits DEF Stock!InventoryInv
  <2>6. Stock!Fetched'
    BY <2>1, <2>2, <2>4 DEF Stock!InventoryInv, Stock!Fetched
  <2>7. Stock!Awaited' /\ Stock!Sessions'
    BY <1>0, <2>2 DEF Stock!InventoryInv, Stock!Awaited, Stock!Sessions, Stock!Calls, Stock!Fetched
  <2> QED BY <2>5, <2>6, <2>7 DEF Stock!InventoryInv
<1>10. ASSUME NEW a \in Accounts, Stock!CacheAges(a) PROVE Stock!InventoryInv'
  <2>1. [s7[a] EXCEPT !.fresh = FALSE] \in Stock!Whole
    BY <1>10 DEF Stock!CacheAges, Stock!InventoryInv, Stock!Fetched, Stock!Whole, Stock!Snapshots
  <2>2. s7' \in [Accounts -> Stock!Whole]
    BY <1>10, <2>1 DEF Stock!CacheAges, Stock!InventoryInv, Stock!Fetched
  <2> QED BY <1>10, <2>2 DEF Stock!CacheAges, Stock!InventoryInv, Stock!Sessions, Stock!Fetched, Stock!Awaited
<1>11. ASSUME NEW a \in Accounts, Stock!CoolingEnds(a) PROVE Stock!InventoryInv'
  BY <1>11 DEF Stock!CoolingEnds, Stock!InventoryInv, Stock!Sessions, Stock!Fetched, Stock!Awaited
<1>12. ASSUME NEW a \in Accounts, Stock!SessionBreaks(a) PROVE Stock!InventoryInv'
  BY <1>12 DEF Stock!SessionBreaks, Stock!InventoryInv, Stock!Sessions, Stock!Fetched, Stock!Awaited
<1>13. ASSUME NEW a \in Accounts, Stock!SessionBack(a) PROVE Stock!InventoryInv'
  BY <1>13 DEF Stock!SessionBack, Stock!InventoryInv, Stock!Sessions, Stock!Fetched, Stock!Awaited
<1>14. ASSUME NEW a \in Accounts, Stock!LogOut(a) \/ Stock!LogIn(a) PROVE Stock!InventoryInv'
  <2> DEFINE detached(c) == IF c.account = a /\ c.at = "fetch" THEN [c EXCEPT !.at = "old", !.force = s9[a].gc] ELSE c
             gone(c) == IF Stock!LogIn(a) /\ c.account = a /\ c.at = "gc" THEN [c EXCEPT !.at = "vain"] ELSE c
             f == [c \in s10 |-> gone(detached(c))]
  <2>1. /\ s7' = [s7 EXCEPT ![a] = None] /\ s8' = [s8 EXCEPT ![a] = FALSE]
        /\ s9' = [s9 EXCEPT ![a] = None] /\ s11' = s11
    BY <1>14 DEF Stock!LogOut, Stock!LogIn
  <2>2. ASSUME NEW c \in s10 PROVE s9[c.account] = None \/ s9[c.account].gc = TRUE
    BY <1>0 DEF Stock!InventoryInv, Stock!Fetched, Stock!Calls
  <2>3. ASSUME NEW c \in s10
        PROVE  /\ f[c] \in Stock!Calls /\ f[c].live = c.live /\ f[c].account = c.account
               /\ f[c].at = "old" => f[c].force
               /\ f[c].at = "gc" => c.at = "gc" /\ ~(Stock!LogIn(a) /\ c.account = a)
               /\ f[c].at = "fetch" => c.at = "fetch" /\ c.account # a
    <3>0. c \in Stock!Calls /\ (c.at = "old" => c.force)
      BY <1>0 DEF Stock!InventoryInv, Stock!Fetched
    <3>1. CASE c.account = a /\ c.at = "fetch"
      <4>1. s9[a].gc = TRUE
        BY <2>2, <3>1 DEF Stock!InventoryInv, Stock!Awaited
      <4>2. f[c] = [c EXCEPT !.at = "old", !.force = TRUE]
        BY <3>0, <3>1, <4>1 DEF Stock!Calls
      <4> QED BY <3>0, <3>1, <4>2 DEF Stock!Calls
    <3>2. CASE ~(c.account = a /\ c.at = "fetch")
      <4>1. f[c] = gone(c)
        BY <3>2
      <4> QED BY <3>0, <3>2, <4>1 DEF Stock!Calls
    <3> QED BY <3>1, <3>2
  <2>4. f \in [s10 -> Stock!Calls] /\ s10' = {f[c] : c \in s10}
    <3>1. f \in [s10 -> Stock!Calls]
      BY <2>3
    <3>2. Stock!Detached(a) = {detached(c) : c \in s10}
      BY DEF Stock!Detached
    <3>3. CASE Stock!LogIn(a)
      <4>1. s10' = {gone(d) : d \in Stock!Detached(a)}
        BY <3>3 DEF Stock!LogIn
      <4> HIDE DEF gone, detached
      <4>2. \A c \in s10 : f[c] = gone(detached(c))
        OBVIOUS
      <4> HIDE DEF f
      <4> QED BY <3>1, <3>2, <4>1, <4>2
    <3>4. CASE Stock!LogOut(a) /\ ~Stock!LogIn(a)
      <4>1. s10' = Stock!Detached(a)
        BY <3>4 DEF Stock!LogOut
      <4>2. \A c \in s10 : gone(detached(c)) = detached(c)
        BY <3>4
      <4> HIDE DEF gone, detached
      <4>3. \A c \in s10 : f[c] = gone(detached(c))
        OBVIOUS
      <4> HIDE DEF f
      <4> QED BY <3>1, <3>2, <4>1, <4>2, <4>3
    <3> QED BY <1>14, <3>1, <3>3, <3>4
  <2> HIDE DEF f
  <2>5. Stock!Waits(s10', s11')
    BY <2>1, <2>3, <2>4, MovedWaits DEF Stock!InventoryInv
  <2>6. Stock!Fetched'
    <3>1. s7' \in [Accounts -> Stock!Whole] /\ s9' \in [Accounts -> {None, [gc |-> TRUE]}] /\ s8' \in [Accounts -> BOOLEAN]
      BY <1>0, <2>1 DEF Stock!InventoryInv, Stock!Fetched
    <3> QED BY <2>3, <2>4, <3>1 DEF Stock!Fetched
  <2>7. Stock!Sessions'
    BY <1>14 DEF Stock!LogIn, Stock!LogOut, Stock!InventoryInv, Stock!Sessions
  <2>8. s6' = IF Stock!LogIn(a) THEN s6 \ {a} ELSE s6
    BY <1>14 DEF Stock!LogIn, Stock!LogOut
  <2>9. Stock!Awaited'
    <3>1. ASSUME NEW c \in s10 PROVE (f[c].at = "gc" => c.account \in s6') /\ (f[c].at = "fetch" => s9'[c.account] # None)
      <4>1. c.account \in Accounts
        BY <1>0 DEF Stock!Calls
      <4>2. (c.at = "gc" => c.account \in s6) /\ (c.at = "fetch" => s9[c.account] # None)
        BY DEF Stock!InventoryInv, Stock!Awaited
      <4>3. \A b \in Accounts : b # a => s9'[b] = s9[b]
        BY <2>1 DEF Stock!InventoryInv, Stock!Fetched
      <4> QED BY <2>3, <2>8, <4>1, <4>2, <4>3
    <3> QED BY <2>3, <2>4, <3>1 DEF Stock!Awaited
  <2> QED BY <2>5, <2>6, <2>7, <2>9 DEF Stock!InventoryInv
<1>15. ASSUME NEW c \in s10, Stock!OldEnds(c) PROVE Stock!InventoryInv'
  <2>1. PICK snapshot \in {None} \cup (IF c.at = "old" THEN {Stock!Community(c.force)} ELSE {}) : s11' = Stock!Shown(s11, c, snapshot)
    BY <1>15 DEF Stock!OldEnds
  <2>2. s10' = s10 \ {c} /\ UNCHANGED <<s1, s2, s3, s4, s5, s6, s7, s8, s9>>
    BY <1>15 DEF Stock!OldEnds
  <2>3. c.at = "old" => c.force = TRUE
    BY <1>0 DEF Stock!InventoryInv, Stock!Fetched, Stock!Calls
  <2>4. snapshot \in Stock!Whole
    BY <1>0, <2>1, <2>3
  <2>5. Stock!Waits(s10', s11')
    BY <2>1, <2>2, <2>4, ShownWaits DEF Stock!InventoryInv
  <2> QED BY <2>2, <2>5 DEF Stock!InventoryInv, Stock!Sessions, Stock!Fetched, Stock!Awaited
<1>16. CASE UNCHANGED Stock!inventoryVars
  BY <1>16 DEF Stock!inventoryVars, Stock!InventoryInv, Stock!Sessions, Stock!Fetched, Stock!Awaited
<1> QED
  BY <1>1, <1>2, <1>3, <1>4, <1>5, <1>6, <1>7, <1>8, <1>9, <1>10, <1>11, <1>12, <1>13, <1>14, <1>15, <1>16 DEF Stock!InventoryNext

\* The page shows the items of the selected account, with the coordinator's data,
\* and whatever waits for a reply will have one, for any accounts.
THEOREM InventoryIsKept ==
  ASSUME Stock!InventoryConstants
  PROVE  Stock!InventorySpec => []Stock!InventoryKept
<1>1. Stock!InventoryInit => Stock!InventoryInv
  BY StockStarts
<1>2. Stock!InventoryInv /\ [Stock!InventoryNext]_Stock!inventoryVars => Stock!InventoryInv'
  BY StockStays
<1>3. Stock!InventoryInv => Stock!InventoryKept
  BY StockKept
<1> QED BY <1>1, <1>2, <1>3, PTL DEF Stock!InventorySpec

-----------------------------------------------------------------------------
(* All of it, one part at work in each behaviour. *)

PoolBounded == PoolTyped /\ member \subseteq Accounts /\ edits \in 0..MaxEdits

LEMMA PoolStays == PoolBounded /\ [ProxyNext]_proxyVars => PoolBounded'
<1> SUFFICES ASSUME PoolBounded, [ProxyNext]_proxyVars PROVE PoolBounded'
  OBVIOUS
<1>0. PoolTyped /\ PoolTyped' /\ MaxEdits \in Nat
  BY NextTyped, ProxyConstants DEF PoolBounded
<1>1. CASE Edits
  <2>1. edits < MaxEdits /\ edits' = edits + 1 /\ member' = member
    BY <1>1 DEF Edits, Save
  <2> QED BY <1>0, <2>1 DEF PoolBounded
<1>2. CASE \E a \in Accounts : Request(a)
  BY <1>0, <1>2 DEF Request, PoolBounded
<1>3. CASE Unassigning
  <2>1. /\ edits' = edits \/ (edits < MaxEdits /\ edits' = edits + 1)
        /\ member' \subseteq Accounts
    BY <1>3 DEF Unassigning, MoveAccount, Test, CheckEnds, SaveTimerFires, PoolBounded
  <2> QED BY <1>0, <2>1 DEF PoolBounded
<1>4. CASE ProxyRestart \/ UNCHANGED proxyVars
  BY <1>0, <1>4 DEF ProxyRestart, proxyVars, PoolBounded
<1> QED BY <1>0, <1>1, <1>2, <1>3, <1>4, StepsSorted

LEMMA PoolTypes == PoolBounded => ProxyTypeOK
  BY DEF PoolBounded, PoolTyped, PoolSaved, Proper, ProxyTypeOK

\* What is written, pending or lost of a day was made on it.
UsageBounded ==
  /\ Counters /\ prunedDay \in Days \cup {NoDay}
  /\ \A d \in Days : usage[d] + pending[d] + dropped[d] <= made[d] /\ made[d] <= MaxRequests

LEMMA UsageStays == UsageBounded /\ [UsageNext]_usageVars => UsageBounded'
<1> SUFFICES ASSUME UsageBounded, [UsageNext]_usageVars PROVE UsageBounded'
  OBVIOUS
<1>0. Counters /\ Counters' /\ MaxRequests \in Nat
  BY CountersStep, UsageConstants DEF UsageBounded
<1> DEFINE Within(d) == usage[d] + pending[d] + dropped[d] <= made[d] /\ made[d] <= MaxRequests
<1>1. CASE Record
  <2>1. /\ \A d \in Days : \/ pending'[d] = pending[d] /\ made'[d] = made[d]
                           \/ pending'[d] = pending[d] + 1 /\ made'[d] = made[d] + 1 /\ made[d] < MaxRequests
        /\ UNCHANGED <<usage, dropped, prunedDay>>
    BY <1>0, <1>1 DEF Record, Counters
  <2> QED BY <1>0, <2>1 DEF UsageBounded, Counters
<1>2. CASE Flush
  <2>1. pending' = Zero /\ made' = made /\ prunedDay' \in Days \cup {NoDay}
    BY <1>0, <1>2 DEF Flush, UsageBounded, Counters
  <2>2. ASSUME NEW d \in Days
        PROVE  \/ usage'[d] = usage[d] + pending[d] /\ dropped'[d] = dropped[d]
               \/ usage'[d] = 0 /\ dropped'[d] = dropped[d]
               \/ usage'[d] = usage[d] /\ dropped'[d] = dropped[d] + pending[d]
    BY <1>0, <1>2, Sums DEF Flush, Pruned, Counters
  <2>3. ASSUME NEW d \in Days PROVE Within(d)'
    <3>1. /\ usage[d] \in Nat /\ pending[d] \in Nat /\ dropped[d] \in Nat /\ made[d] \in Nat
          /\ usage[d] + pending[d] + dropped[d] <= made[d] /\ made[d] <= MaxRequests
      BY DEF UsageBounded, Counters
    <3>2. pending'[d] = 0 /\ made'[d] = made[d]
      BY <2>1 DEF Zero
    <3> QED BY <1>0, <2>2, <3>1, <3>2
  <2> QED BY <1>0, <2>1, <2>3 DEF UsageBounded
<1>3. CASE MeterCrash
  <2>1. pending' = Zero /\ dropped' = Plus(dropped, pending) /\ prunedDay' = NoDay /\ UNCHANGED <<usage, made>>
    BY <1>3 DEF MeterCrash
  <2>2. ASSUME NEW d \in Days PROVE Within(d)'
    BY <1>0, <2>1, Sums DEF UsageBounded, Counters
  <2> QED BY <1>0, <2>1, <2>2 DEF UsageBounded
<1>4. CASE NextDay \/ UNCHANGED usageVars
  BY <1>0, <1>4 DEF NextDay, usageVars, UsageBounded
<1> QED BY <1>1, <1>2, <1>3, <1>4 DEF UsageNext

LEMMA UsageTypes == UsageBounded => UsageTypeOK
<1> SUFFICES ASSUME UsageBounded PROVE UsageTypeOK
  OBVIOUS
<1>1. ASSUME NEW f \in {pending, usage, made, dropped} PROVE f \in [Days -> 0..MaxRequests]
  <2>1. f \in [Days -> Nat]
    BY <1>1 DEF UsageBounded, Counters
  <2>2. ASSUME NEW d \in Days PROVE f[d] \in 0..MaxRequests
    BY <1>1, <2>1, UsageConstants DEF UsageBounded, Counters
  <2> QED BY <2>1, <2>2
<1> QED BY <1>1 DEF UsageBounded, Counters, UsageTypeOK

\* Cookies are of tokens that were issued, and a count that reaches what is allowed
\* of all addresses locks, as that of one does.
LoginTyped ==
  /\ SessionsInv /\ GuessesInv /\ fileCred <= MaxSets
  /\ cookie \in [Browsers -> Nat] /\ \A b \in Browsers : cookie[b] <= Len(issued)
  /\ globalFails \in [count : 0..MAX_FAILS_GLOBAL - 1, firstAt : Int, lockedUntil : Int]

LEMMA CountedType ==
  ASSUME at \in Nat, NEW max \in Nat \ {0}, NEW e \in [count : 0..max - 1, firstAt : Int, lockedUntil : Int]
  PROVE  Counted(e, max) \in [count : 0..max - 1, firstAt : Int, lockedUntil : Int]
<1> DEFINE Fails == [count : 0..max - 1, firstAt : Int, lockedUntil : Int]
           bumped == bumpWindow(e)
<1>1. bumped \in Fails
  <2>1. [e EXCEPT !.count = 0, !.firstAt = at] \in Fails
    <3>1. 0 \in 0..max - 1 /\ at \in Int
      OBVIOUS
    <3> QED BY <3>1
  <2> QED BY <2>1 DEF bumpWindow
<1>2. bumped.count \in 0..max - 1 /\ at + LOCK \in Int /\ 0 \in 0..max - 1
  BY <1>1, LoginConstants DEF LoginConstants
<1>3. Counted(e, max) = IF bumped.count + 1 >= max THEN [bumped EXCEPT !.count = 0, !.lockedUntil = at + LOCK]
                        ELSE [bumped EXCEPT !.count = @ + 1]
  BY DEF Counted
<1> HIDE DEF bumped
<1>4. CASE bumped.count + 1 >= max
  BY <1>1, <1>2, <1>3, <1>4
<1>5. CASE ~(bumped.count + 1 >= max)
  <2>1. bumped.count + 1 \in 0..max - 1
    BY <1>2, <1>5
  <2> QED BY <1>1, <1>3, <1>5, <2>1
<1> QED BY <1>4, <1>5

LEMMA LoginStays == LoginTyped /\ [LoginNext]_loginVars => LoginTyped'
<1> SUFFICES ASSUME LoginTyped, [LoginNext]_loginVars PROVE LoginTyped'
  OBVIOUS
<1>0. /\ SessionsInv' /\ GuessesInv' /\ fileCred \in Nat /\ Len(issued) \in Nat /\ at \in Nat /\ issued \in Seq(Nat)
      /\ MAX_FAILS_GLOBAL \in Nat \ {0} /\ MaxSets \in Nat
  <2>1. SessionsInv' /\ GuessesInv'
    BY SessionsStep, GuessesStep DEF LoginTyped
  <2>2. fileCred \in Nat /\ at \in Nat /\ issued \in Seq(Nat)
    BY DEF LoginTyped, SessionsInv, GuessesInv
  <2>3. MAX_FAILS_GLOBAL \in Nat \ {0} /\ MaxSets \in Nat
    BY LoginConstants DEF LoginConstants
  <2> QED BY <2>1, <2>2, <2>3
<1>1. ASSUME NEW b \in Browsers, NEW kept, issueToken(b, kept)
      PROVE  cookie' \in [Browsers -> Nat] /\ \A x \in Browsers : cookie'[x] <= Len(issued')
  <2>1. cookie' = [cookie EXCEPT ![b] = Len(issued) + 1] /\ \E p : issued' = Append(issued, p)
    BY <1>1 DEF issueToken
  <2>2. Len(issued') = Len(issued) + 1
    BY <1>0, <2>1
  <2> QED BY <1>0, <2>1, <2>2 DEF LoginTyped
<1>2. persistPassword => fileCred' <= MaxSets
  BY <1>0 DEF persistPassword
<1>3. ASSUME NEW b \in Browsers, recordFailure(b)
      PROVE  globalFails' \in [count : 0..MAX_FAILS_GLOBAL - 1, firstAt : Int, lockedUntil : Int]
  BY <1>0, <1>3, CountedType DEF recordFailure, LoginTyped
<1>4. ASSUME NEW b \in Browsers, Login(b) \/ Setup(b) PROVE LoginTyped'
  BY <1>0, <1>1, <1>2, <1>4 DEF Login, Setup, Cleared, credVars, LoginTyped
<1>5. ASSUME NEW b \in Browsers, LoginWrong(b) \/ SetupWrong(b) \/ ChangeWrong(b) PROVE LoginTyped'
  BY <1>0, <1>3, <1>5 DEF LoginWrong, SetupWrong, ChangeWrong, credVars, LoginTyped
<1>6. ASSUME NEW b \in Browsers, ChangePassword(b) PROVE LoginTyped'
  BY <1>0, <1>1, <1>2, <1>6 DEF ChangePassword, lockVars, LoginTyped
<1>7. ASSUME NEW b \in Browsers, Logout(b) PROVE LoginTyped'
  BY <1>0, <1>7 DEF Logout, lockVars, credVars, LoginTyped
<1>8. CASE Passes \/ UNCHANGED loginVars
  BY <1>0, <1>8 DEF Passes, loginVars, lockVars, credVars, LoginTyped
<1>9. CASE LoginRestart
  <2>1. fileCred' = fileCred /\ globalFails' = NoFails /\ UNCHANGED <<cookie, issued>>
    BY <1>9 DEF LoginRestart, LoginTyped, SessionsInv, OnlyCurrentSessions
  <2>2. NoFails \in [count : 0..MAX_FAILS_GLOBAL - 1, firstAt : Int, lockedUntil : Int]
    BY <1>0 DEF NoFails
  <2> QED BY <1>0, <2>1, <2>2 DEF LoginTyped
<1> QED BY <1>4, <1>5, <1>6, <1>7, <1>8, <1>9 DEF LoginNext

LEMMA LoginTypes == LoginTyped => LoginTypeOK
<1> SUFFICES ASSUME LoginTyped PROVE LoginTypeOK
  OBVIOUS
<1>1. Len(issued) \in Nat /\ fileCred \in 0..MaxSets /\ authFile = fileCred
  BY LoginConstants DEF LoginConstants, LoginTyped, SessionsInv, OnlyCurrentSessions
<1>2. \A b \in Browsers : cookie[b] \in 0..Len(issued) /\ failsByIp[b].count < MAX_FAILS_PER_IP
  <2> SUFFICES ASSUME NEW b \in Browsers PROVE cookie[b] \in 0..Len(issued) /\ failsByIp[b].count < MAX_FAILS_PER_IP
    OBVIOUS
  <2>1. cookie[b] \in Nat /\ cookie[b] <= Len(issued)
    BY DEF LoginTyped
  <2>2. failsByIp[b].count \in 0..MAX_FAILS_PER_IP - 1 /\ MAX_FAILS_PER_IP \in Nat
    BY LoginConstants DEF LoginConstants, LoginTyped, GuessesInv, FailType
  <2> QED BY <1>1, <2>1, <2>2
<1>3. globalFails.count < MAX_FAILS_GLOBAL
  BY LoginConstants DEF LoginConstants, LoginTyped
<1> QED BY <1>1, <1>2, <1>3 DEF LoginTyped, SessionsInv, LoginTypeOK

\* The update, over the variables it has here.
Runs == [at : {"idle", "begin", "git", "pull", "up", "restart"}, by : {"none", "systemd", "hand"}, old : BOOLEAN]
Written == [state : {"idle", "running", "done", "failed"}, step : {"", "git", "pull", "up", "restart"},
            old : BOOLEAN, stale : BOOLEAN]
Told == {"idle", "pending", "running", "done", "failed"}
Pages == [state : Told, stale : BOOLEAN, loaded : BOOLEAN, unreachable : BOOLEAN, finished : BOOLEAN]
UpdateInv ==
  /\ s1 \in {"none", "new", "stale"} /\ s2 \in Runs /\ s3 \in Written
  /\ s4 \in BOOLEAN /\ s5 \in {"none", "timer"} /\ s6 \in Pages

LEMMA UpdateStarts == Update!UpdateInit => UpdateInv
<1> SUFFICES ASSUME Update!UpdateInit PROVE UpdateInv
  OBVIOUS
<1>1. Update!NoStatus \in Written /\ [Update!NoStatus EXCEPT !.state = "done"] \in Written
  BY DEF Update!NoStatus, Written
<1>2. s3 \in Written
  BY <1>1 DEF Update!UpdateInit
<1>3. Update!NoRun \in Runs /\ Update!NotShown \in Pages
  BY DEF Update!NoRun, Update!NotShown, Runs, Pages, Told
<1> QED BY <1>2, <1>3 DEF Update!UpdateInit, UpdateInv

LEMMA AppliedType ==
  ASSUME s6 \in Pages, NEW s, s.state \in Told, s.stale \in BOOLEAN
  PROVE  Update!Applied(s) \in Pages
<1>1. (IF Update!Updating(s6) /\ ~Update!Updating(s) THEN s.state = "done"
       ELSE s6.finished \/ (~s6.loaded /\ s.state = "done")) \in BOOLEAN
  BY DEF Pages
<1> QED BY <1>1 DEF Update!Applied, Pages

LEMMA UpdateStays == UpdateInv /\ [Update!UpdateNext]_Update!updateVars => UpdateInv'
<1> SUFFICES ASSUME UpdateInv, [Update!UpdateNext]_Update!updateVars PROVE UpdateInv'
  OBVIOUS
<1>0. /\ s1 \in {"none", "new", "stale"} /\ s2 \in Runs /\ s3 \in Written
      /\ s4 \in BOOLEAN /\ s5 \in {"none", "timer"} /\ s6 \in Pages
  BY DEF UpdateInv
<1>a. Update!NoRun \in Runs /\ Update!Run("systemd") \in Runs /\ Update!Run("hand") \in Runs
  BY DEF Update!NoRun, Update!Run, Runs
<1>b. ASSUME NEW old \in BOOLEAN PROVE [s2 EXCEPT !.old = old] \in Runs
  BY <1>0 DEF Runs
<1>c. ASSUME NEW at0 \in {"git", "pull", "up", "restart"} PROVE [s2 EXCEPT !.at = at0] \in Runs
  BY <1>0 DEF Runs
<1>d. [s3 EXCEPT !.old = TRUE] \in Written /\ [s3 EXCEPT !.stale = TRUE] \in Written
  BY <1>0 DEF Written
<1>e. Update!Schedule => s5' \in {"none", "timer"}
  BY DEF Update!Schedule
<1>1. CASE Update!SystemdStarts
  <2>1. s1' = "none" /\ s2' \in Runs /\ UNCHANGED <<s3, s4, s5, s6>>
    BY <1>0, <1>1, <1>a DEF Update!SystemdStarts
  <2> QED BY <1>0, <2>1 DEF UpdateInv
<1>2. CASE Update!StartedByHand
  <2>1. s1' = "none" /\ s2' \in Runs /\ UNCHANGED <<s3, s4, s5, s6>>
    BY <1>0, <1>2, <1>a DEF Update!StartedByHand
  <2> QED BY <1>0, <2>1 DEF UpdateInv
<1>3. CASE Update!ScriptStep
  <2>1. ASSUME NEW from, NEW to \in {"", "git", "pull", "up", "restart"},
               NEW state \in {"running", "done", "failed"}, Update!Step(from, to, state)
        PROVE  s3' \in Written /\ s2' \in Runs
    <3>1. s3' = [state |-> state, step |-> to, old |-> s2.old, stale |-> FALSE]
          /\ s2' = IF to = "" \/ state = "failed" THEN Update!NoRun ELSE [s2 EXCEPT !.at = to]
      BY <2>1 DEF Update!Step
    <3>2. s2.old \in BOOLEAN
      BY <1>0 DEF Runs
    <3>3. s3' \in Written
      BY <3>1, <3>2 DEF Written
    <3>4. s2' \in Runs
      BY <1>a, <1>c, <3>1
    <3> QED BY <3>3, <3>4
  <2>2. UNCHANGED <<s1, s4, s5, s6>>
    BY <1>3 DEF Update!ScriptStep
  <2>3. \E from : \E to \in {"", "git", "pull", "up", "restart"}, state \in {"running", "done", "failed"} :
          Update!Step(from, to, state)
    <3>1. CASE Update!GitPull
      BY <3>1 DEF Update!GitPull
    <3>2. CASE Update!ImagePull
      BY <3>2 DEF Update!ImagePull
    <3>3. CASE Update!Up
      BY <3>3 DEF Update!Up
    <3>4. CASE Update!Done
      BY <3>4 DEF Update!Done
    <3>5. CASE Update!Fail
      BY <3>5 DEF Update!Fail
    <3> QED BY <1>3, <3>1, <3>2, <3>3, <3>4, <3>5 DEF Update!ScriptStep
  <2>4. s3' \in Written /\ s2' \in Runs
    BY <2>1, <2>3
  <2> QED BY <1>0, <2>2, <2>4 DEF UpdateInv
<1>4. CASE Update!Killed
  <2>1. s2' \in Runs /\ UNCHANGED <<s1, s3, s4, s5, s6>>
    BY <1>4, <1>a DEF Update!Killed
  <2> QED BY <1>0, <2>1 DEF UpdateInv
<1>5. CASE Update!Down
  <2>1. s2' \in Runs /\ s4' = FALSE /\ UNCHANGED <<s1, s3, s5, s6>>
    BY <1>5, <1>c DEF Update!Down
  <2> QED BY <1>0, <2>1 DEF UpdateInv
<1>6. CASE Update!ServerUp
  <2>1. s4' = TRUE /\ UNCHANGED <<s1, s2, s3, s5, s6>>
    BY <1>6 DEF Update!ServerUp
  <2> QED BY <1>0, <2>1 DEF UpdateInv
<1>7. CASE Update!TooLong
  <2>1. s1' \in {"none", "new", "stale"} /\ s3' \in Written /\ UNCHANGED <<s2, s4, s5, s6>>
    BY <1>0, <1>7, <1>d DEF Update!TooLong
  <2> QED BY <1>0, <2>1 DEF UpdateInv
<1>8. CASE Update!Load
  <2>1. Update!Status.state \in Told /\ Update!Status.stale \in BOOLEAN
    <3>1. CASE s1 # "none" /\ s3.old
      <4>1. Update!Status = [state |-> "pending", stale |-> s1 = "stale"]
        BY <3>1 DEF Update!Status
      <4> QED BY <4>1 DEF Told
    <3>2. CASE ~(s1 # "none" /\ s3.old)
      <4>1. Update!Status = [state |-> s3.state, stale |-> s3.stale]
        BY <3>2 DEF Update!Status
      <4>2. s3.state \in Told /\ s3.stale \in BOOLEAN
        BY <1>0 DEF Written, Told
      <4> QED BY <4>1, <4>2
    <3> QED BY <3>1, <3>2
  <2>2. Update!Applied(Update!Status) \in Pages
    BY <1>0, <2>1, AppliedType
  <2>3. s6' \in Pages
    <3>1. s6' = IF s4 THEN Update!Applied(Update!Status)
                ELSE [s6 EXCEPT !.unreachable = s6.unreachable \/ Update!Updating(s6)]
      BY <1>8 DEF Update!Load
    <3>2. ASSUME NEW u \in BOOLEAN PROVE [s6 EXCEPT !.unreachable = u] \in Pages
      BY <1>0 DEF Pages
    <3>3. (s6.unreachable \/ Update!Updating(s6)) \in BOOLEAN
      BY <1>0 DEF Pages
    <3> QED BY <2>2, <3>1, <3>2, <3>3
  <2>4. s5' \in {"none", "timer"} /\ UNCHANGED <<s1, s2, s3, s4>>
    BY <1>8, <1>e DEF Update!Load
  <2> QED BY <1>0, <2>3, <2>4 DEF UpdateInv
<1>9. CASE Update!ApplyUpdate
  <2>1. s6' = Update!Applied([state |-> "pending", stale |-> FALSE]) /\ s4' = s4 /\ s5' \in {"none", "timer"}
    BY <1>9, <1>e DEF Update!ApplyUpdate
  <2>2. s6' \in Pages
    <3> DEFINE p == [state |-> "pending", stale |-> FALSE]
    <3>1. p.state \in Told /\ p.stale \in BOOLEAN
      BY DEF Told
    <3> HIDE DEF p
    <3>2. Update!Applied(p) \in Pages
      BY <1>0, <3>1, AppliedType
    <3> QED BY <2>1, <3>2 DEF p
  <2>3. s1' = "new" /\ s3' = [s3 EXCEPT !.old = TRUE] /\ s2' = [s2 EXCEPT !.old = s2 # Update!NoRun]
    BY <1>9 DEF Update!ApplyUpdate, Update!Requested
  <2>4. s2' \in Runs
    BY <1>b, <2>3
  <2> QED BY <1>0, <1>d, <2>1, <2>2, <2>3, <2>4 DEF UpdateInv
<1>10. CASE Update!DismissFinish
  <2>1. s6' = [s6 EXCEPT !.finished = FALSE] /\ UNCHANGED <<s1, s2, s3, s4, s5>>
    BY <1>10 DEF Update!DismissFinish
  <2>2. s6' \in Pages
    BY <1>0, <2>1 DEF Pages
  <2> QED BY <1>0, <2>1, <2>2 DEF UpdateInv
<1>11. CASE UNCHANGED Update!updateVars
  <2>1. UNCHANGED <<s1, s2, s3, s4, s5, s6>>
    BY <1>11 DEF Update!updateVars
  <2> QED BY <1>0, <2>1 DEF UpdateInv
<1> QED BY <1>1, <1>2, <1>3, <1>4, <1>5, <1>6, <1>7, <1>8, <1>9, <1>10, <1>11 DEF Update!UpdateNext

\* The part at work keeps what it is to keep, and the others what they started with.
ToolInv ==
  /\ PoolBounded /\ UsageBounded /\ LoginTyped /\ GateInv /\ CatalogueInv /\ HistoryInv
  /\ atWork = "update" => UpdateInv
  /\ atWork = "stock" => Stock!InventoryInv
  /\ atWork = "session" => Session!SessionInv

LEMMA ToolStarts == ToolInit => ToolInv
<1> SUFFICES ASSUME ToolInit PROVE ToolInv
  OBVIOUS
<1>1. ProxyInit /\ UsageInit /\ LoginInit /\ GateInit /\ CatalogueInit /\ HistoryInit
  BY DEF ToolInit
<1>2. PoolBounded
  BY <1>1, InitTyped, ProxyConstants DEF ProxyInit, PoolBounded
<1>3. UsageBounded
  BY <1>1, UsageConstants DEF UsageConstants, UsageInit, UsageBounded, Counters, UsageCounted, Reported, Zero, Days
<1>4. LoginTyped
  <2>1. NoFails \in [count : 0..MAX_FAILS_GLOBAL - 1, firstAt : Int, lockedUntil : Int] /\ 0 <= MaxSets
    BY LoginConstants DEF LoginConstants, NoFails
  <2>2. SessionsInv /\ GuessesInv
    BY <1>1, NoFailsLimited DEF LoginInit, SessionsInv, OnlyCurrentSessions, GuessesInv
  <2> QED BY <1>1, <2>1, <2>2 DEF LoginInit, LoginTyped
<1>5. GateInv /\ CatalogueInv /\ HistoryInv
  BY <1>1, GateStarts, CatalogueStarts, HistoryStarts, Constants DEF Constants
<1>6. /\ atWork = "update" => Update!UpdateInit
      /\ atWork = "stock" => Stock!InventoryInit
      /\ atWork = "session" => Session!Init
  BY DEF ToolInit
<1>7. Session!SessionConstants
  BY Constants DEF Constants
<1> QED BY <1>2, <1>3, <1>4, <1>5, <1>6, <1>7, UpdateStarts, StockStarts, Session!SessionStarts DEF ToolInv

LEMMA ToolStays == ToolInv /\ [ToolNext]_toolVars => ToolInv'
<1> SUFFICES ASSUME ToolInv, [ToolNext]_toolVars PROVE ToolInv'
  OBVIOUS
<1>0. CatalogueConstants /\ HistoryConstants /\ Stock!InventoryConstants /\ Session!SessionConstants
  BY Constants DEF Constants
<1>1. /\ [ProxyNext]_proxyVars /\ [UsageNext]_usageVars /\ [LoginNext]_loginVars /\ [GateNext]_gateVars
      /\ [CatalogueNext]_catalogueVars /\ [HistoryNext]_historyVars
  BY DEF ToolNext, toolVars, PoolStep, UsageStep, LoginStep, GateStep, PricesStep, HistoryStep, UpdateStep, StockStep,
         SessionStep, SharedStep, OtherStep, AtWork, others
<1>2. atWork' = atWork
  BY DEF ToolNext, toolVars, PoolStep, UsageStep, LoginStep, GateStep, PricesStep, HistoryStep, UpdateStep, StockStep,
         SessionStep, SharedStep, OtherStep, AtWork
<1>3. /\ atWork = "update" => [Update!UpdateNext]_Update!updateVars
      /\ atWork = "stock" => [Stock!InventoryNext]_Stock!inventoryVars
      /\ atWork = "session" => [Session!Next]_Session!vars
  <2>1. \/ UNCHANGED toolVars \/ UNCHANGED shared
        \/ atWork = "update" /\ Update!UpdateNext
        \/ atWork = "stock" /\ Stock!InventoryNext
        \/ atWork = "session" /\ Session!Next
    BY DEF ToolNext, PoolStep, UsageStep, LoginStep, GateStep, PricesStep, HistoryStep, UpdateStep, StockStep,
           SessionStep, SharedStep, OtherStep, AtWork
  <2>2. UNCHANGED toolVars => UNCHANGED shared
    BY DEF toolVars
  <2>3. UNCHANGED shared => UNCHANGED Update!updateVars /\ UNCHANGED Stock!inventoryVars /\ UNCHANGED Session!vars
    <3> SUFFICES ASSUME UNCHANGED shared
                 PROVE  UNCHANGED Update!updateVars /\ UNCHANGED Stock!inventoryVars /\ UNCHANGED Session!vars
      OBVIOUS
    <3>1. /\ s1' = s1 /\ s2' = s2 /\ s3' = s3 /\ s4' = s4 /\ s5' = s5 /\ s6' = s6
          /\ s7' = s7 /\ s8' = s8 /\ s9' = s9 /\ s10' = s10 /\ s11' = s11 /\ s12' = s12
      BY DEF shared
    <3>2. UNCHANGED Update!updateVars
      BY <3>1 DEF Update!updateVars
    <3>3. UNCHANGED Stock!inventoryVars
      BY <3>1 DEF Stock!inventoryVars
    <3>4. UNCHANGED Session!vars
      BY <3>1 DEF Session!vars, Session!disk
    <3> QED BY <3>2, <3>3, <3>4
  <2> QED BY <2>1, <2>2, <2>3
<1>4. PoolBounded' /\ UsageBounded' /\ LoginTyped' /\ GateInv'
  BY <1>1, PoolStays, UsageStays, LoginStays, GateKept DEF ToolInv
<1>5. CatalogueInv' /\ HistoryInv'
  BY <1>0, <1>1, CatalogueStep, HistoryStays DEF ToolInv
<1>6. atWork = "update" => UpdateInv'
  BY <1>3, UpdateStays DEF ToolInv
<1>7. atWork = "stock" => Stock!InventoryInv'
  BY <1>0, <1>3, StockStays DEF ToolInv
<1>8. atWork = "session" => Session!SessionInv'
  BY <1>0, <1>3, Session!SessionStep DEF ToolInv
<1> QED BY <1>2, <1>4, <1>5, <1>6, <1>7, <1>8 DEF ToolInv

\* The types of all the parts, for any constants.
THEOREM ToolIsTyped == ToolSpec => []ToolTypeOK
<1>1. UpdateInv => Update!UpdateTypeOK
  BY DEF UpdateInv, Runs, Written, Pages, Told, Update!UpdateTypeOK
<1>2. ToolInv => ToolTypeOK
  BY <1>1, PoolTypes, UsageTypes, LoginTypes DEF ToolInv, ToolTypeOK, GateInv, CatalogueInv
<1> QED BY <1>2, ToolStarts, ToolStays, PTL DEF ToolSpec

\* What is shown of an inventory or of purchases was read as it had to be, and for
\* the account it is shown for, and prices follow the rates, for any accounts, pages
\* and refreshes (src/inventory/index.ts, src/accounts/history.ts, src/purchase/catalog.ts).
THEOREM ReadsAreKept == ToolSpec => []ReadsKept
<1>1. ToolInv => ReadsKept
  BY HistoryInvKept, StockKept DEF ToolInv, ReadsKept, CatalogueInv
<1> QED BY <1>1, ToolStarts, ToolStays, PTL DEF ToolSpec

\* A session that connects is watched, one that is online comes back after a crash, and
\* nothing of a deleted account is left, for any bounds on timers, logins and retries
\* (src/steam/session-manager.ts).
THEOREM SessionStaysKept == ToolSpec => []SessionKept
<1>1. Session!SessionInv =>
        Session!ConnectingIsWatched /\ Session!OnlineIsRestored /\ (~LateEvents => Session!DeletedForgotten)
  BY Session!InvKept
<1>2. ToolInv => SessionKept
  BY <1>1 DEF ToolInv, SessionKept
<1> QED BY <1>2, ToolStarts, ToolStays, PTL DEF ToolSpec
=============================================================================
