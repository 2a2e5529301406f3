------------------------------- MODULE MC_Tool -------------------------------
(***************************************************************************)
(* A Steam session under fair timers, and the parts of the server around   *)
(* the sessions, for TLC: the proxies and what goes through them, the      *)
(* queue of requests, the login to the tool, inventories, the catalogue of *)
(* purchases, the account histories, and the update.  They share nothing   *)
(* here, so a behaviour has one of them at work.  Those that nothing is    *)
(* proved about have no variables of their own: s1, s2, ... are those of   *)
(* the one at work.                                                        *)
(***************************************************************************)
EXTENDS ProxyPool, ProxyUsage, ToolLogin, RequestGate, Catalogue, AccountHistory, TLC

CONSTANTS
  p1, p2, g1, h1, h2,
  MaxUpdates,                                                        \* of SelfUpdate
  MaxGets,                                                           \* of Inventory
  HasPassword, AutoGuard, RateLimited, LoginRetryMax, ReconnectMax,  \* of SteamSession
  LateEvents, MaxTimers

VARIABLES atWork, s1, s2, s3, s4, s5, s6, s7, s8, s9, s10, s11, s12

shared == <<s1, s2, s3, s4, s5, s6, s7, s8, s9, s10, s11, s12>>
toolVars == <<proxyVars, usageVars, loginVars, gateVars, catalogueVars, historyVars, shared, atWork>>

Update == INSTANCE SelfUpdate WITH
  MaxRequests <- MaxUpdates,
  request <- s1, script <- s2, status <- s3, serving <- s4, polls <- s5, shown <- s6, requests <- s7
Stock == INSTANCE Inventory WITH
  Viewers <- Accounts, NoCache <- None, NoFetch <- None,
  online <- s1, out <- s2, gc <- s3, holds <- s4, terminal <- s5, connecting <- s6, cache <- s7, cooling <- s8,
  inflight <- s9, calls <- s10, view <- s11, gets <- s12
Session == INSTANCE SteamSession WITH
  a <- s1, retry <- s2, queued <- s3, client <- s4, ghost <- s5, listed <- s6, intent <- s7, saved <- s8, restoring <- s9

ASSUME Constants ==
  CatalogueConstants /\ HistoryConstants /\ Update!UpdateConstants /\ Stock!InventoryConstants /\ Session!SessionConstants

-----------------------------------------------------------------------------
(* A list of proxies: one that stays at an address, and one of a provider. *)
Static == [endpoint |-> "x", size |-> 0]
Rotating == [endpoint |-> "y", size |-> 2]
MCConns == {Static, Rotating, [endpoint |-> "x", size |-> 2]}
PoolBinding == [mode |-> "pool", proxies |-> {}, groups |-> {}]
MCBindings == {PoolBinding, [PoolBinding EXCEPT !.mode = "direct"],
               [mode |-> "bind", proxies |-> {p1}, groups |-> {}],
               [mode |-> "bind", proxies |-> {p1}, groups |-> {g1}],
               [mode |-> "bind", proxies |-> {}, groups |-> {g1}]}
Fresh(conn, groups) == [on |-> TRUE, conn |-> conn, groups |-> groups, check |-> None]
MCConfigs ==
  {[proxies |-> (p1 :> Fresh(Static, {})) @@ (p2 :> Fresh(Rotating, {g1})), groups |-> {g1},
    bind |-> (h1 :> [mode |-> "bind", proxies |-> {p1}, groups |-> {g1}]) @@ (h2 :> PoolBinding), linked |-> {}]}

-----------------------------------------------------------------------------
\* What is not at work starts in one of its initial states only.
Resting(part, state) == atWork # part => state
AtWork(part, step) == atWork = part /\ step /\ UNCHANGED atWork
Without10 == s10 = None /\ s11 = None /\ s12 = None
Without8 == s8 = None /\ s9 = None /\ Without10
Without1 == s1 = None /\ s2 = None /\ s3 = None /\ s4 = None /\ s5 = None /\ s6 = None /\ s7 = None /\ Without8

ToolInit ==
  /\ atWork \in {"pool", "usage", "login", "gate", "update", "history", "stock", "prices", "session"}
  /\ ProxyInit /\ UsageInit /\ LoginInit /\ GateInit /\ CatalogueInit /\ HistoryInit
  /\ Resting("login", envPassword) /\ Resting("history", bought = [a \in Owners |-> 0])
  /\ \/ atWork = "update" /\ Update!UpdateInit /\ Without8
     \/ atWork = "stock" /\ Stock!InventoryInit
     \/ atWork = "session" /\ Session!Init /\ Without10
     \/ atWork \in {"pool", "usage", "login", "gate", "prices", "history"} /\ Without1

others == <<catalogueVars, historyVars>>
PoolStep(step) == AtWork("pool", step) /\ UNCHANGED <<usageVars, loginVars, gateVars, others, shared>>
UsageStep(step) == AtWork("usage", step) /\ UNCHANGED <<proxyVars, loginVars, gateVars, others, shared>>
LoginStep(step) == AtWork("login", step) /\ UNCHANGED <<proxyVars, usageVars, gateVars, others, shared>>
GateStep(step) == AtWork("gate", step) /\ UNCHANGED <<proxyVars, usageVars, loginVars, others, shared>>
OtherStep(part, step) == AtWork(part, step) /\ UNCHANGED <<proxyVars, usageVars, loginVars, gateVars>>
PricesStep(step) == OtherStep("prices", step) /\ UNCHANGED <<historyVars, shared>>
HistoryStep(step) == OtherStep("history", step) /\ UNCHANGED <<catalogueVars, shared>>
SharedStep(part, step) == OtherStep(part, step) /\ UNCHANGED others
UpdateStep(step) == SharedStep("update", step) /\ UNCHANGED <<s8, s9, s10, s11, s12>>
StockStep(step) == SharedStep("stock", step)
SessionStep(step) == SharedStep("session", step) /\ UNCHANGED <<s10, s11, s12>>

ToolNext ==
  \/ PoolStep(ProxyNext) \/ UsageStep(UsageNext) \/ LoginStep(LoginNext) \/ GateStep(GateNext)
  \/ UpdateStep(Update!UpdateNext) \/ HistoryStep(HistoryNext)
  \/ StockStep(Stock!InventoryNext) \/ PricesStep(CatalogueNext)
  \/ SessionStep(Session!Next)

ToolSpec == ToolInit /\ [][ToolNext]_toolVars

\* The fairness of each module's own specification, as in MC_Services.
ToolFairSpec ==
  /\ ToolSpec
  /\ WF_toolVars(\/ UpdateStep(Update!HostDue) \/ HistoryStep(Reading) \/ StockStep(Stock!InventoryDue)
                 \/ SessionStep(Session!RetryFires))
  /\ WF_toolVars(\/ UpdateStep(Update!PageDue) \/ HistoryStep(WindowDue)
                 \/ SessionStep(Session!WatchdogFires))
  /\ WF_toolVars(UpdateStep(Update!TooLong) \/ SessionStep(Session!GraceOver))
  /\ WF_toolVars(SessionStep(Session!BackoffOver)) /\ WF_toolVars(SessionStep(Session!ReconnectTick))

-----------------------------------------------------------------------------
\* The type invariants of the modules.
ToolTypeOK ==
  /\ ProxyTypeOK /\ UsageTypeOK /\ LoginTypeOK /\ GateTypeOK /\ CatalogueTypeOK
  /\ atWork = "update" => Update!UpdateTypeOK

\* What is shown of an inventory and of an account's purchases was read as it
\* had to be, and for the account it is shown for; and prices follow the rates.
ReadsKept ==
  /\ CatalogueKept /\ HistoryKept
  /\ atWork = "stock" => Stock!InventoryKept

\* A session that connects is watched, one that is online comes back after a crash,
\* and nothing of a deleted account is left or comes back where a client that was
\* logged off is quiet.
SessionKept ==
  atWork = "session" =>
    Session!ConnectingIsWatched /\ Session!OnlineIsRestored /\ (~LateEvents => Session!DeletedForgotten)

\* No timer that was under way revives an account that was thrown out.
ThrownOutStaysOut == [][atWork = "session" => Session!FailedStays]_toolVars

\* Whoever waits for an update or for a history is told in the end how it went,
\* and an account that logs in or lost its connection is not left half-way.
Waiting == (atWork = "update" /\ Update!Awaited) \/ (atWork = "history" /\ Loading)
HalfWay == atWork = "session" /\ Session!Lost
GivenUp == atWork = "session" /\ (s1.blocked \/ s1.guard)
LeftAlone == <>[][~SessionStep(Session!User) /\ ~SessionStep(Session!Restart)]_toolVars
WindowsSettle == (Waiting ~> ~Waiting) /\ (LeftAlone => (HalfWay ~> (~HalfWay \/ GivenUp)))
=============================================================================
