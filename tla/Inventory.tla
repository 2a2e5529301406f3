------------------------------- MODULE Inventory -------------------------------
(***************************************************************************)
(* The CS2 inventory of an account: createInventoryService of              *)
(* src/inventory/index.ts, which the inventory page and the terminal page  *)
(* ask, and the inventory page (web/src/stores/inventory.ts).              *)
(*                                                                         *)
(* A snapshot is the community's, with or without the data only the game   *)
(* coordinator has (trade cooldowns, wear), or the coordinator's alone.    *)
(* Its 15 seconds and the 30 seconds after a failure end at any time.      *)
(***************************************************************************)
EXTENDS Naturals

CONSTANTS
  Viewers,     \* accounts
  MaxGets,     \* bound of the model: what is asked, and what sessions do
  Nobody, NoCache, NoFetch

\* Assumed of them.
InventoryConstants == Nobody \notin Viewers /\ NoFetch \notin [gc : BOOLEAN] /\ MaxGets \in Nat

VARIABLES
  online,      \* accounts that are logged in
  out,         \* accounts that were logged out
  gc,          \* cs2GcConnected
  holds,       \* csgo.inventory: accounts whose client has been given its items
  terminal,    \* accounts whose terminal page is on its way to the service
  connecting,  \* inventoryGcConnecting
  cache,       \* inventoryCache: source, with GC data, fresh; or NoCache
  cooling,     \* communityInvTriedAt, for 30 seconds
  inflight,    \* inventoryInflight: whether GC data goes into it, or NoFetch
  calls,       \* calls of get that wait for the coordinator, and the page's
  view,        \* the page: selected, loaded, items, loading, error
  gets         \* bound of the model

inventoryVars == <<online, out, gc, holds, terminal, connecting, cache, cooling, inflight, calls, view, gets>>

Counted == gets < MaxGets /\ gets' = gets + 1

Community(withGc) == [source |-> "community", gc |-> withGc, fresh |-> TRUE]
OfGc == [source |-> "gc", gc |-> TRUE, fresh |-> TRUE]
Cleared(a) == [selected |-> a, loaded |-> Nobody, items |-> NoCache, loading |-> FALSE, error |-> FALSE]

-----------------------------------------------------------------------------
(***************************************************************************)
(* The page.  version: calls it made before it cleared what it has loaded  *)
(* or asked again are not live any more.                                   *)
(***************************************************************************)
\* Mutant: a reply counts whatever the page has asked since.
StaysLive(cs) == cs

\* Such a call still has the fetch made, once the coordinator is there.
Superseded(cs) == {[c EXCEPT !.live = FALSE] : c \in {d \in cs : d.at = "gc"}}

\* ensureSelection: the selected account, or the first one that is online.
Selection == IF view.selected \in online THEN view.selected
             ELSE IF online = {} THEN Nobody ELSE CHOOSE a \in online : TRUE

Ready(v, a) == IF v.selected = a THEN v ELSE Cleared(a)

\* What a reply does to the page that waits for it.
Shown(v, c, snapshot) ==
  IF ~c.live THEN v
  ELSE [v EXCEPT !.loading = FALSE, !.items = snapshot,
                 !.loaded = IF snapshot = NoCache THEN Nobody ELSE c.account,
                 !.error = snapshot = NoCache]

\* The live call among those that are answered, if there is one.
ShownAll(v, cs, snapshot) ==
  IF \E c \in cs : c.live THEN Shown(v, CHOOSE c \in cs : c.live, snapshot) ELSE v

-----------------------------------------------------------------------------
(***************************************************************************)
(* The service.                                                            *)
(***************************************************************************)
\* isFresh, and from the community or in the time after a failure.
Serves(a, force) ==
  ~force /\ cache[a] # NoCache /\ cache[a].fresh /\ (cache[a].source = "community" \/ cooling[a])

\* The calls that wait for the fetch now, of those anybody waits for.
Joined(cs) == {[c EXCEPT !.at = "fetch", !.force = FALSE] : c \in {d \in cs : d.live}}

\* get, past the coordinator: the cache, the fetch under way, or a new one.
Get(c, others, v) ==
  LET a == c.account
  IN IF Serves(a, c.force)
     THEN calls' = others /\ view' = Shown(v, c, cache[a]) /\ UNCHANGED inflight
     ELSE /\ calls' = others \cup Joined({c})
          /\ inflight' = [inflight EXCEPT ![a] = IF @ = NoFetch THEN [gc |-> a \in holds] ELSE @]
          /\ view' = v

\* The terminal page is opened while the coordinator is connected ...
TerminalOpens(a) ==
  /\ Counted
  /\ gc[a] /\ terminal' = terminal \cup {a}
  /\ UNCHANGED <<online, out, gc, holds, connecting, cache, cooling, inflight, calls, view>>

\* ... and reads the inventory as it is when it gets there.
TerminalAsks(a) ==
  /\ a \in terminal /\ terminal' = terminal \ {a}
  /\ Get([account |-> a, live |-> FALSE, force |-> FALSE, at |-> "fetch"], calls, view)
  /\ UNCHANGED <<online, out, gc, holds, connecting, cache, cooling, gets>>

\* Mutant: a call that finds the coordinator being connected goes on.
ReadyOrSoon(a) == gc[a] \/ a \in connecting

\* connectCs2Gc: there is nothing to wait for.
GcReady(a) == gc[a]

\* refreshInventory, for v, a view whose selection is made: connectCs2Gc first.
PageGets(v, force) ==
  LET call == [account |-> v.selected, live |-> TRUE, force |-> force, at |-> "gc"]
      asking == [v EXCEPT !.loading = TRUE, !.error = FALSE]
  IN IF GcReady(v.selected)
     THEN Get(call, Superseded(calls), asking) /\ UNCHANGED connecting
     ELSE /\ UNCHANGED inflight
          /\ IF v.selected \in online
             THEN /\ connecting' = connecting \cup {v.selected}
                  /\ calls' = Superseded(calls) \cup {call} /\ view' = asking
             ELSE /\ calls' = Superseded(calls) /\ view' = Shown(asking, call, NoCache)
                  /\ UNCHANGED connecting

RefreshInventory(force) ==
  /\ Counted
  /\ IF Selection = Nobody
     THEN view' = Cleared(Nobody) /\ calls' = Superseded(calls) /\ UNCHANGED <<connecting, inflight>>
     ELSE PageGets(Ready(view, Selection), force)
  /\ UNCHANGED <<online, out, gc, holds, terminal, cache, cooling>>

\* selectAccount, ensureLoaded.
SelectAccount(a) ==
  /\ Counted
  /\ a \in online
  /\ LET v == Ready(view, a)
     IN IF v.loading \/ (v.loaded = a /\ ~v.error)
        THEN view' = v /\ UNCHANGED <<connecting, calls, inflight>>
        ELSE PageGets(v, FALSE)
  /\ UNCHANGED <<online, out, gc, holds, terminal, cache, cooling>>

\* refreshFromGc: a cache of the coordinator's is built again.
FromGc(a) == IF cache[a] = NoCache \/ cache[a].source = "gc" THEN OfGc ELSE cache[a]

\* The coordinator connects, for whoever asked it: the calls that waited go on,
\* and take no cache of before, but the fetch that is under way.
GcConnects(a) ==
  LET waited == {c \in calls : c.account = a /\ c.at = "gc"}
  IN /\ a \in online /\ ~gc[a] /\ gc' = [gc EXCEPT ![a] = TRUE]
     /\ holds' = holds \cup {a}
     /\ cache' = [cache EXCEPT ![a] = FromGc(a)]
     /\ connecting' = connecting \ {a}
     /\ calls' = (calls \ waited) \cup Joined(waited)
     /\ inflight' = [inflight EXCEPT ![a] =
                       IF waited # {} /\ @ = NoFetch THEN [gc |-> TRUE] ELSE @]
     /\ UNCHANGED <<online, out, terminal, cooling, view, gets>>

\* After 20 seconds, or an error of the module.
GcFails(a) ==
  LET waited == {c \in calls : c.account = a /\ c.at = "gc"}
  IN /\ a \in connecting /\ connecting' = connecting \ {a}
     /\ calls' = calls \ waited /\ view' = ShownAll(view, waited, NoCache)
     /\ UNCHANGED <<online, out, gc, holds, terminal, cache, cooling, inflight, gets>>

GcDisconnects(a) ==
  /\ Counted
  /\ gc[a] /\ gc' = [gc EXCEPT ![a] = FALSE]
  /\ UNCHANGED <<online, out, holds, terminal, connecting, cache, cooling, inflight, calls, view>>

GcItemsChange(a) ==
  /\ gc[a] /\ cache' = [cache EXCEPT ![a] = FromGc(a)]
  /\ UNCHANGED <<online, out, gc, holds, terminal, connecting, cooling, inflight, calls, view, gets>>

\* The fetch ends: with the community's items; with those of the coordinator,
\* if it has any; or with the error.
FetchEnds(a) ==
  LET joined == {c \in calls : c.account = a /\ c.at = "fetch"}
  IN /\ inflight[a] # NoFetch /\ inflight' = [inflight EXCEPT ![a] = NoFetch]
     /\ \E snapshot \in {Community(inflight[a].gc), OfGc, NoCache} :
          /\ snapshot = OfGc => a \in holds
          /\ cache' = [cache EXCEPT ![a] = IF snapshot = NoCache THEN @ ELSE snapshot]
          /\ cooling' = [cooling EXCEPT ![a] = snapshot = NoCache \/ snapshot = OfGc]
          /\ view' = ShownAll(view, joined, snapshot)
     /\ calls' = calls \ joined
     /\ UNCHANGED <<online, out, gc, holds, terminal, connecting, gets>>

CacheAges(a) ==
  /\ cache[a] # NoCache /\ cache[a].fresh /\ cache' = [cache EXCEPT ![a].fresh = FALSE]
  /\ UNCHANGED <<online, out, gc, holds, terminal, connecting, cooling, inflight, calls, view, gets>>

CoolingEnds(a) ==
  /\ cooling[a] /\ cooling' = [cooling EXCEPT ![a] = FALSE]
  /\ UNCHANGED <<online, out, gc, holds, terminal, connecting, cache, inflight, calls, view, gets>>

\* Calls of account a that wait for the fetch of an attempt that let go of it.
Detached(a) ==
  {IF c.account = a /\ c.at = "fetch" THEN [c EXCEPT !.at = "old", !.force = inflight[a].gc] ELSE c : c \in calls}

\* The session breaks off; the attempt stays, and its client connects again.
SessionBreaks(a) ==
  /\ Counted
  /\ a \in online /\ online' = online \ {a} /\ gc' = [gc EXCEPT ![a] = FALSE]
  /\ UNCHANGED <<out, holds, terminal, connecting, cache, cooling, inflight, calls, view>>

\* logout: the attempt stays, without its cache, cooldown and fetch.
LogOut(a) ==
  /\ Counted
  /\ a \notin out /\ out' = out \cup {a} /\ online' = online \ {a}
  /\ gc' = [gc EXCEPT ![a] = FALSE]
  /\ cache' = [cache EXCEPT ![a] = NoCache] /\ cooling' = [cooling EXCEPT ![a] = FALSE]
  /\ inflight' = [inflight EXCEPT ![a] = NoFetch] /\ calls' = Detached(a)
  /\ UNCHANGED <<holds, terminal, connecting, view>>

SessionBack(a) ==
  /\ a \notin online /\ a \notin out /\ online' = online \cup {a}
  /\ UNCHANGED <<out, gc, holds, terminal, connecting, cache, cooling, inflight, calls, view, gets>>

\* A new login is a new attempt, with a new client; who waits for the
\* coordinator of the old one waits in vain.
LogIn(a) ==
  /\ a \in out /\ out' = out \ {a} /\ online' = online \cup {a}
  /\ holds' = holds \ {a} /\ terminal' = terminal \ {a} /\ connecting' = connecting \ {a}
  /\ cache' = [cache EXCEPT ![a] = NoCache] /\ cooling' = [cooling EXCEPT ![a] = FALSE]
  /\ inflight' = [inflight EXCEPT ![a] = NoFetch]
  /\ calls' = {IF c.account = a /\ c.at = "gc" THEN [c EXCEPT !.at = "vain"] ELSE c : c \in Detached(a)}
  /\ UNCHANGED <<gc, view, gets>>

\* Such a call ends: with what the old attempt fetched, or with an error.
OldEnds(c) ==
  /\ c.at \in {"old", "vain"} /\ calls' = calls \ {c}
  /\ \E snapshot \in {NoCache} \cup (IF c.at = "old" THEN {Community(c.force)} ELSE {}) :
       view' = Shown(view, c, snapshot)
  /\ UNCHANGED <<online, out, gc, holds, terminal, connecting, cache, cooling, inflight, gets>>

-----------------------------------------------------------------------------
InventoryInit ==
  /\ online = Viewers /\ out = {} /\ gc = [a \in Viewers |-> FALSE]
  /\ holds = {} /\ terminal = {} /\ connecting = {}
  /\ cache = [a \in Viewers |-> NoCache] /\ cooling = [a \in Viewers |-> FALSE]
  /\ inflight = [a \in Viewers |-> NoFetch] /\ calls = {} /\ view = Cleared(Nobody) /\ gets = 0

InventoryNext ==
  \/ \E force \in BOOLEAN : RefreshInventory(force)
  \/ \E a \in Viewers :
       \/ SelectAccount(a) \/ TerminalOpens(a) \/ TerminalAsks(a) \/ GcConnects(a) \/ GcFails(a) \/ GcDisconnects(a)
       \/ GcItemsChange(a) \/ FetchEnds(a) \/ CacheAges(a) \/ CoolingEnds(a)
       \/ SessionBreaks(a) \/ SessionBack(a) \/ LogOut(a) \/ LogIn(a)
  \/ \E c \in calls : OldEnds(c)

InventorySpec == InventoryInit /\ [][InventoryNext]_inventoryVars

\* The coordinator answers or the 20 seconds pass; a fetch ends.
InventoryDue == (\E a \in Viewers : GcFails(a) \/ FetchEnds(a)) \/ (\E c \in calls : OldEnds(c))
InventoryFairSpec == InventorySpec /\ WF_inventoryVars(InventoryDue)

-----------------------------------------------------------------------------
\* The page shows the items of the account that is selected, whatever it asked
\* for before.
ShowsSelected == view.items # NoCache => view.loaded = view.selected

\* Whatever replies are dropped, the page does not wait for one for ever.
LoadingIsAwaited == view.loading => \E c \in calls : c.live /\ c.account = view.selected
Awaited ==
  \A c \in calls : /\ c.at = "gc" => c.account \in connecting
                   /\ c.at = "fetch" => inflight[c.account] # NoFetch

\* The page does not make do with an inventory that lacks the coordinator's
\* data: neither from the cache, nor from a fetch it joins, nor from one of
\* before the account was logged in again.
NeverWithoutGc == view.items # NoCache => view.items.gc

InventoryKept == ShowsSelected /\ LoadingIsAwaited /\ Awaited /\ NeverWithoutGc

\* What the four rest on: at most one call is live, and it is of the selected
\* account, which the page says it is loading; and whatever was fetched, or is
\* being fetched, has the coordinator's data, as no fetch begins before the
\* coordinator was there.
Snapshots == [source : {"community", "gc"}, gc : BOOLEAN, fresh : BOOLEAN]
Whole == {s \in Snapshots : s.gc} \cup {NoCache}
Calls == [account : Viewers, live : BOOLEAN, force : BOOLEAN, at : {"gc", "fetch", "old", "vain"}]
Views == [selected : Viewers \cup {Nobody}, loaded : Viewers \cup {Nobody}, items : Whole,
          loading : BOOLEAN, error : BOOLEAN]

Waits(cs, v) ==
  /\ cs \subseteq Calls /\ v \in Views
  /\ \A c \in cs : c.live => v.loading /\ c.account = v.selected
  /\ \A c, d \in cs : c.live /\ d.live => c = d
  /\ v.loading => \E c \in cs : c.live
  /\ v.items # NoCache => v.loaded = v.selected

Sessions ==
  /\ gc \in [Viewers -> BOOLEAN] /\ out \subseteq Viewers /\ online \subseteq Viewers
  /\ terminal \subseteq holds
  /\ \A a \in Viewers : /\ a \in out => a \notin online /\ ~gc[a]
                        /\ gc[a] => a \in holds

Fetched ==
  /\ cache \in [Viewers -> Whole] /\ inflight \in [Viewers -> {NoFetch, [gc |-> TRUE]}]
  /\ cooling \in [Viewers -> BOOLEAN]
  /\ \A c \in calls : c.at = "old" => c.force

InventoryInv == Sessions /\ Fetched /\ Waits(calls, view) /\ Awaited
=============================================================================
