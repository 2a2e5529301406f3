------------------------------- MODULE Catalogue -------------------------------
(***************************************************************************)
(* The catalogue of what each game sells, with the exchange rates it is    *)
(* compared by: in memory, in a file of its own for each game, and read    *)
(* anew from a game coordinator (src/purchase/catalog.ts, rates.ts).       *)
(*                                                                         *)
(* What a catalogue lists and the rates are numbers, new with every        *)
(* answer; 0 is the empty one.  How a price sheet is taken apart           *)
(* (catalog-items.ts, steam/price-sheet.ts) shows only in the number here: *)
(* see PriceSheet.                                                         *)
(***************************************************************************)
EXTENDS Integers, FiniteSets

CONSTANTS
  MaxCalls,    \* bounds of the model: what the user asks for, at once and in all
  MaxAsked

\* Assumed of them.
CatalogueConstants == {MaxCalls, MaxAsked} \subseteq Nat

VARIABLES
  states,      \* by game, the catalogue in memory: its list and its rates
  files,       \* by game, purchase-catalogs/<game>.json
  rateState,   \* the latest rates since the start, 0 if none
  fresh,       \* whether they are younger than six hours
  calls,       \* refreshRates, buildStaticTf2State and refresh under way
  asked,       \* bound of the model; numbers the lists, and the rates
  overtaken,   \* history: games with rates older than the latest, see RatesFollow
  unsaved      \* history: games whose catalogue is in memory only

catalogueVars == <<states, files, rateState, fresh, calls, asked, overtaken, unsaved>>

GameIds == {"cs2", "tf2"}
emptyState == [list |-> 0, rates |-> 0]
Ask == asked < MaxAsked /\ asked' = asked + 1

-----------------------------------------------------------------------------
\* saveCache: an empty catalogue is not written.
saveCache(file, state) == IF state.list = 0 THEN file ELSE state

\* Mutant: the rates are kept, the catalogues are left alone.
KeepRates(rates) == rateState' = rates /\ fresh' = TRUE /\ UNCHANGED <<states, files, overtaken>>

\* refreshRates: every catalogue in memory gets the new rates, and its file.
NewRates(rates) ==
  /\ rateState' = rates /\ fresh' = TRUE /\ overtaken' = {}
  /\ states' = [g \in GameIds |-> [states[g] EXCEPT !.rates = rates]]
  /\ files' = [g \in GameIds |-> saveCache(files[g], states'[g])]

\* A refresh that has read the rates already goes on with those.
Outdated(S) == {[c EXCEPT !.late = @ \/ c.phase = "query"] : c \in S}

\* ensureRatesLoaded: fresh rates are taken as they are, others fetched first.
Begin(kind) ==
  /\ Ask /\ Cardinality(calls) < MaxCalls
  /\ calls' = calls \cup {[kind |-> kind, id |-> asked', rates |-> rateState, late |-> FALSE,
                           phase |-> IF fresh /\ kind # "rates" THEN "query" ELSE "fetch"]}
  /\ UNCHANGED <<states, files, rateState, fresh, overtaken, unsaved>>

\* The rates arrive, or do not; then a forced refresh is done.
RatesReply(c) ==
  /\ c \in calls /\ c.phase = "fetch"
  /\ \/ /\ NewRates(c.id)
        /\ unsaved' = {g \in unsaved : states[g].list = 0}
        /\ calls' = Outdated(calls \ {c}) \cup
             (IF c.kind = "rates" THEN {} ELSE {[c EXCEPT !.phase = "query", !.rates = c.id]})
     \/ calls' = calls \ {c} /\ UNCHANGED <<states, files, rateState, fresh, overtaken, unsaved>>
  /\ UNCHANGED asked

RatesAge ==
  /\ fresh /\ fresh' = FALSE
  /\ UNCHANGED <<states, files, rateState, calls, asked, overtaken, unsaved>>

-----------------------------------------------------------------------------
\* A list with the rates of before.
Refreshed(game, c, list) ==
  /\ states' = [states EXCEPT ![game] = [list |-> list, rates |-> c.rates]]
  /\ files' = [files EXCEPT ![game] = saveCache(@, states'[game])]
  /\ overtaken' = IF c.late THEN overtaken \cup {game} ELSE overtaken \ {game}
  /\ unsaved' = IF list = 0 THEN unsaved \cup {game} ELSE unsaved \ {game}
  /\ calls' = calls \ {c}
  /\ UNCHANGED <<rateState, fresh, asked>>

\* The TF2 catalogue is made here: the key, priced by the latest price sheet
\* kept and a table.
BuildStaticTf2State(c) ==
  /\ c \in calls /\ c.kind = "tf2" /\ c.phase = "query"
  /\ Refreshed("tf2", c, c.id)

\* buildCatalog: nothing in a sheet may be known, or have a price.
Listed(c) == {0, c.id}

\* The store data of CS2 from an account at the coordinator.
StoreDataReply(c) ==
  /\ c \in calls /\ c.kind = "cs2" /\ c.phase = "query"
  /\ \E list \in Listed(c) : Refreshed("cs2", c, list)

\* No account is online (409), or the coordinator does not answer.
RefreshFails(c) ==
  /\ c \in calls /\ c.kind = "cs2" /\ calls' = calls \ {c}
  /\ UNCHANGED <<states, files, rateState, fresh, asked, overtaken, unsaved>>

\* A catalogue without a list is read from its file, rates and all.
EnsureLoaded(game) ==
  /\ states[game].list = 0 /\ files[game].list # 0
  /\ states' = [states EXCEPT ![game] = files[game]]
  /\ overtaken' = IF files[game].rates = rateState THEN overtaken ELSE overtaken \cup {game}
  /\ unsaved' = unsaved \ {game}
  /\ UNCHANGED <<files, rateState, fresh, calls, asked>>

\* A purchase leaves the list its account got, in memory only.
AdoptStoreData(game) ==
  /\ Ask
  /\ states' = [states EXCEPT ![game] = [list |-> asked', rates |-> rateState]]
  /\ overtaken' = overtaken \ {game} /\ unsaved' = unsaved \cup {game}
  /\ UNCHANGED <<files, rateState, fresh, calls>>

\* After a restart, each catalogue is the one of its file.
Preload ==
  /\ states' = files
  /\ rateState' = 0 /\ fresh' = FALSE /\ calls' = {} /\ overtaken' = GameIds /\ unsaved' = {}
  /\ UNCHANGED <<files, asked>>

CatalogueInit ==
  /\ states = [g \in GameIds |-> emptyState] /\ files = states
  /\ rateState = 0 /\ fresh = FALSE /\ calls = {} /\ asked = 0
  /\ overtaken = {} /\ unsaved = {}

CatalogueNext ==
  \/ \E kind \in {"rates"} \cup GameIds : Begin(kind)
  \/ \E c \in calls : RatesReply(c) \/ BuildStaticTf2State(c) \/ StoreDataReply(c) \/ RefreshFails(c)
  \/ \E game \in GameIds : EnsureLoaded(game) \/ AdoptStoreData(game)
  \/ RatesAge \/ Preload

CatalogueSpec == CatalogueInit /\ [][CatalogueNext]_catalogueVars

-----------------------------------------------------------------------------
CatalogueTypeOK ==
  /\ \A f \in {states, files} : f \in [GameIds -> [list : 0..asked, rates : 0..asked]]
  /\ rateState \in 0..asked /\ overtaken \cup unsaved \subseteq GameIds

\* Every catalogue is compared by the latest rates, whatever is read, bought or
\* reloaded meanwhile, except one read from its file, or refreshed while newer
\* rates came: that one keeps the older ones until the next are fetched.
RatesFollow ==
  \A g \in GameIds \ overtaken : states[g].list # 0 => states[g].rates = rateState

\* The file of a game is what is in memory, so a restart loses nothing, but for a
\* list a purchase left and an empty one.
CatalogueSaved == \A g \in GameIds \ unsaved : files[g] = states[g] \/ states[g].list = 0

CatalogueKept == RatesFollow /\ CatalogueSaved

\* What the two rest on: a refresh that is to go on with the rates it has read, and
\* was not overtaken by newer ones, has the latest.
CallsHonest ==
  /\ calls \subseteq [kind : {"rates"} \cup GameIds, id : 0..asked, rates : 0..asked, late : BOOLEAN,
                      phase : {"query", "fetch"}]
  /\ \A c \in calls : c.phase = "query" /\ ~c.late => c.rates = rateState
CatalogueInv == asked \in Nat /\ CatalogueTypeOK /\ CallsHonest /\ CatalogueKept
=============================================================================
