----------------------------- MODULE MarketQuery -----------------------------
(***************************************************************************)
(* What the server answers about an item of the market: the search in the  *)
(* names of two games (src/market/index.ts), the item's number, by which   *)
(* Steam knows it (nameids.ts), and the prices, asked for step by step     *)
(* (client.ts, fetchMarketContext).  Queries run side by side.             *)
(*                                                                         *)
(* A number is right or wrong; it is wrong only when the user gave it.     *)
(***************************************************************************)
EXTENDS Integers, Sequences, FiniteSets

CONSTANTS Queries, MaxQueries

\* Assumed of them.
MarketQueryConstants == MaxQueries \in Nat

VARIABLES
  dbFile,      \* the file of numbers is there
  dbCache,     \* "none", "loading", or what it was loaded as: "full", "empty"
  downloads,   \* how often it was asked for
  numbers,     \* the number remembered for the item: "none", "right", "wrong"
  queries,     \* by query: what it asks for, where it is and what it has so far
  asked,       \* bound of the model
  mistaken     \* history: the user gave a wrong number

marketQueryVars == <<dbFile, dbCache, downloads, numbers, queries, asked, mistaken>>

Idle == [at |-> "idle"]
Moves(q, stage) == queries' = [queries EXCEPT ![q] = [@ EXCEPT !.at = stage]]
Parts == {"book", "overview"}

-----------------------------------------------------------------------------
(* The search: of the places in the answer the second game keeps some.     *)

SearchLimit == 4
TF2Slots == 2
Least(a, b) == IF a < b THEN a ELSE b
Most(a, b) == IF a > b THEN a ELSE b
SlotsOf(cs2, tf2) == Least(tf2, Most(TF2Slots, SearchLimit - cs2))
\* How many of each game are in the answer when so many were found.
Merged(cs2, tf2) == <<Least(cs2, SearchLimit - SlotsOf(cs2, tf2)), SlotsOf(cs2, tf2)>>

-----------------------------------------------------------------------------
(* The item's number: given, remembered, or in the file; the file is       *)
(* loaded once, from the net when it is not there, and never again.        *)

Begin(q) ==
  /\ asked < MaxQueries /\ asked' = asked + 1 /\ queries[q] = Idle
  /\ \E manual \in {"none", "right", "wrong"} :
       /\ mistaken' = (mistaken \/ manual = "wrong")
       /\ LET number == IF manual # "none" THEN manual ELSE numbers IN
          queries' = [queries EXCEPT ![q] = [at |-> IF number = "none" THEN "resolve" ELSE "book", number |-> number,
                                             tries |-> 0, got |-> {}, issues |-> {}]]
  /\ UNCHANGED <<dbFile, dbCache, downloads, numbers>>

\* Mutant: the load is noted when it is done.
FromDbTwice(q) ==
  /\ queries[q].at = "resolve" /\ UNCHANGED <<dbFile, numbers, asked, mistaken>>
  /\ \/ dbCache \in {"none", "loading"} /\ dbCache' = (IF dbFile THEN "full" ELSE "loading")
        /\ downloads' = (IF dbFile THEN downloads ELSE downloads + 1)
        /\ Moves(q, IF dbFile THEN "loaded" ELSE "waiting")
     \/ dbCache \in {"full", "empty"} /\ Moves(q, "loaded") /\ UNCHANGED <<dbCache, downloads>>
FromDb(q) ==
  /\ queries[q].at = "resolve" /\ UNCHANGED <<dbFile, numbers, asked, mistaken>>
  /\ \/ dbCache = "none" /\ dbFile /\ dbCache' = "full" /\ Moves(q, "loaded") /\ UNCHANGED downloads
     \/ dbCache = "none" /\ ~dbFile /\ dbCache' = "loading" /\ downloads' = downloads + 1 /\ Moves(q, "waiting")
     \/ dbCache = "loading" /\ Moves(q, "waiting") /\ UNCHANGED <<dbCache, downloads>>
     \/ dbCache \in {"full", "empty"} /\ Moves(q, "loaded") /\ UNCHANGED <<dbCache, downloads>>

\* The download ends: everybody who waited for it goes on.  A failed one counts
\* as a file without entries, until the program is started again.
Downloaded ==
  /\ dbCache = "loading" /\ \E ok \in BOOLEAN : dbCache' = (IF ok THEN "full" ELSE "empty")
  /\ dbFile' \in (IF dbCache' = "full" THEN {FALSE, TRUE} ELSE {FALSE})     \* it may not be written
  /\ queries' = [q \in Queries |-> IF queries[q].at = "waiting" THEN [queries[q] EXCEPT !.at = "loaded"] ELSE queries[q]]
  /\ UNCHANGED <<downloads, numbers, asked, mistaken>>

\* Not every item is in the file.  Without a number the item's page is asked.
Resolve(q) ==
  /\ queries[q].at = "loaded"
  /\ \/ dbCache = "full" /\ queries' = [queries EXCEPT ![q] = [@ EXCEPT !.at = "book", !.number = "right"]]
     \/ Moves(q, "page")
  /\ UNCHANGED <<dbFile, dbCache, downloads, numbers, asked, mistaken>>
AskItemPage(q) ==
  /\ queries[q].at = "page"
  /\ \/ queries' = [queries EXCEPT ![q] = [@ EXCEPT !.at = "book", !.number = "right"]]
     \/ queries' = [queries EXCEPT ![q] = [@ EXCEPT !.at = "overview", !.issues = {"book"}]]
  /\ UNCHANGED <<dbFile, dbCache, downloads, numbers, asked, mistaken>>

-----------------------------------------------------------------------------
(* The prices: each part is asked for once more after a 429; a part that   *)
(* is missing has its reason in issues.  A wrong number finds no book.     *)

After == [book |-> "overview", overview |-> "end"]
Got(r, part) == [r EXCEPT !.at = After[part], !.tries = 0, !.got = @ \cup {part}]
Missing(r, part) == [r EXCEPT !.at = After[part], !.tries = 0, !.issues = @ \cup {part}]
\* Mutant: the second 429 says nothing.
SilentLimit(r, part) == IF r.tries = 0 THEN [r EXCEPT !.tries = 1] ELSE [r EXCEPT !.at = After[part], !.tries = 0]
Limited(r, part) == IF r.tries = 0 THEN [r EXCEPT !.tries = 1] ELSE Missing(r, part)

ContextJson(q) ==
  /\ \E part \in Parts :
       /\ queries[q].at = part
       /\ \E next \in {Missing(queries[q], part), Limited(queries[q], part)}
                      \cup (IF part = "book" /\ queries[q].number = "wrong" THEN {} ELSE {Got(queries[q], part)}) :
            queries' = [queries EXCEPT ![q] = next]
  /\ UNCHANGED <<dbFile, dbCache, downloads, numbers, asked, mistaken>>

\* The number is remembered, whatever came of it.
Remember(q) ==
  /\ queries[q].at = "end" /\ queries' = [queries EXCEPT ![q] = Idle]
  /\ numbers' = IF queries[q].number = "none" THEN numbers ELSE queries[q].number
  /\ UNCHANGED <<dbFile, dbCache, downloads, asked, mistaken>>

-----------------------------------------------------------------------------
MarketQueryInit ==
  /\ dbFile \in BOOLEAN /\ dbCache = "none" /\ downloads = 0 /\ numbers = "none"
  /\ queries = [q \in Queries |-> Idle] /\ asked = 0 /\ mistaken = FALSE
MarketQueryNext ==
  \/ Downloaded
  \/ \E q \in Queries : Begin(q) \/ FromDb(q) \/ Resolve(q) \/ AskItemPage(q) \/ ContextJson(q) \/ Remember(q)
MarketQuerySpec == MarketQueryInit /\ [][MarketQueryNext]_marketQueryVars

-----------------------------------------------------------------------------
\* Every part of an answer is there or has its reason; a number never asked for
\* by hand is right; the file is asked for at most once however many queries
\* need it; and the answer to a search is full when it can be, and never
\* without the second game.
QueryExplained ==
  /\ \A q \in Queries : queries[q].at = "end" => queries[q].got = Parts \ queries[q].issues
  /\ numbers = "wrong" => mistaken
  /\ downloads <= 1
  /\ \A cs2, tf2 \in 0..SearchLimit : LET m == Merged(cs2, tf2) IN
       /\ m[1] + m[2] = Least(SearchLimit, cs2 + tf2)
       /\ tf2 > 0 => m[2] > 0
=============================================================================
