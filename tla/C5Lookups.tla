------------------------------ MODULE C5Lookups ------------------------------
(***************************************************************************)
(* What the sweeper's server looks up for its page (src/c5/index.ts): the  *)
(* Steam accounts bound to the C5 account (kept five minutes), the prices  *)
(* of what is searched (30 seconds), the balance, and the trade link of    *)
(* the account that receives.  All of it belongs to the C5 account of the  *)
(* app-key, which the user may change while an answer is on its way.       *)
(*                                                                         *)
(* An app-key is a number, 0 for none; what is looked up is the number of  *)
(* the key it was asked with.                                              *)
(***************************************************************************)
EXTENDS Integers, FiniteSets

CONSTANTS Bound, MaxKeys, MaxLookups     \* Steam accounts; bounds of the model

\* Assumed of them.
C5LookupConstants == {MaxKeys, MaxLookups} \subseteq Nat

VARIABLES
  appKey, keys,      \* the key, and how many there were
  boundAccounts,     \* [of: whose they are, fresh], {} if not looked up
  priceCache,        \* likewise, for the item that is searched
  balanceOf,         \* whose balance is shown, 0 if none
  links,             \* accounts whose trade link was noted
  sessions,          \* accounts the tool has a web session of
  lookups,           \* requests to C5 and Steam on their way
  answers,           \* what was answered last, by kind
  begun,             \* bound of the model
  crossed            \* history: a key was changed under a request on its way

c5LookupVars == <<appKey, keys, boundAccounts, priceCache, balanceOf, links, sessions, lookups, answers, begun, crossed>>
cacheVars == <<boundAccounts, priceCache, balanceOf>>

Fresh(cache) == \E c \in cache : c.fresh
NoAnswer == [error |-> FALSE, of |-> {}]

-----------------------------------------------------------------------------
\* Mutant: what was bound to the account of the old key stays.
KeyKeepsBound(key) ==
  /\ appKey' = key /\ priceCache' = {} /\ UNCHANGED boundAccounts
  /\ crossed' = (crossed \/ \E r \in lookups : r.kind # "url")
\* A new key, or none: accounts and prices are to be looked up again.
KeyChanges(key) ==
  /\ appKey' = key /\ boundAccounts' = {} /\ priceCache' = {}
  /\ crossed' = (crossed \/ \E r \in lookups : r.kind # "url")
SaveKey ==
  /\ \/ keys < MaxKeys /\ keys' = keys + 1 /\ KeyChanges(keys')
     \/ appKey # 0 /\ KeyChanges(0) /\ UNCHANGED keys
  /\ UNCHANGED <<balanceOf, links, sessions, lookups, answers, begun>>

Stale(cache) == {[c EXCEPT !.fresh = FALSE] : c \in cache}
TimePasses ==
  /\ \/ Fresh(boundAccounts) /\ boundAccounts' = Stale(boundAccounts) /\ UNCHANGED priceCache
     \/ Fresh(priceCache) /\ priceCache' = Stale(priceCache) /\ UNCHANGED boundAccounts
  /\ UNCHANGED <<appKey, keys, balanceOf, links, sessions, lookups, answers, begun, crossed>>
SessionComesOrGoes ==
  /\ \E a \in Bound : sessions' = IF a \in sessions THEN sessions \ {a} ELSE sessions \cup {a}
  /\ UNCHANGED <<appKey, keys, cacheVars, links, lookups, answers, begun, crossed>>

-----------------------------------------------------------------------------
Answer(kind, answer) == answers' = [answers EXCEPT ![kind] = answer]
Given(cache) == [error |-> FALSE, of |-> {c.of : c \in cache}]
Failed(cache) == [error |-> TRUE, of |-> {c.of : c \in cache}]
Asks(kind, extra) == lookups' = lookups \cup {[kind |-> kind, of |-> appKey, no |-> begun, extra |-> extra]}
Begins == begun < MaxLookups /\ begun' = begun + 1

\* receivers: looked up when the answer is not fresh; without a key what is
\* there, with the reason.
Receivers ==
  /\ Begins
  /\ \/ appKey # 0 /\ ~Fresh(boundAccounts) /\ Asks("receivers", 0) /\ UNCHANGED answers
     \/ appKey # 0 /\ Fresh(boundAccounts) /\ Answer("receivers", Given(boundAccounts)) /\ UNCHANGED lookups
     \/ appKey = 0 /\ Answer("receivers", Failed(boundAccounts)) /\ UNCHANGED lookups
  /\ UNCHANGED <<appKey, keys, cacheVars, links, sessions, crossed>>

\* searchNames: a search without prices when there is no key.
SearchNames ==
  /\ Begins
  /\ \/ appKey # 0 /\ ~Fresh(priceCache) /\ Asks("names", 0) /\ UNCHANGED answers
     \/ appKey # 0 /\ Fresh(priceCache) /\ Answer("names", Given(priceCache)) /\ UNCHANGED lookups
     \/ appKey = 0 /\ Answer("names", NoAnswer) /\ UNCHANGED lookups
  /\ UNCHANGED <<appKey, keys, cacheVars, links, sessions, crossed>>

\* check: the balance, then the accounts, both with the client it began with.
Check == Begins /\ appKey # 0 /\ Asks("check", 0)
         /\ UNCHANGED <<appKey, keys, cacheVars, links, sessions, answers, crossed>>

Keep(r) == {[of |-> r.of, fresh |-> TRUE]}
GotAccounts(r) ==
  /\ r.kind = "receivers" /\ lookups' = lookups \ {r} /\ UNCHANGED <<priceCache, balanceOf>>
  /\ \/ boundAccounts' = Keep(r) /\ Answer("receivers", Given(boundAccounts'))
     \/ UNCHANGED boundAccounts /\ Answer("receivers", Failed(boundAccounts))
GotPrices(r) ==
  /\ r.kind = "names" /\ lookups' = lookups \ {r} /\ UNCHANGED <<boundAccounts, balanceOf>>
  /\ \/ priceCache' = Keep(r) /\ Answer("names", Given(priceCache'))
     \/ UNCHANGED priceCache /\ Answer("names", Failed(priceCache))
\* loadBoundAccounts asks with the client of now, the balance came with its own.
GotBalance(r) ==
  /\ r.kind = "check" /\ UNCHANGED <<boundAccounts, priceCache, balanceOf, answers>>
  /\ lookups' \in {lookups \ {r}, (lookups \ {r}) \cup {[kind |-> "steam", of |-> appKey, no |-> r.no, extra |-> r.of]}}
GotChecked(r) ==
  /\ r.kind = "steam" /\ lookups' = lookups \ {r} /\ UNCHANGED <<priceCache, answers>>
  /\ \/ r.of # 0 /\ boundAccounts' = Keep(r) /\ balanceOf' = r.extra
     \/ UNCHANGED <<boundAccounts, balanceOf>>
LookedUp ==
  /\ \E r \in lookups : GotAccounts(r) \/ GotPrices(r) \/ GotBalance(r) \/ GotChecked(r)
  /\ UNCHANGED <<appKey, keys, links, sessions, begun, crossed>>

-----------------------------------------------------------------------------
\* tradeUrlFor: with a session Steam is asked, what was noted before is the way
\* out; otherwise what was noted; 409 when there is nothing.
Linked(a, known, warned) == [account |-> a, kind |-> IF ~known THEN "409" ELSE IF warned THEN "warned" ELSE "link"]
TradeUrlFor ==
  /\ Begins /\ \E a \in Bound :
       IF a \in sessions
       THEN lookups' = lookups \cup {[kind |-> "url", of |-> a, no |-> begun, extra |-> IF a \in links THEN 1 ELSE 0]} /\ UNCHANGED answers
       ELSE Answer("url", Linked(a, a \in links, FALSE)) /\ UNCHANGED lookups
  /\ UNCHANGED <<appKey, keys, cacheVars, links, sessions, crossed>>
\* Mutant: a link that was fetched is not noted.
NotNoted(r) == links
Noted(r) == links \cup {r.of}
GotTradeUrl ==
  /\ \E r \in lookups :
       /\ r.kind = "url" /\ lookups' = lookups \ {r}
       /\ \/ links' = Noted(r) /\ Answer("url", Linked(r.of, TRUE, FALSE))
          \/ UNCHANGED links /\ Answer("url", Linked(r.of, r.extra = 1, TRUE))
  /\ UNCHANGED <<appKey, keys, cacheVars, sessions, begun, crossed>>

\* saveSettings: a link pasted or fetched is noted when it is saved.
SaveTradeUrl ==
  /\ \E a \in Bound \ links : links' = links \cup {a}
  /\ UNCHANGED <<appKey, keys, cacheVars, sessions, lookups, answers, begun, crossed>>

-----------------------------------------------------------------------------
C5LookupInit ==
  /\ appKey = 0 /\ keys = 0 /\ boundAccounts = {} /\ priceCache = {} /\ balanceOf = 0
  /\ links = {} /\ sessions \in SUBSET Bound /\ lookups = {} /\ begun = 0 /\ crossed = FALSE
  /\ answers = [receivers |-> NoAnswer, names |-> NoAnswer, url |-> [account |-> 0, kind |-> "none"]]
C5LookupNext == \/ SaveKey \/ TimePasses \/ SessionComesOrGoes \/ Receivers \/ SearchNames \/ Check \/ LookedUp
                \/ TradeUrlFor \/ GotTradeUrl \/ SaveTradeUrl
C5LookupSpec == C5LookupInit /\ [][C5LookupNext]_c5LookupVars

-----------------------------------------------------------------------------
\* What is kept was asked for with the key there is, as long as no key was
\* changed under a request; and an account whose link was got from Steam is never
\* asked for it again.
LookupsKept ==
  /\ ~crossed => \A c \in boundAccounts \cup priceCache : c.of = appKey
  /\ answers.url.kind = "link" => answers.url.account \in links

\* A change of the key clears them ("换 app-key 时清掉", c5/index.ts:211; "换了 C5
\* 账户:绑定的 Steam 账号、价格都要重查", 486).
ClearedWithKey == \A c \in boundAccounts \cup priceCache : c.of = appKey
=============================================================================
