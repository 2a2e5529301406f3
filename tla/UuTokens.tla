------------------------------- MODULE UuTokens -------------------------------
(***************************************************************************)
(* The UU tokens: how one is got (by a text message, or pasted), kept,     *)
(* bound to a Steam account, and deleted (src/uu/index.ts and              *)
(* src/store/uu.ts), and the page that binds by itself what matches        *)
(* (web/src/stores/uu.ts).                                                 *)
(*                                                                         *)
(* A token is the UU user it was issued to and its number; to bind one,    *)
(* the service first has UU check it.  UU users are numbers, in the order  *)
(* of the list of tokens.                                                  *)
(***************************************************************************)
EXTENDS Integers, FiniteSets

CONSTANTS
  Users,       \* UU users, numbered
  Holders,     \* Steam accounts of the tool
  SteamOf,     \* the Steam account each UU user has at UU
  MaxTokens,   \* bounds of the model: tokens issued, and what the user asks for
  MaxWishes,
  Nobody, NoToken, NoRead

\* Assumed of them.
TokenConstants ==
  /\ Users \subseteq Nat /\ Nobody \notin Holders /\ SteamOf \in [Users -> Holders]
  /\ {MaxTokens, MaxWishes} \subseteq Nat

VARIABLES
  list,        \* uu_tokens: by user, the number and whether its account is known
  held,        \* state.token of each account
  binds,       \* calls of bindToken while UU checks the token
  flows,       \* ways to a token under way: login sessions, and tokens looked up
  issued,      \* tokens issued so far
  page,        \* the page: what it shows and which requests it waits for
  removed,     \* history: users deleted from an account, and not got again since
  wishes       \* bound of the model

tokenVars == <<list, held, binds, flows, issued, page, removed, wishes>>

Token(u, n) == [user |-> u, n |-> n]
Wish == wishes < MaxWishes /\ wishes' = wishes + 1

-----------------------------------------------------------------------------
(***************************************************************************)
(* The page binds a token to the account it matches, if it shows that      *)
(* account without one, in rounds that follow one another: page.todo is    *)
(* the rest of the round under way, page.runs the rounds that wait.        *)
(***************************************************************************)
Bound == {a \in Holders : held[a] # NoToken}
Matching == {u \in Users : list[u].n # 0 /\ list[u].linked}

autoBindCandidates(p) ==
  {u \in p.tokens : SteamOf[u] \notin p.bound
     /\ \A v \in p.tokens : SteamOf[v] = SteamOf[u] => u <= v}

\* A round that waits does what any more of them would.
More(runs) == IF runs < 1 THEN runs + 1 ELSE runs

\* The watch of startUu: other candidates, another round.
Watched(p) ==
  IF autoBindCandidates(p) \notin {autoBindCandidates(page), {}} /\ p.tokensLoaded
  THEN [p EXCEPT !.runs = More(@)] ELSE p

\* uu:update, and the account in an answer.
Merged(p, a, is) == [p EXCEPT !.bound = IF is THEN @ \cup {a} ELSE @ \ {a}]

\* refreshState runs once more when it is called while it runs.
Refresh(p) == IF p.read = NoRead THEN [p EXCEPT !.read = {Nobody}] ELSE [p EXCEPT !.again = TRUE]
\* refreshTokens, and refreshState some time after the tokens are read.
RefreshBoth(p) == [p EXCEPT !.asked = TRUE, !.next = TRUE]

RefreshNext ==
  /\ page.next /\ ~page.asked /\ page' = Refresh([page EXCEPT !.next = FALSE])
  /\ UNCHANGED <<list, held, binds, flows, issued, removed, wishes>>

EnterUu ==
  /\ Wish
  /\ page' = [(IF page.loaded THEN page ELSE Refresh(page)) EXCEPT !.asked = @ \/ ~page.tokensLoaded]
  /\ UNCHANGED <<list, held, binds, flows, issued, removed>>

\* {Nobody} stands for a request that has not reached the service.
StateIsRead ==
  /\ page.read = {Nobody} /\ page' = [page EXCEPT !.read = Bound]
  /\ UNCHANGED <<list, held, binds, flows, issued, removed, wishes>>

StateReply ==
  /\ page.read \notin {NoRead, {Nobody}}
  /\ LET done == [page EXCEPT !.read = IF page.again THEN {Nobody} ELSE NoRead, !.again = FALSE]
     IN page' \in {done, Watched([done EXCEPT !.bound = page.read, !.loaded = TRUE])}
  /\ UNCHANGED <<list, held, binds, flows, issued, removed, wishes>>

TokensReply ==
  /\ page.asked
  /\ \E tokens \in {Matching, page.tokens} :
       page' = Watched([page EXCEPT !.asked = FALSE, !.tokens = tokens, !.tokensLoaded = TRUE,
                                    !.runs = More(@)])
  /\ UNCHANGED <<list, held, binds, flows, issued, removed, wishes>>

\* A round of bindCandidates: nothing before the state is known.
RunBegins ==
  /\ page.runs > 0 /\ page.todo = {} /\ ~page.waits
  /\ page' = [page EXCEPT !.runs = @ - 1,
                !.todo = IF page.loaded THEN autoBindCandidates(page) ELSE {}]
  /\ UNCHANGED <<list, held, binds, flows, issued, removed, wishes>>

Call(a, t, auto) == [account |-> a, token |-> t, auto |-> auto, late |-> FALSE]

\* bind by id: the service takes the token from its list, if it still has it.
AutoBind ==
  /\ page.todo # {} /\ ~page.waits
  /\ LET u == CHOOSE v \in page.todo : \A w \in page.todo : v <= w
     IN IF list[u].n = 0
        THEN page' = [page EXCEPT !.todo = @ \ {u}] /\ UNCHANGED binds
        ELSE /\ binds' = binds \cup {Call(SteamOf[u], Token(u, list[u].n), TRUE)}
             /\ page' = [page EXCEPT !.todo = @ \ {u}, !.waits = TRUE]
  /\ UNCHANGED <<list, held, flows, issued, removed, wishes>>

-----------------------------------------------------------------------------
(***************************************************************************)
(* bindToken: UU knows the token or does not.  An account deleted while    *)
(* UU was asked gets its token all the same; removed forgets such a pair.  *)
(***************************************************************************)
AfterBind(p, b) ==
  IF ~b.auto THEN p ELSE LET q == [p EXCEPT !.waits = FALSE] IN IF q.todo = {} THEN Refresh(q) ELSE q

BindReplies(b) ==
  /\ b \in binds /\ binds' = binds \ {b}
  /\ \/ /\ held' = [held EXCEPT ![b.account] = b.token]
        /\ page' = Watched(AfterBind(Merged(page, b.account, TRUE), b))
        /\ removed' = IF b.late THEN removed \ {<<b.account, b.token.user>>} ELSE removed
     \/ page' = AfterBind(page, b) /\ UNCHANGED <<held, removed>>
  /\ UNCHANGED <<list, flows, issued, wishes>>

\* By a message to or from the phone, or by hand.
LoginWays == {"sent", "pasted"}

\* The modal, opened for an account or for none.
LoginStart ==
  /\ Wish /\ issued + Cardinality(flows) < MaxTokens
  /\ \E u \in Users, a \in Holders \cup {Nobody}, phase \in LoginWays :
       flows' = flows \cup {[phase |-> phase, user |-> u, account |-> a]}
  /\ UNCHANGED <<list, held, binds, issued, page, removed>>

\* A login session ends unused: cancelled, or too old.
LoginEnds(f) ==
  /\ f \in flows /\ f.phase = "sent" /\ flows' = flows \ {f}
  /\ UNCHANGED <<list, held, binds, issued, page, removed, wishes>>

\* The code is right, and the session is used up.
LoginVerify(f) ==
  /\ f \in flows /\ f.phase = "sent"
  /\ flows' = (flows \ {f}) \cup {[f EXCEPT !.phase = "got"]}
  /\ UNCHANGED <<list, held, binds, issued, page, removed, wishes>>

\* bind with the token itself: it does not go to the list.
PasteBound(f) ==
  /\ f \in flows /\ f.phase = "pasted" /\ f.account # Nobody
  /\ flows' = flows \ {f} /\ issued' = issued + 1
  /\ binds' = binds \cup {Call(f.account, Token(f.user, issued'), FALSE)}
  /\ removed' = removed \ {<<f.account, f.user>>}
  /\ page' = RefreshBoth(page)
  /\ UNCHANGED <<list, held, wishes>>

\* The Steam account of a token: UU may not tell.
SteamKnown == BOOLEAN

\* describeToken and upsertToken.  After a login the token goes to the account
\* the modal was opened for, or to the one of the user if that is logged in.
Acquire(f) ==
  /\ f \in flows /\ (f.phase = "got" \/ (f.phase = "pasted" /\ f.account = Nobody))
  /\ flows' = flows \ {f} /\ issued' = issued + 1
  /\ removed' = {r \in removed : r[2] # f.user}
  /\ page' = RefreshBoth(page)
  /\ \E linked \in SteamKnown :
       /\ list' = [list EXCEPT ![f.user] = [n |-> issued', linked |-> linked]]
       /\ \E a \in IF f.phase = "pasted" THEN {Nobody}
                   ELSE IF f.account # Nobody THEN {f.account}
                   ELSE {Nobody} \cup (IF linked THEN {SteamOf[f.user]} ELSE {}) :
            binds' = IF a = Nobody THEN binds
                     ELSE binds \cup {Call(a, Token(f.user, issued'), FALSE)}
  /\ UNCHANGED <<held, wishes>>

-----------------------------------------------------------------------------
NotListed == [n |-> 0, linked |-> FALSE]
Without(S) == [u \in Users |-> IF u \in S THEN NotListed ELSE list[u]]

\* Mutant: only the very token of the account goes.
WithoutToken(t) == Without({u \in Users : u = t.user /\ list[u].n = t.n})

\* Every token of that user goes: one of them may be newer than the one bound.
WithoutUser(t) == Without({t.user})

DeleteAccountToken(a) ==
  /\ Wish /\ held[a] # NoToken
  /\ held' = [held EXCEPT ![a] = NoToken]
  /\ list' = WithoutUser(held[a])
  /\ removed' = removed \cup {<<a, held[a].user>>}
  /\ binds' = {[b EXCEPT !.late = @ \/ (b.account = a /\ b.token.user = held[a].user)] : b \in binds}
  /\ page' = Watched(RefreshBoth(Merged(page, a, FALSE)))
  /\ UNCHANGED <<flows, issued>>

DeleteTokenById(u) ==
  /\ Wish /\ list[u].n # 0
  /\ list' = Without({u}) /\ page' = RefreshBoth(page)
  /\ UNCHANGED <<held, binds, flows, issued, removed>>

\* What was bound and listed is on the disk; what waited is gone.
UuRestart ==
  /\ Wish /\ binds' = {} /\ flows' = {}
  /\ page' = [page EXCEPT !.waits = FALSE]
  /\ UNCHANGED <<list, held, issued, removed>>

TokensInit ==
  /\ list = [u \in Users |-> NotListed] /\ held = [a \in Holders |-> NoToken]
  /\ binds = {} /\ flows = {} /\ issued = 0 /\ removed = {} /\ wishes = 0
  /\ page = [bound |-> {}, loaded |-> FALSE, tokens |-> {}, tokensLoaded |-> FALSE,
             read |-> NoRead, again |-> FALSE, asked |-> FALSE, next |-> FALSE,
             runs |-> 0, todo |-> {}, waits |-> FALSE]

TokensNext ==
  \/ EnterUu \/ RefreshNext \/ StateIsRead \/ StateReply \/ TokensReply \/ RunBegins \/ AutoBind
  \/ \E b \in binds : BindReplies(b)
  \/ LoginStart
  \/ \E f \in flows : LoginEnds(f) \/ LoginVerify(f) \/ PasteBound(f) \/ Acquire(f)
  \/ \E a \in Holders : DeleteAccountToken(a)
  \/ \E u \in Users : DeleteTokenById(u)
  \/ UuRestart

TokensSpec == TokensInit /\ [][TokensNext]_tokenVars

-----------------------------------------------------------------------------
UuTokensTypeOK ==
  /\ \A u \in Users : list[u] \in [n : 0..issued, linked : BOOLEAN]
  /\ held \in [Holders -> [user : Users, n : 1..issued] \cup {NoToken}]
  /\ \A b \in binds : b.account \in Holders /\ b.token.n \in 1..issued
  /\ page.bound \subseteq Holders /\ page.todo \cup page.tokens \subseteq Users

\* The tokens of a user deleted with an account do not come back to it by
\* themselves, whatever is left of them, on the page or at the service: only a
\* bind under way at that moment brings one back, or the user who gets one anew.
DeletedStaysAway == \A r \in removed : held[r[1]] = NoToken \/ held[r[1]].user # r[2]

\* The page never binds two tokens at a time, nor one twice, however often it is
\* told to: a second round would not know what the first one binds.
OneAutoBind == Cardinality({b \in binds : b.auto}) <= 1

TokensKept == DeletedStaysAway /\ OneAutoBind

Calls == [account : Holders, token : [user : Users, n : 1..issued], auto : BOOLEAN, late : BOOLEAN]
Flows == [phase : LoginWays \cup {"got"}, user : Users, account : Holders \cup {Nobody}]
Pages == [bound : SUBSET Holders, loaded : BOOLEAN, tokens : SUBSET Users, tokensLoaded : BOOLEAN,
          read : (SUBSET Holders) \cup {NoRead, {Nobody}}, again : BOOLEAN, asked : BOOLEAN, next : BOOLEAN,
          runs : Nat, todo : SUBSET Users, waits : BOOLEAN]
TokensTyped ==
  /\ issued \in Nat /\ list \in [Users -> [n : 0..issued, linked : BOOLEAN]]
  /\ held \in [Holders -> [user : Users, n : 1..issued] \cup {NoToken}]
  /\ binds \subseteq Calls /\ flows \subseteq Flows /\ page \in Pages /\ removed \subseteq Holders \X Users

\* Why what is deleted stays away: nothing is left on the list, and no bind under
\* way but one the deletion met.
NothingLeft ==
  /\ \A r \in removed : list[r[2]].n = 0
  /\ \A b \in binds : ~b.late => <<b.account, b.token.user>> \notin removed

\* Why the page binds one at a time: it waits for the one it has begun.
OneIsAwaited ==
  /\ \A b \in binds : b.auto => page.waits
  /\ \A b, c \in binds : b.auto /\ c.auto => b = c

\* Inductive.
TokensInv == TokensTyped /\ NothingLeft /\ OneIsAwaited /\ DeletedStaysAway
=============================================================================
