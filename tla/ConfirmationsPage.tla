--------------------------- MODULE ConfirmationsPage ---------------------------
(***************************************************************************)
(* The mobile confirmations of an account, as its page reads and answers   *)
(* them: src/accounts/confirmations.ts over src/steam/confirmations.ts,    *)
(* and ConfirmationsModal.vue.                                             *)
(*                                                                         *)
(* An item waits at Steam until it is answered here or elsewhere (on the   *)
(* phone, by the market orders, by the UU deliveries).  One queue for each *)
(* account orders what is asked of Steam.  The signature, the gap between  *)
(* requests (RequestGate) and what the items say are left out; of the      *)
(* accounts only those with an identity secret and cookies appear.         *)
(***************************************************************************)
EXTENDS Naturals, Sequences, FiniteSets

CONSTANTS
  Holders,        \* accounts
  Items, HolderOf, \* confirmations, and whose they are
  Devices,        \* <<the device ID of the maFile, the computed one>>
  RateWaits,      \* RATE_LIMIT_WAITS_MS: retries after a 429
  MaxAsks,        \* bounds of the model: requests of the pages,
  MaxRefused,     \* and requests Steam refuses or limits
  Nobody, NoList

\* Assumed of them.
ConfirmationConstants ==
  /\ HolderOf \in [Items -> Holders] /\ Nobody \notin Holders
  /\ Devices \in Seq(Nat \ {0}) /\ Devices # <<>> /\ \A m, n \in DOMAIN Devices : Devices[m] = Devices[n] => m = n
  /\ {RateWaits, MaxAsks, MaxRefused} \subseteq Nat

VARIABLES
  waiting,     \* the items that wait at Steam
  lists,       \* by account, the list last read, or NoList
  queues,      \* by account, the operations in their order, the first under way
  working,     \* workingDeviceIds: by account, the device ID that last worked, or 0
  replies,     \* replies on their way to the page
  page,        \* the modal: account, list, loading, busy
  answered,    \* history: items answered from here
  unheard,     \* history: items answered from here, of which the reply was lost
  asks         \* bounds of the model

confVars == <<waiting, lists, queues, working, replies, page, answered, unheard, asks>>

Of(a) == {i \in Items : HolderOf[i] = a}
Closed == [account |-> Nobody, list |-> NoList, loading |-> FALSE, busy |-> FALSE]

-----------------------------------------------------------------------------
(***************************************************************************)
(* The server.                                                             *)
(***************************************************************************)
\* deviceIds of openSession: the one that worked, then the others in order.
DeviceOrder(a) ==
  IF working[a] = 0 THEN Devices
  ELSE LET at == CHOOSE n \in DOMAIN Devices : Devices[n] = working[a]
       IN [n \in DOMAIN Devices |-> IF n = 1 THEN working[a] ELSE IF n <= at THEN Devices[n - 1] ELSE Devices[n]]

\* An operation; live as long as the page waits for it.
Op(kind, ids, live) ==
  [kind |-> kind, ids |-> ids, live |-> live, at |-> "queued", device |-> 0, tries |-> 0]

\* serial: an operation begins when those before it are done.
Begins(a, k) == k = 1 /\ queues[a][k].at = "queued"

\* A response is only for items of the list last read; an operation opens its
\* session with the first device ID.
Begin(a, k) ==
  LET op == queues[a][k]
      stale == op.kind = "answer" /\ (lists[a] = NoList \/ ~(op.ids \subseteq lists[a]))
  IN /\ Begins(a, k)
     /\ queues' = [queues EXCEPT ![a][k].at = IF stale THEN "failed" ELSE "sent",
                                 ![a][k].device = Head(DeviceOrder(a))]
     /\ UNCHANGED <<waiting, lists, working, replies, page, answered, unheard, asks>>

Sent(a, k) == queues[a][k].at = "sent"

\* Mutant: the device ID that worked is not kept.
ForgetsDevice(a, d) == UNCHANGED working

\* A list that was read makes its device ID the first of the next session.
Remembers(a, d) == working' = [working EXCEPT ![a] = d]

\* fetchConfirmations: Steam sends the list.
ListRead(a, k) ==
  LET op == queues[a][k]
  IN /\ Sent(a, k) /\ op.kind = "list"
     /\ queues' = [queues EXCEPT ![a][k].at = "ok", ![a][k].ids = waiting \cap Of(a)]
     /\ Remembers(a, op.device)
     /\ UNCHANGED <<waiting, lists, replies, page, answered, unheard, asks>>

\* respond: Steam answers all the items or, if one of them waits no longer, none.
\* Its reply may be lost on the way (a timeout), which is a failure here.
AnswersTaken(a, k) ==
  LET op == queues[a][k]
  IN /\ Sent(a, k) /\ op.kind = "answer" /\ op.ids \subseteq waiting
     /\ waiting' = waiting \ op.ids /\ answered' = answered \cup op.ids
     /\ \/ /\ queues' = [queues EXCEPT ![a][k].at = "ok"]
           /\ UNCHANGED unheard
        \/ /\ queues' = [queues EXCEPT ![a][k].at = "failed"]
           /\ unheard' = unheard \cup op.ids
     /\ UNCHANGED <<lists, working, replies, page, asks>>

AnswersRefused(a, k) ==
  LET op == queues[a][k]
  IN /\ Sent(a, k) /\ op.kind = "answer" /\ ~(op.ids \subseteq waiting)
     /\ queues' = [queues EXCEPT ![a][k].at = "failed"]
     /\ UNCHANGED <<waiting, lists, working, replies, page, answered, unheard, asks>>

\* Of the device IDs the ones after d.
After(a, d) ==
  LET order == DeviceOrder(a) IN {order[n + 1] : n \in {m \in 1..(Len(order) - 1) : order[m] = d}}

\* Reading the list is refused: once more with the next device ID, if there is one.
ListRefused(a, k) ==
  LET op == queues[a][k]
  IN /\ Sent(a, k) /\ op.kind = "list"
     /\ asks.refused < MaxRefused /\ asks' = [asks EXCEPT !.refused = @ + 1]
     /\ queues' = [queues EXCEPT ![a][k] =
                     IF After(a, op.device) = {} THEN [op EXCEPT !.at = "failed"]
                     ELSE [op EXCEPT !.device = CHOOSE d \in After(a, op.device) : TRUE]]
     /\ UNCHANGED <<waiting, lists, working, replies, page, answered, unheard>>

\* retryRateLimited: a 429 is tried again RateWaits times; any other failure is one.
LimitedOrFailed(a, k) ==
  LET op == queues[a][k]
  IN /\ Sent(a, k)
     /\ asks.refused < MaxRefused /\ asks' = [asks EXCEPT !.refused = @ + 1]
     /\ \/ op.tries < RateWaits /\ queues' = [queues EXCEPT ![a][k].tries = @ + 1]
        \/ queues' = [queues EXCEPT ![a][k].at = "failed"]
     /\ UNCHANGED <<waiting, lists, working, replies, page, answered, unheard>>

\* The operation is over: the list is the one read, or lacks what was answered;
\* after a failure it stays as it was.
End(a, k) ==
  LET op == queues[a][k]
      ok == op.at = "ok"
      list == IF ~ok THEN lists[a] ELSE IF op.kind = "list" THEN op.ids ELSE lists[a] \ op.ids
  IN /\ op.at \in {"ok", "failed"}
     /\ lists' = [lists EXCEPT ![a] = list]
     /\ queues' = [queues EXCEPT ![a] = SubSeq(@, 1, k - 1) \o SubSeq(@, k + 1, Len(@))]
     /\ replies' = replies \cup {[kind |-> op.kind, ok |-> ok, list |-> list, live |-> op.live]}
     /\ UNCHANGED <<waiting, working, page, answered, unheard, asks>>

\* Lists, queues and device IDs are in memory; what was sent is done or not.
ConfirmationsRestart ==
  LET ops == UNION {{queues[a][k] : k \in DOMAIN queues[a]} : a \in Holders}
      taken == UNION {o.ids : o \in {p \in ops : p.at = "sent" /\ p.kind = "answer"}} \cap waiting
  IN /\ asks.restarts = 0 /\ asks' = [asks EXCEPT !.restarts = 1]
     /\ \E done \in {{}, taken} : /\ waiting' = waiting \ done
                                  /\ answered' = answered \cup done
                                  /\ unheard' = unheard \cup done
     /\ lists' = [a \in Holders |-> NoList] /\ queues' = [a \in Holders |-> <<>>]
     /\ working' = [a \in Holders |-> 0]
     /\ replies' = replies \cup {[kind |-> o.kind, ok |-> FALSE, list |-> NoList, live |-> o.live] : o \in ops}
     /\ UNCHANGED page

\* Answered on the phone, or by another part of the tool.
AnsweredElsewhere(i) ==
  /\ i \in waiting /\ waiting' = waiting \ {i}
  /\ UNCHANGED <<lists, queues, working, replies, page, answered, unheard, asks>>

-----------------------------------------------------------------------------
(***************************************************************************)
(* The page.  A click is not taken while an answer is under way; another   *)
(* browser knows nothing of this one.                                      *)
(***************************************************************************)
Asked == asks.pages < MaxAsks /\ asks' = [asks EXCEPT !.pages = @ + 1]
Ask(a, op) == queues' = [queues EXCEPT ![a] = Append(@, op)]

\* Mutant: the replies to what another account's page asked still count.
StillLive(op) == op
\* generation: whatever was asked before the account changed is dropped.
Dropped(op) == [op EXCEPT !.live = FALSE]

OpenPage(a) ==
  /\ page.account # a /\ Asked
  /\ page' = [Closed EXCEPT !.account = a, !.loading = TRUE]
  /\ replies' = {Dropped(r) : r \in replies}
  /\ queues' = [b \in Holders |->
                  [k \in DOMAIN queues[b] |-> Dropped(queues[b][k])]
                    \o (IF b = a THEN <<Op("list", {}, TRUE)>> ELSE <<>>)]
  /\ UNCHANGED <<waiting, lists, working, answered, unheard>>

ClosePage ==
  /\ page # Closed /\ page' = Closed
  /\ replies' = {Dropped(r) : r \in replies}
  /\ queues' = [b \in Holders |-> [k \in DOMAIN queues[b] |-> Dropped(queues[b][k])]]
  /\ UNCHANGED <<waiting, lists, working, answered, unheard, asks>>

Refresh ==
  /\ page.account # Nobody /\ ~page.loading /\ ~page.busy /\ Asked
  /\ page' = [page EXCEPT !.loading = TRUE]
  /\ Ask(page.account, Op("list", {}, TRUE))
  /\ UNCHANGED <<waiting, lists, working, replies, answered, unheard>>

\* respondOne, respondSelected.
SubmitAnswer ==
  /\ page.list # NoList /\ ~page.busy /\ Asked
  /\ \E ids \in SUBSET page.list \ {{}} : Ask(page.account, Op("answer", ids, TRUE))
  /\ page' = [page EXCEPT !.busy = TRUE]
  /\ UNCHANGED <<waiting, lists, working, replies, answered, unheard>>

AnotherBrowser(a) ==
  /\ Asked
  /\ \/ Ask(a, Op("list", {}, FALSE))
     \/ \E ids \in SUBSET Of(a) \ {{}} : Ask(a, Op("answer", ids, FALSE))
  /\ UNCHANGED <<waiting, lists, working, replies, page, answered, unheard>>

\* load, submit: a failure leaves the list as it was.
ReplyArrives(r) ==
  /\ replies' = replies \ {r}
  /\ page' = IF ~r.live THEN page
             ELSE [page EXCEPT !.list = IF r.ok THEN r.list ELSE @,
                               !.loading = IF r.kind = "list" THEN FALSE ELSE @,
                               !.busy = IF r.kind = "answer" THEN FALSE ELSE @]
  /\ UNCHANGED <<waiting, lists, queues, working, answered, unheard, asks>>

-----------------------------------------------------------------------------
ConfInit ==
  /\ waiting \in SUBSET Items \ {{}}
  /\ lists = [a \in Holders |-> NoList] /\ queues = [a \in Holders |-> <<>>]
  /\ working = [a \in Holders |-> 0] /\ replies = {} /\ page = Closed
  /\ answered = {} /\ unheard = {} /\ asks = [pages |-> 0, refused |-> 0, restarts |-> 0]

OpStep(a, k) ==
  \/ Begin(a, k) \/ ListRead(a, k) \/ AnswersTaken(a, k) \/ AnswersRefused(a, k)
  \/ ListRefused(a, k) \/ LimitedOrFailed(a, k) \/ End(a, k)

ConfNext ==
  \/ \E a \in Holders : (\E k \in DOMAIN queues[a] : OpStep(a, k)) \/ OpenPage(a) \/ AnotherBrowser(a)
  \/ ClosePage \/ Refresh \/ SubmitAnswer
  \/ \E r \in replies : ReplyArrives(r)
  \/ \E i \in Items : AnsweredElsewhere(i)
  \/ ConfirmationsRestart

ConfSpec == ConfInit /\ [][ConfNext]_confVars

-----------------------------------------------------------------------------
Operations(a) == {queues[a][k] : k \in DOMAIN queues[a]}

\* Unless the reply of an answer was lost, an item that was answered is not in
\* the list any more when the next operation looks at it: neither a double
\* click, nor two browsers, nor a list read meanwhile has it sent again.
AnsweredIsGone ==
  \A a \in Holders : \A op \in Operations(a) :
    op.kind = "answer" /\ op.at = "sent" => op.ids \cap answered \subseteq unheard

\* Answers are signed with the device ID the list was last read with.
AnswersAsRead ==
  \A a \in Holders : \A op \in Operations(a) :
    op.kind = "answer" /\ op.at = "sent" => working[a] # 0 /\ op.device = working[a]

\* The page shows items of its account only, whatever was asked before.
PageIsItsAccounts ==
  page.list # NoList => page.account # Nobody /\ page.list \subseteq Of(page.account)

ConfirmationsKept == AnsweredIsGone /\ AnswersAsRead /\ PageIsItsAccounts

DeviceIds == {Devices[n] : n \in DOMAIN Devices}
Kinds == {"list", "answer"}
Ops == [kind : Kinds, ids : SUBSET Items, live : BOOLEAN, at : {"queued", "sent", "ok", "failed"},
        device : {0} \cup DeviceIds, tries : Nat]
ItemLists == (SUBSET Items) \cup {NoList}
Replies == [kind : Kinds, ok : BOOLEAN, list : ItemLists, live : BOOLEAN]
Views == [account : Holders \cup {Nobody}, list : ItemLists, loading : BOOLEAN, busy : BOOLEAN]
ConfTyped ==
  /\ waiting \in SUBSET Items /\ lists \in [Holders -> ItemLists] /\ queues \in [Holders -> Seq(Ops)]
  /\ working \in [Holders -> {0} \cup DeviceIds] /\ replies \subseteq Replies /\ page \in Views

\* What was answered from here waits no longer; and only the first operation of an
\* account has begun.
OneAtATime ==
  /\ waiting \cap answered = {}
  /\ \A a \in Holders : \A k \in DOMAIN queues[a] : k # 1 => queues[a][k].at = "queued"

\* What the list of an account holds was not answered, unless the reply was lost or
\* the answer is about to be taken from the list; and what an operation that has
\* begun may answer or make the list stands so.
Heard(ids) == ids \cap answered \subseteq unheard
ListStands(a) ==
  lists[a] # NoList =>
    /\ lists[a] \subseteq Of(a) /\ working[a] # 0
    /\ \A i \in lists[a] \cap answered : i \in unheard \/ \E op \in Operations(a) : op.kind = "answer" /\ op.at = "ok" /\ i \in op.ids
OpStands(a, op) ==
  /\ op.at # "queued" => op.device # 0
  /\ op.kind = "answer" /\ op.at \in {"sent", "ok"} => lists[a] # NoList /\ op.ids \subseteq lists[a]
  /\ op.kind = "answer" /\ op.at = "sent" => Heard(op.ids) /\ working[a] # 0 /\ op.device = working[a]
  /\ op.kind = "list" /\ op.at = "ok" => op.ids \subseteq Of(a) /\ Heard(op.ids) /\ working[a] # 0
  /\ op.live => page.account = a
ReplyStands(r) == r.live /\ r.ok /\ r.list # NoList => page.account # Nobody /\ r.list \subseteq Of(page.account)

\* Inductive.
ConfInv ==
  /\ ConfTyped /\ OneAtATime /\ PageIsItsAccounts
  /\ \A a \in Holders : ListStands(a) /\ \A op \in Operations(a) : OpStands(a, op)
  /\ \A r \in replies : ReplyStands(r)
=============================================================================
