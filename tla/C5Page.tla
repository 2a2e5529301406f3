------------------------------- MODULE C5Page -------------------------------
(***************************************************************************)
(* The sweeper's page (web/src/stores/c5.ts, lib/c5.ts, C5View): the state *)
(* is polled; the watch list is edited in a draft, which follows the       *)
(* server while it has no changes and is kept while it has; sweeping is    *)
(* started after a dialog, on the list as saved; the account that receives *)
(* is switched by fetching its trade link and saving it.                   *)
(*                                                                         *)
(* A watched item is its target price; the rest of a row goes with it, and *)
(* the order of the rows is left out.  Another page may save a list too.   *)
(***************************************************************************)
EXTENDS Integers

CONSTANTS Goods, Prices, MaxChanges, MaxAsks

\* Assumed of them.
C5PageConstants == Prices \subseteq Nat \ {0} /\ {MaxChanges, MaxAsks} \subseteq Nat

VARIABLES
  server,      \* items (item -> price), run, receiver, and a number of the state
  shown,       \* c5.state: the server's state as the page has it
  drafts,      \* item -> price
  saved,       \* the rows of drafts that have an origName
  savingList, loading,
  dialog,      \* the list the user is asked to start sweeping with, {} if none
  picking,     \* the receiver being switched to, or "none"
  paste,       \* the receiver a trade link is asked for, or "none"
  asks,        \* requests on their way there and back
  edits,       \* history: by item what the user changed and neither saved nor
               \*   discarded; 0 is a row removed
  swallowed,   \* history: an edit made while a save was on its way was lost
  astray,      \* history: another page saved, an answer was lost, or a
               \*   request or an answer was overtaken, or sweeping begun during a save
  mistold,     \* history: sweeping began with another list than was confirmed
  changes, called   \* bounds of the model

pageSide == <<shown, drafts, saved, savingList, loading, dialog, picking, paste>>
c5History == <<edits, swallowed, astray, mistold>>
c5PageVars == <<server, pageSide, asks, c5History, changes, called>>

Receivers == {"a", "b"}
Linked == "a"           \* the other one has no trade link the tool could get

\* draftsDirty: another price, another row, a row that is new.
DirtyIn(d, s, state) == d # state.items \/ s # DOMAIN state.items
Dirty == DirtyIn(drafts, saved, shown)
With(list, g, p) == [h \in DOMAIN list \cup {g} |-> IF h = g THEN p ELSE list[h]]

-----------------------------------------------------------------------------
(* The server.                                                             *)

Becomes(s) == server' = [s EXCEPT !.n = server.n + 1]
Back(r) == asks' = (asks \ {r}) \cup {[r EXCEPT !.phase = "back", !.state = server']}

HandleRead(r) == r.kind = "state" /\ UNCHANGED <<server, mistold, astray>> /\ Back(r)
HandleSave(r) ==
  /\ r.kind = "save" /\ Becomes([server EXCEPT !.items = r.items]) /\ Back(r) /\ UNCHANGED mistold
  /\ astray' = (astray \/ \E q \in asks : q.kind = "run" /\ q.phase = "there" /\ q.no < r.no)
HandleReceiver(r) == r.kind = "receiver" /\ Becomes([server EXCEPT !.receiver = r.receiver]) /\ Back(r) /\ UNCHANGED <<mistold, astray>>
HandleRun(r) ==
  /\ r.kind = "run" /\ UNCHANGED astray /\ Becomes([server EXCEPT !.run = r.run]) /\ Back(r)
  /\ mistold' = (mistold \/ (r.run = "sweeping" /\ r.said # server.items /\ ~astray))
\* The link of an account the tool is logged in with, or one pasted before; 409.
HandleTradeUrl(r) ==
  /\ r.kind = "url" /\ UNCHANGED <<server, mistold, astray>>
  /\ asks' = (asks \ {r}) \cup {[r EXCEPT !.phase = IF r.receiver = Linked THEN "back" ELSE "refused"]}
Handled ==
  /\ \E r \in asks : r.phase = "there" /\ (HandleRead(r) \/ HandleSave(r) \/ HandleReceiver(r) \/ HandleRun(r) \/ HandleTradeUrl(r))
  /\ UNCHANGED <<pageSide, edits, swallowed, changes, called>>

OtherPageSaves ==
  /\ changes < MaxChanges /\ changes' = changes + 1
  /\ \E g \in Goods, p \in Prices : Becomes([server EXCEPT !.items = With(@, g, p)])
  /\ astray' = TRUE /\ UNCHANGED <<pageSide, asks, edits, swallowed, mistold, called>>

-----------------------------------------------------------------------------
(* The draft.                                                              *)

Modal == dialog # {} \/ paste # "none"
Change == ~Modal /\ changes < MaxChanges /\ changes' = changes + 1
          /\ UNCHANGED <<server, shown, savingList, loading, dialog, picking, paste, asks, swallowed, astray, mistold, called>>
\* An edit that leaves nothing changed is none; neither is one of a row that
\* the next state of the server makes equal.
Edited(d, s, new) == edits' = IF DirtyIn(d, s, shown) THEN new ELSE <<>>

EditRow == Change /\ UNCHANGED saved /\ \E g \in DOMAIN drafts, p \in Prices :
  drafts[g] # p /\ drafts' = [drafts EXCEPT ![g] = p] /\ Edited(drafts', saved, With(edits, g, p))
AddDraft == Change /\ UNCHANGED saved /\ \E g \in Goods \ DOMAIN drafts, p \in Prices :
  drafts' = With(drafts, g, p) /\ Edited(drafts', saved, With(edits, g, p))
RemoveDraft == Change /\ \E g \in DOMAIN drafts :
  /\ drafts' = [h \in DOMAIN drafts \ {g} |-> drafts[h]] /\ saved' = saved \ {g}
  /\ Edited(drafts', saved', With(edits, g, 0))

Follow(state) == drafts' = state.items /\ saved' = DOMAIN state.items
DiscardDrafts ==
  /\ Dirty /\ ~savingList /\ ~Modal /\ Follow(shown) /\ edits' = <<>>
  /\ UNCHANGED <<server, shown, savingList, loading, dialog, picking, paste, asks, swallowed, astray, mistold, changes, called>>

-----------------------------------------------------------------------------
(* What the page asks for.                                                 *)

Request(kind) ==
  [kind |-> kind, items |-> <<>>, run |-> "none", said |-> <<>>, receiver |-> "none", phase |-> "there", state |-> server, no |-> called + 1]
Ask(r) == called < MaxAsks /\ called' = called + 1 /\ asks' = asks \cup {r}
Quiet == UNCHANGED <<server, shown, drafts, saved, c5History, changes>>

Refresh == ~loading /\ loading' = TRUE /\ Ask(Request("state")) /\ Quiet
           /\ UNCHANGED <<savingList, dialog, picking, paste>>
SaveWatchlist == ~Modal /\ Dirty /\ ~savingList /\ savingList' = TRUE /\ Ask([Request("save") EXCEPT !.items = drafts]) /\ Quiet
                 /\ UNCHANGED <<loading, dialog, picking, paste>>

Stop == ~Modal /\ shown.run = "sweeping" /\ Ask([Request("run") EXCEPT !.run = "stopped"]) /\ Quiet
        /\ UNCHANGED <<savingList, loading, dialog, picking, paste>>
\* Mutant: sweeping may be started with changes that are not saved.
StartDirty ==
  /\ ~Modal /\ shown.run = "stopped" /\ shown.receiver # "none" /\ dialog' = {drafts} /\ astray' = (astray \/ savingList)
  /\ UNCHANGED <<server, shown, drafts, saved, edits, swallowed, mistold, changes>>
  /\ UNCHANGED <<savingList, loading, picking, paste, asks, called>>
\* changeRun: a receiver is needed, and a list without changes: also one that was
\* changed back while its change is being saved.
ChangeRun ==
  /\ ~Modal /\ shown.run = "stopped" /\ shown.receiver # "none" /\ ~Dirty /\ dialog' = {drafts}
  /\ astray' = (astray \/ savingList) /\ UNCHANGED <<server, shown, drafts, saved, edits, swallowed, mistold, changes>>
  /\ UNCHANGED <<savingList, loading, picking, paste, asks, called>>
OnDialog ==
  /\ dialog # {} /\ dialog' = {} /\ Quiet /\ UNCHANGED <<savingList, loading, picking, paste>>
  /\ \/ UNCHANGED <<asks, called>>
     \/ \E said \in dialog : Ask([Request("run") EXCEPT !.run = "sweeping", !.said = said])

PickReceiver ==
  /\ ~Modal /\ picking = "none" /\ \E a \in Receivers \ {shown.receiver} : picking' = a /\ Ask([Request("url") EXCEPT !.receiver = a])
  /\ Quiet /\ UNCHANGED <<savingList, loading, dialog, paste>>
\* savePastedTradeUrl: a link of that very account.
SavePasted ==
  /\ paste # "none" /\ picking = "none" /\ picking' = paste /\ Ask([Request("receiver") EXCEPT !.receiver = paste])
  /\ Quiet /\ UNCHANGED <<savingList, loading, dialog, paste>>
ClosePaste == paste # "none" /\ picking = "none" /\ paste' = "none" /\ Quiet
              /\ UNCHANGED <<savingList, loading, dialog, picking, asks, called>>

-----------------------------------------------------------------------------
(* The answers, in any order.                                              *)

Older(state) == state.n < shown.n
\* Mutant: the draft follows whatever the user has changed.
ApplyAlways(state) ==
  /\ shown' = state /\ Follow(state) /\ astray' = (astray \/ Older(state)) /\ UNCHANGED edits
\* applyState: the draft follows when it had no changes.
ApplyState(state) ==
  /\ shown' = state /\ astray' = (astray \/ Older(state))
  /\ IF Dirty THEN UNCHANGED <<drafts, saved>> ELSE Follow(state)
  /\ edits' = IF DirtyIn(drafts', saved', state) THEN edits ELSE <<>>

GotState(r) == r.kind = "state" /\ ApplyState(r.state) /\ loading' = FALSE
               /\ UNCHANGED <<savingList, picking, paste, swallowed>>
GotRun(r) == r.kind = "run" /\ ApplyState(r.state) /\ UNCHANGED <<savingList, loading, picking, paste, swallowed>>
GotReceiver(r) == r.kind = "receiver" /\ ApplyState(r.state) /\ picking' = "none" /\ paste' = "none"
                  /\ UNCHANGED <<savingList, loading, swallowed>>
\* saveWatchlist: the draft is made anew, also of what was changed meanwhile.
GotSaved(r) ==
  /\ r.kind = "save" /\ shown' = r.state /\ Follow(r.state) /\ savingList' = FALSE /\ edits' = <<>>
  /\ swallowed' = (swallowed \/ drafts # r.items) /\ astray' = (astray \/ Older(r.state))
  /\ UNCHANGED <<loading, picking, paste>>
Answered ==
  /\ \E r \in asks : r.phase = "back" /\ asks' = asks \ {r} /\ (GotState(r) \/ GotRun(r) \/ GotReceiver(r) \/ GotSaved(r))
  /\ UNCHANGED <<server, dialog, mistold, changes, called>>

\* switchReceiver: with the link in hand it is saved; without one it is asked for.
GotUrl ==
  /\ \E r \in asks :
       /\ r.kind = "url"
       /\ \/ /\ r.phase = "back" /\ UNCHANGED <<picking, paste>>
             /\ asks' = (asks \ {r}) \cup {[r EXCEPT !.kind = "receiver", !.phase = "there"]}
          \/ r.phase = "refused" /\ asks' = asks \ {r} /\ paste' = r.receiver /\ picking' = "none"
  /\ Quiet /\ UNCHANGED <<savingList, loading, dialog, called>>
AskLost ==
  /\ \E r \in asks : /\ asks' = asks \ {r} /\ loading' = (loading /\ r.kind # "state")
                     /\ savingList' = (savingList /\ r.kind # "save")
                     /\ picking' = IF r.kind \in {"url", "receiver"} THEN "none" ELSE picking
  /\ astray' = TRUE /\ UNCHANGED <<server, shown, drafts, saved, dialog, paste, edits, swallowed, mistold, changes, called>>

-----------------------------------------------------------------------------
C5PageInit ==
  /\ server \in [items : {<<>>} \cup [Goods -> Prices], run : {"stopped", "sweeping"}, receiver : {"none", Linked}, n : {0}]
  /\ shown = server /\ drafts = server.items /\ saved = DOMAIN server.items
  /\ savingList = FALSE /\ loading = FALSE /\ dialog = {} /\ picking = "none" /\ paste = "none" /\ asks = {}
  /\ edits = <<>> /\ swallowed = FALSE /\ astray = FALSE /\ mistold = FALSE /\ changes = 0 /\ called = 0
C5PageNext ==
  \/ Handled \/ OtherPageSaves \/ EditRow \/ AddDraft \/ RemoveDraft \/ DiscardDrafts \/ Refresh \/ SaveWatchlist
  \/ Stop \/ ChangeRun \/ OnDialog \/ PickReceiver \/ SavePasted \/ ClosePaste \/ Answered \/ GotUrl \/ AskLost
C5PageSpec == C5PageInit /\ [][C5PageNext]_c5PageVars

-----------------------------------------------------------------------------
\* What the user changed stays in the draft until it is saved or discarded,
\* however many states of the server arrive in between.
EditsStand == \A g \in DOMAIN edits : IF edits[g] = 0 THEN g \notin DOMAIN drafts
                                      ELSE g \in DOMAIN drafts /\ drafts[g] = edits[g]

\* With nobody else at it and every answer in order, sweeping begins with the
\* very list that was confirmed, and a switch leaves the account that was picked.
SweepsWhatWasShown ==
  /\ ~mistold
  /\ ~astray /\ (\A r \in asks : r.kind # "receiver") => shown.receiver = server.receiver

\* "改过的留着,等保存或放弃" (stores/c5.ts:30), also what is changed while a save
\* is on its way.
EditsAreKept == ~swallowed

\* The sweeper's page.
C5PageKept == EditsStand /\ SweepsWhatWasShown

-----------------------------------------------------------------------------
(* Why: as long as everything comes in order, what the page knows is what  *)
(* the server has, or something newer is on its way or already shown.      *)
Anyone == Receivers \cup {"none"}
Lists == UNION {[gs -> Prices] : gs \in SUBSET Goods}
States == [items : Lists, run : {"none", "stopped", "sweeping"}, receiver : Anyone, n : Nat]
Requests ==
  [kind : {"state", "save", "run", "receiver", "url"}, items : Lists, run : {"none", "stopped", "sweeping"}, said : Lists,
   receiver : Anyone, phase : {"there", "back", "refused"}, state : States, no : Nat]
C5Typed ==
  /\ server \in States /\ shown \in States /\ drafts \in Lists /\ saved \subseteq Goods /\ dialog \subseteq Lists
  /\ asks \subseteq Requests /\ called \in Nat /\ \A r \in asks : r.no <= called /\ r.state.n <= server.n
  /\ picking \in Anyone /\ paste \in Anyone
  /\ shown.n <= server.n /\ (Dirty \/ edits = <<>>)

IsBack(r, kind) == r.kind = kind /\ r.phase = "back"
ItemsFollow(x) == x.items = server.items \/ x.n < shown.n \/ \E s \in asks : IsBack(s, "save") /\ x.n < s.state.n
ReceiverFollows(x) == x.receiver = server.receiver \/ x.n < shown.n \/ \E s \in asks : IsBack(s, "receiver") /\ x.n < s.state.n
AnswerStands(r) ==
  /\ r.phase = "back" /\ r.kind # "url" => ItemsFollow(r.state) /\ ReceiverFollows(r.state)
  /\ IsBack(r, "save") => r.state.items = server.items
  /\ IsBack(r, "receiver") => r.state.receiver = server.receiver
\* One save and one switch at a time; sweeping was confirmed before any save.
OneEach ==
  /\ \A r \in asks : /\ r.kind = "save" => savingList /\ dialog = {}
                     /\ r.kind \in {"url", "receiver"} => picking # "none"
  /\ \A r, s \in asks : /\ r.kind = "save" /\ s.kind = "save" => r = s
                        /\ r.kind \in {"url", "receiver"} /\ s.kind \in {"url", "receiver"} => r = s
ConfirmedStands ==
  /\ dialog \subseteq {server.items}
  /\ \A r \in asks : r.kind = "run" /\ r.phase = "there" /\ r.run = "sweeping" =>
       /\ r.said = server.items
       /\ \A s \in asks : s.kind = "save" /\ s.phase = "there" => r.no < s.no
InOrder ==
  /\ ItemsFollow(shown) /\ ReceiverFollows(shown) /\ OneEach /\ ConfirmedStands
  /\ \A r \in asks : AnswerStands(r)
C5Inv == C5Typed /\ EditsStand /\ ~mistold /\ (~astray => InOrder)
=============================================================================
