----------------------------- MODULE SteamSession -----------------------------
(***************************************************************************)
(* The Steam session of one account: createSessionManager of               *)
(* src/steam/session-manager.ts with the account operations that drive it  *)
(* (src/accounts/index.ts), the login intents and the saved sessions in    *)
(* the database.  Sessions of different accounts share only the login      *)
(* rate limit of their proxy, which is LoginLimit; here a logon may be     *)
(* made to queue at any time.                                              *)
(*                                                                         *)
(* Every handler, timer callback and event listener runs to its end, so    *)
(* each is one action.  The Steam client (steam-user) is modelled from how *)
(* the listeners and their tests use it: it logs on, asks for a code,      *)
(* reports errors, loses its connection and, unless it was logged off or   *)
(* the error was fatal, logs on again by itself.                           *)
(***************************************************************************)
EXTENDS Integers, Sequences, TLAPS

CONSTANTS
  HasPassword,    \* the account list has the password
  AutoGuard,      \* shared_secret is known: codes are generated
  LoginRetryMax,  \* timing.loginRetryMax
  ReconnectMax,   \* timing.reconnectMaxAttempts
  RateLimited,    \* a proxy of the account limits logons per minute
  LateEvents,     \* the answer to a webLogOn may come after the client was
                  \* logged off or lost its connection
  MaxTimers       \* bound of the model: retry timers pending at once

SessionConstants ==
  /\ {HasPassword, AutoGuard, RateLimited, LateEvents} \subseteq BOOLEAN
  /\ {LoginRetryMax, ReconnectMax} \subseteq Nat /\ MaxTimers \in Nat \ {0}

VARIABLES
  a,          \* the attempt of the account, status "none" if there is none
  retry,      \* pending retryLogon timers: the details each will log on with
  queued,     \* details of the logon waiting for the rate limit, or "none"
  client,     \* the steam-user client of the attempt
  ghost,      \* a webSession of a disposed client is still on its way
  listed,     \* the account is in the account list
  intent,     \* steam_login_intents: it should be online
  saved,      \* steam_sessions: no row, a row without or with a refresh token
  restoring   \* a restoreAll timer is pending for the account

disk == <<listed, intent, saved>>
vars == <<a, retry, queued, client, ghost, disk, restoring>>

Details == {"token", "password"}
Active == {"connecting", "guard_required", "logged_on", "web_session_pending", "web_session"}
Status == Active \cup {"none", "disconnected", "failed", "logged_out"}

\* An attempt: its status, the details it logs on with, the password kept as a
\* fallback, whether Steam gave it a refresh token, the watchdog, and what
\* the reconnect watchdog goes by.
NoAttempt == [status |-> "none", details |-> "none", fallback |-> FALSE, token |-> FALSE,
              watchdog |-> FALSE, retries |-> 0, guard |-> FALSE, had |-> FALSE,
              since |-> FALSE, grace |-> FALSE, tries |-> 0, backoff |-> FALSE,
              blocked |-> FALSE]

\* conn: "off", "trying" to log on, waiting for a "code", or "on";
\* web: a webLogOn is under way; leaving: the disconnected event of a logOff is
\* still to come.
NoClient == [conn |-> "off", cred |-> "none", web |-> FALSE, leaving |-> FALSE]

Init ==
  /\ a = NoAttempt /\ retry = <<>> /\ queued = "none"
  /\ client = NoClient /\ ghost = FALSE
  /\ listed = TRUE /\ intent = FALSE /\ saved = "none"
  /\ restoring = FALSE

-----------------------------------------------------------------------------
(***************************************************************************)
(* Logging on.                                                             *)
(***************************************************************************)
LoggedOff(c) == [c EXCEPT !.conn = "off", !.leaving = @ \/ c.conn # "off",
                          !.web = @ /\ LateEvents]

\* client.logOn: throws if the client is already logging on or logged on.
LogOn(at, c, details) ==
  IF c.conn = "off"
  THEN a' = [at EXCEPT !.watchdog = TRUE] /\ client' = [c EXCEPT !.conn = "trying", !.cred = details]
  ELSE a' = [at EXCEPT !.watchdog = FALSE, !.status = "failed"] /\ client' = c

\* whenLogonAllowed: refused (all proxies of the account are off), queued
\* behind the rate limit, or at once.  A logon that is not refused makes the
\* one in "waiting" stale.
WhenLogonAllowed(at, c, details, waiting) ==
  \/ /\ a' = [at EXCEPT !.watchdog = FALSE, !.status = "failed"]
     /\ client' = c /\ queued' = waiting
  \/ RateLimited /\ a' = at /\ client' = c /\ queued' = details
  \/ LogOn(at, c, details) /\ queued' = "none"

\* retryDetailsFor: the refresh token if there is one, with the password as
\* fallback; else the password, without its one-time code.
RetryDetails(at) == IF at.token \/ at.details = "token" THEN "token" ELSE "password"
RetryFallback(at) == at.fallback \/ (RetryDetails(at) = "token" /\ at.details = "password")

\* retryLogon: log off, and log on again a moment later.
RetryLogon(at, c) ==
  /\ Len(retry) < MaxTimers
  /\ a' = [at EXCEPT !.status = "connecting", !.fallback = RetryFallback(at)]
  /\ retry' = Append(retry, RetryDetails(at))
  /\ client' = LoggedOff(c)

RetryFires ==
  /\ retry # <<>>
  /\ retry' = Tail(retry)
  /\ IF a.status \in {"none", "logged_out"}
     THEN UNCHANGED <<a, queued, client>>
     ELSE WhenLogonAllowed([a EXCEPT !.details = Head(retry)], client, Head(retry), queued)
  /\ UNCHANGED <<ghost, disk, restoring>>

\* The rate limit lets the queued logon go, unless it is stale by now.
QueueGrants ==
  /\ queued # "none"
  /\ queued' = "none"
  /\ IF a.status \in {"logged_out", "web_session"}
     THEN UNCHANGED <<a, client>>
     ELSE LogOn(a, client, queued)
  /\ UNCHANGED <<retry, ghost, disk, restoring>>

\* dispose and createAttempt, then startPreferredLogon: the refresh token if
\* one is saved, the password as fallback or else first.  Timers and queued
\* logons of the disposed attempt do nothing any more.
Start(token) ==
  LET details == IF token THEN "token" ELSE "password"
      at == [NoAttempt EXCEPT !.details = details, !.fallback = token /\ HasPassword,
                              !.status = "connecting"]
  IN  /\ ghost' = (ghost \/ (client.web /\ LateEvents))
      /\ retry' = <<>>
      /\ WhenLogonAllowed(at, NoClient, details, "none")

\* login: an attempt that is active is reused unless the user insists, which
\* changes nothing otherwise; a saved refresh token is used unless a password is
\* typed in.
Login(force, token) ==
  /\ listed /\ force = (a.status \in Active)
  /\ IF token THEN saved = "token" ELSE HasPassword
  /\ Start(token)
  /\ UNCHANGED <<disk, restoring>>

\* Mutant: the watchdog is not armed again.
SubmitUnwatched ==
  /\ a.guard
  /\ a' = [a EXCEPT !.guard = FALSE, !.status = "connecting"]
  /\ client' = IF client.conn = "code" THEN [client EXCEPT !.conn = "trying"] ELSE client
  /\ UNCHANGED <<retry, queued, ghost, disk, restoring>>

\* submitGuardCode: the callback of the event goes on, and the watchdog again.
SubmitGuardCode ==
  /\ a.guard
  /\ a' = [a EXCEPT !.guard = FALSE, !.status = "connecting", !.watchdog = TRUE]
  /\ client' = IF client.conn = "code" THEN [client EXCEPT !.conn = "trying"] ELSE client
  /\ UNCHANGED <<retry, queued, ghost, disk, restoring>>

Logout ==
  /\ a.status # "none"
  /\ a' = [a EXCEPT !.status = "logged_out", !.watchdog = FALSE]
  /\ client' = LoggedOff(client)
  /\ intent' = FALSE
  /\ UNCHANGED <<retry, queued, ghost, listed, saved, restoring>>

\* Mutant: the saved session stays.
RemoveKeepsSession ==
  /\ listed
  /\ a' = NoAttempt /\ client' = NoClient
  /\ retry' = <<>> /\ queued' = "none"
  /\ ghost' = (ghost \/ (client.web /\ LateEvents))
  /\ listed' = FALSE /\ intent' = FALSE
  /\ UNCHANGED <<saved, restoring>>

\* cleanup: the account is deleted, with its session, intent and list entry.
Remove ==
  /\ listed
  /\ a' = NoAttempt /\ client' = NoClient
  /\ retry' = <<>> /\ queued' = "none"
  /\ ghost' = (ghost \/ (client.web /\ LateEvents))
  /\ listed' = FALSE /\ intent' = FALSE /\ saved' = "none"
  /\ UNCHANGED restoring

\* requestWebSession: the user asks for new cookies.
RequestWebSession ==
  /\ client.conn = "on"
  /\ a' = [a EXCEPT !.status = "web_session_pending"]
  /\ client' = [client EXCEPT !.web = TRUE]
  /\ UNCHANGED <<retry, queued, ghost, disk, restoring>>

-----------------------------------------------------------------------------
(***************************************************************************)
(* Timers.                                                                 *)
(***************************************************************************)

\* Mutant: one retry too many.
RetriesLeftOffByOne == a.retries <= LoginRetryMax

RetriesLeft == a.retries < LoginRetryMax

\* The login watchdog: no web session in time.
WatchdogFires ==
  /\ a.watchdog
  /\ LET at == [a EXCEPT !.watchdog = FALSE]
     IN IF a.status \in {"web_session", "logged_out"} \/ a.guard
        THEN a' = at /\ UNCHANGED <<retry, client>>
        ELSE IF RetriesLeft
             THEN RetryLogon([at EXCEPT !.retries = @ + 1], client)
             ELSE a' = [at EXCEPT !.status = "failed"] /\ UNCHANGED <<retry, client>>
  /\ UNCHANGED <<queued, ghost, disk, restoring>>

GraceOver ==
  /\ a.since /\ ~a.grace
  /\ a' = [a EXCEPT !.grace = TRUE]
  /\ UNCHANGED <<retry, queued, client, ghost, disk, restoring>>

BackoffOver ==
  /\ a.backoff
  /\ a' = [a EXCEPT !.backoff = FALSE]
  /\ UNCHANGED <<retry, queued, client, ghost, disk, restoring>>

\* Mutant: nothing holds the watchdog back.
StrandedUnblocked == /\ a.had /\ a.status \in {"disconnected", "failed"}
                     /\ ~a.guard /\ a.since /\ a.grace /\ ~a.backoff

\* reconnectTick: an attempt that was online, lost its connection long enough
\* ago, and is not held back.
Stranded == /\ a.had /\ a.status \in {"disconnected", "failed"}
            /\ ~a.guard /\ ~a.blocked /\ a.since /\ a.grace /\ ~a.backoff

ReconnectTick ==
  /\ Stranded
  /\ IF a.tries >= ReconnectMax
     THEN a' = [a EXCEPT !.blocked = TRUE] /\ UNCHANGED <<retry, client>>
     ELSE RetryLogon([a EXCEPT !.tries = @ + 1, !.backoff = TRUE, !.retries = 0], client)
  /\ UNCHANGED <<queued, ghost, disk, restoring>>

\* webSessionTick: fresh cookies for an attempt that is online.
WebSessionTick ==
  /\ a.status = "web_session" /\ client.conn = "on" /\ ~client.web
  /\ client' = [client EXCEPT !.web = TRUE]
  /\ UNCHANGED <<a, retry, queued, ghost, disk, restoring>>

-----------------------------------------------------------------------------
(***************************************************************************)
(* Events of the client.                                                   *)
(***************************************************************************)
SaveSession(at) == saved' = IF at.token THEN "token" ELSE "empty"

SteamGuard ==
  /\ client.conn = "trying" /\ client.cred = "password" /\ ~AutoGuard
  /\ client' = [client EXCEPT !.conn = "code"]
  /\ a' = [a EXCEPT !.watchdog = FALSE, !.status = "guard_required", !.guard = TRUE]
  /\ UNCHANGED <<retry, queued, ghost, disk, restoring>>

LoggedOn ==
  /\ client.conn = "trying"
  /\ client' = [client EXCEPT !.conn = "on", !.web = TRUE]
  /\ a' = [a EXCEPT !.status = "logged_on"]
  /\ UNCHANGED <<retry, queued, ghost, disk, restoring>>

\* Steam issues a refresh token: after a logon with the password, and when it
\* renews one.
RefreshToken ==
  /\ client.conn = "on"
  /\ a' = [a EXCEPT !.token = TRUE]
  /\ SaveSession(a')
  /\ UNCHANGED <<retry, queued, client, ghost, listed, intent, restoring>>

\* The wallet is sent after every logon.
Wallet ==
  /\ client.conn = "on"
  /\ SaveSession(a)
  /\ UNCHANGED <<a, retry, queued, client, ghost, listed, intent, restoring>>

Online(at) == [at EXCEPT !.watchdog = FALSE, !.retries = 0, !.had = TRUE, !.since = FALSE,
                         !.grace = FALSE, !.tries = 0, !.backoff = FALSE, !.blocked = FALSE,
                         !.status = "web_session"]

\* Mutant: only the first web session of an attempt is remembered as online.
WebSessionOnce ==
  /\ client.web
  /\ client' = [client EXCEPT !.web = FALSE]
  /\ a' = Online(a) /\ SaveSession(a')
  /\ intent' = (intent \/ ~a.had)
  /\ UNCHANGED <<retry, queued, ghost, listed, restoring>>

\* The cookies arrive: the account is online, and meant to be.
WebSession ==
  /\ client.web
  /\ client' = [client EXCEPT !.web = FALSE]
  /\ a' = Online(a)
  /\ SaveSession(a')
  /\ intent' = TRUE
  /\ UNCHANGED <<retry, queued, ghost, listed, restoring>>

\* Steam does not answer the webLogOn.
WebSessionLost ==
  /\ client.web
  /\ client' = [client EXCEPT !.web = FALSE]
  /\ UNCHANGED <<a, retry, queued, ghost, disk, restoring>>

\* The listeners of a disposed client still run; this one saves its session.
GhostWebSession ==
  /\ ghost
  /\ ghost' = FALSE
  /\ saved' \in {"token", "empty"}
  /\ UNCHANGED <<a, retry, queued, client, listed, intent, restoring>>

\* Mutant: when the connection was lost is not noted.
DisconnectUntimed(at, fatal, status) ==
  /\ a' = [at EXCEPT !.status = status, !.blocked = @ \/ fatal]
  /\ intent' = (intent /\ ~fatal)

\* markAttemptDisconnected, and with it the status, for an attempt that was
\* not logged out.
Disconnect(at, fatal, status) ==
  /\ a' = [at EXCEPT !.status = status, !.since = TRUE, !.blocked = @ \/ fatal]
  /\ intent' = (intent /\ ~fatal)

\* The disconnected event: the connection is lost, or the end of a logOff.
Disconnected(fatal) ==
  /\ \/ /\ client.conn = "on"
        /\ client' = [client EXCEPT !.conn = IF fatal THEN "off" ELSE "trying",
                                    !.cred = "token", !.web = @ /\ LateEvents]
     \/ /\ client.leaving /\ ~fatal
        /\ client' = [client EXCEPT !.leaving = FALSE]
  /\ IF a.status = "logged_out"
     THEN UNCHANGED <<a, intent>>
     ELSE Disconnect(a, fatal, "disconnected")
  /\ UNCHANGED <<retry, queued, ghost, listed, saved, restoring>>

\* The error event.  "account": someone else logged in, or banned; "password":
\* InvalidPassword, also the answer to a refresh token that is no longer valid;
\* the other errors are not fatal.
FallsBack(kind) == a.status = "connecting" /\ a.details = "token" /\ a.fallback
                   /\ kind # "account"
Error(kind) ==
  /\ \/ client.conn = "trying"
     \/ client.conn = "on" /\ kind = "account"
  /\ LET at == [a EXCEPT !.watchdog = FALSE]
     IN IF FallsBack(kind)
        THEN /\ RetryLogon([at EXCEPT !.token = FALSE, !.details = "password", !.retries = 0],
                           [client EXCEPT !.conn = "off"])
             /\ UNCHANGED intent
        ELSE /\ Disconnect(at, kind # "other", "failed")
             /\ client' = [client EXCEPT !.conn = "off", !.web = @ /\ LateEvents]
             /\ UNCHANGED retry
  /\ UNCHANGED <<queued, ghost, listed, saved, restoring>>

-----------------------------------------------------------------------------
(***************************************************************************)
(* Death or stop of the service, and restoreAll after it.                  *)
(***************************************************************************)
Restart ==
  /\ a' = NoAttempt /\ client' = NoClient
  /\ retry' = <<>> /\ queued' = "none" /\ ghost' = FALSE
  /\ restoring' = intent
  /\ UNCHANGED disk

\* restoreOne, when the timer of the account fires: nothing to do if the user
\* was faster, and no intent without an account or credentials.
RestoreOne ==
  /\ restoring
  /\ restoring' = FALSE
  /\ CASE a.status \in Active ->
            UNCHANGED <<a, retry, queued, client, ghost, intent>>
       [] a.status \notin Active /\ (~listed \/ ~(HasPassword \/ saved = "token")) ->
            intent' = FALSE /\ UNCHANGED <<a, retry, queued, client, ghost>>
       [] OTHER -> Start(saved = "token") /\ UNCHANGED intent
  /\ UNCHANGED <<listed, saved>>

-----------------------------------------------------------------------------
User == \/ \E force, token \in BOOLEAN : Login(force, token)
        \/ SubmitGuardCode \/ Logout \/ Remove \/ RequestWebSession

Timers == \/ RetryFires \/ QueueGrants \/ WatchdogFires \/ GraceOver \/ BackoffOver
          \/ ReconnectTick \/ WebSessionTick \/ RestoreOne

Events == \/ SteamGuard \/ LoggedOn \/ RefreshToken \/ Wallet
          \/ WebSession \/ WebSessionLost \/ GhostWebSession
          \/ \E fatal \in BOOLEAN : Disconnected(fatal)
          \/ \E kind \in {"account", "password", "other"} : Error(kind)

Next == User \/ Timers \/ Events \/ Restart

Spec == Init /\ [][Next]_vars

-----------------------------------------------------------------------------
(***************************************************************************)
(* What must hold.                                                         *)
(***************************************************************************)
Attempts == [status : Status, details : Details \cup {"none"}, fallback : BOOLEAN, token : BOOLEAN,
             watchdog : BOOLEAN, retries : 0..LoginRetryMax, guard : BOOLEAN, had : BOOLEAN,
             since : BOOLEAN, grace : BOOLEAN, tries : 0..ReconnectMax, backoff : BOOLEAN,
             blocked : BOOLEAN]
Clients == [conn : {"off", "trying", "code", "on"}, cred : Details \cup {"none"},
            web : BOOLEAN, leaving : BOOLEAN]

\* The attempt has the shape the code gives it, and its counters stay within
\* loginRetryMax and reconnectMaxAttempts.
SessionTypeOK ==
  /\ a \in Attempts /\ client \in Clients
  /\ retry \in Seq(Details) /\ queued \in Details \cup {"none"}
  /\ {ghost, listed, intent, restoring} \subseteq BOOLEAN
  /\ saved \in {"none", "empty", "token"}

\* A login never hangs: whatever was retried, queued, refused or lost on the
\* way, an attempt that is connecting has something that will end it - the
\* watchdog, a retry, or its turn in the queue.
ConnectingIsWatched ==
  a.status = "connecting" => a.watchdog \/ retry # <<>> \/ queued # "none"

\* A crash at any moment brings back every account that was online.
OnlineIsRestored == a.status = "web_session" => intent

\* An account thrown out by another login, banned, or given up stays out:
\* nothing that was under way logs it on again, only the user, or a restart.
Started == client.conn = "off" /\ client'.conn = "trying"
StaysOut == [][a.blocked /\ Started => RestoreOne \/ User]_vars

\* The same once the attempt has failed, where no rate limit holds logons back:
\* no retry timer, watchdog or tick that was under way revives it.
FailedStays ==
  a.blocked /\ a.status = "failed" /\ (Started \/ a'.status = "connecting")
    => RestoreOne \/ User
FailedStaysOut == [][FailedStays]_vars

\* A logon waiting for the rate limit that a newer one has replaced is not
\* carried out.
SupersededNotStarted ==
  [][QueueGrants /\ Started => retry = <<>>]_vars

\* Only the account list and its own login decide whether a session is kept:
\* nothing of a deleted account is left or comes back.
DeletedForgotten == ~listed => a.status = "none" /\ ~intent /\ saved = "none"

\* After a manual logout the account is not restored at the next start unless
\* the user logged it in again.
LogoutSticks == [][a.status = "logged_out" /\ ~intent => ~intent']_vars

\* After a restart, only accounts that are meant to be online are logged in.
RestoredByIntent == [][RestoreOne /\ a' # a => intent]_vars

\* A refresh token that Steam accepts is never lost from the database while
\* the account is kept.
TokenKept ==
  [][saved = "token" /\ client.conn = "on" /\ client.cred = "token" /\ listed'
       => saved' # "empty"]_vars

-----------------------------------------------------------------------------
(***************************************************************************)
(* Liveness.  Timers fire and the queue moves (LoginLimit); neither Steam  *)
(* nor the user owes us anything.                                          *)
(***************************************************************************)
Fairness == WF_vars(RetryFires) /\ WF_vars(QueueGrants) /\ WF_vars(WatchdogFires)
            /\ WF_vars(GraceOver) /\ WF_vars(BackoffOver) /\ WF_vars(ReconnectTick)
FairSpec == Spec /\ Fairness

\* The tick of the reconnect watchdog is much more frequent than the losses of
\* the connection: it finds an account that is lost again and again.
FairTickSpec == FairSpec /\ SF_vars(ReconnectTick)

\* A login comes to an end, and an account that lost its connection is either
\* brought back, given up after the last try, or waits for a code of the user:
\* it is never left half-way.
Lost == a.status = "connecting" \/ (a.had /\ a.status \in {"disconnected", "failed"})
LeftAlone == <>[][~User /\ ~Restart]_vars
LostIsSettled == LeftAlone => (Lost ~> (~Lost \/ a.blocked \/ a.guard))

\* The reconnect watchdog backs up the client, which logs on again by itself:
\* an account that lost its connection is online again or given up in the end.
Settled == a.status \in {"web_session", "guard_required", "logged_out", "none"} \/ a.blocked
Recovers == LeftAlone => ((a.had /\ a.status = "disconnected") ~> Settled)

-----------------------------------------------------------------------------
(* Proved for any number of retries and reconnects, whatever is saved and   *)
(* however logons are limited; what a deleted account leaves needs a client *)
(* that is quiet once it is logged off.                                     *)

\* A code is asked for in a status of its own: an attempt that connects does not
\* wait for one, so its watchdog is not put off.
Watched == a.status = "connecting" => ~a.guard /\ (a.watchdog \/ retry # <<>> \/ queued # "none")

\* Nothing under way can write for a deleted account.
Deserted == /\ a = NoAttempt /\ client = NoClient /\ retry = <<>> /\ queued = "none"
            /\ ~intent /\ saved = "none"
QuietClient == ~LateEvents => ~ghost /\ (~listed => Deserted)

\* A client that was logged off has no cookies on their way.
OffIsOff == ~LateEvents /\ a.status = "logged_out" => client.conn = "off" /\ ~client.web

SessionInv == SessionTypeOK /\ Watched /\ OnlineIsRestored /\ QuietClient /\ OffIsOff

LEMMA Blank ==
  ASSUME SessionConstants
  PROVE  /\ NoAttempt \in Attempts /\ NoAttempt.status = "none" /\ ~NoAttempt.guard
         /\ NoClient \in Clients /\ <<>> \in Seq(Details)
<1>1. 0 \in 0..LoginRetryMax /\ 0 \in 0..ReconnectMax
  BY DEF SessionConstants
<1>2. NoAttempt \in Attempts
  BY <1>1 DEF NoAttempt, Attempts, Status
<1> QED BY <1>2 DEF NoAttempt, NoClient, Clients

LEMMA SessionStarts == SessionConstants /\ Init => SessionInv
<1> SUFFICES ASSUME SessionConstants, Init PROVE SessionInv
  OBVIOUS
<1>1. SessionTypeOK
  BY Blank DEF Init, SessionTypeOK
<1> QED BY <1>1, Blank DEF Init, SessionInv, Watched, OnlineIsRestored, QuietClient, OffIsOff

\* What is written of an attempt and of a client when they log on.
LEMMA Watching ==
  ASSUME NEW at \in Attempts
  PROVE  LET on == [at EXCEPT !.watchdog = TRUE]
         IN  on \in Attempts /\ on.status = at.status /\ on.guard = at.guard /\ on.watchdog
  BY DEF Attempts

LEMMA Refused ==
  ASSUME NEW at \in Attempts
  PROVE  LET off == [at EXCEPT !.watchdog = FALSE, !.status = "failed"]
         IN  off \in Attempts /\ off.status = "failed" /\ off.guard = at.guard
<1>1. "failed" \in Status
  BY DEF Status
<1> HIDE DEF Status
<1> QED BY <1>1 DEF Attempts

LEMMA Trying ==
  ASSUME NEW c \in Clients, NEW details \in Details
  PROVE  [c EXCEPT !.conn = "trying", !.cred = details] \in Clients
  BY DEF Clients

LEMMA LogOnTakes ==
  ASSUME NEW at \in Attempts, NEW c \in Clients, NEW details \in Details, LogOn(at, c, details)
  PROVE  /\ a' \in Attempts /\ client' \in Clients /\ a'.guard = at.guard
         /\ \/ a'.status = at.status /\ a'.watchdog
            \/ a'.status = "failed" /\ client' = c
<1>1. CASE c.conn = "off"
  <2>1. a' = [at EXCEPT !.watchdog = TRUE] /\ client' = [c EXCEPT !.conn = "trying", !.cred = details]
    BY <1>1 DEF LogOn
  <2> QED BY <2>1, Watching, Trying
<1>2. CASE c.conn # "off"
  <2>1. a' = [at EXCEPT !.watchdog = FALSE, !.status = "failed"] /\ client' = c
    BY <1>2 DEF LogOn
  <2> QED BY <2>1, Refused
<1> QED BY <1>1, <1>2

\* What is written when the connection is lost.
LEMMA Dropped ==
  ASSUME NEW at \in Attempts, NEW fatal \in BOOLEAN, NEW status \in Status, intent \in BOOLEAN, Disconnect(at, fatal, status)
  PROVE  a' \in Attempts /\ a'.status = status /\ intent' \in BOOLEAN
<1> DEFINE b == at.blocked \/ fatal
<1>1. a' = [at EXCEPT !.status = status, !.since = TRUE, !.blocked = b] /\ intent' = (intent /\ ~fatal)
  BY DEF Disconnect
<1>2. b \in BOOLEAN
  OBVIOUS
<1> HIDE DEF b
<1>3. a' \in Attempts /\ a'.status = status
  BY <1>1, <1>2 DEF Attempts
<1> QED BY <1>1, <1>3

\* A logon made, put off or refused, and one to be tried again.
LEMMA LoggingOn ==
  ASSUME SessionConstants, NEW at \in Attempts, NEW c \in Clients, NEW details \in Details,
         NEW waiting \in Details \cup {"none"}, WhenLogonAllowed(at, c, details, waiting)
  PROVE  /\ a' \in Attempts /\ client' \in Clients /\ queued' \in Details \cup {"none"}
         /\ a'.status \in {at.status, "failed"} /\ a'.guard = at.guard
         /\ a'.status = "failed" \/ a'.watchdog \/ queued' # "none"
<1>1. CASE a' = [at EXCEPT !.watchdog = FALSE, !.status = "failed"] /\ client' = c /\ queued' = waiting
  BY <1>1, Refused
<1>2. CASE a' = at /\ client' = c /\ queued' = details
  BY <1>2 DEF Details
<1>3. CASE LogOn(at, c, details) /\ queued' = "none"
  BY <1>3, LogOnTakes
<1> QED BY <1>1, <1>2, <1>3 DEF WhenLogonAllowed

LEMMA TryingAgain ==
  ASSUME NEW at \in Attempts, NEW c \in Clients, retry \in Seq(Details), RetryLogon(at, c)
  PROVE  /\ a' \in Attempts /\ client' \in Clients /\ retry' \in Seq(Details) /\ retry' # <<>>
         /\ a'.status = "connecting" /\ a'.guard = at.guard
<1>1. RetryDetails(at) \in Details /\ RetryFallback(at) \in BOOLEAN
  BY DEF RetryDetails, RetryFallback, Attempts, Details
<1>2. retry' \in Seq(Details) /\ retry' # <<>>
  BY <1>1 DEF RetryLogon
<1> QED BY <1>1, <1>2 DEF RetryLogon, LoggedOff, Attempts, Clients, Status, Active

LEMMA Starting ==
  ASSUME SessionConstants, NEW token \in BOOLEAN, Start(token)
  PROVE  /\ a' \in Attempts /\ client' \in Clients /\ queued' \in Details \cup {"none"} /\ retry' = <<>>
         /\ a'.status \in {"connecting", "failed"} /\ ~a'.guard
         /\ a'.status = "failed" \/ a'.watchdog \/ queued' # "none"
         /\ ghost' = (ghost \/ (client.web /\ LateEvents))
<1> DEFINE details == IF token THEN "token" ELSE "password"
           at == [NoAttempt EXCEPT !.details = details, !.fallback = token /\ HasPassword, !.status = "connecting"]
<1>1. details \in Details /\ at \in Attempts /\ at.status = "connecting" /\ ~at.guard /\ NoClient \in Clients
  <2>1. HasPassword \in BOOLEAN /\ details \in Details
    BY DEF SessionConstants, Details
  <2> HIDE DEF details
  <2> QED BY <2>1, Blank DEF Attempts, Status, Active
<1>2. WhenLogonAllowed(at, NoClient, details, "none") /\ retry' = <<>> /\ ghost' = (ghost \/ (client.web /\ LateEvents))
  BY DEF Start
<1> HIDE DEF details, at
<1> QED BY <1>1, <1>2, LoggingOn

-----------------------------------------------------------------------------
LEMMA RetryFiresKeeps == ASSUME SessionConstants, SessionInv, RetryFires PROVE SessionInv'
<1> USE DEF SessionInv, SessionTypeOK, Watched, OnlineIsRestored, QuietClient, Deserted, OffIsOff
<1>1. Head(retry) \in Details /\ Tail(retry) \in Seq(Details) /\ retry # <<>> /\ retry' = Tail(retry)
      /\ UNCHANGED <<ghost, disk, restoring>>
  BY DEF RetryFires
<1>2. listed \/ LateEvents
  BY <1>1 DEF SessionConstants
<1>3. CASE a.status \in {"none", "logged_out"}
  BY <1>1, <1>2, <1>3 DEF RetryFires, disk
<1>4. CASE a.status \notin {"none", "logged_out"}
  <2> DEFINE at == [a EXCEPT !.details = Head(retry)]
  <2>1. at \in Attempts /\ at.status = a.status /\ at.guard = a.guard
    BY <1>1 DEF Attempts
  <2>2. WhenLogonAllowed(at, client, Head(retry), queued)
    BY <1>4 DEF RetryFires
  <2> HIDE DEF at
  <2>3. /\ a' \in Attempts /\ client' \in Clients /\ queued' \in Details \cup {"none"}
        /\ a'.status \in {a.status, "failed"} /\ a'.guard = a.guard
        /\ a'.status = "failed" \/ a'.watchdog \/ queued' # "none"
    BY <1>1, <2>1, <2>2, LoggingOn
  <2> QED BY <1>1, <1>2, <1>4, <2>3 DEF disk
<1> QED BY <1>3, <1>4

LEMMA QueueGrantsKeeps == ASSUME SessionConstants, SessionInv, QueueGrants PROVE SessionInv'
<1> USE DEF SessionInv, SessionTypeOK, Watched, OnlineIsRestored, QuietClient, Deserted, OffIsOff
<1>1. queued \in Details /\ queued' = "none" /\ UNCHANGED <<retry, ghost, disk, restoring>>
  BY DEF QueueGrants
<1>2. listed \/ LateEvents
  BY <1>1 DEF SessionConstants, Details
<1>3. CASE a.status \in {"logged_out", "web_session"}
  BY <1>1, <1>2, <1>3 DEF QueueGrants, disk
<1>4. CASE a.status \notin {"logged_out", "web_session"}
  <2>1. LogOn(a, client, queued) /\ a \in Attempts /\ client \in Clients
    BY <1>4 DEF QueueGrants
  <2>2. /\ a' \in Attempts /\ client' \in Clients /\ a'.guard = a.guard
        /\ \/ a'.status = a.status /\ a'.watchdog
           \/ a'.status = "failed" /\ client' = client
    BY <1>1, <2>1, LogOnTakes
  <2> QED BY <1>1, <1>2, <1>4, <2>2 DEF disk
<1> QED BY <1>3, <1>4

LEMMA LoginKeeps ==
  ASSUME SessionConstants, SessionInv, NEW force \in BOOLEAN, NEW token \in BOOLEAN, Login(force, token)
  PROVE  SessionInv'
<1>1. listed /\ Start(token) /\ UNCHANGED <<disk, restoring>>
  BY DEF Login
<1>2. /\ a' \in Attempts /\ client' \in Clients /\ queued' \in Details \cup {"none"} /\ retry' = <<>>
      /\ a'.status \in {"connecting", "failed"} /\ ~a'.guard
      /\ a'.status = "failed" \/ a'.watchdog \/ queued' # "none"
      /\ ghost' = (ghost \/ (client.web /\ LateEvents))
  BY <1>1, Starting
<1>3. ghost' \in BOOLEAN /\ retry' \in Seq(Details) /\ (~LateEvents => ~ghost')
  BY <1>2 DEF SessionInv, SessionTypeOK, QuietClient
<1> QED BY <1>1, <1>2, <1>3 DEF SessionInv, SessionTypeOK, Watched, OnlineIsRestored, QuietClient, OffIsOff, disk

LEMMA UserKeeps ==
  ASSUME SessionConstants, SessionInv, SubmitGuardCode \/ Logout \/ Remove \/ RequestWebSession
  PROVE  SessionInv'
<1> USE DEF SessionInv, SessionTypeOK, Watched, OnlineIsRestored, QuietClient, Deserted, OffIsOff, disk
<1>1. CASE SubmitGuardCode
  <2>1. a' \in Attempts /\ a'.status = "connecting" /\ ~a'.guard /\ a'.watchdog
    BY <1>1 DEF SubmitGuardCode, Attempts, Status, Active
  <2>3. a # NoAttempt
    BY <1>1 DEF SubmitGuardCode, NoAttempt
  <2>2. client' \in Clients /\ UNCHANGED <<retry, queued, ghost, disk, restoring>>
    BY <1>1 DEF SubmitGuardCode, Clients
  <2> QED BY <2>1, <2>2, <2>3
<1>2. CASE Logout
  <2>1. a' \in Attempts /\ a'.status = "logged_out"
    BY <1>2 DEF Logout, Attempts, Status
  <2>4. a # NoAttempt
    BY <1>2 DEF Logout, NoAttempt
  <2>2. client' \in Clients /\ client'.conn = "off" /\ (~LateEvents => ~client'.web)
    BY <1>2 DEF Logout, LoggedOff, Clients, SessionConstants
  <2>3. intent' = FALSE /\ UNCHANGED <<retry, queued, ghost, listed, saved, restoring>>
    BY <1>2 DEF Logout
  <2> QED BY <2>1, <2>2, <2>3, <2>4
<1>3. CASE Remove
  <2>1. SessionTypeOK'
    BY <1>3, Blank DEF Remove, SessionConstants
  <2> QED BY <1>3, <2>1, Blank DEF Remove, SessionConstants
<1>4. CASE RequestWebSession
  <2>1. a' \in Attempts /\ a'.status = "web_session_pending"
    BY <1>4 DEF RequestWebSession, Attempts, Status, Active
  <2>2. client' \in Clients
    BY <1>4 DEF RequestWebSession, Clients
  <2>3. client # NoClient /\ UNCHANGED <<retry, queued, ghost, disk, restoring>>
    BY <1>4 DEF RequestWebSession, NoClient
  <2> QED BY <2>1, <2>2, <2>3
<1> QED BY <1>1, <1>2, <1>3, <1>4

LEMMA WatchdogFiresKeeps == ASSUME SessionConstants, SessionInv, WatchdogFires PROVE SessionInv'
<1> USE DEF SessionInv, SessionTypeOK, Watched, OnlineIsRestored, QuietClient, Deserted, OffIsOff
<1>1. a.watchdog /\ UNCHANGED <<queued, ghost, disk, restoring>>
  BY DEF WatchdogFires
<1>2. listed \/ LateEvents
  BY <1>1 DEF SessionConstants, NoAttempt
<1>3. CASE a' = [a EXCEPT !.watchdog = FALSE] /\ UNCHANGED <<retry, client>> /\ (a.status \in {"web_session", "logged_out"} \/ a.guard)
  BY <1>1, <1>2, <1>3 DEF disk, Attempts
<1>4. CASE a.status # "logged_out" /\ ~a.guard /\ RetriesLeft
           /\ RetryLogon([[a EXCEPT !.watchdog = FALSE] EXCEPT !.retries = @ + 1], client)
  <2> DEFINE at == [[a EXCEPT !.watchdog = FALSE] EXCEPT !.retries = @ + 1]
  <2>0. a.retries + 1 \in 0..LoginRetryMax /\ [a EXCEPT !.watchdog = FALSE].retries = a.retries
    BY <1>4 DEF Attempts, RetriesLeft, SessionConstants
  <2>1. at \in Attempts /\ at.guard = a.guard
    BY <2>0 DEF Attempts
  <2> HIDE DEF at
  <2>2. /\ a' \in Attempts /\ client' \in Clients /\ retry' \in Seq(Details) /\ retry' # <<>>
        /\ a'.status = "connecting" /\ a'.guard = a.guard
    BY <1>4, <2>1, TryingAgain DEF at
  <2> QED BY <1>1, <1>2, <1>4, <2>2 DEF disk
<1>5. CASE a' = [[a EXCEPT !.watchdog = FALSE] EXCEPT !.status = "failed"] /\ UNCHANGED <<retry, client>>
  BY <1>1, <1>2, <1>5 DEF disk, Attempts, Status
<1> QED BY <1>3, <1>4, <1>5 DEF WatchdogFires

LEMMA ReconnectKeeps == ASSUME SessionConstants, SessionInv, ReconnectTick PROVE SessionInv'
<1> USE DEF SessionInv, SessionTypeOK, Watched, OnlineIsRestored, QuietClient, Deserted, OffIsOff
<1>1. a.status \in {"disconnected", "failed"} /\ ~a.guard /\ UNCHANGED <<queued, ghost, disk, restoring>>
  BY DEF ReconnectTick, Stranded
<1>2. listed \/ LateEvents
  BY <1>1 DEF SessionConstants, NoAttempt
<1>3. CASE a' = [a EXCEPT !.blocked = TRUE] /\ UNCHANGED <<retry, client>>
  BY <1>1, <1>2, <1>3 DEF disk, Attempts
<1>4. CASE ~(a.tries >= ReconnectMax) /\ RetryLogon([a EXCEPT !.tries = @ + 1, !.backoff = TRUE, !.retries = 0], client)
  <2> DEFINE at == [a EXCEPT !.tries = @ + 1, !.backoff = TRUE, !.retries = 0]
  <2>0. a.tries + 1 \in 0..ReconnectMax /\ 0 \in 0..LoginRetryMax
    BY <1>4 DEF Attempts, SessionConstants
  <2>1. at \in Attempts /\ at.guard = a.guard
    BY <2>0 DEF Attempts
  <2> HIDE DEF at
  <2>2. /\ a' \in Attempts /\ client' \in Clients /\ retry' \in Seq(Details) /\ retry' # <<>>
        /\ a'.status = "connecting" /\ a'.guard = a.guard
    BY <1>4, <2>1, TryingAgain DEF at
  <2> QED BY <1>1, <1>2, <2>2 DEF disk
<1> QED BY <1>3, <1>4 DEF ReconnectTick

LEMMA TimersKeep ==
  ASSUME SessionConstants, SessionInv, GraceOver \/ BackoffOver \/ WebSessionTick
  PROVE  SessionInv'
<1> USE DEF SessionInv, SessionTypeOK, Watched, OnlineIsRestored, QuietClient, Deserted, OffIsOff, disk
<1>1. CASE GraceOver \/ BackoffOver
  <2>1. a' \in Attempts /\ a'.status = a.status /\ a'.guard = a.guard /\ a'.watchdog = a.watchdog
    BY <1>1 DEF GraceOver, BackoffOver, Attempts
  <2>2. a # NoAttempt /\ UNCHANGED <<retry, queued, client, ghost, disk, restoring>>
    BY <1>1 DEF GraceOver, BackoffOver, NoAttempt
  <2> QED BY <2>1, <2>2
<1>2. CASE WebSessionTick
  <2>1. client' \in Clients /\ a.status = "web_session" /\ UNCHANGED <<a, retry, queued, ghost, disk, restoring>>
    BY <1>2 DEF WebSessionTick, Clients
  <2>2. client # NoClient
    BY <1>2 DEF WebSessionTick, NoClient
  <2> QED BY <2>1, <2>2
<1> QED BY <1>1, <1>2

LEMMA RestoreOneKeeps == ASSUME SessionConstants, SessionInv, RestoreOne PROVE SessionInv'
<1> USE DEF SessionInv, SessionTypeOK, Watched, OnlineIsRestored, QuietClient, Deserted, OffIsOff
<1>1. restoring' = FALSE /\ UNCHANGED <<listed, saved>>
  BY DEF RestoreOne
<1>2. CASE UNCHANGED <<a, retry, queued, client, ghost, intent>>
  BY <1>1, <1>2
<1>3. CASE a.status \notin Active /\ intent' = FALSE /\ UNCHANGED <<a, retry, queued, client, ghost>>
  BY <1>1, <1>3 DEF Active
<1>4. CASE listed /\ Start(saved = "token") /\ UNCHANGED intent
  <2>1. /\ a' \in Attempts /\ client' \in Clients /\ queued' \in Details \cup {"none"} /\ retry' = <<>>
        /\ a'.status \in {"connecting", "failed"} /\ ~a'.guard
        /\ a'.status = "failed" \/ a'.watchdog \/ queued' # "none"
        /\ ghost' = (ghost \/ (client.web /\ LateEvents))
    BY <1>4, Starting
  <2>2. ghost' \in BOOLEAN /\ (~LateEvents => ~ghost')
    BY <2>1
  <2> QED BY <1>1, <1>4, <2>1, <2>2, Blank
<1> QED BY <1>2, <1>3, <1>4 DEF RestoreOne

LEMMA EventsKeep ==
  ASSUME SessionConstants, SessionInv,
         SteamGuard \/ LoggedOn \/ RefreshToken \/ Wallet \/ WebSession \/ WebSessionLost \/ GhostWebSession
  PROVE  SessionInv'
<1> USE DEF SessionInv, SessionTypeOK, Watched, OnlineIsRestored, QuietClient, Deserted, OffIsOff, disk
<1>1. CASE SteamGuard \/ LoggedOn
  <2>1. a' \in Attempts /\ a'.status \in {"guard_required", "logged_on"}
    BY <1>1 DEF SteamGuard, LoggedOn, Attempts, Status, Active
  <2>2. client' \in Clients
    BY <1>1 DEF SteamGuard, LoggedOn, Clients
  <2>3. client # NoClient /\ UNCHANGED <<retry, queued, ghost, disk, restoring>>
    BY <1>1 DEF SteamGuard, LoggedOn, NoClient
  <2> QED BY <2>1, <2>2, <2>3
<1>2. CASE RefreshToken \/ Wallet
  <2>1. /\ a' \in Attempts /\ a'.status = a.status /\ a'.guard = a.guard /\ a'.watchdog = a.watchdog
        /\ saved' \in {"empty", "token"} /\ UNCHANGED <<retry, queued, client, ghost, listed, intent, restoring>>
    BY <1>2 DEF RefreshToken, Wallet, SaveSession, Attempts
  <2>2. client # NoClient
    BY <1>2 DEF RefreshToken, Wallet, NoClient
  <2> QED BY <2>1, <2>2
<1>3. CASE WebSession
  <2>1. 0 \in 0..LoginRetryMax /\ 0 \in 0..ReconnectMax
    BY DEF SessionConstants
  <2>2. a' = Online(a) /\ client' = [client EXCEPT !.web = FALSE] /\ intent' = TRUE
        /\ UNCHANGED <<retry, queued, ghost, listed, restoring>>
    BY <1>3 DEF WebSession
  <2>3. a' \in Attempts /\ a'.status = "web_session"
    <3> DEFINE at == [a EXCEPT !.watchdog = FALSE, !.retries = 0, !.had = TRUE, !.since = FALSE]
               on == [at EXCEPT !.grace = FALSE, !.tries = 0, !.backoff = FALSE, !.blocked = FALSE]
    <3>1. at \in Attempts
      BY <2>1 DEF Attempts
    <3>2. Online(a) = [on EXCEPT !.status = "web_session"]
      BY DEF Online
    <3> HIDE DEF at
    <3>3. on \in Attempts
      BY <2>1, <3>1 DEF Attempts
    <3> HIDE DEF on
    <3> QED BY <2>2, <3>2, <3>3 DEF Attempts, Status, Active
  <2>4. client' \in Clients
    BY <2>2 DEF Clients
  <2>5. client # NoClient /\ saved' \in {"empty", "token"}
    BY <1>3 DEF WebSession, NoClient, SaveSession
  <2> QED BY <2>2, <2>3, <2>4, <2>5
<1>4. CASE WebSessionLost
  <2>1. client' = [client EXCEPT !.web = FALSE] /\ UNCHANGED <<a, retry, queued, ghost, disk, restoring>>
    BY <1>4 DEF WebSessionLost
  <2>2. client' \in Clients /\ client'.conn = client.conn /\ ~client'.web
    BY <2>1 DEF Clients
  <2>3. client # NoClient
    BY <1>4 DEF WebSessionLost, NoClient
  <2> QED BY <2>1, <2>2, <2>3
<1>5. CASE GhostWebSession
  BY <1>5 DEF GhostWebSession, SessionConstants
<1> QED BY <1>1, <1>2, <1>3, <1>4, <1>5

LEMMA DisconnectedKeeps ==
  ASSUME SessionConstants, SessionInv, NEW fatal \in BOOLEAN, Disconnected(fatal)
  PROVE  SessionInv'
<1> USE DEF SessionInv, SessionTypeOK, Watched, OnlineIsRestored, QuietClient, Deserted, OffIsOff
<1>1. UNCHANGED <<retry, queued, ghost, listed, saved, restoring>> /\ client # NoClient
  BY DEF Disconnected, NoClient
<1>2. client' \in Clients
  <2>1. CASE client' = [client EXCEPT !.conn = IF fatal THEN "off" ELSE "trying", !.cred = "token", !.web = @ /\ LateEvents]
    BY <2>1 DEF Clients, Details, SessionConstants
  <2>2. CASE client' = [client EXCEPT !.leaving = FALSE]
    BY <2>2 DEF Clients
  <2> QED BY <2>1, <2>2 DEF Disconnected
<1>3. CASE a.status = "logged_out"
  <2>1. UNCHANGED <<a, intent>>
    BY <1>3 DEF Disconnected
  <2>2. ~LateEvents => client'.conn = "off" /\ ~client'.web
    BY <1>3 DEF Disconnected, Clients
  <2> QED BY <1>1, <1>2, <2>1, <2>2
<1>4. CASE a.status # "logged_out"
  <2>1. a' \in Attempts /\ a'.status = "disconnected" /\ intent' \in BOOLEAN
    <3>1. Disconnect(a, fatal, "disconnected") /\ a \in Attempts /\ intent \in BOOLEAN
      BY <1>4 DEF Disconnected
    <3>2. "disconnected" \in Status
      BY DEF Status
    <3> QED BY <3>1, <3>2, Dropped
  <2> QED BY <1>1, <1>2, <2>1
<1> QED BY <1>3, <1>4

LEMMA ErrorKeeps ==
  ASSUME SessionConstants, SessionInv, NEW kind \in {"account", "password", "other"}, Error(kind)
  PROVE  SessionInv'
<1> USE DEF SessionInv, SessionTypeOK, Watched, OnlineIsRestored, QuietClient, Deserted, OffIsOff
<1>1. client.conn \in {"trying", "on"} /\ UNCHANGED <<queued, ghost, listed, saved, restoring>>
  BY DEF Error
<1>2. listed \/ LateEvents
  BY <1>1 DEF SessionConstants, NoClient
<1>3. CASE FallsBack(kind)
  <2> DEFINE at == [[a EXCEPT !.watchdog = FALSE] EXCEPT !.token = FALSE, !.details = "password", !.retries = 0]
             c == [client EXCEPT !.conn = "off"]
  <2>0. 0 \in 0..LoginRetryMax /\ ~a.guard
    BY <1>3 DEF SessionConstants, FallsBack
  <2>1. at \in Attempts /\ c \in Clients /\ at.guard = a.guard
    BY <2>0 DEF Attempts, Clients, Details
  <2>2. RetryLogon(at, c) /\ UNCHANGED intent
    BY <1>3 DEF Error
  <2> HIDE DEF at, c
  <2>3. /\ a' \in Attempts /\ client' \in Clients /\ retry' \in Seq(Details) /\ retry' # <<>>
        /\ a'.status = "connecting" /\ a'.guard = a.guard
    BY <2>1, <2>2, TryingAgain
  <2> QED BY <1>1, <1>2, <2>0, <2>2, <2>3
<1>4. CASE ~FallsBack(kind)
  <2>1. a' \in Attempts /\ a'.status = "failed" /\ intent' \in BOOLEAN /\ retry' = retry
    <3> DEFINE at == [a EXCEPT !.watchdog = FALSE]
    <3>1. Disconnect(at, kind # "other", "failed") /\ intent \in BOOLEAN /\ retry' = retry
      BY <1>4 DEF Error
    <3>2. at \in Attempts
      BY DEF Attempts
    <3>3. "failed" \in Status /\ (kind # "other") \in BOOLEAN
      BY DEF Status
    <3> HIDE DEF at
    <3> QED BY <3>1, <3>2, <3>3, Dropped
  <2>2. client' \in Clients
    BY <1>4 DEF Error, Clients, SessionConstants
  <2> QED BY <1>1, <1>2, <2>1, <2>2
<1> QED BY <1>3, <1>4

LEMMA RestartKeeps == ASSUME SessionConstants, SessionInv, Restart PROVE SessionInv'
<1>1. SessionTypeOK'
  BY Blank DEF SessionInv, SessionTypeOK, Restart, disk
<1> QED BY <1>1, Blank DEF SessionInv, SessionTypeOK, Watched, OnlineIsRestored, QuietClient, Deserted, OffIsOff, Restart, disk

LEMMA SessionStep == SessionConstants /\ SessionInv /\ [Next]_vars => SessionInv'
<1> SUFFICES ASSUME SessionConstants, SessionInv, [Next]_vars PROVE SessionInv'
  OBVIOUS
<1>1. CASE User
  BY <1>1, LoginKeeps, UserKeeps DEF User
<1>2. CASE Timers
  BY <1>2, RetryFiresKeeps, QueueGrantsKeeps, WatchdogFiresKeeps, ReconnectKeeps, TimersKeep, RestoreOneKeeps DEF Timers
<1>3. CASE Events
  BY <1>3, EventsKeep, DisconnectedKeeps, ErrorKeeps DEF Events
<1>4. CASE UNCHANGED vars
  BY <1>4 DEF vars, disk, SessionInv, SessionTypeOK, Watched, OnlineIsRestored, QuietClient, Deserted, OffIsOff
<1> QED BY <1>1, <1>2, <1>3, <1>4, RestartKeeps DEF Next

LEMMA InvKept ==
  SessionInv => SessionTypeOK /\ ConnectingIsWatched /\ OnlineIsRestored /\ (~LateEvents => DeletedForgotten)
  BY DEF SessionInv, Watched, ConnectingIsWatched, QuietClient, Deserted, DeletedForgotten, NoAttempt

\* An attempt that connects never hangs, and an account that is online comes back
\* after a crash, however events, timers and the queue overtake each other; and
\* nothing of a deleted account is left or comes back, if its client is quiet.
THEOREM SessionIsKept ==
  ASSUME SessionConstants
  PROVE  Spec => [](SessionTypeOK /\ ConnectingIsWatched /\ OnlineIsRestored /\ (~LateEvents => DeletedForgotten))
<1>1. Init => SessionInv
  BY SessionStarts
<1>2. SessionInv /\ [Next]_vars => SessionInv'
  BY SessionStep
<1> QED BY <1>1, <1>2, InvKept, PTL DEF Spec

\* After a manual logout the account stays off the list of those to restore, whatever
\* of the client was under way, if it is quiet once it is logged off.
THEOREM LogoutIsForGood ==
  ASSUME SessionConstants, ~LateEvents
  PROVE  Spec => LogoutSticks
<1>1. Init => SessionInv
  BY SessionStarts
<1>2. SessionInv /\ [Next]_vars => SessionInv'
  BY SessionStep
<1>3. SessionInv /\ [Next]_vars => [a.status = "logged_out" /\ ~intent => ~intent']_vars
  <2> SUFFICES ASSUME SessionInv, Next, a.status = "logged_out", ~intent PROVE ~intent'
    OBVIOUS
  <2>1. ~client.web /\ client.conn = "off"
    BY DEF SessionInv, OffIsOff
  <2>2. CASE User
    BY <2>2 DEF User, Login, SubmitGuardCode, Logout, Remove, RequestWebSession, disk
  <2>3. CASE Timers
    BY <2>3 DEF Timers, RetryFires, QueueGrants, WatchdogFires, GraceOver, BackoffOver, ReconnectTick, WebSessionTick, RestoreOne, disk
  <2>4. CASE Events
    BY <2>1, <2>4 DEF Events, SteamGuard, LoggedOn, RefreshToken, Wallet, WebSession, WebSessionLost, GhostWebSession,
                     Disconnected, Disconnect, Error, disk
  <2> QED BY <2>2, <2>3, <2>4 DEF Next, Restart, disk
<1> QED BY <1>1, <1>2, <1>3, PTL DEF Spec, LogoutSticks
=============================================================================
