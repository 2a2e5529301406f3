------------------------------ MODULE ToolLogin ------------------------------
(***************************************************************************)
(* Login to the tool itself: its password, the sessions of browsers, and   *)
(* the lock after wrong passwords (src/core/auth.ts).                      *)
(*                                                                         *)
(* A password is a number: 0 the one of APP_PASSWORD, n > 0 the n-th that  *)
(* was set in the tool.  A token is the number of its issue.  Time counts  *)
(* in parts of the window.  Each browser has an address of its own.        *)
(***************************************************************************)
EXTENDS Integers, Sequences

CONSTANTS
  Browsers,
  MAX_FAILS_PER_IP, MAX_FAILS_GLOBAL,
  FAIL_WINDOW, LOCK,   \* in the model's units of time
  ttl,                 \* how long a session lasts
  MaxTime, MaxSets, MaxTokens, MaxTries   \* bounds of the model

ASSUME LoginConstants ==
  /\ {MAX_FAILS_PER_IP, MAX_FAILS_GLOBAL, FAIL_WINDOW, LOCK, ttl} \subseteq Nat \ {0}
  /\ FAIL_WINDOW = LOCK
  /\ {MaxTime, MaxSets, MaxTokens, MaxTries} \subseteq Nat

VARIABLES
  at,          \* now
  envPassword, \* whether APP_PASSWORD is set
  authFile,    \* the password in auth.json, 0 if none
  fileCred,    \* the one in memory
  sessions,    \* tokens in memory and when they end
  cookie,      \* by browser, its token, 0 if none
  failsByIp, globalFails,
  issued,      \* history: by token, the password it was issued under
  guesses,     \* history: by browser, when its wrong passwords were compared
  tries        \* bound of the model

loginVars == <<at, envPassword, authFile, fileCred, sessions, cookie, failsByIp, globalFails,
               issued, guesses, tries>>
lockVars  == <<failsByIp, globalFails, guesses, tries>>
credVars  == <<envPassword, authFile, fileCred>>

NoFails == [count |-> 0, firstAt |-> -1, lockedUntil |-> 0]
configured == fileCred > 0 \/ envPassword
Locked(b) == failsByIp[b].lockedUntil > at \/ globalFails.lockedUntil > at
isValidToken(t) == t \in DOMAIN sessions /\ sessions[t] > at
isAuthed(b) == configured /\ isValidToken(cookie[b])

-----------------------------------------------------------------------------
\* bumpWindow: after a whole window without a first failure, counting is anew.
bumpWindow(e) ==
  IF e.firstAt < 0 \/ at - e.firstAt > FAIL_WINDOW THEN [e EXCEPT !.count = 0, !.firstAt = at] ELSE e

\* Mutant: the lock starts with the failure after the last one allowed.
LateCounted(e, max) ==
  LET bumped == bumpWindow(e) IN
  IF bumped.count >= max THEN [bumped EXCEPT !.count = 0, !.lockedUntil = at + LOCK]
  ELSE [bumped EXCEPT !.count = @ + 1]

\* One failure more; the last one allowed locks, and counting starts at 0.
Counted(e, max) ==
  LET bumped == bumpWindow(e) IN
  IF bumped.count + 1 >= max THEN [bumped EXCEPT !.count = 0, !.lockedUntil = at + LOCK]
  ELSE [bumped EXCEPT !.count = @ + 1]

recordFailure(b) ==
  /\ tries < MaxTries /\ tries' = tries + 1
  /\ failsByIp' = [failsByIp EXCEPT ![b] = Counted(@, MAX_FAILS_PER_IP)]
  /\ globalFails' = Counted(globalFails, MAX_FAILS_GLOBAL)
  /\ guesses' = [guesses EXCEPT ![b] = Append(@, at)]

Cleared(b) ==
  /\ failsByIp' = [failsByIp EXCEPT ![b] = NoFails]
  /\ guesses' = [guesses EXCEPT ![b] = <<>>]
  /\ UNCHANGED <<globalFails, tries>>

pruned == {t \in DOMAIN sessions : sessions[t] > at}

\* A new token beside the ones kept; only the request's browser gets it.
issueToken(b, kept) ==
  LET t == Len(issued) + 1 IN
  /\ t <= MaxTokens
  /\ issued' = Append(issued, IF fileCred' > 0 THEN fileCred' ELSE 0)
  /\ sessions' = [s \in kept \cup {t} |-> IF s = t THEN at + ttl ELSE sessions[s]]
  /\ cookie' = [cookie EXCEPT ![b] = t]

\* persistPassword: the file first; when it cannot be written nothing changes.
persistPassword ==
  /\ fileCred < MaxSets /\ authFile' = fileCred + 1 /\ fileCred' = authFile'
  /\ UNCHANGED envPassword

-----------------------------------------------------------------------------
\* login with the right password, and with a wrong one.
Login(b) ==
  /\ configured /\ ~Locked(b)
  /\ UNCHANGED <<credVars, at>>
  /\ Cleared(b) /\ issueToken(b, pruned)

LoginWrong(b) ==
  /\ configured /\ ~Locked(b)
  /\ recordFailure(b)
  /\ sessions' = [t \in pruned |-> sessions[t]]
  /\ UNCHANGED <<at, credVars, cookie, issued>>

\* setup: only while there is no password, with the token of the server's log.
Setup(b) ==
  /\ ~configured /\ ~Locked(b)
  /\ persistPassword /\ Cleared(b) /\ issueToken(b, DOMAIN sessions)
  /\ UNCHANGED at

SetupWrong(b) ==
  /\ ~configured /\ ~Locked(b) /\ recordFailure(b)
  /\ UNCHANGED <<at, credVars, sessions, cookie, issued>>

\* Mutant: the other sessions are left as they are.
ChangeKeepsSessions(b) ==
  /\ isAuthed(b) /\ ~Locked(b)
  /\ persistPassword /\ issueToken(b, DOMAIN sessions)
  /\ UNCHANGED <<at, lockVars>>

\* changePassword: every session ends, this browser gets a new one.
ChangePassword(b) ==
  /\ isAuthed(b) /\ ~Locked(b)
  /\ persistPassword /\ issueToken(b, {})
  /\ UNCHANGED <<at, lockVars>>

ChangeWrong(b) ==
  /\ isAuthed(b) /\ ~Locked(b) /\ recordFailure(b)
  /\ UNCHANGED <<at, credVars, sessions, cookie, issued>>

Logout(b) ==
  /\ cookie[b] # 0
  /\ sessions' = [t \in DOMAIN sessions \ {cookie[b]} |-> sessions[t]]
  /\ cookie' = [cookie EXCEPT ![b] = 0]
  /\ UNCHANGED <<at, credVars, lockVars, issued>>

Passes ==
  /\ at < MaxTime /\ at' = at + 1
  /\ UNCHANGED <<credVars, sessions, cookie, lockVars, issued>>

\* A restart reads the file; sessions and locks were in memory.
LoginRestart ==
  /\ fileCred' = authFile
  /\ sessions' = <<>> /\ globalFails' = NoFails
  /\ failsByIp' = [b \in Browsers |-> NoFails] /\ guesses' = [b \in Browsers |-> <<>>]
  /\ UNCHANGED <<at, envPassword, authFile, cookie, issued, tries>>

LoginInit ==
  /\ at = 0 /\ envPassword \in BOOLEAN /\ authFile = 0 /\ fileCred = 0
  /\ sessions = <<>> /\ cookie = [b \in Browsers |-> 0]
  /\ failsByIp = [b \in Browsers |-> NoFails] /\ globalFails = NoFails
  /\ issued = <<>> /\ guesses = [b \in Browsers |-> <<>>] /\ tries = 0

LoginNext ==
  \/ \E b \in Browsers :
       \/ Login(b) \/ LoginWrong(b) \/ Setup(b) \/ SetupWrong(b)
       \/ ChangePassword(b) \/ ChangeWrong(b) \/ Logout(b)
  \/ Passes \/ LoginRestart

LoginSpec == LoginInit /\ [][LoginNext]_loginVars

-----------------------------------------------------------------------------
LoginTypeOK ==
  /\ {authFile, fileCred} \subseteq 0..MaxSets
  /\ DOMAIN sessions \subseteq 1..Len(issued)
  /\ \A b \in Browsers : cookie[b] \in 0..Len(issued) /\ failsByIp[b].count < MAX_FAILS_PER_IP
  /\ globalFails.count < MAX_FAILS_GLOBAL

\* What the tool asks for is what it would ask for after a restart, and every
\* session it accepts was opened under that password: a change of password ends
\* all the others.
OnlyCurrentSessions ==
  /\ fileCred = authFile
  /\ \A t \in DOMAIN sessions : issued[t] = fileCred

\* Within any window, less than twice the failures allowed are compared for an
\* address that does not log in meanwhile.  Counting is anew after a whole window
\* since its first failure, or after a lock of that length; when all the failures
\* that lock come at one instant, the window of the first is not over at the
\* instant the lock ends.
GuessesBounded ==
  \A b \in Browsers : \A i \in 1..Len(guesses[b]) :
    LET first == guesses[b][i]
        within == {j \in i..Len(guesses[b]) : guesses[b][j] - first < FAIL_WINDOW}
    IN  \A j \in within : j - i < 2 * MAX_FAILS_PER_IP - 1

LoginKept == OnlyCurrentSessions /\ GuessesBounded
=============================================================================
