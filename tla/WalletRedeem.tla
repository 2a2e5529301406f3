----------------------------- MODULE WalletRedeem -----------------------------
(***************************************************************************)
(* Redeeming wallet codes: the jobs of src/wallet/index.ts and, for each   *)
(* pair of account and code, the login and redemption of redeem.ts, each   *)
(* with a Steam client of its own.                                         *)
(*                                                                         *)
(* The events of a client go on when its login has been settled: they are  *)
(* modelled whatever has become of the pair.                               *)
(***************************************************************************)
EXTENDS WorkerPool

VARIABLES
  pair,      \* what each pair is waiting for, or its last status
  conn,      \* its client: none, trying, loggedOn (a webLogOn is under way) or off
  code,      \* Steam: "unused", "redeemed" by this pair, or "bad"
  allDone    \* "done" has been pushed

redeemVars == <<poolVars, pair, conn, code, allDone>>

PairEnds == {"success", "error"}

RedeemInit ==
  /\ PoolInit
  /\ pair = [i \in Batch |-> "queued"] /\ conn = [i \in Batch |-> "none"]
  /\ code \in [Batch -> {"unused", "bad"}]
  /\ allDone = FALSE

-----------------------------------------------------------------------------
\* The end of redeemPair, which no error leaves.
EndPair(i, status) ==
  /\ pair' = [pair EXCEPT ![i] = status]
  /\ Leave(i)

\* A worker takes a pair; the rate limit of its proxy may make it wait first.
StartPair(w) ==
  /\ Take(w)
  /\ pair' = [pair EXCEPT ![cursor] = "slot"]
  /\ UNCHANGED <<conn, code, allDone>>

\* slot.ready: whether the turn came or was cancelled is not looked at.  The
\* client logs on, or refuses to: no password, no token, or an exception.
SlotReady(i) ==
  /\ pair[i] = "slot"
  /\ \/ /\ pair' = [pair EXCEPT ![i] = "login"]
        /\ conn' = [conn EXCEPT ![i] = "trying"]
        /\ UNCHANGED poolVars
     \/ EndPair(i, "error") /\ UNCHANGED conn
  /\ UNCHANGED <<code, allDone>>

\* Mutant: a login that fails leaves its client logged on.
LoginFailsOnly(i) ==
  /\ pair[i] = "login"
  /\ EndPair(i, "error")
  /\ UNCHANGED <<conn, code, allDone>>

\* finish(err): the timer, a code nobody can give, an error of the client.
LoginFails(i) ==
  /\ pair[i] = "login"
  /\ conn' = [conn EXCEPT ![i] = "off"]
  /\ EndPair(i, "error")
  /\ UNCHANGED <<code, allDone>>

\* loggedOn: ask for a web session.
LoggedOn(i) ==
  /\ conn[i] = "trying"
  /\ conn' = [conn EXCEPT ![i] = "loggedOn"]
  /\ UNCHANGED <<poolVars, pair, code, allDone>>

\* webSession settles the login; later ones change nothing.
WebSession(i) ==
  /\ conn[i] = "loggedOn" /\ pair[i] = "login"
  /\ pair' = [pair EXCEPT ![i] = "redeem"]
  /\ UNCHANGED <<poolVars, conn, code, allDone>>

\* The client loses its connection; once the login is settled that is only logged.
ClientError(i) ==
  /\ conn[i] \in {"trying", "loggedOn"} /\ pair[i] # "login"
  /\ conn' = [conn EXCEPT ![i] = "off"]
  /\ UNCHANGED <<poolVars, pair, code, allDone>>

\* Mutant: whatever steamstore does not throw for is a success.
SaysRedeemedAlways(result) == TRUE

\* steamstore throws for an invalid or used code; eresult tells the rest.
SaysRedeemed(result) == result = "ok"

\* redeemForAccount from redeemWalletCode on: the client is logged off in the
\* end, whatever the answer.  A good code may be refused (wrong currency, too
\* many attempts), and the answer may be lost after it was redeemed.
Redeem(i) ==
  /\ pair[i] = "redeem"
  /\ conn' = [conn EXCEPT ![i] = "off"]
  /\ UNCHANGED allDone
  /\ \/ /\ code[i] = "unused"
        /\ code' = [code EXCEPT ![i] = "redeemed"]
        /\ EndPair(i, IF SaysRedeemed("ok") THEN "success" ELSE "error")
     \/ /\ code[i] = "unused"
        /\ code' = [code EXCEPT ![i] = "redeemed"] /\ EndPair(i, "error")
     \/ /\ EndPair(i, IF SaysRedeemed("refused") THEN "success" ELSE "error")
        /\ UNCHANGED code

\* Promise.all of the workers.
PushDone ==
  /\ PoolDone /\ ~allDone
  /\ allDone' = TRUE
  /\ UNCHANGED <<poolVars, pair, conn, code>>

PairSteps(i) == SlotReady(i) \/ LoginFails(i) \/ Redeem(i)

RedeemNext ==
  \/ \E w \in Workers : StartPair(w)
  \/ \E i \in Batch : PairSteps(i) \/ LoggedOn(i) \/ WebSession(i) \/ ClientError(i)
  \/ PushDone

RedeemSpec == RedeemInit /\ [][RedeemNext]_redeemVars

-----------------------------------------------------------------------------
\* A redemption's state at any moment.
RedeemTypeOK ==
  /\ cursor \in 1..Entries + 1 /\ at \in [Workers -> Batch \cup {Idle}]
  /\ pair \in [Batch -> {"queued", "slot", "login", "redeem"} \cup PairEnds]
  /\ conn \in [Batch -> {"none", "trying", "loggedOn", "off"}]
  /\ code \in [Batch -> {"unused", "redeemed", "bad"}]
  /\ allDone \in BOOLEAN

\* A pair reported as a success did redeem its code: no refusal passes for one.
SuccessIsRedeemed == \A i \in Batch : pair[i] = "success" => code[i] = "redeemed"

\* However a pair ends, its client is logged off: none stays behind, logged on
\* beside the session of the account, when the job is done.
NoClientStays == \A i \in Batch : pair[i] \in PairEnds => conn[i] \in {"none", "off"}

\* The job of src/wallet: each code is used once, what is reported was redeemed,
\* and no client stays.
RedeemHonest == EachByOne /\ SuccessIsRedeemed /\ NoClientStays

-----------------------------------------------------------------------------
\* Waiting for the rate limit ends (EveryoneLeaves of LoginLimit), the timer of
\* the login fires, requests end.
RedeemDue ==
  (\E w \in Workers : StartPair(w)) \/ (\E i \in Batch : PairSteps(i)) \/ PushDone
RedeemFairSpec == RedeemSpec /\ WF_redeemVars(RedeemDue)

\* Every job that has begun ends, and says so.
RedeemJobEnds == (\E i \in Batch : pair[i] # "queued") ~> allDone
=============================================================================
