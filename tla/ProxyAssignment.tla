--------------------------- MODULE ProxyAssignment ---------------------------
(***************************************************************************)
(* What the proxy pool promises, whatever its configuration is made of: an *)
(* account sends over what it may use and nothing else, it stays with the  *)
(* IP it was given for as long as it may use it, and it is not given the   *)
(* IP of another account while the same proxy has one to spare.            *)
(***************************************************************************)
CONSTANTS
  Accounts,
  IPs,         \* all an account may be given, pairs of a proxy and a number
  Direct,      \* no proxy
  None

VARIABLES
  allowed,     \* what each account may use: IPs, or Direct, or nothing at all
  kept,        \* the IP each account has been given, or None
  sent         \* the account that sends and what it sends over, or None

promiseVars == <<allowed, kept, sent>>

PromiseInit ==
  /\ allowed \in [Accounts -> SUBSET (IPs \cup {Direct})]
  /\ kept = [a \in Accounts |-> None] /\ sent = None

\* The configuration changes.  Who may not use its IP any more may lose it.
Reconfigure ==
  /\ allowed' \in [Accounts -> SUBSET (IPs \cup {Direct})]
  /\ \E lost \in SUBSET {a \in Accounts : kept[a] \notin allowed'[a]} :
       kept' = [a \in Accounts |-> IF a \in lost THEN None ELSE kept[a]]
  /\ sent' = None

\* The process starts again: who uses what is not stored.
Forget ==
  /\ allowed' \in [Accounts -> SUBSET (IPs \cup {Direct})]
  /\ kept' = [a \in Accounts |-> None] /\ sent' = None

\* The other accounts that have been given this IP.
Sharing(a, ip) == {b \in Accounts \ {a} : kept[b] = ip}

SendDirect(a) ==
  /\ allowed[a] = {Direct}
  /\ sent' = <<a, Direct>>
  /\ UNCHANGED <<allowed, kept>>

SendOver(a, ip) ==
  /\ ip \in allowed[a] /\ ip # Direct
  /\ IF kept[a] \in allowed[a] THEN ip = kept[a]
     ELSE Sharing(a, ip) # {} =>
            \A other \in allowed[a] : other[1] = ip[1] => Sharing(a, other) # {}
  /\ kept' = [kept EXCEPT ![a] = ip]
  /\ sent' = <<a, ip>>
  /\ UNCHANGED allowed

PromiseNext ==
  \/ Reconfigure \/ Forget
  \/ \E a \in Accounts : SendDirect(a) \/ \E ip \in IPs : SendOver(a, ip)

PromiseSpec == PromiseInit /\ [][PromiseNext]_promiseVars
=============================================================================
