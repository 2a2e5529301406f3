------------------------------ MODULE ProxyList ------------------------------
(***************************************************************************)
(* From a line of text to a proxy that works: a pasted list is read line   *)
(* by line (src/proxy/import.ts), the parts are checked and put together   *)
(* to an address (src/proxy/index.ts, src/core/proxy.ts), and the address  *)
(* is tried by asking for the exit IP a few times (src/proxy/check.ts).    *)
(*                                                                         *)
(* A text is a sequence of words and separators.  "box.io" is a word that  *)
(* looks like a host, "box" is not, "80" and "90" are numbers.             *)
(***************************************************************************)
EXTENDS Integers, Sequences, FiniteSets, SequencesExt

CONSTANTS Samples, IpUrls, MaxPool     \* ROTATING_SAMPLES; addresses asked; bound of the model

\* Assumed of them.
ListConstants == {Samples, IpUrls, MaxPool} \subseteq Nat \ {0}

VARIABLES
  step,      \* "line", "read", "draft", "refused", "probing", "checked"
  job,       \* what it is about
  outcome    \* what came of it

listVars == <<step, job, outcome>>

-----------------------------------------------------------------------------
(* Lines.                                                                  *)

Digits == {"80", "90"}
Hostish(word) == word = "box.io"
Words == {"box", "box.io", "joe", "pw"} \cup Digits
IsHostPort(t) == Len(t) = 3 /\ t[1] \in Words /\ t[2] = ":" /\ t[3] \in Digits
At(t, sign) == {i \in DOMAIN t : t[i] = sign}
Before(t, i) == SubSeq(t, 1, i - 1)
After(t, i) == SubSeq(t, i + 1, Len(t))
FirstOf(S) == CHOOSE i \in S : \A j \in S : i <= j
LastOf(S) == CHOOSE i \in S : \A j \in S : j <= i

\* Mutant: up to the last colon.
CutLast(t) == IF At(t, ":") = {} THEN <<t, <<>>>> ELSE <<Before(t, LastOf(At(t, ":"))), After(t, LastOf(At(t, ":")))>>
\* credentials: up to the first colon, and the rest.
Credentials(t) == IF At(t, ":") = {} THEN <<t, <<>>>> ELSE <<Before(t, FirstOf(At(t, ":"))), After(t, FirstOf(At(t, ":")))>>
Parts(protocol, host, port, auth) == {[protocol |-> protocol, host |-> host, port |-> port, user |-> auth[1], pass |-> auth[2]]}

\* user:pass@host:port comes first, host:port@user:pass when only the left looks like one.
TakesRight(left, right) == IsHostPort(right) /\ (Hostish(right[1]) \/ ~IsHostPort(left))
ParseBody(protocol, t) ==
  IF At(t, "@") # {}
  THEN LET left == Before(t, LastOf(At(t, "@")))
           right == After(t, LastOf(At(t, "@")))
       IN IF TakesRight(left, right) THEN Parts(protocol, right[1], right[3], Credentials(left))
          ELSE IF IsHostPort(left) THEN Parts(protocol, left[1], left[3], Credentials(right)) ELSE {}
  ELSE LET parts == SetToSortSeq(At(t, ":"), <)
       IN IF Len(parts) = 1 /\ IsHostPort(t) THEN Parts(protocol, t[1], t[3], <<<<>>, <<>>>>)
          ELSE IF Len(parts) >= 3 /\ parts[1] = 2 /\ parts[2] = 4 /\ t[3] \in Digits
               THEN Parts(protocol, t[1], t[3], <<SubSeq(t, 5, parts[3] - 1), After(t, parts[3])>>)
          ELSE {}
\* A line that cannot be read gives nothing but the reason.
ParseLine(t, fallback) ==
  IF t # <<>> /\ Head(t) \in {"http://", "https://"} THEN ParseBody(IF Head(t) = "http://" THEN "http" ELSE "https", Tail(t))
  ELSE IF t # <<>> /\ Head(t) \in {"socks5://", "ftp://"} THEN {}
  ELSE ParseBody(fallback, t)
ReadLine == step = "line" /\ step' = "read" /\ outcome' = ParseLine(job.text, job.fallback) /\ UNCHANGED job

\* How a proxy is written, in the four forms the tool takes.
AuthText(p) == p.user \o (IF p.pass = <<>> THEN <<>> ELSE <<":">> \o p.pass)
Written(form, p) ==
  CASE form = 1 -> <<p.host, ":", p.port>>
    [] form = 2 -> AuthText(p) \o <<"@", p.host, ":", p.port>>
    [] form = 3 -> <<p.host, ":", p.port, "@">> \o AuthText(p)
    [] form = 4 -> <<p.host, ":", p.port, ":">> \o p.user \o <<":">> \o p.pass
Schemes == {<<>>, <<"http://">>, <<"https://">>, <<"socks5://">>, <<"ftp://">>}

-----------------------------------------------------------------------------
(* Addresses.  A user name is plain, ends in -rotate or names the number.  *)

IsProxyTemplate(address) == address.user = "{n}"
BuildProxyUrl(proxy) == [user |-> proxy.user, number |-> 0]
ProxyTemplate(proxy) ==
  IF proxy.type # "rotating" \/ proxy.poolSize < 1 \/ IsProxyTemplate(BuildProxyUrl(proxy)) \/ proxy.user # "-rotate"
  THEN BuildProxyUrl(proxy) ELSE BuildProxyUrl([proxy EXCEPT !.user = "{n}"])
IsSticky(proxy) == proxy.type = "rotating" /\ proxy.poolSize > 0 /\ IsProxyTemplate(ProxyTemplate(proxy))
FillProxyTemplate(address, index) == [user |-> "numbered", number |-> index]
UrlOf(proxy, index) ==
  IF IsSticky(proxy) THEN FillProxyTemplate(ProxyTemplate(proxy), IF index < 1 THEN 1 ELSE index) ELSE ProxyTemplate(proxy)

\* checkedProxy: a name with a number if and only if there is a pool to number.
Accepted(proxy) ==
  IF proxy.type # "static" /\ proxy.poolSize > 0 THEN IsSticky(proxy)
  ELSE ~IsProxyTemplate(BuildProxyUrl(proxy))
\* sampleUrls: one address; the same a few times; a few with different numbers.
SampleUrls(proxy) ==
  IF proxy.type = "static" THEN {<<UrlOf(proxy, 0)>>}
  ELSE IF ~IsSticky(proxy) THEN {[i \in 1..Samples |-> UrlOf(proxy, 0)]}
  ELSE LET want == IF Samples < proxy.poolSize THEN Samples ELSE proxy.poolSize
       IN {[i \in 1..want |-> UrlOf(proxy, f[i])] : f \in {g \in [1..want -> 1..proxy.poolSize] : \A i, j \in 1..want : g[i] = g[j] => i = j}}
TestDraft ==
  /\ step = "draft"
  /\ LET proxy == IF job.type = "static" THEN [job EXCEPT !.poolSize = 0] ELSE job
     IN IF ~Accepted(proxy) THEN step' = "refused" /\ UNCHANGED <<job, outcome>>
        ELSE /\ step' = "probing" /\ outcome' = [status |-> "", ips |-> {}, samples |-> 0]
             /\ \E urls \in SampleUrls(proxy) : job' = [urls |-> urls, at |-> 1, ipUrl |-> 1, asked |-> <<>>]

-----------------------------------------------------------------------------
(* checkProxy and exitIp: the next address for the exit IP is asked only   *)
(* when the one before answered with an error.                             *)

Next(ips) ==
  /\ outcome' = [status |-> "healthy", ips |-> outcome.ips \cup ips, samples |-> outcome.samples + Cardinality(ips)]
  /\ job' = [job EXCEPT !.at = @ + 1, !.ipUrl = 1] /\ step' = IF job.at = Len(job.urls) THEN "checked" ELSE "probing"
\* The first sample decides; later ones are left out when they fail.
SampleFailed ==
  IF job.at = 1 THEN step' = "checked" /\ outcome' = [outcome EXCEPT !.status = "unreachable"] /\ UNCHANGED job ELSE Next({})
Probe ==
  /\ step = "probing"
  /\ \/ \E ip \in {1, 2} : Next({ip})
     \/ IF job.ipUrl < IpUrls THEN job' = [job EXCEPT !.ipUrl = @ + 1] /\ UNCHANGED <<step, outcome>> ELSE SampleFailed
     \/ SampleFailed

-----------------------------------------------------------------------------
Proxies == [host : {"box", "box.io"}, port : Digits, user : {<<"joe">>, <<"box.io">>, <<"90">>},
            pass : {<<"pw">>, <<"80">>, <<"pw", ":", "90">>, <<"pw", "@", "joe">>, <<"pw", "@", "box.io", ":", "90">>}]
ListInit ==
  \/ /\ step = "line" /\ outcome = {}
     /\ job \in {[text |-> scheme \o Written(form, p), fallback |-> fallback, meant |-> p, form |-> form, scheme |-> scheme] :
                   scheme \in Schemes, form \in 1..4, p \in Proxies, fallback \in {"http", "https"}}
  \/ step = "draft" /\ outcome = {} /\ job \in [type : {"static", "rotating"}, user : {"joe", "-rotate", "{n}"}, poolSize : 0..MaxPool]
ListNext == ReadLine \/ TestDraft \/ Probe
ListSpec == ListInit /\ [][ListNext]_listVars

-----------------------------------------------------------------------------
\* A line is read as it was meant, or refused; or it has two meanings and is the
\* other @-form of what was read, which a host that looks like one, in the
\* standard form, never is.
ReadsAsMeant ==
  step = "read" => \A p \in outcome :
    \/ <<p.host, p.port>> = <<job.meant.host, job.meant.port>> /\ (job.form # 1 => p.user = job.meant.user /\ p.pass = job.meant.pass)
    \/ /\ job.form # 2 \/ ~Hostish(job.meant.host)
       /\ At(p.user, ":") = {} /\ \E form \in {2, 3} : job.scheme \o Written(form, p) = job.text
\* And with a host that looks like one the standard form is always read.
ReadsStandard ==
  step = "read" /\ job.scheme \notin {<<"socks5://">>, <<"ftp://">>} /\ job.form \in {1, 2} /\ Hostish(job.meant.host) => outcome # {}

\* What is dialled names no number that was not filled in, and different accounts'
\* numbers are different addresses.
DialsInFull ==
  step \in {"probing", "checked"} =>
    /\ \A i \in DOMAIN job.urls : ~IsProxyTemplate(job.urls[i])
    /\ \A i, j \in DOMAIN job.urls : job.urls[i].user = "numbered" /\ i # j => job.urls[i] # job.urls[j]

\* A healthy proxy has been seen, and with the address of every sample that came.
ChecksHonestly ==
  step = "checked" => /\ (outcome.status = "healthy") = (outcome.samples > 0) /\ (outcome.ips # {}) = (outcome.samples > 0)
                      /\ outcome.samples <= Len(job.urls) /\ Cardinality(outcome.ips) <= outcome.samples

\* From a line to a proxy that works.
ListKept == ReadsAsMeant /\ ReadsStandard /\ DialsInFull /\ ChecksHonestly
=============================================================================
