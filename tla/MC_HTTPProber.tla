---------------------------- MODULE MC_HTTPProber ----------------------------
(***************************************************************************)
(* Model values and module configurations for checking HTTPProber.         *)
(*                                                                         *)
(* h1 resolves in both families, h2 in ip4 only and h3 in neither, so a    *)
(* redirect can lead to a host the pinned dial family cannot reach.  The  *)
(* modules are the union of two families: every header map over two       *)
(* values with a default module otherwise, and every combination of the   *)
(* verdict options with no headers; a few more exercise each early        *)
(* return.                                                                 *)
(***************************************************************************)
EXTENDS HTTPProber, TLC

CONSTANTS h1, h2, h3, r1, r2, rbad, v1, v2

MCHosts == {h1, h2, h3}
MCHostFamilies == (h1 :> {"ip4", "ip6"}) @@ (h2 :> {"ip4"}) @@ (h3 :> {})
MCTargets ==
  {[host |-> h1, scheme |-> "none", parses |-> TRUE],
   [host |-> h2, scheme |-> "https", parses |-> TRUE],
   [host |-> h1, scheme |-> "http", parses |-> FALSE]}
MCRegexps == {r1, r2, rbad}
MCBadRegexps == {rbad}
MCValues == {v1, v2}
MCStatuses == {200, 300, 404}

Base ==
  [protocol |-> "", preferred |-> "", method |-> "", headers |-> <<>>,
   validStatus |-> <<>>, noFollow |-> FALSE, failIfSSL |-> FALSE,
   failIfNotSSL |-> FALSE, failIfMatches |-> <<>>, failIfNotMatches |-> <<>>,
   tlsConfigOK |-> TRUE, body |-> FALSE]

(* All header maps over keys ks and the two values. *)
HeaderMaps(ks) == UNION {[d -> MCValues] : d \in SUBSET ks}

HostKey(c) == [name |-> "host", case |-> c]
AcceptKey(c) == [name |-> "accept", case |-> c]

HeaderModules(ks) == {[Base EXCEPT !.headers = h] : h \in HeaderMaps(ks)}

SSLPolicies == {<<FALSE, FALSE>>, <<TRUE, FALSE>>, <<FALSE, TRUE>>}
RegexpLists == {<<<<>>, <<>>>>, <<<<r1>>, <<>>>>, <<<<>>, <<r2>>>>,
                <<<<r1, rbad>>, <<r2>>>>}

(* Every combination of the options the verdict depends on. *)
VerdictModules(statusLists, noFollows, regexpLists) ==
  {[Base EXCEPT !.preferred = p, !.validStatus = vs, !.noFollow = nf,
                !.failIfSSL = ssl[1], !.failIfNotSSL = ssl[2],
                !.failIfMatches = rx[1], !.failIfNotMatches = rx[2]] :
     p \in {"", "ip4"}, vs \in statusLists, nf \in noFollows,
     ssl \in SSLPolicies, rx \in regexpLists}

(* One module per early return or special dial network. *)
EarlyModules ==
  {[Base EXCEPT !.protocol = "icmp"], [Base EXCEPT !.method = "BAD"],
   [Base EXCEPT !.tlsConfigOK = FALSE]}

(* Modules that send a request body, following redirects or not. *)
BodyModules ==
  {[Base EXCEPT !.body = TRUE, !.validStatus = vs, !.noFollow = nf] :
     vs \in {<<>>, <<307>>}, nf \in BOOLEAN}

MCHTTPModules ==
  HeaderModules({HostKey("lower"), HostKey("title"), AcceptKey("lower"),
                 AcceptKey("upper")})
  \cup VerdictModules({<<>>, <<404>>, <<200, 300>>}, BOOLEAN, RegexpLists)
  \cup EarlyModules \cup BodyModules

(* A Host key in capitals. *)
MCHTTPModulesHostCase ==
  HeaderModules({HostKey("upper"), AcceptKey("lower")})

(* Redirects not followed and accepted, with a body check. *)
MCHTTPModulesRedirectBody ==
  VerdictModules({<<302>>}, {TRUE}, {<<<<>>, <<r1>>>>})

(* Chains of twelve redirects reach the limit of ten. *)
MCMaxChain == 12

==============================================================================
