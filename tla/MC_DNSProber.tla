---------------------------- MODULE MC_DNSProber ----------------------------
(* Instantiates DNSProber for TLC: a dual-stack target and one that does   *)
(* not resolve, two expressions and one that does not compile, responses   *)
(* with sections of at most one record.                                   *)
EXTENDS DNSProber

CONSTANTS t1, t2, r1, r2, rbad

MCTargets == {t1, t2}
MCTargetFamilies == [t \in MCTargets |-> IF t = t1 THEN {"ip4", "ip6"} ELSE {}]
MCRegexps == {r1, r2, rbad}
MCBadRegexps == {rbad}

\* a section: empty, or one record matching none, r1, or r1 and r2
Sections == {<<>>, <<{}>>, <<{r1}>>, <<{r1, r2}>>}

MCResponses ==
  [rcode : {"NOERROR", "NXDOMAIN", "SERVFAIL"}, answer : Sections,
   ns : {<<>>, <<{r1}>>}, extra : {<<>>, <<{}>>}]

NoCheck == [failIfMatches |-> <<>>, failIfNotMatches |-> <<>>]

\* validators: none, must match r1 and not r2, or with an expression that
\* does not compile on either side
Validators ==
  { NoCheck,
    [failIfMatches |-> <<r2>>, failIfNotMatches |-> <<r1>>],
    [failIfMatches |-> <<>>, failIfNotMatches |-> <<rbad>>],
    [failIfMatches |-> <<rbad>>, failIfNotMatches |-> <<>>] }

RcodeLists(lists) ==
  {[rcodesNil |-> TRUE, validRcodes |-> <<>>]} \cup
  {[rcodesNil |-> FALSE, validRcodes |-> l] : l \in lists}

ModulesOf(classes, rcodeLists) ==
  { [transport |-> tr, queryClass |-> qc, queryType |-> qt,
     rcodesNil |-> rl.rcodesNil, validRcodes |-> rl.validRcodes,
     validateAnswer |-> va, validateAuthority |-> vn,
     validateAdditional |-> vx] :
      tr \in {"", "tcp", "tls"}, qc \in classes, qt \in {"", "A"},
      rl \in rcodeLists, va \in Validators,
      vn \in {NoCheck, [failIfMatches |-> <<r1>>, failIfNotMatches |-> <<>>]},
      vx \in {NoCheck, [failIfMatches |-> <<>>, failIfNotMatches |-> <<r1>>]} }

\* modules as the configuration loader accepts them, rcode lists non-empty
MCDNSModules ==
  ModulesOf({""}, RcodeLists({<<"NOERROR", "NXDOMAIN">>, <<"SERVFAIL">>}))

\* with an explicitly empty list of valid rcodes (valid_rcodes: [])
MCDNSModulesEmptyRcodes ==
  ModulesOf({""}, RcodeLists({<<>>}))

\* with a configured query class
MCDNSModulesClass ==
  { [m EXCEPT !.queryClass = "CH"] : m \in ModulesOf({""}, RcodeLists({})) }
=============================================================================
