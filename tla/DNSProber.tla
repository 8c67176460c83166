------------------------------ MODULE DNSProber ------------------------------
(***************************************************************************)
(* The DNS prober (ProbeDNS, validRcode, validRRs in prober/dns.go).       *)
(*                                                                         *)
(* One probe is one goroutine with no shared state: its gauges live in a   *)
(* registry of its own.  The model follows one probe of a module through   *)
(* the transport default, target resolution, the query-type lookup, the    *)
(* exchange (which may fail or time out) and the validation of the         *)
(* response.  A resource record is abstracted to the set of regular        *)
(* expressions its text matches; a regular expression is a model value,    *)
(* and those in BadRegexps do not compile.                                 *)
(*                                                                         *)
(* Time is counted in ticks from the start of the probe; the context       *)
(* expires at Deadline.  Resolution does not see the context, so it may    *)
(* end past the deadline.                                                  *)
(***************************************************************************)
EXTENDS Integers, Sequences

CONSTANTS
  Targets,         \* target host names, model values
  TargetFamilies,  \* [Targets -> SUBSET {"ip4", "ip6"}]
  Regexps,         \* regular expressions of the validators, model values
  BadRegexps,      \* the ones regexp.MatchString fails to compile
  DNSModules,      \* the DNS module configurations
  Responses,       \* the responses a server may send
  Deadline,        \* the deadline of the probe's context, in ticks
  DefaultTimeout,  \* the client's per-phase default when Timeout is 0
  MaxElapsed       \* bound on the ticks resolution may take

Families == {"ip4", "ip6"}
Rcodes == {"NOERROR", "NXDOMAIN", "SERVFAIL", "REFUSED"}
Classes == {"IN", "CH"}
Types == {"ANY", "A", "AAAA", "MX"}
RR == SUBSET (Regexps \ BadRegexps)     \* the expressions the record's text matches
NoResponse == [rcode |-> "none", answer |-> <<>>, ns |-> <<>>, extra |-> <<>>]
NoQuestion == [qtype |-> "none", qclass |-> "none"]

ASSUME TargetFamilies \in [Targets -> SUBSET Families]
ASSUME BadRegexps \subseteq Regexps
ASSUME \A r \in Responses : r.rcode \in Rcodes
ASSUME {Deadline, DefaultTimeout, MaxElapsed} \subseteq Nat

VARIABLES
  pc,            \* "start", "exchange", "done"
  module,        \* the module of the probe
  target,        \* the target host
  dialProtocol,  \* client.Net: transport and family, e.g. "udp4"
  question,      \* the question of the query sent
  response,      \* the response received, or NoResponse
  numAnswer,     \* probe_dns_answer_rrs
  numAuthority,  \* probe_dns_authority_rrs
  numAdditional, \* probe_dns_additional_rrs
  success,       \* the value ProbeDNS returns
  elapsed,       \* time.Now() when the client's timeout is computed
  timeout        \* client.Timeout

vars == <<pc, module, target, dialProtocol, question, response, numAnswer,
          numAuthority, numAdditional, success, elapsed, timeout>>

TypeOK ==
  /\ pc \in {"start", "exchange", "done"}
  /\ module \in DNSModules
  /\ target \in Targets
  /\ dialProtocol \in {"", "udp4", "udp6", "tcp4", "tcp6"}
  /\ question \in [qtype : Types, qclass : Classes] \cup {NoQuestion}
  /\ response \in Responses \cup {NoResponse}
  /\ {numAnswer, numAuthority, numAdditional} \subseteq Nat
  /\ success \in BOOLEAN
  /\ elapsed \in 0 .. MaxElapsed
  /\ timeout \in Deadline - MaxElapsed .. Deadline

(***************************************************************************)
(* validRcode: no list (nil) means NOERROR only; a name that is not a      *)
(* known rcode fails the probe.  An empty list that is not nil makes no    *)
(* rcode valid.                                                            *)
(***************************************************************************)
validRcode(rcode, m) ==
  IF m.rcodesNil THEN rcode = "NOERROR"
  ELSE /\ \A i \in DOMAIN m.validRcodes : m.validRcodes[i] \in Rcodes
       /\ \E i \in DOMAIN m.validRcodes : m.validRcodes[i] = rcode

(* Variant of validRRs without the check of an empty section. *)
validRRsNoEmptyCheck(rrs, v) ==
  \A i \in DOMAIN rrs :
    /\ \A j \in DOMAIN v.failIfMatches :
         v.failIfMatches[j] \notin BadRegexps \cup rrs[i]
    /\ \A j \in DOMAIN v.failIfNotMatches :
         v.failIfNotMatches[j] \notin BadRegexps
         /\ v.failIfNotMatches[j] \in rrs[i]

(***************************************************************************)
(* validRRs: an empty section fails if some expression must match; each    *)
(* record fails on an expression that does not compile, on a match of a    *)
(* FailIfMatchesRegexp and on a miss of a FailIfNotMatchesRegexp.          *)
(***************************************************************************)
validRRs(rrs, v) ==
  /\ Len(rrs) = 0 => Len(v.failIfNotMatches) = 0
  /\ \A i \in DOMAIN rrs :
       /\ \A j \in DOMAIN v.failIfMatches :
            v.failIfMatches[j] \notin BadRegexps \cup rrs[i]
       /\ \A j \in DOMAIN v.failIfNotMatches :
            v.failIfNotMatches[j] \notin BadRegexps
            /\ v.failIfNotMatches[j] \in rrs[i]

(* Variant of DialNetwork that dials the transport without pinning the    *)
(* address family of the resolved target.                                  *)
DialNetworkUnpinned(transport, fam) == transport

(* client.Net: the transport followed by 4 or 6, the resolved family. *)
DialNetwork(transport, fam) ==
  transport \o (IF fam = "ip6" THEN "6" ELSE "4")

(* The transport protocol, "udp" when the module leaves it empty. *)
Transport(m) == IF m.transport = "" THEN "udp" ELSE m.transport

(***************************************************************************)
(* chooseProtocol: the family the target resolves in, the preferred one    *)
(* first; the preferred lookup may fail and the other family be used.      *)
(* Returns the families it may resolve to; both lookups may also fail.     *)
(***************************************************************************)
chooseProtocol(host) == TargetFamilies[host]

(* The response's section counts, exported on every path once a response *)
(* has arrived (the deferred gauge updates).                               *)
SetCounts(r) ==
  /\ numAnswer' = Len(r.answer)
  /\ numAuthority' = Len(r.ns)
  /\ numAdditional' = Len(r.extra)

(* Variant of ClientTimeout that gives the client the module's whole       *)
(* timeout instead of what is left of it.                                  *)
ClientTimeoutFull(now) == Deadline

(* client.Timeout = timeoutDeadline.Sub(time.Now()): what is left until   *)
(* the deadline, negative once it has passed.                              *)
ClientTimeout(now) == Deadline - now

(***************************************************************************)
(* The time client.Exchange may wait for a response.  miekg/dns uses a    *)
(* non-zero Timeout for its dial, write and read deadlines; a zero one     *)
(* falls back to its per-phase defaults; a negative one puts the deadlines *)
(* in the past, so the exchange fails at once.                             *)
(***************************************************************************)
ExchangeBudget(t) == IF t = 0 THEN DefaultTimeout ELSE t

-----------------------------------------------------------------------------
(* The probe fails before sending a query. *)
FailEarly ==
  /\ pc' = "done"
  /\ success' = FALSE
  /\ UNCHANGED <<module, target, question, response, numAnswer, numAuthority,
                 numAdditional, elapsed, timeout>>

(***************************************************************************)
(* ProbeDNS up to the exchange: default transport, reject other transports *)
(* than udp and tcp, split the port off and resolve the target, pick the   *)
(* dial network from the address family, look up the query type (ANY when *)
(* empty) and build the question: dns.Msg.SetQuestion, class IN.  Then    *)
(* the client's timeout is set from the clock, however long resolution     *)
(* took.                                                                   *)
(***************************************************************************)
Prepare ==
  /\ pc = "start"
  /\ IF Transport(module) \notin {"udp", "tcp"}
     THEN FailEarly /\ UNCHANGED dialProtocol
     ELSE \/ FailEarly /\ UNCHANGED dialProtocol
          \/ \E fam \in chooseProtocol(target) :
               /\ dialProtocol' = DialNetwork(Transport(module), fam)
               /\ question' = [qtype |-> IF module.queryType = "" THEN "ANY"
                                         ELSE module.queryType,
                               qclass |-> "IN"]
               /\ pc' = "exchange"
               /\ \E now \in 0 .. MaxElapsed :
                    /\ elapsed' = now
                    /\ timeout' = ClientTimeout(now)
               /\ UNCHANGED <<module, target, response, numAnswer,
                              numAuthority, numAdditional, success>>

(* client.Exchange fails: a timeout, or an error of the transport. *)
ExchangeError ==
  /\ pc = "exchange"
  /\ pc' = "done"
  /\ success' = FALSE
  /\ UNCHANGED <<module, target, dialProtocol, question, response, numAnswer,
                 numAuthority, numAdditional, elapsed, timeout>>

(* A response arrives: record the counts, then validate the rcode and the *)
(* answer, authority and additional sections, in that order.               *)
ExchangeResponse ==
  /\ pc = "exchange"
  /\ ExchangeBudget(timeout) > 0
  /\ \E r \in Responses :
       /\ response' = r
       /\ success' = /\ validRcode(r.rcode, module)
                     /\ validRRs(r.answer, module.validateAnswer)
                     /\ validRRs(r.ns, module.validateAuthority)
                     /\ validRRs(r.extra, module.validateAdditional)
       /\ SetCounts(r)
  /\ pc' = "done"
  /\ UNCHANGED <<module, target, dialProtocol, question, elapsed, timeout>>

Init ==
  /\ pc = "start"
  /\ module \in DNSModules
  /\ target \in Targets
  /\ dialProtocol = ""
  /\ question = NoQuestion
  /\ response = NoResponse
  /\ numAnswer = 0 /\ numAuthority = 0 /\ numAdditional = 0
  /\ success = FALSE
  /\ elapsed = 0 /\ timeout = Deadline

Next == Prepare \/ ExchangeError \/ ExchangeResponse

Spec == Init /\ [][Next]_vars

-----------------------------------------------------------------------------
(***************************************************************************)
(* Properties                                                              *)
(***************************************************************************)

(* The rcodes the specification accepts: the configured list, or NOERROR *)
(* alone when the list is empty.                                           *)
SpecValidRcodes(m) ==
  IF m.rcodesNil \/ m.validRcodes = <<>> THEN {"NOERROR"}
  ELSE {m.validRcodes[i] : i \in DOMAIN m.validRcodes}

(* A section meets its validator when, if empty, nothing must match, and  *)
(* else every record matches every must-match expression and no          *)
(* must-not-match one (an expression that does not compile meets none).   *)
SpecSectionValid(rrs, v) ==
  LET fm  == {v.failIfMatches[j] : j \in DOMAIN v.failIfMatches}
      fnm == {v.failIfNotMatches[j] : j \in DOMAIN v.failIfNotMatches}
      rrSet == {rrs[i] : i \in DOMAIN rrs}
  IN  /\ rrSet = {} => fnm = {}
      /\ \A rr \in rrSet : fnm \subseteq rr /\ (fm \cap rr = {}) /\ (fm \cup fnm) \cap BadRegexps = {}

(* A probe that got a response succeeds exactly when the response has an *)
(* accepted rcode and all three sections meet their validators: the       *)
(* verdict of ProbeDNS over validRcode and three validRRs calls is the     *)
(* specification's, for every module and response.                        *)
VerdictPerSpec ==
  pc = "done" /\ response # NoResponse =>
    (success <=> /\ response.rcode \in SpecValidRcodes(module)
                 /\ SpecSectionValid(response.answer, module.validateAnswer)
                 /\ SpecSectionValid(response.ns, module.validateAuthority)
                 /\ SpecSectionValid(response.extra, module.validateAdditional))

(***************************************************************************)
(* A probe whose resolution of the target ran past the deadline of its    *)
(* context evaluates no response: ProbeDNS computes client.Timeout from    *)
(* the clock after resolution, which is then negative, and client.Exchange *)
(* fails at once instead of waiting on the server for a full timeout.      *)
(***************************************************************************)
LateProbeFails ==
  pc = "done" /\ elapsed > Deadline => response = NoResponse

(* The query asks for the configured class (IN when none is configured). *)
QueryClassFromModule ==
  question # NoQuestion =>
    question.qclass = IF module.queryClass = "" THEN "IN" ELSE module.queryClass

=============================================================================
