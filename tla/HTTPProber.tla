------------------------------ MODULE HTTPProber ------------------------------
(***************************************************************************)
(* The HTTP prober of the blackbox exporter (probeHTTP and                 *)
(* matchRegularExpressions in http.go).                                    *)
(*                                                                         *)
(* A probe is one goroutine whose state is local to it, so the model       *)
(* follows one probe of one module against one target.  probeHTTP runs    *)
(* in three stretches separated by the network: the preparation (defaults, *)
(* target parsing and resolution, TLS config, request and headers), the    *)
(* exchanges of client.Do (one response per hop, with CheckRedirect        *)
(* deciding at each redirect), and the evaluation of the final response.   *)
(* The server and the network choose every response: a redirect to a host *)
(* and scheme, or a final status and body, or a transport error (refused,  *)
(* reset, client.Timeout) at any hop.  A body is abstracted to the set of  *)
(* regular expressions it matches; those in BadRegexps do not compile.     *)
(***************************************************************************)
EXTENDS Naturals, Sequences, SequencesExt

CONSTANTS
  Hosts,         \* host names, model values
  HostFamilies,  \* [Hosts -> SUBSET {"ip4", "ip6"}]: families a name resolves in
  Targets,       \* targets: [host, scheme ("none", "http", "https"), parses]
  Regexps,       \* regular expressions of the module, model values
  BadRegexps,    \* the ones regexp.Compile rejects
  Values,        \* header values, model values
  Statuses,      \* status codes of final responses
  HTTPModules,   \* the HTTP module configurations
  MaxChain       \* bound on the redirect responses the server sends

Families == {"ip4", "ip6"}

(* A header key: a name and the letter case it is written in. *)
HeaderKeys == [name : {"host", "accept"}, case : {"lower", "title", "upper"}]

(* The redirect limit of CheckRedirect (redirects > 10). *)
RedirectLimit == 10
(* Redirect statuses: 302 stands for 301, 302 and 303, which are redone *)
(* without the body; 307 for 307 and 308, which must resend it.          *)
RedirectStatuses == {302, 307}

NoHost == "none"
(* A body of Content-Length 0: the model's expressions all need at least  *)
(* one character, so it matches none of them.                              *)
EmptyBody == {}
NoResponse == [status |-> 0, tls |-> FALSE, body |-> {}, cut |-> FALSE,
               stopped |-> FALSE]
Responses == [status : Statuses \cup RedirectStatuses, tls : BOOLEAN,
              body : SUBSET (Regexps \ BadRegexps), cut : BOOLEAN,
              stopped : BOOLEAN]
Diagnostics == {"", "Could not parse target URL", "Error resolving address",
                "Error generating TLS config",
                "Error creating request for target", "Error reading HTTP body",
                "Could not compile regexp", "Match failed", "SSL failed"}

ASSUME HostFamilies \in [Hosts -> SUBSET Families]
ASSUME Targets \subseteq [host : Hosts, scheme : {"none", "http", "https"},
                          parses : BOOLEAN]
ASSUME BadRegexps \subseteq Regexps
ASSUME MaxChain \in Nat

VARIABLES
  pc,           \* "start", "do", "evaluate", "done"
  module,       \* the module of the probe
  target,       \* the target
  dialProtocol, \* the network every dial of the client uses
  ipProtocol,   \* probe_ip_protocol written (0: not written)
  authority,    \* the Host the first request is sent with
  sentHeader,   \* the header fields the first request is written with
  host,         \* host of the URL of the current hop
  tls,          \* the URL of the current hop is https
  hop,          \* redirects followed
  redirects,    \* the local redirects, set by CheckRedirect (probe_http_redirects)
  response,     \* the response client.Do returns, or NoResponse
  success,      \* the verdict probeHTTP returns
  probeError    \* the diagnostic probeHTTP returns

vars == <<pc, module, target, dialProtocol, ipProtocol, authority, sentHeader,
          host, tls, hop, redirects, response, success, probeError>>

(* module is chosen from HTTPModules by Init and never changes. *)
TypeOK ==
  /\ pc \in {"start", "do", "evaluate", "done"}
  /\ target \in Targets
  /\ dialProtocol \in {"", "tcp4", "tcp6", "icmp"}
  /\ ipProtocol \in {0, 4, 6}
  /\ authority \in Hosts \cup Values \cup {NoHost}
  /\ \E names \in SUBSET {"accept"} : sentHeader \in [names -> Values]
  /\ host \in Hosts /\ tls \in BOOLEAN
  /\ hop \in 0 .. RedirectLimit
  /\ redirects \in 0 .. RedirectLimit + 1
  /\ response \in Responses \cup {NoResponse}
  /\ success \in BOOLEAN
  /\ probeError \in Diagnostics

(***************************************************************************)
(* The defaults of probeHTTP: Protocol "" is tcp, tcp prefers ip6, and the *)
(* fallback is ip4 after ip6 and ip6 otherwise.                            *)
(***************************************************************************)
ProtocolChoice(m) ==
  LET protocol  == IF m.protocol = "" THEN "tcp" ELSE m.protocol
      preferred == IF protocol = "tcp" /\ m.preferred = ""
                   THEN "ip6" ELSE m.preferred
  IN  [protocol |-> protocol, preferred |-> preferred,
       fallback |-> IF preferred = "ip6" THEN "ip4" ELSE "ip6"]

(***************************************************************************)
(* The families the two net.ResolveIPAddr calls may resolve the host in:  *)
(* the preferred one, or the fallback once the preferred lookup failed.    *)
(* Any lookup may also fail transiently; both failing is a separate        *)
(* outcome of Prepare.                                                     *)
(***************************************************************************)
ResolveIPAddr(c, h) == {c.preferred, c.fallback} \cap HostFamilies[h]

(* Variant of TitleIsHost comparing the key with "Host" as written. *)
TitleIsHostExact(k) == k.name = "host" /\ k.case = "title"

(***************************************************************************)
(* strings.Title(key) == "Host": Title upper-cases the first letter of    *)
(* each word and leaves the others, so "host" and "Host" qualify and      *)
(* "HOST" does not.                                                       *)
(***************************************************************************)
TitleIsHost(k) == k.name = "host" /\ k.case \in {"lower", "title"}

(***************************************************************************)
(* One iteration of the header loop: a Host key sets request.Host, any    *)
(* other key is request.Header.Set under its canonical MIME name, which   *)
(* replaces the value of a key of the same name in another case.          *)
(***************************************************************************)
SetHeader(req, k, v) ==
  IF TitleIsHost(k) THEN [req EXCEPT !.host = v]
  ELSE [req EXCEPT !.header = (k.name :> v) @@ req.header]

(***************************************************************************)
(* The request a header order builds: the range over the Headers map, in  *)
(* the order Go's map iteration picks, then Request.write, which takes    *)
(* the authority from request.Host when set, else from the URL, and never *)
(* writes the "Host" entry of request.Header.                             *)
(***************************************************************************)
BuildRequest(m, t, order) ==
  LET req == FoldLeft(LAMBDA r, k : SetHeader(r, k, m.headers[k]),
                      [host |-> NoHost, header |-> <<>>], order)
  IN  [authority |-> IF req.host = NoHost THEN t.host ELSE req.host,
       header |-> [n \in (DOMAIN req.header) \ {"host"} |-> req.header[n]]]

(* The family the dial network is pinned to, "" for a non-tcp network. *)
DialFamily(d) == CASE d = "tcp4" -> "ip4" [] d = "tcp6" -> "ip6" [] OTHER -> ""

(* net.Dial(dialProtocol, address) can reach the host of the current hop. *)
Reachable == DialFamily(dialProtocol) \in HostFamilies[host]

(***************************************************************************)
(* The regexp loop of matchRegularExpressions over one list: the first    *)
(* expression that does not compile, or that matches (failWhenMatched) or *)
(* misses (not failWhenMatched) the body, ends it with its diagnostic.    *)
(***************************************************************************)
RECURSIVE RegexpFailure(_, _, _)
RegexpFailure(exprs, body, failWhenMatched) ==
  IF exprs = <<>> THEN ""
  ELSE LET e == Head(exprs)
       IN  CASE e \in BadRegexps -> "Could not compile regexp"
             [] (e \in body) = failWhenMatched -> "Match failed"
             [] OTHER -> RegexpFailure(Tail(exprs), body, failWhenMatched)

(***************************************************************************)
(* matchRegularExpressions: ReadAll fails on a body that cannot be read   *)
(* (cut: closed by client.Do or cut by the network), else                 *)
(* FailIfMatchesRegexp and then FailIfNotMatchesRegexp are checked in     *)
(* order.                                                                  *)
(***************************************************************************)
matchRegularExpressions(r, m) ==
  IF r.cut THEN [ok |-> FALSE, err |-> "Error reading HTTP body"]
  ELSE LET e1 == RegexpFailure(m.failIfMatches, r.body, TRUE)
           e  == IF e1 # "" THEN e1
                 ELSE RegexpFailure(m.failIfNotMatches, r.body, FALSE)
       IN  [ok |-> e = "", err |-> e]

(* The status check: one of ValidStatusCodes, or 2xx when there are none. *)
StatusValid(r, m) ==
  IF Len(m.validStatus) # 0
  THEN \E i \in DOMAIN m.validStatus : m.validStatus[i] = r.status
  ELSE 200 <= r.status /\ r.status < 300

RegexpsConfigured(m) ==
  Len(m.failIfMatches) > 0 \/ Len(m.failIfNotMatches) > 0

(* Variant of Verdict that runs the regexps whatever the status check gave. *)
VerdictRegexpsUnguarded(r, m) ==
  LET s  == [ok |-> r # NoResponse /\ StatusValid(r, m), err |-> ""]
      b  == IF r # NoResponse /\ RegexpsConfigured(m)
            THEN matchRegularExpressions(r, m) ELSE s
  IN  CASE r.tls /\ m.failIfSSL         -> [ok |-> FALSE, err |-> "SSL failed"]
        [] ~r.tls /\ m.failIfNotSSL     -> [ok |-> FALSE, err |-> "SSL failed"]
        [] OTHER                        -> b

(***************************************************************************)
(* The evaluation after client.Do, on the response or on none: the status *)
(* check, the regexps only if it passed, then the TLS policy (a missing   *)
(* response has no TLS state, so FailIfNotSSL applies to it).             *)
(***************************************************************************)
Verdict(r, m) ==
  LET s  == [ok |-> r # NoResponse /\ StatusValid(r, m), err |-> ""]
      b  == IF s.ok /\ RegexpsConfigured(m)
            THEN matchRegularExpressions(r, m) ELSE s
  IN  CASE r.tls /\ m.failIfSSL         -> [ok |-> FALSE, err |-> "SSL failed"]
        [] ~r.tls /\ m.failIfNotSSL     -> [ok |-> FALSE, err |-> "SSL failed"]
        [] OTHER                        -> b

(* Variant of CheckRedirect without the limit on the chain length. *)
CheckRedirectUnlimited(via, m) == m.noFollow

(* Variant of CheckRedirect that stops at the tenth redirect. *)
CheckRedirectAtTen(via, m) == via >= RedirectLimit \/ m.noFollow

(***************************************************************************)
(* client.CheckRedirect, with via the requests made so far: TRUE when it   *)
(* returns the error that stops the redirect.                             *)
(***************************************************************************)
CheckRedirect(via, m) == via > RedirectLimit \/ m.noFollow

-----------------------------------------------------------------------------
(* probeHTTP returns early with a diagnostic, before any request. *)
Fail(err) ==
  /\ pc' = "done"
  /\ success' = FALSE
  /\ probeError' = err
  /\ UNCHANGED <<module, target, authority, sentHeader, host, tls, hop,
                 redirects, response>>

(***************************************************************************)
(* probeHTTP up to client.Do: the defaults, the target URL parse and the   *)
(* resolution with fallback (tcp only; another protocol is dialled as      *)
(* is), probe_ip_protocol, the TLS config, http.NewRequest (an invalid     *)
(* method or URL fails) and the header loop in some map order.             *)
(***************************************************************************)
Prepare ==
  /\ pc = "start"
  /\ LET c == ProtocolChoice(module) IN
     IF c.protocol = "tcp" /\ ~target.parses
     THEN Fail("Could not parse target URL") /\ UNCHANGED <<dialProtocol, ipProtocol>>
     ELSE \/ /\ c.protocol = "tcp"
             /\ Fail("Error resolving address")
             /\ UNCHANGED <<dialProtocol, ipProtocol>>
          \/ \E d \in IF c.protocol = "tcp"
                      THEN {IF f = "ip6" THEN "tcp6" ELSE "tcp4" :
                              f \in ResolveIPAddr(c, target.host)}
                      ELSE {c.protocol} :
               /\ dialProtocol' = d
               /\ ipProtocol' = IF d = "tcp6" THEN 6 ELSE 4
               /\ CASE ~module.tlsConfigOK ->
                         Fail("Error generating TLS config")
                    [] module.method = "BAD" \/ ~target.parses ->
                         Fail("Error creating request for target")
                    [] OTHER ->
                         \E order \in SetToSeqs(DOMAIN module.headers) :
                           LET req == BuildRequest(module, target, order) IN
                           /\ authority' = req.authority
                           /\ sentHeader' = req.header
                           /\ host' = target.host
                           /\ tls' = (target.scheme = "https")
                           /\ pc' = "do"
                           /\ UNCHANGED <<module, target, hop, redirects,
                                          response, success, probeError>>

(* client.Do fails with no response: a refused or reset connection, a     *)
(* dial in a family the host has no address in, or client.Timeout.        *)
RequestError ==
  /\ pc = "do"
  /\ pc' = "evaluate"
  /\ UNCHANGED <<module, target, dialProtocol, ipProtocol, authority,
                 sentHeader, host, tls, hop, redirects, response, success,
                 probeError>>

(***************************************************************************)
(* The server answers the current hop with a redirect of status s to host *)
(* h, scheme https or not.  A 307 (308) must resend the request body, and *)
(* request.Body was set without GetBody, so Go's redirectBehavior does    *)
(* not redo it: client.Do returns this response as it is.  Otherwise Do   *)
(* calls CheckRedirect with the requests made so far; on its error Do     *)
(* returns this response with its body closed, else it follows.  A closed *)
(* body fails to read unless the response had Content-Length 0, for which *)
(* net/http hands back NoBody: an empty body that reads without error.    *)
(***************************************************************************)
Redirect ==
  /\ pc = "do"
  /\ Reachable
  /\ hop < MaxChain
  /\ \E s \in RedirectStatuses, h \in Hosts, https \in BOOLEAN,
        body \in SUBSET (Regexps \ BadRegexps), cut \in BOOLEAN :
       CASE s = 307 /\ module.body ->
              /\ response' = [status |-> s, tls |-> tls, body |-> body,
                               cut |-> cut, stopped |-> FALSE]
              /\ pc' = "evaluate"
              /\ UNCHANGED <<host, tls, hop, redirects>>
         [] CheckRedirect(hop + 1, module) ->
              /\ redirects' = hop + 1
              /\ \E zeroLength \in BOOLEAN :
                   response' = [status |-> s, tls |-> tls,
                                body |-> IF zeroLength THEN EmptyBody ELSE body,
                                cut |-> ~zeroLength, stopped |-> TRUE]
              /\ pc' = "evaluate"
              /\ UNCHANGED <<host, tls, hop>>
         [] OTHER ->
              /\ redirects' = hop + 1
              /\ host' = h
              /\ tls' = https
              /\ hop' = hop + 1
              /\ UNCHANGED <<pc, response>>
  /\ UNCHANGED <<module, target, dialProtocol, ipProtocol, authority,
                 sentHeader, success, probeError>>

(* The server answers the current hop with a final status and body; the   *)
(* network may cut the body's transfer.                                    *)
Respond ==
  /\ pc = "do"
  /\ Reachable
  /\ \E st \in Statuses, body \in SUBSET (Regexps \ BadRegexps), cut \in BOOLEAN :
       response' = [status |-> st, tls |-> tls, body |-> body, cut |-> cut,
                    stopped |-> FALSE]
  /\ pc' = "evaluate"
  /\ UNCHANGED <<module, target, dialProtocol, ipProtocol, authority,
                 sentHeader, host, tls, hop, redirects, success, probeError>>

(* probeHTTP after client.Do: the verdict and diagnostic it returns. *)
Evaluate ==
  /\ pc = "evaluate"
  /\ LET v == Verdict(response, module) IN
     /\ success' = v.ok
     /\ probeError' = v.err
  /\ pc' = "done"
  /\ UNCHANGED <<module, target, dialProtocol, ipProtocol, authority,
                 sentHeader, host, tls, hop, redirects, response>>

Init ==
  /\ pc = "start"
  /\ module \in HTTPModules
  /\ target \in Targets
  /\ dialProtocol = "" /\ ipProtocol = 0
  /\ authority = NoHost /\ sentHeader = <<>>
  /\ host = target.host /\ tls = FALSE
  /\ hop = 0 /\ redirects = 0
  /\ response = NoResponse
  /\ success = FALSE /\ probeError = ""

Next == Prepare \/ RequestError \/ Redirect \/ Respond \/ Evaluate

Spec == Init /\ [][Next]_vars

-----------------------------------------------------------------------------
(***************************************************************************)
(* Properties                                                              *)
(***************************************************************************)

(* The body check of the specification: no expression fails to compile,  *)
(* none of FailIfMatchesRegexp matches and all of FailIfNotMatchesRegexp   *)
(* match.                                                                  *)
SpecBodyValid(body, m) ==
  LET fm  == {m.failIfMatches[i] : i \in DOMAIN m.failIfMatches}
      fnm == {m.failIfNotMatches[i] : i \in DOMAIN m.failIfNotMatches}
  IN  (fm \cup fnm) \cap BadRegexps = {} /\ fm \cap body = {} /\ fnm \subseteq body

(* The network cut the body's transfer; a body client.Do closed after a  *)
(* stopped redirect was delivered whole, and the specification evaluates  *)
(* it (a stop is a deliberate non-error condition, spec 4.2 step 4).      *)
NetworkCut(r) == r.cut /\ ~r.stopped

(* A probe that got a response succeeds exactly when the status is valid, *)
(* the body (when regexps are configured) arrived whole and passes them,   *)
(* and the TLS policy holds; a probe without a response fails.  This is    *)
(* the verdict of probeHTTP's status, regexp and SSL checks and of         *)
(* matchRegularExpressions' ordered short-circuit, against the set-based  *)
(* reading of the specification.  A probe that returned before the       *)
(* request (authority never set) fails.                                    *)
VerdictPerSpec ==
  pc = "done" =>
    (success <=> /\ authority # NoHost
                 /\ response # NoResponse
                 /\ StatusValid(response, module)
                 /\ RegexpsConfigured(module) =>
                      ~NetworkCut(response) /\ SpecBodyValid(response.body, module)
                 /\ ~(response.tls /\ module.failIfSSL)
                 /\ ~(~response.tls /\ module.failIfNotSSL))

(* The first request carries the configured headers: a Host key, in any   *)
(* letter case, sets the authority to its value (the URL's host when      *)
(* there is none), no Host field is written, and every other header is    *)
(* sent with one of the values configured under its name.  This is about *)
(* the strings.Title test and Header.Set in probeHTTP's header loop.       *)
RequestFromHeaders ==
  pc \in {"do", "evaluate"} \/ (pc = "done" /\ authority # NoHost) =>
    LET keys(n) == {k \in DOMAIN module.headers : k.name = n}
        vals(n) == {module.headers[k] : k \in keys(n)}
    IN  /\ authority \in IF keys("host") = {} THEN {target.host} ELSE vals("host")
        /\ DOMAIN sentHeader = {n \in {"accept"} : keys(n) # {}}
        /\ \A n \in DOMAIN sentHeader : sentHeader[n] \in vals(n)

(* The redirect policy of CheckRedirect: with NoFollowRedirects no        *)
(* redirect is followed, else at most ten are, a chain is cut only at its *)
(* eleventh redirect, and probe_http_redirects counts the redirect        *)
(* responses received, the one that stopped the chain included.           *)
RedirectPolicy ==
  pc = "done" /\ response # NoResponse =>
    /\ redirects = hop + (IF response.stopped THEN 1 ELSE 0)
    /\ hop <= (IF module.noFollow THEN 0 ELSE RedirectLimit)
    /\ response.stopped => module.noFollow \/ hop = RedirectLimit

(* A redirect response ends client.Do only when CheckRedirect stopped it *)
(* (spec 4.2 step 4: the chain is cut only past ten redirects or under    *)
(* NoFollowRedirects): every other redirect is followed, whatever the     *)
(* module sends.  This is about the request body probeHTTP sets without   *)
(* GetBody and net/http's handling of 307 and 308.                        *)
RedirectsFollowed ==
  pc = "done" /\ response # NoResponse /\ response.status \in RedirectStatuses =>
    response.stopped

(* Every failed probe carries a diagnostic that says which check failed    *)
(* (the error taxonomy of the specification: no failure is a bare false). *)
FailureDiagnosed ==
  pc = "done" /\ ~success => probeError # ""

==============================================================================
