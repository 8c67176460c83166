----------------------------- MODULE ICMPProber -----------------------------
(***************************************************************************)
(* The ICMP prober of the blackbox exporter (probeICMP, getICMPSequence    *)
(* in icmp.go).                                                            *)
(*                                                                         *)
(* Several probes run concurrently, one goroutine each.  They share one    *)
(* process-wide uint16 counter, icmpSequence, guarded by                   *)
(* icmpSequenceMutex, and every echo request carries the same identifier   *)
(* (the pid).  Each probe opens its own raw ICMP socket, and a raw socket  *)
(* receives every ICMP packet of its family that reaches the host, the     *)
(* replies meant for the other probes included.  A probe tells its own     *)
(* reply apart only by the peer address and a byte comparison with the     *)
(* echo reply it expects, i.e. by the sequence number.                     *)
(*                                                                         *)
(* The network is a set of echo replies that may be delivered to any open  *)
(* socket of their family any number of times, or never: loss,             *)
(* duplication and delay.  A read of a packet that fails the peer or the   *)
(* byte check, and a read error other than a timeout, make the read loop  *)
(* `continue' without changing any state: they are stuttering steps.       *)
(* wm.Marshal of an Echo body and SetReadDeadline on an open socket cannot *)
(* fail, so their error returns are not reachable and not modelled.       *)
(***************************************************************************)
EXTENDS Naturals, FiniteSets

CONSTANTS
  Probes,         \* goroutines running probeICMP, model values
  Targets,        \* target host names, model values
  TargetFamilies, \* [Targets -> SUBSET {"ip4", "ip6"}]: families the name resolves in
  ICMPModules,    \* the ICMP module configurations probes are started with
  SeqWidth,       \* bit width of icmpSequence (uint16: 16)
  MaxProbes       \* bound on the number of probes started

Families == {"ip4", "ip6"}
NoAddr == [host |-> "none", fam |-> "none"]
Addr == [host : Targets, fam : Families]

ASSUME TargetFamilies \in [Targets -> SUBSET Families]
ASSUME ICMPModules \subseteq [protocol : {"", "icmp", "icmp4", "icmp6"},
                              preferred : {"", "ip4", "ip6"}]
ASSUME SeqWidth \in Nat \ {0} /\ MaxProbes \in Nat \ {0}

SeqMod == 2 ^ SeqWidth
NoHolder == "none"
NoSeq == SeqMod     \* no echo Seq drawn by the current probe (not a uint16 value)

PCs == {"idle", "resolve", "listen", "lock", "load", "send", "write", "read"}

(* The probe_error strings probeICMP returns; "" with success. *)
Diagnostics == {"", "Error resolving address", "Error listening to socket",
                "Error writing to socket", "Timeout reading from socket"}
NoResult == [success |-> FALSE, error |-> "none"]
Results == [success : BOOLEAN, error : Diagnostics] \cup {NoResult}

VARIABLES
  icmpSequence,      \* the shared counter
  icmpSequenceMutex, \* the probe holding the mutex, or NoHolder
  pc,                \* where each probe goroutine is
  target,            \* target of the current probe
  module,            \* module of the current probe
  ip,                \* the resolved peer address
  loaded,            \* the value of icmpSequence read inside the increment
  seq,               \* Seq of the echo request (the value getICMPSequence returned)
  expired,           \* the probe's deadline (now + module.Timeout) has passed
  requests,          \* echo requests sent: [dst, seq, tag]
  wire,              \* echo replies the network may deliver: [src, seq, tag]
  result,            \* (success, probe_error) of the last probe of each goroutine
  tag,               \* ghost: number of the current probe (1, 2, ...)
  accepted,          \* ghost: tag of the request answered by the accepted reply
  started            \* ghost: number of probes started

vars == <<icmpSequence, icmpSequenceMutex, pc, target, module, ip, loaded, seq,
          expired, requests, wire, result, tag, accepted, started>>

TypeOK ==
  /\ icmpSequence \in 0 .. SeqMod - 1
  /\ icmpSequenceMutex \in Probes \cup {NoHolder}
  /\ pc \in [Probes -> PCs]
  /\ target \in [Probes -> Targets]
  /\ module \in [Probes -> ICMPModules]
  /\ ip \in [Probes -> Addr \cup {NoAddr}]
  /\ loaded \in [Probes -> 0 .. SeqMod - 1]
  /\ seq \in [Probes -> (0 .. SeqMod - 1) \cup {NoSeq}]
  /\ expired \in [Probes -> BOOLEAN]
  /\ requests \subseteq [dst : Addr, seq : 0 .. SeqMod - 1, tag : 1 .. MaxProbes]
  /\ wire \subseteq [src : Addr, seq : 0 .. SeqMod - 1, tag : 1 .. MaxProbes]
  /\ result \in [Probes -> Results]
  /\ tag \in [Probes -> 0 .. MaxProbes]
  /\ accepted \in [Probes -> 0 .. MaxProbes]
  /\ started \in 0 .. MaxProbes

(* Variant of ProtocolChoice in which icmp4 keeps the ip6 fallback. *)
ProtocolChoiceIcmp4Fallback(m) ==
  LET protocol  == IF m.protocol = "" THEN "icmp" ELSE m.protocol
      preferred == IF protocol = "icmp" /\ m.preferred = ""
                   THEN "ip6" ELSE m.preferred
  IN  CASE protocol = "icmp4" -> [preferred |-> "ip4", fallback |-> "ip6"]
        [] protocol = "icmp6" -> [preferred |-> "ip6", fallback |-> ""]
        [] preferred = "ip6"  -> [preferred |-> "ip6", fallback |-> "ip4"]
        [] OTHER              -> [preferred |-> preferred, fallback |-> "ip6"]

(***************************************************************************)
(* The address-family policy of probeICMP: the defaults for Protocol and   *)
(* PreferredIPProtocol, and the fallback family ("" for none).             *)
(***************************************************************************)
ProtocolChoice(m) ==
  LET protocol  == IF m.protocol = "" THEN "icmp" ELSE m.protocol
      preferred == IF protocol = "icmp" /\ m.preferred = ""
                   THEN "ip6" ELSE m.preferred
  IN  CASE protocol = "icmp4" -> [preferred |-> "ip4", fallback |-> ""]
        [] protocol = "icmp6" -> [preferred |-> "ip6", fallback |-> ""]
        [] preferred = "ip6"  -> [preferred |-> "ip6", fallback |-> "ip4"]
        [] OTHER              -> [preferred |-> preferred, fallback |-> "ip6"]

(***************************************************************************)
(* net.ResolveIPAddr(fam, host): the addresses it may return.  A lookup of *)
(* a family the name has no address in fails; any lookup may also fail     *)
(* transiently, which is the empty choice.  Network "" means "ip": any     *)
(* family.                                                                 *)
(***************************************************************************)
ResolveIPAddr(fam, host) ==
  { a \in Addr : a.host = host /\ a.fam \in TargetFamilies[host]
                 /\ (fam = "" \/ a.fam = fam) }

(* Variant of MatchesReply that compares the peer address only. *)
MatchesReplyPeerOnly(p, pkt) ==
  pkt.src = ip[p]

(***************************************************************************)
(* The expected reply matches a packet read from the socket: the peer      *)
(* check (peer.String() != ip.String()) and the byte comparison with the   *)
(* marshalled echo reply, whose only probe-specific field is Seq (ID and   *)
(* Data are the same for every probe of the process).                      *)
(***************************************************************************)
MatchesReply(p, pkt) ==
  /\ pkt.src = ip[p]
  /\ pkt.seq = seq[p]

(* probeICMP returns (ok, err), the deferred socket.Close runs, and its    *)
(* locals (ip, the echo Seq) are dropped.                                  *)
Finish(p, ok, err) ==
  /\ pc' = [pc EXCEPT ![p] = "idle"]
  /\ result' = [result EXCEPT ![p] = [success |-> ok, error |-> err]]
  /\ ip' = [ip EXCEPT ![p] = NoAddr]
  /\ seq' = [seq EXCEPT ![p] = NoSeq]
  /\ expired' = [expired EXCEPT ![p] = FALSE]

-----------------------------------------------------------------------------
(* A probe request arrives for module m and target t; the deadline is     *)
(* fixed at now + module.Timeout.                                          *)
Start(p) ==
  /\ pc[p] = "idle"
  /\ started < MaxProbes
  /\ \E t \in Targets, m \in ICMPModules :
       /\ target' = [target EXCEPT ![p] = t]
       /\ module' = [module EXCEPT ![p] = m]
  /\ started' = started + 1
  /\ tag' = [tag EXCEPT ![p] = started + 1]
  /\ pc' = [pc EXCEPT ![p] = "resolve"]
  /\ expired' = [expired EXCEPT ![p] = FALSE]
  /\ result' = [result EXCEPT ![p] = NoResult]
  /\ accepted' = [accepted EXCEPT ![p] = 0]
  /\ UNCHANGED <<icmpSequence, icmpSequenceMutex, ip, loaded, seq, requests,
                 wire>>

(* Resolve the preferred family, then the fallback one if that failed. *)
Resolve(p) ==
  LET choice    == ProtocolChoice(module[p])
      preferred == ResolveIPAddr(choice.preferred, target[p])
      fallback  == IF choice.fallback = "" THEN {}
                   ELSE ResolveIPAddr(choice.fallback, target[p])
  IN  /\ pc[p] = "resolve"
      /\ \/ \E a \in preferred \cup fallback :
              /\ ip' = [ip EXCEPT ![p] = a]
              /\ pc' = [pc EXCEPT ![p] = "listen"]
              /\ UNCHANGED <<result, seq, expired>>
         \/ Finish(p, FALSE, "Error resolving address")
      /\ UNCHANGED <<icmpSequence, icmpSequenceMutex, target, module, loaded,
                     requests, wire, tag, accepted, started>>

(* icmp.ListenPacket on "ip4:icmp" or "ip6:ipv6-icmp", after the family of *)
(* ip; may fail (no raw socket privilege).                                 *)
Listen(p) ==
  /\ pc[p] = "listen"
  /\ \/ pc' = [pc EXCEPT ![p] = "lock"] /\ UNCHANGED <<result, ip, seq, expired>>
     \/ Finish(p, FALSE, "Error listening to socket")
  /\ UNCHANGED <<icmpSequence, icmpSequenceMutex, target, module, loaded,
                 requests, wire, tag, accepted, started>>

(* Variant of Lock that does not wait for the mutex to be free. *)
LockUnguarded(p) ==
  /\ pc[p] = "lock"
  /\ icmpSequenceMutex' = p
  /\ pc' = [pc EXCEPT ![p] = "load"]
  /\ UNCHANGED <<icmpSequence, target, module, ip, loaded, seq, expired,
                 requests, wire, result, tag, accepted, started>>

(* getICMPSequence: icmpSequenceMutex.Lock() *)
Lock(p) ==
  /\ pc[p] = "lock"
  /\ icmpSequenceMutex = NoHolder
  /\ icmpSequenceMutex' = p
  /\ pc' = [pc EXCEPT ![p] = "load"]
  /\ UNCHANGED <<icmpSequence, target, module, ip, loaded, seq, expired,
                 requests, wire, result, tag, accepted, started>>

(* icmpSequence++ reads the counter ... *)
Load(p) ==
  /\ pc[p] = "load"
  /\ loaded' = [loaded EXCEPT ![p] = icmpSequence]
  /\ pc' = [pc EXCEPT ![p] = "send"]
  /\ UNCHANGED <<icmpSequence, icmpSequenceMutex, target, module, ip, seq,
                 expired, requests, wire, result, tag, accepted, started>>

(* Variant of Send in which the counter is an unbounded integer. *)
SendNoWrap(p) ==
  LET s == loaded[p] + 1
  IN  /\ pc[p] = "send"
      /\ icmpSequence' = s
      /\ icmpSequenceMutex' = NoHolder
      /\ loaded' = [loaded EXCEPT ![p] = 0]
      /\ seq' = [seq EXCEPT ![p] = s]
      /\ pc' = [pc EXCEPT ![p] = "write"]
      /\ UNCHANGED <<target, module, ip, expired, requests, wire, result, tag,
                     accepted, started>>

(* ... writes it back incremented modulo 2^16, the deferred Unlock runs,  *)
(* and the value is returned as the Seq of the echo request wm.            *)
Send(p) ==
  LET s == (loaded[p] + 1) % SeqMod
  IN  /\ pc[p] = "send"
      /\ icmpSequence' = s
      /\ icmpSequenceMutex' = NoHolder
      /\ loaded' = [loaded EXCEPT ![p] = 0]
      /\ seq' = [seq EXCEPT ![p] = s]
      /\ pc' = [pc EXCEPT ![p] = "write"]
      /\ UNCHANGED <<target, module, ip, expired, requests, wire, result, tag,
                     accepted, started>>

(* wm is marshalled and socket.WriteTo(wb, ip) sends it, outside the      *)
(* mutex; the write may fail.                                              *)
Write(p) ==
  /\ pc[p] = "write"
  /\ \/ /\ requests' = requests \cup {[dst |-> ip[p], seq |-> seq[p], tag |-> tag[p]]}
        /\ pc' = [pc EXCEPT ![p] = "read"]
        /\ UNCHANGED <<result, ip, seq, expired>>
     \/ /\ Finish(p, FALSE, "Error writing to socket")
        /\ UNCHANGED requests
  /\ UNCHANGED <<icmpSequence, icmpSequenceMutex, target, module, loaded, wire,
                 tag, accepted, started>>

(* socket.ReadFrom returns a packet that passes both checks: success. *)
ReadReply(p) ==
  /\ pc[p] = "read"
  /\ ~expired[p]
  /\ \E pkt \in wire :
       /\ MatchesReply(p, pkt)
       /\ accepted' = [accepted EXCEPT ![p] = pkt.tag]
  /\ Finish(p, TRUE, "")
  /\ UNCHANGED <<icmpSequence, icmpSequenceMutex, target, module, loaded,
                 requests, wire, tag, started>>

(* Variant of Timeout that treats the timeout like any other read error *)
(* and continues the read loop.                                          *)
TimeoutContinue(p) ==
  /\ pc[p] = "read"
  /\ expired[p]
  /\ UNCHANGED vars

(* The read deadline has passed: ReadFrom returns a timeout error. *)
Timeout(p) ==
  /\ pc[p] = "read"
  /\ expired[p]
  /\ Finish(p, FALSE, "Timeout reading from socket")
  /\ UNCHANGED <<icmpSequence, icmpSequenceMutex, target, module, loaded,
                 requests, wire, tag, accepted, started>>

(* Time passes the probe's deadline, fixed when the probe started and set *)
(* as the socket's read deadline.                                          *)
Expire(p) ==
  /\ pc[p] # "idle"
  /\ ~expired[p]
  /\ expired' = [expired EXCEPT ![p] = TRUE]
  /\ UNCHANGED <<icmpSequence, icmpSequenceMutex, pc, target, module, ip,
                 loaded, seq, requests, wire, result, tag, accepted, started>>

(* The peer of an echo request answers it, with the request's Seq. *)
EchoReply ==
  \E r \in requests :
    /\ [src |-> r.dst, seq |-> r.seq, tag |-> r.tag] \notin wire
    /\ wire' = wire \cup {[src |-> r.dst, seq |-> r.seq, tag |-> r.tag]}
    /\ UNCHANGED <<icmpSequence, icmpSequenceMutex, pc, target, module, ip,
                   loaded, seq, expired, requests, result, tag, accepted,
                   started>>

-----------------------------------------------------------------------------
Init ==
  /\ icmpSequence = 0
  /\ icmpSequenceMutex = NoHolder
  /\ pc = [p \in Probes |-> "idle"]
  /\ target = [p \in Probes |-> CHOOSE t \in Targets : TRUE]
  /\ module = [p \in Probes |-> CHOOSE m \in ICMPModules : TRUE]
  /\ ip = [p \in Probes |-> NoAddr]
  /\ loaded = [p \in Probes |-> 0]
  /\ seq = [p \in Probes |-> NoSeq]
  /\ expired = [p \in Probes |-> FALSE]
  /\ requests = {}
  /\ wire = {}
  /\ result = [p \in Probes |-> NoResult]
  /\ tag = [p \in Probes |-> 0]
  /\ accepted = [p \in Probes |-> 0]
  /\ started = 0

Next ==
  \/ \E p \in Probes :
       \/ Start(p) \/ Resolve(p) \/ Listen(p) \/ Lock(p) \/ Load(p)
       \/ Send(p) \/ Write(p) \/ ReadReply(p) \/ Timeout(p) \/ Expire(p)
  \/ EchoReply

(***************************************************************************)
(* Fairness.  Every step of a running probe is taken eventually: a         *)
(* goroutine is not descheduled forever, and the deadline passes because   *)
(* time does.  Lock is strongly fair: sync.Mutex hands the lock to a       *)
(* waiter that has waited over 1ms (starvation mode).  EchoReply and the   *)
(* arrival of new probe requests carry no fairness: a target may never    *)
(* answer and no scrape may come.                                          *)
(***************************************************************************)
Fairness ==
  \A p \in Probes :
    /\ WF_vars(Resolve(p)) /\ WF_vars(Listen(p)) /\ SF_vars(Lock(p))
    /\ WF_vars(Load(p)) /\ WF_vars(Send(p)) /\ WF_vars(Write(p))
    /\ WF_vars(Timeout(p)) /\ WF_vars(Expire(p))

Spec == Init /\ [][Next]_vars /\ Fairness

-----------------------------------------------------------------------------
(***************************************************************************)
(* Properties                                                              *)
(***************************************************************************)

(* The refinement mapping to ICMPSequence: the counter is icmpSequence,   *)
(* and a probe holds the value getICMPSequence returned to it from that    *)
(* return until probeICMP returns.                                         *)
Sequence == INSTANCE ICMPSequence WITH counter <- icmpSequence, got <- seq

(* getICMPSequence is an atomic fetch-and-increment of a 2^16 counter:     *)
(* every call returns the counter plus one, modulo 2^16, and leaves it     *)
(* there, however the calls of concurrent probes interleave.  It breaks    *)
(* when two probes read-modify-write icmpSequence outside the mutex.       *)
SequenceAtomic == Sequence!Spec

(* A probe reports success only on the reply to its own echo request:     *)
(* the reply it accepted answers the request sent by this probe, not a     *)
(* request of another probe whose reply reached its raw socket.            *)
OwnReplyOnly ==
  \A p \in Probes : result[p].success => accepted[p] = tag[p]

(* The address family of the probe follows the module: a probe of an      *)
(* icmp4 (icmp6) module sends only to an IPv4 (IPv6) address, whatever     *)
(* its PreferredIPProtocol and whatever the lookups return: these two      *)
(* protocols have no fallback family.                                      *)
FamilyPolicy ==
  \A p \in Probes :
    pc[p] \notin {"idle", "resolve"} =>
      /\ module[p].protocol = "icmp4" => ip[p].fam = "ip4"
      /\ module[p].protocol = "icmp6" => ip[p].fam = "ip6"

(* Every probe that has started eventually returns a result, whatever the *)
(* network does: the read loop ends at the socket deadline.                *)
Termination ==
  \A p \in Probes : pc[p] # "idle" ~> pc[p] = "idle"

=============================================================================
