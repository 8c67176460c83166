--------------------------- MODULE MC_ICMPProber ---------------------------
(* Instantiates ICMPProber for TLC: two concurrent probes, a dual-stack    *)
(* target and an IPv4-only one, and the modules that exercise every branch *)
(* of the address-family policy.                                           *)
EXTENDS ICMPProber, TLC

CONSTANTS p1, p2, t1, t2

MCProbes == {p1, p2}
MCTargets == {t1, t2}

\* t1 resolves in both families, t2 only in IPv4
MCTargetFamilies == [t \in MCTargets |-> IF t = t1 THEN {"ip4", "ip6"} ELSE {"ip4"}]

\* default module (icmp, prefer ip6), icmp4, and icmp6 with a contrary preference
MCICMPModules ==
  { [protocol |-> "", preferred |-> ""],
    [protocol |-> "icmp4", preferred |-> "ip6"],
    [protocol |-> "icmp6", preferred |-> "ip4"] }

MCSymmetry == Permutations(MCProbes)
=============================================================================
