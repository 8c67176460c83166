------------------------- MODULE MC_ICMPProber_wrap -------------------------
(* Instantiates ICMPProber to show the wrap of icmpSequence: one IPv4       *)
(* target, the default module, and a counter scaled down from 16 bits so   *)
(* that it wraps within a few probes, with two or three probes at once.   *)
EXTENDS ICMPProber, TLC

CONSTANTS p1, p2, p3, t1

MCProbes == {p1, p2}
\* three probes contending for icmpSequenceMutex at once
MCProbesThree == {p1, p2, p3}
MCTargets == {t1}
MCTargetFamilies == [t \in MCTargets |-> {"ip4"}]
MCICMPModules == { [protocol |-> "", preferred |-> ""] }
MCSymmetry == Permutations(MCProbes)
=============================================================================
