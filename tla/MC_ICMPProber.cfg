\* Reply matching and the address-family policy:
\* two concurrent probes, four probes in all, the real 16-bit counter.
CONSTANTS
  p1 = p1
  p2 = p2
  t1 = t1
  t2 = t2
  Probes <- MCProbes
  Targets <- MCTargets
  TargetFamilies <- MCTargetFamilies
  ICMPModules <- MCICMPModules
  SeqWidth = 16
  MaxProbes = 4

SPECIFICATION Spec

SYMMETRY MCSymmetry

INVARIANT OwnReplyOnly
INVARIANT FamilyPolicy

\* an exporter that receives no more probe requests is idle, not stuck
CHECK_DEADLOCK FALSE
