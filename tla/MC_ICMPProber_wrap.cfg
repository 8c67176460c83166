\* The 16-bit icmpSequence wraps: scaled to a 1-bit counter, the third
\* probe draws the Seq of the first, which may still be reading.
CONSTANTS
  p1 = p1
  p2 = p2
  p3 = p3
  t1 = t1
  Probes <- MCProbes
  Targets <- MCTargets
  TargetFamilies <- MCTargetFamilies
  ICMPModules <- MCICMPModules
  SeqWidth = 1
  MaxProbes = 3

SPECIFICATION Spec

SYMMETRY MCSymmetry

INVARIANT OwnReplyOnly

CHECK_DEADLOCK FALSE
