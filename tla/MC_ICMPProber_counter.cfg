\* getICMPSequence as an atomic fetch-and-increment under concurrent calls,
\* across its wrap (ICMPProber refines ICMPSequence), and the
\* return of every probe under ICMPProber!Fairness: a counter scaled down
\* from 16 to 1 bit, three concurrent probes.  No symmetry, as
\* a liveness property is checked.
CONSTANTS
  p1 = p1
  p2 = p2
  p3 = p3
  t1 = t1
  Probes <- MCProbesThree
  Targets <- MCTargets
  TargetFamilies <- MCTargetFamilies
  ICMPModules <- MCICMPModules
  SeqWidth = 1
  MaxProbes = 3

SPECIFICATION Spec

INVARIANT TypeOK
PROPERTY SequenceAtomic
PROPERTY Termination

CHECK_DEADLOCK FALSE
