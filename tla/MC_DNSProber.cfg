\* The verdict of ProbeDNS and the client timeout
\* it derives from the deadline, for every module the loader accepts, every
\* response, and resolution ending before, at or after the deadline.
CONSTANTS
  t1 = t1
  t2 = t2
  r1 = r1
  r2 = r2
  rbad = rbad
  Targets <- MCTargets
  TargetFamilies <- MCTargetFamilies
  Regexps <- MCRegexps
  BadRegexps <- MCBadRegexps
  DNSModules <- MCDNSModules
  Responses <- MCResponses
  Deadline = 1
  DefaultTimeout = 2
  MaxElapsed = 2

SPECIFICATION Spec

INVARIANT TypeOK
INVARIANT VerdictPerSpec
INVARIANT LateProbeFails

\* a probe ends by returning its verdict
CHECK_DEADLOCK FALSE
