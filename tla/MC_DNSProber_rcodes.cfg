\* valid_rcodes: [] is an empty list that is not nil: validRcode accepts no rcode,
\* where the specification accepts NOERROR.
CONSTANTS
  t1 = t1
  t2 = t2
  r1 = r1
  r2 = r2
  rbad = rbad
  Targets <- MCTargets
  TargetFamilies <- MCTargetFamilies
  Regexps <- MCRegexps
  BadRegexps <- MCBadRegexps
  DNSModules <- MCDNSModulesEmptyRcodes
  Responses <- MCResponses
  Deadline = 1
  DefaultTimeout = 2
  MaxElapsed = 2

SPECIFICATION Spec

INVARIANT VerdictPerSpec


\* a probe ends by returning its verdict
CHECK_DEADLOCK FALSE
