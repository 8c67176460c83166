\* A module with query_class CH: ProbeDNS still asks in class IN.
CONSTANTS
  t1 = t1
  t2 = t2
  r1 = r1
  r2 = r2
  rbad = rbad
  Targets <- MCTargets
  TargetFamilies <- MCTargetFamilies
  Regexps <- MCRegexps
  BadRegexps <- MCBadRegexps
  DNSModules <- MCDNSModulesClass
  Responses <- MCResponses
  Deadline = 1
  DefaultTimeout = 2
  MaxElapsed = 2

SPECIFICATION Spec

INVARIANT QueryClassFromModule


\* a probe ends by returning its verdict
CHECK_DEADLOCK FALSE
