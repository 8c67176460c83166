\* A redirect that is not followed and is an accepted status, with a body check.
CONSTANTS
  h1 = h1
  h2 = h2
  h3 = h3
  r1 = r1
  r2 = r2
  rbad = rbad
  v1 = v1
  v2 = v2
  Hosts <- MCHosts
  HostFamilies <- MCHostFamilies
  Targets <- MCTargets
  Regexps <- MCRegexps
  BadRegexps <- MCBadRegexps
  Values <- MCValues
  Statuses <- MCStatuses
  HTTPModules <- MCHTTPModulesRedirectBody
  MaxChain <- MCMaxChain
INIT Init
NEXT Next
INVARIANT VerdictPerSpec
\* a probe ends by returning its verdict
CHECK_DEADLOCK FALSE
