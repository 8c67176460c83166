\* One probe of every module against every target, over redirect chains of
\* up to twelve hops: the verdict, the request headers and the redirect
\* policy of probeHTTP.
CONSTANTS
  h1 = h1
  h2 = h2
  h3 = h3
  r1 = r1
  r2 = r2
  rbad = rbad
  v1 = v1
  v2 = v2
  Hosts <- MCHosts
  HostFamilies <- MCHostFamilies
  Targets <- MCTargets
  Regexps <- MCRegexps
  BadRegexps <- MCBadRegexps
  Values <- MCValues
  Statuses <- MCStatuses
  HTTPModules <- MCHTTPModules
  MaxChain <- MCMaxChain
INIT Init
NEXT Next
INVARIANT TypeOK
INVARIANT VerdictPerSpec
INVARIANT RequestFromHeaders
INVARIANT RedirectPolicy
\* a probe ends by returning its verdict
CHECK_DEADLOCK FALSE
