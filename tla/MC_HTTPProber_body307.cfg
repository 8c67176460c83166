\* A module with a request body meets a 307 redirect: net/http cannot
\* resend a body set without GetBody, so client.Do returns the 307 unfollowed.
CONSTANTS
  h1 = h1
  h2 = h2
  h3 = h3
  r1 = r1
  r2 = r2
  rbad = rbad
  v1 = v1
  v2 = v2
  Hosts <- MCHosts
  HostFamilies <- MCHostFamilies
  Targets <- MCTargets
  Regexps <- MCRegexps
  BadRegexps <- MCBadRegexps
  Values <- MCValues
  Statuses <- MCStatuses
  HTTPModules <- BodyModules
  MaxChain <- MCMaxChain
INIT Init
NEXT Next
INVARIANT RedirectsFollowed
\* a probe ends by returning its verdict
CHECK_DEADLOCK FALSE
