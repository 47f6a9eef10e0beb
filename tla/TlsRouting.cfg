SPECIFICATION TlsSpec
CONSTANTS
  Id = {1, 2}
  Priority = {}
  Rule <- MCRules
  Class <- MCHosts
  Req = {r1}
  NoRoute = NoRoute
  NoPriority = NoPriority
  CertHost <- MCCertHost
  Cert <- MCCert
  Lower <- MCLower
  NoEntry = NoEntry
  Policy = {"strict"}
  NoSni = NoSni
INVARIANTS RoutedIsCovered
PROPERTIES LookupForCause ImplementsRouteMap
