SPECIFICATION Spec
CONSTANTS
  Rule <- MCRule
  Host <- MCHost
  Path <- MCPath
  Req = {r1, r2}
INVARIANTS MatchAgrees CompleteDecides HostsTellApart
SYMMETRY Symm
