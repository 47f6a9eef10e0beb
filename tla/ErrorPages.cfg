SPECIFICATION Spec
CONSTANTS
  Id = {p1, p2}
  Priority = {1, 2}
  StatusSpec <- MCSpecs
  BodyLen = {0, 2}
  Class = {c1, c2}
  Req = {r1}
  Status = {200, 404, 502}
  RewriteStatuses = {404}
  RewriteRule = {c1}
  MaxUpdates = 3
  MaxChunks = 2
  NoPage = NoPage
INVARIANTS FirstIsBest WholeBody
