SPECIFICATION Spec
CONSTANTS
  c1 = c1 c2 = c2 s1 = s1 s2 = s2 a1 = a1 a2 = a2 a3 = a3
  q1 = q1 q2 = q2 q3 = q3 v1 = v1 v2 = v2 b1 = b1 cve = cve
  Clients = {c1, c2}
  Sboms = {s1, s2}
  Advisories = {a1, a2, a3}
  Qualified = {q1, q2, q3}
  Versioned = {v1, v2}
  Base = {b1}
  VersionOf <- MCVersionOf
  BaseOf <- MCBaseOf
  PurlsOf <- MCPurlsOf
  BasesOf <- MCBasesOf
  Identifier <- MCIdentifier
  Modified <- MCModified
  Corpora <- MCCorpora
  Backends = {"fs", "s3"}
SYMMETRY Symmetry
INVARIANTS RowHasBlob VanishedExplained DownloadWhole OneCurrent PurlsExact
