----------------------------- MODULE MCDocuments -----------------------------
(* Two SBOMs that share a version of a package, and an advisory about it; two *)
(* more advisories of its identifier; three pairs of documents at a time.     *)
EXTENDS Documents, TLC

CONSTANTS c1, c2, s1, s2, a1, a2, a3, q1, q2, q3, v1, v2, b1, cve

MCVersionOf == q1 :> v1 @@ q2 :> v1 @@ q3 :> v2
MCBaseOf == v1 :> b1 @@ v2 :> b1
MCPurlsOf == s1 :> {q1, q3} @@ s2 :> {q1, q2}
MCBasesOf == a1 :> {b1} @@ a2 :> {} @@ a3 :> {}
MCIdentifier == a1 :> cve @@ a2 :> cve @@ a3 :> cve
MCModified == a1 :> 1 @@ a2 :> 2 @@ a3 :> 9
MCCorpora == {{s1, s2}, {s1, a1}, {a2, a3}}
Symmetry == Permutations(Clients)
=============================================================================
