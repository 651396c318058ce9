------------------------------ MODULE Versions ------------------------------
(***************************************************************************)
(* How the database compares versions: the comparison functions of the     *)
(* version schemes and version_matches, written in PL/pgSQL by the         *)
(* migrations and called from every query that correlates packages with    *)
(* advisories.                                                             *)
(*                                                                         *)
(* A version is a record [rel, pre, marks]: rel is the sequence of its     *)
(* numeric components, pre the sequence of its pre-release identifiers     *)
(* (of Python a, b or rc with its number; of Maven the qualifier), each    *)
(* given by its rank in the order the code compares identifiers in, and    *)
(* marks has what Python adds in ".postN", ".devN" and "+local".  A       *)
(* version range is a row of table version_range: a scheme and two bounds, *)
(* where a bound may be NULL.  A PURL without a version is stored with an  *)
(* empty text, Empty; a package without one has NULL.  The comparisons     *)
(* yield NULL where they return it, as they do on every error.             *)
(***************************************************************************)
EXTENDS Integers, Sequences, FiniteSetsExt

CONSTANT NULL

Version(rel, pre) == [rel |-> rel, pre |-> pre, marks |-> <<>>]
Empty == Version(<<>>, <<>>)

\* Text that is NULL or empty has no components.
Parts(v) == IF v = NULL THEN Empty ELSE v

Sign(n) == IF n > 0 THEN 1 ELSE IF n < 0 THEN -1 ELSE 0

\* The first difference of two sequences over the positions both have, or 0.
FirstDifference(s, t) ==
    LET D == {i \in DOMAIN s \cap DOMAIN t : s[i] # t[i]}
    IN  IF D = {} THEN 0 ELSE Sign(s[Min(D)] - t[Min(D)])

Lexicographic(s, t) ==
    LET d == FirstDifference(s, t) IN IF d # 0 THEN d ELSE Sign(Len(s) - Len(t))

First(s, n) == SubSeq(s, 1, IF Len(s) < n THEN Len(s) ELSE n)

\* Missing components count as 0, but nothing stands in for the first one.
Padded(v) == [i \in (IF v.rel = <<>> THEN 2..3 ELSE 1..3) |->
                IF i <= Len(v.rel) THEN v.rel[i] ELSE 0]

Cardinality3(v) == IF Len(v.rel) > 3 THEN Len(v.rel) ELSE 3

\* The first of the comparisons that finds a difference, or fails.
Decided(results) == IF \E i \in DOMAIN results : results[i] # 0
                    THEN results[CHOOSE i \in DOMAIN results :
                                   results[i] # 0 /\ \A j \in 1..i - 1 : results[j] = 0]
                    ELSE 0

-----------------------------------------------------------------------------

\* A release is newer than its own pre-releases.
PreReleaseCmp(a, b) ==
    IF a.pre = <<>> \/ b.pre = <<>>
    THEN Sign(Len(b.pre) - Len(a.pre))
    ELSE Lexicographic(a.pre, b.pre)

\* A component that is missing compares as NULL, which is neither less nor
\* greater: 1.2 is equal to every 1.2.x.  An empty text is no number.
semver_cmp(v, w) ==
    LET a == Parts(v)  b == Parts(w)
    IN  IF Empty \in {v, w} THEN NULL
        ELSE Decided(<<FirstDifference(First(a.rel, 3), First(b.rel, 3)),
                       Sign(Cardinality3(a) - Cardinality3(b)), PreReleaseCmp(a, b)>>)

\* The place of a number below 100 among texts: 1, 10, 11, ..., 19, 2, 20, ...
TextOrder(n) == IF n < 10 THEN 11 * n ELSE 11 * (n \div 10) + 1 + (n % 10)

\* With a build number a qualified version is above the one without qualifier,
\* otherwise below it.  The whole qualifier is compared as one text.
QualifierCmp(a, b) ==
    LET qualified(v) == IF Len(v.rel) > 3 THEN 1 ELSE -1
    IN  IF a.pre = <<>> /\ b.pre # <<>> THEN -qualified(a)
        ELSE IF a.pre # <<>> /\ b.pre = <<>> THEN qualified(b)
        ELSE Lexicographic(a.pre, b.pre)

\* Components from the fourth on are compared as text, in a loop whose bound is
\* NULL if the left version has no components.
mavenver_cmp(a, b) ==
    LET builds(v) == [i \in 4..Len(v.rel) |-> TextOrder(v.rel[i])]
    IN  Decided(<<FirstDifference(Padded(a), Padded(b)),
                  Sign(Cardinality3(a) - Cardinality3(b)),
                  IF a.rel = <<>> THEN NULL ELSE FirstDifference(builds(a), builds(b)),
                  QualifierCmp(a, b)>>)

\* The dot before .postN or .devN leaves an empty component, which is no number
\* if it is one of the first three.
Malformed(v) == Len(v.rel) \in 1..2 /\ v.pre = <<>> /\ {"post", "dev"} \cap DOMAIN v.marks # {}

\* marked says where a version with the mark is: above that without it, or below.
MarkCmp(a, b, mark, marked) ==
    CASE mark \in DOMAIN a.marks \cap DOMAIN b.marks -> Sign(a.marks[mark] - b.marks[mark])
      [] mark \in DOMAIN a.marks \ DOMAIN b.marks -> marked
      [] mark \in DOMAIN b.marks \ DOMAIN a.marks -> -marked
      [] OTHER -> 0

\* Components after the third are not looked at.
pythonver_cmp(a, b) ==
    LET one(v) == [v EXCEPT !.pre = First(@, 1)]
    IN  IF Malformed(a) \/ Malformed(b) THEN NULL
        ELSE Decided(<<FirstDifference(Padded(a), Padded(b)), PreReleaseCmp(one(a), one(b)),
                       MarkCmp(a, b, "post", 1), MarkCmp(a, b, "dev", -1),
                       MarkCmp(a, b, "local", 1)>>)

\* A longer run of segments is newer, unless it goes on with a tilde.
rpmver_cmp(a, b) ==
    LET tilde(v, w) == v.pre # <<>> /\ Len(v.rel) <= Len(w.rel)
    IN  Decided(<<FirstDifference(a.rel, b.rel),
                  IF a.rel = b.rel THEN PreReleaseCmp(a, b)
                  ELSE IF tilde(a, b) THEN -1
                  ELSE IF tilde(b, a) THEN 1
                  ELSE Sign(Len(a.rel) - Len(b.rel))>>)

-----------------------------------------------------------------------------

Unbounded == [version |-> NULL, inclusive |-> FALSE]
Inclusive(v) == [version |-> v, inclusive |-> TRUE]
Exclusive(v) == [version |-> v, inclusive |-> FALSE]

\* The row VersionInfo::into_active_model makes.
VersionRange(scheme, low, high) == [scheme |-> scheme, low |-> low, high |-> high]
Exact(scheme, v) == VersionRange(scheme, Inclusive(v), Inclusive(v))

\* The unordered schemes: only an inclusive bound can be equal.
IsInclusiveBound(v, r) ==
    \E b \in {r.low, r.high} : b.version # NULL /\ b.inclusive /\ v = b.version

Semvers == {"semver", "gem", "npm", "golang", "nuget", "packagist", "hex",
            "swift", "pub", "cargo"}

\* How an ordered scheme compares.
Compare(scheme, v, w) ==
    CASE scheme \in Semvers -> semver_cmp(v, w)
      [] scheme = "rpm"     -> rpmver_cmp(Parts(v), w)
      [] scheme = "maven"   -> mavenver_cmp(Parts(v), w)
      [] scheme = "python"  -> pythonver_cmp(Parts(v), w)

\* A bound is not checked if it is NULL or the comparison with it yields NULL, but
\* something has to be checked.
Between(v, r) ==
    LET ends == {<<r.low, 1>>, <<r.high, -1>>}
        result(e) == IF e[1].version = NULL THEN NULL ELSE Compare(r.scheme, v, e[1].version)
        checked == {e \in ends : result(e) # NULL}
    IN  /\ checked # {}
        /\ \A e \in checked : e[2] * result(e) >= IF e[1].inclusive THEN 0 ELSE 1

version_matches(v, r) ==
    CASE r.scheme \in {"git", "generic"} -> IsInclusiveBound(v, r)
      [] r.scheme \in {"rpm", "maven", "python"} \cup Semvers -> Between(v, r)
      [] OTHER -> FALSE
=============================================================================
