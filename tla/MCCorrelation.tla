---------------------------- MODULE MCCorrelation ----------------------------
(* Two kinds of corpora.  Written ones: the SBOMs of a product and of its     *)
(* component and a second one of the product, documents about the same        *)
(* vulnerability, nodes that are no packages.  And generated ones, an SBOM    *)
(* with a component in every version of interest and one advisory each: all   *)
(* OSV ranges of two events (and two of four), all NVD matches and entries of *)
(* CVE records over a few versions, and CSAF documents about a product in     *)
(* several versions with SBOMs that describe it in others.                    *)
EXTENDS Views, Latest, TLC

CONSTANTS lib, tool, libName, toolName, cve1, cve2, osv1,
          every, productSbom, component, again, rebuilt, model, image, binary, left, right, spdx, oldCve, newCve, nvd, csaf

Release(rel) == Version(rel, <<>>)
V0 == Release(<<0>>)
V1 == Release(<<1, 0, 0>>)
V11 == Release(<<1, 1, 0>>)
V2 == Release(<<2, 0, 0>>)
Short == Release(<<1, 1>>)
Rc == Version(<<1, 1, 0>>, <<1>>)

MCNames == lib :> {libName} @@ tool :> {toolName, libName}

Purl(base, v) == [base |-> base, type |-> "npm", version |-> v]
Cpe(part, name, v) == [part |-> part, vendor |-> "redhat", product |-> name, version |-> v]
Component(ref, v, purls, cpes) ==
  [ref |-> ref, name |-> ref, type |-> "library", version |-> v, purls |-> purls, cpes |-> cpes,
   checksums |-> {}, in |-> <<>>, role |-> "component"]
Cdx(redhat, main, components, dependencies) ==
  [format |-> "cyclonedx", id |-> NULL, published |-> 1, redhat |-> redhat, main |-> main,
   components |-> components, dependencies |-> dependencies, external |-> [x \in {} |-> x]]

-----------------------------------------------------------------------------
(* SBOMs *)

\* Versions with a build number, as they are with Maven, and with Python's marks.  One
\* of the latter is not what the comparison can take apart.
Build(n) == Release(<<1, 1, 0, n>>)
Qualified == Version(<<1, 1, 0, 2>>, <<1>>)
Builds == {V1, V11, Rc, V2, Build(1), Build(2), Build(10), Qualified}
Marked(v, marks) == [v EXCEPT !.marks = marks]
Post == Marked(V11, [post |-> 1])
Dev == Marked(V11, [dev |-> 1])
Local == Marked(V11, [local |-> 1])
Marks == {V1, V11, Rc, V2, Post, Dev, Local, Marked(Rc, [dev |-> 1]), Marked(Rc, [post |-> 1]),
          Marked(V11, [post |-> 1, dev |-> 1]), Marked(Short, [post |-> 1])}

\* One component for each version: with its PURL, and with a CPE that leaves
\* the version to the package or names it; one without version.
Versions0 == {V1, Rc, V11, V2, Short, Release(<<0, 1, 0>>), Release(<<1, 1, 5>>),
              Version(<<0, 1, 0>>, <<2>>), Version(<<1, 1, 0>>, <<2>>)}
InVersions(V) ==
  Cdx(FALSE, {},
      {Component(<<"p", v>>, v, {Purl(lib, v)}, {Cpe("a", "lib", NULL)}) : v \in V}
      \cup {Component(<<"c", v>>, NULL, {Purl(tool, v)}, {Cpe("a", "lib", v)}) : v \in V \cap {V11, V2}}
      \cup {Component(<<"none">>, NULL, {Purl(lib, Empty)}, {Cpe("a", "lib", NULL)})}, {})

\* A product of Red Hat, with a component that has an SBOM of its own.
Package(ref, v, purls, cpes, checksums) ==
  [ref |-> ref, name |-> ref, version |-> v, purls |-> purls, cpes |-> cpes, checksums |-> checksums]
Product(name) ==
  [format |-> "spdx", id |-> NULL, published |-> 1, redhat |-> TRUE, document_describes |-> {},
   relationships |-> {<<DOC, "DESCRIBES", <<"p">> >>, << <<name>>, "PACKAGE_OF", <<"p">> >>},
   packages |-> {Package(<<"p">>, V1, {}, {Cpe("o", "rhel", Release(<<9, 4>>))}, {}),
                 Package(<<name>>, V1, {Purl(lib, V1)}, {Cpe("a", "lib", NULL)}, {"sum"})},
   files |-> {Package(<<"f">>, NULL, {}, {}, {})}, external |-> [x \in {} |-> x]]

\* The component: what it depends on, what a library in it is a variant of.
ComponentDoc ==
  Cdx(TRUE, {[Component(<<"root">>, V2, {Purl(lib, V1)}, {}) EXCEPT !.name = <<"p">>, !.checksums = {"sum"}]},
      {Component(<<"dep">>, V2, {Purl(tool, V2)}, {Cpe("a", "lib", V2)}),
       [Component(<<"up">>, V1, {Purl(tool, V1)}, {}) EXCEPT !.in = <<"root">>, !.role = "ancestor"]},
      {[ref |-> <<"root">>, dependsOn |-> { <<"dep">> }, provides |-> {}]})

\* The component as an image: its variant for an architecture is a binary, whose
\* SBOM describes it by a main component without reference, and once more.
Image ==
  Cdx(TRUE, {[Component(<<"img">>, V1, {Purl(lib, V1)}, {}) EXCEPT !.checksums = {"sum"}]},
      {[Component(<<"arch">>, V1, {Purl(tool, V1)}, {}) EXCEPT
          !.checksums = {"bin"}, !.in = <<"img">>, !.role = "variant"],
       Component(<<"dep">>, V1, {Purl(tool, V1)}, {})}, {})
Binary ==
  [Cdx(TRUE, {[Component(<<"uuid", "bin">>, V1, {}, {}) EXCEPT !.checksums = {"bin"}]},
      {[Component(<<"bin">>, V1, {Purl(tool, V1)}, {}) EXCEPT !.checksums = {"bin"}],
       Component(<<"dep">>, V2, {Purl(tool, V2)}, {})},
      {[ref |-> <<"bin">>, dependsOn |-> { <<"dep">> }, provides |-> {}]})
   EXCEPT !.published = 2]

\* Two CycloneDX SBOMs that refer to each other, and an SPDX SBOM that refers to one.
Circle(id, other) ==
  [Cdx(FALSE, {Component(<<"root">>, V1, {}, {})}, {Component(<<"dep">>, V2, {Purl(tool, V2)}, {})},
       {[ref |-> <<"root">>, dependsOn |-> {<<"dep">>, <<"cdx", other>>}, provides |-> {}],
        [ref |-> <<"dep">>, dependsOn |-> {<<"root">>}, provides |-> {}]})
   EXCEPT !.id = id, !.external = (<<"cdx", other>> :> [doc |-> other, ref |-> <<"root">>])]
Spdx ==
  [Product("e") EXCEPT !.redhat = FALSE, !.relationships = @ \cup {<< <<"e">>, "CONTAINS", <<"ref", "e">> >>},
                       !.external = (<<"ref", "e">> :> [doc |-> left, ref |-> <<"root">>])]

\* Nodes that are no packages, a CPE without a PURL, and no package described.
Model ==
  Cdx(FALSE, {[Component(<<"m">>, V1, {Purl(lib, V1)}, {}) EXCEPT !.type = "machine-learning-model"]},
      {Component(<<"n">>, V11, {}, {Cpe("a", "lib", NULL)}),
       [Component(<<"f">>, NULL, {}, {}) EXCEPT !.type = "file"],
       Component(<<"o">>, V1, {Purl(tool, V1)}, {})}, {})

\* A CycloneDX SBOM that describes the product by a CPE, and has one library.
Described(cpes) ==
  Cdx(FALSE, {[Component(<<"os">>, Release(<<9, 4>>), {}, cpes) EXCEPT !.type = "operating-system"]},
      {Component(<<"lib">>, V11, {Purl(lib, V11)}, {})}, {})
Streams == {NULL, Release(<<9>>), Release(<<9, 4>>), Release(<<10>>)}
Contexts == {{}, {Cpe("o", "other", Release(<<9>>))}} \cup {{Cpe("o", "rhel", v)} : v \in Streams}

DescribedKeys == {<<"described", c>> : c \in Contexts}
builds == <<"Maven">>
marks == <<"PyPI">>
MCSboms == {every, productSbom, again, component, rebuilt, model, image, binary, left, right, spdx,
            builds, marks} \cup DescribedKeys
MCSbomDoc(k) ==
  CASE k = every -> InVersions(Versions0)
    [] k = builds -> InVersions(Builds)
    [] k = marks -> InVersions(Marks)
    [] k = productSbom -> Product("c")
    [] k = again -> [Product("c") EXCEPT !.published = 2]
    [] k = component -> ComponentDoc
    [] k = rebuilt -> [ComponentDoc EXCEPT !.published = 2]
    [] k = model -> Model
    [] k = image -> Image
    [] k = binary -> Binary
    [] k = left -> Circle("left", "right")
    [] k = right -> Circle("right", "left")
    [] k = spdx -> Spdx
    [] OTHER -> Described(k[2])

-----------------------------------------------------------------------------
(* Advisories *)

Osv(affected) ==
  [type |-> "osv", id |-> osv1, modified |-> 1, aliases |-> {cve1, cve2}, affected |-> affected]
RangeOf(type, events) == [type |-> type, events |-> events]

At(kind, v) == [kind |-> kind, version |-> v]
TwoIntervals ==
  {<<At("introduced", V0), At("fixed", V1), At("introduced", V11), At("last_affected", V11)>>,
   <<At("introduced", V11), At("fixed", V2), At("introduced", V0), At("fixed", V1)>>}
EventLists(V) ==
  LET Starts == [kind : {"introduced"}, version : V]
      Events == [kind : {"introduced", "fixed", "last_affected"}, version : V]
  IN  UNION {{<<e>> : e \in Starts}, {<<e, f>> : e \in Starts, f \in Events},
             {<<f, e>> : e \in Starts, f \in Events}}
Maven == <<"ECOSYSTEM", "Maven">>
PyPI == <<"ECOSYSTEM", "PyPI">>
Types == {<<"SEMVER", "npm">>, Maven, PyPI, <<"GIT", "npm">>, <<"ECOSYSTEM", "Alpine">>}
OsvKeysOf(types, lists) == {<<"osv", t, e>> : t \in types, e \in lists}
PlainKeys == OsvKeysOf(Types, EventLists({V0, V1, V11, V2, Short, Rc}) \cup TwoIntervals)
BuildKeys == OsvKeysOf({Maven}, EventLists({V11, Build(1), Build(2), Build(10), Qualified}))
MarkKeys == OsvKeysOf({PyPI}, EventLists({V11, Rc, Post, Dev, Local}))
OsvKeys == UNION {PlainKeys, BuildKeys, MarkKeys}
OsvDoc(k) ==
  Osv({[purls |-> {lib}, ecosystem |-> k[2][2], versions |-> IF k[2][2] = "Alpine" THEN <<V1, V11>> ELSE <<>>,
        ranges |-> {RangeOf(k[2][1], k[3])}]})

Bounds == {Unbounded} \cup {Inclusive(v) : v \in {V1, V11, Short}} \cup {Exclusive(v) : v \in {V1, V11, V2}}
NvdKeys == {<<"nvd", c, low, high>> : c \in {Cpe("a", "lib", NULL), Cpe("a", "lib", V11), Cpe("o", "lib", NULL)},
                                      low \in Bounds, high \in Bounds}
Nvd(matches) == [type |-> "nvd", id |-> cve1, modified |-> 2, matches |-> matches]
NvdDoc(k) == Nvd({[vulnerable |-> TRUE, cpe |-> k[2], low |-> k[3], high |-> k[4]]})

Entries == [version : {V0, V1, V11}, upper : {V11, V2, Short}, kind : {"single", "lessThan", "lessThanOrEqual"},
            type : {"semver", "maven", "git"}, status : {"affected", "unaffected", "unknown"}]
CveKeys == {<<"cve", e>> : e \in Entries}
Cve(modified, products) ==
  [type |-> "cve", id |-> cve1, modified |-> modified, rejected |-> FALSE, products |-> products]
CveProduct(versions) ==
  [purl |-> lib, cpes |-> {Cpe("a", "lib", V1)}, versions |-> versions, defaultStatus |-> "affected"]
CveDoc(k) == Cve(1, {CveProduct({k[2]})})

Csaf(stream, leaf, status) ==
  LET branch(category, name, cpe, purl) ==
        [category |-> category, name |-> name, cpe |-> cpe, purl |-> purl]
      ids(s) == IF s = status THEN {"rhel:lib"} ELSE {}
  IN  [type |-> "csaf", id |-> cve2, modified |-> 1,
       tree |-> [rhel |-> <<branch("vendor", "Red Hat", NULL, NULL),
                            branch("product_name", "RHEL", Cpe("o", "rhel", stream), NULL)>>,
                 lib |-> <<branch("vendor", "Red Hat", NULL, NULL),
                           branch("product_version", libName, NULL, leaf)>>],
       relationships |-> ("rhel:lib" :> [relatesTo |-> "rhel", reference |-> "lib"]),
       vulnerabilities |-> {[cve |-> cve2, fixed |-> ids("fixed"), known_affected |-> ids("affected"),
                             known_not_affected |-> ids("not_affected")]}]
Leaves == {NULL} \cup {[base |-> lib, type |-> t, version |-> v] : t \in {"rpm", "npm"}, v \in {V11, V2, Empty}}
CsafKeys == {<<"csaf", s, l, status>> : s \in Streams, l \in Leaves, status \in {"fixed", "affected", "not_affected"}}
CsafDoc(k) == Csaf(k[2], k[3], k[4])

MCAdvisories == UNION {{oldCve, newCve, nvd, csaf}, OsvKeys, NvdKeys, CveKeys, CsafKeys}
MCAdvisoryDoc(k) ==
  CASE k = oldCve -> Cve(1, {CveProduct({[version |-> V0, upper |-> V2, kind |-> "lessThan",
                                          type |-> "maven", status |-> "affected"]})})
    [] k = newCve -> Cve(3, {CveProduct({})})
    [] k = nvd -> Nvd({[vulnerable |-> TRUE, cpe |-> Cpe("a", "lib", NULL),
                        low |-> Inclusive(V1), high |-> Unbounded]})
    [] k = csaf -> Csaf(Release(<<9>>), [base |-> lib, type |-> "npm", version |-> V1], "affected")
    [] k[1] = "osv" -> OsvDoc(k)
    [] k[1] = "nvd" -> NvdDoc(k)
    [] k[1] = "cve" -> CveDoc(k)
    [] OTHER -> CsafDoc(k)

Ask(dir, s, n, depth, rels) ==
  [dir |-> dir, from |-> <<s, <<n>> >>, depth |-> depth, rels |-> rels]
Down(s, n) == {Ask(Outgoing, s, n, d, {}) : d \in {1, 2, Unlimited}}
Up(s, n) == {Ask(Incoming, s, n, d, {}) : d \in {1, 2, Unlimited}}
Filtered(dir, s, n) == Ask(dir, s, n, Unlimited, {"Package", "Dependency"})

Corpus(s, a) == [sboms |-> s, advisories |-> a, queries |-> {}]
Walks(s, q) == [sboms |-> s, advisories |-> {}, queries |-> q]
MCCorpora ==
  UNION {{Corpus({productSbom, component, again}, {}), Corpus({productSbom, component}, {csaf, nvd}),
          Corpus({model}, {nvd, csaf}), Corpus({every}, {oldCve, newCve, nvd})},
         {Corpus({productSbom, component, rebuilt}, {}),
          Walks({productSbom, component}, Down(productSbom, "DOC") \cup Up(component, "dep")),
          Walks({productSbom, image, binary},
                {Ask(Outgoing, productSbom, "DOC", Unlimited, {}), Ask(Incoming, binary, "dep", Unlimited, {})}),
          Walks({left, right}, Down(left, "DOC") \cup Up(right, "dep")
                               \cup {Filtered(Outgoing, left, "root")}),
          Walks({left, spdx}, Down(spdx, "DOC") \cup Up(left, "dep"))},
         {Corpus({every}, {k}) : k \in UNION {PlainKeys, NvdKeys, CveKeys}},
         {Corpus({builds}, {k}) : k \in BuildKeys}, {Corpus({marks}, {k}) : k \in MarkKeys},
         {Corpus({s}, {k}) : s \in DescribedKeys, k \in CsafKeys},
         {Corpus({<<"described", {}>>, s}, {csaf}) : s \in DescribedKeys}}
=============================================================================
