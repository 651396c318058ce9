----------------------------- MODULE SbomLoaders -----------------------------
(***************************************************************************)
(* What the loaders of the ingestor make of an SBOM: its nodes, which of   *)
(* them are packages, what PURLs and CPEs refer to them, and how they      *)
(* relate.                                                                 *)
(*                                                                         *)
(*   modules/ingestor/src/graph/sbom/{cyclonedx,spdx}.rs                   *)
(*   modules/ingestor/src/graph/sbom/common/**, processor/rh_prod_comp.rs  *)
(*                                                                         *)
(* A node ID is a sequence of strings: the reference of a component, or    *)
(* the pair of references a processor makes an artificial node of.  The    *)
(* component lists of a CycloneDX document are flat here: component.in is  *)
(* the component it is nested in, component.role is "component",           *)
(* "ancestor" or "variant".  Licenses and groups are left out, and so are  *)
(* the ends NONE and NOASSERTION, which relate drops.                      *)
(***************************************************************************)
EXTENDS Naturals, Sequences, FiniteSets

DOC == <<"DOC">>

\* What one SBOM adds to the tables.  packages maps nodes to the version of
\* their package, externals nodes to the node and the document they stand for.
Refs(nodes) ==
    [purls |-> UNION {{<<c.ref, p>> : p \in c.purls} : c \in nodes},
     cpes |-> UNION {{<<c.ref, e>> : e \in c.cpes} : c \in nodes}]

Checksums(nodes) == UNION {{<<c.ref, sum>> : sum \in c.checksums} : c \in nodes}

PackageVersions(packages) ==
    [n \in {c.ref : c \in packages} |-> (CHOOSE c \in packages : c.ref = n).version]

NodeNames(nodes) == [n \in {c.ref : c \in nodes} |-> (CHOOSE c \in nodes : c.ref = n).name]

Ends(rels) == UNION {{r[1], r[3]} : r \in rels}

External(type, doc, ref) == [type |-> type, doc |-> doc, ref |-> ref]

\* handle_ext: the ends of relationships that name a node elsewhere, in the
\* document with a digest (SPDX) or with an ID (CycloneDX).
ExternalNodes(doc, rels) ==
    [n \in Ends(rels) \cap DOMAIN doc.external |->
       External(doc.format, doc.external[n].doc, doc.external[n].ref)]

-----------------------------------------------------------------------------
(* The processor of Red Hat's product and component SBOMs *)

is_root(rows, node) == <<DOC, "Describes", node>> \in rows.rels

TopLevel(rows) ==
    {n \in DOMAIN rows.packages :
       /\ is_root(rows, n)
       /\ \/ \E r \in rows.rels : r[2] = "Variant"
          \/ \E ref \in rows.cpes : ref[1] = n}

\* A component a product is made of becomes an external node, too.
PostProcess(doc, rows) ==
    LET linked == {r \in rows.rels :
                     \/ r[2] = "Variant"
                     \/ r[2] \in {"Generates", "Package"} /\ r[1] \in TopLevel(rows)}
        ext == {r[1] \o r[3] : r \in linked}
    IN  IF ~doc.redhat THEN rows
        ELSE [rows EXCEPT
                !.rels = @ \cup {<<r[3], "Package", r[1] \o r[3]>> : r \in linked},
                !.externals = [n \in ext \cup DOMAIN @ |->
                   IF n \in ext
                   THEN LET part == (CHOOSE r \in linked : r[1] \o r[3] = n)[3]
                        IN  External("redhat", part, part)
                   ELSE @[n]]]

\* Every end of a relationship has to be a node, or the upload fails.
Validated(rows) ==
    [rows EXCEPT !.loads = Ends(rows.rels) \subseteq {DOC} \cup rows.nodes \cup DOMAIN rows.externals]

-----------------------------------------------------------------------------
(* CycloneDX *)

PackageTypes == {"application", "framework", "library", "container", "operating-system"}

CdxRelations(doc) ==
    {<<DOC, "Describes", c.ref>> : c \in doc.main}
    \cup (UNION {{d.ref} \X {"Dependency"} \X d.dependsOn : d \in doc.dependencies})
    \cup (UNION {{d.ref} \X {"Generates"} \X d.provides : d \in doc.dependencies})
    \cup {<<c.ref, "AncestorOf", c.in>> : c \in {d \in doc.components : d.role = "ancestor"}}
    \cup {<<c.in, "Variant", c.ref>> : c \in {d \in doc.components : d.role = "variant"}}

\* Of the components of other types nothing is kept; files and cryptographic
\* assets have no PURLs and CPEs, machine learning models are no packages.
CdxRows(doc) ==
    LET all == doc.main \cup doc.components
        OfType(types) == {c \in all : c.type \in types}
        packages == OfType(PackageTypes)
        models == OfType({"machine-learning-model"})
        nodes == packages \cup models \cup OfType({"file", "cryptographic-asset"})
        refs == Refs(packages \cup models)
        rels == CdxRelations(doc)
    IN  Validated(PostProcess(doc,
          [nodes |-> {c.ref : c \in nodes}, names |-> NodeNames(nodes),
           packages |-> PackageVersions(packages),
           purls |-> refs.purls, cpes |-> refs.cpes, checksums |-> Checksums(nodes),
           rels |-> rels, externals |-> ExternalNodes(doc, rels),
           products |-> {[name |-> c.name, version |-> c.version] : c \in doc.main},
           loads |-> FALSE]))

-----------------------------------------------------------------------------
(* SPDX *)

\* Relationship types that are kept, and those kept with their ends swapped.
Forward ==
    [ANCESTOR_OF |-> "AncestorOf", CONTAINS |-> "Contains", DEPENDS_ON |-> "Dependency",
     DESCRIBES |-> "Describes", GENERATES |-> "Generates"]
Backward ==
    [BUILD_TOOL_OF |-> "BuildTool", CONTAINED_BY |-> "Contains", DEPENDENCY_OF |-> "Dependency",
     DESCENDANT_OF |-> "AncestorOf", DESCRIBED_BY |-> "Describes",
     DEV_DEPENDENCY_OF |-> "DevDependency", DEV_TOOL_OF |-> "DevTool", EXAMPLE_OF |-> "Example",
     GENERATED_FROM |-> "Generates", OPTIONAL_DEPENDENCY_OF |-> "OptionalDependency",
     PACKAGE_OF |-> "Package", PROVIDED_DEPENDENCY_OF |-> "ProvidedDependency",
     RUNTIME_DEPENDENCY_OF |-> "RuntimeDependency", TEST_DEPENDENCY_OF |-> "TestDependency",
     VARIANT_OF |-> "Variant"]

SpdxRelationships(doc) ==
    {<<r[1], Forward[r[2]], r[3]>> : r \in {s \in doc.relationships : s[2] \in DOMAIN Forward}}
    \cup {<<r[3], Backward[r[2]], r[1]>> :
            r \in {s \in doc.relationships : s[2] \in DOMAIN Backward}}

\* A package is a product if a relationship says that it is described; that
\* document_describes says so is not enough.
SpdxRows(doc) ==
    LET described == SpdxRelationships(doc)
        rels == described \cup {<<DOC, "Describes", n>> : n \in doc.document_describes}
        refs == Refs(doc.packages)
        product == {r[3] : r \in {s \in described : s[2] = "Describes"}}
    IN  Validated(PostProcess(doc,
          [nodes |-> {p.ref : p \in doc.packages \cup doc.files},
           names |-> NodeNames(doc.packages \cup doc.files),
           packages |-> PackageVersions(doc.packages),
           purls |-> refs.purls, cpes |-> refs.cpes,
           checksums |-> Checksums(doc.packages \cup doc.files),
           rels |-> rels, externals |-> ExternalNodes(doc, rels),
           products |-> {[name |-> p.name, version |-> p.version] :
                           p \in {q \in doc.packages : q.ref \in product}},
           loads |-> FALSE]))

-----------------------------------------------------------------------------

SbomRows(doc) == IF doc.format = "spdx" THEN SpdxRows(doc) ELSE CdxRows(doc)

\* populate_describing_cpes
describing_cpes(rows) ==
    {ref[2] : ref \in {c \in rows.cpes : \E r \in rows.rels :
                         r[2] = "Describes" /\ c[1] \in {r[1], r[3]}}}

\* sbom_external_node joined with sbom_node_checksum: the checksums that an
\* SBOM refers to nodes of other documents by.
ReferredChecksums(rows) ==
    {c[2] : c \in {k \in rows.checksums :
                      k[1] \in {rows.externals[n].ref : n \in DOMAIN rows.externals}}}

ChecksumValues(rows) == {c[2] : c \in rows.checksums}
=============================================================================
