------------------------------- MODULE Indexer -------------------------------
(***************************************************************************)
(* Descriptors, matchers and the pure part of the indexer of the OCI layout *)
(* (oci/descriptormatcher, oci/indexer): what a lookup returns and what a   *)
(* mutation leaves in the list of manifests of index.json.                  *)
(*                                                                         *)
(* A matcher is a Go predicate on descriptors.  Here it is the set of the  *)
(* descriptors it accepts, so that Or and And are union and intersection.  *)
(***************************************************************************)
EXTENDS Naturals, Sequences, FiniteSets

CONSTANTS
    Digest,        \* digests of the blobs that exist in this world
    ImageManifest, \* those of image manifests
    ImageIndex,    \* those of index manifests (multi-arch images)
    RefName,       \* values of the annotation org.opencontainers.image.ref.name
    NoName         \* a descriptor without that annotation

ASSUME DigestAssumption ==
    /\ ImageManifest \subseteq Digest
    /\ ImageIndex \subseteq Digest
    /\ ImageManifest \cap ImageIndex = {}

\* A name is a reference (host/repository:tag), never the text of a digest.
ASSUME NameAssumption == NoName \notin RefName /\ RefName \cap Digest = {}

MediaType == {"image.manifest", "image.index"}

\* ocispec.Descriptor.  Of the size only this matters: it is set in every
\* descriptor made from content and unset in the one Store.Put matches with.
\* Platform and further annotations never influence a decision here.
Descriptor ==
    [mediaType : MediaType, digest : Digest, sized : BOOLEAN, name : RefName \cup {NoName}]

MediaTypeOf(d) == IF d \in ImageIndex THEN "image.index" ELSE "image.manifest"

\* The descriptor of an image as built, pulled or made for an index manifest.
ImageDescriptor(d) ==
    [mediaType |-> MediaTypeOf(d), digest |-> d, sized |-> TRUE, name |-> NoName]

-----------------------------------------------------------------------------
(* descriptormatcher/matcher.go *)

Every == Descriptor

And(m1, m2) == m1 \cap m2

\* reflect.DeepEqual on whole descriptors
Equal(desc) == {desc}

Digests(ds) == {desc \in Descriptor : desc.digest \in ds}

Name(n) == {desc \in Descriptor : desc.name = n}

MediaTypes(ts) == {desc \in Descriptor : desc.mediaType \in ts}

-----------------------------------------------------------------------------
(* indexer/indexer.go, on the manifests ms of an index that was read *)

\* Positions of the first descriptor that matches: one position, or none.
FirstMatch(ms, match) ==
    {i \in DOMAIN ms : ms[i] \in match /\ \A j \in 1 .. (i - 1) : ms[j] \notin match}

\* The descriptors that do not match, in their order: position k holds the
\* survivor that has k survivors up to and including itself.
Survivors(ms, match) == {i \in DOMAIN ms : ms[i] \notin match}

RankIn(S, i) == Cardinality({j \in S : j <= i})

Remaining(ms, match) ==
    LET keep == Survivors(ms, match)
    IN  [k \in 1 .. Cardinality(keep) |-> ms[CHOOSE i \in keep : RankIn(keep, i) = k]]

\* The three mutations: what they write back.
Added(ms, desc) == Append(ms, desc)

\* (mutant: nothing is removed)
ReplacedByAppend(ms, desc, match) == Append(ms, desc)

Replaced(ms, desc, match) == Append(Remaining(ms, match), desc)

\* (mutant: only the first match is removed)
DeletedFirst(ms, match) ==
    LET first == FirstMatch(ms, match)
    IN  [k \in 1 .. (Len(ms) - Cardinality(first)) |->
            IF \A i \in first : k < i THEN ms[k] ELSE ms[k + 1]]

Deleted(ms, match) == Remaining(ms, match)

\* Length of the marshalled index, up to the unit: a named descriptor is longer
\* than an anonymous one, and no index is empty text.
Bytes(ms) == 1 + Len(ms) + Cardinality({i \in DOMAIN ms : ms[i].name # NoName})

\* No two descriptors of a list carry the same name.
NoDuplicateName(ms) ==
    \A i, j \in DOMAIN ms : ms[i].name = ms[j].name /\ ms[i].name # NoName => i = j
=============================================================================
