--------------------------- MODULE StoreRefinement ---------------------------
(***************************************************************************)
(* One process at a time, killed anywhere, implements the abstract TagStore *)
(* one atomic operation per store call, although each call takes several   *)
(* steps on a file that is empty in the middle.                            *)
(***************************************************************************)
EXTENDS Store

Writing == {p \in Proc : pc[p] = "write"}

\* A mutation takes effect when it truncates the file: from then on it is its
\* list, or nothing if the process dies, that a reader will find.
Manifests ==
    IF Writing # {} THEN mem[CHOOSE p \in Writing : TRUE]
    ELSE IF Readable THEN index.manifests
    ELSE <<>>

StoredImages ==
    {Manifests[i].digest : i \in {j \in DOMAIN Manifests : Manifests[j].name = NoName}}

CurrentTags ==
    [n \in RefName |->
        LET found == FirstMatch(Manifests, Name(n))
        IN  IF found = {} THEN Absent ELSE Manifests[CHOOSE i \in found : TRUE].digest]

TS == INSTANCE TagStore WITH
    Label <- RefName,
    Image <- ImageManifest \cup ImageIndex,
    Requires <- [d \in ImageManifest \cup ImageIndex |->
                    IF d \in ImageIndex THEN SubManifests[d] ELSE {}],
    None <- Absent,
    images <- StoredImages,
    tags <- CurrentTags,
    usable <- (index.exists => Readable \/ Writing # {})

\* A user who is alone on the machine sees an atomic map from names to images.
\* Every call of Store (Put, Tag, Delete, AddIndexManifest) is one step of it, a
\* command that fails or dies between calls leaves the calls it made, and only a
\* death inside Indexer.writeIndex loses the whole store.
ImplementsTagStore == TS!Spec
=============================================================================
