-------------------------------- MODULE Store --------------------------------
(***************************************************************************)
(* The local OCI store under concurrent CLI processes.                      *)
(*                                                                         *)
(* Every ironcore-image command is a process of its own that opens the     *)
(* store directory, makes a few calls of oci/store.Store and exits.  The   *)
(* processes share two things and no lock: the blobs (content addressed,   *)
(* never removed by any command) and the file index.json, which each       *)
(* mutation reads as a whole, changes in memory, truncates and writes.     *)
(* A process may be killed, cancelled or hit by an I/O error anywhere.     *)
(***************************************************************************)
EXTENDS Indexer

CONSTANTS
    Proc,         \* slots for processes that run at the same time
    Parts,        \* [ImageManifest -> Seq(Digest)]: config, then layers
    SubManifests, \* [ImageIndex -> SUBSET ImageManifest]
    Pin,          \* digest of the names of the form repository@digest
    Commands,     \* command lines the users may enter
    MaxCommands,  \* bound: command lines entered in a behaviour
    NoDescriptor, \* no source descriptor was resolved
    Absent,       \* a user was told that a reference is deleted
    Unknown       \* no user was told anything about a reference

(***************************************************************************)
(* References as the user spells them.  reference.ParseNamed accepts only  *)
(* the canonical spelling of a name (docker.io/library/x:tag), while       *)
(* reference.ParseAnyReference also accepts and normalises the familiar    *)
(* one (x:tag), and digests.  It rejects the empty string and malformed    *)
(* text; the empty string is a prefix of every digest, malformed text of   *)
(* none.                                                                   *)
(***************************************************************************)
Canonical(n) == [spelling |-> "canonical", name |-> n]
Familiar(n) == [spelling |-> "familiar", name |-> n]
DigestRef(d) == [spelling |-> "digest", digest |-> d]
EmptyRef == [spelling |-> "empty"]
Malformed == [spelling |-> "malformed"]

Ref ==
    {Canonical(n) : n \in RefName} \cup {Familiar(n) : n \in RefName}
        \cup {DigestRef(d) : d \in Digest} \cup {EmptyRef, Malformed}

ParsesAsNamed(ref) == ref.spelling = "canonical"

ParsesAsAny(ref) == ref.spelling \in {"canonical", "familiar", "digest"}

\* Store.referenceToMatcher, for a ref that parses
ReferenceToMatcher(ref) ==
    IF ref.spelling = "digest" THEN Digests({ref.digest})
    ELSE IF ref.name \in DOMAIN Pin
         THEN And(Digests({Pin[ref.name]}), Name(ref.name))
         ELSE Name(ref.name)

\* descriptormatcher.EncodedDigestPrefix, for a ref that does not parse
EncodedDigestPrefix(ref) == IF ref.spelling = "empty" THEN Every ELSE {}

(***************************************************************************)
(* The calls a command makes on the store, in order.                       *)
(***************************************************************************)
Open == [call |-> "open"]
Put(d) == [call |-> "put", img |-> d]
AddIndexManifest(d) == [call |-> "add", img |-> d]
Tag(src, dst) == [call |-> "tag", ref |-> src, dst |-> dst]
Delete(r) == [call |-> "delete", ref |-> r]
Show(r) == [call |-> "show", ref |-> r]

\* common.FuzzyResolveRef on the reference of the call that comes next
Fuzzy(c) == [call |-> "fuzzy", next |-> c]

RefCall ==
    {Tag(s, t) : s \in Ref, t \in Ref} \cup {Delete(r) : r \in Ref} \cup {Show(r) : r \in Ref}

Call ==
    {Open} \cup {Put(d) : d \in ImageManifest} \cup {AddIndexManifest(d) : d \in ImageIndex}
        \cup RefCall \cup {Fuzzy(c) : c \in RefCall}

\* Store.Push
Push(d, ref) == <<Put(d), Tag(DigestRef(d), ref)>>

\* Store.PushIndexManifest
\* (mutant: tags before the manifest is listed)
TagIndexManifestFirst(d, ref) == <<Tag(DigestRef(d), ref), AddIndexManifest(d)>>

PushIndexManifest(d, ref) == <<AddIndexManifest(d), Tag(DigestRef(d), ref)>>

\* One command line.  A build names, per architecture, the image it makes and
\* the reference <tag>-<arch>, then the index over those images and <tag>.
ArchImage == [img : ImageManifest, ref : Ref]

Command ==
    [do : {"build"}, archs : Seq(ArchImage), index : ImageIndex, ref : Ref]
        \cup [do : {"tag"}, src : Ref, ref : Ref]
        \cup [do : {"delete", "inspect"}, ref : Ref]
        \cup [do : {"pull"}, img : ImageManifest, ref : Ref]

\* The calls for the i-th architecture of a build are at 2 * i - 1 and 2 * i.
ArchCalls(archs) ==
    [k \in 1 .. 2 * Len(archs) |->
        LET a == archs[(k + 1) \div 2] IN Push(a.img, a.ref)[2 - (k % 2)]]

\* (mutant: the index before the images)
BuildIndexFirst(c) == PushIndexManifest(c.index, c.ref) \o ArchCalls(c.archs)

BuildScript(c) == ArchCalls(c.archs) \o PushIndexManifest(c.index, c.ref)

TagScript(c) == <<Fuzzy(Tag(c.src, c.ref))>>

DeleteScript(c) == <<Delete(c.ref), Fuzzy(Delete(c.ref))>>

PullScript(c) == Push(c.img, c.ref)

InspectScript(c) == <<Fuzzy(Show(c.ref))>>

Script(c) ==
    <<Open>> \o
    CASE c.do = "build" -> BuildScript(c)
      [] c.do = "tag" -> TagScript(c)
      [] c.do = "delete" -> DeleteScript(c)
      [] c.do = "pull" -> PullScript(c)
      [] c.do = "inspect" -> InspectScript(c)

ASSUME ContentAssumption ==
    /\ Parts \in [ImageManifest -> Seq(Digest)]
    /\ \A d \in ImageManifest : Parts[d] # <<>>
    /\ SubManifests \in [ImageIndex -> SUBSET ImageManifest]
    /\ DOMAIN Pin \subseteq RefName
    /\ \A n \in DOMAIN Pin : Pin[n] \in Digest

ASSUME SentinelAssumption ==
    /\ NoDescriptor \notin Descriptor
    /\ Absent \notin Digest
    /\ Unknown \notin Digest
    /\ Absent # Unknown

\* The index image of a build lists exactly the images the build pushed.
ASSUME CommandAssumption ==
    /\ Commands \subseteq Command
    /\ \A c \in Commands :
          c.do = "build" =>
             SubManifests[c.index] = {c.archs[i].img : i \in DOMAIN c.archs}
    /\ MaxCommands \in Nat

-----------------------------------------------------------------------------
VARIABLES
    blobs,    \* digests committed to the content store
    index,    \* index.json: does it exist, what was written last, its length
    pc,       \* what a process does next
    todo,     \* the calls its command still has to make
    pending,  \* digests the current call still has to write
    source,   \* the descriptor Store.resolveDescriptor returned
    mem,      \* the manifests the indexer is about to write
    started,  \* command lines entered so far
    told      \* the last success message about each name and digest

vars == <<blobs, index, pc, todo, pending, source, mem, started, told>>

PC == {"idle", "call", "blobs", "read", "truncate", "write"}

Key == RefName \cup Digest

\* index.json is valid JSON: it is neither missing nor cut to zero nor followed
\* by the end of a longer text another process wrote before.
Readable == index.exists /\ index.size = Bytes(index.manifests)

TypeOK ==
    /\ blobs \subseteq Digest
    /\ index \in [exists : BOOLEAN, manifests : Seq(Descriptor), size : Nat]
    /\ pc \in [Proc -> PC]
    /\ todo \in [Proc -> Seq(Call)]
    /\ pending \in [Proc -> Seq(Digest)]
    /\ source \in [Proc -> Descriptor \cup {NoDescriptor}]
    /\ mem \in [Proc -> Seq(Descriptor)]
    /\ started \in 0 .. MaxCommands
    /\ told \in [Key -> Digest \cup {Absent, Unknown}]

Init ==
    /\ blobs = {}
    /\ index = [exists |-> FALSE, manifests |-> <<>>, size |-> 0]
    /\ pc = [p \in Proc |-> "idle"]
    /\ todo = [p \in Proc |-> <<>>]
    /\ pending = [p \in Proc |-> <<>>]
    /\ source = [p \in Proc |-> NoDescriptor]
    /\ mem = [p \in Proc |-> <<>>]
    /\ started = 0
    /\ told = [k \in Key |-> Unknown]

-----------------------------------------------------------------------------
(* What users are told *)

Mentions(ref) ==
    IF ref.spelling \in {"canonical", "familiar"} THEN {ref.name}
    ELSE IF ref.spelling = "digest" THEN {ref.digest}
    ELSE {}

\* The names and digests whose meaning a command may change.
Affects(c) ==
    CASE c.do = "build" ->
            Mentions(c.ref) \cup {c.index}
                \cup UNION {Mentions(c.archs[i].ref) \cup {c.archs[i].img} : i \in DOMAIN c.archs}
      [] c.do = "tag" -> Mentions(c.ref)
      [] c.do = "delete" -> Mentions(c.ref) \cup {k \in Key : told[k] \in Mentions(c.ref)}
      [] c.do = "pull" -> Mentions(c.ref) \cup {c.img}
      [] c.do = "inspect" -> {}

\* The message printed when the call at the head of todo[p] is done.
Tell(p) ==
    LET c == Head(todo[p])
    IN  CASE c.call = "tag" ->
                [k \in Key |-> IF k \in {c.dst.name, source[p].digest}
                               THEN source[p].digest ELSE told[k]]
          [] c.call = "delete" /\ Len(todo[p]) = 1 ->
                [k \in Key |-> IF k \in Mentions(c.ref) THEN Absent ELSE told[k]]
          [] OTHER -> told

-----------------------------------------------------------------------------
(* Steps of a process *)

Calls(p, call) == pc[p] = "call" /\ Head(todo[p]).call = call

\* The process is done with its call and its local variables are gone; after the
\* last call of the command it exits.
Return(p) ==
    /\ todo' = [todo EXCEPT ![p] = Tail(@)]
    /\ pc' = [pc EXCEPT ![p] = IF Len(todo[p]) = 1 THEN "idle" ELSE "call"]
    /\ pending' = [pending EXCEPT ![p] = <<>>]
    /\ source' = [source EXCEPT ![p] = NoDescriptor]
    /\ mem' = [mem EXCEPT ![p] = <<>>]

\* The process exits in the middle of its command and undoes nothing.
Exit(p) ==
    /\ todo' = [todo EXCEPT ![p] = <<>>]
    /\ pc' = [pc EXCEPT ![p] = "idle"]
    /\ pending' = [pending EXCEPT ![p] = <<>>]
    /\ source' = [source EXCEPT ![p] = NoDescriptor]
    /\ mem' = [mem EXCEPT ![p] = <<>>]
    /\ UNCHANGED <<blobs, index, started, told>>

Start(p, c) ==
    /\ pc[p] = "idle"
    /\ started < MaxCommands
    /\ started' = started + 1
    /\ todo' = [todo EXCEPT ![p] = Script(c)]
    /\ pc' = [pc EXCEPT ![p] = "call"]
    /\ told' = [k \in Key |-> IF k \in Affects(c) THEN Unknown ELSE told[k]]
    /\ UNCHANGED <<blobs, index, pending, source, mem>>

\* indexer.New: an index that can be read is left alone.
OpenExisting(p) ==
    /\ Calls(p, "open")
    /\ Readable
    /\ Return(p)
    /\ UNCHANGED <<blobs, index, started, told>>

\* indexer.New: a missing index is written, empty.
\* (mutant: any read error counts as missing)
OpenUnreadable(p) ==
    /\ Calls(p, "open")
    /\ ~Readable
    /\ mem' = [mem EXCEPT ![p] = <<>>]
    /\ pc' = [pc EXCEPT ![p] = "truncate"]
    /\ UNCHANGED <<blobs, index, todo, pending, source, started, told>>

OpenMissing(p) ==
    /\ Calls(p, "open")
    /\ ~index.exists
    /\ mem' = [mem EXCEPT ![p] = <<>>]
    /\ pc' = [pc EXCEPT ![p] = "truncate"]
    /\ UNCHANGED <<blobs, index, todo, pending, source, started, told>>

\* image.AsWriteLayers: config, layers and at last the manifest.
\* (mutant: the config is forgotten)
AsWriteLayersNoConfig(d) == Append(Tail(Parts[d]), d)

AsWriteLayers(d) == Append(Parts[d], d)

BeginPut(p) ==
    /\ Calls(p, "put")
    /\ pending' = [pending EXCEPT ![p] = AsWriteLayers(Head(todo[p]).img)]
    /\ pc' = [pc EXCEPT ![p] = "blobs"]
    /\ UNCHANGED <<blobs, index, todo, source, mem, started, told>>

\* Layout.AddIndexManifest writes the index manifest itself and nothing else.
BeginAddIndexManifest(p) ==
    /\ Calls(p, "add")
    /\ pending' = [pending EXCEPT ![p] = <<Head(todo[p]).img>>]
    /\ pc' = [pc EXCEPT ![p] = "blobs"]
    /\ UNCHANGED <<blobs, index, todo, source, mem, started, told>>

\* content.WriteBlob: commits the blob, or finds that it exists.
WriteBlob(p) ==
    /\ pc[p] = "blobs"
    /\ blobs' = blobs \cup {Head(pending[p])}
    /\ pending' = [pending EXCEPT ![p] = Tail(@)]
    /\ pc' = [pc EXCEPT ![p] = IF Len(pending[p]) = 1 THEN "read" ELSE "blobs"]
    /\ UNCHANGED <<index, todo, source, mem, started, told>>

\* common.FuzzyResolveRef: a ref that parses is returned as it is ...
FuzzyKeep(p) ==
    /\ Calls(p, "fuzzy")
    /\ ParsesAsAny(Head(todo[p]).next.ref)
    /\ todo' = [todo EXCEPT ![p] = <<Head(@).next>> \o Tail(@)]
    /\ UNCHANGED <<blobs, index, pc, pending, source, mem, started, told>>

\* ... any other is looked up as the prefix of a digest, and the next call gets
\* the digest found.
FuzzyLookup(p) ==
    /\ Calls(p, "fuzzy")
    /\ ~ParsesAsAny(Head(todo[p]).next.ref)
    /\ Readable
    /\ \E i \in FirstMatch(index.manifests, EncodedDigestPrefix(Head(todo[p]).next.ref)) :
          todo' = [todo EXCEPT ![p] =
                     <<[Head(@).next EXCEPT !.ref = DigestRef(index.manifests[i].digest)]>>
                         \o Tail(@)]
    /\ UNCHANGED <<blobs, index, pc, pending, source, mem, started, told>>

\* Store.Tag up to resolveDescriptor, and resolveDescriptor in Store.Resolve.
ResolveDescriptor(p) ==
    /\ Calls(p, "tag") \/ Calls(p, "show")
    /\ Calls(p, "tag") => ParsesAsNamed(Head(todo[p]).dst)
    /\ ParsesAsAny(Head(todo[p]).ref)
    /\ Readable
    /\ \E i \in FirstMatch(index.manifests, ReferenceToMatcher(Head(todo[p]).ref)) :
          source' = [source EXCEPT ![p] = index.manifests[i]]
    /\ pc' = [pc EXCEPT ![p] = "read"]
    /\ UNCHANGED <<blobs, index, todo, pending, mem, started, told>>

\* The blobs the inspect command reads: the manifest, and the config of an image.
BlobsShown(d) == IF d \in ImageManifest THEN {d, Head(Parts[d])} ELSE {d}

\* Layout.Image and Layout.IndexImage look the descriptor up again; the command
\* then reads the blobs of the image.
ReadImage(p) ==
    /\ pc[p] = "read"
    /\ Head(todo[p]).call = "show"
    /\ Readable
    /\ FirstMatch(index.manifests, Equal(source[p])) # {}
    /\ BlobsShown(source[p].digest) \subseteq blobs
    /\ Return(p)
    /\ UNCHANGED <<blobs, index, started, told>>

\* The matcher of Store.Put is made of media type and digest only.
\* (mutant: the digest is forgotten)
PutMatcherByType(d) == MediaTypes({MediaTypeOf(d)})

PutMatcher(d) == Equal([ImageDescriptor(d) EXCEPT !.sized = FALSE])

\* The descriptor Store.Tag writes: the source's, under the new name only.
\* (mutants: a field is not copied; the annotations of the source are copied)
TaggedDescriptorNoSize(desc, n) == [desc EXCEPT !.name = n, !.sized = FALSE]

TaggedDescriptorNoType(desc, n) == [digest |-> desc.digest, sized |-> desc.sized, name |-> n]

TaggedDescriptorKeepName(desc, n) ==
    IF desc.name = NoName THEN [desc EXCEPT !.name = n] ELSE desc

TaggedDescriptor(desc, n) == [desc EXCEPT !.name = n]

\* What Indexer.Add, Replace and Delete write for the call at the head of todo[p].
Update(p) ==
    LET c == Head(todo[p])
    IN  CASE c.call = "put" ->
                Replaced(index.manifests, ImageDescriptor(c.img), PutMatcher(c.img))
          [] c.call = "add" -> Added(index.manifests, ImageDescriptor(c.img))
          [] c.call = "tag" ->
                Replaced(index.manifests, TaggedDescriptor(source[p], c.dst.name),
                         Name(c.dst.name))
          [] c.call = "delete" -> Deleted(index.manifests, ReferenceToMatcher(c.ref))

\* (mutant: a mutation takes an unreadable index for an empty one)
ReadIndexUnchecked(p) ==
    /\ \/ pc[p] = "read" /\ Head(todo[p]).call \in {"put", "add", "tag"}
       \/ Calls(p, "delete") /\ ParsesAsAny(Head(todo[p]).ref)
    /\ mem' = [mem EXCEPT ![p] = Update(p)]
    /\ pc' = [pc EXCEPT ![p] = "truncate"]
    /\ UNCHANGED <<blobs, index, todo, pending, source, started, told>>

\* The readIndex of a mutation.  Store.Delete comes here without another step.
ReadIndex(p) ==
    /\ \/ pc[p] = "read" /\ Head(todo[p]).call \in {"put", "add", "tag"}
       \/ Calls(p, "delete") /\ ParsesAsAny(Head(todo[p]).ref)
    /\ Readable
    /\ mem' = [mem EXCEPT ![p] = Update(p)]
    /\ pc' = [pc EXCEPT ![p] = "truncate"]
    /\ UNCHANGED <<blobs, index, todo, pending, source, started, told>>

\* (mutant: the file is opened without O_TRUNC)
OpenWithoutTruncate(p) ==
    /\ pc[p] = "truncate"
    /\ index' = [index EXCEPT !.exists = TRUE]
    /\ pc' = [pc EXCEPT ![p] = "write"]
    /\ UNCHANGED <<blobs, todo, pending, source, mem, started, told>>

\* os.WriteFile opens the file with O_TRUNC ...
Truncate(p) ==
    /\ pc[p] = "truncate"
    /\ index' = [exists |-> TRUE, manifests |-> <<>>, size |-> 0]
    /\ pc' = [pc EXCEPT ![p] = "write"]
    /\ UNCHANGED <<blobs, todo, pending, source, mem, started, told>>

\* ... and writes from its beginning; what lies beyond stays.
WriteIndex(p) ==
    /\ pc[p] = "write"
    /\ index' = [exists |-> TRUE, manifests |-> mem[p],
                 size |-> IF index.size > Bytes(mem[p]) THEN index.size ELSE Bytes(mem[p])]
    /\ told' = Tell(p)
    /\ Return(p)
    /\ UNCHANGED <<blobs, started>>

(***************************************************************************)
(* The error returns: a malformed or unnamed reference, an index that      *)
(* cannot be read, a descriptor that is not there.                         *)
(***************************************************************************)
RefusesReference(p) ==
    \/ Calls(p, "tag") /\ ~ParsesAsNamed(Head(todo[p]).dst)
    \/ (Calls(p, "tag") \/ Calls(p, "show") \/ Calls(p, "delete"))
          /\ ~ParsesAsAny(Head(todo[p]).ref)

NeedsIndex(p) ==
    \/ pc[p] = "read"
    \/ Calls(p, "open") /\ index.exists
    \/ Calls(p, "fuzzy") /\ ~ParsesAsAny(Head(todo[p]).next.ref)
    \/ Calls(p, "tag") \/ Calls(p, "show") \/ Calls(p, "delete")

FindsNothing(p) ==
    /\ Readable
    /\ \/ /\ Calls(p, "fuzzy") /\ ~ParsesAsAny(Head(todo[p]).next.ref)
          /\ FirstMatch(index.manifests, EncodedDigestPrefix(Head(todo[p]).next.ref)) = {}
       \/ /\ Calls(p, "tag") \/ Calls(p, "show")
          /\ ParsesAsAny(Head(todo[p]).ref)
          /\ FirstMatch(index.manifests, ReferenceToMatcher(Head(todo[p]).ref)) = {}
       \/ /\ pc[p] = "read" /\ Head(todo[p]).call = "show"
          /\ \/ FirstMatch(index.manifests, Equal(source[p])) = {}
             \/ ~(BlobsShown(source[p].digest) \subseteq blobs)

ReturnError(p) ==
    /\ RefusesReference(p) \/ (NeedsIndex(p) /\ ~Readable) \/ FindsNothing(p)
    /\ Exit(p)

\* SIGKILL, a cancelled context, an I/O error, a file that changed since its
\* digest was taken: the process ends at whatever step it was about to take.
Stop(p) ==
    /\ pc[p] # "idle"
    /\ Exit(p)

Step(p) ==
    \/ OpenExisting(p)
    \/ OpenMissing(p)
    \/ BeginPut(p)
    \/ BeginAddIndexManifest(p)
    \/ WriteBlob(p)
    \/ FuzzyKeep(p)
    \/ FuzzyLookup(p)
    \/ ResolveDescriptor(p)
    \/ ReadImage(p)
    \/ ReadIndex(p)
    \/ Truncate(p)
    \/ WriteIndex(p)
    \/ ReturnError(p)

\* Users enter no more commands.
Quiet ==
    /\ started = MaxCommands
    /\ \A p \in Proc : pc[p] = "idle"
    /\ UNCHANGED vars

Next ==
    \/ \E p \in Proc :
          \/ \E c \in Commands : Start(p, c)
          \/ Step(p)
          \/ Stop(p)
    \/ Quiet

Spec == Init /\ [][Next]_vars

\* The same processes when nothing stops them from outside.
CalmNext ==
    \/ \E p \in Proc :
          \/ \E c \in Commands : Start(p, c)
          \/ Step(p)
    \/ Quiet

CalmSpec == Init /\ [][CalmNext]_vars /\ \A p \in Proc : WF_vars(Step(p))

-----------------------------------------------------------------------------
(* Properties *)

\* Every list of manifests that is in the file or about to be written to it.
Lists == {index.manifests} \cup {mem[p] : p \in Proc}

\* A name is the name of one descriptor at most, whatever processes write over
\* each other and wherever they die: Store.Tag replaces by name, and lookups
\* (Indexer.Find) take the first match and would hide a second one.
UniqueNames == \A ms \in Lists : NoDuplicateName(ms)

\* The entries of one image agree in type and size. Put means to replace the entry of
\* the image it stores, but its matcher, which has no size, finds none, so entries pile
\* up (store.go:22, "replaces" in layout.go:43); whichever of them a lookup or a later
\* Tag takes, the image is read in the same way.
EntriesAgree ==
    \A ms \in Lists : \A i, j \in DOMAIN ms :
       ms[i].digest = ms[j].digest =>
          ms[i].mediaType = ms[j].mediaType /\ ms[i].sized = ms[j].sized

WrittenBlobs(d) == {d} \cup {Parts[d][i] : i \in DOMAIN Parts[d]}

\* All that is needed to run, inspect or push an image: for an index manifest
\* that includes the blobs of the images it lists.
Content(d) ==
    IF d \in ImageManifest THEN WrittenBlobs(d)
    ELSE {d} \cup UNION {WrittenBlobs(m) : m \in SubManifests[d]}

\* An image is listed only when all its blobs are committed (Layout.ReplaceImage
\* and AddIndexManifest write blobs first, build pushes the images of an index
\* before the index), also while other processes write and after a crash.
BlobsBeforeIndex ==
    \A ms \in Lists : \A i \in DOMAIN ms : Content(ms[i].digest) \subseteq blobs

\* The images an index manifest lists can be resolved by their digests, as push
\* needs (cmd/push): no command drops an entry another image relies on, except
\* a delete by the digest of that image.
SubManifestsListed ==
    Readable =>
       \A i \in DOMAIN index.manifests :
          index.manifests[i].mediaType = "image.index" =>
             \A d \in SubManifests[index.manifests[i].digest] :
                \E j \in DOMAIN index.manifests : index.manifests[j].digest = d

\* What a success message promised holds until a command that mentions the same
\* name or digest starts: a tagged name and its digest resolve to the image that
\* was tagged, a deleted reference resolves to nothing.
KeyMatcher(k) == ReferenceToMatcher(IF k \in Digest THEN DigestRef(k) ELSE Canonical(k))

PromisesKept ==
    Readable =>
       \A k \in Key :
          LET found == FirstMatch(index.manifests, KeyMatcher(k))
          IN  /\ told[k] = Absent => found = {}
              /\ told[k] \in Digest =>
                    \E i \in found : index.manifests[i].digest = told[k]

\* index.json exists, cannot be read, and no process is past its readIndex.
Damaged ==
    /\ index.exists /\ ~Readable
    /\ \A p \in Proc : pc[p] \notin {"truncate", "write"}

\* Damage is for ever: indexer.New and every mutation give up on a file they cannot
\* read, so what another process or a kill left there is never mistaken for a new
\* store and started over with an empty list.
DamageIsNotErased == [][Damaged => Damaged' /\ index' = index]_vars

\* When no process runs, a store that was opened once can be opened again.
UsableWhenQuiet ==
    (\A p \in Proc : pc[p] = "idle") /\ index.exists => Readable

\* delete.go, help: "Delete a local image".  Once an image is reported deleted by its
\* digest, a tag that was under way does not compute a list with the image in it again.
DeletedStaysDeleted ==
    [][\A p \in Proc :
          pc[p] = "read" /\ pc'[p] = "truncate" /\ Head(todo[p]).call = "tag"
             => told[source[p].digest] # Absent]_vars

\* A build with a canonical tag ends with the tag on the index image.
Begun(p, c) == todo[p] = Script(c)

Succeeded(c) == told[c.ref.name] = c.index

CanonicalBuilds == {c \in Commands : c.do = "build" /\ ParsesAsNamed(c.ref)}

BuildSucceeds ==
    \A p \in Proc : \A c \in CanonicalBuilds : Begun(p, c) ~> Succeeded(c)

\* README.md, build: --tag my-image:latest "will ... create a local index manifest
\* tagged my-image:latest", for names in the familiar spelling too.
FamiliarBuilds ==
    {c \in Commands : c.do = "build" /\ c.ref.spelling \in {"canonical", "familiar"}}

FamiliarBuildSucceeds ==
    \A p \in Proc : \A c \in FamiliarBuilds : Begun(p, c) ~> Succeeded(c)
=============================================================================
