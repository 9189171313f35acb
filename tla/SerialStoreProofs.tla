-------------------------- MODULE SerialStoreProofs ---------------------------
(***************************************************************************)
(* What one user at a time can rely on: the properties of Store that hold  *)
(* for a single process, killed anywhere, and its refinement of TagStore,  *)
(* for any images, names and commands.                                     *)
(***************************************************************************)
EXTENDS StoreRefinement, StoreProofs

-----------------------------------------------------------------------------
(* Hypotheses *)

\* One command after the other.
OneProcess == \A p, q \in Proc : p = q

BuiltIndexes == {c.index : c \in {b \in Commands : b.do = "build"}}

\* No delete command names the digest of an image that a build puts in an index.
SubImagesStay ==
    \A c \in Commands : c.do = "delete" /\ c.ref.spelling = "digest" =>
       \A x \in BuiltIndexes : c.ref.digest \notin SubManifests[x]

\* A reference pinned to a digest is given to the image of that digest only, by
\* commands that know the image when they begin.
Pinned(ref) == ParsesAsNamed(ref) /\ ref.name \in DOMAIN Pin

PinsFit ==
    \A c \in Commands :
       /\ c.do = "build" =>
             /\ Pinned(c.ref) => c.index = Pin[c.ref.name]
             /\ \A i \in DOMAIN c.archs :
                   Pinned(c.archs[i].ref) => c.archs[i].img = Pin[c.archs[i].ref.name]
       /\ c.do = "pull" /\ Pinned(c.ref) => c.img = Pin[c.ref.name]
       /\ c.do = "tag" => ~Pinned(c.ref)

-----------------------------------------------------------------------------
(* Invariants *)

Listed(ms) == {e.digest : e \in Entries(ms)}

StoreImage == ImageManifest \cup ImageIndex

\* Every image that is listed has an entry without a name.
Anchored(ms) ==
    \A e \in Entries(ms) : e.digest \in StoreImage /\ ImageDescriptor(e.digest) \in Entries(ms)

\* The call that FuzzyResolveRef prepares, or the call itself.
Due(c) == IF c.call = "fuzzy" THEN c.next ELSE c

\* For every image an index manifest of a later call lists: it is listed, or an earlier
\* call puts it. The same command removes nothing.
ListedFirst(calls, listed) ==
    \A j \in DOMAIN calls :
       calls[j].call = "add" =>
          /\ \A d \in SubManifests[calls[j].img] :
                d \in listed \/ \E k \in 1 .. (j - 1) : calls[k] = Put(d)
          /\ \A k \in DOMAIN calls : calls[k].call \notin {"delete", "fuzzy"}

\* A delete by something that does not parse fails before it is looked up as a prefix,
\* and no command tags and deletes.
DeletesApart(calls) ==
    \A j \in DOMAIN calls :
       /\ Due(calls[j]).call = "delete" => \A k \in DOMAIN calls : Due(calls[k]).call # "tag"
       /\ Due(calls[j]).call = "delete" /\ calls[j].call = "fuzzy" /\ ~ParsesAsAny(calls[j].next.ref)
             => \E k \in 1 .. (j - 1) : calls[k].call = "delete" /\ ~ParsesAsAny(calls[k].ref)

\* What a process that is alone knows of the file.
Alone(p) ==
    /\ pc[p] = "write" => index.exists /\ index.manifests = <<>> /\ index.size = 0
    /\ pc[p] = "truncate" =>
          IF Head(todo[p]).call = "open" THEN ~index.exists /\ mem[p] = <<>>
          ELSE Readable /\ mem[p] = Update(p)
    /\ pc[p] \in {"read", "truncate"} /\ Head(todo[p]).call \in {"tag", "show"} =>
          source[p] \in Entries(index.manifests)
    /\ pc[p] \in {"truncate", "write"} /\ Head(todo[p]).call = "delete" =>
          ParsesAsAny(Head(todo[p]).ref)
    /\ pc[p] \in {"truncate", "write"} /\ Head(todo[p]).call = "put" =>
          Head(todo[p]).img \in Listed(mem[p])
    /\ pc[p] # "idle" => ListedFirst(todo[p], Listed(Manifests)) /\ DeletesApart(todo[p])

SerialInv ==
    /\ OneProcess
    /\ AgreeInv
    /\ UniqueNames
    /\ \A ms \in Lists : Anchored(ms)
    /\ \A p \in Proc : Alone(p)

\* Nothing about to be done takes an image from an index.
SubImagesSafe(calls) ==
    \A j \in DOMAIN calls :
       /\ calls[j].call = "add" => calls[j].img \in BuiltIndexes
       /\ Due(calls[j]).call = "delete" /\ Due(calls[j]).ref.spelling = "digest" =>
             \A x \in BuiltIndexes : Due(calls[j]).ref.digest \notin SubManifests[x]

SubInv ==
    /\ SerialInv
    /\ SubImagesStay
    /\ \A ms \in Lists : \A d \in Listed(ms) \cap ImageIndex : d \in BuiltIndexes
    /\ \A d \in Listed(Manifests) \cap ImageIndex : SubManifests[d] \subseteq Listed(Manifests)
    /\ \A p \in Proc : pc[p] # "idle" => SubImagesSafe(todo[p])

\* A list keeps what was told.
Holds(ms, t) ==
    \A k \in Key :
       /\ t[k] = Absent => Entries(ms) \cap KeyMatcher(k) = {}
       /\ t[k] \in Digest => \E e \in Entries(ms) \cap KeyMatcher(k) : e.digest = t[k]

\* What a call changes was not promised, and what it tags fits.
ForeseenCall(x, t) ==
    /\ x.call \in {"put", "add"} => t[x.img] # Absent
    /\ Due(x).call = "delete" =>
          \A k \in Key : {k, t[k]} \cap Mentions(Due(x).ref) = {} \/ t[k] \notin Digest
    /\ Due(x).call = "tag" /\ Pinned(Due(x).dst) =>
          x.call = "tag" /\ x.ref = DigestRef(Pin[x.dst.name])

Foreseen(calls, t) == \A j \in DOMAIN calls : ForeseenCall(calls[j], t)

PromiseInv ==
    /\ SerialInv
    /\ PinsFit
    /\ Readable => Holds(index.manifests, told)
    /\ ~index.exists => \A k \in Key : told[k] = Unknown
    /\ \A p \in Proc :
          /\ pc[p] \in {"truncate", "write"} => Holds(mem[p], Tell(p))
          /\ pc[p] # "idle" => Foreseen(todo[p], told)
          /\ /\ pc[p] \in {"read", "truncate"} /\ Head(todo[p]).call = "tag"
             /\ Pinned(Head(todo[p]).dst)
             => source[p].digest = Pin[Head(todo[p]).dst.name]

-----------------------------------------------------------------------------
(* What the mutations write *)

\* The process is between the read and the write of a mutation.
Mutates(p) ==
    \/ pc[p] \in {"read", "truncate"} /\ Head(todo[p]).call \in {"put", "add", "tag"}
    \/ pc[p] \in {"call", "truncate"} /\ Head(todo[p]).call = "delete"

\* The entries each mutation leaves. Put replaces nothing: its matcher has no size and
\* every entry has one.
LEMMA UpdateEntries ==
    ASSUME AgreeInv, NEW p \in Proc, Mutates(p)
    PROVE  LET c == Head(todo[p])
               old == Entries(index.manifests)
               new == Entries(Update(p))
           IN  /\ Update(p) \in Seq(Descriptor)
               /\ c.call \in {"put", "add"} =>
                     c.img \in StoreImage /\ new = old \cup {ImageDescriptor(c.img)}
               /\ c.call = "tag" =>
                     /\ c.dst.name \in RefName
                     /\ source[p] \in Descriptor
                     /\ new = (old \ Name(c.dst.name))
                                 \cup {[source[p] EXCEPT !.name = c.dst.name]}
               /\ c.call = "delete" => c.ref \in Ref /\ new = old \ ReferenceToMatcher(c.ref)
<1> DEFINE c == Head(todo[p])
           ms == index.manifests
<1>1. TypeInv /\ Shape(p) /\ pc[p] # "idle" /\ ms \in Seq(Descriptor) /\ c \in Call
  BY CurrentCall DEF AgreeInv, TypeInv, TypeOK, Mutates
<1>2. \A e \in Entries(ms) : Whole(e)
  BY DEF AgreeInv, Lists, Entries
<1>3. CASE c.call \in {"put", "add"}
  <2>1. c.img \in StoreImage /\ ImageDescriptor(c.img) \in Descriptor
    BY <1>1, <1>3, CallTypes, DigestAssumption
       DEF StoreImage, ImageDescriptor, Descriptor, MediaTypeOf, MediaType
  <2>2. Entries(ms) \cap PutMatcher(c.img) = {}
    <3>1. \A e \in PutMatcher(c.img) : e.sized = FALSE
      BY DEF PutMatcher, Equal, ImageDescriptor
    <3> QED
      BY <1>2, <3>1 DEF Whole
  <2>3. \/ Update(p) = Replaced(ms, ImageDescriptor(c.img), PutMatcher(c.img))
        \/ Update(p) = Added(ms, ImageDescriptor(c.img))
    BY <1>3 DEF Update
  <2> HIDE DEF c, ms
  <2> QED
    BY <1>1, <1>3, <2>1, <2>2, <2>3, MutationsEntries, MutationsType DEF c, ms
<1>4. CASE c.call = "tag"
  <2>1. c.dst.name \in RefName /\ source[p] \in Descriptor
    BY <1>1, <1>4, CallTypes, RefTypes DEF Shape, Mutates
  <2> DEFINE desc == [source[p] EXCEPT !.name = c.dst.name]
  <2>2. desc \in Descriptor
    BY <2>1 DEF Descriptor
  <2>3. Update(p) = Replaced(ms, desc, Name(c.dst.name))
    BY <1>4 DEF Update, TaggedDescriptor
  <2> HIDE DEF ms, desc
  <2>4. Update(p) \in Seq(Descriptor) /\ Entries(Update(p)) = (Entries(ms) \ Name(c.dst.name)) \cup {desc}
    BY <1>1, <2>2, <2>3, MutationsEntries, MutationsType
  <2> QED
    BY <1>4, <2>1, <2>4 DEF ms, desc
<1>5. CASE c.call = "delete"
  <2>1. Update(p) = Deleted(ms, ReferenceToMatcher(c.ref)) /\ c.ref \in Ref
    BY <1>1, <1>5, CallTypes DEF Update
  <2> HIDE DEF c, ms
  <2> QED
    BY <1>1, <1>5, <2>1, RemainingEntries, DeletedType DEF c, ms, Deleted
<1> QED
  BY <1>3, <1>4, <1>5 DEF Mutates

\* What a reference that parses matches.
LEMMA MatcherCases ==
    ASSUME NEW r \in Ref, ParsesAsAny(r)
    PROVE  \/ /\ r.spelling = "digest" /\ r.digest \in Digest
              /\ Mentions(r) = {r.digest}
              /\ ReferenceToMatcher(r) = Digests({r.digest})
           \/ /\ r.spelling # "digest" /\ r.name \in RefName
              /\ Mentions(r) = {r.name}
              /\ ReferenceToMatcher(r) =
                    IF r.name \in DOMAIN Pin THEN Digests({Pin[r.name]}) \cap Name(r.name)
                    ELSE Name(r.name)
BY DEF Ref, Canonical, Familiar, DigestRef, EmptyRef, Malformed, ParsesAsAny, Mentions,
       ReferenceToMatcher, And

\* Every mutation keeps the anonymous entries of the images that stay listed.
LEMMA UpdateAnchored ==
    ASSUME AgreeInv, NEW p \in Proc, Mutates(p), Anchored(index.manifests),
           Head(todo[p]).call = "tag" => source[p] \in Entries(index.manifests),
           Head(todo[p]).call = "delete" => ParsesAsAny(Head(todo[p]).ref)
    PROVE  Anchored(Update(p))
<1> DEFINE c == Head(todo[p])
           old == Entries(index.manifests)
           new == Entries(Update(p))
<1>1. /\ \A e \in old : e.digest \in StoreImage /\ ImageDescriptor(e.digest) \in old
      /\ \A d : ImageDescriptor(d).digest = d /\ ImageDescriptor(d).name = NoName
  BY DEF Anchored, ImageDescriptor
<1>2. CASE c.call \in {"put", "add"}
  <2>1. c.img \in StoreImage /\ new = old \cup {ImageDescriptor(c.img)}
    BY <1>2, UpdateEntries
  <2> QED
    BY <1>1, <2>1 DEF Anchored
<1>3. CASE c.call = "tag"
  <2> DEFINE n == c.dst.name
             desc == [source[p] EXCEPT !.name = n]
  <2>1. /\ n \in RefName /\ source[p] \in Descriptor /\ source[p] \in old
        /\ new = (old \ Name(n)) \cup {desc}
    BY <1>3, UpdateEntries
  <2>2. desc.digest = source[p].digest
    BY <2>1 DEF Descriptor
  <2>3. \A d : ImageDescriptor(d) \notin Name(n)
    BY <1>1, <2>1, NameAssumption DEF Name
  <2> HIDE DEF n, desc, old, new
  <2>4. \A e \in new : e.digest \in StoreImage /\ ImageDescriptor(e.digest) \in new
    BY <1>1, <2>1, <2>2, <2>3
  <2> QED
    BY <2>4 DEF Anchored, new
<1>4. CASE c.call = "delete"
  <2>1. c.ref \in Ref /\ ParsesAsAny(c.ref) /\ new = old \ ReferenceToMatcher(c.ref)
    BY <1>4, UpdateEntries
  <2>2. ASSUME NEW e \in old, e \in Descriptor, e \notin ReferenceToMatcher(c.ref)
        PROVE  ImageDescriptor(e.digest) \notin ReferenceToMatcher(c.ref)
    <3>1. CASE c.ref.spelling = "digest" /\ ReferenceToMatcher(c.ref) = Digests({c.ref.digest})
      BY <1>1, <2>2, <3>1 DEF Digests
    <3>2. CASE c.ref.name \in RefName /\ ReferenceToMatcher(c.ref) \subseteq Name(c.ref.name)
      BY <1>1, <3>2, NameAssumption DEF Name
    <3> QED
      BY <2>1, <3>1, <3>2, MatcherCases
  <2>3. old \subseteq Descriptor
    BY DEF AgreeInv, TypeInv, TypeOK, Entries
  <2> HIDE DEF old, new
  <2>4. \A e \in new : e.digest \in StoreImage /\ ImageDescriptor(e.digest) \in new
    BY <1>1, <2>1, <2>2, <2>3
  <2> QED
    BY <2>4 DEF Anchored, new
<1> QED
  BY <1>2, <1>3, <1>4 DEF Mutates

-----------------------------------------------------------------------------
(* The list a reader finds *)

\* The list according to a process.
CurrentOf(p) ==
    IF pc[p] = "write" THEN mem[p] ELSE IF Readable THEN index.manifests ELSE <<>>

\* The list a reader finds is that of the only process.
LEMMA AloneManifests ==
    ASSUME OneProcess, NEW p \in Proc
    PROVE  /\ Manifests = CurrentOf(p) /\ Manifests' = CurrentOf(p)'
           /\ Writing # {} <=> pc[p] = "write"
           /\ Writing' # {} <=> pc'[p] = "write"
<1>1. Proc = {p}
  BY DEF OneProcess
<1>2. /\ Writing = IF pc[p] = "write" THEN {p} ELSE {}
      /\ Writing' = IF pc'[p] = "write" THEN {p} ELSE {}
  BY <1>1 DEF Writing
<1>3. (CHOOSE q \in {p} : TRUE) = p
  OBVIOUS
<1> QED
  BY <1>2, <1>3 DEF Manifests, CurrentOf, Readable

\* A file that was truncated cannot be read, one that was truncated before it was
\* written can.
LEMMA EmptyUnreadable ==
    /\ index.manifests = <<>> /\ index.size = 0 => ~Readable
    /\ index'.manifests = <<>> /\ index'.size = 0 => ~Readable'
<1>1. <<>> \in Seq(Descriptor)
  OBVIOUS
<1>2. Bytes(<<>>) \in Nat /\ Bytes(<<>>) > 0
  BY <1>1, BytesType
<1>3. Bytes(<<>>) # 0
  BY <1>2
<1> QED
  BY <1>3 DEF Readable

\* The process that writes the file leaves its list there, and nothing behind it.
LEMMA WrittenList ==
    ASSUME SerialInv, NEW p \in Proc, WriteIndex(p)
    PROVE  /\ pc[p] = "write" /\ pc'[p] \in {"idle", "call"}
           /\ Readable' /\ index'.exists /\ index'.manifests = mem[p]
           /\ Manifests = mem[p] /\ Manifests' = mem[p]
<1>1. /\ OneProcess /\ TypeInv /\ TypeOK /\ Alone(p)
      /\ Manifests = CurrentOf(p) /\ Manifests' = CurrentOf(p)'
  BY AloneManifests DEF SerialInv, AgreeInv, TypeInv
<1>2. pc[p] = "write" /\ index.size = 0 /\ mem[p] \in Seq(Descriptor) /\ Return(p)
  BY <1>1 DEF WriteIndex, Alone, TypeOK
<1>3. pc'[p] \in {"idle", "call"}
  BY <1>1, <1>2, ReturnType
<1>4. Bytes(mem[p]) \in Nat /\ ~(0 > Bytes(mem[p]))
  BY <1>2, BytesType
<1>5. index' = [exists |-> TRUE, manifests |-> mem[p], size |-> Bytes(mem[p])]
  BY <1>2, <1>4 DEF WriteIndex
<1>6. Readable'
  BY <1>5 DEF Readable
<1> QED
  BY <1>1, <1>2, <1>3, <1>5, <1>6 DEF CurrentOf

\* The list changes when a mutation truncates the file, and when the process dies after.
LEMMA ManifestsStep ==
    ASSUME SerialInv, NEW p \in Proc, Acts(p)
    PROVE  \/ /\ Manifests' = Manifests
              /\ (index.exists => Readable \/ pc[p] = "write")
                    = (index'.exists => Readable' \/ pc'[p] = "write")
           \/ /\ Truncate(p) /\ Readable /\ Head(todo[p]).call # "open"
              /\ mem[p] = Update(p)
              /\ Manifests = index.manifests /\ Manifests' = Update(p)
           \/ /\ Exit(p) /\ pc[p] = "write" /\ index.exists
              /\ index'.exists /\ ~Readable' /\ Manifests' = <<>>
<1>1. /\ OneProcess /\ TypeOK /\ Alone(p)
      /\ Manifests = CurrentOf(p) /\ Manifests' = CurrentOf(p)'
  BY AloneManifests DEF SerialInv, AgreeInv, TypeInv
<1>2. CASE index' = index /\ pc[p] # "write" /\ pc'[p] # "write"
  BY <1>1, <1>2 DEF CurrentOf, Readable
<1>3. CASE Exit(p) /\ pc[p] = "write"
  <2>1. pc'[p] = "idle" /\ index' = index
    BY <1>1, <1>3 DEF Exit, TypeOK
  <2>2. ~Readable' /\ index.exists
    BY <1>1, <1>3, <2>1, EmptyUnreadable DEF Alone
  <2> QED
    BY <1>1, <1>3, <2>1, <2>2 DEF CurrentOf
<1>4. CASE Truncate(p)
  <2>1. pc[p] = "truncate" /\ pc'[p] = "write" /\ mem' = mem /\ index'.exists
    BY <1>1, <1>4 DEF Truncate, TypeOK
  <2>2. Manifests' = mem[p]
    BY <1>1, <2>1 DEF CurrentOf
  <2>3. CASE Head(todo[p]).call = "open"
    <3>1. ~index.exists /\ mem[p] = <<>> /\ ~Readable
      BY <1>1, <2>1, <2>3 DEF Alone, Readable
    <3> QED
      BY <1>1, <2>1, <2>2, <3>1 DEF CurrentOf
  <2>4. CASE Head(todo[p]).call # "open"
    <3>1. Readable /\ mem[p] = Update(p)
      BY <1>1, <2>1, <2>4 DEF Alone
    <3> QED
      BY <1>1, <1>4, <2>1, <2>2, <2>4, <3>1 DEF CurrentOf
  <2> QED
    BY <2>3, <2>4
<1>5. CASE WriteIndex(p)
  BY <1>5, WrittenList
<1>6. CASE Exit(p) /\ pc[p] # "write"
  BY <1>1, <1>2, <1>6 DEF Exit, TypeOK
<1>7. CASE OpenExisting(p) \/ ReadImage(p)
  BY <1>1, <1>2, <1>7 DEF OpenExisting, ReadImage, Return, Calls, TypeOK
<1>8. CASE \/ \E c \in Commands : Start(p, c)
           \/ OpenMissing(p) \/ BeginPut(p) \/ BeginAddIndexManifest(p) \/ WriteBlob(p)
           \/ FuzzyKeep(p) \/ FuzzyLookup(p) \/ ResolveDescriptor(p) \/ ReadIndex(p)
  BY <1>1, <1>2, <1>8 DEF Start, OpenMissing, BeginPut, BeginAddIndexManifest, WriteBlob,
     FuzzyKeep, FuzzyLookup, ResolveDescriptor, ReadIndex, Calls, TypeOK
<1> QED
  BY <1>3, <1>4, <1>5, <1>6, <1>7, <1>8 DEF Acts, Step, Stop, ReturnError

-----------------------------------------------------------------------------
(* The calls of a command *)

CallsOf(c) ==
    CASE c.do = "build" ->
            {Open, AddIndexManifest(c.index), Tag(DigestRef(c.index), c.ref)}
               \cup {Put(c.archs[i].img) : i \in DOMAIN c.archs}
               \cup {Tag(DigestRef(c.archs[i].img), c.archs[i].ref) : i \in DOMAIN c.archs}
      [] c.do = "tag" -> {Open, Fuzzy(Tag(c.src, c.ref))}
      [] c.do = "delete" -> {Open, Delete(c.ref), Fuzzy(Delete(c.ref))}
      [] c.do = "pull" -> {Open, Put(c.img), Tag(DigestRef(c.img), c.ref)}
      [] c.do = "inspect" -> {Open, Fuzzy(Show(c.ref))}

\* A command makes no other calls.
LEMMA ScriptCalls ==
    ASSUME NEW c \in Commands
    PROVE  Script(c) \in Seq(CallsOf(c))
<1> c \in Command
  BY CommandAssumption
<1>1. CASE c.do = "build"
  <2> DEFINE archs == c.archs
             S == CallsOf(c)
  <2>1. archs \in Seq(ArchImage)
    BY <1>1 DEF Command
  <2>2. /\ Open \in S /\ AddIndexManifest(c.index) \in S /\ Tag(DigestRef(c.index), c.ref) \in S
        /\ \A i \in DOMAIN archs :
              Put(archs[i].img) \in S /\ Tag(DigestRef(archs[i].img), archs[i].ref) \in S
    BY <1>1 DEF CallsOf
  <2> HIDE DEF S, archs
  <2>3. ArchCalls(archs) \in Seq(S)
    <3>1. Len(archs) \in Nat /\ DOMAIN archs = 1 .. Len(archs) /\ 2 * Len(archs) \in Nat
      BY <2>1
    <3>2. ASSUME NEW k \in 1 .. (2 * Len(archs))
          PROVE  ArchCalls(archs)[k] \in S
      <4>1. (k + 1) \div 2 \in DOMAIN archs /\ 2 - (k % 2) \in {1, 2}
        BY <3>1
      <4> DEFINE a == archs[(k + 1) \div 2]
      <4>2. ArchCalls(archs)[k] = Push(a.img, a.ref)[2 - (k % 2)]
        BY <3>1 DEF ArchCalls
      <4>3. /\ Push(a.img, a.ref)[1] = Put(a.img)
            /\ Push(a.img, a.ref)[2] = Tag(DigestRef(a.img), a.ref)
        BY DEF Push
      <4>4. Put(a.img) \in S /\ Tag(DigestRef(a.img), a.ref) \in S
        BY <2>2, <4>1
      <4> HIDE DEF a
      <4> QED
        BY <4>1, <4>2, <4>3, <4>4
    <3> QED
      BY <3>1, <3>2 DEF ArchCalls
  <2>4. PushIndexManifest(c.index, c.ref) \in Seq(S)
    BY <2>2 DEF PushIndexManifest
  <2>5. ArchCalls(archs) \o PushIndexManifest(c.index, c.ref) \in Seq(S)
    BY <2>3, <2>4
  <2> QED
    BY <1>1, <2>2, <2>5 DEF Script, BuildScript, S, archs
<1>2. ASSUME NEW S, NEW x \in S, NEW y \in S, NEW z \in S
      PROVE  <<x>> \o <<y>> \in Seq(S) /\ <<x>> \o <<y, z>> \in Seq(S)
  OBVIOUS
<1>3. CASE c.do = "tag"
  BY <1>2, <1>3 DEF Script, CallsOf, TagScript
<1>4. CASE c.do = "delete"
  BY <1>2, <1>4 DEF Script, CallsOf, DeleteScript
<1>5. CASE c.do = "pull"
  BY <1>2, <1>5 DEF Script, CallsOf, PullScript, Push
<1>6. CASE c.do = "inspect"
  BY <1>2, <1>6 DEF Script, CallsOf, InspectScript
<1> QED
  BY <1>1, <1>3, <1>4, <1>5, <1>6 DEF Command

\* The positions of a list of calls, of what is left after the first, and of the list
\* with another call in its place.
LEMMA Positions ==
    ASSUME NEW calls \in Seq(Call), calls # <<>>
    PROVE  /\ 1 \in DOMAIN calls /\ calls[1] = Head(calls)
           /\ DOMAIN calls \subseteq Nat \ {0}
           /\ \A j \in DOMAIN Tail(calls) :
                 j \in Nat /\ j + 1 \in DOMAIN calls /\ Tail(calls)[j] = calls[j + 1]
           /\ \A n \in Call :
                 /\ DOMAIN (<<n>> \o Tail(calls)) = DOMAIN calls
                 /\ (<<n>> \o Tail(calls))[1] = n
                 /\ \A j \in DOMAIN calls : j # 1 => (<<n>> \o Tail(calls))[j] = calls[j]
<1>1. /\ Len(calls) \in Nat /\ Len(calls) # 0 /\ DOMAIN calls = 1 .. Len(calls)
      /\ Head(calls) = calls[1]
      /\ Tail(calls) \in Seq(Call) /\ Len(Tail(calls)) = Len(calls) - 1
      /\ DOMAIN Tail(calls) = 1 .. (Len(calls) - 1)
      /\ \A i \in 1 .. (Len(calls) - 1) : Tail(calls)[i] = calls[i + 1]
  BY HeadTailProperties, EmptySeq
<1>2. \A j \in DOMAIN Tail(calls) :
         j \in Nat /\ j + 1 \in DOMAIN calls /\ Tail(calls)[j] = calls[j + 1]
  BY <1>1
<1>3. ASSUME NEW n \in Call
      PROVE  /\ DOMAIN (<<n>> \o Tail(calls)) = DOMAIN calls
             /\ (<<n>> \o Tail(calls))[1] = n
             /\ \A j \in DOMAIN calls : j # 1 => (<<n>> \o Tail(calls))[j] = calls[j]
  <2> DEFINE new == <<n>> \o Tail(calls)
  <2>1. /\ DOMAIN new = 1 .. Len(calls) /\ new[1] = n
        /\ \A j \in 2 .. Len(calls) : new[j] = Tail(calls)[j - 1]
    BY <1>1
  <2>2. ASSUME NEW j \in DOMAIN calls, j # 1
        PROVE  new[j] = calls[j]
    <3>1. j \in 2 .. Len(calls) /\ j - 1 \in 1 .. (Len(calls) - 1) /\ (j - 1) + 1 = j
      BY <1>1, <2>2
    <3> HIDE DEF new
    <3> QED
      BY <1>1, <2>1, <3>1
  <2> QED
    BY <1>1, <2>1, <2>2
<1> QED
  BY <1>1, <1>2, <1>3

\* build lists the images of an index before the index and deletes nothing.
LEMMA ScriptListedFirst ==
    ASSUME NEW c \in Commands, NEW listed
    PROVE  ListedFirst(Script(c), listed)
<1> DEFINE calls == Script(c)
<1>1. \A k \in DOMAIN calls : calls[k] \in CallsOf(c)
  BY ScriptCalls
<1>2. c \in Command
  BY CommandAssumption
<1>3. ASSUME NEW j \in DOMAIN calls, calls[j].call = "add"
      PROVE  c.do = "build"
  BY <1>1, <1>2, <1>3 DEF CallsOf, Command, Open, Put, Tag, Delete, Fuzzy
<1>4. ASSUME c.do = "build", NEW k \in DOMAIN calls
      PROVE  calls[k].call \notin {"delete", "fuzzy"}
  BY <1>1, <1>4 DEF CallsOf, Open, Put, Tag, AddIndexManifest
<1>5. ASSUME NEW j \in DOMAIN calls, calls[j].call = "add", NEW d \in SubManifests[calls[j].img]
      PROVE  \E k \in 1 .. (j - 1) : calls[k] = Put(d)
  <2>1. WrittenBlobs(d) # {}
    BY DEF WrittenBlobs
  <2>2. ImagesFirst(calls, {})
    BY ScriptImagesFirst
  <2> QED
    BY <1>5, <2>1, <2>2 DEF ImagesFirst
<1> QED
  BY <1>3, <1>4, <1>5 DEF ListedFirst

\* delete tries the reference as it is before it tries a prefix.
LEMMA ScriptDeletesApart ==
    ASSUME NEW c \in Commands
    PROVE  DeletesApart(Script(c))
<1> DEFINE calls == Script(c)
<1>1. \A k \in DOMAIN calls : calls[k] \in CallsOf(c)
  BY ScriptCalls
<1>2. c \in Command
  BY CommandAssumption
<1>3. CASE c.do # "delete"
  <2>1. \A k \in DOMAIN calls : Due(calls[k]).call # "delete"
    BY <1>1, <1>2, <1>3
       DEF CallsOf, Command, Open, Put, Tag, AddIndexManifest, Fuzzy, Show, Due
  <2> QED
    BY <2>1 DEF DeletesApart
<1>4. CASE c.do = "delete"
  <2>1. calls = <<Open>> \o <<Delete(c.ref), Fuzzy(Delete(c.ref))>>
    BY <1>4 DEF Script, DeleteScript
  <2>2. /\ DOMAIN calls = {1, 2, 3}
        /\ calls[1] = Open /\ calls[2] = Delete(c.ref) /\ calls[3] = Fuzzy(Delete(c.ref))
    BY <2>1
  <2>3. \A k \in DOMAIN calls : Due(calls[k]).call # "tag"
    BY <2>2 DEF Open, Delete, Fuzzy, Due
  <2>4. \A k \in DOMAIN calls : calls[k].call = "fuzzy" => k = 3 /\ calls[3].next.ref = c.ref
    BY <2>2 DEF Open, Delete, Fuzzy
  <2>5. calls[2].call = "delete" /\ calls[2].ref = c.ref /\ 2 \in 1 .. (3 - 1)
    BY <2>2 DEF Delete
  <2> HIDE DEF calls
  <2> QED
    BY <2>3, <2>4, <2>5 DEF DeletesApart, calls
<1> QED
  BY <1>3, <1>4

\* A call that is done may be forgotten.
LEMMA DoneListedFirst ==
    ASSUME NEW calls \in Seq(Call), calls # <<>>, NEW old, NEW new, ListedFirst(calls, old),
           Head(calls).call # "delete" => old \subseteq new,
           Head(calls).call = "put" => Head(calls).img \in new
    PROVE  ListedFirst(Tail(calls), new)
<1> DEFINE rest == Tail(calls)
<1> HIDE DEF rest
<1>1. /\ 1 \in DOMAIN calls /\ calls[1] = Head(calls) /\ DOMAIN calls \subseteq Nat \ {0}
      /\ \A j \in DOMAIN rest : j \in Nat /\ j + 1 \in DOMAIN calls /\ rest[j] = calls[j + 1]
  BY Positions DEF rest
<1> SUFFICES ASSUME NEW j \in DOMAIN rest, rest[j].call = "add"
             PROVE  /\ \A d \in SubManifests[rest[j].img] :
                          d \in new \/ \E k \in 1 .. (j - 1) : rest[k] = Put(d)
                    /\ \A k \in DOMAIN rest : rest[k].call \notin {"delete", "fuzzy"}
  BY DEF ListedFirst, rest
<1>2. /\ \A d \in SubManifests[rest[j].img] : d \in old \/ \E k \in 1 .. j : calls[k] = Put(d)
      /\ \A k \in DOMAIN calls : calls[k].call \notin {"delete", "fuzzy"}
  BY <1>1 DEF ListedFirst
<1>3. \A k \in DOMAIN rest : rest[k].call \notin {"delete", "fuzzy"}
  BY <1>1, <1>2
<1>4. ASSUME NEW d \in SubManifests[rest[j].img], d \notin new
      PROVE  \E k \in 1 .. (j - 1) : rest[k] = Put(d)
  <2>1. PICK k \in 1 .. j : calls[k] = Put(d)
    BY <1>1, <1>2, <1>4
  <2>2. k # 1
    BY <1>1, <1>4, <2>1 DEF Put
  <2>3. k - 1 \in 1 .. (j - 1) /\ (k - 1) + 1 = k
    BY <1>1, <2>2
  <2>4. k - 1 \in DOMAIN rest
    BY <1>1, <2>3, HeadTailProperties DEF rest
  <2>5. rest[k - 1] = Put(d)
    BY <1>1, <2>1, <2>3, <2>4
  <2> QED
    BY <2>3, <2>5
<1> QED
  BY <1>3, <1>4

\* So may a delete, once its reference parsed.
LEMMA DoneDeletesApart ==
    ASSUME NEW calls \in Seq(Call), calls # <<>>, DeletesApart(calls),
           Head(calls).call = "delete" => ParsesAsAny(Head(calls).ref)
    PROVE  DeletesApart(Tail(calls))
<1> DEFINE rest == Tail(calls)
<1> HIDE DEF rest
<1>1. /\ 1 \in DOMAIN calls /\ calls[1] = Head(calls) /\ DOMAIN calls \subseteq Nat \ {0}
      /\ \A j \in DOMAIN rest : j \in Nat /\ j + 1 \in DOMAIN calls /\ rest[j] = calls[j + 1]
  BY Positions DEF rest
<1> SUFFICES ASSUME NEW j \in DOMAIN rest, Due(rest[j]).call = "delete"
             PROVE  /\ \A k \in DOMAIN rest : Due(rest[k]).call # "tag"
                    /\ rest[j].call = "fuzzy" /\ ~ParsesAsAny(rest[j].next.ref)
                          => \E k \in 1 .. (j - 1) :
                                rest[k].call = "delete" /\ ~ParsesAsAny(rest[k].ref)
  BY DEF DeletesApart, rest
<1>2. /\ \A k \in DOMAIN calls : Due(calls[k]).call # "tag"
      /\ rest[j].call = "fuzzy" /\ ~ParsesAsAny(rest[j].next.ref)
            => \E k \in 1 .. j : calls[k].call = "delete" /\ ~ParsesAsAny(calls[k].ref)
  BY <1>1 DEF DeletesApart
<1>3. ASSUME rest[j].call = "fuzzy", ~ParsesAsAny(rest[j].next.ref)
      PROVE  \E k \in 1 .. (j - 1) : rest[k].call = "delete" /\ ~ParsesAsAny(rest[k].ref)
  <2>1. PICK k \in 1 .. j : calls[k].call = "delete" /\ ~ParsesAsAny(calls[k].ref)
    BY <1>2, <1>3
  <2>2. k # 1
    BY <1>1, <2>1
  <2>3. k - 1 \in 1 .. (j - 1) /\ (k - 1) + 1 = k
    BY <1>1, <2>2
  <2>4. k - 1 \in DOMAIN rest
    BY <1>1, <2>3, HeadTailProperties DEF rest
  <2> QED
    BY <1>1, <2>1, <2>3, <2>4
<1> QED
  BY <1>1, <1>2, <1>3

\* What FuzzyResolveRef leaves: the call it prepared, with a digest for a reference
\* that does not parse.
LEMMA FuzzyResult ==
    ASSUME TypeInv, NEW p \in Proc, FuzzyKeep(p) \/ FuzzyLookup(p)
    PROVE  LET c == Head(todo[p])
           IN  /\ c.call = "fuzzy" /\ pc[p] = "call" /\ c.next \in RefCall
               /\ \E n \in RefCall :
                     /\ todo'[p] = <<n>> \o Tail(todo[p])
                     /\ n.call = c.next.call
                     /\ n.call = "tag" => n.dst = c.next.dst
                     /\ \/ n = c.next /\ ParsesAsAny(n.ref)
                        \/ /\ ~ParsesAsAny(c.next.ref)
                           /\ \E d \in Digest : n = [c.next EXCEPT !.ref = DigestRef(d)]
<1> DEFINE c == Head(todo[p])
<1>1. c.call = "fuzzy" /\ pc[p] = "call" /\ c.next \in RefCall
  BY CurrentCall, CallTypes DEF FuzzyKeep, FuzzyLookup, Calls
<1>2. todo \in [Proc -> Seq(Call)]
  BY DEF TypeInv, TypeOK
<1>3. CASE FuzzyKeep(p)
  <2>1. todo'[p] = <<c.next>> \o Tail(todo[p])
    BY <1>2, <1>3 DEF FuzzyKeep
  <2> QED
    BY <1>1, <1>3, <2>1 DEF FuzzyKeep
<1>4. CASE FuzzyLookup(p)
  <2>1. PICK i \in FirstMatch(index.manifests, EncodedDigestPrefix(c.next.ref)) :
           todo' = [todo EXCEPT ![p] =
                      <<[Head(@).next EXCEPT !.ref = DigestRef(index.manifests[i].digest)]>>
                          \o Tail(@)]
    BY <1>4 DEF FuzzyLookup
  <2>2. index.manifests \in Seq(Descriptor) /\ i \in DOMAIN index.manifests
    BY DEF TypeInv, TypeOK, FirstMatch
  <2>3. index.manifests[i] \in Descriptor
    BY <2>2
  <2> DEFINE d == index.manifests[i].digest
             n == [c.next EXCEPT !.ref = DigestRef(d)]
  <2>4. d \in Digest
    BY <2>3 DEF Descriptor
  <2>5. n \in RefCall
    BY <1>1, <2>4, RefCallTypes
  <2>6. todo'[p] = <<n>> \o Tail(todo[p])
    BY <1>2, <2>1
  <2>7. ~ParsesAsAny(c.next.ref)
    BY <1>4 DEF FuzzyLookup
  <2>8. n.call = c.next.call /\ (n.call = "tag" => n.dst = c.next.dst)
    BY <1>1 DEF RefCall, Tag, Delete, Show
  <2> HIDE DEF c, n, d
  <2> QED
    BY <1>1, <2>4, <2>5, <2>6, <2>7, <2>8 DEF n, c
<1> QED
  BY <1>3, <1>4

\* The resolved call changes nothing about adds and deletes.
LEMMA FuzzyKeepsOrder ==
    ASSUME NEW calls \in Seq(Call), calls # <<>>, Head(calls).call = "fuzzy",
           NEW listed, ListedFirst(calls, listed), DeletesApart(calls),
           NEW n \in RefCall, n.call = Head(calls).next.call
    PROVE  ListedFirst(<<n>> \o Tail(calls), listed) /\ DeletesApart(<<n>> \o Tail(calls))
<1> DEFINE new == <<n>> \o Tail(calls)
<1> HIDE DEF new
<1>1. n \in Call /\ n.call \in {"tag", "delete", "show"}
  BY RefCallTypes
<1>2. /\ 1 \in DOMAIN calls /\ calls[1] = Head(calls) /\ DOMAIN calls \subseteq Nat \ {0}
      /\ DOMAIN new = DOMAIN calls /\ new[1] = n
      /\ \A j \in DOMAIN calls : j # 1 => new[j] = calls[j]
  BY <1>1, Positions DEF new
<1>3. ListedFirst(new, listed)
  BY <1>1, <1>2 DEF ListedFirst
<1>4. \A j \in DOMAIN calls : Due(new[j]).call = Due(calls[j]).call
  BY <1>1, <1>2 DEF Due
<1>5. DeletesApart(new)
  <2> SUFFICES ASSUME NEW j \in DOMAIN new, Due(new[j]).call = "delete",
                      new[j].call = "fuzzy", ~ParsesAsAny(new[j].next.ref)
               PROVE  \E k \in 1 .. (j - 1) : new[k].call = "delete" /\ ~ParsesAsAny(new[k].ref)
    BY <1>2, <1>4 DEF DeletesApart
  <2>1. j # 1 /\ j \in DOMAIN calls /\ new[j] = calls[j]
    BY <1>1, <1>2
  <2>2. PICK k \in 1 .. (j - 1) : calls[k].call = "delete" /\ ~ParsesAsAny(calls[k].ref)
    BY <1>4, <2>1 DEF DeletesApart
  <2>3. k # 1
    BY <1>2, <2>2
  <2>4. k \in DOMAIN calls
    <3>1. DOMAIN calls = 1 .. Len(calls) /\ Len(calls) \in Nat
      OBVIOUS
    <3> QED
      BY <2>1, <3>1
  <2> QED
    BY <1>2, <2>2, <2>3, <2>4
<1> QED
  BY <1>3, <1>5 DEF new

\* Which images a mutation leaves listed.
LEMMA UpdateListed ==
    ASSUME AgreeInv, NEW p \in Proc, Mutates(p), Anchored(index.manifests),
           Head(todo[p]).call = "tag" => source[p] \in Entries(index.manifests),
           Head(todo[p]).call = "delete" => ParsesAsAny(Head(todo[p]).ref)
    PROVE  LET c == Head(todo[p])
               old == Listed(index.manifests)
               new == Listed(Update(p))
           IN  /\ c.call \in {"put", "add"} => new = old \cup {c.img}
               /\ c.call = "tag" => new = old
               /\ c.call = "delete" /\ c.ref.spelling = "digest" => new = old \ {c.ref.digest}
               /\ c.call = "delete" /\ c.ref.spelling # "digest" => new = old
<1> DEFINE c == Head(todo[p])
           old == Entries(index.manifests)
           new == Entries(Update(p))
<1>1. /\ \A e \in old : ImageDescriptor(e.digest) \in old
      /\ \A d : ImageDescriptor(d).digest = d /\ ImageDescriptor(d).name = NoName
      /\ old \subseteq Descriptor
  <2>1. old \subseteq Descriptor
    BY DEF AgreeInv, TypeInv, TypeOK, Entries
  <2> QED
    BY <2>1 DEF Anchored, ImageDescriptor
<1>2. CASE c.call \in {"put", "add"}
  <2>1. new = old \cup {ImageDescriptor(c.img)}
    BY <1>2, UpdateEntries
  <2> QED
    BY <1>1, <1>2, <2>1 DEF Listed
<1>3. ASSUME NEW n \in RefName, old \ Name(n) \subseteq new
      PROVE  Listed(index.manifests) \subseteq Listed(Update(p))
  <2>1. \A d : ImageDescriptor(d) \notin Name(n)
    BY <1>1, NameAssumption DEF Name
  <2> HIDE DEF old, new
  <2>2. \A e \in old : ImageDescriptor(e.digest) \in new
    BY <1>1, <1>3, <2>1
  <2> QED
    BY <1>1, <2>2 DEF Listed, old, new
<1>4. CASE c.call = "tag"
  <2> DEFINE n == c.dst.name
             desc == [source[p] EXCEPT !.name = n]
  <2>1. /\ n \in RefName /\ source[p] \in Descriptor /\ source[p] \in old
        /\ new = (old \ Name(n)) \cup {desc}
    BY <1>4, UpdateEntries
  <2>2. desc.digest = source[p].digest
    BY <2>1 DEF Descriptor
  <2> HIDE DEF n, desc, old, new
  <2>3. Listed(index.manifests) \subseteq Listed(Update(p))
    BY <1>3, <2>1
  <2>4. Listed(Update(p)) \subseteq Listed(index.manifests)
    BY <2>1, <2>2 DEF Listed, old, new
  <2> QED
    BY <1>4, <2>3, <2>4
<1>5. CASE c.call = "delete"
  <2>1. c.ref \in Ref /\ ParsesAsAny(c.ref) /\ new = old \ ReferenceToMatcher(c.ref)
    BY <1>5, UpdateEntries
  <2>2. CASE c.ref.spelling = "digest" /\ ReferenceToMatcher(c.ref) = Digests({c.ref.digest})
    <3>1. new = {e \in old : e.digest # c.ref.digest}
      BY <1>1, <2>1, <2>2 DEF Digests
    <3> HIDE DEF old, new
    <3> QED
      BY <1>5, <2>2, <3>1 DEF Listed, old, new
  <2>3. CASE /\ c.ref.spelling # "digest" /\ c.ref.name \in RefName
             /\ ReferenceToMatcher(c.ref) \subseteq Name(c.ref.name)
    <3>1. Listed(index.manifests) \subseteq Listed(Update(p))
      BY <1>3, <2>1, <2>3
    <3>2. Listed(Update(p)) \subseteq Listed(index.manifests)
      BY <2>1 DEF Listed
    <3> QED
      BY <1>5, <2>3, <3>1, <3>2
  <2> QED
    BY <2>1, <2>2, <2>3, MatcherCases
<1> QED
  BY <1>2, <1>4, <1>5 DEF Mutates

-----------------------------------------------------------------------------
(* The invariant of one process *)

\* A process between two calls, or none.
LEMMA IdleOrCallAlone ==
    ASSUME NEW p \in Proc, pc'[p] \in {"idle", "call"},
           pc'[p] = "call" => ListedFirst(todo'[p], Listed(Manifests')) /\ DeletesApart(todo'[p])
    PROVE  Alone(p)'
BY DEF Alone

\* A call that returns.
LEMMA ReturnAlone ==
    ASSUME SerialInv, NEW p \in Proc, pc[p] # "idle", Return(p),
           Head(todo[p]).call = "delete" => ParsesAsAny(Head(todo[p]).ref),
           Head(todo[p]).call = "put" => Head(todo[p]).img \in Listed(Manifests),
           Manifests' = Manifests
    PROVE  Alone(p)'
<1>1. TypeInv /\ Alone(p)
  BY DEF SerialInv, AgreeInv
<1>2. todo[p] \in Seq(Call) /\ todo[p] # <<>>
  BY <1>1, CurrentCall
<1>3. pc'[p] \in {"idle", "call"} /\ todo'[p] = Tail(todo[p])
  BY <1>1, ReturnType
<1>4. ListedFirst(todo[p], Listed(Manifests)) /\ DeletesApart(todo[p])
  BY <1>1 DEF Alone
<1>5. ListedFirst(Tail(todo[p]), Listed(Manifests')) /\ DeletesApart(Tail(todo[p]))
  BY <1>2, <1>4, DoneListedFirst, DoneDeletesApart
<1> QED
  BY <1>3, <1>5, IdleOrCallAlone

\* What the only process knows of the file stays true whatever it does next.
LEMMA StepAlone ==
    ASSUME SerialInv, NEW p \in Proc, Acts(p)
    PROVE  Alone(p)'
<1> DEFINE c == Head(todo[p])
           Order(listed) == ListedFirst(todo[p], listed) /\ DeletesApart(todo[p])
<1>1. /\ TypeInv /\ TypeOK /\ Shape(p) /\ Alone(p) /\ Anchored(index.manifests)
      /\ Manifests = CurrentOf(p) /\ Manifests' = CurrentOf(p)'
  BY AloneManifests DEF SerialInv, AgreeInv, TypeInv, Lists
<1>2. pc[p] # "idle" => Order(Listed(Manifests))
  BY <1>1 DEF Alone
<1>3. CASE \E cmd \in Commands : Start(p, cmd)
  <2>1. PICK cmd \in Commands : Start(p, cmd)
    BY <1>3
  <2>2. pc'[p] = "call" /\ todo'[p] = Script(cmd)
    BY <1>1, <2>1 DEF Start, TypeOK
  <2> QED
    BY <2>2, IdleOrCallAlone, ScriptListedFirst, ScriptDeletesApart
<1>4. CASE Exit(p)
  <2>1. pc'[p] = "idle"
    BY <1>1, <1>4 DEF Exit, TypeOK
  <2> QED
    BY <2>1, IdleOrCallAlone
<1>5. CASE OpenExisting(p) \/ ReadImage(p)
  <2>1. Return(p) /\ index' = index /\ pc[p] \in {"call", "read"} /\ c.call \in {"open", "show"}
    BY <1>5 DEF OpenExisting, ReadImage, Calls
  <2>2. pc'[p] \in {"idle", "call"}
    BY <1>1, <2>1, ReturnType
  <2>3. Manifests' = Manifests
    BY <1>1, <2>1, <2>2 DEF CurrentOf, Readable
  <2> QED
    BY <2>1, <2>3, ReturnAlone
<1>6. CASE WriteIndex(p)
  <2>1. pc[p] = "write" /\ Manifests = mem[p] /\ Manifests' = mem[p] /\ Return(p)
    BY <1>6, WrittenList DEF WriteIndex
  <2> QED
    BY <1>1, <2>1, ReturnAlone DEF Alone
<1>7. CASE OpenMissing(p)
  <2>1. /\ pc[p] = "call" /\ c.call = "open" /\ pc'[p] = "truncate" /\ ~index.exists
        /\ index' = index /\ todo' = todo /\ mem'[p] = <<>>
    BY <1>1, <1>7 DEF OpenMissing, Calls, TypeOK
  <2>2. Manifests' = Manifests
    BY <1>1, <2>1 DEF CurrentOf, Readable
  <2> QED
    BY <1>2, <2>1, <2>2 DEF Alone
<1>8. CASE BeginPut(p) \/ BeginAddIndexManifest(p) \/ WriteBlob(p)
  <2>1. /\ pc[p] \in {"call", "blobs"} /\ pc'[p] \in {"blobs", "read"}
        /\ pc'[p] = "read" => c.call \in {"put", "add"}
        /\ index' = index /\ todo' = todo
    BY <1>1, <1>8 DEF BeginPut, BeginAddIndexManifest, WriteBlob, Calls, TypeOK, Shape
  <2>2. Manifests' = Manifests
    BY <1>1, <2>1 DEF CurrentOf, Readable
  <2> QED
    BY <1>2, <2>1, <2>2 DEF Alone
<1>9. CASE FuzzyKeep(p) \/ FuzzyLookup(p)
  <2>1. pc[p] = "call" /\ pc' = pc /\ index' = index /\ c.call = "fuzzy"
    BY <1>9 DEF FuzzyKeep, FuzzyLookup, Calls
  <2>2. Manifests' = Manifests
    BY <1>1, <2>1 DEF CurrentOf, Readable
  <2>3. PICK n \in RefCall : todo'[p] = <<n>> \o Tail(todo[p]) /\ n.call = c.next.call
    BY <1>1, <1>9, FuzzyResult
  <2>4. todo[p] \in Seq(Call) /\ todo[p] # <<>>
    BY <1>1, <2>1, CurrentCall
  <2>5. ListedFirst(todo'[p], Listed(Manifests')) /\ DeletesApart(todo'[p])
    BY <1>2, <2>1, <2>2, <2>3, <2>4, FuzzyKeepsOrder
  <2> QED
    BY <2>1, <2>5, IdleOrCallAlone
<1>10. CASE ResolveDescriptor(p)
  <2>1. PICK i \in FirstMatch(index.manifests, ReferenceToMatcher(c.ref)) :
           source' = [source EXCEPT ![p] = index.manifests[i]]
    BY <1>10 DEF ResolveDescriptor
  <2>2. source'[p] = index.manifests[i] /\ i \in DOMAIN index.manifests
    BY <1>1, <2>1 DEF TypeOK, FirstMatch
  <2>3. pc[p] = "call" /\ pc'[p] = "read" /\ index' = index /\ todo' = todo
    BY <1>1, <1>10 DEF ResolveDescriptor, Calls, TypeOK
  <2>4. Manifests' = Manifests
    BY <1>1, <2>3 DEF CurrentOf, Readable
  <2> QED
    BY <1>2, <2>2, <2>3, <2>4 DEF Alone, Entries
<1>11. CASE ReadIndex(p)
  <2>1. /\ pc[p] \in {"call", "read"} /\ pc'[p] = "truncate" /\ Readable /\ Mutates(p)
        /\ index' = index /\ todo' = todo /\ source' = source /\ mem'[p] = Update(p)
        /\ c.call \in {"put", "add", "tag", "delete"}
        /\ c.call = "tag" => pc[p] = "read"
        /\ c.call = "delete" => ParsesAsAny(c.ref)
    BY <1>1, <1>11 DEF ReadIndex, Calls, TypeOK, Mutates, Shape
  <2>2. Update(p)' = Update(p)
    BY <2>1 DEF Update
  <2>3. Manifests' = Manifests
    BY <1>1, <2>1 DEF CurrentOf, Readable
  <2>4. c.call = "tag" => source[p] \in Entries(index.manifests)
    BY <1>1, <2>1 DEF Alone
  <2>5. c.call = "put" => c.img \in Listed(mem'[p])
    BY <1>1, <2>1, <2>4, UpdateListed DEF SerialInv
  <2>6. Readable'
    BY <2>1 DEF Readable
  <2> QED
    BY <1>2, <2>1, <2>2, <2>3, <2>4, <2>5, <2>6 DEF Alone
<1>12. CASE Truncate(p)
  <2>1. /\ pc[p] = "truncate" /\ pc'[p] = "write" /\ mem' = mem /\ todo' = todo
        /\ index'.exists /\ index'.manifests = <<>> /\ index'.size = 0
    BY <1>1, <1>12 DEF Truncate, TypeOK
  <2>2. ListedFirst(todo[p], Listed(Manifests'))
    <3>1. CASE c.call = "open"
      <4>1. Manifests' = <<>> /\ Manifests = <<>>
        BY <1>1, <2>1, <3>1 DEF CurrentOf, Alone, Readable
      <4> QED
        BY <1>2, <2>1, <4>1
    <3>2. CASE c.call # "open"
      <4>1. Readable /\ mem[p] = Update(p) /\ Manifests' = Update(p) /\ Manifests = index.manifests
        BY <1>1, <2>1, <3>2 DEF CurrentOf, Alone
      <4>2. /\ c.call \in {"put", "add", "tag", "delete"} /\ Mutates(p)
            /\ c.call = "tag" => source[p] \in Entries(index.manifests)
            /\ c.call = "delete" => ParsesAsAny(c.ref)
        BY <1>1, <2>1, <3>2 DEF Shape, Mutates, Alone
      <4>3. c.call # "delete" => Listed(Manifests) \subseteq Listed(Manifests')
        BY <1>1, <4>1, <4>2, UpdateListed DEF SerialInv
      <4>4. todo[p] \in Seq(Call) /\ todo[p] # <<>>
        BY <1>1, <2>1, CurrentCall
      <4>5. 1 \in DOMAIN todo[p] /\ todo[p][1] = c
        BY <4>4, Positions
      <4> HIDE DEF c
      <4>6. CASE c.call = "delete"
        BY <1>2, <2>1, <4>5, <4>6 DEF ListedFirst
      <4>7. CASE c.call # "delete"
        BY <1>2, <2>1, <4>3, <4>7 DEF ListedFirst
      <4> QED
        BY <4>6, <4>7
    <3> QED
      BY <3>1, <3>2
  <2> QED
    BY <1>1, <1>2, <2>1, <2>2 DEF Alone
<1> QED
  BY <1>3, <1>4, <1>5, <1>6, <1>7, <1>8, <1>9, <1>10, <1>11, <1>12
     DEF Acts, Step, Stop, ReturnError

\* The invariants of any number of processes hold at first.
LEMMA InitAgreeInv == Init => AgreeInv /\ UniqueNames
<1> SUFFICES ASSUME Init PROVE AgreeInv /\ UniqueNames
  OBVIOUS
<1>1. TypeInv /\ NoDescriptor \notin Descriptor
  BY InitTypeInv, SentinelAssumption
<1> QED
  BY <1>1 DEF AgreeInv, UniqueNames, NoDuplicateName, Init, Lists

\* So does the invariant of one process.
LEMMA InitSerialInv == OneProcess /\ Init => SerialInv
<1> SUFFICES ASSUME OneProcess, Init PROVE SerialInv
  OBVIOUS
<1>1. \A ms \in Lists : Anchored(ms)
  BY DEF Init, Lists, Anchored, Entries
<1>2. \A p \in Proc : Alone(p)
  BY DEF Init, Alone
<1> QED
  BY <1>1, <1>2, InitAgreeInv DEF SerialInv

\* Every step of the only process keeps what it knows.
LEMMA NextSerialInv == SerialInv /\ [Next]_vars => SerialInv'
<1> SUFFICES ASSUME SerialInv, [Next]_vars PROVE SerialInv'
  OBVIOUS
<1>1. OneProcess' /\ AgreeInv' /\ UniqueNames'
  BY NextAgreeInv, NextUniqueNames DEF SerialInv, AgreeInv, OneProcess
<1>2. ASSUME NEW p \in Proc, Acts(p)
      PROVE  (\A ms \in Lists' : Anchored(ms)) /\ \A q \in Proc : Alone(q)'
  <2>1. ASSUME NEW ms \in Lists'
        PROVE  Anchored(ms)
    <3>1. CASE ms \in Lists
      BY <3>1 DEF SerialInv
    <3>2. CASE ms = <<>>
      BY <3>2 DEF Anchored, Entries
    <3>3. CASE ReadIndex(p) /\ ms = Update(p)
      <4>1. /\ Mutates(p) /\ Anchored(index.manifests)
            /\ Head(todo[p]).call = "tag" => source[p] \in Entries(index.manifests)
            /\ Head(todo[p]).call = "delete" => ParsesAsAny(Head(todo[p]).ref)
        BY <3>3 DEF ReadIndex, Calls, Mutates, SerialInv, AgreeInv, TypeInv, Shape, Alone, Lists
      <4> QED
        BY <3>3, <4>1, UpdateAnchored DEF SerialInv
    <3> QED
      BY <1>2, <3>1, <3>2, <3>3, NewLists DEF SerialInv, AgreeInv
  <2>2. Alone(p)'
    BY <1>2, StepAlone
  <2>3. \A q \in Proc : q = p
    BY DEF SerialInv, OneProcess
  <2> QED
    BY <2>1, <2>2, <2>3
<1>3. CASE UNCHANGED vars
  <2>1. Lists' = Lists /\ Manifests' = Manifests /\ \A q \in Proc : Update(q)' = Update(q)
    BY <1>3 DEF vars, Lists, Manifests, Writing, Readable, Update
  <2>2. \A q \in Proc : Alone(q)'
    BY <1>3, <2>1 DEF SerialInv, Alone, Readable, vars
  <2> QED
    BY <1>1, <2>1, <2>2 DEF SerialInv
<1> QED
  BY <1>1, <1>2, <1>3 DEF SerialInv, Next, Quiet, Acts

\* What becomes of the calls of a process: they begin, are forgotten, stay, lose the
\* one that is done, or get the resolved one in place of the one FuzzyResolveRef had.
LEMMA TodoStep ==
    ASSUME SerialInv, NEW p \in Proc, Acts(p)
    PROVE  \/ \E c \in Commands : Start(p, c) /\ todo'[p] = Script(c)
           \/ pc'[p] = "idle"
           \/ pc[p] # "idle" /\ todo'[p] = todo[p] /\ told' = told
           \/ /\ pc[p] # "idle" /\ todo'[p] = Tail(todo[p])
              /\ told' = told \/ (told' = Tell(p) /\ pc[p] = "write")
           \/ /\ pc[p] # "idle" /\ told' = told
              /\ Head(todo[p]).call = "fuzzy"
              /\ \E n \in RefCall :
                    /\ todo'[p] = <<n>> \o Tail(todo[p])
                    /\ n.call = Head(todo[p]).next.call
                    /\ n.call = "delete" => n = Head(todo[p]).next
                    /\ n.call = "tag" => n.dst = Head(todo[p]).next.dst
<1> DEFINE c == Head(todo[p])
<1>1. TypeInv /\ TypeOK /\ Alone(p)
  BY DEF SerialInv, AgreeInv, TypeInv
<1>2. CASE \E cmd \in Commands : Start(p, cmd)
  BY <1>1, <1>2 DEF Start, TypeOK
<1>3. CASE Exit(p)
  BY <1>1, <1>3 DEF Exit, TypeOK
<1>4. CASE OpenExisting(p) \/ ReadImage(p) \/ WriteIndex(p)
  <2>1. /\ Return(p) /\ pc[p] # "idle"
        /\ told' = told \/ (told' = Tell(p) /\ pc[p] = "write")
    BY <1>4 DEF OpenExisting, ReadImage, WriteIndex, Calls
  <2> QED
    BY <1>1, <2>1, ReturnType
<1>5. CASE \/ OpenMissing(p) \/ BeginPut(p) \/ BeginAddIndexManifest(p) \/ WriteBlob(p)
           \/ ResolveDescriptor(p) \/ ReadIndex(p) \/ Truncate(p)
  BY <1>5 DEF OpenMissing, BeginPut, BeginAddIndexManifest, WriteBlob, ResolveDescriptor,
     ReadIndex, Truncate, Calls
<1>6. CASE FuzzyKeep(p) \/ FuzzyLookup(p)
  <2>1. PICK n \in RefCall :
           /\ c.call = "fuzzy" /\ pc[p] = "call" /\ todo'[p] = <<n>> \o Tail(todo[p])
           /\ n.call = c.next.call
           /\ n.call = "tag" => n.dst = c.next.dst
           /\ n = c.next \/ ~ParsesAsAny(c.next.ref)
    BY <1>1, <1>6, FuzzyResult
  <2>2. told' = told
    BY <1>6 DEF FuzzyKeep, FuzzyLookup
  <2>3. ASSUME n.call = "delete", ~ParsesAsAny(c.next.ref)
        PROVE  FALSE
    <3>1. todo[p] \in Seq(Call) /\ todo[p] # <<>> /\ DeletesApart(todo[p])
      BY <1>1, <2>1, CurrentCall DEF Alone
    <3>2. 1 \in DOMAIN todo[p] /\ todo[p][1] = c /\ 1 .. (1 - 1) = {}
      BY <3>1, Positions
    <3>3. Due(c).call = "delete"
      BY <2>1, <2>3 DEF Due
    <3> HIDE DEF c
    <3> QED
      BY <2>1, <2>3, <3>1, <3>2, <3>3 DEF DeletesApart
  <2> QED
    BY <2>1, <2>2, <2>3
<1> QED
  BY <1>2, <1>3, <1>4, <1>5, <1>6 DEF Acts, Step, Stop, ReturnError

-----------------------------------------------------------------------------
(* The images of an index *)

\* Nothing is listed that a command did not put there, and none takes an image from
\* an index.
LEMMA StartSubImagesSafe ==
    ASSUME SubImagesStay, NEW c \in Commands
    PROVE  SubImagesSafe(Script(c))
<1>1. \A k \in DOMAIN Script(c) : Script(c)[k] \in CallsOf(c)
  BY ScriptCalls
<1>2. c \in Command
  BY CommandAssumption
<1> SUFFICES ASSUME NEW x \in CallsOf(c)
             PROVE  /\ x.call = "add" => x.img \in BuiltIndexes
                    /\ Due(x).call = "delete" /\ Due(x).ref.spelling = "digest" =>
                          \A i \in BuiltIndexes : Due(x).ref.digest \notin SubManifests[i]
  BY <1>1 DEF SubImagesSafe
<1>3. CASE c.do = "build"
  <2>1. c.index \in BuiltIndexes
    BY <1>3 DEF BuiltIndexes
  <2> QED
    BY <1>3, <2>1 DEF CallsOf, Open, AddIndexManifest, Put, Tag, Due
<1>4. CASE c.do = "delete"
  BY <1>4 DEF CallsOf, Open, Delete, Fuzzy, Due, SubImagesStay
<1>5. CASE c.do \in {"tag", "pull", "inspect"}
  BY <1>5 DEF CallsOf, Open, Put, Tag, Fuzzy, Show, Due
<1> QED
  BY <1>2, <1>3, <1>4, <1>5 DEF Command

\* A process has nothing on its list that takes an image from an index.
LEMMA StepSubImagesSafe ==
    ASSUME SubInv, NEW p \in Proc, Acts(p), pc'[p] # "idle"
    PROVE  SubImagesSafe(todo'[p])
<1> DEFINE c == Head(todo[p])
<1>1. SerialInv /\ TypeInv /\ (pc[p] # "idle" => SubImagesSafe(todo[p]))
  BY DEF SubInv, SerialInv, AgreeInv
<1>2. pc[p] # "idle" => todo[p] \in Seq(Call) /\ todo[p] # <<>>
  BY <1>1, CurrentCall
<1>3. CASE \E cmd \in Commands : todo'[p] = Script(cmd)
  BY <1>3, StartSubImagesSafe DEF SubInv
<1>4. CASE pc[p] # "idle" /\ todo'[p] = todo[p]
  BY <1>1, <1>4
<1>5. CASE pc[p] # "idle" /\ todo'[p] = Tail(todo[p])
  <2>1. \A j \in DOMAIN Tail(todo[p]) :
           j + 1 \in DOMAIN todo[p] /\ Tail(todo[p])[j] = todo[p][j + 1]
    BY <1>2, <1>5, Positions
  <2>2. SubImagesSafe(Tail(todo[p]))
    BY <1>1, <1>5, <2>1 DEF SubImagesSafe
  <2> QED
    BY <1>5, <2>2
<1>6. CASE /\ pc[p] # "idle" /\ c.call = "fuzzy"
           /\ \E n \in RefCall : /\ todo'[p] = <<n>> \o Tail(todo[p])
                                 /\ n.call = "delete" => n = c.next
  <2>1. PICK n \in RefCall : /\ todo'[p] = <<n>> \o Tail(todo[p])
                             /\ n.call = "delete" => n = c.next
    BY <1>6
  <2> DEFINE new == <<n>> \o Tail(todo[p])
  <2>2. n \in Call /\ n.call \in {"tag", "delete", "show"}
    BY RefCallTypes
  <2>3. /\ 1 \in DOMAIN todo[p] /\ todo[p][1] = c /\ DOMAIN new = DOMAIN todo[p] /\ new[1] = n
        /\ \A j \in DOMAIN todo[p] : j # 1 => new[j] = todo[p][j]
    BY <1>2, <1>6, <2>2, Positions
  <2>4. Due(n) = n /\ (Due(n).call = "delete" => Due(n) = Due(c))
    BY <1>6, <2>1, <2>2 DEF Due
  <2> HIDE DEF new, c
  <2>5. SubImagesSafe(new)
    <3> SUFFICES ASSUME NEW j \in DOMAIN todo[p]
                 PROVE  /\ new[j].call = "add" => new[j].img \in BuiltIndexes
                        /\ Due(new[j]).call = "delete" /\ Due(new[j]).ref.spelling = "digest" =>
                              \A x \in BuiltIndexes : Due(new[j]).ref.digest \notin SubManifests[x]
      BY <2>3 DEF SubImagesSafe
    <3>1. CASE j = 1
      BY <1>1, <1>6, <2>2, <2>3, <2>4, <3>1 DEF SubImagesSafe
    <3>2. CASE j # 1
      BY <1>1, <1>6, <2>3, <3>2 DEF SubImagesSafe
    <3> QED
      BY <3>1, <3>2
  <2> QED
    BY <2>1, <2>5 DEF new
<1> QED
  BY <1>1, <1>3, <1>4, <1>5, <1>6, TodoStep

\* At the step where a mutation takes effect all its premises hold.
LEMMA TruncateReady ==
    ASSUME SerialInv, NEW p \in Proc, Truncate(p), Head(todo[p]).call # "open"
    PROVE  /\ Mutates(p) /\ Anchored(index.manifests) /\ pc[p] # "idle"
           /\ Head(todo[p]).call = "tag" => source[p] \in Entries(index.manifests)
           /\ Head(todo[p]).call = "delete" => ParsesAsAny(Head(todo[p]).ref)
BY DEF Truncate, Mutates, SerialInv, AgreeInv, TypeInv, Shape, Alone, Lists

\* Every step keeps the images of the listed indexes listed.
LEMMA NextSubInv == SubInv /\ [Next]_vars => SubInv'
<1> SUFFICES ASSUME SubInv, [Next]_vars PROVE SubInv'
  OBVIOUS
<1>1. SerialInv' /\ SubImagesStay'
  BY NextSerialInv DEF SubInv, SubImagesStay, BuiltIndexes
<1>2. ASSUME NEW p \in Proc, Acts(p)
      PROVE  /\ \A ms \in Lists' : \A d \in Listed(ms) \cap ImageIndex : d \in BuiltIndexes
             /\ \A d \in Listed(Manifests') \cap ImageIndex : SubManifests[d] \subseteq Listed(Manifests')
             /\ \A q \in Proc : pc'[q] # "idle" => SubImagesSafe(todo'[q])
  <2> DEFINE c == Head(todo[p])
             calls == todo[p]
  <2>1. /\ SerialInv /\ AgreeInv /\ TypeInv
        /\ ImageManifest \cap ImageIndex = {}
        /\ \A q \in Proc : q = p
    BY DigestAssumption DEF SubInv, SerialInv, AgreeInv, OneProcess
  <2>2. ASSUME pc[p] # "idle"
        PROVE  /\ calls \in Seq(Call) /\ c \in Call /\ 1 \in DOMAIN calls /\ calls[1] = c
               /\ SubImagesSafe(calls) /\ ListedFirst(calls, Listed(Manifests))
    BY <2>1, <2>2, CurrentCall, Positions DEF SubInv, SerialInv, Alone
  <2>3. ASSUME Mutates(p)
        PROVE  /\ pc[p] # "idle"
               /\ c.call = "add" => c.img \in BuiltIndexes
               /\ c.call = "put" => c.img \in ImageManifest
    <3>1. pc[p] # "idle"
      BY <2>3 DEF Mutates
    <3> HIDE DEF c
    <3>2. c.call = "add" => c.img \in BuiltIndexes
      BY <2>2, <3>1 DEF SubImagesSafe
    <3> QED
      BY <2>2, <3>1, <3>2, CallTypes
  <2>4. ASSUME NEW ms \in Lists', NEW d \in Listed(ms) \cap ImageIndex
        PROVE  d \in BuiltIndexes
    <3>1. CASE ms \in Lists
      BY <2>4, <3>1 DEF SubInv
    <3>2. CASE ms = <<>>
      BY <2>4, <3>2 DEF Listed, Entries
    <3>3. CASE ReadIndex(p) /\ ms = Update(p)
      <4>1. /\ Mutates(p) /\ Anchored(index.manifests) /\ index.manifests \in Lists
            /\ c.call = "tag" => source[p] \in Entries(index.manifests)
            /\ c.call = "delete" => ParsesAsAny(c.ref)
        BY <2>1, <3>3 DEF ReadIndex, Calls, Mutates, SerialInv, TypeInv, Shape, Alone, Lists
      <4>2. Listed(ms) \subseteq Listed(index.manifests) \cup
               (IF c.call \in {"put", "add"} THEN {c.img} ELSE {})
        BY <2>1, <3>3, <4>1, UpdateListed DEF Mutates
      <4>3. d \in Listed(index.manifests) => d \in BuiltIndexes
        BY <2>4, <4>1 DEF SubInv
      <4> HIDE DEF c
      <4> QED
        BY <2>1, <2>3, <2>4, <4>1, <4>2, <4>3
    <3> QED
      BY <1>2, <2>1, <3>1, <3>2, <3>3, NewLists
  <2>5. ASSUME NEW d \in Listed(Manifests') \cap ImageIndex
        PROVE  SubManifests[d] \subseteq Listed(Manifests')
    <3>1. CASE Manifests' = Manifests
      BY <2>5, <3>1 DEF SubInv
    <3>2. CASE Manifests' = <<>>
      BY <2>5, <3>2 DEF Listed, Entries
    <3>3. CASE /\ Truncate(p) /\ c.call # "open"
               /\ Manifests = index.manifests /\ Manifests' = Update(p)
      <4>1. /\ Mutates(p) /\ Anchored(index.manifests) /\ pc[p] # "idle"
            /\ c.call = "tag" => source[p] \in Entries(index.manifests)
            /\ c.call = "delete" => ParsesAsAny(c.ref)
        BY <2>1, <3>3, TruncateReady
      <4>2. \A x \in Listed(Manifests) \cap ImageIndex :
               SubManifests[x] \subseteq Listed(Manifests) /\ x \in BuiltIndexes
        BY <3>3 DEF SubInv, Lists
      <4>3. CASE c.call \in {"put", "add"}
        <5>1. Listed(Manifests') = Listed(Manifests) \cup {c.img}
          BY <2>1, <3>3, <4>1, <4>3, UpdateListed
        <5> HIDE DEF c
        <5>2. ASSUME c.call = "add"
              PROVE  SubManifests[c.img] \subseteq Listed(Manifests)
          BY <2>2, <4>1, <5>2 DEF ListedFirst
        <5> QED
          BY <2>1, <2>3, <2>5, <4>1, <4>2, <4>3, <5>1, <5>2
      <4>4. CASE c.call = "tag" \/ (c.call = "delete" /\ c.ref.spelling # "digest")
        <5>1. Listed(Manifests') = Listed(Manifests)
          BY <2>1, <3>3, <4>1, <4>4, UpdateListed
        <5> QED
          BY <2>5, <4>2, <5>1
      <4>5. CASE c.call = "delete" /\ c.ref.spelling = "digest"
        <5>1. Listed(Manifests') = Listed(Manifests) \ {c.ref.digest}
          BY <2>1, <3>3, <4>1, <4>5, UpdateListed
        <5>2. SubImagesSafe(calls) /\ 1 \in DOMAIN calls /\ calls[1] = c
          BY <2>2, <4>1
        <5>3. Due(c) = c
          BY <4>5 DEF Due
        <5> HIDE DEF c, calls
        <5>4. \A x \in BuiltIndexes : c.ref.digest \notin SubManifests[x]
          BY <4>5, <5>2, <5>3 DEF SubImagesSafe
        <5> QED
          BY <2>5, <4>2, <5>1, <5>4
      <4> QED
        BY <4>1, <4>3, <4>4, <4>5 DEF Mutates
    <3> QED
      BY <1>2, <2>1, <3>1, <3>2, <3>3, ManifestsStep
  <2>6. pc'[p] # "idle" => SubImagesSafe(todo'[p])
    BY <1>2, StepSubImagesSafe
  <2> QED
    BY <2>1, <2>4, <2>5, <2>6
<1>3. CASE UNCHANGED vars
  <2>1. Lists' = Lists /\ Manifests' = Manifests /\ pc' = pc /\ todo' = todo
    BY <1>3 DEF vars, Lists, Manifests, Writing, Readable
  <2> QED
    BY <1>1, <2>1 DEF SubInv
<1> QED
  BY <1>1, <1>2, <1>3 DEF SubInv, Next, Quiet, Acts

\* As long as commands run one after the other and none deletes the digest of an image
\* that an index contains, everything a listed index refers to is listed, whatever is
\* deleted, tagged and overwritten by name, and wherever commands are killed.
THEOREM SubImagesStayListed ==
    ASSUME OneProcess, SubImagesStay
    PROVE  Spec => []SubManifestsListed
<1>1. Init => SubInv
  <2> SUFFICES ASSUME Init PROVE SubInv
    OBVIOUS
  <2>1. SerialInv
    BY InitSerialInv
  <2>2. \A ms \in Lists : Listed(ms) = {}
    BY DEF Init, Lists, Listed, Entries
  <2>3. Listed(Manifests) = {}
    BY DEF Init, Manifests, Writing, Readable, Listed, Entries
  <2>4. \A p \in Proc : pc[p] = "idle"
    BY DEF Init
  <2> QED
    BY <2>1, <2>2, <2>3, <2>4 DEF SubInv
<1>2. SubInv => SubManifestsListed
  <2> SUFFICES ASSUME SubInv, Readable, NEW i \in DOMAIN index.manifests,
                      index.manifests[i].mediaType = "image.index",
                      NEW d \in SubManifests[index.manifests[i].digest]
               PROVE  \E j \in DOMAIN index.manifests : index.manifests[j].digest = d
    BY DEF SubManifestsListed
  <2> DEFINE e == index.manifests[i]
  <2>1. SerialInv /\ AgreeInv
    BY DEF SubInv, SerialInv
  <2>2. Manifests = index.manifests
    <3>1. CASE \E p \in Proc : pc[p] = "write"
      BY <2>1, <3>1, EmptyUnreadable DEF SerialInv, Alone
    <3>2. CASE \A p \in Proc : pc[p] # "write"
      BY <3>2 DEF Manifests, Writing
    <3> QED
      BY <3>1, <3>2
  <2>3. e.digest \in ImageIndex
    BY <2>1 DEF AgreeInv, Lists, Whole, MediaTypeOf
  <2>4. e.digest \in Listed(Manifests)
    BY <2>2 DEF Listed, Entries
  <2>5. d \in Listed(index.manifests)
    BY <2>2, <2>3, <2>4 DEF SubInv
  <2> QED
    BY <2>5 DEF Listed, Entries
<1> QED
  BY <1>1, <1>2, NextSubInv, PTL DEF Spec

-----------------------------------------------------------------------------
(* What users were told *)

\* What the lookup of a name or a digest accepts.
LEMMA KeyMatcherCases ==
    ASSUME NEW k \in Key
    PROVE  \/ k \in Digest /\ k \notin RefName /\ KeyMatcher(k) = Digests({k})
           \/ /\ k \in RefName /\ k \notin Digest
              /\ KeyMatcher(k) = IF k \in DOMAIN Pin THEN Digests({Pin[k]}) \cap Name(k)
                                 ELSE Name(k)
BY NameAssumption DEF Key, KeyMatcher, ReferenceToMatcher, DigestRef, Canonical, And

\* The lookup of what a reference mentions is the lookup of the reference.
LEMMA MentionsMatch ==
    ASSUME NEW r \in Ref, ParsesAsAny(r), NEW k \in Mentions(r)
    PROVE  k \in Key /\ KeyMatcher(k) = ReferenceToMatcher(r)
<1>1. k \in Key
  BY RefTypes
<1>2. CASE r.spelling = "digest" /\ r.digest \in Digest /\ Mentions(r) = {r.digest}
  <2>1. k = r.digest
    BY <1>2
  <2> QED
    BY <1>1, <1>2, <2>1, KeyMatcherCases, MatcherCases
<1>3. CASE r.spelling # "digest" /\ r.name \in RefName /\ Mentions(r) = {r.name}
  <2>1. k = r.name /\ k \notin Digest
    BY <1>3, NameAssumption
  <2> QED
    BY <1>1, <1>3, <2>1, KeyMatcherCases, MatcherCases
<1> QED
  BY <1>2, <1>3, MatcherCases

\* An image whose entries of one name are removed is still found under everything else
\* that led to it.
LEMMA FoundWithoutName ==
    ASSUME NEW ms \in Seq(Descriptor), Anchored(ms), NEW k \in Key, NEW m \in RefName, m # k,
           NEW e \in Entries(ms) \cap KeyMatcher(k)
    PROVE  \E f \in (Entries(ms) \ Name(m)) \cap KeyMatcher(k) : f.digest = e.digest
<1>1. Entries(ms) \subseteq Descriptor
  BY DEF Entries
<1>2. CASE e \notin Name(m)
  BY <1>2
<1>3. CASE e \in Name(m)
  <2>1. k \in Digest /\ KeyMatcher(k) = Digests({k})
    BY <1>3, KeyMatcherCases DEF Name
  <2> DEFINE f == ImageDescriptor(e.digest)
  <2>2. f.digest = e.digest /\ f.name = NoName /\ f \in Entries(ms)
    BY DEF Anchored, ImageDescriptor
  <2>3. e.digest = k /\ f \in Descriptor
    BY <1>1, <2>1, <2>2 DEF Digests
  <2> HIDE DEF f
  <2>4. f \in Digests({k}) /\ f \notin Name(m)
    BY <2>2, <2>3, NameAssumption DEF Digests, Name
  <2> QED
    BY <2>1, <2>2, <2>4
<1> QED
  BY <1>2, <1>3

\* Saying less is always true.
LEMMA HoldsWeaker ==
    ASSUME NEW ms, NEW t, NEW u, Holds(ms, t), \A k \in Key : u[k] \in {t[k], Unknown}
    PROVE  Holds(ms, u)
BY SentinelAssumption DEF Holds

\* A mutation writes a list that keeps what was told and what it is about to tell.
LEMMA UpdateHolds ==
    ASSUME AgreeInv, NEW p \in Proc, Mutates(p), Anchored(index.manifests),
           Head(todo[p]).call = "tag" => source[p] \in Entries(index.manifests),
           Head(todo[p]).call = "delete" => ParsesAsAny(Head(todo[p]).ref),
           Holds(index.manifests, told), ForeseenCall(Head(todo[p]), told),
           Head(todo[p]).call = "tag" /\ Pinned(Head(todo[p]).dst)
              => source[p].digest = Pin[Head(todo[p]).dst.name]
    PROVE  Holds(Update(p), Tell(p))
<1> DEFINE c == Head(todo[p])
           old == Entries(index.manifests)
           new == Entries(Update(p))
<1>1. /\ index.manifests \in Seq(Descriptor)
      /\ told \in [Key -> Digest \cup {Absent, Unknown}]
      /\ TypeInv /\ pc[p] # "idle" /\ c \in Call
  BY CurrentCall DEF AgreeInv, TypeInv, TypeOK, Mutates
<1>2. \A k \in Key : /\ told[k] = Absent => old \cap KeyMatcher(k) = {}
                     /\ told[k] \in Digest => \E e \in old \cap KeyMatcher(k) : e.digest = told[k]
  BY DEF Holds
<1>3. old \subseteq Descriptor /\ Absent \notin Digest
  BY <1>1, SentinelAssumption DEF Entries
<1>4. CASE c.call \in {"put", "add"}
  <2>1. c.img \in StoreImage /\ new = old \cup {ImageDescriptor(c.img)}
    BY <1>4, UpdateEntries
  <2>2. Tell(p) = told /\ told[c.img] # Absent
    BY <1>4 DEF Tell, ForeseenCall
  <2>3. ASSUME NEW k \in Key, ImageDescriptor(c.img) \in KeyMatcher(k)
        PROVE  k = c.img
    <3>1. ImageDescriptor(c.img).name \notin RefName /\ ImageDescriptor(c.img).digest = c.img
      BY NameAssumption DEF ImageDescriptor
    <3> HIDE DEF c
    <3> QED
      BY <2>3, <3>1, KeyMatcherCases DEF Digests, Name
  <2> HIDE DEF c, old, new
  <2>4. \A k \in Key : /\ told[k] = Absent => new \cap KeyMatcher(k) = {}
                       /\ told[k] \in Digest => \E e \in new \cap KeyMatcher(k) : e.digest = told[k]
    BY <1>2, <2>1, <2>2, <2>3
  <2> QED
    BY <2>2, <2>4 DEF Holds, new
<1>5. CASE c.call = "tag"
  <2> DEFINE n == c.dst.name
             desc == [source[p] EXCEPT !.name = n]
             d == source[p].digest
             t == Tell(p)
  <2>1. /\ n \in RefName /\ source[p] \in Descriptor
        /\ new = (old \ Name(n)) \cup {desc}
    BY <1>5, UpdateEntries
  <2>2. desc \in Descriptor /\ desc.digest = d /\ desc.name = n /\ d \in Digest
    BY <2>1 DEF Descriptor
  <2>3. /\ n \notin Digest /\ n \in Key /\ d \notin RefName
        /\ t[n] = d
        /\ \A k \in Key : t[k] = IF k \in {n, d} THEN d ELSE told[k]
    BY <1>5, <2>1, <2>2, NameAssumption DEF Tell, Key
  <2>4. n \in DOMAIN Pin => d = Pin[n]
    <3>1. ParsesAsNamed(c.dst)
      BY <1>1, <1>5 DEF TypeInv, Shape, Mutates
    <3> QED
      BY <1>5, <3>1 DEF Pinned
  <2> HIDE DEF c, old, new, n, desc, d, t
  <2>5. ASSUME NEW k \in {n, d}, k \in Key
        PROVE  desc \in KeyMatcher(k)
    BY <2>1, <2>2, <2>3, <2>4, <2>5, KeyMatcherCases DEF Digests, Name
  <2>6. ASSUME NEW k \in Key, desc \in KeyMatcher(k)
        PROVE  k \in {n, d}
    BY <2>2, <2>6, KeyMatcherCases DEF Digests, Name
  <2>7. ASSUME NEW k \in Key, t[k] = Absent
        PROVE  new \cap KeyMatcher(k) = {}
    BY <1>2, <1>3, <2>1, <2>2, <2>3, <2>6, <2>7
  <2>8. ASSUME NEW k \in Key, t[k] \in Digest
        PROVE  \E e \in new \cap KeyMatcher(k) : e.digest = t[k]
    <3>1. CASE k \in {n, d}
      BY <2>1, <2>2, <2>3, <2>5, <3>1
    <3>2. CASE k \notin {n, d}
      <4>1. PICK e \in old \cap KeyMatcher(k) : e.digest = t[k]
        BY <1>2, <2>3, <2>8, <3>2
      <4>2. \E f \in (old \ Name(n)) \cap KeyMatcher(k) : f.digest = e.digest
        BY <1>1, <2>1, <3>2, <4>1, FoundWithoutName DEF old
      <4> QED
        BY <2>1, <4>1, <4>2
    <3> QED
      BY <3>1, <3>2
  <2> QED
    BY <2>7, <2>8 DEF Holds, new, t
<1>6. CASE c.call = "delete"
  <2> DEFINE t == Tell(p)
  <2>1. c.ref \in Ref /\ ParsesAsAny(c.ref) /\ new = old \ ReferenceToMatcher(c.ref)
    BY <1>6, UpdateEntries
  <2>2. \A k \in Key : t[k] = told[k] \/ (t[k] = Absent /\ k \in Mentions(c.ref))
    BY <1>1, <1>6 DEF Tell
  <2>3. \A k \in Key : {k, told[k]} \cap Mentions(c.ref) = {} \/ told[k] \notin Digest
    BY <1>6 DEF ForeseenCall, Due
  <2> HIDE DEF c, old, new, t
  <2>4. ASSUME NEW k \in Key, t[k] = Absent
        PROVE  new \cap KeyMatcher(k) = {}
    BY <1>2, <2>1, <2>2, <2>4, MentionsMatch
  <2>5. ASSUME NEW k \in Key, t[k] \in Digest
        PROVE  \E e \in new \cap KeyMatcher(k) : e.digest = t[k]
    <3>1. t[k] = told[k] /\ k \notin Mentions(c.ref) /\ told[k] \notin Mentions(c.ref)
      BY <1>3, <2>2, <2>3, <2>5
    <3>2. PICK e \in old \cap KeyMatcher(k) : e.digest = t[k]
      BY <1>2, <2>5, <3>1
    <3>3. CASE /\ Mentions(c.ref) = {c.ref.digest}
               /\ ReferenceToMatcher(c.ref) = Digests({c.ref.digest})
      BY <2>1, <3>1, <3>2, <3>3 DEF Digests
    <3>4. CASE /\ c.ref.name \in RefName /\ Mentions(c.ref) = {c.ref.name}
               /\ ReferenceToMatcher(c.ref) \subseteq Name(c.ref.name)
      <4>1. \E f \in (old \ Name(c.ref.name)) \cap KeyMatcher(k) : f.digest = e.digest
        BY <1>1, <3>1, <3>2, <3>4, FoundWithoutName DEF old
      <4> QED
        BY <2>1, <3>2, <3>4, <4>1
    <3> QED
      BY <2>1, <3>3, <3>4, MatcherCases
  <2> QED
    BY <2>4, <2>5 DEF Holds, new, t
<1> QED
  BY <1>4, <1>5, <1>6 DEF Mutates

\* A command that starts takes back what was told about everything it may change.
LEMMA StartForeseen ==
    ASSUME PromiseInv, NEW p \in Proc, NEW c \in Commands, Start(p, c)
    PROVE  Foreseen(Script(c), told')
<1>1. /\ told \in [Key -> Digest \cup {Absent, Unknown}]
      /\ told' = [k \in Key |-> IF k \in Affects(c) THEN Unknown ELSE told[k]]
  BY DEF PromiseInv, SerialInv, AgreeInv, TypeInv, TypeOK, Start
<1>2. c \in Command /\ Absent # Unknown /\ Unknown \notin Digest
  BY CommandAssumption, SentinelAssumption
<1>3. \A k \in Key : k \in Affects(c) => told'[k] = Unknown
  BY <1>1
<1>4. \A j \in DOMAIN Script(c) : Script(c)[j] \in CallsOf(c)
  BY ScriptCalls
<1>5. PinsFit
  BY DEF PromiseInv
<1> SUFFICES ASSUME NEW x \in CallsOf(c) PROVE ForeseenCall(x, told')
  BY <1>4 DEF Foreseen
<1>6. CASE c.do = "build"
  <2>1. c.archs \in Seq(ArchImage) /\ c.index \in ImageIndex
    BY <1>2, <1>6 DEF Command
  <2>2. \A i \in DOMAIN c.archs : c.archs[i] \in ArchImage
    BY <2>1
  <2>3. /\ c.index \in Affects(c) /\ c.index \in Key
        /\ \A i \in DOMAIN c.archs : c.archs[i].img \in Affects(c) /\ c.archs[i].img \in Key
    <3>1. Affects(c) = Mentions(c.ref) \cup {c.index}
             \cup UNION {Mentions(c.archs[i].ref) \cup {c.archs[i].img} : i \in DOMAIN c.archs}
      BY <1>6 DEF Affects
    <3>2. \A i \in DOMAIN c.archs : c.archs[i].img \in ImageManifest
      BY <2>2 DEF ArchImage
    <3>3. c.index \in Affects(c) /\ \A i \in DOMAIN c.archs : c.archs[i].img \in Affects(c)
      BY <3>1
    <3> QED
      BY <2>1, <3>2, <3>3, DigestAssumption DEF Key
  <2>4. CASE x = Open
    BY <2>4 DEF Open, ForeseenCall, Due
  <2>5. CASE x = AddIndexManifest(c.index) \/ \E i \in DOMAIN c.archs : x = Put(c.archs[i].img)
    <3>1. x.call \in {"put", "add"} /\ x.img \in Affects(c) /\ x.img \in Key
      BY <2>3, <2>5 DEF AddIndexManifest, Put
    <3>2. told'[x.img] # Absent
      BY <1>2, <1>3, <3>1
    <3> QED
      BY <3>1, <3>2 DEF ForeseenCall, Due
  <2>6. CASE x = Tag(DigestRef(c.index), c.ref)
    <3>1. Pinned(c.ref) => c.index = Pin[c.ref.name]
      BY <1>5, <1>6 DEF PinsFit
    <3> QED
      BY <2>6, <3>1 DEF Tag, ForeseenCall, Due
  <2>7. CASE \E i \in DOMAIN c.archs : x = Tag(DigestRef(c.archs[i].img), c.archs[i].ref)
    <3>1. PICK i \in DOMAIN c.archs : x = Tag(DigestRef(c.archs[i].img), c.archs[i].ref)
      BY <2>7
    <3>2. Pinned(c.archs[i].ref) => c.archs[i].img = Pin[c.archs[i].ref.name]
      BY <1>5, <1>6 DEF PinsFit
    <3> QED
      BY <3>1, <3>2 DEF Tag, ForeseenCall, Due
  <2> QED
    BY <1>6, <2>4, <2>5, <2>6, <2>7 DEF CallsOf
<1>7. CASE c.do = "tag"
  BY <1>5, <1>7 DEF CallsOf, Open, Fuzzy, Tag, ForeseenCall, Due, PinsFit
<1>8. CASE c.do = "delete"
  <2>1. \A k \in Key : {k, told'[k]} \cap Mentions(c.ref) = {} \/ told'[k] \notin Digest
    <3>1. \A k \in Key : k \in Affects(c) \/ {k, told[k]} \cap Mentions(c.ref) = {}
      BY <1>8 DEF Affects
    <3> QED
      BY <1>1, <1>2, <3>1
  <2>2. CASE x = Open
    BY <2>2 DEF Open, ForeseenCall, Due
  <2>3. CASE x = Delete(c.ref) \/ x = Fuzzy(Delete(c.ref))
    <3>1. x.call \in {"delete", "fuzzy"} /\ Due(x) = Delete(c.ref)
      BY <2>3 DEF Delete, Fuzzy, Due
    <3> QED
      BY <2>1, <3>1 DEF ForeseenCall, Delete
  <2> QED
    BY <1>8, <2>2, <2>3 DEF CallsOf
<1>9. CASE c.do = "pull"
  <2>1. c.img \in Affects(c) /\ c.img \in Key
    BY <1>2, <1>9, DigestAssumption DEF Affects, Key, Command
  <2>2. CASE x = Open
    BY <2>2 DEF Open, ForeseenCall, Due
  <2>3. CASE x = Put(c.img)
    BY <1>2, <1>3, <2>1, <2>3 DEF Put, ForeseenCall, Due
  <2>4. CASE x = Tag(DigestRef(c.img), c.ref)
    BY <1>5, <1>9, <2>4 DEF Tag, ForeseenCall, Due, PinsFit
  <2> QED
    BY <1>9, <2>2, <2>3, <2>4 DEF CallsOf
<1>10. CASE c.do = "inspect"
  BY <1>10 DEF CallsOf, Open, Fuzzy, Show, ForeseenCall, Due
<1> QED
  BY <1>2, <1>6, <1>7, <1>8, <1>9, <1>10 DEF Command

\* The calls that are left still change nothing that was promised, the promise of the
\* call that is done included.
LEMMA StepForeseen ==
    ASSUME PromiseInv, NEW p \in Proc, Acts(p), pc'[p] # "idle"
    PROVE  Foreseen(todo'[p], told')
<1> DEFINE c == Head(todo[p])
           calls == todo[p]
<1>1. SerialInv /\ TypeInv /\ (pc[p] # "idle" => Foreseen(calls, told))
  BY DEF PromiseInv, SerialInv, AgreeInv
<1>2. pc[p] # "idle" => /\ calls \in Seq(Call) /\ calls # <<>> /\ c \in Call
                        /\ 1 \in DOMAIN calls /\ calls[1] = c /\ DeletesApart(calls)
  BY <1>1, CurrentCall, Positions DEF SerialInv, Alone
<1>3. CASE \E cmd \in Commands : Start(p, cmd) /\ todo'[p] = Script(cmd)
  BY <1>3, StartForeseen
<1>4. CASE pc[p] # "idle" /\ todo'[p] = calls /\ told' = told
  BY <1>1, <1>4
<1>5. CASE /\ pc[p] # "idle" /\ todo'[p] = Tail(calls)
           /\ told' = told \/ (told' = Tell(p) /\ pc[p] = "write")
  <2>1. \A j \in DOMAIN Tail(calls) : j + 1 \in DOMAIN calls /\ Tail(calls)[j] = calls[j + 1]
    BY <1>2, <1>5, Positions
  <2> SUFFICES ASSUME NEW j \in DOMAIN Tail(calls)
               PROVE  ForeseenCall(calls[j + 1], told')
    BY <1>5, <2>1 DEF Foreseen
  <2> DEFINE x == calls[j + 1]
  <2>2. x \in Call /\ ForeseenCall(x, told) /\ j + 1 \in DOMAIN calls
    BY <1>1, <1>2, <1>5, <2>1 DEF Foreseen
  <2>3. Len(calls) # 1
    BY <1>2, <1>5, FirstAndRest
  <2>4. CASE told' = told
    BY <2>2, <2>4
  <2>5. CASE told' = Tell(p) /\ c.call # "tag"
    BY <2>2, <2>3, <2>5 DEF Tell
  <2>6. CASE told' = Tell(p) /\ pc[p] = "write" /\ c.call = "tag"
    <3>1. Due(x).call # "delete"
      <4>1. Due(c).call = "tag"
        BY <2>6 DEF Due
      <4> HIDE DEF x, c, calls
      <4> QED
        BY <1>2, <1>5, <2>2, <4>1 DEF DeletesApart, x
    <3>2. source[p].digest # Absent
      BY <1>1, <2>6, SentinelAssumption DEF TypeInv, Shape, Descriptor
    <3>3. x.call \in {"put", "add"} => x.img \in Key /\ told[x.img] # Absent
      BY <2>2, CallTypes, DigestAssumption DEF Key, ForeseenCall
    <3>4. \A k \in Key : told'[k] \in {told[k], source[p].digest}
      BY <2>6 DEF Tell
    <3> HIDE DEF x
    <3>5. x.call \in {"put", "add"} => told'[x.img] # Absent
      BY <3>2, <3>3, <3>4
    <3> QED
      BY <2>2, <3>1, <3>5 DEF ForeseenCall, x
  <2> QED
    BY <1>5, <2>4, <2>5, <2>6
<1>6. CASE /\ pc[p] # "idle" /\ told' = told /\ c.call = "fuzzy"
           /\ \E n \in RefCall :
                 /\ todo'[p] = <<n>> \o Tail(calls)
                 /\ n.call = c.next.call
                 /\ n.call = "delete" => n = c.next
                 /\ n.call = "tag" => n.dst = c.next.dst
  <2>1. PICK n \in RefCall :
           /\ todo'[p] = <<n>> \o Tail(calls)
           /\ n.call = c.next.call
           /\ n.call = "delete" => n = c.next
           /\ n.call = "tag" => n.dst = c.next.dst
    BY <1>6
  <2> DEFINE new == <<n>> \o Tail(calls)
  <2>2. n \in Call /\ n.call \in {"tag", "delete", "show"}
    BY RefCallTypes
  <2>3. /\ DOMAIN new = DOMAIN calls /\ new[1] = n
        /\ \A j \in DOMAIN calls : j # 1 => new[j] = calls[j]
    BY <1>2, <1>6, <2>2, Positions
  <2>4. Due(n) = n /\ Due(c) = c.next /\ ForeseenCall(c, told)
    BY <1>1, <1>2, <1>6, <2>2 DEF Due, Foreseen
  <2> HIDE DEF new, c, calls
  <2>5. ForeseenCall(n, told)
    <3>1. n.call = "tag" => ~Pinned(n.dst)
      BY <1>6, <2>1, <2>4 DEF ForeseenCall
    <3>2. n.call = "delete" =>
             \A k \in Key : {k, told[k]} \cap Mentions(n.ref) = {} \/ told[k] \notin Digest
      BY <2>1, <2>4 DEF ForeseenCall
    <3> QED
      BY <2>2, <2>4, <3>1, <3>2 DEF ForeseenCall
  <2>6. ASSUME NEW j \in DOMAIN new
        PROVE  ForeseenCall(new[j], told)
    BY <1>1, <1>6, <2>3, <2>5 DEF Foreseen
  <2> QED
    BY <1>6, <2>1, <2>6 DEF Foreseen, new
<1> QED
  BY <1>1, <1>3, <1>4, <1>5, <1>6, TodoStep

\* Each step of the only process keeps what was told, in the file and in the list it
\* is about to write.
LEMMA StepHolds ==
    ASSUME PromiseInv, NEW p \in Proc, Acts(p)
    PROVE  /\ Readable' => Holds(index'.manifests, told')
           /\ ~index'.exists => \A k \in Key : told'[k] = Unknown
           /\ pc'[p] \in {"truncate", "write"} => Holds(mem'[p], Tell(p)')
           /\ /\ pc'[p] \in {"read", "truncate"} /\ Head(todo'[p]).call = "tag"
              /\ Pinned(Head(todo'[p]).dst)
              => source'[p].digest = Pin[Head(todo'[p]).dst.name]
<1> DEFINE c == Head(todo[p])
<1>1. /\ SerialInv /\ AgreeInv /\ TypeInv /\ TypeOK /\ Shape(p) /\ Alone(p)
      /\ Anchored(index.manifests)
      /\ Readable => Holds(index.manifests, told)
      /\ ~index.exists => \A k \in Key : told[k] = Unknown
      /\ pc[p] \in {"truncate", "write"} => Holds(mem[p], Tell(p))
      /\ pc[p] # "idle" => Foreseen(todo[p], told)
      /\ pc[p] \in {"read", "truncate"} /\ c.call = "tag" /\ Pinned(c.dst)
            => source[p].digest = Pin[c.dst.name]
  BY DEF PromiseInv, SerialInv, AgreeInv, TypeInv, Lists
<1>2. pc[p] # "idle" => ForeseenCall(c, told)
  BY <1>1, CurrentCall, Positions DEF Foreseen
<1>3. CASE \E cmd \in Commands : Start(p, cmd)
  <2>1. /\ index' = index /\ pc'[p] = "call"
        /\ \A k \in Key : told'[k] \in {told[k], Unknown}
    BY <1>1, <1>3 DEF Start, TypeOK
  <2>2. Readable => Holds(index.manifests, told')
    BY <1>1, <2>1, HoldsWeaker
  <2> QED
    BY <1>1, <2>1, <2>2 DEF Readable
<1>4. CASE Exit(p)
  BY <1>1, <1>4 DEF Exit, TypeOK, Readable
<1>5. CASE OpenExisting(p) \/ ReadImage(p)
  <2>1. Return(p) /\ index' = index /\ told' = told /\ pc[p] # "idle"
    BY <1>5 DEF OpenExisting, ReadImage, Calls
  <2>2. pc'[p] \in {"idle", "call"}
    BY <1>1, <2>1, ReturnType
  <2> QED
    BY <1>1, <2>1, <2>2 DEF Readable
<1>6. CASE WriteIndex(p)
  <2>1. /\ pc[p] = "write" /\ pc'[p] \in {"idle", "call"}
        /\ index'.exists /\ index'.manifests = mem[p] /\ told' = Tell(p)
    BY <1>1, <1>6, WrittenList DEF WriteIndex
  <2> QED
    BY <1>1, <2>1
<1>7. CASE OpenMissing(p)
  <2>1. /\ c.call = "open" /\ ~index.exists /\ mem'[p] = <<>>
        /\ index' = index /\ told' = told /\ todo' = todo
        /\ pc'[p] = "truncate"
    BY <1>1, <1>7 DEF OpenMissing, Calls, TypeOK
  <2>2. Tell(p)' = told
    BY <2>1 DEF Tell
  <2>3. Holds(<<>>, told)
    BY <1>1, <2>1, SentinelAssumption DEF Holds
  <2> QED
    BY <1>1, <2>1, <2>2, <2>3 DEF Readable
<1>8. CASE BeginPut(p) \/ BeginAddIndexManifest(p) \/ WriteBlob(p)
  <2>1. /\ c.call \in {"put", "add"} /\ pc'[p] \in {"blobs", "read"}
        /\ index' = index /\ told' = told /\ todo' = todo
    BY <1>1, <1>8 DEF BeginPut, BeginAddIndexManifest, WriteBlob, Calls, TypeOK, Shape
  <2> QED
    BY <1>1, <2>1 DEF Readable
<1>9. CASE FuzzyKeep(p) \/ FuzzyLookup(p)
  <2>1. pc'[p] = "call" /\ index' = index /\ told' = told
    BY <1>9 DEF FuzzyKeep, FuzzyLookup, Calls
  <2> QED
    BY <1>1, <2>1 DEF Readable
<1>10. CASE ResolveDescriptor(p)
  <2>1. PICK i \in FirstMatch(index.manifests, ReferenceToMatcher(c.ref)) :
           source' = [source EXCEPT ![p] = index.manifests[i]]
    BY <1>10 DEF ResolveDescriptor
  <2>2. /\ source'[p] = index.manifests[i] /\ index.manifests[i] \in ReferenceToMatcher(c.ref)
    BY <1>1, <2>1 DEF TypeOK, FirstMatch
  <2>3. /\ pc[p] = "call" /\ pc'[p] = "read" /\ index' = index /\ todo' = todo /\ told' = told
    BY <1>1, <1>10 DEF ResolveDescriptor, Calls, TypeOK
  <2>4. ASSUME c.call = "tag", Pinned(c.dst)
        PROVE  source'[p].digest = Pin[c.dst.name]
    <3>1. Due(c) = c /\ ForeseenCall(c, told)
      BY <1>2, <2>3, <2>4 DEF Due
    <3>2. c.ref = DigestRef(Pin[c.dst.name])
      BY <2>4, <3>1 DEF ForeseenCall
    <3>3. ReferenceToMatcher(c.ref) = Digests({Pin[c.dst.name]})
      BY <3>2 DEF ReferenceToMatcher, DigestRef
    <3> QED
      BY <2>2, <3>3 DEF Digests
  <2> QED
    BY <1>1, <2>3, <2>4 DEF Readable
<1>11. CASE ReadIndex(p)
  <2>1. /\ Readable /\ Mutates(p) /\ mem'[p] = Update(p) /\ pc[p] \in {"read", "call"}
        /\ c.call = "delete" => ParsesAsAny(c.ref)
        /\ c.call = "tag" => pc[p] = "read"
        /\ pc'[p] = "truncate" /\ index' = index
        /\ told' = told /\ todo' = todo /\ source' = source
    BY <1>1, <1>11 DEF ReadIndex, Calls, Mutates, TypeOK, Shape
  <2>2. Tell(p)' = Tell(p)
    BY <2>1 DEF Tell
  <2>3. c.call = "tag" => source[p] \in Entries(index.manifests)
    BY <1>1, <2>1 DEF Alone
  <2>4. ForeseenCall(c, told)
    BY <1>2, <2>1
  <2>5. c.call = "tag" /\ Pinned(c.dst) => source[p].digest = Pin[c.dst.name]
    BY <1>1, <2>1
  <2>6. Holds(Update(p), Tell(p))
    BY <1>1, <2>1, <2>3, <2>4, <2>5, UpdateHolds
  <2> QED
    BY <1>1, <2>1, <2>2, <2>5, <2>6 DEF Readable
<1>12. CASE Truncate(p)
  <2>1. /\ pc[p] = "truncate" /\ pc'[p] = "write" /\ mem' = mem
        /\ index' = [exists |-> TRUE, manifests |-> <<>>, size |-> 0]
        /\ told' = told /\ todo' = todo /\ source' = source
    BY <1>1, <1>12 DEF Truncate, TypeOK
  <2>2. Tell(p)' = Tell(p)
    BY <2>1 DEF Tell
  <2>3. ~Readable'
    BY <2>1, EmptyUnreadable
  <2> QED
    BY <1>1, <2>1, <2>2, <2>3
<1> QED
  BY <1>3, <1>4, <1>5, <1>6, <1>7, <1>8, <1>9, <1>10, <1>11, <1>12
     DEF Acts, Step, Stop, ReturnError

\* Every step keeps what was told.
LEMMA NextPromiseInv == PromiseInv /\ [Next]_vars => PromiseInv'
<1> SUFFICES ASSUME PromiseInv, [Next]_vars PROVE PromiseInv'
  OBVIOUS
<1>1. SerialInv' /\ PinsFit'
  BY NextSerialInv DEF PromiseInv, PinsFit, Pinned
<1>2. ASSUME NEW p \in Proc, Acts(p)
      PROVE  PromiseInv'
  <2>1. \A q \in Proc : q = p
    BY DEF PromiseInv, SerialInv, OneProcess
  <2>2. pc'[p] # "idle" => Foreseen(todo'[p], told')
    BY <1>2, StepForeseen
  <2> QED
    BY <1>1, <1>2, <2>1, <2>2, StepHolds DEF PromiseInv, Pinned
<1>3. CASE UNCHANGED vars
  <2>1. Readable' = Readable /\ \A q \in Proc : Tell(q)' = Tell(q)
    BY <1>3 DEF vars, Readable, Tell
  <2> QED
    BY <1>1, <1>3, <2>1 DEF PromiseInv, vars, Pinned
<1> QED
  BY <1>1, <1>2, <1>3 DEF Next, Quiet, Acts

\* The invariant says of each lookup what the user was told.
LEMMA PromiseInvKeepsPromises == PromiseInv => PromisesKept
<1> SUFFICES ASSUME PromiseInv, Readable, NEW k \in Key
             PROVE  LET found == FirstMatch(index.manifests, KeyMatcher(k))
                    IN  /\ told[k] = Absent => found = {}
                        /\ told[k] \in Digest =>
                              \E i \in found : index.manifests[i].digest = told[k]
  BY DEF PromisesKept
<1> DEFINE ms == index.manifests
           found == FirstMatch(ms, KeyMatcher(k))
<1>1. /\ ms \in Seq(Descriptor) /\ NoDuplicateName(ms) /\ Holds(ms, told)
  BY DEF PromiseInv, SerialInv, AgreeInv, TypeInv, TypeOK, UniqueNames, Lists
<1>2. told[k] = Absent => found = {}
  <2>1. told[k] = Absent => Entries(ms) \cap KeyMatcher(k) = {}
    BY <1>1 DEF Holds
  <2> QED
    BY <2>1 DEF FirstMatch, Entries
<1>3. ASSUME told[k] \in Digest
      PROVE  \E i \in found : ms[i].digest = told[k]
  <2>1. PICK e \in Entries(ms) \cap KeyMatcher(k) : e.digest = told[k]
    BY <1>1, <1>3 DEF Holds
  <2> HIDE DEF ms
  <2>2. found # {} /\ \A i \in found : i \in DOMAIN ms /\ ms[i] \in Entries(ms) \cap KeyMatcher(k)
    BY <1>1, <2>1, FirstMatchFinds
  <2> HIDE DEF found
  <2>3. PICK i \in found : i \in DOMAIN ms /\ ms[i] \in Entries(ms) /\ ms[i] \in KeyMatcher(k)
    BY <2>2
  <2>4. CASE k \in Digest /\ KeyMatcher(k) = Digests({k})
    BY <2>1, <2>3, <2>4 DEF Digests
  <2>5. CASE k \in RefName /\ KeyMatcher(k) \subseteq Name(k)
    <3>1. PICK j \in DOMAIN ms : e = ms[j]
      BY <2>1 DEF Entries
    <3>2. ms[i].name = k /\ ms[j].name = k /\ k # NoName
      BY <2>1, <2>3, <2>5, <3>1, NameAssumption DEF Name
    <3>3. i = j
      BY <1>1, <2>3, <3>1, <3>2 DEF NoDuplicateName
    <3> QED
      BY <2>1, <3>1, <3>3
  <2> QED
    BY <2>4, <2>5, KeyMatcherCases
<1> QED
  BY <1>2, <1>3

\* As long as commands run one after the other and pinned references are given to the
\* images they are pinned to, what a command reported as tagged or deleted stays so until
\* a command that mentions it starts, wherever commands are killed.
THEOREM PromisesStayKept ==
    ASSUME OneProcess, PinsFit
    PROVE  Spec => []PromisesKept
<1>1. Init => PromiseInv
  <2> SUFFICES ASSUME Init PROVE PromiseInv
    OBVIOUS
  <2>1. SerialInv
    BY InitSerialInv
  <2>2. /\ ~index.exists /\ ~Readable
        /\ \A k \in Key : told[k] = Unknown
        /\ \A p \in Proc : pc[p] = "idle"
    BY DEF Init, Readable
  <2> QED
    BY <2>1, <2>2 DEF PromiseInv
<1> QED
  BY <1>1, NextPromiseInv, PromiseInvKeepsPromises, PTL DEF Spec

-----------------------------------------------------------------------------
(* One process implements TagStore *)

\* The digest a name leads to in a list.
TagOf(ms, n) ==
    LET found == FirstMatch(ms, Name(n))
    IN  IF found = {} THEN Absent ELSE ms[CHOOSE i \in found : TRUE].digest

\* The refinement mapping speaks of the list a reader finds only.
LEMMA MappingOfList ==
    ASSUME Anchored(Manifests), Anchored(Manifests')
    PROVE  /\ StoredImages = Listed(Manifests) /\ StoredImages' = Listed(Manifests')
           /\ CurrentTags = [n \in RefName |-> TagOf(Manifests, n)]
           /\ CurrentTags' = [n \in RefName |-> TagOf(Manifests', n)]
<1>1. ASSUME NEW ms, Anchored(ms)
      PROVE  {ms[i].digest : i \in {j \in DOMAIN ms : ms[j].name = NoName}} = Listed(ms)
  <2>1. ASSUME NEW d \in Listed(ms)
        PROVE  \E i \in DOMAIN ms : ms[i].digest = d /\ ms[i].name = NoName
    <3>1. ImageDescriptor(d) \in Entries(ms)
      BY <1>1, <2>1 DEF Anchored, Listed
    <3> QED
      BY <3>1 DEF Entries, ImageDescriptor
  <2> QED
    BY <2>1 DEF Listed, Entries
<1> QED
  BY <1>1 DEF StoredImages, CurrentTags, TagOf

\* A name leads to its only entry, or nowhere.
LEMMA TagOfName ==
    ASSUME NEW ms \in Seq(Descriptor), NoDuplicateName(ms), NEW n \in RefName
    PROVE  /\ \A e \in Entries(ms) \cap Name(n) : TagOf(ms, n) = e.digest
           /\ Entries(ms) \cap Name(n) = {} => TagOf(ms, n) = Absent
<1> DEFINE found == FirstMatch(ms, Name(n))
<1>1. /\ found = {} <=> Entries(ms) \cap Name(n) = {}
      /\ \A i \in found : i \in DOMAIN ms /\ ms[i] \in Entries(ms) \cap Name(n)
  BY FirstMatchFinds
<1>2. TagOf(ms, n) = IF found = {} THEN Absent ELSE ms[CHOOSE i \in found : TRUE].digest
  BY DEF TagOf
<1> HIDE DEF found
<1>3. ASSUME NEW e \in Entries(ms) \cap Name(n)
      PROVE  TagOf(ms, n) = e.digest
  <2>1. PICK i \in found : TagOf(ms, n) = ms[i].digest
    BY <1>1, <1>2, <1>3
  <2>2. ms[i] \in Entries(ms) /\ ms[i].name = n /\ e.name = n
    BY <1>1 DEF Name
  <2>3. n # NoName
    BY NameAssumption
  <2>4. ms[i] = e
    BY <2>2, <2>3, EntryOfName
  <2> QED
    BY <2>1, <2>4
<1> QED
  BY <1>1, <1>2, <1>3

\* A name whose entries are the same leads to the same image.
LEMMA SameTag ==
    ASSUME NEW ms \in Seq(Descriptor), NoDuplicateName(ms),
           NEW ns \in Seq(Descriptor), NoDuplicateName(ns),
           NEW n \in RefName, Entries(ms) \cap Name(n) = Entries(ns) \cap Name(n)
    PROVE  TagOf(ns, n) = TagOf(ms, n)
<1>1. CASE Entries(ms) \cap Name(n) = {}
  BY <1>1, TagOfName
<1>2. CASE Entries(ms) \cap Name(n) # {}
  BY <1>2, TagOfName
<1> QED
  BY <1>1, <1>2

\* What a mutation does to the map from names to images.
LEMMA UpdateTags ==
    ASSUME AgreeInv, NEW p \in Proc, Mutates(p), Anchored(index.manifests),
           NoDuplicateName(index.manifests), NoDuplicateName(Update(p)),
           Head(todo[p]).call = "tag" => source[p] \in Entries(index.manifests),
           Head(todo[p]).call = "delete" => ParsesAsAny(Head(todo[p]).ref)
    PROVE  LET c == Head(todo[p])
               old(n) == TagOf(index.manifests, n)
               new(n) == TagOf(Update(p), n)
           IN  /\ c.call \in {"put", "add"} => \A n \in RefName : new(n) = old(n)
               /\ c.call = "tag" => \A n \in RefName :
                     new(n) = IF n = c.dst.name THEN source[p].digest ELSE old(n)
               /\ c.call = "delete" /\ c.ref.spelling = "digest" => \A n \in RefName :
                     new(n) = IF old(n) = c.ref.digest THEN Absent ELSE old(n)
               /\ c.call = "delete" /\ c.ref.spelling # "digest" =>
                     \/ \A n \in RefName : new(n) = old(n)
                     \/ \A n \in RefName : new(n) = IF n = c.ref.name THEN Absent ELSE old(n)
<1> DEFINE c == Head(todo[p])
           ms == index.manifests
           ns == Update(p)
           Same(n) == Entries(ms) \cap Name(n) = Entries(ns) \cap Name(n)
<1>1. /\ ms \in Seq(Descriptor) /\ ns \in Seq(Descriptor)
      /\ Entries(ms) \subseteq Descriptor /\ Absent \notin Digest
  BY UpdateEntries, SentinelAssumption DEF AgreeInv, TypeInv, TypeOK, Entries
<1>2. \A n \in RefName : Same(n) => TagOf(ns, n) = TagOf(ms, n)
  BY <1>1, SameTag
<1>3. CASE c.call \in {"put", "add"}
  <2>1. Entries(ns) = Entries(ms) \cup {ImageDescriptor(c.img)}
    BY <1>3, UpdateEntries
  <2>2. \A n \in RefName : ImageDescriptor(c.img) \notin Name(n)
    BY NameAssumption DEF ImageDescriptor, Name
  <2>3. \A n \in RefName : Same(n)
    BY <2>1, <2>2
  <2> QED
    BY <1>2, <1>3, <2>3
<1>4. CASE c.call = "tag"
  <2> DEFINE desc == [source[p] EXCEPT !.name = c.dst.name]
  <2>1. /\ c.dst.name \in RefName /\ source[p] \in Descriptor
        /\ Entries(ns) = (Entries(ms) \ Name(c.dst.name)) \cup {desc}
    BY <1>4, UpdateEntries
  <2>2. desc \in Descriptor /\ desc.digest = source[p].digest /\ desc.name = c.dst.name
    BY <2>1 DEF Descriptor
  <2> HIDE DEF c, ms, ns, desc, Same
  <2>3. ASSUME NEW n \in RefName
        PROVE  TagOf(ns, n) = IF n = c.dst.name THEN source[p].digest ELSE TagOf(ms, n)
    <3>1. CASE n = c.dst.name
      <4>1. desc \in Entries(ns) \cap Name(n)
        BY <2>1, <2>2, <3>1 DEF Name
      <4> QED
        BY <1>1, <2>2, <3>1, <4>1, TagOfName DEF ns
    <3>2. CASE n # c.dst.name
      <4>1. Name(n) \cap Name(c.dst.name) = {} /\ desc \notin Name(n)
        BY <2>2, <3>2 DEF Name
      <4>2. Same(n)
        BY <2>1, <4>1 DEF Same
      <4> QED
        BY <1>2, <3>2, <4>2
    <3> QED
      BY <3>1, <3>2
  <2> QED
    BY <1>4, <2>3 DEF c, ms, ns
<1>5. CASE c.call = "delete"
  <2> DEFINE M == ReferenceToMatcher(c.ref)
  <2>1. c.ref \in Ref /\ ParsesAsAny(c.ref) /\ Entries(ns) = Entries(ms) \ M
    BY <1>5, UpdateEntries
  <2>2. CASE c.ref.spelling = "digest" /\ c.ref.digest \in Digest /\ M = Digests({c.ref.digest})
    <3> HIDE DEF c, ms, ns, M, Same
    <3>1. ASSUME NEW n \in RefName
          PROVE  TagOf(ns, n) = IF TagOf(ms, n) = c.ref.digest THEN Absent ELSE TagOf(ms, n)
      <4>1. CASE Entries(ms) \cap Name(n) = {}
        <5>1. Entries(ns) \cap Name(n) = {}
          BY <2>1, <4>1
        <5> QED
          BY <1>1, <2>2, <4>1, <5>1, TagOfName DEF ms, ns
      <4>2. CASE Entries(ms) \cap Name(n) # {}
        <5>1. PICK e \in Entries(ms) \cap Name(n) : TRUE
          BY <4>2
        <5>2. TagOf(ms, n) = e.digest /\ \A f \in Entries(ms) \cap Name(n) : f = e
          <6>1. n # NoName
            BY NameAssumption
          <6>2. \A f \in Entries(ms) \cap Name(n) : f = e
            BY <5>1, <6>1, EntryOfName DEF Name, ms
          <6> QED
            BY <1>1, <5>1, <6>2, TagOfName DEF ms
        <5>3. CASE e.digest = c.ref.digest
          <6>1. e \in M
            BY <1>1, <2>2, <5>1, <5>3 DEF Digests
          <6>2. Entries(ns) \cap Name(n) = {}
            BY <2>1, <5>2, <6>1
          <6> QED
            BY <1>1, <5>2, <5>3, <6>2, TagOfName DEF ns
        <5>4. CASE e.digest # c.ref.digest
          <6>1. e \in Entries(ns) \cap Name(n)
            BY <2>1, <2>2, <5>1, <5>4 DEF Digests
          <6> QED
            BY <1>1, <5>2, <5>4, <6>1, TagOfName DEF ns
        <5> QED
          BY <5>3, <5>4
      <4> QED
        BY <4>1, <4>2
    <3> QED
      BY <1>5, <2>2, <3>1 DEF c, ms, ns
  <2>3. CASE c.ref.spelling # "digest" /\ c.ref.name \in RefName /\ M \subseteq Name(c.ref.name)
    <3> HIDE DEF c, ms, ns, M, Same
    <3>1. ASSUME NEW n \in RefName, n # c.ref.name
          PROVE  TagOf(ns, n) = TagOf(ms, n)
      <4>1. Name(n) \cap Name(c.ref.name) = {}
        BY <3>1 DEF Name
      <4>2. Same(n)
        BY <2>1, <2>3, <4>1 DEF Same
      <4> QED
        BY <1>2, <4>2
    <3>2. CASE Entries(ms) \cap M = {}
      <4>1. \A n \in RefName : Same(n)
        BY <2>1, <3>2 DEF Same
      <4> QED
        BY <1>2, <1>5, <2>3, <4>1 DEF c, ms, ns
    <3>3. CASE Entries(ms) \cap M # {}
      <4>1. PICK e \in Entries(ms) \cap M : TRUE
        BY <3>3
      <4>2. \A f \in Entries(ms) \cap Name(c.ref.name) : f = e
        <5>1. c.ref.name # NoName
          BY <2>3, NameAssumption
        <5> QED
          BY <2>3, <4>1, <5>1, EntryOfName DEF Name, ms
      <4>3. Entries(ns) \cap Name(c.ref.name) = {}
        BY <2>1, <4>1, <4>2
      <4>4. TagOf(ns, c.ref.name) = Absent
        BY <1>1, <2>3, <4>3, TagOfName DEF ns
      <4> QED
        BY <1>5, <2>3, <3>1, <4>4 DEF c, ms, ns
    <3> QED
      BY <3>2, <3>3
  <2> QED
    BY <2>1, <2>2, <2>3, MatcherCases
<1> QED
  BY <1>3, <1>4, <1>5 DEF Mutates

\* The file is usable, as TagStore sees it.
Usable == index.exists => Readable \/ Writing # {}

\* The step in which a mutation takes effect is one operation of TagStore, or none when
\* it removes nothing.
LEMMA MutationIsOperation ==
    ASSUME SerialInv, SerialInv', NEW p \in Proc, Truncate(p), Readable,
           Head(todo[p]).call # "open",
           Manifests = index.manifests, Manifests' = Update(p), Usable, Usable'
    PROVE  TS!Next \/ UNCHANGED TS!vars
<1> DEFINE c == Head(todo[p])
           listed == Listed(Manifests)
           tag == [n \in RefName |-> TagOf(Manifests, n)]
<1>1. /\ AgreeInv /\ TypeInv /\ Alone(p)
      /\ NoDuplicateName(index.manifests) /\ Anchored(index.manifests)
  BY DEF SerialInv, AgreeInv, UniqueNames, Lists
<1>2. /\ Mutates(p) /\ pc[p] # "idle"
      /\ c.call = "tag" => source[p] \in Entries(index.manifests)
      /\ c.call = "delete" => ParsesAsAny(c.ref)
  BY TruncateReady
<1>3. c \in Call
  BY <1>1, <1>2, CurrentCall
<1>4. /\ NoDuplicateName(Update(p)) /\ Anchored(Update(p))
  <2>1. Update(p) = mem'[p]
    BY <1>1 DEF Truncate, Alone
  <2> QED
    BY <2>1 DEF SerialInv, UniqueNames, Lists
<1>5. /\ StoredImages = listed /\ StoredImages' = Listed(Update(p))
      /\ CurrentTags = tag /\ CurrentTags' = [n \in RefName |-> TagOf(Update(p), n)]
  BY <1>1, <1>4, MappingOfList
<1>6. (index.exists => Readable \/ Writing # {}) /\ (index.exists => Readable \/ Writing # {})'
  BY DEF Usable
<1>7. CASE c.call \in {"put", "add"}
  <2>1. /\ StoredImages' = StoredImages \cup {c.img}
        /\ CurrentTags' = CurrentTags
    BY <1>1, <1>2, <1>4, <1>5, <1>7, UpdateListed, UpdateTags
  <2>2. c.img \in StoreImage
    BY <1>1, <1>2, <1>7, UpdateEntries
  <2>3. c.img \in ImageIndex => SubManifests[c.img] \subseteq StoredImages
    <3>1. c.img \in ImageIndex => c.call = "add"
      BY <1>3, <1>7, CallTypes, DigestAssumption
    <3>2. ListedFirst(todo[p], listed)
      BY <1>1, <1>2 DEF Alone
    <3>3. 1 \in DOMAIN todo[p] /\ todo[p][1] = c
      BY <1>1, <1>2, CurrentCall, Positions
    <3> HIDE DEF c, listed
    <3>4. c.call = "add" => SubManifests[c.img] \subseteq listed
      BY <3>2, <3>3 DEF ListedFirst
    <3> QED
      BY <1>5, <3>1, <3>4
  <2> HIDE DEF c, listed, tag
  <2>4. TS!Put(c.img)
    BY <1>6, <2>1, <2>2, <2>3 DEF TS!Put, StoreImage
  <2> QED
    BY <2>2, <2>4 DEF TS!Next, StoreImage
<1>8. CASE c.call = "tag"
  <2> DEFINE n == c.dst.name
             d == source[p].digest
  <2>1. /\ StoredImages' = StoredImages
        /\ CurrentTags' = [m \in RefName |-> IF m = n THEN d ELSE TagOf(index.manifests, m)]
    BY <1>1, <1>2, <1>4, <1>5, <1>8, UpdateListed, UpdateTags
  <2>2. n \in RefName
    BY <1>1, <1>2, <1>8, UpdateEntries
  <2>3. d \in StoredImages /\ d \in StoreImage
    BY <1>1, <1>2, <1>5, <1>8 DEF Listed, Anchored
  <2> HIDE DEF c, n, d, listed
  <2>4. CurrentTags' = [CurrentTags EXCEPT ![n] = d]
    BY <1>5, <2>1, <2>2
  <2> HIDE DEF tag
  <2>5. TS!Tag(n, d)
    BY <1>6, <2>1, <2>3, <2>4 DEF TS!Tag
  <2> QED
    BY <2>2, <2>3, <2>5 DEF TS!Next, StoreImage
<1>9. CASE c.call = "delete" /\ c.ref.spelling = "digest"
  <2> DEFINE d == c.ref.digest
  <2>1. /\ StoredImages' = StoredImages \ {d}
        /\ CurrentTags' = [m \in RefName |-> IF TagOf(index.manifests, m) = d THEN Absent
                                             ELSE TagOf(index.manifests, m)]
    BY <1>1, <1>2, <1>4, <1>5, <1>9, UpdateListed, UpdateTags
  <2>2. CurrentTags' = [m \in RefName |-> IF CurrentTags[m] = d THEN Absent ELSE CurrentTags[m]]
    BY <1>5, <2>1
  <2>3. d \in Digest
    BY <1>1, <1>2, <1>9, UpdateEntries, MatcherCases
  <2> HIDE DEF c, d, listed
  <2>4. CASE d \in StoreImage
    <3> HIDE DEF tag
    <3>1. TS!DeleteImage(d)
      BY <1>6, <2>1, <2>2 DEF TS!DeleteImage
    <3> QED
      BY <2>4, <3>1 DEF TS!Next, StoreImage
  <2>5. CASE d \notin StoreImage
    <3>1. \A e \in Entries(index.manifests) : e.digest # d
      BY <1>1, <2>5 DEF Anchored
    <3>2. d \notin StoredImages
      BY <1>5, <3>1 DEF Listed, listed
    <3>3. \A m \in RefName : TagOf(index.manifests, m) # d
      <4> TAKE m \in RefName
      <4>1. index.manifests \in Seq(Descriptor) /\ d # Absent
        BY <1>1, <2>3, SentinelAssumption DEF TypeInv, TypeOK
      <4> QED
        BY <1>1, <3>1, <4>1, TagOfName
    <3>4. CurrentTags' = CurrentTags
      BY <1>5, <2>1, <3>3
    <3>5. StoredImages' = StoredImages
      BY <2>1, <3>2
    <3> HIDE DEF tag
    <3> QED
      BY <1>6, <3>4, <3>5 DEF TS!vars
  <2> QED
    BY <2>4, <2>5
<1>10. CASE c.call = "delete" /\ c.ref.spelling # "digest"
  <2> DEFINE n == c.ref.name
  <2>1. /\ StoredImages' = StoredImages
        /\ \/ CurrentTags' = [m \in RefName |-> TagOf(index.manifests, m)]
           \/ CurrentTags' = [m \in RefName |-> IF m = n THEN Absent ELSE TagOf(index.manifests, m)]
    BY <1>1, <1>2, <1>4, <1>5, <1>10, UpdateListed, UpdateTags
  <2>2. n \in RefName
    BY <1>1, <1>2, <1>10, UpdateEntries, MatcherCases
  <2> HIDE DEF c, n, listed
  <2>3. CurrentTags' = CurrentTags \/ CurrentTags' = [CurrentTags EXCEPT ![n] = Absent]
    BY <1>5, <2>1, <2>2
  <2> HIDE DEF tag
  <2>4. CASE CurrentTags' = CurrentTags
    BY <1>6, <2>1, <2>4 DEF TS!vars
  <2>5. CASE CurrentTags' = [CurrentTags EXCEPT ![n] = Absent]
    <3>1. TS!DeleteName(n)
      BY <1>6, <2>1, <2>5 DEF TS!DeleteName
    <3> QED
      BY <2>2, <3>1 DEF TS!Next
  <2> QED
    BY <2>3, <2>4, <2>5
<1> QED
  BY <1>2, <1>7, <1>8, <1>9, <1>10 DEF Mutates

\* Every step of the only process is one step of TagStore or none.
LEMMA StepRefines ==
    ASSUME SerialInv, [Next]_vars
    PROVE  [TS!Next]_TS!vars
<1>1. SerialInv'
  BY NextSerialInv
<1>2. ASSUME NEW p \in Proc, Acts(p)
      PROVE  TS!Next \/ UNCHANGED TS!vars
  <2>1. /\ Writing # {} <=> pc[p] = "write"
        /\ Writing' # {} <=> pc'[p] = "write"
        /\ Manifests = CurrentOf(p)
    BY AloneManifests DEF SerialInv
  <2>2. Anchored(<<>>)
    BY DEF Anchored, Entries
  <2>3. Anchored(Manifests) /\ Anchored(Manifests')
    <3>1. ASSUME NEW ms \in Lists \cup Lists' \cup {<<>>}
          PROVE  Anchored(ms)
      BY <1>1, <2>2 DEF SerialInv
    <3>2. Manifests \in Lists \cup {<<>>} /\ Manifests' \in Lists' \cup {<<>>}
      <4>1. Manifests' = CurrentOf(p)'
        BY AloneManifests DEF SerialInv
      <4> QED
        BY <2>1, <4>1 DEF CurrentOf, Lists
    <3> QED
      BY <3>1, <3>2
  <2>4. CASE /\ Manifests' = Manifests
             /\ (index.exists => Readable \/ pc[p] = "write")
                   = (index'.exists => Readable' \/ pc'[p] = "write")
    <3>1. (index.exists => Readable \/ Writing # {})
             = (index'.exists => Readable' \/ Writing' # {})
      BY <2>1, <2>4
    <3>2. StoredImages' = StoredImages /\ CurrentTags' = CurrentTags
      BY <2>4 DEF StoredImages, CurrentTags
    <3> QED
      BY <3>1, <3>2 DEF TS!vars
  <2>5. CASE /\ Truncate(p) /\ Readable /\ Head(todo[p]).call # "open"
             /\ Manifests = index.manifests /\ Manifests' = Update(p)
    <3>1. pc'[p] = "write"
      BY <2>5 DEF Truncate, SerialInv, AgreeInv, TypeInv, TypeOK
    <3>2. Usable /\ Usable'
      BY <2>1, <2>5, <3>1 DEF Usable
    <3> QED
      BY <1>1, <2>5, <3>2, MutationIsOperation
  <2>6. CASE /\ Exit(p) /\ pc[p] = "write" /\ index.exists
             /\ index'.exists /\ ~Readable' /\ Manifests' = <<>>
    <3>1. pc'[p] = "idle"
      BY <2>6 DEF Exit, SerialInv, AgreeInv, TypeInv, TypeOK
    <3>2. StoredImages' = {}
      BY <2>3, <2>6, MappingOfList DEF Listed, Entries
    <3>3. CurrentTags' = TS!Untagged
      BY <2>6 DEF CurrentTags, FirstMatch, TS!Untagged
    <3>4. (index.exists => Readable \/ Writing # {})
          /\ (index'.exists => Readable' \/ Writing' # {}) = FALSE
      BY <2>1, <2>6, <3>1
    <3>5. TS!Lose
      BY <3>2, <3>3, <3>4 DEF TS!Lose
    <3> QED
      BY <3>5 DEF TS!Next
  <2> QED
    BY <1>2, <2>4, <2>5, <2>6, ManifestsStep
<1>3. CASE UNCHANGED vars
  <2>1. UNCHANGED <<pc, mem, index>>
    BY <1>3 DEF vars
  <2> QED
    BY <2>1 DEF TS!vars, StoredImages, CurrentTags, Manifests, Writing, Readable
<1> QED
  BY <1>2, <1>3 DEF Next, Quiet, Acts

\* One user at a time: for any images, names and commands, every call of Store that
\* changes the index is one atomic step of the map from names to images, and a kill
\* between the truncation and the write of the file is the only way to lose it.
THEOREM StoreImplementsTagStore ==
    ASSUME OneProcess
    PROVE  Spec => ImplementsTagStore
<1>1. Init => SerialInv /\ TS!Init
  <2> SUFFICES ASSUME Init PROVE SerialInv /\ TS!Init
    OBVIOUS
  <2>1. SerialInv
    BY InitSerialInv
  <2>2. ~index.exists /\ ~Readable /\ Writing = {}
    BY DEF Init, Readable, Writing
  <2>3. Manifests = <<>>
    BY <2>2 DEF Manifests
  <2>4. StoredImages = {} /\ CurrentTags = TS!Untagged
    BY <2>3 DEF StoredImages, CurrentTags, FirstMatch, TS!Untagged
  <2> QED
    BY <2>1, <2>2, <2>4 DEF TS!Init
<1>2. SerialInv /\ [Next]_vars => SerialInv' /\ [TS!Next]_TS!vars
  BY NextSerialInv, StepRefines
<1> QED
  BY <1>1, <1>2, PTL DEF Spec, ImplementsTagStore, TS!Spec

-----------------------------------------------------------------------------
(* Nothing stops a process from outside *)

\* The file is readable, or its only writer is about to make it so.
CalmInv == SerialInv /\ (index.exists => Readable \/ \E p \in Proc : pc[p] = "write")

\* A process that truncated the file returns no error before it wrote it.
LEMMA WriterWrites ==
    ASSUME NEW p \in Proc, pc[p] = "write", Step(p)
    PROVE  WriteIndex(p)
BY DEF Step, OpenExisting, OpenMissing, BeginPut, BeginAddIndexManifest, WriteBlob, FuzzyKeep,
       FuzzyLookup, ResolveDescriptor, ReadImage, ReadIndex, Truncate, ReturnError,
       RefusesReference, NeedsIndex, FindsNothing, Calls

\* No step of an undisturbed process leaves a file that cannot be read.
LEMMA NextCalmInv == CalmInv /\ [CalmNext]_vars => CalmInv'
<1> SUFFICES ASSUME CalmInv, [CalmNext]_vars PROVE CalmInv'
  OBVIOUS
<1>1. SerialInv /\ SerialInv'
  <2>1. [Next]_vars
    BY DEF CalmNext, Next
  <2> QED
    BY <2>1, NextSerialInv DEF CalmInv
<1>2. ASSUME NEW p \in Proc, (\E c \in Commands : Start(p, c)) \/ Step(p)
      PROVE  index'.exists => Readable' \/ \E q \in Proc : pc'[q] = "write"
  <2>1. Acts(p) /\ \A q \in Proc : q = p
    BY <1>1, <1>2 DEF Acts, SerialInv, OneProcess
  <2>2. index.exists => Readable \/ pc[p] = "write"
    BY <2>1 DEF CalmInv
  <2>3. CASE (index.exists => Readable \/ pc[p] = "write")
                = (index'.exists => Readable' \/ pc'[p] = "write")
    BY <2>2, <2>3
  <2>4. CASE Truncate(p)
    BY <1>1, <2>4 DEF Truncate, SerialInv, AgreeInv, TypeInv, TypeOK
  <2>5. CASE pc[p] = "write" /\ ~Readable'
    <3>1. WriteIndex(p)
      BY <1>2, <2>5, WriterWrites DEF Start
    <3> QED
      BY <1>1, <2>5, <3>1, WrittenList
  <2> QED
    BY <1>1, <2>1, <2>3, <2>4, <2>5, ManifestsStep
<1>3. CASE UNCHANGED vars
  BY <1>1, <1>3 DEF CalmInv, vars, Readable
<1> QED
  BY <1>1, <1>2, <1>3 DEF CalmInv, CalmNext, Quiet

\* As long as commands run one after the other and none is killed, the store can be
\* opened again whenever none runs: every error return comes before the file is
\* truncated.
THEOREM StoreStaysUsable ==
    ASSUME OneProcess
    PROVE  CalmSpec => []UsableWhenQuiet
<1>1. Init => CalmInv
  BY InitSerialInv DEF CalmInv, Init
<1>2. CalmInv => UsableWhenQuiet
  BY DEF CalmInv, UsableWhenQuiet
<1> QED
  BY <1>1, <1>2, NextCalmInv, PTL DEF CalmSpec
=============================================================================
