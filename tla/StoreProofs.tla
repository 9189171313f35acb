----------------------------- MODULE StoreProofs -----------------------------
(***************************************************************************)
(* The invariants of Store for any number of processes, images, names and  *)
(* commands, any interleaving and any kill.                                *)
(***************************************************************************)
EXTENDS Store, IndexerProofs, SequenceTheorems

-----------------------------------------------------------------------------
(* What calls and references look like *)

\* What a reference has when it parses.
LEMMA RefTypes ==
    ASSUME NEW r \in Ref
    PROVE  /\ ParsesAsNamed(r) => r.name \in RefName /\ ParsesAsAny(r)
           /\ ParsesAsAny(r) => Mentions(r) \subseteq Key
BY DEF Ref, Canonical, Familiar, DigestRef, EmptyRef, Malformed, ParsesAsNamed,
       ParsesAsAny, Mentions, Key

\* The fields of each kind of call.
LEMMA CallTypes ==
    ASSUME NEW c \in Call
    PROVE  /\ c.call \in {"open", "put", "add", "tag", "delete", "fuzzy", "show"}
           /\ c.call = "put" => c.img \in ImageManifest
           /\ c.call = "add" => c.img \in ImageIndex
           /\ c.call \in {"tag", "delete", "show"} => c \in RefCall /\ c.ref \in Ref
           /\ c.call = "tag" => c.dst \in Ref
           /\ c.call = "fuzzy" => c.next \in RefCall
BY DEF Call, RefCall, Open, Put, AddIndexManifest, Tag, Delete, Show, Fuzzy

\* A call with a reference is a call, whatever digest FuzzyResolveRef puts there.
LEMMA RefCallTypes ==
    ASSUME NEW c \in RefCall
    PROVE  /\ c \in Call
           /\ c.call \in {"tag", "delete", "show"}
           /\ \A d \in Digest : [c EXCEPT !.ref = DigestRef(d)] \in RefCall
<1>1. \A d \in Digest : DigestRef(d) \in Ref
  BY DEF Ref
<1> QED
  BY <1>1 DEF Call, RefCall, Tag, Delete, Show

\* The constructors of calls make calls.
LEMMA CallsExist ==
    /\ Open \in Call
    /\ \A d \in ImageManifest : Put(d) \in Call
    /\ \A d \in ImageIndex : AddIndexManifest(d) \in Call
    /\ \A s, t \in Ref : Tag(s, t) \in Call /\ Fuzzy(Tag(s, t)) \in Call
    /\ \A r \in Ref : Delete(r) \in Call /\ Fuzzy(Delete(r)) \in Call /\ Fuzzy(Show(r)) \in Call
    /\ \A d \in Digest : DigestRef(d) \in Ref
    /\ \A d \in ImageManifest : DigestRef(d) \in Ref
    /\ \A d \in ImageIndex : DigestRef(d) \in Ref
BY DigestAssumption DEF Call, RefCall, Ref

\* The calls of a build for its architectures: two each, a put first, no index.
LEMMA ArchCallsProperties ==
    ASSUME NEW archs \in Seq(ArchImage)
    PROVE  /\ Len(archs) \in Nat /\ DOMAIN archs = 1 .. Len(archs)
           /\ ArchCalls(archs) \in Seq(Call)
           /\ Len(ArchCalls(archs)) = 2 * Len(archs)
           /\ \A i \in 1 .. Len(archs) : ArchCalls(archs)[2 * i - 1] = Put(archs[i].img)
           /\ \A k \in 1 .. (2 * Len(archs)) : ArchCalls(archs)[k].call # "add"
<1> DEFINE Half(k) == (k + 1) \div 2
<1>1. Len(archs) \in Nat /\ DOMAIN archs = 1 .. Len(archs) /\ 2 * Len(archs) \in Nat
  OBVIOUS
<1>2. ASSUME NEW k \in 1 .. (2 * Len(archs))
      PROVE  /\ ArchCalls(archs)[k] = Push(archs[Half(k)].img, archs[Half(k)].ref)[2 - (k % 2)]
             /\ 2 - (k % 2) \in {1, 2}
             /\ archs[Half(k)].img \in ImageManifest /\ archs[Half(k)].ref \in Ref
  <2>1. Half(k) \in 1 .. Len(archs)
    OBVIOUS
  <2>2. archs[Half(k)] \in ArchImage
    BY <2>1
  <2> QED
    BY <2>2 DEF ArchCalls, ArchImage
<1>3. ASSUME NEW k \in 1 .. (2 * Len(archs))
      PROVE  ArchCalls(archs)[k] \in Call /\ ArchCalls(archs)[k].call # "add"
  <2>1. ASSUME NEW d \in ImageManifest, NEW r \in Ref
        PROVE  /\ Push(d, r)[1] \in Call /\ Push(d, r)[1].call # "add"
               /\ Push(d, r)[2] \in Call /\ Push(d, r)[2].call # "add"
    <3>1. Push(d, r)[1] = Put(d) /\ Push(d, r)[2] = Tag(DigestRef(d), r)
      BY DEF Push
    <3>2. Put(d) \in Call /\ Tag(DigestRef(d), r) \in Call
      BY CallsExist
    <3>3. Put(d).call # "add" /\ Tag(DigestRef(d), r).call # "add"
      BY DEF Put, Tag
    <3> QED
      BY <3>1, <3>2, <3>3
  <2>2. CASE 2 - (k % 2) = 1
    BY <1>2, <2>1, <2>2
  <2>3. CASE 2 - (k % 2) = 2
    BY <1>2, <2>1, <2>3
  <2> QED
    BY <1>2, <2>2, <2>3
<1>4. ASSUME NEW i \in 1 .. Len(archs)
      PROVE  ArchCalls(archs)[2 * i - 1] = Put(archs[i].img)
  <2>1. i \in Nat /\ 2 * i - 1 \in 1 .. (2 * Len(archs))
    BY <1>1
  <2>2. Half(2 * i - 1) = i
    BY <2>1
  <2>3. 2 - ((2 * i - 1) % 2) = 1
    BY <2>1
  <2> HIDE DEF Half
  <2>4. ArchCalls(archs)[2 * i - 1] =
           Push(archs[Half(2 * i - 1)].img, archs[Half(2 * i - 1)].ref)[2 - ((2 * i - 1) % 2)]
    BY <1>2, <2>1
  <2>5. ArchCalls(archs)[2 * i - 1] = Push(archs[i].img, archs[i].ref)[1]
    BY <2>2, <2>3, <2>4
  <2> QED
    BY <2>5 DEF Push
<1>5. ArchCalls(archs) \in Seq(Call) /\ Len(ArchCalls(archs)) = 2 * Len(archs)
  BY <1>1, <1>3 DEF ArchCalls
<1> QED
  BY <1>1, <1>3, <1>4, <1>5

\* Every command is a list of calls that is not empty.
LEMMA ScriptTypes ==
    ASSUME NEW c \in Command
    PROVE  /\ Script(c) \in Seq(Call)
           /\ Script(c) # <<>>
           /\ Len(Script(c)) \in Nat
<1>1. CASE c.do = "build"
  <2>1. c.archs \in Seq(ArchImage) /\ c.index \in ImageIndex /\ c.ref \in Ref
    BY <1>1 DEF Command
  <2>2. ArchCalls(c.archs) \in Seq(Call)
    BY <2>1, ArchCallsProperties
  <2>3. PushIndexManifest(c.index, c.ref) \in Seq(Call)
    BY <2>1, CallsExist DEF PushIndexManifest
  <2>4. BuildScript(c) \in Seq(Call)
    BY <2>2, <2>3 DEF BuildScript
  <2> QED
    BY <1>1, <2>4, CallsExist DEF Script
<1>2. CASE c.do # "build"
  BY <1>2, CallsExist DEF Script, Command, TagScript, DeleteScript, PullScript, InspectScript, Push
<1> QED
  BY <1>1, <1>2

-----------------------------------------------------------------------------
(* Type correctness *)

\* What a program counter says about the call in progress.
Shape(p) ==
    /\ pc[p] # "idle" => todo[p] # <<>>
    /\ pc[p] = "blobs" => pending[p] # <<>> /\ Head(todo[p]).call \in {"put", "add"}
    /\ pc[p] = "read" => Head(todo[p]).call \in {"put", "add", "tag", "show"}
    /\ pc[p] \in {"truncate", "write"} =>
          Head(todo[p]).call \in {"open", "put", "add", "tag", "delete"}
    /\ pc[p] \in {"read", "truncate", "write"} =>
          /\ Head(todo[p]).call \in {"tag", "show"} => source[p] \in Descriptor
          /\ Head(todo[p]).call = "tag" => ParsesAsNamed(Head(todo[p]).dst)

TypeInv == TypeOK /\ \A p \in Proc : Shape(p)

SameLocals(q) ==
    /\ pc'[q] = pc[q]
    /\ todo'[q] = todo[q]
    /\ pending'[q] = pending[q]
    /\ source'[q] = source[q]
    /\ mem'[q] = mem[q]

Acts(p) == (\E c \in Commands : Start(p, c)) \/ Step(p) \/ Stop(p)

\* A process changes the local variables of no other.
LEMMA OthersKeepLocals ==
    ASSUME TypeOK, NEW p \in Proc, Acts(p), NEW q \in Proc, q # p
    PROVE  SameLocals(q)
<1> USE DEF TypeOK, SameLocals
<1>1. CASE \E c \in Commands : Start(p, c)
  BY <1>1 DEF Start
<1>2. CASE Exit(p)
  BY <1>2 DEF Exit
<1>3. CASE Return(p)
  BY <1>3 DEF Return
<1>4. CASE OpenMissing(p) \/ BeginPut(p) \/ BeginAddIndexManifest(p) \/ WriteBlob(p)
  BY <1>4 DEF OpenMissing, BeginPut, BeginAddIndexManifest, WriteBlob
<1>5. CASE FuzzyKeep(p) \/ FuzzyLookup(p)
  BY <1>5 DEF FuzzyKeep, FuzzyLookup
<1>6. CASE ResolveDescriptor(p)
  BY <1>6 DEF ResolveDescriptor
<1>7. CASE ReadIndex(p) \/ Truncate(p)
  BY <1>7 DEF ReadIndex, Truncate
<1> QED
  BY <1>1, <1>2, <1>3, <1>4, <1>5, <1>6, <1>7
     DEF Acts, Step, Stop, OpenExisting, ReadImage, WriteIndex, ReturnError

\* Head and tail of a list that is not empty.
LEMMA FirstAndRest ==
    ASSUME NEW S, NEW s \in Seq(S), s # <<>>
    PROVE  /\ Head(s) \in S
           /\ Tail(s) \in Seq(S)
           /\ Len(s) \in Nat
           /\ Len(s) = 1 <=> Tail(s) = <<>>
<1>1. Head(s) \in S /\ Tail(s) \in Seq(S) /\ Len(Tail(s)) = Len(s) - 1
  BY HeadTailProperties
<1>2. Len(s) \in Nat
  OBVIOUS
<1>3. Tail(s) = <<>> <=> Len(Tail(s)) = 0
  BY <1>1, EmptySeq
<1> QED
  BY <1>1, <1>2, <1>3

\* Head and tail of the calls of a process that is not idle.
LEMMA CurrentCall ==
    ASSUME TypeInv, NEW p \in Proc, pc[p] # "idle"
    PROVE  /\ todo[p] \in Seq(Call)
           /\ todo[p] # <<>>
           /\ Head(todo[p]) \in Call
           /\ Tail(todo[p]) \in Seq(Call)
           /\ Len(todo[p]) \in Nat
           /\ Len(todo[p]) # 1 => Tail(todo[p]) # <<>>
<1>1. todo[p] \in Seq(Call) /\ todo[p] # <<>>
  BY DEF TypeInv, TypeOK, Shape
<1> QED
  BY <1>1, FirstAndRest

\* What a mutation is about to write is a list of descriptors.
LEMMA UpdateType ==
    ASSUME TypeInv, NEW p \in Proc, ReadIndex(p)
    PROVE  /\ Head(todo[p]).call \in {"put", "add", "tag", "delete"}
           /\ Update(p) \in Seq(Descriptor)
           /\ \A k \in DOMAIN Update(p) :
                 \/ \E i \in DOMAIN index.manifests : Update(p)[k] = index.manifests[i]
                 \/ /\ Head(todo[p]).call \in {"put", "add"}
                    /\ Update(p)[k] = ImageDescriptor(Head(todo[p]).img)
                 \/ /\ Head(todo[p]).call = "tag"
                    /\ Update(p)[k] = TaggedDescriptor(source[p], Head(todo[p]).dst.name)
<1> DEFINE c == Head(todo[p])
<1>1. pc[p] # "idle" /\ c.call \in {"put", "add", "tag", "delete"}
  BY DEF ReadIndex, Calls
<1>2. c \in Call /\ index.manifests \in Seq(Descriptor)
  BY <1>1, CurrentCall DEF TypeInv, TypeOK
<1>3. CASE c.call \in {"put", "add"}
  <2>1. ImageDescriptor(c.img) \in Descriptor
    BY <1>2, <1>3, CallTypes, DigestAssumption DEF ImageDescriptor, Descriptor, MediaTypeOf, MediaType
  <2>2. \/ Update(p) = Replaced(index.manifests, ImageDescriptor(c.img), PutMatcher(c.img))
        \/ Update(p) = Added(index.manifests, ImageDescriptor(c.img))
    BY <1>3 DEF Update
  <2> HIDE DEF c
  <2> QED
    BY <1>1, <1>2, <1>3, <2>1, <2>2, MutationsType DEF c
<1>4. CASE c.call = "tag"
  <2>1. c.dst.name \in RefName /\ source[p] \in Descriptor
    BY <1>1, <1>2, <1>4, CallTypes, RefTypes DEF TypeInv, Shape, ReadIndex, Calls
  <2>2. TaggedDescriptor(source[p], c.dst.name) \in Descriptor
    BY <2>1 DEF TaggedDescriptor, Descriptor
  <2>3. Update(p) = Replaced(index.manifests, TaggedDescriptor(source[p], c.dst.name),
                             Name(c.dst.name))
    BY <1>4 DEF Update
  <2> HIDE DEF c
  <2> QED
    BY <1>1, <1>2, <1>4, <2>2, <2>3, MutationsType DEF c
<1>5. CASE c.call = "delete"
  <2>1. Update(p) = Deleted(index.manifests, ReferenceToMatcher(c.ref))
    BY <1>5 DEF Update
  <2> HIDE DEF c
  <2> QED
    BY <1>1, <1>2, <1>5, <2>1, DeletedType DEF c
<1> QED
  BY <1>1, <1>3, <1>4, <1>5

\* The length of the index is a natural number and never zero.
LEMMA BytesType ==
    ASSUME NEW ms \in Seq(Descriptor)
    PROVE  Bytes(ms) \in Nat /\ Bytes(ms) > 0
<1> DEFINE named == {i \in DOMAIN ms : ms[i].name # NoName}
<1>1. Len(ms) \in Nat /\ named \subseteq 1 .. Len(ms)
  OBVIOUS
<1>2. IsFiniteSet(1 .. Len(ms))
  BY <1>1, FS_Interval
<1>3. Cardinality(named) \in Nat
  BY <1>1, <1>2, FS_Subset, FS_CardinalityType
<1> QED
  BY <1>1, <1>3 DEF Bytes

\* A message promises images and names that exist.
LEMMA TellType ==
    ASSUME TypeInv, NEW p \in Proc, pc[p] = "write"
    PROVE  Tell(p) \in [Key -> Digest \cup {Absent, Unknown}]
<1>1. told \in [Key -> Digest \cup {Absent, Unknown}]
  BY DEF TypeInv, TypeOK
<1>2. CASE Head(todo[p]).call = "tag"
  <2>1. source[p].digest \in Digest
    BY <1>2 DEF TypeInv, Shape, Descriptor
  <2> QED
    BY <1>1, <1>2, <2>1 DEF Tell
<1>3. CASE Head(todo[p]).call = "delete" /\ Len(todo[p]) = 1
  BY <1>1, <1>3 DEF Tell
<1> QED
  BY <1>1, <1>2, <1>3 DEF Tell

\* The end of a call, in any of the actions that end one.
LEMMA ReturnType ==
    ASSUME TypeInv, NEW p \in Proc, pc[p] # "idle", Return(p)
    PROVE  /\ pc' \in [Proc -> PC]
           /\ todo' \in [Proc -> Seq(Call)]
           /\ pending' \in [Proc -> Seq(Digest)]
           /\ source' \in [Proc -> Descriptor \cup {NoDescriptor}]
           /\ mem' \in [Proc -> Seq(Descriptor)]
           /\ Shape(p)'
           /\ todo'[p] = Tail(todo[p])
           /\ pc'[p] \in {"idle", "call"}
           /\ mem'[p] = <<>>
           /\ source'[p] = NoDescriptor
           /\ pending'[p] = <<>>
<1>1. /\ pc \in [Proc -> PC] /\ todo \in [Proc -> Seq(Call)]
      /\ pending \in [Proc -> Seq(Digest)] /\ mem \in [Proc -> Seq(Descriptor)]
      /\ source \in [Proc -> Descriptor \cup {NoDescriptor}]
  BY DEF TypeInv, TypeOK
<1>2. Tail(todo[p]) \in Seq(Call) /\ (Len(todo[p]) # 1 => Tail(todo[p]) # <<>>)
  BY CurrentCall
<1>3. /\ todo'[p] = Tail(todo[p]) /\ mem'[p] = <<>> /\ source'[p] = NoDescriptor
      /\ pending'[p] = <<>>
      /\ pc'[p] = IF Len(todo[p]) = 1 THEN "idle" ELSE "call"
  BY <1>1 DEF Return
<1>4. /\ pc' \in [Proc -> PC] /\ todo' \in [Proc -> Seq(Call)]
      /\ pending' \in [Proc -> Seq(Digest)] /\ mem' \in [Proc -> Seq(Descriptor)]
      /\ source' \in [Proc -> Descriptor \cup {NoDescriptor}]
  BY <1>1, <1>2 DEF Return, PC
<1>5. Shape(p)'
  BY <1>2, <1>3 DEF Shape
<1> QED
  BY <1>3, <1>4, <1>5
\* A reference that was resolved, or kept, leaves the call as it is otherwise.
LEMMA FuzzyStep ==
    ASSUME TypeInv, NEW p \in Proc, FuzzyKeep(p) \/ FuzzyLookup(p)
    PROVE  \E n \in RefCall : todo' = [todo EXCEPT ![p] = <<n>> \o Tail(todo[p])]
<1> DEFINE c == Head(todo[p])
<1>1. c.next \in RefCall /\ todo \in [Proc -> Seq(Call)]
  BY CurrentCall, CallTypes DEF FuzzyKeep, FuzzyLookup, Calls, TypeInv, TypeOK
<1>2. CASE FuzzyKeep(p)
  BY <1>1, <1>2 DEF FuzzyKeep
<1>3. CASE FuzzyLookup(p)
  <2>1. PICK i \in FirstMatch(index.manifests, EncodedDigestPrefix(c.next.ref)) :
           todo' = [todo EXCEPT ![p] =
                      <<[Head(@).next EXCEPT !.ref = DigestRef(index.manifests[i].digest)]>>
                          \o Tail(@)]
    BY <1>3 DEF FuzzyLookup
  <2>2. index.manifests \in Seq(Descriptor) /\ i \in DOMAIN index.manifests
    BY DEF TypeInv, TypeOK, FirstMatch
  <2>3. index.manifests[i] \in Descriptor
    BY <2>2
  <2>4. index.manifests[i].digest \in Digest
    BY <2>3 DEF Descriptor
  <2>5. [c.next EXCEPT !.ref = DigestRef(index.manifests[i].digest)] \in RefCall
    BY <1>1, <2>4, RefCallTypes
  <2> QED
    BY <1>1, <2>1, <2>5
<1> QED
  BY <1>2, <1>3

\* The type invariant holds at first.
LEMMA InitTypeInv == Init => TypeInv
<1> SUFFICES ASSUME Init PROVE TypeInv
  OBVIOUS
<1>1. MaxCommands \in Nat
  BY CommandAssumption
<1>2. TypeOK
  BY <1>1 DEF Init, TypeOK, PC
<1>3. \A p \in Proc : Shape(p)
  BY DEF Init, Shape
<1> QED
  BY <1>2, <1>3 DEF TypeInv

\* The local variables that are not those of one call.
LEMMA StartType ==
    ASSUME TypeInv, NEW p \in Proc, NEW c \in Commands, Start(p, c)
    PROVE  TypeOK' /\ Shape(p)'
<1>1. Script(c) \in Seq(Call) /\ Script(c) # <<>>
  BY ScriptTypes, CommandAssumption
<1>2. started + 1 \in 0 .. MaxCommands
  BY CommandAssumption DEF TypeInv, TypeOK, Start
<1>3. TypeOK'
  BY <1>1, <1>2 DEF TypeInv, TypeOK, Start, PC
<1>4. Shape(p)'
  BY <1>1 DEF TypeInv, TypeOK, Start, Shape
<1> QED
  BY <1>3, <1>4

\* A step of a process, or its death, keeps types and its own shape.
LEMMA StepType ==
    ASSUME TypeInv, NEW p \in Proc, Step(p) \/ Stop(p)
    PROVE  TypeOK' /\ Shape(p)'
<1> USE DEF TypeInv
<1>1. /\ TypeOK /\ Shape(p)
      /\ \A d \in ImageManifest : d \in Digest /\ Parts[d] \in Seq(Digest) /\ Parts[d] # <<>>
      /\ \A d \in ImageIndex : d \in Digest
  BY ContentAssumption, DigestAssumption
<1>2. CASE Exit(p)
  <2>1. TypeOK'
    BY <1>2 DEF Exit, TypeOK, PC
  <2>2. Shape(p)'
    BY <1>2 DEF Exit, TypeOK, Shape
  <2> QED
    BY <2>1, <2>2
<1>3. CASE OpenExisting(p) \/ ReadImage(p)
  <2>1. pc[p] # "idle" /\ Return(p) /\ UNCHANGED <<blobs, index, started, told>>
    BY <1>3 DEF OpenExisting, ReadImage, Calls
  <2> QED
    BY <2>1, ReturnType DEF TypeOK
<1>4. CASE OpenMissing(p)
  <2>1. TypeOK'
    BY <1>4 DEF OpenMissing, TypeOK, PC
  <2>2. Shape(p)'
    BY <1>4 DEF OpenMissing, TypeOK, Shape, Calls
  <2> QED
    BY <2>1, <2>2
<1>5. CASE BeginPut(p)
  <2>1. Head(todo[p]).call = "put" /\ Head(todo[p]).img \in ImageManifest
    BY <1>5, CurrentCall, CallTypes DEF BeginPut, Calls
  <2>2. AsWriteLayers(Head(todo[p]).img) \in Seq(Digest) /\ AsWriteLayers(Head(todo[p]).img) # <<>>
    BY <1>1, <2>1, AppendProperties DEF AsWriteLayers
  <2>3. TypeOK'
    BY <1>5, <2>2 DEF BeginPut, TypeOK, PC
  <2>4. Shape(p)'
    BY <1>5, <2>1, <2>2 DEF BeginPut, TypeOK, Shape, Calls
  <2> QED
    BY <2>3, <2>4
<1>6. CASE BeginAddIndexManifest(p)
  <2>1. Head(todo[p]).call = "add" /\ Head(todo[p]).img \in ImageIndex
    BY <1>6, CurrentCall, CallTypes DEF BeginAddIndexManifest, Calls
  <2>2. <<Head(todo[p]).img>> \in Seq(Digest) /\ <<Head(todo[p]).img>> # <<>>
    BY <1>1, <2>1
  <2>3. TypeOK'
    BY <1>6, <2>2 DEF BeginAddIndexManifest, TypeOK, PC
  <2>4. Shape(p)'
    BY <1>6, <2>1, <2>2 DEF BeginAddIndexManifest, TypeOK, Shape, Calls
  <2> QED
    BY <2>3, <2>4
<1>7. CASE WriteBlob(p)
  <2>1. pending[p] \in Seq(Digest) /\ pending[p] # <<>>
    BY <1>7 DEF WriteBlob, TypeOK, Shape
  <2>2. Head(pending[p]) \in Digest /\ Tail(pending[p]) \in Seq(Digest)
    BY <2>1, FirstAndRest
  <2>3. Len(pending[p]) # 1 => Tail(pending[p]) # <<>>
    BY <2>1, FirstAndRest
  <2>4. TypeOK'
    BY <1>7, <2>2 DEF WriteBlob, TypeOK, PC
  <2>5. Shape(p)'
    BY <1>7, <2>3 DEF WriteBlob, TypeOK, Shape
  <2> QED
    BY <2>4, <2>5
<1>8. CASE FuzzyKeep(p) \/ FuzzyLookup(p)
  <2>1. /\ Head(todo[p]).call = "fuzzy" /\ pc[p] = "call"
        /\ Tail(todo[p]) \in Seq(Call)
    BY <1>8, CurrentCall DEF FuzzyKeep, FuzzyLookup, Calls
  <2>2. PICK n \in RefCall : todo' = [todo EXCEPT ![p] = <<n>> \o Tail(todo[p])]
    BY <1>8, FuzzyStep
  <2>3. <<n>> \o Tail(todo[p]) \in Seq(Call) /\ <<n>> \o Tail(todo[p]) # <<>>
    BY <2>1, <2>2, RefCallTypes
  <2>4. UNCHANGED <<blobs, index, pc, pending, source, mem, started, told>>
    BY <1>8 DEF FuzzyKeep, FuzzyLookup
  <2>5. TypeOK'
    BY <2>2, <2>3, <2>4 DEF TypeOK
  <2>6. Shape(p)'
    BY <2>1, <2>2, <2>3, <2>4 DEF TypeOK, Shape
  <2> QED
    BY <2>5, <2>6
<1>9. CASE ResolveDescriptor(p)
  <2>1. PICK i \in FirstMatch(index.manifests, ReferenceToMatcher(Head(todo[p]).ref)) :
           source' = [source EXCEPT ![p] = index.manifests[i]]
    BY <1>9 DEF ResolveDescriptor
  <2>2. index.manifests[i] \in Descriptor
    BY <2>1 DEF TypeOK, FirstMatch
  <2>3. TypeOK'
    BY <1>9, <2>1, <2>2 DEF ResolveDescriptor, TypeOK, PC
  <2>4. Shape(p)'
    BY <1>9, <2>1, <2>2 DEF ResolveDescriptor, TypeOK, Shape, Calls
  <2> QED
    BY <2>3, <2>4
<1>10. CASE ReadIndex(p)
  <2>1. Update(p) \in Seq(Descriptor)
    BY <1>10, UpdateType
  <2>2. TypeOK'
    BY <1>10, <2>1 DEF ReadIndex, TypeOK, PC
  <2>3. Shape(p)'
    BY <1>10 DEF ReadIndex, TypeOK, Shape, Calls
  <2> QED
    BY <2>2, <2>3
<1>11. CASE Truncate(p)
  <2>1. TypeOK'
    BY <1>11 DEF Truncate, TypeOK, PC
  <2>2. Shape(p)'
    BY <1>11 DEF Truncate, TypeOK, Shape
  <2> QED
    BY <2>1, <2>2
<1>12. CASE WriteIndex(p)
  <2>1. pc[p] = "write" /\ Return(p) /\ UNCHANGED <<blobs, started>>
    BY <1>12 DEF WriteIndex
  <2>2. mem[p] \in Seq(Descriptor) /\ Bytes(mem[p]) \in Nat
    BY BytesType DEF TypeOK
  <2>3. index' \in [exists : BOOLEAN, manifests : Seq(Descriptor), size : Nat]
    BY <1>12, <2>2 DEF WriteIndex, TypeOK
  <2>4. told' \in [Key -> Digest \cup {Absent, Unknown}]
    BY <1>12, <2>1, TellType DEF WriteIndex
  <2> QED
    BY <2>1, <2>3, <2>4, ReturnType DEF TypeOK
<1> QED
  BY <1>2, <1>3, <1>4, <1>5, <1>6, <1>7, <1>8, <1>9, <1>10, <1>11, <1>12
     DEF Step, Stop, ReturnError

\* Every step keeps the type invariant.
LEMMA NextTypeInv == TypeInv /\ [Next]_vars => TypeInv'
<1> SUFFICES ASSUME TypeInv, [Next]_vars PROVE TypeInv'
  OBVIOUS
<1>1. ASSUME NEW p \in Proc, Acts(p)
      PROVE  TypeInv'
  <2>1. TypeOK' /\ Shape(p)'
    BY <1>1, StartType, StepType DEF Acts
  <2>2. ASSUME NEW q \in Proc, q # p
        PROVE  Shape(q)'
    <3>1. SameLocals(q)
      BY <1>1, <2>2, OthersKeepLocals DEF TypeInv
    <3> QED
      BY <3>1 DEF TypeInv, Shape, SameLocals
  <2> QED
    BY <2>1, <2>2 DEF TypeInv
<1>2. CASE UNCHANGED vars
  BY <1>2 DEF vars, TypeInv, TypeOK, Shape
<1> QED
  BY <1>1, <1>2 DEF Next, Quiet, Acts

\* The file and the local variables of every process hold lists of descriptors,
\* digests and calls, and what a program counter promises about them is there:
\* a blob left to write, a source that was resolved.
THEOREM TypeCorrect == Spec => []TypeOK
<1>1. TypeInv => TypeOK
  BY DEF TypeInv
<1> QED
  BY <1>1, InitTypeInv, NextTypeInv, PTL DEF Spec

-----------------------------------------------------------------------------
(* Names *)

\* A step adds one list at most to those in the file and in the processes: what
\* a mutation computes from the list it read.
LEMMA NewLists ==
    ASSUME TypeInv, NEW p \in Proc, Acts(p), NEW ms \in Lists'
    PROVE  ms \in Lists \/ ms = <<>> \/ (ReadIndex(p) /\ ms = Update(p))
<1> USE DEF Lists, TypeInv, TypeOK
<1>1. CASE \E c \in Commands : Start(p, c)
  BY <1>1 DEF Start
<1>2. CASE Exit(p)
  BY <1>2 DEF Exit
<1>3. CASE OpenExisting(p) \/ ReadImage(p)
  BY <1>3 DEF OpenExisting, ReadImage, Return
<1>4. CASE OpenMissing(p) \/ BeginPut(p) \/ BeginAddIndexManifest(p) \/ WriteBlob(p)
  BY <1>4 DEF OpenMissing, BeginPut, BeginAddIndexManifest, WriteBlob
<1>5. CASE FuzzyKeep(p) \/ FuzzyLookup(p) \/ ResolveDescriptor(p)
  BY <1>5 DEF FuzzyKeep, FuzzyLookup, ResolveDescriptor
<1>6. CASE ReadIndex(p)
  BY <1>6 DEF ReadIndex
<1>7. CASE Truncate(p)
  BY <1>7 DEF Truncate
<1>8. CASE WriteIndex(p)
  BY <1>8 DEF WriteIndex, Return
<1> QED
  BY <1>1, <1>2, <1>3, <1>4, <1>5, <1>6, <1>7, <1>8 DEF Acts, Step, Stop, ReturnError

\* What a mutation computes from a list with unique names has unique names.
LEMMA UpdateKeepsNamesUnique ==
    ASSUME TypeInv, UniqueNames, NEW p \in Proc, ReadIndex(p)
    PROVE  NoDuplicateName(Update(p))
<1> DEFINE c == Head(todo[p])
<1>1. pc[p] # "idle" /\ c.call \in {"put", "add", "tag", "delete"}
  BY DEF ReadIndex, Calls
<1>2. c \in Call /\ index.manifests \in Seq(Descriptor) /\ NoDuplicateName(index.manifests)
  BY <1>1, CurrentCall DEF TypeInv, TypeOK, UniqueNames, Lists
<1>3. CASE c.call \in {"put", "add"}
  <2>1. /\ ImageDescriptor(c.img) \in Descriptor
        /\ ImageDescriptor(c.img).name = NoName
    BY <1>2, <1>3, CallTypes, DigestAssumption DEF ImageDescriptor, Descriptor, MediaTypeOf, MediaType
  <2>2. \/ Update(p) = Replaced(index.manifests, ImageDescriptor(c.img), PutMatcher(c.img))
        \/ Update(p) = Added(index.manifests, ImageDescriptor(c.img))
    BY <1>3 DEF Update
  <2> HIDE DEF c
  <2> QED
    BY <1>2, <2>1, <2>2, MutationsKeepNamesUnique
<1>4. CASE c.call = "tag"
  <2> DEFINE desc == TaggedDescriptor(source[p], c.dst.name)
  <2>1. c.dst.name \in RefName /\ source[p] \in Descriptor
    BY <1>1, <1>2, <1>4, CallTypes, RefTypes DEF TypeInv, Shape, ReadIndex, Calls
  <2>2. desc \in Descriptor /\ desc.name = c.dst.name
    BY <2>1 DEF TaggedDescriptor, Descriptor
  <2>3. Update(p) = Replaced(index.manifests, desc, Name(desc.name))
    BY <1>4, <2>2 DEF Update
  <2> HIDE DEF c, desc
  <2> QED
    BY <1>2, <2>2, <2>3, MutationsKeepNamesUnique
<1>5. CASE c.call = "delete"
  <2>1. Update(p) = Remaining(index.manifests, ReferenceToMatcher(c.ref))
    BY <1>5 DEF Update, Deleted
  <2> HIDE DEF c
  <2> QED
    BY <1>2, <2>1, RemainingKeepsNamesUnique
<1> QED
  BY <1>1, <1>3, <1>4, <1>5

\* Every step keeps the names unique, in the file and in memory.
LEMMA NextUniqueNames == TypeInv /\ UniqueNames /\ [Next]_vars => UniqueNames'
<1> SUFFICES ASSUME TypeInv, UniqueNames, [Next]_vars PROVE UniqueNames'
  OBVIOUS
<1>1. ASSUME NEW p \in Proc, Acts(p)
      PROVE  UniqueNames'
  <2> SUFFICES ASSUME NEW ms \in Lists' PROVE NoDuplicateName(ms)
    BY DEF UniqueNames
  <2>1. CASE ms \in Lists
    BY <2>1 DEF UniqueNames
  <2>2. CASE ms = <<>>
    BY <2>2 DEF NoDuplicateName
  <2>3. CASE ReadIndex(p) /\ ms = Update(p)
    BY <2>3, UpdateKeepsNamesUnique
  <2> QED
    BY <1>1, <2>1, <2>2, <2>3, NewLists
<1>2. CASE UNCHANGED vars
  BY <1>2 DEF vars, UniqueNames, Lists
<1> QED
  BY <1>1, <1>2 DEF Next, Quiet, Acts

\* Whatever is written to index.json, or about to be, a name belongs to one
\* descriptor: two tags that race, a tag that is killed halfway and a tag computed
\* from a list another process has replaced meanwhile included.
THEOREM NamesAreUnique == Spec => []UniqueNames
<1>1. Init => UniqueNames
  BY DEF Init, UniqueNames, Lists, NoDuplicateName
<1>2. TypeInv /\ UniqueNames /\ [Next]_vars => (TypeInv /\ UniqueNames)'
  BY NextTypeInv, NextUniqueNames
<1> QED
  BY <1>1, <1>2, InitTypeInv, PTL DEF Spec

-----------------------------------------------------------------------------
(* Entries of one image *)

\* A descriptor has the type and size Put and AddIndexManifest give it.
Whole(desc) == desc.mediaType = MediaTypeOf(desc.digest) /\ desc.sized = TRUE

AgreeInv ==
    /\ TypeInv
    /\ \A ms \in Lists : \A i \in DOMAIN ms : Whole(ms[i])
    /\ \A p \in Proc : source[p] \in Descriptor => Whole(source[p])

\* What is the source of a Tag was read from the index.
LEMMA NewSource ==
    ASSUME TypeInv, NEW p \in Proc, Acts(p), NEW q \in Proc
    PROVE  \/ source'[q] = source[q]
           \/ source'[q] = NoDescriptor
           \/ \E i \in DOMAIN index.manifests : source'[q] = index.manifests[i]
<1> USE DEF TypeInv, TypeOK
<1>1. CASE q # p
  BY <1>1, OthersKeepLocals DEF SameLocals
<1>2. CASE \E c \in Commands : Start(p, c)
  BY <1>2 DEF Start
<1>3. CASE Exit(p) \/ Return(p)
  BY <1>3 DEF Exit, Return
<1>4. CASE OpenMissing(p) \/ BeginPut(p) \/ BeginAddIndexManifest(p) \/ WriteBlob(p)
  BY <1>4 DEF OpenMissing, BeginPut, BeginAddIndexManifest, WriteBlob
<1>5. CASE FuzzyKeep(p) \/ FuzzyLookup(p)
  BY <1>5 DEF FuzzyKeep, FuzzyLookup
<1>6. CASE ResolveDescriptor(p)
  <2>1. PICK i \in DOMAIN index.manifests :
            source' = [source EXCEPT ![p] = index.manifests[i]]
    BY <1>6 DEF ResolveDescriptor, FirstMatch
  <2> QED
    BY <2>1
<1>7. CASE ReadIndex(p) \/ Truncate(p)
  BY <1>7 DEF ReadIndex, Truncate
<1> QED
  BY <1>1, <1>2, <1>3, <1>4, <1>5, <1>6, <1>7
     DEF Acts, Step, Stop, OpenExisting, ReadImage, WriteIndex, ReturnError

\* A mutation writes whole descriptors when it read some.
LEMMA UpdateIsWhole ==
    ASSUME AgreeInv, NEW p \in Proc, ReadIndex(p), NEW k \in DOMAIN Update(p)
    PROVE  Whole(Update(p)[k])
<1> DEFINE c == Head(todo[p])
<1>1. TypeInv /\ Shape(p) /\ pc[p] # "idle"
  BY DEF AgreeInv, TypeInv, ReadIndex, Calls
<1>2. CASE \E i \in DOMAIN index.manifests : Update(p)[k] = index.manifests[i]
  BY <1>2 DEF AgreeInv, Lists
<1>3. CASE Update(p)[k] = ImageDescriptor(c.img)
  <2>1. \A d : Whole(ImageDescriptor(d))
    BY DEF Whole, ImageDescriptor
  <2> HIDE DEF c
  <2> QED
    BY <1>3, <2>1
<1>4. CASE c.call = "tag" /\ Update(p)[k] = TaggedDescriptor(source[p], c.dst.name)
  <2>1. source[p] \in Descriptor
    BY <1>1, <1>4 DEF Shape, ReadIndex, Calls
  <2>2. Whole(source[p])
    BY <2>1 DEF AgreeInv
  <2>3. ASSUME NEW desc \in Descriptor, Whole(desc), NEW n
        PROVE  Whole(TaggedDescriptor(desc, n))
    BY <2>3 DEF Whole, TaggedDescriptor, Descriptor
  <2> HIDE DEF c
  <2> QED
    BY <1>4, <2>1, <2>2, <2>3
<1> QED
  BY <1>1, <1>2, <1>3, <1>4, UpdateType

\* Every step keeps lists and sources whole.
LEMMA NextAgreeInv == AgreeInv /\ [Next]_vars => AgreeInv'
<1> SUFFICES ASSUME AgreeInv, [Next]_vars PROVE AgreeInv'
  OBVIOUS
<1>1. TypeInv'
  BY NextTypeInv DEF AgreeInv
<1>2. ASSUME NEW p \in Proc, Acts(p)
      PROVE  /\ \A ms \in Lists' : \A i \in DOMAIN ms : Whole(ms[i])
             /\ \A q \in Proc : source'[q] \in Descriptor => Whole(source'[q])
  <2>1. ASSUME NEW ms \in Lists', NEW i \in DOMAIN ms
        PROVE  Whole(ms[i])
    <3>1. CASE ms \in Lists
      BY <3>1 DEF AgreeInv
    <3>2. CASE ms = <<>>
      BY <3>2
    <3>3. CASE ReadIndex(p) /\ ms = Update(p)
      BY <3>3, UpdateIsWhole
    <3> QED
      BY <1>2, <3>1, <3>2, <3>3, NewLists DEF AgreeInv
  <2>2. ASSUME NEW q \in Proc, source'[q] \in Descriptor
        PROVE  Whole(source'[q])
    <3>1. NoDescriptor \notin Descriptor
      BY SentinelAssumption
    <3> QED
      BY <1>2, <2>2, <3>1, NewSource DEF AgreeInv, Lists
  <2> QED
    BY <2>1, <2>2
<1>3. CASE UNCHANGED vars
  BY <1>1, <1>3 DEF vars, AgreeInv, Lists
<1> QED
  BY <1>1, <1>2, <1>3 DEF AgreeInv, Next, Quiet, Acts

\* Put adds an entry where it means to replace one, and processes tag from entries that
\* were deleted since: still two entries of an image have one type and size.
THEOREM EntriesOfAnImageAgree == Spec => []EntriesAgree
<1>1. Init => AgreeInv
  <2>1. SUFFICES ASSUME Init PROVE AgreeInv
    OBVIOUS
  <2>2. NoDescriptor \notin Descriptor
    BY SentinelAssumption
  <2> QED
    BY <2>1, <2>2, InitTypeInv DEF AgreeInv, Init, Lists
<1>2. AgreeInv => EntriesAgree
  <2>1. SUFFICES ASSUME AgreeInv, NEW ms \in Lists, NEW i \in DOMAIN ms, NEW j \in DOMAIN ms,
                        ms[i].digest = ms[j].digest
                 PROVE  ms[i].mediaType = ms[j].mediaType /\ ms[i].sized = ms[j].sized
    BY DEF EntriesAgree
  <2> QED
    BY <2>1 DEF AgreeInv, Whole
<1> QED
  BY <1>1, <1>2, NextAgreeInv, PTL DEF Spec

-----------------------------------------------------------------------------
(* Blobs *)

\* For every image an index manifest of a later call lists: it is stored, or an
\* earlier call puts it.
ImagesFirst(calls, stored) ==
    \A j \in DOMAIN calls :
       calls[j].call = "add" =>
          \A d \in SubManifests[calls[j].img] :
             WrittenBlobs(d) \subseteq stored \/ \E k \in 1 .. (j - 1) : calls[k] = Put(d)

\* The blobs the call in progress writes itself.
OwnBlobs(c) == IF c.call = "put" THEN WrittenBlobs(c.img) ELSE {c.img}

Unwritten(p) == {pending[p][k] : k \in DOMAIN pending[p]}

\* What a process has seen to before its list reaches the file.
Secured(p) ==
    /\ pc[p] = "blobs" => OwnBlobs(Head(todo[p])) \subseteq blobs \cup Unwritten(p)
    /\ pc[p] = "read" /\ Head(todo[p]).call \in {"put", "add"}
          => OwnBlobs(Head(todo[p])) \subseteq blobs
    /\ pc[p] \in {"truncate", "write"} /\ Head(todo[p]).call \in {"put", "add"}
          => OwnBlobs(Head(todo[p])) \subseteq blobs
    /\ source[p] \in Descriptor => Content(source[p].digest) \subseteq blobs
    /\ pc[p] # "idle" => ImagesFirst(todo[p], blobs)

BlobsInv == TypeInv /\ BlobsBeforeIndex /\ \A p \in Proc : Secured(p)

\* More blobs do no harm to the calls that are left.
LEMMA ImagesFirstGrows ==
    ASSUME NEW calls, NEW stored, NEW more, stored \subseteq more, ImagesFirst(calls, stored)
    PROVE  ImagesFirst(calls, more)
BY DEF ImagesFirst

\* A call that is done may be forgotten, if it stored what it put.
LEMMA ImagesFirstTail ==
    ASSUME NEW calls \in Seq(Call), calls # <<>>, NEW stored, ImagesFirst(calls, stored),
           Head(calls).call = "put" => WrittenBlobs(Head(calls).img) \subseteq stored
    PROVE  ImagesFirst(Tail(calls), stored)
<1> SUFFICES ASSUME NEW j \in DOMAIN Tail(calls), Tail(calls)[j].call = "add",
                    NEW d \in SubManifests[Tail(calls)[j].img],
                    ~(WrittenBlobs(d) \subseteq stored)
             PROVE  \E k \in 1 .. (j - 1) : Tail(calls)[k] = Put(d)
  BY DEF ImagesFirst
<1>1. /\ Len(calls) \in Nat /\ Tail(calls) \in Seq(Call)
      /\ Len(Tail(calls)) = Len(calls) - 1
      /\ \A i \in 1 .. Len(Tail(calls)) : Tail(calls)[i] = calls[i + 1]
      /\ Head(calls) = calls[1]
  BY HeadTailProperties
<1>2. /\ DOMAIN Tail(calls) = 1 .. (Len(calls) - 1) /\ DOMAIN calls = 1 .. Len(calls)
      /\ j \in Nat
  BY <1>1
<1>3. j + 1 \in DOMAIN calls /\ Tail(calls)[j] = calls[j + 1]
  BY <1>1, <1>2
<1>4. PICK k \in 1 .. j : calls[k] = Put(d)
  BY <1>2, <1>3 DEF ImagesFirst
<1>5. k # 1
  BY <1>1, <1>4 DEF Put
<1>6. k - 1 \in 1 .. (j - 1) /\ Tail(calls)[k - 1] = calls[k]
  BY <1>1, <1>2, <1>5
<1> QED
  BY <1>4, <1>6

\* A resolved reference changes no put and no add.
LEMMA ImagesFirstFuzzy ==
    ASSUME NEW calls \in Seq(Call), calls # <<>>, NEW stored, ImagesFirst(calls, stored),
           Head(calls).call = "fuzzy", NEW n \in RefCall
    PROVE  ImagesFirst(<<n>> \o Tail(calls), stored)
<1> DEFINE new == <<n>> \o Tail(calls)
<1>1. /\ Len(calls) \in Nat /\ Tail(calls) \in Seq(Call)
      /\ Len(Tail(calls)) = Len(calls) - 1
      /\ \A i \in 1 .. Len(Tail(calls)) : Tail(calls)[i] = calls[i + 1]
      /\ Head(calls) = calls[1]
  BY HeadTailProperties
<1>2. /\ new \in Seq(Call) /\ Len(new) = Len(calls)
      /\ new[1] = n
      /\ \A i \in 2 .. Len(calls) : new[i] = Tail(calls)[i - 1]
  BY <1>1, RefCallTypes
<1>3. \A i \in 2 .. Len(calls) : new[i] = calls[i]
  <2> SUFFICES ASSUME NEW i \in 2 .. Len(calls) PROVE new[i] = calls[i]
    OBVIOUS
  <2>1. i - 1 \in 1 .. Len(Tail(calls)) /\ (i - 1) + 1 = i
    BY <1>1
  <2> QED
    BY <1>1, <1>2, <2>1
<1>4. n.call # "add"
  BY RefCallTypes
<1> HIDE DEF new
<1> SUFFICES ASSUME NEW j \in DOMAIN new, new[j].call = "add",
                    NEW d \in SubManifests[new[j].img],
                    ~(WrittenBlobs(d) \subseteq stored)
             PROVE  \E k \in 1 .. (j - 1) : new[k] = Put(d)
  BY DEF ImagesFirst, new
<1>5. j \in 2 .. Len(calls) /\ j \in DOMAIN calls
  BY <1>1, <1>2, <1>4
<1>6. PICK k \in 1 .. (j - 1) : calls[k] = Put(d)
  BY <1>3, <1>5 DEF ImagesFirst
<1>7. k # 1
  BY <1>1, <1>6 DEF Put
<1> QED
  BY <1>1, <1>3, <1>5, <1>6, <1>7

\* An index that is added next has all its images stored.
LEMMA ImagesFirstHead ==
    ASSUME NEW calls \in Seq(Call), calls # <<>>, NEW stored, ImagesFirst(calls, stored),
           Head(calls).call = "add"
    PROVE  \A d \in SubManifests[Head(calls).img] : WrittenBlobs(d) \subseteq stored
<1>1. Len(calls) \in Nat /\ Head(calls) = calls[1] /\ DOMAIN calls = 1 .. Len(calls)
      /\ Len(calls) # 0
  BY HeadTailProperties, EmptySeq
<1> QED
  BY <1>1 DEF ImagesFirst

\* build pushes the images before the index that lists them.
LEMMA ScriptImagesFirst ==
    ASSUME NEW c \in Commands, NEW stored
    PROVE  ImagesFirst(Script(c), stored)
<1>1. c \in Command
  BY CommandAssumption
<1>2. CASE c.do # "build"
  <2>1. \A j \in DOMAIN Script(c) : Script(c)[j].call # "add"
    BY <1>1, <1>2 DEF Script, Command, TagScript, DeleteScript, PullScript, InspectScript,
       Push, Open, Put, Tag, Delete, Show, Fuzzy
  <2> QED
    BY <2>1 DEF ImagesFirst
<1>3. CASE c.do = "build"
  <2> DEFINE archs == c.archs
             n == Len(archs)
             images == ArchCalls(archs)
             last == PushIndexManifest(c.index, c.ref)
             script == <<Open>> \o (images \o last)
  <2>1. /\ archs \in Seq(ArchImage)
        /\ c.index \in ImageIndex /\ c.ref \in Ref
    BY <1>1, <1>3 DEF Command
  <2>2. SubManifests[c.index] = {archs[i].img : i \in DOMAIN archs}
    BY <1>3, CommandAssumption
  <2>3. Script(c) = script
    BY <1>3 DEF Script, BuildScript
  <2>4. /\ n \in Nat /\ DOMAIN archs = 1 .. n
        /\ images \in Seq(Call) /\ Len(images) = 2 * n
        /\ \A i \in 1 .. n : images[2 * i - 1] = Put(archs[i].img)
        /\ \A k \in 1 .. (2 * n) : images[k].call # "add"
    BY <2>1, ArchCallsProperties
  <2>5. /\ last \in Seq(Call) /\ Len(last) = 2
        /\ last[1] = AddIndexManifest(c.index)
        /\ last[2].call = "tag"
    BY <2>1, CallsExist DEF PushIndexManifest, AddIndexManifest, Tag
  <2>6. Open \in Call
    BY CallsExist
  <2> HIDE DEF archs, n, images, last
  <2>7. /\ Len(script) = 2 * n + 3
        /\ script[1] = Open
        /\ \A k \in 1 .. (2 * n) : script[k + 1] = images[k]
        /\ script[2 * n + 2] = last[1]
        /\ script[2 * n + 3] = last[2]
        /\ DOMAIN script = 1 .. (2 * n + 3)
    <3> DEFINE rest == images \o last
    <3>1. /\ rest \in Seq(Call) /\ Len(rest) = 2 * n + 2
          /\ \A k \in 1 .. (2 * n + 2) :
                rest[k] = IF k <= 2 * n THEN images[k] ELSE last[k - 2 * n]
      <4>1. Len(images) + Len(last) = 2 * n + 2
        BY <2>4, <2>5
      <4>2. /\ rest \in Seq(Call)
            /\ Len(rest) = Len(images) + Len(last)
            /\ \A k \in 1 .. Len(images) + Len(last) :
                  rest[k] = IF k <= Len(images) THEN images[k] ELSE last[k - Len(images)]
        BY <2>4, <2>5, ConcatProperties, Zenon
      <4> QED
        BY <2>4, <4>1, <4>2
    <3>2. script = <<Open>> \o rest
      OBVIOUS
    <3> HIDE DEF rest, script
    <3>3. /\ Len(script) = 2 * n + 3
          /\ script[1] = Open
          /\ DOMAIN script = 1 .. (2 * n + 3)
      BY <2>4, <2>6, <3>1, <3>2
    <3>4. \A k \in 2 .. (2 * n + 3) : script[k] = rest[k - 1]
      BY <2>4, <2>6, <3>1, <3>2
    <3>5. rest[2 * n + 1] = last[1] /\ rest[2 * n + 2] = last[2]
      <4>1. /\ 2 * n + 1 \in 1 .. (2 * n + 2) /\ (2 * n + 1) - 2 * n = 1 /\ ~(2 * n + 1 <= 2 * n)
            /\ 2 * n + 2 \in 1 .. (2 * n + 2) /\ (2 * n + 2) - 2 * n = 2 /\ ~(2 * n + 2 <= 2 * n)
        BY <2>4
      <4> QED
        BY <3>1, <4>1
    <3>6. ASSUME NEW k \in 1 .. (2 * n)
          PROVE  script[k + 1] = images[k]
      <4>1. k \in 1 .. (2 * n + 2) /\ k <= 2 * n /\ k + 1 \in 2 .. (2 * n + 3) /\ (k + 1) - 1 = k
        BY <2>4
      <4>2. rest[k] = images[k]
        BY <3>1, <4>1
      <4> QED
        BY <3>4, <4>1, <4>2
    <3>7. /\ 2 * n + 2 \in 2 .. (2 * n + 3) /\ (2 * n + 2) - 1 = 2 * n + 1
          /\ 2 * n + 3 \in 2 .. (2 * n + 3) /\ (2 * n + 3) - 1 = 2 * n + 2
      BY <2>4
    <3> QED
      BY <3>3, <3>4, <3>5, <3>6, <3>7
  <2> HIDE DEF script
  <2>8. ASSUME NEW j \in 1 .. (2 * n + 3), script[j].call = "add"
        PROVE  j = 2 * n + 2
    <3>1. CASE j = 1
      BY <2>7, <2>8, <3>1 DEF Open
    <3>2. CASE j \in 2 .. (2 * n + 1)
      <4>1. j - 1 \in 1 .. (2 * n) /\ (j - 1) + 1 = j
        BY <2>4, <3>2
      <4>2. script[j] = images[j - 1]
        BY <2>7, <4>1
      <4> QED
        BY <2>4, <2>8, <4>1, <4>2
    <3>3. CASE j = 2 * n + 3
      BY <2>5, <2>7, <2>8, <3>3
    <3> QED
      BY <2>4, <3>1, <3>2, <3>3
  <2>9. ASSUME NEW d \in SubManifests[c.index]
        PROVE  \E k \in 1 .. (2 * n + 1) : script[k] = Put(d)
    <3>1. PICK i \in 1 .. n : archs[i].img = d
      BY <2>2, <2>4
    <3>2. 2 * i - 1 \in 1 .. (2 * n) /\ (2 * i - 1) + 1 = 2 * i /\ 2 * i \in 1 .. (2 * n + 1)
      BY <2>4
    <3>3. script[2 * i] = Put(d)
      BY <2>4, <2>7, <3>1, <3>2
    <3> QED
      BY <3>2, <3>3
  <2>10. script[2 * n + 2].img = c.index
    BY <2>5, <2>7 DEF AddIndexManifest
  <2>11. (2 * n + 2) - 1 = 2 * n + 1
    BY <2>4
  <2> QED
    BY <2>3, <2>7, <2>8, <2>9, <2>10, <2>11 DEF ImagesFirst
<1> QED
  BY <1>2, <1>3

\* Blobs are never removed, so what one process has secured no other can spoil.
LEMMA BlobsGrow ==
    ASSUME TypeInv, NEW p \in Proc, Acts(p)
    PROVE  blobs \subseteq blobs'
BY DEF Acts, Start, Step, Stop, Exit, OpenExisting, OpenMissing, BeginPut, BeginAddIndexManifest,
       WriteBlob, FuzzyKeep, FuzzyLookup, ResolveDescriptor, ReadImage, ReadIndex, Truncate,
       WriteIndex, ReturnError

\* A step of one process takes nothing from another, as blobs only grow.
LEMMA OthersStaySecured ==
    ASSUME NEW q \in Proc, Secured(q), SameLocals(q), blobs \subseteq blobs'
    PROVE  Secured(q)'
<1>1. /\ pc'[q] = pc[q] /\ todo'[q] = todo[q] /\ source'[q] = source[q]
      /\ Unwritten(q)' = Unwritten(q)
  BY DEF SameLocals, Unwritten
<1>2. pc[q] # "idle" => ImagesFirst(todo[q], blobs')
  BY ImagesFirstGrows DEF Secured
<1> QED
  BY <1>1, <1>2 DEF Secured

\* Every way a process has of leaving a call.
LEMMA LeavingStaysSecured ==
    ASSUME BlobsInv, NEW p \in Proc, blobs' = blobs,
           \/ Exit(p)
           \/ /\ Return(p)
              /\ pc[p] # "idle"
              /\ Head(todo[p]).call = "put" => WrittenBlobs(Head(todo[p]).img) \subseteq blobs
    PROVE  Secured(p)'
<1>1. TypeOK /\ NoDescriptor \notin Descriptor
  BY SentinelAssumption DEF BlobsInv, TypeInv
<1>2. CASE Exit(p)
  <2>1. pc'[p] = "idle" /\ source'[p] = NoDescriptor
    BY <1>1, <1>2 DEF Exit, TypeOK
  <2> QED
    BY <1>1, <2>1 DEF Secured
<1>3. CASE /\ Return(p)
           /\ pc[p] # "idle"
           /\ Head(todo[p]).call = "put" => WrittenBlobs(Head(todo[p]).img) \subseteq blobs
  <2>1. pc'[p] \in {"idle", "call"} /\ source'[p] = NoDescriptor /\ todo'[p] = Tail(todo[p])
    BY <1>3, ReturnType DEF BlobsInv
  <2>2. ImagesFirst(Tail(todo[p]), blobs)
    <3>1. todo[p] \in Seq(Call) /\ todo[p] # <<>>
      BY <1>3, CurrentCall DEF BlobsInv
    <3>2. ImagesFirst(todo[p], blobs)
      BY <1>3 DEF BlobsInv, Secured
    <3> QED
      BY <1>3, <3>1, <3>2, ImagesFirstTail
  <2> QED
    BY <1>1, <2>1, <2>2 DEF Secured
<1> QED
  BY <1>2, <1>3

\* A command that starts has its calls in a safe order.
LEMMA StartSecured ==
    ASSUME BlobsInv, NEW p \in Proc, NEW c \in Commands, Start(p, c)
    PROVE  Secured(p)'
<1>1. /\ pc'[p] = "call" /\ source'[p] = source[p] /\ todo'[p] = Script(c)
      /\ blobs' = blobs
  BY DEF BlobsInv, TypeInv, TypeOK, Start
<1>2. ImagesFirst(Script(c), blobs)
  BY ScriptImagesFirst
<1> QED
  BY <1>1, <1>2 DEF BlobsInv, Secured

\* A step of a process keeps what it has seen to itself.
LEMMA StepSecured ==
    ASSUME BlobsInv, NEW p \in Proc, Step(p) \/ Stop(p)
    PROVE  Secured(p)'
<1> DEFINE c == Head(todo[p])
<1>1. TypeInv /\ TypeOK /\ Shape(p) /\ Secured(p)
  BY DEF BlobsInv, TypeInv
<1>2. CASE Exit(p)
  BY <1>2, LeavingStaysSecured DEF Exit
<1>3. CASE OpenExisting(p) \/ ReadImage(p)
  BY <1>3, LeavingStaysSecured DEF OpenExisting, ReadImage, Calls
<1>4. CASE WriteIndex(p)
  BY <1>1, <1>4, LeavingStaysSecured DEF WriteIndex, Secured, OwnBlobs
<1>5. CASE OpenMissing(p)
  BY <1>1, <1>5 DEF OpenMissing, Calls, TypeOK, Secured
<1>6. CASE BeginPut(p) \/ BeginAddIndexManifest(p)
  <2>1. /\ pc[p] = "call" /\ pc'[p] = "blobs" /\ blobs' = blobs /\ todo' = todo
        /\ source' = source
    BY <1>1, <1>6 DEF BeginPut, BeginAddIndexManifest, Calls, TypeOK
  <2>2. OwnBlobs(c) \subseteq Unwritten(p)'
    <3>1. CASE BeginPut(p)
      <4>1. c.call = "put" /\ c.img \in ImageManifest
        BY <1>1, <3>1, CurrentCall, CallTypes DEF BeginPut, Calls
      <4>2. Parts[c.img] \in Seq(Digest) /\ pending'[p] = Append(Parts[c.img], c.img)
        BY <1>1, <3>1, <4>1, ContentAssumption DEF BeginPut, AsWriteLayers, TypeOK
      <4>3. /\ Len(Parts[c.img]) \in Nat
            /\ DOMAIN Parts[c.img] = 1 .. Len(Parts[c.img])
            /\ DOMAIN pending'[p] = 1 .. (Len(Parts[c.img]) + 1)
            /\ \A k \in 1 .. Len(Parts[c.img]) : pending'[p][k] = Parts[c.img][k]
            /\ pending'[p][Len(Parts[c.img]) + 1] = c.img
        <5>1. c.img \in Digest
          BY <4>1, DigestAssumption
        <5> HIDE DEF c
        <5>2. ASSUME NEW s \in Seq(Digest), NEW d \in Digest
              PROVE  /\ Len(s) \in Nat /\ DOMAIN s = 1 .. Len(s)
                     /\ DOMAIN Append(s, d) = 1 .. (Len(s) + 1)
                     /\ \A k \in 1 .. Len(s) : Append(s, d)[k] = s[k]
                     /\ Append(s, d)[Len(s) + 1] = d
          OBVIOUS
        <5> QED
          BY <4>2, <5>1, <5>2
      <4> HIDE DEF c
      <4> QED
        BY <4>1, <4>3 DEF OwnBlobs, WrittenBlobs, Unwritten
    <3>2. CASE BeginAddIndexManifest(p)
      <4>1. c.call = "add" /\ pending'[p] = <<c.img>>
        BY <1>1, <3>2 DEF BeginAddIndexManifest, Calls, TypeOK
      <4>2. 1 \in DOMAIN pending'[p] /\ pending'[p][1] = c.img
        BY <4>1
      <4> QED
        BY <4>1, <4>2 DEF OwnBlobs, Unwritten
    <3> QED
      BY <1>6, <3>1, <3>2
  <2> QED
    BY <1>1, <2>1, <2>2 DEF Secured
<1>7. CASE WriteBlob(p)
  <2>1. pending[p] \in Seq(Digest) /\ pending[p] # <<>>
    BY <1>1, <1>7 DEF WriteBlob, TypeOK, Shape
  <2>2. /\ pc[p] = "blobs" /\ blobs' = blobs \cup {Head(pending[p])}
        /\ pending'[p] = Tail(pending[p]) /\ todo' = todo /\ source' = source
        /\ pc'[p] = IF Len(pending[p]) = 1 THEN "read" ELSE "blobs"
    BY <1>1, <1>7 DEF WriteBlob, TypeOK
  <2>3. Unwritten(p) \subseteq {Head(pending[p])} \cup Unwritten(p)'
    <3>1. /\ Len(pending[p]) \in Nat /\ DOMAIN pending[p] = 1 .. Len(pending[p])
          /\ Head(pending[p]) = pending[p][1]
          /\ DOMAIN Tail(pending[p]) = 1 .. (Len(pending[p]) - 1)
          /\ \A k \in 1 .. (Len(pending[p]) - 1) : Tail(pending[p])[k] = pending[p][k + 1]
      BY <2>1, HeadTailProperties
    <3> SUFFICES ASSUME NEW k \in DOMAIN pending[p], k # 1
                 PROVE  \E l \in DOMAIN Tail(pending[p]) : Tail(pending[p])[l] = pending[p][k]
      BY <2>2, <3>1 DEF Unwritten
    <3>2. k - 1 \in 1 .. (Len(pending[p]) - 1) /\ (k - 1) + 1 = k
      BY <3>1
    <3> QED
      BY <3>1, <3>2
  <2>4. OwnBlobs(c) \subseteq blobs' \cup Unwritten(p)'
    BY <1>1, <2>2, <2>3 DEF Secured
  <2>5. Len(pending[p]) = 1 => Unwritten(p)' = {}
    <3>1. Len(pending[p]) = 1 => Tail(pending[p]) = <<>>
      BY <2>1, FirstAndRest
    <3> QED
      BY <2>2, <3>1 DEF Unwritten
  <2>6. ImagesFirst(todo[p], blobs')
    BY <1>1, <2>2, ImagesFirstGrows DEF Secured
  <2>7. source[p] \in Descriptor => Content(source[p].digest) \subseteq blobs'
    BY <1>1, <2>2 DEF Secured
  <2> QED
    BY <2>2, <2>4, <2>5, <2>6, <2>7 DEF Secured
<1>8. CASE FuzzyKeep(p) \/ FuzzyLookup(p)
  <2>1. /\ pc[p] = "call" /\ c.call = "fuzzy" /\ c.next \in RefCall
        /\ todo[p] \in Seq(Call) /\ todo[p] # <<>>
        /\ pc' = pc /\ source' = source /\ blobs' = blobs
    BY <1>1, <1>8, CurrentCall, CallTypes DEF FuzzyKeep, FuzzyLookup, Calls
  <2>2. PICK n \in RefCall : todo' = [todo EXCEPT ![p] = <<n>> \o Tail(todo[p])]
    BY <1>1, <1>8, FuzzyStep
  <2>3. ImagesFirst(<<n>> \o Tail(todo[p]), blobs)
    BY <1>1, <2>1, ImagesFirstFuzzy DEF Secured
  <2>4. todo'[p] = <<n>> \o Tail(todo[p])
    BY <1>1, <2>2 DEF TypeOK
  <2> QED
    BY <1>1, <2>1, <2>3, <2>4 DEF Secured
<1>9. CASE ResolveDescriptor(p)
  <2>1. PICK i \in FirstMatch(index.manifests, ReferenceToMatcher(c.ref)) :
           source' = [source EXCEPT ![p] = index.manifests[i]]
    BY <1>9 DEF ResolveDescriptor
  <2>2. source'[p] = index.manifests[i] /\ i \in DOMAIN index.manifests
    BY <1>1, <2>1 DEF TypeOK, FirstMatch
  <2>3. Content(index.manifests[i].digest) \subseteq blobs
    BY <2>2 DEF BlobsInv, BlobsBeforeIndex, Lists
  <2>4. /\ pc[p] = "call" /\ pc'[p] = "read" /\ blobs' = blobs /\ todo' = todo
        /\ c.call \in {"tag", "show"}
    BY <1>1, <1>9 DEF ResolveDescriptor, Calls, TypeOK
  <2> QED
    BY <1>1, <2>2, <2>3, <2>4 DEF Secured
<1>10. CASE ReadIndex(p)
  BY <1>1, <1>10 DEF ReadIndex, Calls, TypeOK, Secured
<1>11. CASE Truncate(p)
  BY <1>1, <1>11 DEF Truncate, TypeOK, Secured
<1> QED
  BY <1>2, <1>3, <1>4, <1>5, <1>6, <1>7, <1>8, <1>9, <1>10, <1>11
     DEF Step, Stop, ReturnError

\* What a mutation is about to write lists stored images only.
LEMMA UpdateIsStored ==
    ASSUME BlobsInv, NEW p \in Proc, ReadIndex(p)
    PROVE  \A k \in DOMAIN Update(p) : Content(Update(p)[k].digest) \subseteq blobs
<1> DEFINE c == Head(todo[p])
<1>1. TypeInv /\ Shape(p) /\ Secured(p) /\ pc[p] # "idle"
  BY DEF BlobsInv, TypeInv, ReadIndex, Calls
<1>2. c.call \in {"put", "add", "tag"} => pc[p] = "read"
  BY DEF ReadIndex, Calls
<1>3. ASSUME NEW k \in DOMAIN Update(p)
      PROVE  Content(Update(p)[k].digest) \subseteq blobs
  <2>1. CASE \E i \in DOMAIN index.manifests : Update(p)[k] = index.manifests[i]
    BY <2>1 DEF BlobsInv, BlobsBeforeIndex, Lists
  <2>2. CASE c.call = "put" /\ Update(p)[k] = ImageDescriptor(c.img)
    <3>1. c.img \in ImageManifest /\ OwnBlobs(c) \subseteq blobs
      BY <1>1, <1>2, <2>2, CurrentCall, CallTypes DEF Secured
    <3> QED
      BY <2>2, <3>1 DEF Content, OwnBlobs, ImageDescriptor
  <2>3. CASE c.call = "add" /\ Update(p)[k] = ImageDescriptor(c.img)
    <3>1. /\ c.img \in ImageIndex /\ OwnBlobs(c) \subseteq blobs
          /\ todo[p] \in Seq(Call) /\ todo[p] # <<>> /\ ImagesFirst(todo[p], blobs)
      BY <1>1, <1>2, <2>3, CurrentCall, CallTypes DEF Secured
    <3>2. \A d \in SubManifests[c.img] : WrittenBlobs(d) \subseteq blobs
      BY <2>3, <3>1, ImagesFirstHead
    <3>3. c.img \in blobs /\ c.img \notin ImageManifest
      BY <2>3, <3>1, DigestAssumption DEF OwnBlobs
    <3> QED
      BY <2>3, <3>2, <3>3 DEF Content, ImageDescriptor
  <2>4. CASE c.call = "tag" /\ Update(p)[k] = TaggedDescriptor(source[p], c.dst.name)
    <3>1. source[p] \in Descriptor /\ Content(source[p].digest) \subseteq blobs
      BY <1>1, <1>2, <2>4 DEF Shape, Secured
    <3>2. Update(p)[k].digest = source[p].digest
      BY <2>4, <3>1 DEF TaggedDescriptor, Descriptor
    <3> QED
      BY <3>1, <3>2
  <2> QED
    BY <1>1, <2>1, <2>2, <2>3, <2>4, UpdateType
<1> QED
  BY <1>3

\* Every step keeps the invariant of listed images.
LEMMA NextBlobsInv == BlobsInv /\ [Next]_vars => BlobsInv'
<1> SUFFICES ASSUME BlobsInv, [Next]_vars PROVE BlobsInv'
  OBVIOUS
<1>1. TypeInv'
  BY NextTypeInv DEF BlobsInv
<1>2. ASSUME NEW p \in Proc, Acts(p)
      PROVE  BlobsBeforeIndex' /\ \A q \in Proc : Secured(q)'
  <2>1. blobs \subseteq blobs'
    BY <1>2, BlobsGrow DEF BlobsInv
  <2>2. BlobsBeforeIndex'
    <3> SUFFICES ASSUME NEW ms \in Lists', NEW i \in DOMAIN ms
                 PROVE  Content(ms[i].digest) \subseteq blobs'
      BY DEF BlobsBeforeIndex
    <3>1. CASE ms \in Lists
      BY <2>1, <3>1 DEF BlobsInv, BlobsBeforeIndex
    <3>2. CASE ms = <<>>
      BY <3>2
    <3>3. CASE ReadIndex(p) /\ ms = Update(p)
      BY <2>1, <3>3, UpdateIsStored
    <3> QED
      BY <1>2, <3>1, <3>2, <3>3, NewLists DEF BlobsInv
  <2>3. Secured(p)'
    BY <1>2, StartSecured, StepSecured DEF Acts
  <2>4. ASSUME NEW q \in Proc, q # p
        PROVE  Secured(q)'
    <3>1. SameLocals(q)
      BY <1>2, <2>4, OthersKeepLocals DEF BlobsInv, TypeInv
    <3> QED
      BY <2>1, <3>1, OthersStaySecured DEF BlobsInv
  <2> QED
    BY <2>2, <2>3, <2>4
<1>3. CASE UNCHANGED vars
  <2>1. BlobsBeforeIndex'
    BY <1>3 DEF vars, BlobsInv, BlobsBeforeIndex, Lists
  <2>2. ASSUME NEW q \in Proc
        PROVE  SameLocals(q) /\ blobs \subseteq blobs'
    BY <1>3 DEF vars, SameLocals
  <2>3. ASSUME NEW q \in Proc
        PROVE  Secured(q)'
    BY <2>2, OthersStaySecured DEF BlobsInv
  <2> QED
    BY <1>1, <2>1, <2>3 DEF BlobsInv
<1> QED
  BY <1>1, <1>2, <1>3 DEF BlobsInv, Next, Quiet, Acts

\* An image in index.json has all its blobs in the store, an index manifest those
\* of its images too, and so has every list a process is about to write: ready to
\* be run or pushed, however commands interleave and whichever of them are killed.
THEOREM ListedImagesAreStored == Spec => []BlobsBeforeIndex
<1>1. Init => BlobsInv
  <2>1. ASSUME Init
        PROVE  BlobsBeforeIndex /\ \A p \in Proc : Secured(p)
    <3>1. NoDescriptor \notin Descriptor
      BY SentinelAssumption
    <3> QED
      BY <2>1, <3>1 DEF Init, BlobsBeforeIndex, Lists, Secured
  <2> QED
    BY <2>1, InitTypeInv DEF BlobsInv
<1>2. BlobsInv => BlobsBeforeIndex
  BY DEF BlobsInv
<1> QED
  BY <1>1, <1>2, NextBlobsInv, PTL DEF Spec

-----------------------------------------------------------------------------
(* Damage *)

\* A damaged index.json stays as it is, and no process gets as far as writing it:
\* no command mistakes it for a new store.
THEOREM DamageStays == Spec => DamageIsNotErased
<1>1. TypeInv /\ [Next]_vars => [Damaged => Damaged' /\ index' = index]_vars
  <2> SUFFICES ASSUME TypeInv, [Next]_vars, Damaged
               PROVE  Damaged' /\ index' = index
    OBVIOUS
  <2>1. ASSUME NEW p \in Proc, Acts(p)
        PROVE  Damaged' /\ index' = index
    <3>1. /\ ~OpenMissing(p) /\ ~ReadIndex(p) /\ ~Truncate(p) /\ ~WriteIndex(p)
      BY DEF Damaged, OpenMissing, ReadIndex, Truncate, WriteIndex
    <3>2. index' = index
      BY <2>1, <3>1 DEF Acts, Start, Step, Stop, Exit, OpenExisting, BeginPut,
         BeginAddIndexManifest, WriteBlob, FuzzyKeep, FuzzyLookup, ResolveDescriptor, ReadImage,
         ReturnError
    <3>3. pc'[p] \in {"idle", "call", "blobs", "read"} \/ pc'[p] = pc[p]
      BY <2>1, <3>1 DEF TypeInv, TypeOK, Acts, Start, Step, Stop, Exit, Return, OpenExisting,
         BeginPut, BeginAddIndexManifest, WriteBlob, FuzzyKeep, FuzzyLookup, ResolveDescriptor,
         ReadImage, ReturnError
    <3>4. ASSUME NEW q \in Proc
          PROVE  pc'[q] \notin {"truncate", "write"}
      BY <2>1, <3>3, OthersKeepLocals DEF Damaged, TypeInv, SameLocals
    <3> QED
      BY <3>2, <3>4 DEF Damaged, Readable
  <2>2. CASE UNCHANGED vars
    BY <2>2 DEF vars, Damaged, Readable
  <2> QED
    BY <2>1, <2>2 DEF Next, Quiet, Acts
<1> QED
  BY <1>1, InitTypeInv, NextTypeInv, PTL DEF Spec, DamageIsNotErased
=============================================================================
