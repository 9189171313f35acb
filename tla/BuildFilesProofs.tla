---------------------------- MODULE BuildFilesProofs ---------------------------
(***************************************************************************)
(* build for any files, contents and layers, with any number of changes to *)
(* the files, kills and earlier builds.                                    *)
(***************************************************************************)
EXTENDS BuildFiles, QueueLemmas

-----------------------------------------------------------------------------
(* The invariant *)

Text == Seq(Chunk)

LayerRecord ==
    [file : File, digest : {Blob(t) : t \in Text}, size : Nat, was : Text \cup {Missing}]

\* What a build may have to write.
Entry == {[digest |-> Config], [digest |-> Manifest(Descriptors)]} \cup LayerRecord

\* Layers are made of the files given, in order, and bear what was in them.
LayersAreAsHashed ==
    /\ layers \in Seq(LayerRecord)
    /\ \A i \in DOMAIN layers :
          /\ layers[i].file = Paths[i]
          /\ layers[i].was # Missing =>
                layers[i].digest = Blob(layers[i].was) /\ layers[i].size = Len(layers[i].was)
    /\ pc \in {"complete", "write", "copy", "done"} => Len(layers) = Len(Paths)

\* What is hashed so far is the beginning of the open file, unless it was written to.
HashingAsOpened ==
    /\ read \in Text /\ size \in Nat
    /\ pc \notin {"hashing", "copy"} => read = <<>>
    /\ pc = "hashing" =>
          /\ Len(layers) < Len(Paths)
          /\ fd.file = Given
          /\ still =>
                /\ size = Len(fd.content)
                /\ Len(read) <= Len(fd.content)
                /\ \A i \in 1 .. Len(read) : read[i] = fd.content[i]

\* A digest is in the blob store or will be before entry k of todo.
Before(k, digest) == digest \in blobs \/ \E j \in 1 .. k - 1 : todo[j].digest = digest

\* The manifest comes last, after all it is about.
ManifestLast ==
    /\ todo \in Seq(Entry) /\ todo # <<>>
    /\ todo[Len(todo)].digest = Manifest(Descriptors)
    /\ \A k \in DOMAIN todo :
          todo[k].digest.of = "manifest" =>
             Before(k, Config) /\ \A i \in DOMAIN layers : Before(k, layers[i].digest)

FilesInv ==
    /\ FilesTypeOK
    /\ LayersAreAsHashed
    /\ HashingAsOpened
    /\ pc \in {"write", "copy"} => ManifestLast
    /\ pc = "copy" => Head(todo) \in LayerRecord
    /\ pc = "done" => Manifest(Descriptors) \in blobs
    /\ StoredImagesAreWhole

-----------------------------------------------------------------------------
(* Records and lists *)

\* The digests of the manifest, the config and files are of three kinds.
LEMMA Kinds ==
    /\ Config.of = "config" /\ Manifest(Descriptors).of = "manifest"
    /\ Manifest(Descriptors).layers = Descriptors
    /\ \A l \in LayerRecord : l.digest.of = "file" /\ l.file \in File
    /\ \A x \in Entry : \/ x \in LayerRecord
                        \/ x.digest = Config
                        \/ x.digest = Manifest(Descriptors)
<1>1. \A l \in LayerRecord : l.digest \in {Blob(t) : t \in Text} /\ l.file \in File
  BY DEF LayerRecord
<1>2. \A l \in LayerRecord : l.digest.of = "file"
  BY <1>1 DEF Blob
<1>3. /\ Config.of = "config" /\ Manifest(Descriptors).of = "manifest"
      /\ Manifest(Descriptors).layers = Descriptors
  BY DEF Config, Manifest
<1>4. \A x \in Entry : \/ x \in LayerRecord
                       \/ x.digest = Config
                       \/ x.digest = Manifest(Descriptors)
  <2>1. \A a, b : [digest |-> a].digest = a /\ [digest |-> b].digest = b
    OBVIOUS
  <2> QED
    BY <2>1 DEF Entry
<1> QED
  BY <1>1, <1>2, <1>3, <1>4

\* A path that was given is that of a file, and a file holds text.
LEMMA FileTypes ==
    ASSUME FilesTypeOK
    PROVE  /\ Len(Paths) \in Nat /\ DOMAIN Paths = 1 .. Len(Paths)
           /\ \A i \in DOMAIN Paths : Paths[i] \in File
           /\ \A f \in File : files[f] # Missing => files[f] \in Text
<1>1. Paths \in Seq(File) /\ \A c \in Content : c \in Text
  BY FilesAssumption DEF Text
<1>2. Len(Paths) \in Nat /\ DOMAIN Paths = 1 .. Len(Paths)
  BY <1>1, LenProperties
<1>3. \A i \in DOMAIN Paths : Paths[i] \in File
  BY <1>1, <1>2, ElementOfSeq
<1>4. \A f \in File : files[f] \in Content \cup {Missing}
  BY DEF FilesTypeOK
<1> QED
  BY <1>1, <1>2, <1>3, <1>4

\* With its head written the list is as good as before; at its end the manifest is in
\* the blob store, with all it is about.
LEMMA WrittenKeepsOrder ==
    ASSUME FilesInv, pc \in {"write", "copy"}, Written(Head(todo).digest), UNCHANGED layers
    PROVE  /\ pc' = "write" => ManifestLast' /\ todo' # <<>>
           /\ pc' = "done" => (Manifest(Descriptors) \in blobs)'
           /\ pc' \in {"write", "done"}
           /\ StoredImagesAreWhole'
<1> DEFINE rest == Tail(todo)
           h == Head(todo)
           n == Len(todo)
           m == Manifest(Descriptors)
<1>1. ManifestLast /\ StoredImagesAreWhole
  BY DEF FilesInv
<1>2. todo \in Seq(Entry) /\ todo # <<>> /\ todo[n].digest = m
  BY <1>1 DEF ManifestLast
<1>3. /\ h \in Entry /\ h = todo[1] /\ rest \in Seq(Entry)
      /\ n \in Nat \ {0} /\ DOMAIN todo = 1 .. n /\ DOMAIN rest = 1 .. n - 1
      /\ \A k \in 1 .. n - 1 : rest[k] = todo[k + 1]
      /\ n = 1 <=> rest = <<>>
  BY <1>2, FirstAndRest
<1>4. /\ blobs' = blobs \cup {h.digest} /\ todo' = rest /\ layers' = layers
      /\ pc' = IF n = 1 THEN "done" ELSE "write"
  BY DEF Written
<1>5. Descriptors' = Descriptors /\ Entry' = Entry /\ m' = m
  BY <1>4 DEF Descriptors, Entry
<1>6. h.digest.of = "manifest" =>
         /\ h.digest = m
         /\ Config \in blobs /\ \A i \in DOMAIN layers : layers[i].digest \in blobs
  <2>1. 1 \in DOMAIN todo /\ 1 .. 1 - 1 = {}
    BY <1>3
  <2>2. h.digest.of = "manifest" => h.digest = m
    BY <1>3, Kinds
  <2> QED
    BY <1>1, <1>3, <2>1, <2>2 DEF ManifestLast, Before
<1>7. m.layers = Descriptors /\ DOMAIN Descriptors = DOMAIN layers
      /\ \A i \in DOMAIN layers : Descriptors[i].digest = layers[i].digest
  BY Kinds DEF Descriptors, Descriptor
<1> HIDE DEF rest, h, n, m
<1>8. StoredImagesAreWhole'
  <2> SUFFICES ASSUME NEW b \in blobs', b.of = "manifest"
               PROVE  Config \in blobs' /\ \A i \in DOMAIN b.layers : b.layers[i].digest \in blobs'
    BY DEF StoredImagesAreWhole
  <2>1. CASE b \in blobs
    BY <1>1, <1>4, <2>1 DEF StoredImagesAreWhole
  <2>2. CASE b = h.digest
    BY <1>4, <1>6, <1>7, <2>2
  <2> QED
    BY <1>4, <2>1, <2>2
<1>9. CASE n = 1
  BY <1>2, <1>3, <1>4, <1>5, <1>8, <1>9 DEF m
<1>10. CASE n # 1
  <2>1. rest # <<>> /\ n - 1 \in 1 .. n - 1 /\ (n - 1) + 1 = n
    BY <1>3, <1>10
  <2>2. Len(rest) = n - 1
    <3>1. Len(rest) \in Nat /\ DOMAIN rest = 1 .. Len(rest)
      BY <1>3, LenProperties
    <3> QED
      BY <1>3, <1>10, <3>1
  <2>3. rest[Len(rest)].digest = m
    BY <1>2, <1>3, <2>1, <2>2
  <2>4. ASSUME NEW k \in DOMAIN rest, NEW digest, Before(k + 1, digest)
        PROVE  digest \in blobs' \/ \E j \in 1 .. k - 1 : rest[j].digest = digest
    <3>1. CASE digest \in blobs
      BY <1>4, <3>1
    <3>2. CASE \E j \in 1 .. (k + 1) - 1 : todo[j].digest = digest
      <4>1. PICK j \in 1 .. (k + 1) - 1 : todo[j].digest = digest
        BY <3>2
      <4>2. CASE j = 1
        BY <1>3, <1>4, <4>1, <4>2
      <4>3. CASE j # 1
        <5>1. j - 1 \in 1 .. k - 1 /\ j - 1 \in 1 .. n - 1 /\ (j - 1) + 1 = j
          BY <1>3, <4>1, <4>3
        <5>2. rest[j - 1].digest = digest
          BY <1>3, <4>1, <5>1
        <5> QED
          BY <5>1, <5>2
      <4> QED
        BY <4>2, <4>3
    <3> QED
      BY <2>4, <3>1, <3>2 DEF Before
  <2>5. \A k \in DOMAIN rest : k + 1 \in DOMAIN todo /\ rest[k] = todo[k + 1]
    BY <1>3
  <2>6. \A k \in DOMAIN rest : rest[k].digest.of = "manifest" =>
           /\ Config \in blobs' \/ \E j \in 1 .. k - 1 : rest[j].digest = Config
           /\ \A i \in DOMAIN layers :
                 \/ layers[i].digest \in blobs'
                 \/ \E j \in 1 .. k - 1 : rest[j].digest = layers[i].digest
    BY <1>1, <2>4, <2>5 DEF ManifestLast
  <2>7. ManifestLast'
    <3>1. todo' \in Seq(Entry') /\ todo' # <<>> /\ todo'[Len(todo')].digest = Manifest(Descriptors)'
      BY <1>3, <1>4, <1>5, <2>1, <2>3 DEF m
    <3>2. Config' = Config
      BY DEF Config
    <3> QED
      BY <1>4, <2>6, <3>1, <3>2 DEF ManifestLast, Before
  <2> QED
    BY <1>4, <1>8, <1>10, <2>1, <2>7
<1> QED
  BY <1>9, <1>10

-----------------------------------------------------------------------------
(* Changes to the files, starts and ends *)

\* A file that is opened is open and what its path leads to.
LEMMA HandleTypes ==
    /\ \A f \in File : \A t \in Text :
          /\ [file |-> f, content |-> t, linked |-> TRUE] \in
                [file : File \cup {Missing}, content : Text, linked : BOOLEAN]
          /\ [file |-> f, content |-> t, linked |-> TRUE] # Closed
    /\ Closed \in [file : File \cup {Missing}, content : Text, linked : BOOLEAN]
    /\ Closed.linked = FALSE
<1>1. <<>> \in Text
  BY EmptySeq DEF Text
<1> QED
  BY <1>1 DEF Closed

\* Nothing the build knows is about the files themselves, but for the open one.
LEMMA ChangeKeepsInv ==
    ASSUME FilesInv, files' \in [File -> Content \cup {Missing}], edits' \in 0 .. MaxEdits,
           fd' \in [file : File \cup {Missing}, content : Text, linked : BOOLEAN],
           fd'.file = fd.file, fd' # Closed <=> fd # Closed,
           fd'.linked => files'[fd'.file] = fd'.content,
           ~still' \/ (still' = still /\ fd'.content = fd.content),
           UNCHANGED <<blobs, ingest, pc, read, size, layers, todo, builds>>
    PROVE  FilesInv'
<1>1. FilesTypeOK'
  BY DEF FilesInv, FilesTypeOK, Text
<1>2. LayersAreAsHashed'
  BY DEF FilesInv, LayersAreAsHashed
<1>3. HashingAsOpened'
  BY DEF FilesInv, HashingAsOpened, Given
<1>4. Descriptors' = Descriptors
  BY DEF Descriptors
<1>5. ManifestLast => ManifestLast'
  <2>1. Entry' = Entry
    BY <1>4 DEF Entry
  <2> QED
    BY <1>4, <2>1 DEF ManifestLast, Before
<1>6. /\ pc' = "copy" => (Head(todo) \in LayerRecord)'
      /\ pc' = "done" => (Manifest(Descriptors) \in blobs)'
      /\ StoredImagesAreWhole'
  BY <1>4 DEF FilesInv, StoredImagesAreWhole
<1> QED
  BY <1>1, <1>2, <1>3, <1>5, <1>6 DEF FilesInv

\* A file is written in place.
LEMMA OverwriteKeepsInv ==
    ASSUME FilesInv, NEW f \in File, NEW content \in Content, Overwrite(f, content)
    PROVE  FilesInv'
<1>1. /\ FilesTypeOK /\ content \in Text
      /\ files' = [files EXCEPT ![f] = content]
      /\ edits < MaxEdits /\ edits' = edits + 1
      /\ UNCHANGED <<blobs, ingest, pc, read, size, layers, todo, builds>>
  BY FilesAssumption DEF FilesInv, Overwrite, Edit, Text
<1>2. files' \in [File -> Content \cup {Missing}]
  BY <1>1 DEF FilesTypeOK
<1>3. edits' \in 0 .. MaxEdits
  BY <1>1, FilesAssumption DEF FilesTypeOK
<1>4. fd \in [file : File \cup {Missing}, content : Text, linked : BOOLEAN]
  BY <1>1 DEF FilesTypeOK, Text
<1>5. CASE fd.linked /\ fd.file = f
  <2>1. fd' = [fd EXCEPT !.content = content] /\ still' = FALSE
    BY <1>5 DEF Overwrite
  <2>2. /\ fd' \in [file : File \cup {Missing}, content : Text, linked : BOOLEAN]
        /\ fd'.file = fd.file /\ fd'.content = content /\ fd'.linked
    BY <1>1, <1>4, <1>5, <2>1
  <2>3. fd' # Closed /\ fd # Closed
    BY <1>5, <2>2, HandleTypes
  <2>4. files'[fd'.file] = fd'.content
    BY <1>1, <1>5, <2>2 DEF FilesTypeOK
  <2> QED
    BY <1>1, <1>2, <1>3, <2>1, <2>2, <2>3, <2>4, ChangeKeepsInv
<1>6. CASE ~(fd.linked /\ fd.file = f)
  <2>1. fd' = fd /\ still' = still
    BY <1>6 DEF Overwrite
  <2>2. fd'.linked => files'[fd'.file] = fd'.content
    BY <1>1, <1>6, <2>1 DEF FilesTypeOK
  <2> QED
    BY <1>1, <1>2, <1>3, <1>4, <2>1, <2>2, ChangeKeepsInv
<1> QED
  BY <1>5, <1>6

\* A path gets another file, or none.
LEMMA ReplaceKeepsInv ==
    ASSUME FilesInv, NEW f \in File, NEW content \in Content \cup {Missing}, Replace(f, content)
    PROVE  FilesInv'
<1>1. /\ FilesTypeOK
      /\ files' = [files EXCEPT ![f] = content]
      /\ edits < MaxEdits /\ edits' = edits + 1 /\ still' = still
      /\ UNCHANGED <<blobs, ingest, pc, read, size, layers, todo, builds>>
  BY DEF FilesInv, Replace, Edit
<1>2. files' \in [File -> Content \cup {Missing}]
  BY <1>1 DEF FilesTypeOK
<1>3. edits' \in 0 .. MaxEdits
  BY <1>1, FilesAssumption DEF FilesTypeOK
<1>4. fd \in [file : File \cup {Missing}, content : Text, linked : BOOLEAN]
  BY <1>1 DEF FilesTypeOK, Text
<1>5. CASE fd.file = f
  <2>1. fd' = [fd EXCEPT !.linked = FALSE]
    BY <1>5 DEF Replace
  <2>2. /\ fd' \in [file : File \cup {Missing}, content : Text, linked : BOOLEAN]
        /\ fd'.file = fd.file /\ fd'.content = fd.content /\ ~fd'.linked
    BY <1>4, <2>1
  <2>3. fd' # Closed /\ fd # Closed
    <3>1. f # Missing /\ Closed.file = Missing
      BY FilesAssumption DEF Closed
    <3> QED
      BY <1>5, <2>2, <3>1
  <2> QED
    BY <1>1, <1>2, <1>3, <2>2, <2>3, ChangeKeepsInv
<1>6. CASE fd.file # f
  <2>1. fd' = fd
    BY <1>6 DEF Replace
  <2>2. fd'.linked => files'[fd'.file] = fd'.content
    BY <1>1, <1>6, <2>1 DEF FilesTypeOK
  <2> QED
    BY <1>1, <1>2, <1>3, <1>4, <2>1, <2>2, ChangeKeepsInv
<1> QED
  BY <1>5, <1>6

\* A build ends without success, by an error or a kill.
LEMMA FailKeepsInv ==
    ASSUME FilesInv, End("failed"), UNCHANGED <<blobs, ingest, layers>>
    PROVE  FilesInv'
<1>1. /\ FilesTypeOK /\ LayersAreAsHashed /\ StoredImagesAreWhole
      /\ pc' = "failed" /\ fd' = Closed /\ read' = <<>> /\ size' = 0
      /\ UNCHANGED <<files, edits, builds, blobs, ingest, layers>>
  BY DEF FilesInv, End, disk
<1>2. FilesTypeOK'
  BY <1>1, HandleTypes DEF FilesTypeOK, Text
<1>3. LayersAreAsHashed' /\ StoredImagesAreWhole'
  BY <1>1 DEF LayersAreAsHashed, StoredImagesAreWhole
<1>4. HashingAsOpened'
  <2>1. <<>> \in Text
    BY EmptySeq DEF Text
  <2> QED
    BY <1>1, <2>1 DEF HashingAsOpened
<1> QED
  BY <1>1, <1>2, <1>3, <1>4 DEF FilesInv

\* A build starts.
LEMMA StartKeepsInv ==
    ASSUME FilesInv, Start
    PROVE  FilesInv'
<1>1. /\ FilesTypeOK /\ HashingAsOpened /\ StoredImagesAreWhole
      /\ ~Running /\ builds < MaxBuilds /\ builds' = builds + 1
      /\ \/ pc' = "failed"
         \/ pc' = IF Paths = <<>> THEN "complete" ELSE "hash"
      /\ layers' = <<>>
      /\ UNCHANGED <<files, edits, blobs, ingest, fd, read, size, todo, still>>
  BY DEF FilesInv, Start, disk
<1>2. /\ <<>> \in Seq(LayerRecord) /\ Len(<<>>) = 0 /\ Len(Paths) \in Nat
      /\ Paths # <<>> => 0 < Len(Paths)
      /\ Paths = <<>> => Len(Paths) = 0
  <2>1. Paths \in Seq(File) /\ Len(Paths) \in Nat
    BY <1>1, FileTypes, FilesAssumption
  <2>2. Paths # <<>> => Len(Paths) # 0
    BY <2>1, EmptySeq
  <2> QED
    BY <2>1, <2>2, EmptySeq
<1>3. pc \notin {"hashing", "copy"} /\ pc' \in {"hash", "complete", "failed"}
  BY <1>1 DEF Running
<1>4. FilesTypeOK'
  <2>1. builds' \in 0 .. MaxBuilds
    BY <1>1, FilesAssumption DEF FilesTypeOK
  <2> QED
    BY <1>1, <1>2, <1>3, <2>1 DEF FilesTypeOK
<1>5. LayersAreAsHashed'
  <2>1. DOMAIN <<>> = {}
    OBVIOUS
  <2> QED
    BY <1>1, <1>2, <1>3, <2>1 DEF LayersAreAsHashed
<1>6. HashingAsOpened' /\ StoredImagesAreWhole'
  BY <1>1, <1>3 DEF HashingAsOpened, StoredImagesAreWhole
<1> QED
  BY <1>3, <1>4, <1>5, <1>6 DEF FilesInv

-----------------------------------------------------------------------------
(* Hashing *)

\* A file is opened and its size taken.
LEMMA OpenFileKeepsInv ==
    ASSUME FilesInv, OpenFile
    PROVE  FilesInv'
<1>1. /\ FilesTypeOK /\ LayersAreAsHashed /\ HashingAsOpened /\ StoredImagesAreWhole
      /\ pc = "hash" /\ pc' = "hashing" /\ files[Given] # Missing
      /\ fd' = [file |-> Given, content |-> files[Given], linked |-> TRUE]
      /\ size' = Len(files[Given]) /\ still' = TRUE
      /\ UNCHANGED <<files, edits, builds, blobs, ingest, read, layers, todo>>
  BY DEF FilesInv, OpenFile, Open, disk
<1>2. Len(layers) < Len(Paths) /\ Len(layers) \in Nat
  BY <1>1, LenProperties DEF FilesTypeOK, LayersAreAsHashed
<1>3. Given \in File
  <2>1. Len(layers) + 1 \in DOMAIN Paths
    BY <1>1, <1>2, FileTypes
  <2> QED
    BY <1>1, <2>1, FileTypes DEF Given
<1>4. files[Given] \in Text /\ Len(files[Given]) \in Nat
  <2>1. files[Given] \in Text
    BY <1>1, <1>3, FileTypes
  <2> QED
    BY <2>1, LenProperties DEF Text
<1>5. /\ fd' \in [file : File \cup {Missing}, content : Text, linked : BOOLEAN]
      /\ fd' # Closed
      /\ fd'.file = Given /\ fd'.content = files[Given]
  BY <1>1, <1>3, <1>4, HandleTypes
<1>6. FilesTypeOK'
  BY <1>1, <1>2, <1>5 DEF FilesTypeOK, Text
<1>7. LayersAreAsHashed' /\ StoredImagesAreWhole'
  BY <1>1 DEF LayersAreAsHashed, StoredImagesAreWhole
<1>8. HashingAsOpened'
  <2>1. read = <<>> /\ Len(read) = 0 /\ Given' = Given
    BY <1>1 DEF HashingAsOpened, Given
  <2>2. 0 <= Len(files[Given]) /\ 1 .. 0 = {}
    BY <1>4
  <2> QED
    BY <1>1, <1>2, <1>4, <1>5, <2>1, <2>2 DEF HashingAsOpened
<1> QED
  BY <1>1, <1>6, <1>7, <1>8 DEF FilesInv

\* A chunk is hashed.
LEMMA HashChunkKeepsInv ==
    ASSUME FilesInv, HashChunk
    PROVE  FilesInv'
<1> DEFINE n == Len(read)
           c == fd.content
<1>1. /\ FilesTypeOK /\ LayersAreAsHashed /\ HashingAsOpened /\ StoredImagesAreWhole
      /\ pc = "hashing" /\ n < Len(c) /\ read' = Append(read, c[n + 1])
      /\ UNCHANGED <<files, edits, builds, blobs, ingest, pc, fd, size, layers, todo, still>>
  BY DEF FilesInv, HashChunk, disk
<1>2. c \in Text /\ read \in Text
  BY <1>1 DEF FilesTypeOK, HashingAsOpened, Text
<1>3. n \in Nat /\ Len(c) \in Nat /\ DOMAIN c = 1 .. Len(c)
  BY <1>2, LenProperties DEF Text
<1>4. c[n + 1] \in Chunk
  <2>1. n + 1 \in 1 .. Len(c)
    BY <1>1, <1>3
  <2> QED
    BY <1>2, <2>1, ElementOfSeq DEF Text
<1>5. /\ read' \in Text /\ Len(read') = n + 1
      /\ \A i \in 1 .. n : read'[i] = read[i]
      /\ read'[n + 1] = c[n + 1]
  BY <1>1, <1>2, <1>4, AppendProperties DEF Text
<1>6. FilesTypeOK'
  BY <1>1 DEF FilesTypeOK
<1>7. LayersAreAsHashed' /\ StoredImagesAreWhole'
  BY <1>1 DEF LayersAreAsHashed, StoredImagesAreWhole
<1> HIDE DEF n
<1>8. HashingAsOpened'
  <2>1. Given' = Given
    BY <1>1 DEF Given
  <2>2. still => /\ Len(read') <= Len(c)
                 /\ \A i \in 1 .. Len(read') : read'[i] = c[i]
    <3>1. \A i \in 1 .. n + 1 : i \in 1 .. n \/ i = n + 1
      BY <1>3
    <3>2. still => \A i \in 1 .. n : read[i] = c[i]
      BY <1>1 DEF HashingAsOpened, n
    <3>3. n + 1 <= Len(c)
      BY <1>1, <1>3
    <3> QED
      BY <1>5, <3>1, <3>2, <3>3
  <2> QED
    BY <1>1, <1>5, <2>1, <2>2 DEF HashingAsOpened
<1> QED
  BY <1>1, <1>6, <1>7, <1>8 DEF FilesInv

\* The layer is made.
LEMMA AppendLayerKeepsInv ==
    ASSUME FilesInv, AppendLayer
    PROVE  FilesInv'
<1> DEFINE was == IF still THEN fd.content ELSE Missing
           l == [file |-> fd.file, digest |-> Blob(read), size |-> size, was |-> was]
           n == Len(layers)
<1>1. /\ FilesTypeOK /\ LayersAreAsHashed /\ HashingAsOpened /\ StoredImagesAreWhole
      /\ pc = "hashing" /\ Len(read) >= Len(fd.content)
      /\ layers' = Append(layers, l)
      /\ pc' = IF Len(layers') = Len(Paths) THEN "complete" ELSE "hash"
      /\ fd' = Closed /\ read' = <<>> /\ size' = 0
      /\ UNCHANGED <<files, edits, builds, blobs, ingest, todo, still>>
  BY DEF FilesInv, AppendLayer, disk
<1>2. /\ fd.content \in Text /\ read \in Text /\ size \in Nat
      /\ layers \in Seq(LayerRecord)
      /\ n < Len(Paths) /\ fd.file = Given
  BY <1>1 DEF FilesTypeOK, HashingAsOpened, LayersAreAsHashed, Text
<1>3. n \in Nat /\ DOMAIN layers = 1 .. n
  BY <1>2, LenProperties
<1>4. Len(Paths) \in Nat /\ DOMAIN Paths = 1 .. Len(Paths)
  BY <1>1, FileTypes
<1>5. fd.file \in File /\ fd.file = Paths[n + 1]
  <2>1. n + 1 \in DOMAIN Paths
    <3>1. n < Len(Paths)
      BY <1>2
    <3> HIDE DEF n
    <3> QED
      BY <1>3, <1>4, <3>1
  <2> QED
    BY <1>1, <1>2, <2>1, FileTypes DEF Given
<1>6. was # Missing => Blob(read) = Blob(was) /\ size = Len(was)
  <2> SUFFICES ASSUME still
               PROVE  read = fd.content /\ size = Len(fd.content)
    BY DEF Blob
  <2>1. /\ size = Len(fd.content) /\ Len(read) <= Len(fd.content)
        /\ \A i \in 1 .. Len(read) : read[i] = fd.content[i]
    BY <1>1 DEF HashingAsOpened
  <2>2. Len(read) \in Nat /\ Len(fd.content) \in Nat
    BY <1>2, LenProperties DEF Text
  <2>3. Len(read) = Len(fd.content)
    BY <1>1, <2>1, <2>2
  <2> QED
    BY <1>2, <2>1, <2>3, SeqEqual DEF Text
<1>7. /\ l \in LayerRecord
      /\ l.file = fd.file /\ l.digest = Blob(read) /\ l.size = size /\ l.was = was
  <2>1. was \in Text \cup {Missing}
    BY <1>2
  <2> HIDE DEF was
  <2> QED
    BY <1>2, <1>5, <2>1 DEF LayerRecord
<1> HIDE DEF l, was
<1>8. /\ layers' \in Seq(LayerRecord) /\ Len(layers') = n + 1
      /\ \A i \in 1 .. n : layers'[i] = layers[i]
      /\ layers'[n + 1] = l
  BY <1>1, <1>2, <1>7, AppendProperties
<1> HIDE DEF n
<1>9. DOMAIN layers' = 1 .. n + 1 /\ \A i \in 1 .. n + 1 : i \in 1 .. n \/ i = n + 1
  BY <1>3, <1>8, LenProperties
<1>10. FilesTypeOK'
  <2>1. Len(layers') <= Len(Paths) /\ (pc' = "hash" => Len(layers') < Len(Paths))
    <3>1. n \in Nat /\ Len(Paths) \in Nat /\ n < Len(Paths) /\ Len(layers') = n + 1
      BY <1>2, <1>3, <1>4, <1>8
    <3>2. pc' = "hash" => Len(layers') # Len(Paths)
      BY <1>1
    <3> QED
      BY <3>1, <3>2
  <2>2. pc' \in {"hash", "complete"}
    BY <1>1
  <2> QED
    BY <1>1, <2>1, <2>2, HandleTypes DEF FilesTypeOK, Text
<1>11. LayersAreAsHashed'
  <2>1. \A i \in 1 .. n : /\ layers[i].file = Paths[i]
                          /\ layers[i].was # Missing =>
                                /\ layers[i].digest = Blob(layers[i].was)
                                /\ layers[i].size = Len(layers[i].was)
    BY <1>1, <1>3 DEF LayersAreAsHashed
  <2>2. /\ l.file = Paths[n + 1]
        /\ l.was # Missing => l.digest = Blob(l.was) /\ l.size = Len(l.was)
    BY <1>5, <1>6, <1>7
  <2>3. \A i \in DOMAIN layers' :
           /\ layers'[i].file = Paths[i]
           /\ layers'[i].was # Missing =>
                 layers'[i].digest = Blob(layers'[i].was) /\ layers'[i].size = Len(layers'[i].was)
    BY <1>8, <1>9, <2>1, <2>2
  <2>4. pc' \in {"complete", "write", "copy", "done"} => Len(layers') = Len(Paths)
    BY <1>1
  <2> QED
    BY <1>8, <2>3, <2>4 DEF LayersAreAsHashed
<1>12. HashingAsOpened'
  <2>1. <<>> \in Text /\ pc' \in {"hash", "complete"}
    BY <1>1, EmptySeq DEF Text
  <2> QED
    BY <1>1, <2>1 DEF HashingAsOpened
<1> QED
  BY <1>1, <1>10, <1>11, <1>12 DEF FilesInv, StoredImagesAreWhole

-----------------------------------------------------------------------------
(* Writing *)

\* What is to be written is put in order.
LEMMA CompleteKeepsInv ==
    ASSUME FilesInv, Complete
    PROVE  FilesInv'
<1> DEFINE first == <<[digest |-> Config]>>
           last == <<[digest |-> Manifest(Descriptors)]>>
           all == first \o layers \o last
           n == Len(layers)
<1>1. /\ FilesTypeOK /\ LayersAreAsHashed /\ HashingAsOpened /\ StoredImagesAreWhole
      /\ pc = "complete" /\ pc' = "write" /\ todo' = all
      /\ UNCHANGED <<files, edits, builds, blobs, ingest, fd, read, size, layers, still>>
  BY DEF FilesInv, Complete, disk
<1>2. /\ layers \in Seq(LayerRecord) /\ n \in Nat /\ DOMAIN layers = 1 .. n
      /\ \A i \in 1 .. n : layers[i] \in LayerRecord
  <2>1. layers \in Seq(LayerRecord)
    BY <1>1 DEF LayersAreAsHashed
  <2> QED
    BY <2>1, LenProperties, ElementOfSeq
<1>3. layers \in Seq(Entry)
  BY <1>2, SeqMonotonic DEF Entry
<1>4. /\ first \in Seq(Entry) /\ Len(first) = 1 /\ first[1].digest = Config
      /\ last \in Seq(Entry) /\ Len(last) = 1 /\ last[1].digest = Manifest(Descriptors)
  BY DEF Entry
<1> HIDE DEF first, last, n
<1>5. /\ all \in Seq(Entry) /\ Len(all) = n + 2
      /\ all[1] = first[1] /\ all[n + 2] = last[1]
      /\ \A i \in 1 .. n : all[i + 1] = layers[i]
  <2> DEFINE front == first \o layers
  <2>1. /\ front \in Seq(Entry) /\ Len(front) = Len(first) + Len(layers)
        /\ \A i \in 1 .. Len(first) + Len(layers) :
              front[i] = IF i <= Len(first) THEN first[i] ELSE layers[i - Len(first)]
    BY <1>3, <1>4, ConcatProperties, Zenon
  <2> HIDE DEF front
  <2>2. /\ front \o last \in Seq(Entry) /\ Len(front \o last) = Len(front) + Len(last)
        /\ \A i \in 1 .. Len(front) + Len(last) :
              (front \o last)[i] = IF i <= Len(front) THEN front[i] ELSE last[i - Len(front)]
    <3>1. front \in Seq(Entry) /\ last \in Seq(Entry)
      BY <1>4, <2>1
    <3> QED
      BY <3>1, ConcatProperties, Zenon
  <2>3. Len(front) = n + 1 /\ Len(last) = 1 /\ Len(first) = 1
    BY <1>2, <1>4, <2>1 DEF n
  <2>4. all = front \o last
    BY DEF front
  <2> HIDE DEF all
  <2>5. /\ Len(all) = n + 2
        /\ \A i \in 1 .. n + 2 : all[i] = IF i <= n + 1 THEN front[i] ELSE last[i - (n + 1)]
    BY <1>2, <2>2, <2>3, <2>4
  <2>6. \A i \in 1 .. n + 1 : front[i] = IF i <= 1 THEN first[i] ELSE layers[i - 1]
    BY <1>2, <2>1, <2>3 DEF n
  <2>7. all[1] = first[1] /\ all[n + 2] = last[1]
    BY <1>2, <2>5, <2>6
  <2>8. ASSUME NEW i \in 1 .. n
        PROVE  all[i + 1] = layers[i]
    <3>1. i + 1 \in 1 .. n + 1 /\ i + 1 \in 1 .. n + 2 /\ ~(i + 1 <= 1) /\ (i + 1) - 1 = i
      BY <1>2
    <3> QED
      BY <2>5, <2>6, <3>1
  <2> QED
    BY <2>2, <2>4, <2>5, <2>7, <2>8
<1> HIDE DEF all
<1>6. DOMAIN all = 1 .. n + 2 /\ all # <<>>
  <2>1. Len(all) # 0
    BY <1>2, <1>5
  <2> QED
    BY <1>5, <2>1, LenProperties, EmptySeq
<1>7. \A k \in DOMAIN all : all[k].digest.of = "manifest" => k = n + 2
  <2>1. \A k \in DOMAIN all : k = 1 \/ k = n + 2 \/ (k - 1 \in 1 .. n /\ (k - 1) + 1 = k)
    BY <1>2, <1>6
  <2>2. all[1].digest.of = "config"
    BY <1>4, <1>5, Kinds
  <2>3. \A i \in 1 .. n : all[i + 1].digest.of = "file"
    BY <1>2, <1>5, Kinds
  <2> QED
    BY <2>1, <2>2, <2>3
<1>8. ManifestLast'
  <2>1. Descriptors' = Descriptors /\ Config' = Config
    BY <1>1 DEF Descriptors, Config
  <2>2. Manifest(Descriptors)' = Manifest(Descriptors) /\ Entry' = Entry
    BY <2>1 DEF Entry
  <2>3. 1 \in 1 .. (n + 2) - 1 /\ all[1].digest = Config
    BY <1>2, <1>4, <1>5
  <2>4. \A i \in 1 .. n : i + 1 \in 1 .. (n + 2) - 1 /\ all[i + 1].digest = layers[i].digest
    BY <1>2, <1>5
  <2>5. todo' = all /\ blobs' = blobs /\ layers' = layers
    BY <1>1
  <2>6. Config' \in blobs' \/ \E j \in 1 .. (n + 2) - 1 : todo'[j].digest = Config'
    BY <2>1, <2>3, <2>5
  <2>7. \A i \in DOMAIN layers' :
           \/ layers'[i].digest \in blobs'
           \/ \E j \in 1 .. (n + 2) - 1 : todo'[j].digest = layers'[i].digest
    BY <1>2, <2>4, <2>5
  <2>8. todo'[Len(todo')].digest = Manifest(Descriptors)'
    BY <1>4, <1>5, <2>2, <2>5
  <2> QED
    BY <1>5, <1>6, <1>7, <2>2, <2>5, <2>6, <2>7, <2>8 DEF ManifestLast, Before
<1>9. FilesTypeOK'
  BY <1>1, <1>6 DEF FilesTypeOK
<1>10. LayersAreAsHashed' /\ HashingAsOpened' /\ StoredImagesAreWhole'
  BY <1>1 DEF LayersAreAsHashed, HashingAsOpened, StoredImagesAreWhole
<1> QED
  BY <1>1, <1>8, <1>9, <1>10 DEF FilesInv

\* One of them is written.
LEMMA WrittenKeepsInv ==
    ASSUME FilesInv, pc \in {"write", "copy"}, Written(Head(todo).digest),
           \A d \in DOMAIN ingest' : ingest'[d] \in Text, fd' = Closed, read' = <<>>,
           UNCHANGED <<disk, builds, size, layers, still>>
    PROVE  FilesInv'
<1>1. /\ FilesTypeOK /\ LayersAreAsHashed /\ HashingAsOpened
      /\ UNCHANGED <<files, edits, builds, size, layers>>
  BY DEF FilesInv, disk
<1>2. /\ pc' = "write" => ManifestLast' /\ todo' # <<>>
      /\ pc' = "done" => (Manifest(Descriptors) \in blobs)'
      /\ pc' \in {"write", "done"}
      /\ StoredImagesAreWhole'
  BY WrittenKeepsOrder
<1>3. FilesTypeOK'
  BY <1>1, <1>2, HandleTypes DEF FilesTypeOK, Text
<1>4. LayersAreAsHashed'
  BY <1>1, <1>2 DEF LayersAreAsHashed
<1>5. HashingAsOpened'
  <2>1. <<>> \in Text
    BY EmptySeq DEF Text
  <2> QED
    BY <1>1, <1>2, <2>1 DEF HashingAsOpened
<1> QED
  BY <1>2, <1>3, <1>4, <1>5 DEF FilesInv

\* What is in memory or in the blob store needs no file; a copy is committed, as the
\* blob it was expected to be, because size and digest are compared.
LEMMA WriteKeepsInv ==
    ASSUME FilesInv, WriteBytes \/ SkipExisting \/ Commit
    PROVE  FilesInv'
<1>1. FilesTypeOK /\ HashingAsOpened
  BY DEF FilesInv
<1>2. CASE WriteBytes \/ SkipExisting
  <2>1. /\ pc = "write" /\ Written(Head(todo).digest)
        /\ UNCHANGED <<disk, builds, ingest, fd, read, size, layers, still>>
    BY <1>2 DEF WriteBytes, SkipExisting
  <2>2. fd = Closed /\ read = <<>>
    BY <1>1, <2>1 DEF FilesTypeOK, HashingAsOpened
  <2>3. \A d \in DOMAIN ingest' : ingest'[d] \in Text
    BY <1>1, <2>1 DEF FilesTypeOK, Text
  <2> QED
    BY <2>1, <2>2, <2>3, WrittenKeepsInv
<1>3. CASE Commit
  <2>1. /\ pc = "copy" /\ Written(Blob(Copied)) /\ Blob(Copied) = Head(todo).digest
        /\ ingest' = [d \in DOMAIN ingest \ {Head(todo).digest} |-> ingest[d]]
        /\ fd' = Closed /\ read' = <<>>
        /\ UNCHANGED <<disk, builds, size, layers, still>>
    BY <1>3 DEF Commit, AtEnd, Expected
  <2>2. \A d \in DOMAIN ingest' : ingest'[d] \in Text
    BY <1>1, <2>1 DEF FilesTypeOK, Text
  <2> QED
    BY <2>1, <2>2, WrittenKeepsInv
<1> QED
  BY <1>2, <1>3

\* A layer of the build, its file and the ingest for it are opened.
LEMMA OpenContentKeepsInv ==
    ASSUME FilesInv, NEW kept \in Text, OpenContent(kept)
    PROVE  FilesInv'
<1> DEFINE l == Head(todo)
<1>1. /\ FilesTypeOK /\ LayersAreAsHashed /\ HashingAsOpened /\ ManifestLast
      /\ StoredImagesAreWhole
  BY DEF FilesInv, OpenContent
<1>2. /\ pc = "write" /\ pc' = "copy" /\ ~FromMemory /\ files[l.file] # Missing
      /\ fd' = [file |-> l.file, content |-> files[l.file], linked |-> TRUE]
      /\ ingest' = [d \in DOMAIN ingest \cup {l.digest} |-> IF d = l.digest THEN kept ELSE ingest[d]]
      /\ read' = kept
      /\ UNCHANGED <<files, edits, builds, blobs, size, layers, todo>>
  BY DEF OpenContent, Open, disk
<1>3. l \in LayerRecord
  <2>1. l \in Entry
    <3>1. todo \in Seq(Entry) /\ todo # <<>>
      BY <1>1 DEF ManifestLast
    <3> QED
      BY <3>1, FirstAndRest
  <2>2. l.digest.of = "file"
    BY <1>2 DEF FromMemory
  <2> HIDE DEF l
  <2> QED
    BY <2>1, <2>2, Kinds
<1>4. l.file \in File /\ files[l.file] \in Text
  BY <1>1, <1>2, <1>3, Kinds, FileTypes
<1> HIDE DEF l
<1>5. /\ fd' \in [file : File \cup {Missing}, content : Text, linked : BOOLEAN]
      /\ fd' # Closed /\ fd'.file = l.file /\ fd'.content = files[l.file]
  BY <1>2, <1>4, HandleTypes
<1>6. FilesTypeOK'
  <2>1. \A d \in DOMAIN ingest' : ingest'[d] \in Text
    BY <1>1, <1>2 DEF FilesTypeOK, Text
  <2>2. Head(todo').digest \in DOMAIN ingest'
    BY <1>2 DEF l
  <2> QED
    BY <1>1, <1>2, <1>5, <2>1, <2>2 DEF FilesTypeOK, Text
<1>7. LayersAreAsHashed' /\ HashingAsOpened' /\ StoredImagesAreWhole'
  BY <1>1, <1>2 DEF LayersAreAsHashed, HashingAsOpened, StoredImagesAreWhole
<1>8. ManifestLast'
  <2>1. Descriptors' = Descriptors
    BY <1>2 DEF Descriptors
  <2>2. Entry' = Entry
    BY <2>1 DEF Entry
  <2> QED
    BY <1>1, <1>2, <2>1, <2>2 DEF ManifestLast, Before
<1>9. Head(todo') \in LayerRecord
  BY <1>2, <1>3 DEF l
<1> QED
  BY <1>2, <1>6, <1>7, <1>8, <1>9 DEF FilesInv

\* A chunk is copied.
LEMMA CopyChunkKeepsInv ==
    ASSUME FilesInv, CopyChunk
    PROVE  FilesInv'
<1> DEFINE d == Head(todo).digest
           n == Len(ingest[d])
<1>1. /\ FilesTypeOK /\ pc = "copy" /\ n < Len(fd.content)
      /\ ingest' = [ingest EXCEPT ![d] = Append(@, fd.content[n + 1])]
      /\ UNCHANGED <<files, edits, builds, blobs, pc, fd, read, size, layers, todo, still>>
  BY DEF FilesInv, CopyChunk, Copied, disk
<1>2. d \in DOMAIN ingest /\ ingest[d] \in Text /\ fd.content \in Text
  BY <1>1 DEF FilesTypeOK, Text
<1>3. n \in Nat /\ Len(fd.content) \in Nat
  BY <1>2, LenProperties DEF Text
<1>4. Append(ingest[d], fd.content[n + 1]) \in Text
  <2>1. n + 1 \in 1 .. Len(fd.content)
    BY <1>1, <1>3
  <2>2. fd.content[n + 1] \in Chunk
    BY <1>2, <2>1, ElementOfSeq DEF Text
  <2> QED
    BY <1>2, <2>2, AppendProperties DEF Text
<1> HIDE DEF d, n
<1>5. DOMAIN ingest' = DOMAIN ingest /\ \A x \in DOMAIN ingest' : ingest'[x] \in Text
  BY <1>1, <1>2, <1>4 DEF FilesTypeOK, Text
<1>6. FilesTypeOK'
  BY <1>1, <1>5 DEF FilesTypeOK, Text
<1>7. /\ LayersAreAsHashed' /\ HashingAsOpened' /\ StoredImagesAreWhole'
      /\ (Head(todo) \in LayerRecord)'
  BY <1>1 DEF FilesInv, LayersAreAsHashed, HashingAsOpened, StoredImagesAreWhole, Given
<1>8. ManifestLast'
  <2>1. Descriptors' = Descriptors
    BY <1>1 DEF Descriptors
  <2>2. Entry' = Entry
    BY <2>1 DEF Entry
  <2> QED
    BY <1>1, <2>1, <2>2 DEF FilesInv, ManifestLast, Before
<1> QED
  BY <1>1, <1>6, <1>7, <1>8 DEF FilesInv

-----------------------------------------------------------------------------
(* Every step, and what follows *)

\* The invariant holds at first.
LEMMA FilesInvInit == FilesInit => FilesInv
<1> SUFFICES ASSUME FilesInit
             PROVE  FilesInv
  OBVIOUS
<1>1. <<>> \in Seq(LayerRecord) /\ <<>> \in Text /\ Len(<<>>) = 0 /\ DOMAIN <<>> = {}
  BY EmptySeq DEF Text
<1>2. Len(Paths) \in Nat
  BY FilesAssumption, LenProperties
<1>3. FilesTypeOK
  <2>1. files \in [File -> Content \cup {Missing}]
    BY DEF FilesInit
  <2>2. edits \in 0 .. MaxEdits /\ builds \in 0 .. MaxBuilds
    BY FilesAssumption DEF FilesInit
  <2>3. Len(layers) <= Len(Paths)
    BY <1>1, <1>2 DEF FilesInit
  <2>4. fd = Closed /\ pc = "idle" /\ ingest = <<>>
    BY DEF FilesInit
  <2> QED
    BY <1>1, <2>1, <2>2, <2>3, <2>4, HandleTypes DEF FilesTypeOK, Text
<1>4. LayersAreAsHashed /\ HashingAsOpened /\ StoredImagesAreWhole
  BY <1>1 DEF FilesInit, LayersAreAsHashed, HashingAsOpened, StoredImagesAreWhole
<1> QED
  BY <1>3, <1>4 DEF FilesInv, FilesInit

\* A step that changes nothing the invariant is about keeps it.
LEMMA StutterKeepsInv ==
    ASSUME FilesInv, UNCHANGED <<files, edits, blobs, ingest, build, builds>>
    PROVE  FilesInv'
<1>1. /\ UNCHANGED <<pc, fd, read, size, layers, todo, still>>
      /\ UNCHANGED <<files, edits, blobs, ingest, builds>>
  BY DEF build
<1>2. Descriptors' = Descriptors
  BY <1>1 DEF Descriptors
<1>3. Entry' = Entry
  BY <1>2 DEF Entry
<1>4. FilesTypeOK'
  BY <1>1 DEF FilesInv, FilesTypeOK
<1>5. /\ LayersAreAsHashed' /\ HashingAsOpened' /\ StoredImagesAreWhole'
      /\ ManifestLast => ManifestLast'
  BY <1>1, <1>2, <1>3 DEF FilesInv, LayersAreAsHashed, HashingAsOpened, StoredImagesAreWhole,
                          ManifestLast, Before, Given
<1> QED
  BY <1>1, <1>2, <1>4, <1>5 DEF FilesInv

\* Every step keeps the invariant.
LEMMA FilesInvNext == FilesInv /\ [FilesNext]_vars => FilesInv'
<1> SUFFICES ASSUME FilesInv, [FilesNext]_vars
             PROVE  FilesInv'
  OBVIOUS
<1>1. CASE Step
  <2>1. CASE OpenFile
    BY <2>1, OpenFileKeepsInv
  <2>2. CASE HashChunk
    BY <2>2, HashChunkKeepsInv
  <2>3. CASE AppendLayer
    BY <2>3, AppendLayerKeepsInv
  <2>4. CASE NoFile \/ NoContent \/ Mismatch
    BY <2>4, FailKeepsInv DEF NoFile, NoContent, Mismatch
  <2>5. CASE Complete
    BY <2>5, CompleteKeepsInv
  <2>6. CASE WriteBytes \/ SkipExisting \/ Commit
    BY <2>6, WriteKeepsInv
  <2>7. CASE OpenNew
    <3>1. <<>> \in Text
      BY EmptySeq DEF Text
    <3> QED
      BY <2>7, <3>1, OpenContentKeepsInv DEF OpenNew
  <2>8. CASE Resume
    <3>1. ingest[Head(todo).digest] \in Text
      BY <2>8 DEF Resume, FilesInv, FilesTypeOK, Text
    <3> QED
      BY <2>8, <3>1, OpenContentKeepsInv DEF Resume
  <2>9. CASE CopyChunk
    BY <2>9, CopyChunkKeepsInv
  <2> QED
    BY <1>1, <2>1, <2>2, <2>3, <2>4, <2>5, <2>6, <2>7, <2>8, <2>9 DEF Step
<1>2. CASE Start
  BY <1>2, StartKeepsInv
<1>3. CASE Kill
  BY <1>3, FailKeepsInv DEF Kill
<1>4. ASSUME NEW f \in File, NEW c \in Content, Overwrite(f, c)
      PROVE  FilesInv'
  BY <1>4, OverwriteKeepsInv
<1>5. ASSUME NEW f \in File, NEW c \in Content \cup {Missing}, Replace(f, c)
      PROVE  FilesInv'
  BY <1>5, ReplaceKeepsInv
<1>6. CASE Calm
  BY <1>6, StutterKeepsInv DEF Calm
<1>7. CASE UNCHANGED vars
  BY <1>7, StutterKeepsInv DEF vars, disk
<1> QED
  BY <1>1, <1>2, <1>3, <1>4, <1>5, <1>6, <1>7 DEF FilesNext

\* So it always holds.
THEOREM FilesInvariant == FilesSpec => []FilesInv
<1> QED
  BY FilesInvInit, FilesInvNext, PTL DEF FilesSpec

\* The type invariant of files and builds holds in every state.
THEOREM FilesTypeCorrect == FilesSpec => []FilesTypeOK
<1>1. FilesInv => FilesTypeOK
  BY DEF FilesInv
<1> QED
  BY <1>1, FilesInvariant, PTL

\* A manifest that is stored is stored with all it lists, whatever happens to the files
\* and wherever builds are killed: it is written last (AsWriteLayers), and a blob that
\* cannot be written ends the build.
THEOREM StoredAreWhole == FilesSpec => []StoredImagesAreWhole
<1>1. FilesInv => StoredImagesAreWhole
  BY DEF FilesInv
<1> QED
  BY <1>1, FilesInvariant, PTL

\* A build that reports success stored the bytes it hashed, one layer for each file and
\* in order, and they are what the file held then: a copy of anything else is refused
\* by the digest that WriteLayerToIngester hands on, so a manifest that is stored has
\* its layers stored under digests that are theirs.
THEOREM SuccessIsAsHashed == FilesSpec => []DoneIsAsHashed
<1>1. FilesInv => DoneIsAsHashed
  <2> SUFFICES ASSUME FilesInv, pc = "done"
               PROVE  /\ Manifest(Descriptors) \in blobs
                      /\ Len(layers) = Len(Paths)
                      /\ \A i \in DOMAIN Paths :
                            /\ layers[i].file = Paths[i]
                            /\ layers[i].digest \in blobs
                            /\ layers[i].was # Missing =>
                                  Descriptor(layers[i]) = [digest |-> Blob(layers[i].was),
                                                           size |-> Len(layers[i].was)]
    BY DEF DoneIsAsHashed
  <2>1. /\ LayersAreAsHashed /\ Manifest(Descriptors) \in blobs
        /\ Len(layers) = Len(Paths) /\ StoredImagesAreWhole
    BY DEF FilesInv, LayersAreAsHashed
  <2>2. DOMAIN layers = DOMAIN Paths
    <3>1. DOMAIN Paths = 1 .. Len(Paths)
      BY FileTypes DEF FilesInv
    <3>2. DOMAIN layers = 1 .. Len(layers)
      BY <2>1, LenProperties DEF LayersAreAsHashed
    <3> QED
      BY <2>1, <3>1, <3>2
  <2>3. \A i \in DOMAIN Descriptors : Descriptors[i].digest \in blobs
    <3>1. Manifest(Descriptors).of = "manifest" /\ Manifest(Descriptors).layers = Descriptors
      BY Kinds
    <3> QED
      BY <2>1, <3>1 DEF StoredImagesAreWhole
  <2>4. \A i \in DOMAIN layers : layers[i].digest \in blobs
    <3>1. DOMAIN Descriptors = DOMAIN layers
          /\ \A i \in DOMAIN layers : Descriptors[i].digest = layers[i].digest
      BY DEF Descriptors, Descriptor
    <3> QED
      BY <2>3, <3>1
  <2> QED
    BY <2>1, <2>2, <2>4 DEF LayersAreAsHashed, Descriptor
<1> QED
  BY <1>1, FilesInvariant, PTL
=============================================================================
