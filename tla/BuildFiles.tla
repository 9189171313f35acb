------------------------------ MODULE BuildFiles ------------------------------
(***************************************************************************)
(* build: from files on disk to blobs of an image.                         *)
(*                                                                         *)
(* buildImage hashes every file it is given (imageutil.FileLayer); later   *)
(* the content package opens each file again, by its path, and copies it   *)
(* into the blob store, with the digest and size noted before.  Meanwhile  *)
(* anybody may write to, replace or remove the files, and the build may be *)
(* killed; what it copied of an unfinished blob, its ingest, stays behind  *)
(* and is found by the next build.                                         *)
(*                                                                         *)
(* The blob store is containerd's, which local.Store passes every call on  *)
(* to: external, as far as content.go relies on it.                        *)
(***************************************************************************)
EXTENDS Integers, Sequences, SequencesExt

CONSTANTS
    File,        \* files on disk
    Paths,       \* the files given to build, in the order of the layers
    CommandLine, \* the file with the kernel's command line, or Missing if none is given
    Content,     \* what may be in a file, a sequence of chunks
    Missing,     \* there is no file, no ingest
    MaxEdits,    \* bound: changes to files
    MaxBuilds    \* bound: builds, one after the other

\* Files are read chunk by chunk.
Chunk == UNION {{c[i] : i \in DOMAIN c} : c \in Content}

ASSUME FilesAssumption ==
    /\ Paths \in Seq(File)
    /\ CommandLine \in File \cup {Missing}
    /\ \A c \in Content : c \in Seq(Chunk)
    /\ Missing \notin Content \cup File
    /\ MaxEdits \in Nat /\ MaxBuilds \in Nat

\* A digest stands for the bytes it is of: what is in the blob store under a digest of
\* this form is that content.
Blob(content) == [of |-> "file", content |-> content]

Config == [of |-> "config"]

Manifest(layers) == [of |-> "manifest", layers |-> layers]

VARIABLES
    files,  \* [File -> Content \cup {Missing}]
    blobs,  \* digests in the blob store
    ingest, \* unfinished copies, by the digest they are meant for
    pc,     \* what the build does next
    fd,     \* the file it has open: what it is, and whether its path still leads to it
    read,   \* chunks hashed so far, or the length of the ingest a copy resumed
    size,   \* size of the file when it was opened for hashing
    layers, \* layers made so far, and whether their file held still (history)
    todo,   \* what is still to write, the manifest at last
    still,  \* nobody wrote to the open file since it was opened (history)
    quiet,  \* from now on nobody touches the files and nobody kills
    edits, builds

disk == <<files, quiet, edits>>
build == <<pc, fd, read, size, layers, todo, still>>
vars == <<disk, blobs, ingest, build, builds>>

Closed == [file |-> Missing, content |-> <<>>, linked |-> FALSE]

Running == pc \in {"hash", "hashing", "complete", "write", "copy"}

FilesTypeOK ==
    /\ files \in [File -> Content \cup {Missing}]
    /\ \A d \in DOMAIN ingest : ingest[d] \in Seq(Chunk)
    /\ pc \in {"idle", "hash", "hashing", "complete", "write", "copy", "done", "failed"}
    /\ fd \in [file : File \cup {Missing}, content : Seq(Chunk), linked : BOOLEAN]
    /\ fd.linked => files[fd.file] = fd.content
    /\ fd # Closed <=> pc \in {"hashing", "copy"}
    /\ Len(layers) <= Len(Paths)
    /\ pc = "hash" => Len(layers) < Len(Paths)
    /\ pc = "write" => todo # <<>>
    /\ pc = "copy" => Head(todo).digest \in DOMAIN ingest
    /\ edits \in 0 .. MaxEdits /\ builds \in 0 .. MaxBuilds

FilesInit ==
    /\ files \in [File -> Content]
    /\ blobs = {} /\ ingest = <<>>
    /\ pc = "idle" /\ fd = Closed /\ read = <<>> /\ size = 0
    /\ layers = <<>> /\ todo = <<>> /\ still = TRUE
    /\ quiet = FALSE /\ edits = 0 /\ builds = 0

-----------------------------------------------------------------------------
(* What others do to the files *)

Edit ==
    /\ ~quiet /\ edits < MaxEdits
    /\ edits' = edits + 1
    /\ UNCHANGED <<blobs, ingest, pc, read, size, layers, todo, quiet, builds>>

\* The file is written in place: who has it open reads on in the new text.
Overwrite(f, content) ==
    /\ Edit
    /\ files[f] \notin {Missing, content}
    /\ files' = [files EXCEPT ![f] = content]
    /\ IF fd.linked /\ fd.file = f
       THEN fd' = [fd EXCEPT !.content = content] /\ still' = FALSE
       ELSE UNCHANGED <<fd, still>>

\* The path gets another file, or none: who has the old one open keeps it.
Replace(f, content) ==
    /\ Edit
    /\ files[f] # content
    /\ files' = [files EXCEPT ![f] = content]
    /\ fd' = IF fd.file = f THEN [fd EXCEPT !.linked = FALSE] ELSE fd
    /\ UNCHANGED still

Calm ==
    /\ ~quiet
    /\ quiet' = TRUE
    /\ UNCHANGED <<files, edits, blobs, ingest, build, builds>>

-----------------------------------------------------------------------------
(* buildImage and Builder *)

End(how) ==
    /\ pc' = how
    /\ fd' = Closed /\ read' = <<>> /\ size' = 0 /\ todo' = <<>> /\ still' = TRUE
    /\ UNCHANGED <<disk, builds>>

\* The command line is read as a whole before anything else; what is in it is in the
\* config and told apart by nothing here.
CommandLineFails == CommandLine # Missing /\ files[CommandLine] = Missing

Start ==
    /\ ~Running /\ builds < MaxBuilds
    /\ builds' = builds + 1
    /\ pc' = IF CommandLineFails THEN "failed"
             ELSE IF Paths = <<>> THEN "complete" ELSE "hash"
    /\ layers' = <<>>
    /\ UNCHANGED <<disk, blobs, ingest, fd, read, size, todo, still>>

Given == Paths[Len(layers) + 1]

Open(f) == fd' = [file |-> f, content |-> files[f], linked |-> TRUE]

\* FileLayer opens the file and takes its size ...
OpenFile ==
    /\ pc = "hash"
    /\ files[Given] # Missing
    /\ Open(Given)
    /\ size' = Len(files[Given])
    /\ still' = TRUE
    /\ pc' = "hashing"
    /\ UNCHANGED <<disk, builds, blobs, ingest, read, layers, todo>>

\* ... and digest.FromReader reads to the end.
HashChunk ==
    /\ pc = "hashing"
    /\ Len(read) < Len(fd.content)
    /\ read' = Append(read, fd.content[Len(read) + 1])
    /\ UNCHANGED <<disk, builds, blobs, ingest, pc, fd, size, layers, todo, still>>

\* Builder.FileLayer appends the layer.
AppendLayer ==
    /\ pc = "hashing"
    /\ Len(read) >= Len(fd.content)
    /\ layers' = Append(layers, [file |-> fd.file, digest |-> Blob(read), size |-> size,
                                 was |-> IF still THEN fd.content ELSE Missing])
    /\ pc' = IF Len(layers') = Len(Paths) THEN "complete" ELSE "hash"
    /\ fd' = Closed /\ read' = <<>> /\ size' = 0
    /\ UNCHANGED <<disk, builds, blobs, ingest, todo, still>>

\* A file that cannot be opened: the builder keeps the error, takes no more layers,
\* and Complete returns it.
\* (mutant: only this layer is dropped)
DropLayer ==
    /\ pc = "hash"
    /\ files[Given] = Missing
    /\ pc' = "complete"
    /\ UNCHANGED <<disk, builds, blobs, ingest, fd, read, size, layers, todo, still>>

NoFile ==
    /\ pc = "hash"
    /\ files[Given] = Missing
    /\ End("failed")
    /\ UNCHANGED <<blobs, ingest, layers>>

Descriptor(l) == [digest |-> l.digest, size |-> l.size]

Descriptors == [i \in DOMAIN layers |-> Descriptor(layers[i])]

\* Complete, then AsWriteLayers: config, layers, and the manifest over them.
Complete ==
    /\ pc = "complete"
    /\ todo' = <<[digest |-> Config]>> \o layers \o <<[digest |-> Manifest(Descriptors)]>>
    /\ pc' = "write"
    /\ UNCHANGED <<disk, builds, blobs, ingest, fd, read, size, layers, still>>

-----------------------------------------------------------------------------
(* content.WriteImageToIngester, one WriteLayerToIngester after the other *)

Written(digest) ==
    /\ blobs' = blobs \cup {digest}
    /\ todo' = Tail(todo)
    /\ pc' = IF Len(todo) = 1 THEN "done" ELSE "write"

FromMemory == Head(todo).digest.of # "file"

\* Config and manifest are in memory.
WriteBytes ==
    /\ pc = "write" /\ FromMemory
    /\ Written(Head(todo).digest)
    /\ UNCHANGED <<disk, builds, ingest, fd, read, size, layers, still>>

\* fileLayer.Content opens the path again, also when the blob exists.
\* (mutant: a layer that cannot be written is passed over)
PassOver ==
    /\ pc = "write" /\ ~FromMemory
    /\ files[Head(todo).file] = Missing
    /\ todo' = Tail(todo)
    /\ UNCHANGED <<disk, builds, blobs, ingest, pc, fd, read, size, layers, still>>

NoContent ==
    /\ pc = "write" /\ ~FromMemory
    /\ files[Head(todo).file] = Missing
    /\ End("failed")
    /\ UNCHANGED <<blobs, ingest, layers>>

\* A blob that exists is not read again.
SkipExisting ==
    /\ pc = "write" /\ ~FromMemory
    /\ files[Head(todo).file] # Missing
    /\ Head(todo).digest \in blobs
    /\ Written(Head(todo).digest)
    /\ UNCHANGED <<disk, builds, ingest, fd, read, size, layers, still>>

\* The file is opened and so is the ingest, new or begun again, or where an earlier
\* copy for this digest ended: then the file is read from there.
OpenContent(kept) ==
    /\ pc = "write" /\ ~FromMemory
    /\ files[Head(todo).file] # Missing
    /\ Head(todo).digest \notin blobs
    /\ Open(Head(todo).file)
    /\ ingest' = [d \in DOMAIN ingest \cup {Head(todo).digest} |->
                     IF d = Head(todo).digest THEN kept ELSE ingest[d]]
    /\ read' = kept
    /\ still' = TRUE
    /\ pc' = "copy"
    /\ UNCHANGED <<disk, builds, blobs, size, layers, todo>>

OpenNew == OpenContent(<<>>)

Resume ==
    /\ pc = "write" /\ Head(todo).digest \in DOMAIN ingest
    /\ OpenContent(ingest[Head(todo).digest])

Copied == ingest[Head(todo).digest]

\* (mutant: a resumed copy reads from the beginning)
CopyFromStart ==
    /\ pc = "copy"
    /\ Len(Copied) - Len(read) < Len(fd.content)
    /\ ingest' = [ingest EXCEPT ![Head(todo).digest] =
                    Append(@, fd.content[Len(Copied) - Len(read) + 1])]
    /\ UNCHANGED <<disk, builds, blobs, pc, fd, read, size, layers, todo, still>>

CopyChunk ==
    /\ pc = "copy"
    /\ Len(Copied) < Len(fd.content)
    /\ ingest' = [ingest EXCEPT ![Head(todo).digest] = Append(@, fd.content[Len(Copied) + 1])]
    /\ UNCHANGED <<disk, builds, blobs, pc, fd, read, size, layers, todo, still>>

\* The end of the file.  Copy compares what it read with the size, unless that is zero,
\* and Commit compares size and digest; the digest is of all that was copied.
AtEnd == pc = "copy" /\ Len(Copied) >= Len(fd.content)

Expected(l) == (l.size = 0 \/ l.size = Len(Copied)) /\ Blob(Copied) = l.digest

\* (mutants: the file is not closed; size and digest are not handed on)
CommitLeavesOpen ==
    /\ AtEnd /\ Expected(Head(todo))
    /\ Written(Blob(Copied))
    /\ ingest' = [d \in DOMAIN ingest \ {Head(todo).digest} |-> ingest[d]]
    /\ read' = <<>>
    /\ UNCHANGED <<disk, builds, fd, size, layers, still>>

CommitUnchecked ==
    /\ AtEnd
    /\ Written(Blob(Copied))
    /\ ingest' = [d \in DOMAIN ingest \ {Head(todo).digest} |-> ingest[d]]
    /\ fd' = Closed /\ read' = <<>>
    /\ UNCHANGED <<disk, builds, size, layers, still>>

\* What was copied becomes a blob, under the digest of what was copied.
Commit ==
    /\ AtEnd /\ Expected(Head(todo))
    /\ Written(Blob(Copied))
    /\ ingest' = [d \in DOMAIN ingest \ {Head(todo).digest} |-> ingest[d]]
    /\ fd' = Closed /\ read' = <<>>
    /\ UNCHANGED <<disk, builds, size, layers, still>>

\* What was copied stays behind.
Mismatch ==
    /\ AtEnd /\ ~Expected(Head(todo))
    /\ End("failed")
    /\ UNCHANGED <<blobs, ingest, layers>>

Kill ==
    /\ Running /\ ~quiet
    /\ End("failed")
    /\ UNCHANGED <<blobs, ingest, layers>>

Step ==
    \/ OpenFile
    \/ HashChunk
    \/ AppendLayer
    \/ NoFile
    \/ Complete
    \/ WriteBytes
    \/ NoContent
    \/ SkipExisting
    \/ OpenNew
    \/ Resume
    \/ CopyChunk
    \/ Commit
    \/ Mismatch

FilesNext ==
    \/ Start
    \/ Step
    \/ Kill
    \/ \E f \in File, c \in Content : Overwrite(f, c) \/ Replace(f, c)
    \/ \E f \in File : Replace(f, Missing)
    \/ Calm

FilesSpec == FilesInit /\ [][FilesNext]_vars /\ WF_vars(Step)

-----------------------------------------------------------------------------
(* Properties *)

\* A manifest in the blob store has its config and every layer there, with the bytes
\* its digest is of, whatever became of the files between hashing and copying and
\* wherever a build was killed.
StoredImagesAreWhole ==
    \A m \in {b \in blobs : b.of = "manifest"} :
       Config \in blobs /\ \A i \in DOMAIN m.layers : m.layers[i].digest \in blobs

\* A build that reports success stored its manifest and one layer for each file it was
\* given, in order: the bytes it hashed are in the blob store, and they and the size are
\* those the file had then, unless somebody wrote to it during just that; later changes
\* make the build fail or are not seen.
DoneIsAsHashed ==
    pc = "done" =>
        /\ Manifest(Descriptors) \in blobs
        /\ Len(layers) = Len(Paths)
        /\ \A i \in DOMAIN Paths :
              /\ layers[i].file = Paths[i]
              /\ layers[i].digest \in blobs
              /\ layers[i].was # Missing =>
                    Descriptor(layers[i]) = [digest |-> Blob(layers[i].was),
                                             size |-> Len(layers[i].was)]

\* What is left of earlier copies for the present files is the beginning of them.
Clean ==
    \A f \in File : Blob(files[f]) \in DOMAIN ingest => IsPrefix(ingest[Blob(files[f])], files[f])

Present == \A f \in File : files[f] # Missing

\* A build that was killed or met a change can be repeated once the files rest, unless
\* it left the beginning of something else behind: a copy of a file that changed after
\* it was hashed is taken up by every later build of the hashed content, and refused.
RebuildSucceeds ==
    (quiet /\ pc = "hash" /\ layers = <<>> /\ Present /\ Clean) ~> (pc = "done")
=============================================================================
