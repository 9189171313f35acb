# Verification of ironcore-image

`ironcore-image` builds boot images, keeps them in an OCI layout on the local
disk (`~/.ironcore`), tags, lists, inspects and deletes them, pushes them to and
pulls them from registries, and prints the request that fetches a layer. This
directory has TLA+ specifications of that program, TLC configurations that check
them on small instances, and TLAPS proofs for instances of every size.

Files named in this text without a directory are in this directory; `src/...`
is the repository.

## 1. Inventory

| Component | Source | State | Operations |
|---|---|---|---|
| index | `oci/indexer`, `oci/descriptormatcher` | the file `index.json`, a list of descriptors | Find, List, Add, Replace, Delete, New |
| local store | `oci/store`, `oci/layout` | none of its own: index and blobs | Put, Push, PushIndexManifest, Tag, Delete, Resolve |
| blob store | `oci/content`, `oci/local`, `oci/image` | content-addressed files | write an image blob by blob, read |
| commands | `cmd/...` | one process each, memory only | build, tag, delete, inspect, list, push, pull, url |
| registry client | `oci/remote` | the tracker of one process; an image that reads its manifest once | Resolve, Push, Fetch |
| layers | `image.go`, `cmd/url`, `cmd/build` (`buildImage`) | none | ResolveImage, selection of a layer, choice of layers |
| image builder | `oci/imageutil` | the builder's list of layers | FileLayer, BytesLayer, Complete, NewIndexImage |
| request resolver | `docker/docker.go` | a request that was tried | Resolve, Manifest, Layer |
| credentials, sets | `oci/remote/credentials.go`, `utils/sets` | none | |

**How they interact.** A command opens the store, which reads or creates
`index.json`, makes a few calls on it, and exits. Every call on the store becomes
calls on the index, each of which reads the whole file, changes the list in
memory and writes the whole file. Images are written to the blob store before
the index is touched. push resolves an image locally and hands it to the
registry client, for an index after each of the images it lists; pull is
`image.Copy` from a registry into the store. Processes share the directory and
nothing else: there is no lock, no daemon, no temporary file for the index.

**What is hard.**

- two commands at once: read-modify-write of a file without a lock, and a write
  that truncates first;
- a process killed, cancelled or out of disk at any step, with no recovery code;
- sequences of legal commands: names move between images, descriptors are copied
  from one entry to another, three kinds of references are parsed in two ways;
- a registry that several clients use, learned about one request at a time, with
  everything "that already exists" skipped;
- files that change between the moment they are hashed and the moment they are
  copied, and half-made copies that a later build takes up again;
- a request that is tried until it works or six answers failed, for a tag that
  is looked up twice and may move in between;
- repeated and optional layers of current and legacy media types, read by two
  pieces of code that must agree.

**What makes the components correct.** The index: no name twice, nothing listed
that is not stored, damage never mistaken for emptiness. The store: a success
message is true until the next command about that name; the store is an atomic
map from names to images. push and pull: a registry never lists what it lacks,
"pushed" means pushed, a pull of what is there succeeds, and readers see images
appear whole. Layers: what build wrote is what ResolveImage and url find. The
builder: bytes are stored under their own digest, a manifest never before its
layers, and a build that failed can be repeated. url: it ends, what it prints was
answered, and it finds what is published and what its request accepts.

`PROJECT.json` lists components, hazards with their lines, runs, and the source
lines behind every definition.

## 2. Modules

| Module | What it is |
|---|---|
| `Indexer` | descriptors, matchers and the pure part of the indexer: what a lookup returns, what a mutation leaves |
| `Store` | processes on one store, at the granularity of file accesses; properties |
| `TagStore` | abstract: a set of images and a map from names to images, changed atomically |
| `StoreRefinement` | `Store` implements `TagStore`, for one process at a time |
| `MCStore` | instances of these |
| `IndexerProofs`, `StoreProofs` | lemmas about the operators; theorems about `Store` with any number of processes |
| `SerialStoreProofs` | theorems about one process at a time; the refinement of `TagStore` |
| `PublishedImages` | abstract: a registry as its readers see it, images that appear whole under a tag |
| `Transfer`, `MCTransfer` | push and pull between a `TagStore` and a shared registry, which implements `PublishedImages` |
| `TransferProofs` | theorems about `Transfer`, the refinement among them |
| `UrlRequest`, `MCUrlRequest` | the url command and the request resolver, at a registry that is a `PublishedImages` |
| `UrlRequestProofs` | theorems about it |
| `BuildFiles`, `MCBuildFiles` | from files that others change to the blobs of an image |
| `BuildFilesProofs` | theorems about it |
| `QueueLemmas` | head and tail of a list, for the proofs about lists that are worked off |
| `ImageLayers`, `MCImageLayers` | the loops of ResolveImage and url; the layers build writes |
| `ImageLayersProofs` | theorems about them |

A definition called `...First`, `...Unchecked` and so on that stands in front of
the one it resembles and is commented "mutant" is that definition with a
plausible bug; no specification uses it. `PROJECT.json` pairs each with the
property that must notice it.

### Store

`index` is the file: whether it exists, the list written last, and its length.
The length is in the model because a short list written over a longer one leaves
the end of the longer text behind; `Readable` says that file and list agree.
`Bytes` keeps of the real length what matters, that longer lists and named
descriptors take more room and that no list is empty text.

Each process has a program counter (`pc`), the store calls its command still has
to make (`todo`), the blobs the current call still has to write (`pending`), the
descriptor it resolved (`source`) and the list it is about to write (`mem`). A
command is translated into calls by `Script`; a call into steps:

| Step | Code |
|---|---|
| `OpenExisting`, `OpenMissing` | `indexer.New` |
| `BeginPut`, `BeginAddIndexManifest`, `WriteBlob` | `Layout.ReplaceImage`, `AddIndexManifest`, one commit to the content store each |
| `FuzzyKeep`, `FuzzyLookup` | `common.FuzzyResolveRef` |
| `ResolveDescriptor` | `Store.resolveDescriptor`, as Resolve and Tag call it |
| `ReadIndex` | `readIndex` of Add, Replace and Delete, and the list they compute |
| `Truncate`, `WriteIndex` | the two effects of `os.WriteFile` |
| `ReadImage` | `Layout.Image` / `IndexImage` and the reads of inspect |
| `ReturnError` | every error return, by its condition |
| `Stop` | kill, cancelled context, I/O error, at any step |

`told` is a history variable: the last success message about each name and
digest, forgotten when a command that mentions it starts. Matchers are sets of
descriptors. References are records of a spelling and a name or digest: that
`reference.ParseNamed` accepts only canonical names while `ParseAnyReference`
also accepts familiar ones is all the model needs of the parser, which is
external. Size, platform and annotations other than the name influence no
decision except that Put matches with a descriptor without size (`sized`).

### Transfer

The local store is `TagStore`, and other commands retag and delete between two
steps of a transfer. `Store` implements `TagStore` for one process at a time only,
while here several clients may share it: the model takes the store's calls for
atomic and leaves out what section 3 shows two processes to do to `index.json`.
The safety properties, which are about the registry and about what was read from
the store, do not depend on that. The registry is
external: digests it holds (`remote`), tags (`rtags`), and whether it refuses a
manifest that refers to what it lacks (`strict`, either kind occurs). push goes
through `units`, manifests with the reference each is pushed under, and for each
through `queue`, the items `Registry.Push` sends in order. An item takes a HEAD
request (`SkipExisting` or `BeginUpload`) and a later PUT (`Upload`), with steps
of the other client in between. `tracker` is the memory of containerd's resolver
of what this process pushed. pull resolves the tag, follows a one-manifest index,
fetches all content by digest, and puts and tags it locally.
`seen` is history: for which of the references a push answers for it found or
made the right tag.

`Registry` maps this state to `PublishedImages`: an image is published when its
manifest is there with all that refers to, a tag means what it points to. A push
of many requests is a few steps of `Publish` there, one for each manifest, and
all its other requests, finished or cut short, are stutters.

`MatchPlatform` takes the target platform of the registry client. The commands
set none (`NoPlatform`); a program that uses the library may
(`DockerRegistryWithPlatform`), and the instance has both.

One assumption about users is part of the model (`Sensible`): push with
`--push-sub-manifests=false` is used only with a registry that checks. With one
that does not, that flag says to send an index whose images nobody sent.

### UrlRequest

`EXTENDS PublishedImages`: the registry is the abstract one that `Transfer` was
shown to implement, and its `Next` is what other users do meanwhile (`Push`). `host`
says what kind of registry it is: with or without HEAD, private, honouring the Accept
header or not (`negotiates`), overloaded never, sometimes or often, failing. A request
is a path, the media type it accepts and whether it has a token. The manifest's
request accepts image manifests only; what build and push put under the tag of an
image is an index (`Index`), for which a registry that honours the header answers 404.
The command is one process:

| Step | Code |
|---|---|
| `RefuseName`, `ResolveReference` | `RequestResolver.Resolve`, up to the first request |
| `Unauthorized`, `MethodNotAllowed`, `Busy`, `Success`, `NotFound`, `StopTrying` | one turn of the loop of `baseInit`, by the status of its response, and the two ways out of it |
| `ResolveDigest`, `NoDigest`, `FetchManifest` | `manifestInfo.Manifest`, whose result `sync.Once` keeps |
| `SelectLayer`, `NoLayer` | the selection in `url.Run` |
| `FindLayer` | `manifestInfo.Layer`, which then enters the loop a second time |
| `Break` | every other error return |

The loop's responses are their number (`failed`); the authorizer is a flag that it
has a token, which stays from the first request to the second as the Go value
does. `answered` and `meant` are history: requests that got a 2xx, and images the
reference meant since the command began. `Meanings`, what containerd's resolver
makes of a reference, is external.

### BuildFiles

One build at a time, on files that anybody may write to in place (`Overwrite`),
replace or remove (`Replace`). The difference matters to a process that has the file
open: `fd` has the text it reads and whether the path still leads there. Hashing and
copying go chunk by chunk. `layers` is the builder's list, `todo` what
`WriteImageToIngester` still has to write. `Blob(content)` stands for the digest of a
content, so a digest is right exactly when the contents are equal; `blobs` is what is
stored, and a copy adds the digest of the bytes that were copied, whatever they were
copied for. The command line is read once, before the first layer, and a build without
it fails at its start (`CommandLineFails`).

containerd's writer is external: `ingest` holds the unfinished copies by digest.
`OpenContent` takes up a copy that an earlier build left (`Resume`) or begins anew
(`OpenNew`; containerd may do either after a failure, and always the first when there
is nothing to resume). `Commit` and `Mismatch` are the comparison of size, unless it
is zero, and digest.

### ImageLayers

The loop of `ResolveImage` and the two loops of `url` are steps on a list of
media types, so that they can be proved about for lists of any length. The layer
a loop finds is its position. `LayerTypeToMediaType` and its legacy counterpart
give the empty media type for a missing key, as the Go maps do. Media types that
no code knows are represented by `Empty` and `Foreign`.

## 3. Runs

Passing runs (on two workers each takes a minute or less, `transfer` two):

| Run | Question | Instance |
|---|---|---|
| `serial` | one user at a time, killed anywhere: do messages hold, is the store an atomic map? | 13 command lines with every call and kind of reference, three commands in a row |
| `concurrent` | what still holds with two processes interleaved and killed? | two processes, three commands |
| `calm` | without kills, one process: is the index usable, do builds finish? | as `serial` |
| `transfer` | two clients of one registry, killed anywhere: what do they and its readers see? | an image for two architectures and a later one with one, five command lines with and without a platform, unbounded repetition |
| `layers` | what are the layers of an image? | all manifests up to three layers over 12 media types, all 64 that build writes, the example of OCI-SPEC.md |
| `url` | what does url print, and does it? | 48 kinds of registry, four references, three images with shared and legacy layers, unbounded pushes by others |
| `files` | what is stored when files change and builds are killed? | two files, one of them also the command line, four contents, two changes, two builds |

Runs that refute a statement of the documentation or of the code's own words:

| Run | Statement | What happens |
|---|---|---|
| `lost_update` | README: tag "will tag the same image" | in a store with one image, a delete of something else writes the index it read before the tag did; the tag is gone although no command failed |
| `deleted` | delete: "Delete a local image" | an image is deleted between the two reads of a tag, which puts it into the list again |
| `overwrite` | the store path holds "all local images and index information (such as tags)" | two writers truncate, then both write; the file has the end of the longer text and no command can read it any more |
| `familiar` | README: build `--tag my-image:latest` creates that tag | Store.Tag parses with `ParseNamed` and refuses the familiar spelling |
| `pull_multiarch` | README: after the push, "to pull the pushed image" | pull has no target platform, and an index with two manifests matches none |

**Properties.** `UniqueNames`, `EntriesAgree`, `BlobsBeforeIndex` and
`DamageIsNotErased` hold for concurrent processes and kills. `PromisesKept`,
`SubManifestsListed` and `ImplementsTagStore` hold for one process at a time with
kills. The first is what `lost_update` shows false for two; it says nothing of a
store that cannot be read, which is a step of `TagStore` (`Lose`). That blobs are never
removed makes `BlobsBeforeIndex` silent about an image that comes back after its
deletion: that is `deleted`. `UsableWhenQuiet` needs one process and no kill.
`RemoteComplete`, `PushReported` and `PullsMeetNoGap` are
about clients that race on the same tags and die in the middle;
`ImplementsRegistry` says what all that amounts to for a reader. `RequestWorks`,
`OneImage`, `UrlEnds` and `PublishedIsFound` are about the loop of requests and the
two looks at a reference. `StoredImagesAreWhole` and `DoneIsAsHashed` hold whatever
happens to the files: the first says that the bytes of every layer of a stored manifest
are there, the second that a successful build stored the bytes it hashed. Both fail
when `Commit` does not compare digests (`CommitUnchecked`). `RebuildSucceeds` holds once
the files rest.

**Limits.** The models contain behaviours a user may not expect which no property
refutes, because a property about one of them fails at once or no text promises more:

- A kill between the truncation and the write of `index.json` loses all tags, and no
  command repairs the file (`Lose`; `DamageIsNotErased` says that nothing is made worse).
- `indexer.New` of two first commands: both find no index, and the later one writes its
  empty list over what the other has stored and reported, even if it only reads. From an
  empty store this is the shortest way two processes violate `PromisesKept`;
  `lost_update` begins with an index so that it shows the other race.
- Put matches with a descriptor without size, which no entry of the file equals: it adds
  an entry where it means to replace one. `EntriesAgree` is why lookups do not notice.
- A pull of a name that is pinned to an index stores the image chosen from it, and the
  name then resolves to nothing: hypothesis `PinsFit` of `PromisesStayKept`.
- `RequestWorks` excepts a registry that delays all of six responses: the loop of
  `baseInit` ends and the request is printed as if it had been answered.
- `PublishedIsFound` is about tags of image manifests where the registry honours the
  Accept header, and lets the command fail when the tag is moved to an index before the
  request arrives. For a reference with a digest it needs the label `latest`, which the
  code asks for, and speaks of layers only: url prints the request for the manifest of
  `latest` then, another image than the one named.
- `DoneIsAsHashed` compares size and bytes with the file only when nobody wrote to it
  while it was hashed: the size is taken before, and one of zero is compared by nobody
  later.
- `RebuildSucceeds` excepts an ingest that is not the beginning of the file: it was
  copied from a file that changed after it was hashed, every later build of the hashed
  content resumes it and fails, until somebody removes it.
- ResolveImage refuses the example of a virtualization manifest in OCI-SPEC.md, which
  has a layer of type `disk.img`, though images of that form are called compatible there.
  `ResolvedImage` says that it reads the manifests it knows all types of and no others.

**Bounds.** `MaxCommands` bounds the commands of a behaviour: interference needs
two, and the third looks at or builds on the result. The images share a config
blob and one is in two indexes, so that deduplication occurs. The lists of
`layers` need a current layer, a repeated one and a legacy one of one kind;
longer lists are covered by the proof. `transfer` has no bound on commands;
nothing in it grows without one. `url` has the code's own limit of six responses
(`Limit`); `Delays`, the answers a registry that is busy sometimes delays, is three,
which with a token and a change of method is five, one below the limit, and two
in a row are possible for each of the two requests. `files` needs one change to
part a file from its digest and a second to bring it back or to hit another file
(`MaxEdits`), and a second build to meet what the first one left (`MaxBuilds`); its
contents include an empty file and two of one length, where the comparison of sizes
is of no help. Deadlock is checked everywhere but in `layers`, where both
readers stop after the last layer, and in `files`, which stops when builds and changes
are used up; `Quiet` is the stuttering of a store whose users have entered all their
commands, and a registry always takes another push. The runs `lost_update` and `deleted`
begin with a store in which one image was pulled (`StockedInit`), so that
what they show is about two mutations of an index and not about its creation.

**Symmetry** permutes processes (`concurrent`) and clients (`transfer`) and is
used in runs without liveness properties only.

**Fairness.** `CalmSpec` of `Store` and of `Transfer` has weak fairness of the
steps of each process: the operating system runs every process, each step is a
file access or a request that returns, and no step waits for another process.
There is none for starting commands, and kills are left out. The runs with
`CalmSpec` are those about what a command achieves. `UrlSpec` and `FilesSpec` have
weak fairness of the steps of the one command they are about, for the same reason,
and none for what others do to the registry or to the files. `UrlSpec` leaves
interruption out; in `FilesSpec` kills and changes may go on for ever unless `Calm`,
which nothing forces, ends them, and `RebuildSucceeds` speaks of builds after that.

## 4. Proofs

All proofs are for every value of the constants: any number of processes, clients,
images, names, files and commands.

- `IndexerProofs`: what `Remaining`, `Replaced`, `Deleted` and `Added` return:
  their members come from the list, order and number are kept, names stay unique.
- `TypeCorrect` (`TypeOK`). `TypeInv` adds `Shape(p)`, what the program counter of a
  process implies: a running process has a call, one that writes blobs has some
  left, one that is past a resolve has a source and a name it may tag.
- `NamesAreUnique` (`UniqueNames`), inductive with the type invariant, because
  the lists in memory are part of the property: a process may write any list it
  computed, and every list it can compute has unique names.
- `ListedImagesAreStored` (`BlobsBeforeIndex`). The inductive invariant adds
  `Secured(p)`: what the current call of p has left to write, together with what is
  committed, is all of the image; and the remaining calls of a build add the index
  only after the images it lists (`ImagesFirst`). Blobs are never removed, so steps
  of other processes keep it; that is the lemma `OthersStaySecured`.
- `EntriesOfAnImageAgree` (`EntriesAgree`). The invariant adds the descriptors
  processes have resolved: Tag writes a copy of one that may be gone from the list.
- `DamageStays` (`DamageIsNotErased`): from an index that exists and cannot be
  read only a process that read it earlier can go on to a truncation.

For one process at a time, killed anywhere, but any images, names and number of
commands (`OneProcess`; `lost_update` and `overwrite` show that it is needed):

- `SerialInv` is what all of these rest on. `Alone(p)` relates the process to the
  file: what it is about to write is what the mutation makes of the list that is
  there now, and the file is empty between truncation and write, so that a kill
  leaves either the list before, the list after, or a file nobody can read. `Anchored`:
  an image that is listed at all has an entry without a name. `ListedFirst` and
  `DeletesApart` order the calls a command still has to make.
- `SubImagesStayListed` (`SubManifestsListed`). `SubInv` adds that the images of a
  listed index are listed, and that no remaining call removes one (`SubImagesSafe`).
  Its hypothesis `SubImagesStay` is about users: nobody deletes, by its digest, an
  image that an index contains, which `Store.Delete` would do.
- `PromisesStayKept` (`PromisesKept`). `PromiseInv` says that the file keeps what was
  told (`Holds`), that the list in memory keeps what was told and what will be when
  it is written, and that what the remaining calls change is promised to nobody
  (`Foreseen`). Its hypothesis `PinsFit`: a name pinned to a digest is given to the
  image of that digest only. `Store.Tag` itself stores any digest under such a name,
  and then nobody finds it.
- `StoreImplementsTagStore` (`ImplementsTagStore`). Each step is mapped on its own:
  the write of a list that was computed by Put, Add, Tag or Delete is that operation
  of `TagStore` (`MutationIsOperation`), the truncation and all the rest are stutters
  (`StepRefines`). It needs neither of the hypotheses about users.
- `StoreStaysUsable` (`UsableWhenQuiet`), without kills. `CalmInv`: the file is
  readable or its only writer is about to make it so, since every error return comes
  before the truncation (`WriterWrites`).

About the other components:

- `LayersTypeCorrect`, `ImageIsResolved`, `LayersAgree`, for manifests of any
  length. `ReadInv` says that each field holds the choice among the layers read so
  far; `UrlInv` that what the loops of url passed is not what they look for.
- `BuiltImagesAreRead` (`BuiltImageIsRead`): for each of the 64 sets of options the
  layers that build writes are those of the options (`GivenKinds`), and of these
  ResolveImage finds each one, because it gives up at unknown layers only
  (`FailedInv`), and which one it chooses is what `ReadInv` says.
- `RegistryIsComplete` (`RemoteComplete`), `PullsFindAll` (`PullsMeetNoGap`) and
  `TransferTypeCorrect`, for any number of clients. `TransferInv` adds `ClientInv(c)`:
  what a process remembers to have pushed is in the registry, every tag names
  something that is, and of what a push has still to send each item stands behind all
  it refers to that is not there yet (`Ready`, `UnitsReady`), or the registry checks.
  The registry only grows, so steps of other clients keep it (`OthersKeepInv`).
- `RegistryRefinement` (`ImplementsRegistry`): of all steps only the upload of a
  manifest changes what a reader sees, and by then all it refers to can be seen
  (`UploadPublishes`).
- `PushesAreReported` (`PushReported`). `ReportInv` adds `PushInv(c)`: each reference a
  push answers for is still in its units or its queue, or was found or made right
  (`seen`); those that are right now were; and an image that its resolver takes for
  pushed has such a reference. The last part is why the hypothesis `OneArchEach`, no
  index lists one image for two architectures, cannot be dropped: the tracker knows
  digests and not references, so for the second reference of an image that it has
  pushed the client skips the PUT that would have tagged it. What holds without the
  hypothesis is `ImagesAreReported`: some reference to each image was right.
- `PrintedRequestsWork` (`RequestWorks`), `LayerOfOneImage` (`OneImage`) and
  `UrlTypeCorrect`. `ResponsesCounted` says that the responses counted are the delays,
  one for a token and one for the method at most, which is below `Limit`, so that the
  loop does not end by running out; `HoldsOneImage` that what the command has in hand
  at any step comes from one image the reference meant and that is still published.
- `StoredAreWhole` (`StoredImagesAreWhole`), `SuccessIsAsHashed` (`DoneIsAsHashed`) and
  `FilesTypeCorrect`. `HashingAsOpened`: what is hashed so far is the beginning of the
  open file unless that was written to; `ManifestLast`: of what is still to be written
  the manifest is the last, and all it is about is in the blob store or before it. A
  copy that is committed is the head of that list because size and digest were compared
  (`WriteKeepsInv`); so a manifest that is stored has its layers stored, and with it
  a build that succeeded has the bytes it hashed.

Assumptions are the named ASSUMEs of the modules: sets of digests are disjoint
where they should be, no reference name is a digest, sentinels are no values, an
index that build stores lists the images of that build. TLC evaluates them in every
run. `OneProcess`, `SubImagesStay`, `PinsFit` and `OneArchEach` are hypotheses of the
theorems that need them and of no others; the instances of the runs that check those
properties satisfy them.

Every safety property and every refinement that a passing run checks is proved.
Only model-checked: liveness (`BuildSucceeds`, `UrlEnds`, `PublishedIsFound`,
`RebuildSucceeds`), which the prover cannot do.
The violations of section 3 are TLC's counterexamples.

## 5. Not modelled

- `list` prints what it read and changes nothing. (Its comparator compares each name
  with itself, so the rows are in the order of digests.) Credentials, parsing, JSON,
  formatting and the sets package have no state to model.
- `Untag`, `Layout.AddImage`, `Layout.Images` and, of the blob store, `Delete`, `Update`
  and `Abort` have no caller among the commands.
- Two builds at once that copy the same blob: containerd locks an ingest within one
  process only, and what two processes do to one is its business. `Store` has
  concurrent builds, with a commit as one step.
- Several hosts for one reference: `ConfigureDefaultRegistries` gives one.
- Two architectures of one index with the same manifest. `Transfer` and all its
  theorems but `PushesAreReported` allow it; the instance of `transfer` has distinct
  images.
- What url prints when its attempts are used up (`StopTrying`) and a reference without
  tag and digest, which means latest to one half of the code and nothing to containerd,
  are in the model but in no property: no text says what should happen.

## 6. Plan

Done: the store, its refinement and its theorems; push and pull, and the registry
their readers see; layers; the request resolver; files and builds; proofs of all
safety properties.

Next, in this order:

1. Proofs: the safety part of the liveness properties, that where `BuildSucceeds` and
   `PublishedIsFound` hold no step returns an error.
2. In `Store`: `DeletedStaysDeleted` for one process at a time, where it holds.
3. In `UrlRequest`: the manifest printed for a reference that is not pinned.
4. In `Transfer`: an instance with an image shared by two architectures.
