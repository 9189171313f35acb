------------------------------ MODULE Transfer -------------------------------
(***************************************************************************)
(* push and pull: clients that move images between a local store and a     *)
(* remote registry.                                                        *)
(*                                                                         *)
(* The local store is the abstract TagStore, which other commands change   *)
(* between two looks at it.  The registry is external: it keeps blobs and  *)
(* manifests by digest and tags on manifests, several clients use it, and  *)
(* a client learns what it holds one request at a time.  A request may     *)
(* fail and a client may be killed before any of its steps.                *)
(***************************************************************************)
EXTENDS TagStore, Naturals, Sequences

CONSTANTS
    Client,    \* slots for push and pull commands that run at the same time
    Blob,      \* configs and layers
    Index,     \* the images that are index manifests
    Parts,     \* [Image \ Index -> Seq(Blob)]: config, then layers
    Manifests, \* [Index -> Seq([img, arch])]: the manifests of an index, in order
    SubRef,    \* [Label \X Arch -> Label]: reference with the suffix -<arch>
    LocalTags, \* [Label -> Image \cup {None}]: what was built before
    Commands,  \* push and pull command lines
    Retags,    \* <<label, image>>: what tag commands do to the local store meanwhile
    Doomed,    \* images that delete commands may remove from it
    NoRef,     \* the reference of what is pushed by digest only
    NoPlatform \* the registry client has no target platform

Push(ref, subs) == [do |-> "push", ref |-> ref, subs |-> subs]

\* The pull command has no platform; a user of the library may have one.
Pull(ref, platform) == [do |-> "pull", ref |-> ref, platform |-> platform]

Elements(s) == {s[i] : i \in DOMAIN s}

Arch == UNION {{m.arch : m \in Elements(Manifests[d])} : d \in Index}

\* What a manifest refers to.
References ==
    [d \in Image |->
        IF d \in Index THEN {m.img : m \in Elements(Manifests[d])} ELSE Elements(Parts[d])]

ASSUME ImageAssumption ==
    /\ Index \subseteq Image
    /\ Blob \cap Image = {}
    /\ Parts \in [Image \ Index -> Seq(Blob)]
    /\ DOMAIN Manifests = Index
    /\ \A d \in Index : Manifests[d] \in Seq([img : Image \ Index, arch : Arch])
    /\ \A d \in Image : Requires[d] = IF d \in Index THEN References[d] ELSE {}

ASSUME CommandAssumption ==
    /\ LocalTags \in [Label -> Image \cup {None}]
    /\ Commands \subseteq {Push(r, s) : r \in Label, s \in BOOLEAN}
                      \cup {Pull(r, a) : r \in Label, a \in Arch \cup {NoPlatform}}
    /\ SubRef \in [Label \X Arch -> Label]
    /\ NoPlatform \notin Arch
    /\ Retags \subseteq Label \X Image
    /\ Doomed \subseteq Image
    /\ NoRef \notin Label
    /\ None \notin Image

-----------------------------------------------------------------------------
VARIABLES
    strict,   \* the registry refuses a manifest that refers to what it lacks
    remote,   \* digests the registry holds
    rtags,    \* tags of the registry
    pc,       \* what a client does next
    cmd,      \* its command line
    target,   \* the image it found under the reference
    units,    \* push: manifests still to push, each under a reference
    queue,    \* push and pull: content still to move for the manifest in hand
    tracker,  \* push: digests the resolver of this process has pushed
    seen      \* push: references it answers for that it found or made right (history)

registry == <<strict, remote, rtags>>
local == <<images, tags, usable>>
client == <<pc, cmd, target, units, queue, tracker, seen>>
allVars == <<registry, local, client>>

PC == {"idle", "resolve", "unit", "head", "upload", "index", "fetch", "put", "tag"}

Unit == [img : Image, ref : Label]

Item == [content : Blob \cup Image, ref : Label \cup {NoRef}]

TransferTypeOK ==
    /\ strict \in BOOLEAN
    /\ remote \subseteq Blob \cup Image
    /\ rtags \in [Label -> Image \cup {None}]
    /\ images \subseteq Image
    /\ tags \in [Label -> Image \cup {None}]
    /\ pc \in [Client -> PC]
    /\ cmd \in [Client -> Commands \cup {None}]
    /\ \A c \in Client :
          /\ pc[c] # "idle" => cmd[c] \in Commands
          /\ (queue[c] # <<>>) <=> pc[c] \in {"head", "upload", "fetch"}
    /\ target \in [Client -> Image \cup {None}]
    /\ units \in [Client -> Seq(Unit)]
    /\ queue \in [Client -> Seq(Item)]
    /\ tracker \in [Client -> SUBSET (Blob \cup Image)]
    /\ seen \in [Client -> SUBSET (Label \X (Image \cup {None}))]

\* Images were built locally; nothing was pushed yet.
TransferInit ==
    /\ images = Image /\ tags = LocalTags /\ usable = TRUE
    /\ strict \in BOOLEAN
    /\ remote = {}
    /\ rtags = [n \in Label |-> None]
    /\ pc = [c \in Client |-> "idle"]
    /\ cmd = [c \in Client |-> None]
    /\ target = [c \in Client |-> None]
    /\ units = [c \in Client |-> <<>>]
    /\ queue = [c \in Client |-> <<>>]
    /\ tracker = [c \in Client |-> {}]
    /\ seen = [c \in Client |-> {}]

-----------------------------------------------------------------------------
\* The process ends, done or not, and undoes nothing.
Exit(c) ==
    /\ pc' = [pc EXCEPT ![c] = "idle"]
    /\ cmd' = [cmd EXCEPT ![c] = None]
    /\ target' = [target EXCEPT ![c] = None]
    /\ units' = [units EXCEPT ![c] = <<>>]
    /\ queue' = [queue EXCEPT ![c] = <<>>]
    /\ tracker' = [tracker EXCEPT ![c] = {}]
    /\ seen' = [seen EXCEPT ![c] = {}]

\* What users do: --push-sub-manifests=false leaves the images of an index to the
\* registry's care, and is used only where the registry checks.
Sensible(command) == command.do = "push" => command.subs \/ strict

Start(c, command) ==
    /\ pc[c] = "idle"
    /\ Sensible(command)
    /\ pc' = [pc EXCEPT ![c] = "resolve"]
    /\ cmd' = [cmd EXCEPT ![c] = command]
    /\ UNCHANGED <<registry, local, target, units, queue, tracker, seen>>

(***************************************************************************)
(* push                                                                    *)
(***************************************************************************)

\* The manifests a push sends, each with its reference: those an index lists, in
\* order, and then the index; an image alone.
\* (mutant: the index first)
UnitsIndexFirst(ref, d, subs) ==
    IF d \in Index /\ subs
    THEN <<[img |-> d, ref |-> ref]>> \o
         [i \in DOMAIN Manifests[d] |->
            [img |-> Manifests[d][i].img, ref |-> SubRef[<<ref, Manifests[d][i].arch>>]]]
    ELSE <<[img |-> d, ref |-> ref]>>

Units(ref, d, subs) ==
    IF d \in Index /\ subs
    THEN [i \in DOMAIN Manifests[d] |->
            [img |-> Manifests[d][i].img, ref |-> SubRef[<<ref, Manifests[d][i].arch>>]]]
         \o <<[img |-> d, ref |-> ref]>>
    ELSE <<[img |-> d, ref |-> ref]>>

\* What push promises for an image: README.md, "pushes the index manifest and also
\* pushes each arch-specific manifest under the -<arch> suffix".
Promised(ref, d, subs) ==
    {<<ref, d>>} \cup
        IF d \in Index /\ subs
        THEN {<<SubRef[<<ref, m.arch>>], m.img>> : m \in Elements(Manifests[d])}
        ELSE {}

\* store.Resolve of the reference
ResolveLocal(c) ==
    /\ pc[c] = "resolve" /\ cmd[c].do = "push"
    /\ tags[cmd[c].ref] # None
    /\ target' = [target EXCEPT ![c] = tags[cmd[c].ref]]
    /\ units' = [units EXCEPT ![c] = Units(cmd[c].ref, tags[cmd[c].ref], cmd[c].subs)]
    /\ pc' = [pc EXCEPT ![c] = "unit"]
    /\ seen' = [seen EXCEPT ![c] =
                  {p \in Promised(cmd[c].ref, tags[cmd[c].ref], cmd[c].subs) : rtags[p[1]] = p[2]}]
    /\ UNCHANGED <<registry, local, cmd, queue, tracker>>

\* What Registry.Push sends for one manifest: an index alone; for an image the
\* config, the layers and at last the manifest under its reference.
\* (mutant: the manifest first)
ManifestFirst(u) ==
    <<[content |-> u.img, ref |-> u.ref]>> \o
        IF u.img \in Index THEN <<>>
        ELSE [i \in DOMAIN Parts[u.img] |-> [content |-> Parts[u.img][i], ref |-> NoRef]]

\* (mutant: the config is forgotten)
WithoutConfig(u) ==
    Append(IF u.img \in Index THEN <<>>
           ELSE [i \in DOMAIN Tail(Parts[u.img]) |->
                    [content |-> Tail(Parts[u.img])[i], ref |-> NoRef]],
           [content |-> u.img, ref |-> u.ref])

WriteLayers(u) ==
    Append(IF u.img \in Index THEN <<>>
           ELSE [i \in DOMAIN Parts[u.img] |-> [content |-> Parts[u.img][i], ref |-> NoRef]],
           [content |-> u.img, ref |-> u.ref])

\* A manifest of the index is resolved again, by digest; the target is not.  (It has
\* a platform: build gives it one, and no other command stores an index.)
Resolvable(c) == Len(units[c]) = 1 \/ Head(units[c]).img \in images

\* (mutant: one that is gone is passed over)
NextUnitPassesOver(c) ==
    /\ pc[c] = "unit" /\ units[c] # <<>>
    /\ units' = [units EXCEPT ![c] = Tail(@)]
    /\ IF Resolvable(c)
       THEN /\ queue' = [queue EXCEPT ![c] = WriteLayers(Head(units[c]))]
            /\ pc' = [pc EXCEPT ![c] = "head"]
       ELSE UNCHANGED <<queue, pc>>
    /\ UNCHANGED <<registry, local, cmd, target, tracker, seen>>

NextUnit(c) ==
    /\ pc[c] = "unit" /\ units[c] # <<>>
    /\ Resolvable(c)
    /\ queue' = [queue EXCEPT ![c] = WriteLayers(Head(units[c]))]
    /\ units' = [units EXCEPT ![c] = Tail(@)]
    /\ pc' = [pc EXCEPT ![c] = "head"]
    /\ UNCHANGED <<registry, local, cmd, target, tracker, seen>>

\* remotes.Pusher.Push answers "already exists" for what this process pushed before
\* and for what a HEAD request finds: a blob by its digest, a manifest by its tag.
AlreadyExists(c, x) ==
    \/ x.content \in tracker[c]
    \/ IF x.ref = NoRef THEN x.content \in remote ELSE rtags[x.ref] = x.content

\* The item at the head of the queue is in the registry.
\* (mutant: the end of the list is missed)
PushedPastEnd(c) ==
    /\ queue' = [queue EXCEPT ![c] = Tail(@)]
    /\ tracker' = [tracker EXCEPT ![c] = @ \cup {Head(queue[c]).content}]
    /\ pc' = [pc EXCEPT ![c] = IF Len(queue[c]) = 0 THEN "unit" ELSE "head"]

Pushed(c) ==
    /\ queue' = [queue EXCEPT ![c] = Tail(@)]
    /\ tracker' = [tracker EXCEPT ![c] = @ \cup {Head(queue[c]).content}]
    /\ pc' = [pc EXCEPT ![c] = IF Len(queue[c]) = 1 THEN "unit" ELSE "head"]

SkipExisting(c) ==
    /\ pc[c] = "head"
    /\ AlreadyExists(c, Head(queue[c]))
    /\ Pushed(c)
    /\ UNCHANGED <<registry, local, cmd, target, units, seen>>

BeginUpload(c) ==
    /\ pc[c] = "head"
    /\ ~AlreadyExists(c, Head(queue[c]))
    /\ pc' = [pc EXCEPT ![c] = "upload"]
    /\ UNCHANGED <<registry, local, cmd, target, units, queue, tracker, seen>>

\* What a push in progress answers for.
Owed(q) ==
    IF target[q] # None /\ cmd[q].do = "push"
    THEN Promised(cmd[q].ref, target[q], cmd[q].subs)
    ELSE {}

Accepted(x) == x.content \in Image /\ strict => References[x.content] \subseteq remote

\* The registry commits what the copy sent, and moves the tag with the manifest.
Upload(c) ==
    LET x == Head(queue[c])
    IN  /\ pc[c] = "upload"
        /\ Accepted(x)
        /\ remote' = remote \cup {x.content}
        /\ rtags' = IF x.ref = NoRef THEN rtags ELSE [rtags EXCEPT ![x.ref] = x.content]
        /\ seen' = [q \in Client |-> seen[q] \cup ({<<x.ref, x.content>>} \cap Owed(q))]
        /\ Pushed(c)
        /\ UNCHANGED <<strict, local, cmd, target, units>>

\* "Successfully pushed"
PushDone(c) == pc[c] = "unit" /\ units[c] = <<>>

FinishPush(c) == PushDone(c) /\ Exit(c) /\ UNCHANGED <<registry, local>>

(***************************************************************************)
(* pull                                                                    *)
(***************************************************************************)
FetchList(m) ==
    [i \in 1 .. Len(Parts[m]) + 2 |->
        [content |-> IF i \in 2 .. Len(Parts[m]) + 1 THEN Parts[m][i - 1] ELSE m, ref |-> NoRef]]

\* remotes.Resolver.Resolve turns the tag into a digest; all else is read by digest.
ResolveRemote(c) ==
    /\ pc[c] = "resolve" /\ cmd[c].do = "pull"
    /\ rtags[cmd[c].ref] # None
    /\ target' = [target EXCEPT ![c] = rtags[cmd[c].ref]]
    /\ IF rtags[cmd[c].ref] \in Index
       THEN /\ pc' = [pc EXCEPT ![c] = "index"]
            /\ queue' = queue
       ELSE /\ pc' = [pc EXCEPT ![c] = "fetch"]
            /\ queue' = [queue EXCEPT ![c] = FetchList(rtags[cmd[c].ref])]
    /\ UNCHANGED <<registry, local, cmd, units, tracker, seen>>

\* matchPlatform: without a target platform, as pull calls it, the only manifest there
\* is; with one the first for it.
MatchPlatform(ms, platform) ==
    LET fits == {i \in DOMAIN ms : ms[i].arch = platform}
    IN  IF platform = NoPlatform
        THEN {ms[i].img : i \in IF Len(ms) = 1 THEN {1} ELSE {}}
        ELSE {ms[i].img : i \in {j \in fits : \A k \in fits : j <= k}}

FetchIndex(c) ==
    /\ pc[c] = "index"
    /\ target[c] \in remote
    /\ \E m \in MatchPlatform(Manifests[target[c]], cmd[c].platform) :
          /\ target' = [target EXCEPT ![c] = m]
          /\ queue' = [queue EXCEPT ![c] = FetchList(m)]
    /\ pc' = [pc EXCEPT ![c] = "fetch"]
    /\ UNCHANGED <<registry, local, cmd, units, tracker, seen>>

\* The manifest, for what it lists; then the blobs and the manifest once more.  (Blobs
\* the local store has are not read: to read them all asks more of the registry.)
FetchContent(c) ==
    /\ pc[c] = "fetch"
    /\ Head(queue[c]).content \in remote
    /\ queue' = [queue EXCEPT ![c] = Tail(@)]
    /\ pc' = [pc EXCEPT ![c] = IF Len(queue[c]) = 1 THEN "put" ELSE "fetch"]
    /\ UNCHANGED <<registry, local, cmd, target, units, tracker, seen>>

\* Store.Push: Put, then Tag by digest, which somebody may have deleted meanwhile.
PutPulled(c) ==
    /\ pc[c] = "put"
    /\ Put(target[c])
    /\ pc' = [pc EXCEPT ![c] = "tag"]
    /\ UNCHANGED <<registry, cmd, target, units, queue, tracker, seen>>

TagPulled(c) ==
    /\ pc[c] = "tag"
    /\ Tag(cmd[c].ref, target[c])
    /\ Exit(c)
    /\ UNCHANGED registry

(***************************************************************************)
(* Errors, kills and other commands                                        *)
(***************************************************************************)

\* A reference or digest that is not there, a manifest the registry refuses, no
\* manifest for the platform.
Fails(c) ==
    \/ pc[c] = "resolve" /\ cmd[c].do = "push" /\ tags[cmd[c].ref] = None
    \/ pc[c] = "resolve" /\ cmd[c].do = "pull" /\ rtags[cmd[c].ref] = None
    \/ pc[c] = "unit" /\ units[c] # <<>> /\ ~Resolvable(c)
    \/ pc[c] = "upload" /\ ~Accepted(Head(queue[c]))
    \/ /\ pc[c] = "index"
       /\ \/ target[c] \notin remote
          \/ MatchPlatform(Manifests[target[c]], cmd[c].platform) = {}
    \/ pc[c] = "fetch" /\ Head(queue[c]).content \notin remote
    \/ pc[c] = "tag" /\ target[c] \notin images

ReturnError(c) == Fails(c) /\ Exit(c) /\ UNCHANGED <<registry, local>>

Stop(c) == pc[c] # "idle" /\ Exit(c) /\ UNCHANGED <<registry, local>>

\* tag and delete run on the local store meanwhile.
OtherCommand ==
    /\ \/ \E d \in Doomed \cap images : DeleteImage(d)
       \/ \E m \in Retags : tags[m[1]] # m[2] /\ Tag(m[1], m[2])
    /\ UNCHANGED <<registry, client>>

Step(c) ==
    \/ ResolveLocal(c)
    \/ NextUnit(c)
    \/ SkipExisting(c)
    \/ BeginUpload(c)
    \/ Upload(c)
    \/ FinishPush(c)
    \/ ResolveRemote(c)
    \/ FetchIndex(c)
    \/ FetchContent(c)
    \/ PutPulled(c)
    \/ TagPulled(c)
    \/ ReturnError(c)

TransferNext ==
    \/ \E c \in Client :
          \/ \E command \in Commands : Start(c, command)
          \/ Step(c)
          \/ Stop(c)
    \/ OtherCommand

TransferSpec == TransferInit /\ [][TransferNext]_allVars

-----------------------------------------------------------------------------
(* Properties *)

\* Whatever the registry holds it holds with all it refers to, although clients
\* are killed anywhere and the registry does not check: blobs go before their
\* manifest (AsWriteLayers) and manifests before their index (cmd/push).
RemoteComplete == \A d \in remote \cap Image : References[d] \subseteq remote

\* When push reports success every reference it names has meant the image it was
\* pushed for at some time since the command resolved it, although other clients push
\* to the same references and what they or this process pushed before is skipped.
PushReported == \A c \in Client : PushDone(c) => seen[c] = Owed(c)

\* A pull that found its tag does not meet a missing blob or manifest, although
\* the tag moves and other clients push while it reads.
PullsMeetNoGap ==
    \A c \in Client :
       /\ pc[c] = "index" => target[c] \in remote
       /\ pc[c] = "fetch" => Head(queue[c]).content \in remote

\* Readers of the registry see PublishedImages: an image appears when its manifest is
\* uploaded, at once with all it refers to, and stays; a tag means an image that is
\* there. All other requests of clients, complete or cut short, change nothing they see.
Registry == INSTANCE PublishedImages WITH
    published <- {d \in remote \cap Image : References[d] \subseteq remote},
    meaning <- rtags

ImplementsRegistry == Registry!Spec

\* README.md, push and pull: after a push the same reference can be pulled, when
\* neither kills nor other local commands interfere.
CalmNext == \E c \in Client : (\E command \in Commands : Start(c, command)) \/ Step(c)

CalmSpec == TransferInit /\ [][CalmNext]_allVars /\ \A c \in Client : WF_allVars(Step(c))

PulledWhatWasPushed ==
    \A c \in Client :
       (pc[c] = "resolve" /\ cmd[c].do = "pull" /\ rtags[cmd[c].ref] # None) ~> (pc[c] = "tag")
=============================================================================
