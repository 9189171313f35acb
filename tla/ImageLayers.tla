----------------------------- MODULE ImageLayers -----------------------------
(***************************************************************************)
(* What the layers of an image mean: the loop of ResolveImage, which users *)
(* of the library call, and the two loops of the url command, which select *)
(* one layer of a manifest.  Both read the layers of one manifest and      *)
(* share nothing else, so the model lets one run after the other.          *)
(***************************************************************************)
EXTENDS Naturals, Sequences

\* LayerType; a field of Image each
Kind == {"rootfs", "initramfs", "kernel", "squashfs", "uki", "iso"}

LegacyKind == Kind \ {"uki", "iso"}

\* Media types of layers
Current(k) == [of |-> k, legacy |-> FALSE]

Legacy(k) == [of |-> k, legacy |-> TRUE]

Known == {Current(k) : k \in Kind} \cup {Legacy(k) : k \in LegacyKind}

\* Media types nobody defined: the empty one and all others.
Empty == [of |-> "", legacy |-> FALSE]

Foreign == [of |-> "other", legacy |-> FALSE]

MediaType == Known \cup {Empty, Foreign}

CONSTANTS
    Manifests, \* the layers of the manifests that occur
    Flags      \* values of --layer, any string

ASSUME ManifestsAssumption == Manifests \subseteq Seq(MediaType)

VARIABLES
    layers, \* the manifest at hand
    next,   \* ResolveImage: the layer it looks at
    img,    \* the layer in each field, 0 for nil
    read,   \* how far ResolveImage is
    want,   \* url: --layer
    pass,   \* which loop runs, or the result
    look    \* the layer the loop looks at

resolve == <<next, img, read>>
url == <<want, pass, look>>
vars == <<layers, resolve, url>>

Positions == DOMAIN layers

\* An ended loop has ended for its reason.
TypeOK ==
    /\ layers \in Seq(MediaType)
    /\ next \in 1 .. Len(layers) + 1
    /\ img \in [Kind -> Positions \cup {0}]
    /\ read \in {"reading", "resolved", "failed"}
    /\ read = "resolved" => next = Len(layers) + 1
    /\ want \in Flags
    /\ pass \in {"idle", "current", "legacy", "found", "none"}
    /\ look \in 1 .. Len(layers) + 1
    /\ pass = "found" => look \in Positions

Init ==
    /\ layers \in Manifests
    /\ next = 1 /\ img = [k \in Kind |-> 0] /\ read = "reading"
    /\ want \in Flags /\ pass = "idle" /\ look = 1

(***************************************************************************)
(* ResolveImage                                                            *)
(***************************************************************************)
Reading == read = "reading" /\ next \in Positions

\* A layer of a current type takes its field.
ReadCurrent ==
    /\ Reading
    /\ \E k \in Kind :
          /\ layers[next] = Current(k)
          /\ img' = [img EXCEPT ![k] = next]
    /\ next' = next + 1
    /\ UNCHANGED <<layers, read, url>>

\* A layer of a legacy type takes its field when that is nil.
\* (mutant: the last one takes it)
ReadLegacyAlways ==
    /\ Reading
    /\ \E k \in LegacyKind :
          /\ layers[next] = Legacy(k)
          /\ img' = [img EXCEPT ![k] = next]
    /\ next' = next + 1
    /\ UNCHANGED <<layers, read, url>>

ReadLegacy ==
    /\ Reading
    /\ \E k \in LegacyKind :
          /\ layers[next] = Legacy(k)
          /\ img' = IF img[k] = 0 THEN [img EXCEPT ![k] = next] ELSE img
    /\ next' = next + 1
    /\ UNCHANGED <<layers, read, url>>

ReadUnknown ==
    /\ Reading
    /\ layers[next] \notin Known
    /\ read' = "failed"
    /\ UNCHANGED <<layers, next, img, url>>

\* (mutant: before the last layer)
ReturnEarly ==
    /\ read = "reading"
    /\ next >= Len(layers)
    /\ read' = "resolved"
    /\ UNCHANGED <<layers, next, img, url>>

ReturnImage ==
    /\ read = "reading"
    /\ next = Len(layers) + 1
    /\ read' = "resolved"
    /\ UNCHANGED <<layers, next, img, url>>

(***************************************************************************)
(* url                                                                     *)
(***************************************************************************)

\* layerTypeToMediaType and legacyLayerTypeToMediaType: a missing key gives the
\* empty media type.
LayerTypeToMediaType(k) == IF k \in Kind THEN Current(k) ELSE Empty

LegacyLayerTypeToMediaType(k) == IF k \in LegacyKind THEN Legacy(k) ELSE Empty

StartUrl ==
    /\ pass = "idle" /\ read # "reading"
    /\ pass' = "current"
    /\ UNCHANGED <<layers, resolve, want, look>>

\* What the loop looks for.
\* (mutant: the legacy type first)
SoughtLegacyFirst ==
    IF pass = "current" THEN LegacyLayerTypeToMediaType(want) ELSE LayerTypeToMediaType(want)

Sought ==
    IF pass = "current" THEN LayerTypeToMediaType(want) ELSE LegacyLayerTypeToMediaType(want)

Look ==
    /\ pass \in {"current", "legacy"}
    /\ look \in Positions
    /\ IF layers[look] = Sought
       THEN pass' = "found" /\ look' = look
       ELSE pass' = pass /\ look' = look + 1
    /\ UNCHANGED <<layers, resolve, want>>

\* Nothing of the current type: the legacy type is tried, from the first layer.
LookForLegacy ==
    /\ pass = "current" /\ look = Len(layers) + 1
    /\ pass' = "legacy" /\ look' = 1
    /\ UNCHANGED <<layers, resolve, want>>

NoLayer ==
    /\ pass = "legacy" /\ look = Len(layers) + 1
    /\ pass' = "none"
    /\ UNCHANGED <<layers, resolve, want, look>>

Next ==
    \/ ReadCurrent
    \/ ReadLegacy
    \/ ReadUnknown
    \/ ReturnImage
    \/ StartUrl
    \/ Look
    \/ LookForLegacy
    \/ NoLayer

Spec == Init /\ [][Next]_vars

(***************************************************************************)
(* build                                                                   *)
(***************************************************************************)
Option(k, files) == IF k \in files THEN <<k>> ELSE <<>>

\* The options of an image in the order buildImage takes them.
Given(files) ==
    Option("rootfs", files) \o Option("initramfs", files) \o Option("kernel", files)
        \o Option("squashfs", files) \o Option("uki", files) \o Option("iso", files)

\* The layers buildImage writes, one for each file.
\* (mutant: kernel and initramfs swapped)
BuildLayersSwapped(files) ==
    [i \in DOMAIN Given(files) |->
        Current(CASE Given(files)[i] = "kernel" -> "initramfs"
                  [] Given(files)[i] = "initramfs" -> "kernel"
                  [] OTHER -> Given(files)[i])]

BuildLayers(files) == [i \in DOMAIN Given(files) |-> Current(Given(files)[i])]

-----------------------------------------------------------------------------
(* Properties *)

\* Layer i is the one for kind k among the first n: the last of the current type,
\* without one the first of the legacy type, without any none.
Chosen(k, n, i) ==
    \/ /\ i \in 1 .. n /\ layers[i] = Current(k)
       /\ \A j \in i + 1 .. n : layers[j] # Current(k)
    \/ /\ i \in 1 .. n /\ layers[i] = Legacy(k)
       /\ \A j \in 1 .. n : layers[j] # Current(k)
       /\ \A j \in 1 .. i - 1 : layers[j] # Legacy(k)
    \/ /\ i = 0
       /\ \A j \in 1 .. n : layers[j] \notin {Current(k), Legacy(k)}

\* ResolveImage returns, whatever the order of the layers, an image in which no
\* legacy layer stands where the manifest has a current one; and it reads a manifest
\* if and only if it knows the types of all layers.
ResolvedImage ==
    /\ read = "resolved" =>
          /\ \A i \in Positions : layers[i] \in Known
          /\ \A k \in Kind : Chosen(k, Len(layers), img[k])
    /\ read = "failed" => \E i \in Positions : layers[i] \notin Known

AtMostOne(t) == \A i, j \in Positions : layers[i] = t /\ layers[j] = t => i = j

\* url --layer and ResolveImage answer with the same layer of an image, unless the
\* image repeats a current type (url then takes the first, ResolveImage the last).
SameLayer ==
    read = "resolved" /\ want \in Kind /\ AtMostOne(Current(want)) =>
        /\ pass = "found" => img[want] = look
        /\ pass = "none" => img[want] = 0

\* What build wrote ResolveImage reads back: every field holds the file of its own
\* option, or nothing when that was not given.
BuiltImageIsRead ==
    \A files \in SUBSET Kind :
        layers = BuildLayers(files) =>
            /\ read # "failed"
            /\ read = "resolved" =>
                  /\ {k \in Kind : img[k] # 0} = files
                  /\ \A k \in files : Given(files)[img[k]] = k

=============================================================================
