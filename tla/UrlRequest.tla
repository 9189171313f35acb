------------------------------ MODULE UrlRequest ------------------------------
(***************************************************************************)
(* The url command: which HTTP request fetches the manifest of an image,   *)
(* or one of its layers.                                                   *)
(*                                                                         *)
(* docker.RequestResolver tries the request it is going to print.  For a   *)
(* layer it first looks the reference up a second time, through            *)
(* containerd's resolver, to learn the layer's digest.  Meanwhile others   *)
(* push to the registry, which is the one of PublishedImages, and the      *)
(* network and the registry answer in every way the code provides for.     *)
(***************************************************************************)
EXTENDS PublishedImages, Integers, FiniteSets

CONSTANTS
    Index,      \* those among Image that are image indexes
    Layers,     \* [Image -> sequence of [kind, legacy, digest]], <<>> for an index
    Kind,       \* values of --layer
    References, \* arguments of the command, see below
    Latest,     \* the label "latest"
    Nothing,    \* no such part, no such value
    Limit,      \* failed answers after which a request is given up: 6
    Delays      \* bound: answers a registry that is busy "sometimes" delays, per request

(***************************************************************************)
(* A reference as reference.ParseNamed sees it: fully named or not, with a *)
(* tag or not, pinned to a digest or not.                                  *)
(***************************************************************************)
Reference ==
    [named : BOOLEAN, tag : Label \cup {Nothing}, pin : Image \cup {Nothing}]

Layer == UNION {{Layers[m][i] : i \in DOMAIN Layers[m]} : m \in Image}

Path ==
    [of : {"manifest"}, tag : Label] \cup [of : {"blob"}, digest : {l.digest : l \in Layer}]

(***************************************************************************)
(* What a registry is like: whether it implements HEAD, wants a token, has *)
(* only such manifests for a client as its Accept header names, answers    *)
(* 408, 429 or (for an expired token) 401 now and then, and fails in a way *)
(* that ends a command.                                                    *)
(***************************************************************************)
Registry ==
    [heads : BOOLEAN, private : BOOLEAN, negotiates : BOOLEAN, breaks : BOOLEAN,
     busy : {"never", "sometimes", "often"}]

MediaType(d) == IF d \in Index THEN "image.index" ELSE "image.manifest"

ASSUME ReferenceAssumption ==
    /\ References \subseteq Reference
    /\ Latest \in Label
    /\ Nothing \notin Label /\ Nothing \notin Image /\ Nothing \notin Layer \cup Path
    /\ None \notin Image
    /\ Index \subseteq Image
    /\ \A d \in Index : Layers[d] = <<>>

ASSUME LimitAssumption ==
    /\ Limit \in Nat
    /\ Delays \in Nat
    /\ Delays + 2 < Limit

VARIABLES
    host,     \* the registry
    ref,      \* argument of the command
    want,     \* --layer, or Nothing
    pc,       \* what the command does next, or how it ended
    request,  \* the request in hand: path, media type accepted, token or not
    method,   \* its method, which is not printed
    failed,   \* responses to it that were no success
    delays,   \* those among them the registry was too busy for
    auth,     \* the authorizer has a token for the host
    manifest, \* the manifest that was decoded, kept for the second call of Manifest
    layer,    \* the layer selected
    answered, \* requests answered with success (history)
    meant     \* images the reference meant since the command began (history)

registry == <<published, meaning, host>>
tries == <<request, method, failed, delays, auth>>
vars == <<registry, ref, want, pc, tries, manifest, layer, answered, meant>>

Ended == {"printed", "refused", "absent", "no layer", "unknown layer", "error"}

PC == {"start", "try", "resolve", "fetch", "select", "layer"} \cup Ended

Request ==
    [path : Path \cup {Nothing}, accept : {"image.manifest", Nothing}, token : BOOLEAN]

UrlTypeOK ==
    /\ published \subseteq Image
    /\ meaning \in [Label -> Image \cup {None}]
    /\ host \in Registry
    /\ ref \in References
    /\ want \in Kind \cup {Nothing}
    /\ pc \in PC
    /\ request \in Request
    /\ method \in {"HEAD", "GET"}
    /\ failed \in 0 .. Limit
    /\ delays \in 0 .. Limit
    /\ auth \in BOOLEAN
    /\ manifest \in Image \cup {Nothing}
    /\ layer \in Layer \cup {Nothing}
    /\ answered \subseteq Request
    /\ meant \subseteq Image
    /\ pc \in {"try", "resolve", "printed"} => request.path # Nothing
    /\ pc \in {"fetch", "select", "layer"} => manifest # Nothing
    /\ pc = "layer" => layer # Nothing

\* What a reference means to containerd's resolver: the digest when there is one.
Meanings(r, tags) ==
    IF r.pin # Nothing THEN {r.pin}
    ELSE IF r.tag # Nothing THEN {tags[r.tag]} \ {None}
    ELSE {}

\* The command may begin at any time in the life of a registry.
UrlInit ==
    /\ published \in SUBSET Image
    /\ \A d \in published : Requires[d] \subseteq published
    /\ meaning \in [Label -> published \cup {None}]
    /\ host \in Registry
    /\ ref \in References /\ want \in Kind \cup {Nothing}
    /\ pc = "start"
    /\ request = [path |-> Nothing, accept |-> Nothing, token |-> FALSE]
    /\ method = "HEAD" /\ failed = 0 /\ delays = 0 /\ auth = FALSE
    /\ manifest = Nothing /\ layer = Nothing
    /\ answered = {}
    /\ meant = Meanings(ref, meaning)

-----------------------------------------------------------------------------
(* RequestResolver.Resolve, Manifest and Layer *)

End(how) ==
    /\ pc' = how
    /\ UNCHANGED <<registry, ref, want, tries, manifest, layer, answered, meant>>

\* A request is made anew; the authorizer is the registry host's and stays.
Begin(path, accept) ==
    /\ request' = [path |-> path, accept |-> accept, token |-> FALSE]
    /\ method' = "HEAD" /\ failed' = 0 /\ delays' = 0
    /\ pc' = "try"
    /\ UNCHANGED auth

RefuseName ==
    /\ pc = "start" /\ ~ref.named
    /\ End("refused")

TagOf(r) == IF r.tag # Nothing THEN r.tag ELSE Latest

\* The request for the manifest asks for the tag, whether or not the reference has
\* a digest, and for latest without a tag; it accepts no index.
ResolveReference ==
    /\ pc = "start" /\ ref.named
    /\ Begin([of |-> "manifest", tag |-> TagOf(ref)], "image.manifest")
    /\ UNCHANGED <<registry, ref, want, manifest, layer, answered, meant>>

\* containerd's resolver turns the reference into a digest: a pinned one into its
\* own, a tag into what it means by now; it refuses a bare name.
ResolveDigest ==
    /\ pc = "resolve"
    /\ \E d \in Meanings(ref, meaning) \cap published :
          /\ manifest' = d
          /\ meant' = meant \cup {d}
    /\ pc' = "fetch"
    /\ UNCHANGED <<registry, ref, want, tries, layer, answered>>

NoDigest ==
    /\ pc = "resolve"
    /\ Meanings(ref, meaning) \cap published = {}
    /\ End(IF ref.tag = Nothing /\ ref.pin = Nothing THEN "refused" ELSE "absent")

\* The manifest is read by digest.  An index decodes into a manifest without layers.
FetchManifest ==
    /\ pc = "fetch"
    /\ manifest \in published
    /\ pc' = "select"
    /\ UNCHANGED <<registry, ref, want, tries, manifest, layer, answered, meant>>

Positions(m, k, legacy) ==
    {i \in DOMAIN Layers[m] : Layers[m][i].kind = k /\ Layers[m][i].legacy = legacy}

\* The first layer of the current media type, without one the first of the legacy one.
Selected(m, k) ==
    LET candidates == IF Positions(m, k, FALSE) # {} THEN Positions(m, k, FALSE)
                      ELSE Positions(m, k, TRUE)
    IN  {Layers[m][i] : i \in {j \in candidates : \A n \in candidates : j <= n}}

\* (mutant: what was not found is used)
SelectUnchecked ==
    /\ pc = "select"
    /\ layer' \in IF Selected(manifest, want) = {} THEN {Nothing} ELSE Selected(manifest, want)
    /\ pc' = "layer"
    /\ UNCHANGED <<registry, ref, want, tries, manifest, answered, meant>>

SelectLayer ==
    /\ pc = "select"
    /\ layer' \in Selected(manifest, want)
    /\ pc' = "layer"
    /\ UNCHANGED <<registry, ref, want, tries, manifest, answered, meant>>

NoLayer ==
    /\ pc = "select"
    /\ Selected(manifest, want) = {}
    /\ End("no layer")

\* manifestInfo.Layer calls Manifest again, which answers with the manifest it has.
Has(m, digest) == \E i \in DOMAIN Layers[m] : Layers[m][i].digest = digest

RequestBlob(m) ==
    /\ IF Has(m, layer.digest)
       THEN Begin([of |-> "blob", digest |-> layer.digest], Nothing)
       ELSE pc' = "unknown layer" /\ UNCHANGED tries
    /\ UNCHANGED <<registry, ref, want, manifest, layer, answered, meant>>

\* (mutant: Manifest without the sync.Once)
FindLayerAgain ==
    /\ pc = "layer"
    /\ \E m \in Meanings(ref, meaning) : RequestBlob(m)

FindLayer ==
    /\ pc = "layer"
    /\ RequestBlob(manifest)

-----------------------------------------------------------------------------
(* baseInfo.baseInit: the loop around one request *)

\* Authorizer.Authorize puts the token it has into the header of each attempt.
Sent == [request EXCEPT !.token = auth]

NeedsToken == host.private /\ ~auth

NeedsGet == method = "HEAD" /\ ~host.heads

Acceptable(d) == host.negotiates => request.accept \in {Nothing, MediaType(d)}

Exists ==
    IF request.path.of = "manifest"
    THEN \E d \in {meaning[request.path.tag]} \ {None} : Acceptable(d)
    ELSE \E m \in published : Has(m, request.path.digest)

Trying == pc = "try" /\ failed < Limit

\* The request is stored: the manifest's is printed, or the layer is looked up.
Store(r) ==
    /\ request' = r
    /\ pc' = IF request.path.of = "manifest" /\ want # Nothing THEN "resolve" ELSE "printed"

Success ==
    /\ Trying
    /\ ~NeedsToken /\ ~NeedsGet /\ Exists
    /\ answered' = answered \cup {Sent}
    /\ Store(Sent)
    /\ UNCHANGED <<registry, ref, want, method, failed, delays, auth, manifest, layer, meant>>

\* A response that is no success counts and the request is sent again.
Again ==
    /\ failed' = failed + 1
    /\ request' = Sent
    /\ UNCHANGED <<registry, ref, want, pc, manifest, layer, answered, meant>>

\* 401: Authorizer.AddResponses learns where to get a token.
Unauthorized ==
    /\ Trying
    /\ NeedsToken
    /\ auth' = TRUE
    /\ Again
    /\ UNCHANGED <<method, delays>>

\* 405: the registry does not implement HEAD, which it may say before it asks for a token.
MethodNotAllowed ==
    /\ Trying
    /\ NeedsGet
    /\ method' = "GET"
    /\ Again
    /\ UNCHANGED <<delays, auth>>

MayDelay == host.busy = "often" \/ (host.busy = "sometimes" /\ delays < Delays)

\* 408, 429, or 401 for a token that was good before.
\* (mutants: the response is not counted, and delays goes round to stay finite; it is an error)
BusyUncounted ==
    /\ Trying
    /\ MayDelay
    /\ request' = Sent
    /\ delays' = (delays + 1) % Limit
    /\ UNCHANGED <<registry, ref, want, pc, method, failed, auth, manifest, layer, answered, meant>>

BusyIsFatal ==
    /\ Trying
    /\ MayDelay
    /\ End("error")

Busy ==
    /\ Trying
    /\ MayDelay
    /\ delays' = delays + 1
    /\ Again
    /\ UNCHANGED <<method, auth>>

\* 404, one of the statuses that are errors at once
NotFound ==
    /\ Trying
    /\ ~NeedsToken /\ ~NeedsGet /\ ~Exists
    /\ End("absent")

\* The last response allowed was no success either: the loop ends as after one.
\* (mutant: a response too early)
StopEarly ==
    /\ pc = "try" /\ failed >= Limit - 1
    /\ Store(request)
    /\ UNCHANGED <<registry, ref, want, method, failed, delays, auth, manifest, layer,
                   answered, meant>>

StopTrying ==
    /\ pc = "try" /\ failed = Limit
    /\ Store(request)
    /\ UNCHANGED <<registry, ref, want, method, failed, delays, auth, manifest, layer,
                   answered, meant>>

\* No token to be had, no connection, any other status, a manifest that is cut off.
Break ==
    /\ host.breaks
    /\ Trying \/ pc \in {"resolve", "fetch"}
    /\ End("error")

Step ==
    \/ RefuseName
    \/ ResolveReference
    \/ Unauthorized
    \/ MethodNotAllowed
    \/ Busy
    \/ Success
    \/ NotFound
    \/ StopTrying
    \/ ResolveDigest
    \/ NoDigest
    \/ FetchManifest
    \/ SelectLayer
    \/ NoLayer
    \/ FindLayer
    \/ Break

\* Others push.
Push ==
    /\ Next
    /\ meant' = IF pc \in Ended THEN meant ELSE meant \cup Meanings(ref, meaning')
    /\ UNCHANGED <<host, ref, want, pc, tries, manifest, layer, answered>>

UrlSpec == UrlInit /\ [][Step \/ Push]_vars /\ WF_vars(Step)

-----------------------------------------------------------------------------
(* Properties *)

\* What url prints was answered, token included, by a registry that is not busy all
\* the time: the six responses leave room for a token, for a change of method and for
\* a few delays.  (A registry that delays all six gets its request printed unanswered:
\* baseInit does not look at how its loop ended.)
RequestWorks == pc = "printed" /\ host.busy # "often" => request \in answered

\* The two looks at a reference see one image each, not always the same; the layer
\* printed is of the kind asked for in an image the reference meant while the command
\* ran, and a layer found in the manifest is never called unknown (manifestInfo keeps
\* the manifest of its first look, sync.Once).
OneImage ==
    /\ pc # "unknown layer"
    /\ pc = "printed" /\ want # Nothing =>
          \E m \in meant \cap published : \E l \in Selected(m, want) :
              request.path = [of |-> "blob", digest |-> l.digest]

\* Every url command ends, however often and however the registry answers: a response
\* that is no success is an error or counts.
UrlEnds == <>(pc \in Ended)

\* The tag the manifest's request asks for means an image the registry gives away for
\* it, and the reference resolves.  For a pinned reference that tag is latest, which may be
\* another image: what url prints for its manifest is not what the reference means, and
\* only its layers are spoken of.
AtIndex == host.negotiates /\ meaning[TagOf(ref)] \in Index

Findable ==
    /\ ref.named
    /\ meaning[TagOf(ref)] # None /\ ~AtIndex
    /\ IF want = Nothing THEN ref.pin = Nothing ELSE Meanings(ref, meaning) \cap published # {}

\* An image that is published is found, also by a registry without HEAD, with tokens
\* and with a few delays ("Gracefully handle registries that don't implement HEAD",
\* docker.go), unless it has no such layer.  An index is not, by a registry that honours
\* the Accept header: manifestInfo.init asks for image manifests only, also when it is
\* but the first step to a layer; the escape is for a tag that moves to an index before
\* the request arrives.
PublishedIsFound ==
    (pc = "start" /\ Findable /\ ~host.breaks /\ host.busy # "often")
        ~> \/ pc = "printed"
           \/ pc = "no layer" /\ want # Nothing
           \/ pc = "absent" /\ AtIndex
=============================================================================
