---------------------------- MODULE UrlRequestProofs ---------------------------
(***************************************************************************)
(* The url command for any images, references, layers and registries, with *)
(* pushes at any moment.                                                   *)
(***************************************************************************)
EXTENDS UrlRequest, TLAPS

-----------------------------------------------------------------------------
(* What selections and references give *)

\* A layer selected from an image is one of its layers.
LEMMA SelectedIsThere ==
    ASSUME NEW m \in Image, NEW k, NEW l \in Selected(m, k)
    PROVE  l \in Layer /\ Has(m, l.digest)
<1>1. PICK i \in DOMAIN Layers[m] : l = Layers[m][i]
  BY DEF Selected, Positions
<1>2. l \in {Layers[m][n] : n \in DOMAIN Layers[m]}
  BY <1>1
<1>3. l \in Layer
  BY <1>2 DEF Layer
<1>4. Has(m, l.digest)
  BY <1>1 DEF Has
<1> QED
  BY <1>3, <1>4

\* What a reference means is an image.
LEMMA MeaningsType ==
    ASSUME NEW r \in References, NEW tags \in [Label -> Image \cup {None}]
    PROVE  Meanings(r, tags) \subseteq Image /\ TagOf(r) \in Label
<1>1. r \in Reference
  BY ReferenceAssumption
<1>2. r.tag \in Label \cup {Nothing} /\ r.pin \in Image \cup {Nothing}
  BY <1>1 DEF Reference
<1>3. Meanings(r, tags) \subseteq Image
  BY <1>2 DEF Meanings
<1>4. TagOf(r) \in Label
  BY <1>2, ReferenceAssumption DEF TagOf
<1> QED
  BY <1>3, <1>4

\* A request goes out with the token there is, and for the same thing.
LEMMA SentProperties ==
    ASSUME request \in Request, auth \in BOOLEAN
    PROVE  Sent \in Request /\ Sent.path = request.path
  BY DEF Sent, Request

-----------------------------------------------------------------------------
(* The invariant *)

\* The layer that is being asked for is of the kind wanted in an image meant meanwhile.
Found ==
    \E m \in meant \cap published : \E l \in Selected(m, want) :
       request.path = [of |-> "blob", digest |-> l.digest]

\* What the command has in hand comes from one image that the reference meant.
HoldsOneImage ==
    /\ pc # "unknown layer"
    /\ pc \in {"fetch", "select", "layer"} => manifest \in meant \cap published
    /\ pc = "layer" => layer \in Selected(manifest, want)
    /\ pc = "try" /\ want # Nothing => request.path.of = "manifest" \/ Found
    /\ pc = "printed" /\ want # Nothing => Found

\* Each response that is no success had its reason, and each reason but a delay occurs
\* at most once; delays are few unless the registry is always busy.
ResponsesCounted ==
    /\ delays <= failed
    /\ host.busy # "often" => delays <= Delays
    /\ failed <= delays + (IF auth THEN 1 ELSE 0) + (IF method = "GET" THEN 1 ELSE 0)

UrlInv == UrlTypeOK /\ HoldsOneImage /\ ResponsesCounted /\ RequestWorks

\* It holds at first.
LEMMA UrlInvInit == UrlInit => UrlInv
<1> SUFFICES ASSUME UrlInit
             PROVE  UrlInv
  OBVIOUS
<1>1. request \in Request
  BY DEF UrlInit, Request
<1>2. meaning \in [Label -> Image \cup {None}] /\ published \subseteq Image
  BY DEF UrlInit
<1>3. meant \subseteq Image
  BY <1>2, MeaningsType DEF UrlInit
<1>4. UrlTypeOK
  <2>1. failed \in 0 .. Limit /\ delays \in 0 .. Limit
    BY LimitAssumption DEF UrlInit
  <2>2. pc = "start" /\ pc \in PC
    BY DEF UrlInit, PC
  <2>3. /\ host \in Registry /\ ref \in References /\ want \in Kind \cup {Nothing}
        /\ method \in {"HEAD", "GET"} /\ auth \in BOOLEAN
        /\ manifest \in Image \cup {Nothing} /\ layer \in Layer \cup {Nothing}
        /\ answered \subseteq Request
    BY DEF UrlInit
  <2> QED
    BY <1>1, <1>2, <1>3, <2>1, <2>2, <2>3 DEF UrlTypeOK
<1>5. HoldsOneImage /\ ResponsesCounted /\ RequestWorks
  BY LimitAssumption DEF UrlInit, HoldsOneImage, ResponsesCounted, RequestWorks
<1> QED
  BY <1>4, <1>5 DEF UrlInv

\* The command ends in one of these ways and prints nothing.
LEMMA EndKeepsInv ==
    ASSUME UrlInv, NEW how \in Ended \ {"printed", "unknown layer"}, End(how)
    PROVE  UrlInv'
<1>1. how \in PC /\ how \notin {"try", "resolve", "printed", "fetch", "select", "layer", "unknown layer"}
  BY DEF PC, Ended
<1>2. /\ pc' = how
      /\ UNCHANGED <<published, meaning, host, ref, want, request, method, failed, delays, auth,
                     manifest, layer, answered, meant>>
  BY DEF End, registry, tries
<1>3. UrlTypeOK'
  BY <1>1, <1>2 DEF UrlInv, UrlTypeOK
<1>4. HoldsOneImage' /\ ResponsesCounted' /\ RequestWorks'
  BY <1>1, <1>2 DEF UrlInv, HoldsOneImage, ResponsesCounted, RequestWorks
<1> QED
  BY <1>3, <1>4 DEF UrlInv

\* A request begun anew has its responses before it.
LEMMA BeginKeepsInv ==
    ASSUME UrlInv, NEW path \in Path, NEW accept \in {"image.manifest", Nothing},
           Begin(path, accept),
           UNCHANGED <<registry, ref, want, manifest, layer, answered, meant>>,
           want # Nothing =>
              \/ path.of = "manifest"
              \/ \E m \in meant \cap published : \E l \in Selected(m, want) :
                    path = [of |-> "blob", digest |-> l.digest]
    PROVE  UrlInv'
<1>1. /\ request' = [path |-> path, accept |-> accept, token |-> FALSE] /\ request'.path = path
      /\ method' = "HEAD" /\ failed' = 0 /\ delays' = 0 /\ pc' = "try"
      /\ UNCHANGED <<published, meaning, host, ref, want, auth, manifest, layer, answered, meant>>
  BY DEF Begin, registry
<1>2. request' \in Request /\ path # Nothing
  BY <1>1, ReferenceAssumption DEF Request
<1>3. UrlTypeOK'
  BY <1>1, <1>2, LimitAssumption DEF UrlInv, UrlTypeOK, PC
<1>4. HoldsOneImage'
  BY <1>1 DEF HoldsOneImage, Found
<1>5. ResponsesCounted' /\ RequestWorks'
  BY <1>1, LimitAssumption DEF UrlInv, UrlTypeOK, ResponsesCounted, RequestWorks
<1> QED
  BY <1>3, <1>4, <1>5 DEF UrlInv

\* A response that was no success: the next attempt is for the same thing.
LEMMA AgainKeepsInv ==
    ASSUME UrlInv, Trying, Again, method' \in {"HEAD", "GET"}, auth' \in BOOLEAN,
           delays' \in {delays, delays + 1}, ResponsesCounted'
    PROVE  UrlInv'
<1>1. UrlTypeOK /\ HoldsOneImage /\ pc = "try" /\ pc' = "try"
  BY DEF UrlInv, Trying, Again
<1>2. /\ UNCHANGED <<published, meaning, host, ref, want, manifest, layer, answered, meant>>
      /\ request' = Sent /\ failed' = failed + 1 /\ failed < Limit
  BY DEF Again, Trying, registry
<1>3. request' \in Request /\ request'.path = request.path
  BY <1>1, <1>2, SentProperties DEF UrlTypeOK
<1>4. failed' \in 0 .. Limit /\ delays' \in 0 .. Limit
  <2>1. failed \in 0 .. Limit /\ delays \in 0 .. Limit /\ delays <= failed
    BY DEF UrlInv, UrlTypeOK, ResponsesCounted
  <2> QED
    BY <1>2, <2>1, LimitAssumption
<1>5. UrlTypeOK'
  BY <1>1, <1>2, <1>3, <1>4 DEF UrlTypeOK
<1>6. HoldsOneImage'
  BY <1>1, <1>2, <1>3 DEF HoldsOneImage, Found
<1>7. RequestWorks'
  BY <1>1 DEF RequestWorks
<1> QED
  BY <1>5, <1>6, <1>7 DEF UrlInv

\* The request is stored: the manifest's is printed, or the layer is looked up.
LEMMA StoreKeepsInv ==
    ASSUME UrlInv, pc = "try", NEW r \in Request, r.path = request.path, Store(r),
           answered' \subseteq Request,
           host.busy # "often" => r \in answered',
           UNCHANGED <<registry, ref, want, method, failed, delays, auth, manifest, layer, meant>>
    PROVE  UrlInv'
<1>1. UrlTypeOK /\ HoldsOneImage /\ ResponsesCounted
  BY DEF UrlInv
<1>2. /\ request' = r
      /\ UNCHANGED <<published, meaning, host, ref, want, method, failed, delays, auth, manifest,
                     layer, meant>>
      /\ \/ pc' = "resolve" /\ request.path.of = "manifest"
         \/ pc' = "printed" /\ ~(request.path.of = "manifest" /\ want # Nothing)
  BY DEF Store, registry
<1>3. request.path # Nothing
  BY <1>1 DEF UrlTypeOK
<1>4. UrlTypeOK'
  BY <1>1, <1>2, <1>3 DEF UrlTypeOK, PC, Ended
<1>5. HoldsOneImage'
  BY <1>1, <1>2 DEF HoldsOneImage, Found
<1>6. ResponsesCounted' /\ RequestWorks'
  BY <1>1, <1>2 DEF ResponsesCounted, RequestWorks
<1> QED
  BY <1>4, <1>5, <1>6 DEF UrlInv

-----------------------------------------------------------------------------
(* Every step keeps it *)

\* Others push: what is published stays, and what was meant is remembered.
LEMMA PushKeepsInv ==
    ASSUME UrlInv, Push
    PROVE  UrlInv'
<1>1. UrlTypeOK /\ HoldsOneImage
  BY DEF UrlInv
<1>2. PICK n \in Label, d \in Image : Publish(n, d)
  BY DEF Push, Next
<1>3. /\ published' = published \cup {d} /\ meaning' = [meaning EXCEPT ![n] = d]
      /\ meant' = IF pc \in Ended THEN meant ELSE meant \cup Meanings(ref, meaning')
      /\ UNCHANGED <<host, ref, want, pc, request, method, failed, delays, auth, manifest, layer,
                     answered>>
  BY <1>2 DEF Push, Publish, tries
<1>4. meaning' \in [Label -> Image \cup {None}] /\ published' \subseteq Image
  BY <1>1, <1>3 DEF UrlTypeOK
<1>5. meant' \subseteq Image /\ meant \subseteq meant' /\ published \subseteq published'
  <2>1. Meanings(ref, meaning') \subseteq Image
    BY <1>1, <1>4, MeaningsType DEF UrlTypeOK
  <2> QED
    BY <1>1, <1>3, <2>1 DEF UrlTypeOK
<1>6. UrlTypeOK'
  BY <1>1, <1>3, <1>4, <1>5 DEF UrlTypeOK
<1>7. Found => Found'
  BY <1>3, <1>5 DEF Found
<1>8. HoldsOneImage'
  BY <1>1, <1>3, <1>5, <1>7 DEF HoldsOneImage
<1>9. ResponsesCounted' /\ RequestWorks'
  BY <1>3 DEF UrlInv, ResponsesCounted, RequestWorks
<1> QED
  BY <1>6, <1>8, <1>9 DEF UrlInv

\* The two looks at the reference, and the choice of a layer.
LEMMA LookKeepsInv ==
    ASSUME UrlInv, ResolveDigest \/ FetchManifest \/ SelectLayer
    PROVE  UrlInv'
<1>1. UrlTypeOK /\ HoldsOneImage /\ ResponsesCounted
  BY DEF UrlInv
<1>2. CASE ResolveDigest
  <2>1. PICK d \in Meanings(ref, meaning) \cap published :
           manifest' = d /\ meant' = meant \cup {d}
    BY <1>2 DEF ResolveDigest
  <2>2. /\ pc' = "fetch"
        /\ UNCHANGED <<published, meaning, host, ref, want, request, method, failed, delays, auth,
                       layer, answered>>
    BY <1>2 DEF ResolveDigest, registry, tries
  <2>3. d \in Image
    BY <1>1 DEF UrlTypeOK
  <2>4. UrlTypeOK'
    BY <1>1, <2>1, <2>2, <2>3, ReferenceAssumption DEF UrlTypeOK, PC
  <2>5. HoldsOneImage' /\ ResponsesCounted' /\ RequestWorks'
    BY <1>1, <2>1, <2>2 DEF HoldsOneImage, ResponsesCounted, RequestWorks
  <2> QED
    BY <2>4, <2>5 DEF UrlInv
<1>3. CASE FetchManifest
  <2>1. /\ pc = "fetch" /\ pc' = "select"
        /\ UNCHANGED <<published, meaning, host, ref, want, request, method, failed, delays, auth,
                       manifest, layer, answered, meant>>
    BY <1>3 DEF FetchManifest, registry, tries
  <2>2. UrlTypeOK'
    BY <1>1, <2>1 DEF UrlTypeOK, PC
  <2>3. HoldsOneImage' /\ ResponsesCounted' /\ RequestWorks'
    BY <1>1, <2>1 DEF HoldsOneImage, ResponsesCounted, RequestWorks
  <2> QED
    BY <2>2, <2>3 DEF UrlInv
<1>4. CASE SelectLayer
  <2>1. /\ pc = "select" /\ pc' = "layer" /\ layer' \in Selected(manifest, want)
        /\ UNCHANGED <<published, meaning, host, ref, want, request, method, failed, delays, auth,
                       manifest, answered, meant>>
    BY <1>4 DEF SelectLayer, registry, tries
  <2>2. manifest \in Image
    BY <1>1, <2>1 DEF UrlTypeOK, HoldsOneImage
  <2>3. layer' \in Layer
    BY <2>1, <2>2, SelectedIsThere
  <2>4. UrlTypeOK'
    BY <1>1, <2>1, <2>2, <2>3, ReferenceAssumption DEF UrlTypeOK, PC
  <2>5. HoldsOneImage' /\ ResponsesCounted' /\ RequestWorks'
    BY <1>1, <2>1 DEF HoldsOneImage, ResponsesCounted, RequestWorks
  <2> QED
    BY <2>4, <2>5 DEF UrlInv
<1> QED
  BY <1>2, <1>3, <1>4

\* The layer selected is in the manifest, so a request for it begins.
LEMMA FindLayerKeepsInv ==
    ASSUME UrlInv, FindLayer
    PROVE  UrlInv'
<1> DEFINE path == [of |-> "blob", digest |-> layer.digest]
<1>1. /\ layer \in Selected(manifest, want) /\ manifest \in meant \cap published
      /\ manifest \in Image
  BY DEF UrlInv, UrlTypeOK, HoldsOneImage, FindLayer
<1>2. layer \in Layer /\ Has(manifest, layer.digest)
  BY <1>1, SelectedIsThere
<1>3. path \in Path
  BY <1>2 DEF Path
<1>4. Begin(path, Nothing) /\ UNCHANGED <<registry, ref, want, manifest, layer, answered, meant>>
  BY <1>2 DEF FindLayer, RequestBlob
<1>5. \E m \in meant \cap published : \E l \in Selected(m, want) :
         path = [of |-> "blob", digest |-> l.digest]
  BY <1>1
<1> HIDE DEF path
<1> QED
  BY <1>3, <1>4, <1>5, BeginKeepsInv

\* The loop around one request.
LEMMA TryKeepsInv ==
    ASSUME UrlInv, Unauthorized \/ MethodNotAllowed \/ Busy \/ Success \/ StopTrying
    PROVE  UrlInv'
<1>1. UrlTypeOK /\ ResponsesCounted /\ RequestWorks
  BY DEF UrlInv
<1>2. /\ delays \in Nat /\ failed \in 0 .. Limit /\ auth \in BOOLEAN /\ method \in {"HEAD", "GET"}
      /\ request \in Request /\ host.busy \in {"never", "sometimes", "often"}
      /\ answered \subseteq Request
      /\ Limit \in Nat /\ Delays \in Nat /\ Delays + 2 < Limit
  <2>1. host.busy \in {"never", "sometimes", "often"}
    BY <1>1 DEF UrlTypeOK, Registry
  <2> QED
    BY <1>1, <2>1, LimitAssumption DEF UrlTypeOK
<1>3. CASE Unauthorized
  <2>1. /\ Trying /\ Again /\ ~auth /\ auth' = TRUE
        /\ UNCHANGED <<method, delays, host>> /\ failed' = failed + 1
    BY <1>3 DEF Unauthorized, NeedsToken, Again, registry
  <2>2. ResponsesCounted'
    BY <1>1, <1>2, <2>1 DEF ResponsesCounted
  <2> QED
    BY <1>2, <2>1, <2>2, AgainKeepsInv
<1>4. CASE MethodNotAllowed
  <2>1. /\ Trying /\ Again /\ method = "HEAD" /\ method' = "GET"
        /\ UNCHANGED <<auth, delays, host>> /\ failed' = failed + 1
    BY <1>4 DEF MethodNotAllowed, NeedsGet, Again, registry
  <2>2. ResponsesCounted'
    BY <1>1, <1>2, <2>1 DEF ResponsesCounted
  <2> QED
    BY <1>2, <2>1, <2>2, AgainKeepsInv
<1>5. CASE Busy
  <2>1. /\ Trying /\ Again /\ MayDelay /\ delays' = delays + 1
        /\ UNCHANGED <<method, auth, host>> /\ failed' = failed + 1
    BY <1>5 DEF Busy, Again, registry
  <2>2. host.busy # "often" => delays < Delays
    BY <2>1 DEF MayDelay
  <2>3. ResponsesCounted'
    BY <1>1, <1>2, <2>1, <2>2 DEF ResponsesCounted
  <2> QED
    BY <1>2, <2>1, <2>3, AgainKeepsInv
<1>6. CASE Success
  <2>1. Sent \in Request /\ Sent.path = request.path
    BY <1>2, SentProperties
  <2>2. /\ pc = "try" /\ Store(Sent) /\ answered' = answered \cup {Sent}
        /\ UNCHANGED <<registry, ref, want, method, failed, delays, auth, manifest, layer, meant>>
    BY <1>6 DEF Success, Trying
  <2>3. answered' \subseteq Request /\ Sent \in answered'
    BY <1>2, <2>1, <2>2
  <2> QED
    BY <2>1, <2>2, <2>3, StoreKeepsInv
<1>7. CASE StopTrying
  <2>1. /\ pc = "try" /\ failed = Limit /\ Store(request)
        /\ UNCHANGED <<registry, ref, want, method, failed, delays, auth, manifest, layer,
                       answered, meant>>
    BY <1>7 DEF StopTrying
  <2>2. host.busy = "often"
    BY <1>1, <1>2, <2>1 DEF ResponsesCounted
  <2> QED
    BY <1>2, <2>1, <2>2, StoreKeepsInv
<1> QED
  BY <1>3, <1>4, <1>5, <1>6, <1>7

\* Every step of the command keeps the invariant.
LEMMA StepKeepsInv ==
    ASSUME UrlInv, Step
    PROVE  UrlInv'
<1> DEFINE ways == Ended \ {"printed", "unknown layer"}
<1>1. CASE RefuseName \/ NotFound \/ NoDigest \/ NoLayer \/ Break
  <2>1. PICK how \in ways : End(how)
    BY <1>1 DEF RefuseName, NotFound, NoDigest, NoLayer, Break, Ended
  <2> QED
    BY <2>1, EndKeepsInv
<1>2. CASE ResolveReference
  <2> DEFINE path == [of |-> "manifest", tag |-> TagOf(ref)]
  <2>1. TagOf(ref) \in Label
    BY MeaningsType DEF UrlInv, UrlTypeOK
  <2>2. path \in Path /\ path.of = "manifest"
    BY <2>1 DEF Path
  <2>3. /\ Begin(path, "image.manifest")
        /\ UNCHANGED <<registry, ref, want, manifest, layer, answered, meant>>
    BY <1>2 DEF ResolveReference
  <2> HIDE DEF path
  <2> QED
    BY <2>2, <2>3, BeginKeepsInv
<1>3. CASE Unauthorized \/ MethodNotAllowed \/ Busy \/ Success \/ StopTrying
  BY <1>3, TryKeepsInv
<1>4. CASE ResolveDigest \/ FetchManifest \/ SelectLayer
  BY <1>4, LookKeepsInv
<1>5. CASE FindLayer
  BY <1>5, FindLayerKeepsInv
<1> QED
  BY <1>1, <1>2, <1>3, <1>4, <1>5 DEF Step

\* The invariant always holds.
THEOREM UrlInvariant == UrlSpec => []UrlInv
<1>1. UrlInv /\ UNCHANGED vars => UrlInv'
  <2> SUFFICES ASSUME UrlInv, UNCHANGED vars
               PROVE  UrlInv'
    OBVIOUS
  <2>1. UNCHANGED <<published, meaning, host, ref, want, pc, request, method, failed, delays, auth,
                    manifest, layer, answered, meant>>
    BY DEF vars, registry, tries
  <2>2. UrlTypeOK'
    BY <2>1 DEF UrlInv, UrlTypeOK
  <2>3. HoldsOneImage' /\ ResponsesCounted' /\ RequestWorks'
    BY <2>1 DEF UrlInv, HoldsOneImage, Found, ResponsesCounted, RequestWorks
  <2> QED
    BY <2>2, <2>3 DEF UrlInv
<1>2. UrlInv /\ [Step \/ Push]_vars => UrlInv'
  BY <1>1, StepKeepsInv, PushKeepsInv
<1> QED
  BY <1>2, UrlInvInit, PTL DEF UrlSpec

-----------------------------------------------------------------------------
(* What follows for all images, references and registries *)

\* The type invariant of the url command holds in every state.
THEOREM UrlTypeCorrect == UrlSpec => []UrlTypeOK
<1>1. UrlInv => UrlTypeOK
  BY DEF UrlInv
<1> QED
  BY <1>1, UrlInvariant, PTL

\* What url prints was answered unless the registry is busy all the time: a token and a
\* change of method take a response each and only once, and six leave room for the rest.
THEOREM PrintedRequestsWork == UrlSpec => []RequestWorks
<1>1. UrlInv => RequestWorks
  BY DEF UrlInv
<1> QED
  BY <1>1, UrlInvariant, PTL

\* The layer printed is of the kind asked for in an image the reference meant while
\* the command ran, whoever pushed and however often.
THEOREM LayerOfOneImage == UrlSpec => []OneImage
<1>1. UrlInv => OneImage
  BY DEF UrlInv, HoldsOneImage, Found, OneImage
<1> QED
  BY <1>1, UrlInvariant, PTL
=============================================================================
