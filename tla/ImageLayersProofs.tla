-------------------------- MODULE ImageLayersProofs --------------------------
(***************************************************************************)
(* Proofs about ImageLayers, for manifests of any length.                  *)
(***************************************************************************)
EXTENDS ImageLayers, TLAPS

\* What ResolveImage has made of the layers it has seen.
ReadInv ==
    /\ \A j \in 1 .. next - 1 : layers[j] \in Known
    /\ \A k \in Kind : Chosen(k, next - 1, img[k])

\* Layers the loops of url have passed are not what they look for.
CurrentPassed(n) == \A j \in 1 .. n : layers[j] # LayerTypeToMediaType(want)

LegacyPassed(n) == \A j \in 1 .. n : layers[j] # LegacyLayerTypeToMediaType(want)

UrlInv ==
    /\ pass = "idle" => look = 1
    /\ pass = "current" => CurrentPassed(look - 1)
    /\ pass = "legacy" => CurrentPassed(Len(layers)) /\ LegacyPassed(look - 1)
    /\ pass = "none" => CurrentPassed(Len(layers)) /\ LegacyPassed(Len(layers))
    /\ pass = "found" =>
          \/ layers[look] = LayerTypeToMediaType(want)
          \/ /\ layers[look] = LegacyLayerTypeToMediaType(want)
             /\ CurrentPassed(Len(layers))
             /\ LegacyPassed(look - 1)

Inv == TypeOK /\ ReadInv /\ UrlInv

-----------------------------------------------------------------------------
\* ResolveImage keeps the type invariant.
LEMMA ReadType ==
    ASSUME TypeOK, ReadCurrent \/ ReadLegacy \/ ReadUnknown \/ ReturnImage
    PROVE  TypeOK'
<1> USE DEF TypeOK, Positions, Reading, url
<1>1. CASE ReadCurrent
  BY <1>1 DEF ReadCurrent
<1>2. CASE ReadLegacy
  BY <1>2 DEF ReadLegacy, LegacyKind
<1>3. CASE ReadUnknown
  BY <1>3 DEF ReadUnknown
<1>4. CASE ReturnImage
  BY <1>4 DEF ReturnImage
<1> QED BY <1>1, <1>2, <1>3, <1>4

\* url keeps the type invariant.
LEMMA UrlType ==
    ASSUME TypeOK, StartUrl \/ Look \/ LookForLegacy \/ NoLayer
    PROVE  TypeOK'
<1> USE DEF TypeOK, Positions, resolve
<1>1. CASE StartUrl
  BY <1>1 DEF StartUrl
<1>2. CASE Look
  BY <1>2 DEF Look
<1>3. CASE LookForLegacy
  BY <1>3 DEF LookForLegacy
<1>4. CASE NoLayer
  BY <1>4 DEF NoLayer
<1> QED BY <1>1, <1>2, <1>3, <1>4

\* A layer that is neither of the current nor of the legacy type of a kind leaves
\* the choice for that kind alone.
LEMMA OtherLayer ==
    ASSUME TypeOK, next \in Positions, NEW k \in Kind,
           Chosen(k, next - 1, img[k]),
           layers[next] # Current(k), layers[next] # Legacy(k)
    PROVE  Chosen(k, next, img[k])
BY DEF TypeOK, Positions, Chosen

\* A layer of the current type becomes the choice.
LEMMA CurrentLayer ==
    ASSUME TypeOK, next \in Positions, NEW k \in Kind, layers[next] = Current(k)
    PROVE  Chosen(k, next, next)
BY DEF TypeOK, Positions, Chosen

\* A layer of the legacy type becomes the choice if there is none.
LEMMA LegacyLayer ==
    ASSUME TypeOK, next \in Positions, NEW k \in Kind,
           Chosen(k, next - 1, img[k]), layers[next] = Legacy(k)
    PROVE  Chosen(k, next, IF img[k] = 0 THEN next ELSE img[k])
<1>1. Current(k) # Legacy(k)
  BY DEF Current, Legacy
<1> QED BY <1>1 DEF TypeOK, Positions, Chosen

\* ResolveImage keeps its invariant.
LEMMA ReadKeepsReadInv ==
    ASSUME TypeOK, ReadInv, ReadCurrent \/ ReadLegacy \/ ReadUnknown \/ ReturnImage
    PROVE  ReadInv'
<1>1. next \in Nat
  BY DEF TypeOK
<1>2. ASSUME Reading, layers' = layers, next' = next + 1,
             layers[next] \in Known,
             \A k \in Kind : Chosen(k, next, img'[k])
      PROVE  ReadInv'
  <2>1. next' - 1 = next
    BY <1>1, <1>2
  <2>2. \A j \in 1 .. next : layers[j] \in Known
    BY <1>1, <1>2 DEF ReadInv
  <2> QED BY <1>2, <2>1, <2>2 DEF ReadInv, Chosen
<1>3. CASE ReadCurrent
  <2>1. PICK k \in Kind : layers[next] = Current(k) /\ img' = [img EXCEPT ![k] = next]
    BY <1>3 DEF ReadCurrent
  <2>2. ASSUME NEW q \in Kind PROVE Chosen(q, next, img'[q])
    <3>1. CASE q = k
      BY <1>3, <2>1, <3>1, CurrentLayer DEF ReadCurrent, Reading, TypeOK
    <3>2. CASE q # k
      <4>1. layers[next] # Current(q) /\ layers[next] # Legacy(q) /\ img'[q] = img[q]
        BY <2>1, <3>2 DEF Current, Legacy, TypeOK
      <4> QED BY <1>3, <4>1, OtherLayer DEF ReadCurrent, Reading, ReadInv
    <3> QED BY <3>1, <3>2
  <2>3. layers[next] \in Known
    BY <2>1 DEF Known
  <2> QED BY <1>2, <1>3, <2>2, <2>3 DEF ReadCurrent
<1>4. CASE ReadLegacy
  <2>1. PICK k \in LegacyKind :
           /\ layers[next] = Legacy(k)
           /\ img' = IF img[k] = 0 THEN [img EXCEPT ![k] = next] ELSE img
    BY <1>4 DEF ReadLegacy
  <2>2. k \in Kind
    BY DEF LegacyKind
  <2>3. ASSUME NEW q \in Kind PROVE Chosen(q, next, img'[q])
    <3>1. CASE q = k
      <4>1. img'[q] = IF img[k] = 0 THEN next ELSE img[k]
        BY <2>1, <2>2, <3>1 DEF TypeOK
      <4> QED BY <1>4, <2>1, <2>2, <3>1, <4>1, LegacyLayer DEF ReadLegacy, Reading, ReadInv
    <3>2. CASE q # k
      <4>1. layers[next] # Current(q) /\ layers[next] # Legacy(q) /\ img'[q] = img[q]
        BY <2>1, <2>2, <3>2 DEF Current, Legacy, TypeOK
      <4> QED BY <1>4, <4>1, OtherLayer DEF ReadLegacy, Reading, ReadInv
    <3> QED BY <3>1, <3>2
  <2>4. layers[next] \in Known
    BY <2>1 DEF Known
  <2> QED BY <1>2, <1>4, <2>3, <2>4 DEF ReadLegacy
<1>5. CASE ReadUnknown \/ ReturnImage
  BY <1>5 DEF ReadUnknown, ReturnImage, ReadInv, Chosen
<1> QED BY <1>3, <1>4, <1>5

\* url keeps its invariant.
LEMMA UrlKeepsUrlInv ==
    ASSUME TypeOK, UrlInv, StartUrl \/ Look \/ LookForLegacy \/ NoLayer
    PROVE  UrlInv'
<1> USE DEF TypeOK, Positions, UrlInv, CurrentPassed, LegacyPassed,
            LayerTypeToMediaType, LegacyLayerTypeToMediaType
<1>1. CASE StartUrl
  BY <1>1 DEF StartUrl, resolve
<1>2. CASE Look
  BY <1>2 DEF Look, Sought, resolve
<1>3. CASE LookForLegacy
  BY <1>3 DEF LookForLegacy, resolve
<1>4. CASE NoLayer
  BY <1>4 DEF NoLayer, resolve
<1> QED BY <1>1, <1>2, <1>3, <1>4

\* The invariant holds at first and every step keeps it.
LEMMA Invariance == Spec => []Inv
<1>1. Init => Inv
  BY ManifestsAssumption
     DEF Init, Inv, TypeOK, Positions, ReadInv, UrlInv, CurrentPassed, Chosen, Known
<1>2. Inv /\ [Next]_vars => Inv'
  <2> SUFFICES ASSUME Inv, [Next]_vars PROVE Inv'
    OBVIOUS
  <2> USE DEF Inv
  <2>1. CASE ReadCurrent \/ ReadLegacy \/ ReadUnknown \/ ReturnImage
    <3>1. UrlInv'
      BY <2>1 DEF ReadCurrent, ReadLegacy, ReadUnknown, ReturnImage, url, UrlInv,
                  CurrentPassed, LegacyPassed
    <3> QED BY <2>1, <3>1, ReadType, ReadKeepsReadInv
  <2>2. CASE StartUrl \/ Look \/ LookForLegacy \/ NoLayer
    <3>1. ReadInv'
      BY <2>2 DEF StartUrl, Look, LookForLegacy, NoLayer, resolve, ReadInv, Chosen
    <3> QED BY <2>2, <3>1, UrlType, UrlKeepsUrlInv
  <2>3. CASE UNCHANGED vars
    BY <2>3 DEF vars, resolve, url, TypeOK, Positions, ReadInv, UrlInv, CurrentPassed,
                LegacyPassed, Chosen
  <2> QED BY <2>1, <2>2, <2>3 DEF Next
<1> QED BY <1>1, <1>2, PTL DEF Spec

\* The type invariant of ResolveImage and url holds.
THEOREM LayersTypeCorrect == Spec => []TypeOK
BY Invariance, PTL DEF Inv

\* ResolveImage gives up at a layer of unknown type only.
FailedInv == read = "failed" => \E i \in Positions : layers[i] \notin Known

LEMMA FailsAtUnknown == Spec => []FailedInv
<1>1. Init => FailedInv
  BY DEF Init, FailedInv
<1>2. FailedInv /\ [Next]_vars => FailedInv'
  BY DEF FailedInv, Next, vars, resolve, url, Positions, Reading, ReadCurrent, ReadLegacy,
         ReadUnknown, ReturnImage, StartUrl, Look, LookForLegacy, NoLayer
<1> QED BY <1>1, <1>2, PTL DEF Spec

\* ResolveImage reads every list of layers it knows all types of, and no other, and
\* returns the image Chosen describes.
THEOREM ImageIsResolved == Spec => []ResolvedImage
<1>1. Inv /\ FailedInv => ResolvedImage
  <2> SUFFICES ASSUME Inv, read = "resolved"
               PROVE  /\ \A i \in Positions : layers[i] \in Known
                      /\ \A k \in Kind : Chosen(k, Len(layers), img[k])
    BY DEF ResolvedImage, FailedInv
  <2>1. next - 1 = Len(layers) /\ Positions = 1 .. Len(layers)
    BY DEF Inv, TypeOK, Positions
  <2> QED BY <2>1 DEF Inv, ReadInv
<1> QED BY <1>1, Invariance, FailsAtUnknown, PTL

\* url and ResolveImage agree on the layer of a kind when no current type repeats.
THEOREM LayersAgree == Spec => []SameLayer
<1>1. Inv => SameLayer
  <2> SUFFICES ASSUME Inv, read = "resolved", want \in Kind, AtMostOne(Current(want))
               PROVE  /\ pass = "found" => img[want] = look
                      /\ pass = "none" => img[want] = 0
    BY DEF SameLayer
  <2> DEFINE i == img[want]
             n == Len(layers)
  <2>1. /\ layers \in Seq(MediaType) /\ n \in Nat /\ i \in 0 .. n
        /\ next - 1 = n /\ look \in 1 .. n + 1
        /\ pass = "found" => look \in 1 .. n
    BY DEF Inv, TypeOK, Positions
  <2>2. Chosen(want, n, i) /\ \A j \in 1 .. n : layers[j] \in Known
    BY <2>1 DEF Inv, ReadInv
  <2>3. Current(want) # Legacy(want) /\ LayerTypeToMediaType(want) = Current(want)
    BY DEF Current, Legacy, LayerTypeToMediaType
  <2>4. \/ LegacyLayerTypeToMediaType(want) = Legacy(want)
        \/ /\ Legacy(want) \notin Known
           /\ LegacyLayerTypeToMediaType(want) = Empty
    BY DEF LegacyLayerTypeToMediaType, Legacy, Current, Known, LegacyKind
  <2>5. Empty \notin Known
    BY DEF Empty, Known, Current, Legacy, Kind, LegacyKind
  <2>6. ASSUME NEW a \in 1 .. n, NEW b \in 1 .. n,
               layers[a] = Current(want), layers[b] = Current(want)
        PROVE  a = b
    BY <2>1, <2>6 DEF AtMostOne, Positions
  <2> HIDE DEF i, n
  <2>7. CASE pass = "found"
    <3>1. CASE layers[look] = Current(want)
      BY <2>1, <2>2, <2>3, <2>6, <2>7, <3>1 DEF Chosen, i
    <3>2. CASE /\ layers[look] = LegacyLayerTypeToMediaType(want)
               /\ CurrentPassed(n) /\ LegacyPassed(look - 1)
      <4>1. LegacyLayerTypeToMediaType(want) = Legacy(want)
        BY <2>1, <2>2, <2>4, <2>5, <2>7, <3>2
      <4>2. /\ \A j \in 1 .. n : layers[j] # Current(want)
            /\ \A j \in 1 .. look - 1 : layers[j] # Legacy(want)
        BY <2>3, <3>2, <4>1 DEF CurrentPassed, LegacyPassed
      <4> QED BY <2>1, <2>2, <2>7, <3>2, <4>1, <4>2 DEF Chosen, i
    <3> QED BY <2>3, <2>7, <3>1, <3>2 DEF Inv, UrlInv, n
  <2>8. CASE pass = "none"
    <3>1. \A j \in 1 .. n : layers[j] # Current(want) /\ layers[j] # Legacy(want)
      BY <2>2, <2>3, <2>4, <2>8 DEF Inv, UrlInv, CurrentPassed, LegacyPassed, n
    <3> QED BY <2>1, <2>2, <2>8, <3>1 DEF Chosen, i
  <2> QED BY <2>7, <2>8
<1> QED BY <1>1, Invariance, PTL

-----------------------------------------------------------------------------
(* What build wrote is read back *)

Kinds(s) == {s[i] : i \in DOMAIN s}

\* The first option gives its kind, or nothing.
LEMMA FirstOption ==
    ASSUME NEW files, NEW k \in Kind
    PROVE  Option(k, files) \in Seq(Kind) /\ Kinds(Option(k, files)) = {k} \cap files
<1> DEFINE s == Option(k, files)
<1>1. s \in Seq(Kind) /\ Len(s) = (IF k \in files THEN 1 ELSE 0) /\ (k \in files => s[1] = k)
  BY DEF Option
<1> HIDE DEF s
<1>2. DOMAIN s = IF k \in files THEN {1} ELSE {}
  BY <1>1
<1> QED BY <1>1, <1>2 DEF Kinds, s

\* One more option adds its kind, or nothing.
LEMMA OptionAdds ==
    ASSUME NEW files, NEW k \in Kind, NEW s \in Seq(Kind)
    PROVE  /\ s \o Option(k, files) \in Seq(Kind)
           /\ Kinds(s \o Option(k, files)) = Kinds(s) \cup ({k} \cap files)
<1>1. CASE k \in files
  <2> DEFINE t == s \o <<k>>
  <2>1. /\ Len(s) \in Nat /\ DOMAIN s = 1 .. Len(s)
        /\ t \in Seq(Kind) /\ Len(t) = Len(s) + 1 /\ DOMAIN t = 1 .. Len(s) + 1
        /\ t[Len(s) + 1] = k /\ \A i \in 1 .. Len(s) : t[i] = s[i]
    OBVIOUS
  <2>2. DOMAIN t = DOMAIN s \cup {Len(s) + 1}
    BY <2>1
  <2> HIDE DEF t
  <2>3. Kinds(t) = Kinds(s) \cup {k}
    BY <2>1, <2>2 DEF Kinds
  <2> QED BY <1>1, <2>1, <2>3 DEF Option, t
<1>2. CASE k \notin files
  <2>1. s \o <<>> = s
    OBVIOUS
  <2> QED BY <1>2, <2>1 DEF Option
<1> QED BY <1>1, <1>2

\* Build takes every option that was given, and no other.
LEMMA GivenKinds ==
    ASSUME NEW files \in SUBSET Kind
    PROVE  Given(files) \in Seq(Kind) /\ Kinds(Given(files)) = files
<1> DEFINE s1 == Option("rootfs", files)
           s2 == s1 \o Option("initramfs", files)
           s3 == s2 \o Option("kernel", files)
           s4 == s3 \o Option("squashfs", files)
           s5 == s4 \o Option("uki", files)
           s6 == s5 \o Option("iso", files)
<1>1. Given(files) = s6
  BY DEF Given
<1>2. /\ "rootfs" \in Kind /\ "initramfs" \in Kind /\ "kernel" \in Kind
      /\ "squashfs" \in Kind /\ "uki" \in Kind /\ "iso" \in Kind
  BY DEF Kind
<1>3. s1 \in Seq(Kind) /\ Kinds(s1) = {"rootfs"} \cap files
  BY <1>2, FirstOption
<1> HIDE DEF s1
<1>4. s2 \in Seq(Kind) /\ Kinds(s2) = {"rootfs", "initramfs"} \cap files
  BY <1>2, <1>3, OptionAdds
<1> HIDE DEF s2
<1>5. s3 \in Seq(Kind) /\ Kinds(s3) = {"rootfs", "initramfs", "kernel"} \cap files
  BY <1>2, <1>4, OptionAdds
<1> HIDE DEF s3
<1>6. s4 \in Seq(Kind) /\ Kinds(s4) = {"rootfs", "initramfs", "kernel", "squashfs"} \cap files
  BY <1>2, <1>5, OptionAdds
<1> HIDE DEF s4
<1>7. s5 \in Seq(Kind) /\ Kinds(s5) = {"rootfs", "initramfs", "kernel", "squashfs", "uki"} \cap files
  BY <1>2, <1>6, OptionAdds
<1> HIDE DEF s5
<1>8. s6 \in Seq(Kind) /\ Kinds(s6) = Kind \cap files
  <2>1. Kind = {"rootfs", "initramfs", "kernel", "squashfs", "uki"} \cup {"iso"}
    BY DEF Kind
  <2> QED BY <1>2, <1>7, <2>1, OptionAdds
<1> QED BY <1>1, <1>8

\* For each set of options, ResolveImage finds in each field of the image that build
\* made the layer of the option of that name, and nothing in the others.
THEOREM BuiltImagesAreRead == Spec => []BuiltImageIsRead
<1>1. Inv /\ FailedInv => BuiltImageIsRead
  <2> SUFFICES ASSUME Inv, FailedInv, NEW files \in SUBSET Kind, layers = BuildLayers(files)
               PROVE  /\ read # "failed"
                      /\ read = "resolved" =>
                            /\ {k \in Kind : img[k] # 0} = files
                            /\ \A k \in files : Given(files)[img[k]] = k
    BY DEF BuiltImageIsRead
  <2> DEFINE given == Given(files)
  <2>1. given \in Seq(Kind) /\ Kinds(given) = files
    BY GivenKinds
  <2>2. /\ DOMAIN layers = DOMAIN given /\ Len(layers) \in Nat
        /\ DOMAIN layers = 1 .. Len(layers)
        /\ \A i \in DOMAIN given : layers[i] = Current(given[i]) /\ given[i] \in Kind
    BY <2>1 DEF BuildLayers, Inv, TypeOK
  <2>3. /\ \A k, l : Current(k) # Legacy(l)
        /\ \A k, l : Current(k) = Current(l) => k = l
    BY DEF Current, Legacy
  <2> HIDE DEF given
  <2>4. read # "failed"
    BY <2>2 DEF FailedInv, Positions, Known
  <2>5. ASSUME read = "resolved", NEW k \in Kind
        PROVE  IF k \in files THEN img[k] \in DOMAIN given /\ given[img[k]] = k ELSE img[k] = 0
    <3>1. Chosen(k, Len(layers), img[k])
      <4>1. next - 1 = Len(layers)
        BY <2>5 DEF Inv, TypeOK
      <4> QED BY <4>1 DEF Inv, ReadInv
    <3>2. \A j \in DOMAIN given : layers[j] # Legacy(k) /\ (layers[j] = Current(k) <=> given[j] = k)
      BY <2>2, <2>3
    <3>3. k \in files <=> \E j \in DOMAIN given : given[j] = k
      BY <2>1 DEF Kinds
    <3> QED BY <2>2, <3>1, <3>2, <3>3 DEF Chosen
  <2>6. 0 \notin DOMAIN given
    BY <2>2
  <2> QED BY <2>4, <2>5, <2>6 DEF given
<1> QED BY <1>1, Invariance, FailsAtUnknown, PTL
=============================================================================
