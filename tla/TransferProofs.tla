--------------------------- MODULE TransferProofs ----------------------------
(***************************************************************************)
(* The registry under any number of clients, images and tags, with clients *)
(* interleaved and killed anywhere.                                        *)
(***************************************************************************)
EXTENDS Transfer, QueueLemmas

-----------------------------------------------------------------------------
(* Lists of what is sent *)

\* What a queue holds besides what is in the registry: every manifest after all it
\* refers to.
Ready(q, held) ==
    \A k \in DOMAIN q :
       q[k].content \in Image =>
          \A x \in References[q[k].content] :
             x \in held \/ \E j \in 1 .. k - 1 : q[j].content = x

\* The same of the manifests still to push, after the one whose queue is q.
UnitsReady(us, q, held) ==
    \A k \in DOMAIN us :
       us[k].img \in Index =>
          \A x \in References[us[k].img] :
             \/ x \in held
             \/ \E j \in 1 .. k - 1 : us[j].img = x
             \/ \E j \in DOMAIN q : q[j].content = x

\* Manifests have a reference, blobs have none.
Labelled(q) == \A k \in DOMAIN q : q[k].content \in Image <=> q[k].ref \in Label

\* The references that go with the manifests of a list, and of a queue.
UnitPairs(us) == {<<u.ref, u.img>> : u \in Elements(us)}

QueuePairs(q) == {<<x.ref, x.content>> : x \in {y \in Elements(q) : y.ref # NoRef}}

\* When the head of a queue is in the registry the rest is ready.
LEMMA TailIsReady ==
    ASSUME NEW q \in Seq(Item), q # <<>>, NEW held, NEW more, held \subseteq more,
           Head(q).content \in more
    PROVE  /\ Ready(q, held) => Ready(Tail(q), more)
           /\ Labelled(q) => Labelled(Tail(q))
           /\ \A us : UnitsReady(us, q, held) => UnitsReady(us, Tail(q), more)
<1> DEFINE rest == Tail(q)
<1>1. /\ Len(q) \in Nat \ {0} /\ DOMAIN q = 1 .. Len(q) /\ DOMAIN rest = 1 .. Len(q) - 1
      /\ \A k \in 1 .. Len(q) - 1 : rest[k] = q[k + 1]
      /\ q[1].content \in more
  BY FirstAndRest
<1> HIDE DEF rest
<1>2. ASSUME NEW j \in DOMAIN q
      PROVE  q[j].content \in more \/ (j - 1 \in DOMAIN rest /\ rest[j - 1] = q[j])
  BY <1>1
<1>3. ASSUME Ready(q, held)
      PROVE  Ready(rest, more)
  <2> SUFFICES ASSUME NEW k \in DOMAIN rest, rest[k].content \in Image,
                      NEW x \in References[rest[k].content], x \notin more
               PROVE  \E j \in 1 .. k - 1 : rest[j].content = x
    BY DEF Ready
  <2>1. /\ k + 1 \in DOMAIN q /\ q[k + 1] = rest[k] /\ x \notin held
        /\ k \in Nat
    BY <1>1
  <2>2. PICK j \in 1 .. (k + 1) - 1 : q[j].content = x
    BY <1>3, <2>1 DEF Ready
  <2>3. j \in DOMAIN q /\ j \in Nat
    BY <1>1, <2>1, <2>2
  <2>4. j - 1 \in DOMAIN rest /\ rest[j - 1].content = x
    BY <1>2, <2>2, <2>3
  <2>5. j - 1 \in 1 .. k - 1
    BY <1>1, <2>1, <2>3, <2>4
  <2> QED
    BY <2>4, <2>5
<1>4. ASSUME Labelled(q)
      PROVE  Labelled(rest)
  BY <1>1, <1>4 DEF Labelled
<1>5. ASSUME NEW us, UnitsReady(us, q, held)
      PROVE  UnitsReady(us, rest, more)
  <2> SUFFICES ASSUME NEW k \in DOMAIN us, us[k].img \in Index,
                      NEW x \in References[us[k].img], x \notin more,
                      ~\E j \in 1 .. k - 1 : us[j].img = x
               PROVE  \E j \in DOMAIN rest : rest[j].content = x
    BY DEF UnitsReady
  <2>1. PICK j \in DOMAIN q : q[j].content = x
    BY <1>5 DEF UnitsReady
  <2> QED
    BY <1>2, <2>1
<1> QED
  BY <1>3, <1>4, <1>5 DEF rest

\* More in the registry does no harm.
LEMMA ReadyGrows ==
    ASSUME NEW held, NEW more, held \subseteq more, NEW q, NEW us
    PROVE  /\ Ready(q, held) => Ready(q, more)
           /\ UnitsReady(us, q, held) => UnitsReady(us, q, more)
<1>1. Ready(q, held) => Ready(q, more)
  BY DEF Ready
<1>2. UnitsReady(us, q, held) => UnitsReady(us, q, more)
  BY DEF UnitsReady
<1> QED
  BY <1>1, <1>2

-----------------------------------------------------------------------------
(* What commands, images and lists are *)

\* The fields of a command line.
LEMMA CommandTypes ==
    ASSUME NEW command \in Commands
    PROVE  /\ command.do \in {"push", "pull"}
           /\ command.ref \in Label
           /\ command.do = "push" => command.subs \in BOOLEAN
           /\ command.do = "pull" => command.platform \in Arch \cup {NoPlatform}
<1>1. command \in {Push(r, s) : r \in Label, s \in BOOLEAN}
               \cup {Pull(r, a) : r \in Label, a \in Arch \cup {NoPlatform}}
  BY CommandAssumption
<1>2. CASE command \in {Push(r, s) : r \in Label, s \in BOOLEAN}
  BY <1>2 DEF Push
<1>3. CASE command \in {Pull(r, a) : r \in Label, a \in Arch \cup {NoPlatform}}
  BY <1>3 DEF Pull
<1> QED
  BY <1>1, <1>2, <1>3

\* The manifests of an index are images, and it refers to nothing else.
LEMMA IndexTypes ==
    ASSUME NEW d \in Index
    PROVE  /\ d \in Image /\ References[d] \subseteq Image \ Index
           /\ Requires[d] = References[d]
           /\ Manifests[d] \in Seq([img : Image \ Index, arch : Arch])
           /\ Len(Manifests[d]) \in Nat /\ DOMAIN Manifests[d] = 1 .. Len(Manifests[d])
           /\ \A i \in DOMAIN Manifests[d] :
                 /\ Manifests[d][i].img \in Image \ Index
                 /\ Manifests[d][i].img \in References[d]
                 /\ Manifests[d][i].arch \in Arch
           /\ \A x \in References[d] : \E i \in DOMAIN Manifests[d] : Manifests[d][i].img = x
<1>1. d \in Image /\ Requires[d] = References[d]
  BY ImageAssumption
<1>2. /\ Manifests[d] \in Seq([img : Image \ Index, arch : Arch])
      /\ Len(Manifests[d]) \in Nat /\ DOMAIN Manifests[d] = 1 .. Len(Manifests[d])
  BY ImageAssumption, LenProperties
<1>3. \A i \in DOMAIN Manifests[d] :
          Manifests[d][i].img \in Image \ Index /\ Manifests[d][i].arch \in Arch
  <2>1. \A i \in DOMAIN Manifests[d] : Manifests[d][i] \in [img : Image \ Index, arch : Arch]
    BY <1>2, ElementOfSeq
  <2> QED
    BY <2>1
<1>4. References[d] = {Manifests[d][i].img : i \in DOMAIN Manifests[d]}
  BY <1>1 DEF References, Elements
<1> QED
  BY <1>1, <1>2, <1>3, <1>4

\* An image refers to its config and layers.
LEMMA ImageTypes ==
    ASSUME NEW d \in Image \ Index
    PROVE  /\ Parts[d] \in Seq(Blob) /\ Requires[d] = {}
           /\ Len(Parts[d]) \in Nat /\ DOMAIN Parts[d] = 1 .. Len(Parts[d])
           /\ \A i \in DOMAIN Parts[d] : Parts[d][i] \in Blob /\ Parts[d][i] \in References[d]
           /\ \A x \in References[d] : \E i \in DOMAIN Parts[d] : Parts[d][i] = x
<1>1. Parts[d] \in Seq(Blob) /\ Requires[d] = {}
  BY ImageAssumption
<1>2. Len(Parts[d]) \in Nat /\ DOMAIN Parts[d] = 1 .. Len(Parts[d])
  BY <1>1, LenProperties
<1>3. \A i \in DOMAIN Parts[d] : Parts[d][i] \in Blob
  BY <1>1, ElementOfSeq
<1>4. References[d] = {Parts[d][i] : i \in DOMAIN Parts[d]}
  BY DEF References, Elements
<1> QED
  BY <1>1, <1>2, <1>3, <1>4

\* A push of an index names its images before it; the references of what it sends are
\* those it promises.
LEMMA UnitsProperties ==
    ASSUME NEW ref \in Label, NEW d \in Image, NEW subs \in BOOLEAN
    PROVE  /\ Units(ref, d, subs) \in Seq(Unit)
           /\ \A held : subs => UnitsReady(Units(ref, d, subs), <<>>, held)
           /\ UnitPairs(Units(ref, d, subs)) = Promised(ref, d, subs)
<1> DEFINE single == <<[img |-> d, ref |-> ref]>>
           first == [i \in DOMAIN Manifests[d] |->
                        [img |-> Manifests[d][i].img, ref |-> SubRef[<<ref, Manifests[d][i].arch>>]]]
           n == Len(Manifests[d])
           us == Units(ref, d, subs)
<1>1. single \in Seq(Unit) /\ Len(single) = 1 /\ single[1] = [img |-> d, ref |-> ref]
  BY DEF Unit
<1>2. CASE d \in Index /\ subs
  <2>1. /\ n \in Nat /\ DOMAIN Manifests[d] = 1 .. n
        /\ \A i \in 1 .. n : Manifests[d][i].img \in Image \ Index /\ Manifests[d][i].arch \in Arch
    BY <1>2, IndexTypes
  <2>2. \A i \in 1 .. n : SubRef[<<ref, Manifests[d][i].arch>>] \in Label
    BY <2>1, CommandAssumption
  <2>3. \A i \in 1 .. n : /\ first[i] \in Unit
                          /\ first[i].img = Manifests[d][i].img
                          /\ first[i].ref = SubRef[<<ref, Manifests[d][i].arch>>]
    BY <2>1, <2>2 DEF Unit
  <2>4. first \in Seq(Unit) /\ Len(first) = n
    <3>1. first \in [1 .. n -> Unit]
      BY <2>1, <2>3
    <3> HIDE DEF first
    <3> QED
      BY <2>1, <3>1
  <2>5. us = first \o single
    BY <1>2 DEF Units
  <2> HIDE DEF first, single, us, n
  <2>6. /\ us \in Seq(Unit) /\ Len(us) = n + 1
        /\ \A i \in 1 .. n + 1 : us[i] = IF i <= n THEN first[i] ELSE single[i - n]
    <3>1. /\ first \o single \in Seq(Unit) /\ Len(first \o single) = Len(first) + Len(single)
          /\ \A i \in 1 .. Len(first) + Len(single) :
                (first \o single)[i] = IF i <= Len(first) THEN first[i] ELSE single[i - Len(first)]
      BY <1>1, <2>4, ConcatProperties, Zenon
    <3> QED
      BY <1>1, <2>4, <2>5, <3>1, Zenon
  <2>7. DOMAIN us = 1 .. n + 1
    BY <2>6, LenProperties
  <2>8. \A i \in 1 .. n : us[i].img = Manifests[d][i].img /\ us[i].img \notin Index
    <3>1. \A i \in 1 .. n : us[i] = first[i]
      BY <2>1, <2>6
    <3>2. \A i \in 1 .. n : first[i].img = Manifests[d][i].img
      BY <2>3
    <3> QED
      BY <2>1, <3>1, <3>2
  <2>9. us[n + 1].img = d
    BY <1>1, <2>1, <2>6
  <2>10. ASSUME NEW held
         PROVE  UnitsReady(us, <<>>, held)
    <3> SUFFICES ASSUME NEW k \in DOMAIN us, us[k].img \in Index, NEW x \in References[us[k].img]
                 PROVE  \E j \in 1 .. k - 1 : us[j].img = x
      BY DEF UnitsReady
    <3>1. k = n + 1
      BY <2>1, <2>7, <2>8
    <3>2. PICK i \in DOMAIN Manifests[d] : Manifests[d][i].img = x
      BY <1>2, <2>9, <3>1, IndexTypes
    <3>3. i \in 1 .. k - 1
      BY <2>1, <3>1, <3>2
    <3> QED
      BY <2>1, <2>8, <3>2, <3>3
  <2> DEFINE pair(i) == <<us[i].ref, us[i].img>>
             owed(i) == <<SubRef[<<ref, Manifests[d][i].arch>>], Manifests[d][i].img>>
  <2>11. UnitPairs(us) = {pair(i) : i \in 1 .. n + 1}
    BY <2>7 DEF UnitPairs, Elements
  <2>12. Promised(ref, d, subs) = {<<ref, d>>} \cup {owed(i) : i \in 1 .. n}
    BY <1>2, <2>1 DEF Promised, Elements
  <2>13. \A i \in 1 .. n : pair(i) = owed(i)
    BY <2>1, <2>3, <2>6
  <2>14. pair(n + 1) = <<ref, d>>
    BY <1>1, <2>1, <2>6
  <2> HIDE DEF pair, owed
  <2>15. 1 .. n + 1 = (1 .. n) \cup {n + 1}
    BY <2>1
  <2>16. {pair(i) : i \in 1 .. n + 1} = {pair(n + 1)} \cup {pair(i) : i \in 1 .. n}
    BY <2>15, Zenon
  <2>17. {pair(i) : i \in 1 .. n} = {owed(i) : i \in 1 .. n}
    BY <2>13, Zenon
  <2>18. UnitPairs(us) = Promised(ref, d, subs)
    BY <2>11, <2>12, <2>14, <2>16, <2>17, Zenon
  <2> QED
    BY <2>6, <2>10, <2>18 DEF us
<1>3. CASE ~(d \in Index /\ subs)
  <2>1. us = single /\ Promised(ref, d, subs) = {<<ref, d>>}
    BY <1>3 DEF Units, Promised
  <2>2. ASSUME NEW held, subs
        PROVE  UnitsReady(us, <<>>, held)
    BY <1>1, <1>3, <2>1, <2>2 DEF UnitsReady
  <2> HIDE DEF us, single
  <2>3. DOMAIN single = {1}
    BY <1>1, LenProperties
  <2>4. Elements(single) = {[img |-> d, ref |-> ref]}
    BY <1>1, <2>3 DEF Elements
  <2>5. UnitPairs(single) = {<<ref, d>>}
    BY <2>4 DEF UnitPairs
  <2> QED
    BY <1>1, <2>1, <2>2, <2>5 DEF us
<1> QED
  BY <1>2, <1>3

\* The references a push promises are labels.
LEMMA PromisedType ==
    ASSUME NEW ref \in Label, NEW d \in Image, NEW subs
    PROVE  Promised(ref, d, subs) \subseteq Label \X Image
<1>1. CASE d \in Index /\ subs
  <2>1. \A m \in Elements(Manifests[d]) : m.img \in Image /\ m.arch \in Arch
    BY <1>1, IndexTypes DEF Elements
  <2>2. \A m \in Elements(Manifests[d]) : SubRef[<<ref, m.arch>>] \in Label
    BY <2>1, CommandAssumption
  <2>3. \A m \in Elements(Manifests[d]) :
           <<SubRef[<<ref, m.arch>>], m.img>> \in Label \X Image
    BY <2>1, <2>2
  <2>4. Promised(ref, d, subs) =
           {<<ref, d>>} \cup {<<SubRef[<<ref, m.arch>>], m.img>> : m \in Elements(Manifests[d])}
    BY <1>1 DEF Promised
  <2>5. {<<SubRef[<<ref, m.arch>>], m.img>> : m \in Elements(Manifests[d])} \subseteq Label \X Image
    BY <2>3, Zenon
  <2>6. {<<ref, d>>} \subseteq Label \X Image
    OBVIOUS
  <2> QED
    BY <2>4, <2>5, <2>6, Zenon
<1>2. CASE ~(d \in Index /\ subs)
  BY <1>2 DEF Promised
<1> QED
  BY <1>1, <1>2

-----------------------------------------------------------------------------
(* What is sent for a manifest, and read of one *)

\* What is sent for a manifest ends with it, after all an image refers to.
LEMMA WriteLayersProperties ==
    ASSUME NEW u, u.img \in Image, u.ref \in Label
    PROVE  /\ WriteLayers(u) \in Seq(Item) /\ WriteLayers(u) # <<>>
           /\ Labelled(WriteLayers(u))
           /\ \E j \in DOMAIN WriteLayers(u) : WriteLayers(u)[j].content = u.img
           /\ \E j \in DOMAIN WriteLayers(u) :
                 WriteLayers(u)[j] = [content |-> u.img, ref |-> u.ref]
           /\ \A k \in DOMAIN WriteLayers(u) :
                 WriteLayers(u)[k].ref # NoRef
                    => WriteLayers(u)[k] = [content |-> u.img, ref |-> u.ref]
           /\ \A held : (u.img \in Index => References[u.img] \subseteq held)
                           => Ready(WriteLayers(u), held)
<1> DEFINE w == WriteLayers(u)
           last == [content |-> u.img, ref |-> u.ref]
           parts == IF u.img \in Index THEN <<>>
                    ELSE [i \in DOMAIN Parts[u.img] |-> [content |-> Parts[u.img][i], ref |-> NoRef]]
           n == Len(parts)
<1>1. last \in Item /\ last.content = u.img /\ last.ref = u.ref
  BY DEF Item
<1>2. /\ parts \in Seq(Item) /\ n \in Nat
      /\ \A k \in 1 .. n : parts[k].content \in Blob /\ parts[k].ref = NoRef
      /\ u.img \notin Index =>
            \A x \in References[u.img] : \E j \in 1 .. n : parts[j].content = x
  <2>1. CASE u.img \in Index
    <3>1. parts = <<>> /\ n = 0
      BY <2>1, EmptySeq
    <3> QED
      BY <2>1, <3>1, EmptySeq
  <2>2. CASE u.img \notin Index
    <3>1. /\ Len(Parts[u.img]) \in Nat /\ DOMAIN Parts[u.img] = 1 .. Len(Parts[u.img])
          /\ \A i \in DOMAIN Parts[u.img] : Parts[u.img][i] \in Blob
          /\ \A x \in References[u.img] : \E i \in DOMAIN Parts[u.img] : Parts[u.img][i] = x
      BY <2>2, ImageTypes
    <3>2. parts = [i \in 1 .. Len(Parts[u.img]) |-> [content |-> Parts[u.img][i], ref |-> NoRef]]
      BY <2>2, <3>1
    <3>3. \A k \in 1 .. Len(Parts[u.img]) :
             /\ parts[k] \in Item
             /\ parts[k].content = Parts[u.img][k] /\ parts[k].ref = NoRef
      BY <3>1, <3>2 DEF Item
    <3>4. parts \in [1 .. Len(Parts[u.img]) -> Item]
      BY <3>2, <3>3
    <3> HIDE DEF parts
    <3>5. parts \in Seq(Item) /\ n = Len(Parts[u.img])
      BY <3>1, <3>4
    <3> QED
      BY <3>1, <3>3, <3>5
  <2> QED
    BY <2>1, <2>2
<1>3. w = Append(parts, last)
  BY DEF WriteLayers
<1> HIDE DEF w, last, parts
<1>4. /\ w \in Seq(Item) /\ w # <<>> /\ Len(w) = n + 1
      /\ \A k \in 1 .. n : w[k] = parts[k]
      /\ w[n + 1] = last
  <2>1. /\ w \in Seq(Item) /\ w # <<>> /\ Len(w) = Len(parts) + 1
        /\ \A i \in 1 .. Len(parts) : w[i] = parts[i]
        /\ w[Len(parts) + 1] = last
    BY <1>1, <1>2, <1>3, AppendProperties
  <2> QED
    BY <2>1
<1> HIDE DEF n
<1>5. DOMAIN w = 1 .. n + 1
  BY <1>4, LenProperties
<1>6. \A k \in DOMAIN w : k = n + 1 \/ k \in 1 .. n
  BY <1>2, <1>5
<1>7. n + 1 \in DOMAIN w
  BY <1>2, <1>5
<1>8. Labelled(w)
  <2>1. \A k \in 1 .. n : w[k].content \notin Image /\ w[k].ref \notin Label
    <3>1. Blob \cap Image = {} /\ NoRef \notin Label
      BY ImageAssumption, CommandAssumption
    <3> QED
      BY <1>2, <1>4, <3>1
  <2>2. w[n + 1].content \in Image /\ w[n + 1].ref \in Label
    BY <1>1, <1>4
  <2> QED
    BY <1>6, <2>1, <2>2 DEF Labelled
<1>9. \A k \in DOMAIN w : w[k].ref # NoRef => w[k] = last
  BY <1>2, <1>4, <1>6
<1>10. ASSUME NEW held, u.img \in Index => References[u.img] \subseteq held
      PROVE  Ready(w, held)
  <2> SUFFICES ASSUME NEW k \in DOMAIN w, w[k].content \in Image,
                      NEW x \in References[w[k].content], x \notin held
               PROVE  \E j \in 1 .. k - 1 : w[j].content = x
    BY DEF Ready
  <2>1. k = n + 1 /\ w[k].content = u.img
    BY <1>1, <1>2, <1>4, <1>6, ImageAssumption
  <2>2. PICK j \in 1 .. n : parts[j].content = x
    BY <1>2, <1>10, <2>1
  <2>3. w[j].content = x
    BY <1>4, <2>2
  <2>4. j \in 1 .. k - 1
    BY <1>2, <2>1, <2>2
  <2> QED
    BY <2>3, <2>4
<1>11. \E j \in DOMAIN w : w[j] = last
  BY <1>4, <1>7
<1> QED
  BY <1>1, <1>4, <1>7, <1>8, <1>9, <1>10, <1>11 DEF w, last

\* With the queue sent, the next manifest can be, and then those after it.
LEMMA NextIsReady ==
    ASSUME NEW us \in Seq(Unit), us # <<>>, NEW held, UnitsReady(us, <<>>, held)
    PROVE  /\ Ready(WriteLayers(Head(us)), held)
           /\ UnitsReady(Tail(us), WriteLayers(Head(us)), held)
<1> DEFINE u == Head(us)
           rest == Tail(us)
           w == WriteLayers(Head(us))
<1>1. /\ u \in Unit /\ u = us[1] /\ rest \in Seq(Unit)
      /\ Len(us) \in Nat \ {0} /\ DOMAIN us = 1 .. Len(us) /\ DOMAIN rest = 1 .. Len(us) - 1
      /\ \A k \in 1 .. Len(us) - 1 : rest[k] = us[k + 1]
  BY FirstAndRest
<1>2. u.img \in Image /\ u.ref \in Label
  BY <1>1 DEF Unit
<1> HIDE DEF u, rest
<1>3. ~\E j \in DOMAIN <<>> : <<>>[j].content = us
  OBVIOUS
<1>4. \A k \in DOMAIN us : us[k].img \in Index =>
         \A x \in References[us[k].img] : x \in held \/ \E j \in 1 .. k - 1 : us[j].img = x
  <2>1. DOMAIN <<>> = {}
    OBVIOUS
  <2> QED
    BY <2>1 DEF UnitsReady
<1>5. u.img \in Index => References[u.img] \subseteq held
  BY <1>1, <1>4
<1>6. /\ \E j \in DOMAIN w : w[j].content = u.img
      /\ Ready(w, held)
  BY <1>2, <1>5, WriteLayersProperties DEF u
<1> HIDE DEF w
<1>7. UnitsReady(rest, w, held)
  <2> SUFFICES ASSUME NEW k \in DOMAIN rest, rest[k].img \in Index,
                      NEW x \in References[rest[k].img], x \notin held,
                      ~\E j \in DOMAIN w : w[j].content = x
               PROVE  \E j \in 1 .. k - 1 : rest[j].img = x
    BY DEF UnitsReady
  <2>1. k + 1 \in DOMAIN us /\ us[k + 1] = rest[k] /\ k \in Nat
    BY <1>1
  <2>2. PICK j \in 1 .. (k + 1) - 1 : us[j].img = x
    BY <1>4, <2>1
  <2>3. j # 1
    BY <1>1, <1>6, <2>2
  <2>4. /\ j - 1 \in 1 .. k - 1
        /\ j - 1 \in 1 .. Len(us) - 1 /\ (j - 1) + 1 = j
    BY <1>1, <2>1, <2>2, <2>3
  <2>5. rest[j - 1].img = x
    BY <1>1, <2>2, <2>4
  <2> QED
    BY <2>4, <2>5
<1> QED
  BY <1>6, <1>7 DEF u, rest, w

\* What is read of an image is the image and what it refers to.
LEMMA FetchListProperties ==
    ASSUME NEW m \in Image \ Index
    PROVE  /\ FetchList(m) \in Seq(Item) /\ FetchList(m) # <<>>
           /\ \A k \in DOMAIN FetchList(m) :
                 FetchList(m)[k].content \in References[m] \cup {m}
<1> DEFINE n == Len(Parts[m])
           f == FetchList(m)
<1>1. /\ n \in Nat /\ DOMAIN Parts[m] = 1 .. n
      /\ \A i \in 1 .. n : Parts[m][i] \in Blob /\ Parts[m][i] \in References[m]
  BY ImageTypes
<1> HIDE DEF n
<1>2. f = [i \in 1 .. n + 2 |->
             [content |-> IF i \in 2 .. n + 1 THEN Parts[m][i - 1] ELSE m, ref |-> NoRef]]
  BY DEF FetchList, n
<1> HIDE DEF f
<1>3. \A k \in 1 .. n + 2 :
         /\ f[k].content = IF k \in 2 .. n + 1 THEN Parts[m][k - 1] ELSE m
         /\ f[k] = [content |-> IF k \in 2 .. n + 1 THEN Parts[m][k - 1] ELSE m, ref |-> NoRef]
  BY <1>2
<1>4. \A k \in 2 .. n + 1 : k - 1 \in 1 .. n
  BY <1>1
<1>5. \A k \in 1 .. n + 2 : /\ f[k].content \in References[m] \cup {m}
                            /\ f[k].content \in Blob \cup Image
  BY <1>1, <1>3, <1>4
<1>6. \A k \in 1 .. n + 2 : f[k] \in Item
  <2> SUFFICES ASSUME NEW k \in 1 .. n + 2
               PROVE  f[k] \in Item
    OBVIOUS
  <2> DEFINE x == IF k \in 2 .. n + 1 THEN Parts[m][k - 1] ELSE m
  <2>1. f[k] = [content |-> x, ref |-> NoRef]
    BY <1>3
  <2>2. x \in Blob \cup Image
    BY <1>1, <1>4
  <2> HIDE DEF x
  <2> QED
    BY <2>1, <2>2 DEF Item
<1>7. f \in [1 .. n + 2 -> Item] /\ n + 2 \in Nat
  <2> DEFINE dom == 1 .. n + 2
             entry(i) == [content |-> IF i \in 2 .. n + 1 THEN Parts[m][i - 1] ELSE m, ref |-> NoRef]
  <2>1. f = [i \in dom |-> entry(i)] /\ \A k \in dom : f[k] \in Item
    BY <1>2, <1>6
  <2> HIDE DEF dom, entry
  <2>2. f \in [dom -> Item]
    BY <2>1
  <2> QED
    BY <1>1, <2>2 DEF dom
<1>8. f \in Seq(Item) /\ Len(f) = n + 2
  BY <1>7
<1>9. f # <<>> /\ DOMAIN f = 1 .. n + 2
  <2>1. Len(f) # 0
    BY <1>1, <1>8
  <2> QED
    BY <1>7, <1>8, <2>1, EmptySeq
<1> QED
  BY <1>5, <1>8, <1>9 DEF f

-----------------------------------------------------------------------------
(* The invariant *)

\* What a client knows and intends: what it pushed is in the registry; what is in its
\* hands goes in an order the registry is safe with, or the registry checks; what it
\* is about to read is there.
ClientInv(c) ==
    /\ pc[c] = "idle" => target[c] = None
    /\ tracker[c] \subseteq remote
    /\ pc[c] # "idle" /\ cmd[c].do = "push" => cmd[c].subs \/ strict
    /\ pc[c] \in {"unit", "head", "upload"} =>
          /\ cmd[c].do = "push" /\ target[c] \in Image
          /\ Labelled(queue[c])
          /\ strict \/ (Ready(queue[c], remote) /\ UnitsReady(units[c], queue[c], remote))
    /\ pc[c] = "index" => target[c] \in Index /\ target[c] \in remote
    /\ pc[c] = "fetch" =>
          /\ target[c] \in Image \ Index
          /\ \A k \in DOMAIN queue[c] : queue[c][k].content \in remote
    /\ pc[c] \in {"put", "tag"} => target[c] \in Image \ Index

\* Tags name what is there.
TagsResolve == \A n \in Label : rtags[n] # None => rtags[n] \in remote

TransferInv ==
    /\ TransferTypeOK
    /\ RemoteComplete
    /\ TagsResolve
    /\ \A c \in Client : ClientInv(c)

\* A step of one client leaves the others where they are.
OnlyClient(c) ==
    \A q \in Client \ {c} :
       /\ pc'[q] = pc[q] /\ cmd'[q] = cmd[q] /\ target'[q] = target[q]
       /\ units'[q] = units[q] /\ queue'[q] = queue[q] /\ tracker'[q] = tracker[q]

\* What others do to the registry takes nothing from a client.
LEMMA OthersKeepInv ==
    ASSUME TransferInv, NEW c \in Client, OnlyClient(c), remote \subseteq remote', strict' = strict,
           ClientInv(c)'
    PROVE  \A q \in Client : ClientInv(q)'
<1> SUFFICES ASSUME NEW q \in Client \ {c}
             PROVE  ClientInv(q)'
  OBVIOUS
<1>1. /\ pc'[q] = pc[q] /\ cmd'[q] = cmd[q] /\ target'[q] = target[q]
      /\ units'[q] = units[q] /\ queue'[q] = queue[q] /\ tracker'[q] = tracker[q]
  BY DEF OnlyClient
<1>2. ClientInv(q)
  BY DEF TransferInv
<1>3. /\ Ready(queue[q], remote) => Ready(queue[q], remote')
      /\ UnitsReady(units[q], queue[q], remote) => UnitsReady(units[q], queue[q], remote')
  BY ReadyGrows
<1> QED
  BY <1>1, <1>2, <1>3 DEF ClientInv

\* The registry as it was is as good as it was.
LEMMA SameRegistry ==
    ASSUME TransferInv, UNCHANGED registry
    PROVE  RemoteComplete' /\ TagsResolve' /\ remote \subseteq remote' /\ strict' = strict
  BY DEF TransferInv, registry, RemoteComplete, TagsResolve

\* The end of a process, done or not.
LEMMA ExitKeepsInv ==
    ASSUME TransferInv, NEW c \in Client, Exit(c), UNCHANGED registry,
           images' \subseteq Image, tags' \in [Label -> Image \cup {None}]
    PROVE  TransferInv'
<1>1. TransferTypeOK
  BY DEF TransferInv
<1>2. TransferTypeOK'
  <2>1. /\ pc' \in [Client -> PC]
        /\ cmd' \in [Client -> Commands \cup {None}]
        /\ target' \in [Client -> Image \cup {None}]
    BY <1>1 DEF TransferTypeOK, Exit, PC
  <2>2. /\ units' \in [Client -> Seq(Unit)]
        /\ queue' \in [Client -> Seq(Item)]
    <3>1. <<>> \in Seq(Unit) /\ <<>> \in Seq(Item)
      BY EmptySeq
    <3> QED
      BY <1>1, <3>1 DEF TransferTypeOK, Exit
  <2>3. /\ tracker' \in [Client -> SUBSET (Blob \cup Image)]
        /\ seen' \in [Client -> SUBSET (Label \X (Image \cup {None}))]
    BY <1>1 DEF TransferTypeOK, Exit
  <2>4. \A q \in Client :
           /\ pc'[q] # "idle" => cmd'[q] \in Commands
           /\ (queue'[q] # <<>>) <=> pc'[q] \in {"head", "upload", "fetch"}
    BY <1>1 DEF TransferTypeOK, Exit
  <2> QED
    BY <1>1, <2>1, <2>2, <2>3, <2>4 DEF TransferTypeOK, registry
<1>3. ClientInv(c)'
  BY <1>1 DEF Exit, ClientInv, TransferTypeOK
<1>4. OnlyClient(c)
  BY <1>1 DEF Exit, OnlyClient, TransferTypeOK
<1>5. RemoteComplete' /\ TagsResolve' /\ remote \subseteq remote' /\ strict' = strict
  BY SameRegistry
<1>6. \A q \in Client : ClientInv(q)'
  BY <1>3, <1>4, <1>5, OthersKeepInv
<1> QED
  BY <1>2, <1>5, <1>6 DEF TransferInv

-----------------------------------------------------------------------------
(* Every step of a push keeps it *)

\* A command starts.
LEMMA StartKeepsInv ==
    ASSUME TransferInv, NEW c \in Client, NEW command \in Commands, Start(c, command)
    PROVE  TransferInv'
<1>1. TransferTypeOK /\ ClientInv(c)
  BY DEF TransferInv
<1>2. TransferTypeOK'
  <2>1. pc' \in [Client -> PC] /\ cmd' \in [Client -> Commands \cup {None}]
    BY <1>1 DEF TransferTypeOK, Start, PC
  <2>2. \A q \in Client :
           /\ pc'[q] # "idle" => cmd'[q] \in Commands
           /\ (queue'[q] # <<>>) <=> pc'[q] \in {"head", "upload", "fetch"}
    BY <1>1 DEF TransferTypeOK, Start
  <2> QED
    BY <1>1, <2>1, <2>2 DEF TransferTypeOK, Start, registry, local
<1>3. ClientInv(c)'
  BY <1>1 DEF TransferTypeOK, Start, Sensible, ClientInv, registry
<1>4. OnlyClient(c)
  BY <1>1 DEF TransferTypeOK, Start, OnlyClient
<1>5. RemoteComplete' /\ TagsResolve' /\ remote \subseteq remote' /\ strict' = strict
  BY SameRegistry DEF Start
<1>6. \A q \in Client : ClientInv(q)'
  BY <1>3, <1>4, <1>5, OthersKeepInv
<1> QED
  BY <1>2, <1>5, <1>6 DEF TransferInv

\* The reference is looked up in the local store.
LEMMA ResolveLocalKeepsInv ==
    ASSUME TransferInv, NEW c \in Client, ResolveLocal(c)
    PROVE  TransferInv'
<1> DEFINE d == tags[cmd[c].ref]
           us == Units(cmd[c].ref, d, cmd[c].subs)
<1>1. TransferTypeOK /\ ClientInv(c) /\ pc[c] = "resolve" /\ cmd[c].do = "push"
  BY DEF TransferInv, ResolveLocal
<1>2. cmd[c] \in Commands /\ cmd[c].ref \in Label /\ cmd[c].subs \in BOOLEAN
  BY <1>1, CommandTypes DEF TransferTypeOK
<1>3. d \in Image
  BY <1>1, <1>2 DEF TransferTypeOK, ResolveLocal
<1>4. /\ us \in Seq(Unit)
      /\ cmd[c].subs => UnitsReady(us, <<>>, remote)
      /\ Promised(cmd[c].ref, d, cmd[c].subs) \subseteq Label \X Image
  BY <1>2, <1>3, UnitsProperties, PromisedType
<1>5. /\ pc' = [pc EXCEPT ![c] = "unit"]
      /\ target' = [target EXCEPT ![c] = d]
      /\ units' = [units EXCEPT ![c] = us]
      /\ \E s \in SUBSET Promised(cmd[c].ref, d, cmd[c].subs) : seen' = [seen EXCEPT ![c] = s]
      /\ UNCHANGED <<registry, local, cmd, queue, tracker>>
  BY DEF ResolveLocal
<1> HIDE DEF d, us
<1>6. TransferTypeOK'
  <2>1. pc' \in [Client -> PC] /\ target' \in [Client -> Image \cup {None}]
    BY <1>1, <1>3, <1>5 DEF TransferTypeOK, PC
  <2>2. units' \in [Client -> Seq(Unit)]
    BY <1>1, <1>4, <1>5 DEF TransferTypeOK
  <2>3. seen' \in [Client -> SUBSET (Label \X (Image \cup {None}))]
    <3>1. PICK s \in SUBSET Promised(cmd[c].ref, d, cmd[c].subs) : seen' = [seen EXCEPT ![c] = s]
      BY <1>5
    <3>2. Label \X Image \subseteq Label \X (Image \cup {None})
      OBVIOUS
    <3>3. s \in SUBSET (Label \X (Image \cup {None}))
      BY <1>4, <3>1, <3>2, Zenon
    <3>4. seen \in [Client -> SUBSET (Label \X (Image \cup {None}))]
      BY <1>1 DEF TransferTypeOK
    <3> QED
      BY <3>1, <3>3, <3>4
  <2>4. \A q \in Client :
           /\ pc'[q] # "idle" => cmd'[q] \in Commands
           /\ (queue'[q] # <<>>) <=> pc'[q] \in {"head", "upload", "fetch"}
    BY <1>1, <1>5 DEF TransferTypeOK
  <2> QED
    BY <1>1, <1>5, <2>1, <2>2, <2>3, <2>4 DEF TransferTypeOK, registry, local
<1>7. ClientInv(c)'
  <2>1. queue[c] = <<>>
    BY <1>1 DEF TransferTypeOK
  <2>2. Labelled(<<>>) /\ Ready(<<>>, remote)
    BY DEF Labelled, Ready
  <2>3. /\ pc'[c] = "unit" /\ target'[c] = d /\ units'[c] = us /\ queue'[c] = <<>>
        /\ UNCHANGED <<strict, remote, cmd[c], tracker[c]>>
    BY <1>1, <1>5, <2>1 DEF TransferTypeOK, registry
  <2> QED
    BY <1>1, <1>3, <1>4, <2>2, <2>3 DEF ClientInv
<1>8. OnlyClient(c)
  BY <1>1, <1>5 DEF TransferTypeOK, OnlyClient
<1>9. RemoteComplete' /\ TagsResolve' /\ remote \subseteq remote' /\ strict' = strict
  BY <1>5, SameRegistry
<1>10. \A q \in Client : ClientInv(q)'
  BY <1>7, <1>8, <1>9, OthersKeepInv
<1> QED
  BY <1>6, <1>9, <1>10 DEF TransferInv

\* The next manifest is taken up.
LEMMA NextUnitKeepsInv ==
    ASSUME TransferInv, NEW c \in Client, NextUnit(c)
    PROVE  TransferInv'
<1> DEFINE us == units[c]
           w == WriteLayers(Head(us))
<1>1. TransferTypeOK /\ ClientInv(c) /\ pc[c] = "unit" /\ us # <<>> /\ queue[c] = <<>>
  BY DEF TransferInv, NextUnit, TransferTypeOK
<1>2. us \in Seq(Unit)
  BY <1>1 DEF TransferTypeOK
<1>3. Head(us) \in Unit /\ Tail(us) \in Seq(Unit)
  BY <1>1, <1>2, FirstAndRest
<1>4. w \in Seq(Item) /\ w # <<>> /\ Labelled(w)
  <2>1. Head(us).img \in Image /\ Head(us).ref \in Label
    BY <1>3 DEF Unit
  <2> HIDE DEF us
  <2> QED
    BY <2>1, WriteLayersProperties
<1>5. ~strict => Ready(w, remote) /\ UnitsReady(Tail(us), w, remote)
  <2>1. ~strict => UnitsReady(us, <<>>, remote)
    BY <1>1 DEF ClientInv
  <2> HIDE DEF us
  <2> QED
    BY <1>1, <1>2, <2>1, NextIsReady
<1>6. /\ pc' = [pc EXCEPT ![c] = "head"]
      /\ units' = [units EXCEPT ![c] = Tail(us)]
      /\ queue' = [queue EXCEPT ![c] = w]
      /\ UNCHANGED <<registry, local, cmd, target, tracker, seen>>
  BY DEF NextUnit
<1> HIDE DEF us, w
<1>7. TransferTypeOK'
  <2>1. pc' \in [Client -> PC]
    BY <1>1, <1>6 DEF TransferTypeOK, PC
  <2>2. units' \in [Client -> Seq(Unit)] /\ queue' \in [Client -> Seq(Item)]
    BY <1>1, <1>3, <1>4, <1>6 DEF TransferTypeOK
  <2>3. \A q \in Client :
           /\ pc'[q] # "idle" => cmd'[q] \in Commands
           /\ (queue'[q] # <<>>) <=> pc'[q] \in {"head", "upload", "fetch"}
    BY <1>1, <1>4, <1>6 DEF TransferTypeOK
  <2> QED
    BY <1>1, <1>6, <2>1, <2>2, <2>3 DEF TransferTypeOK, registry, local
<1>8. ClientInv(c)'
  <2>1. /\ pc'[c] = "head" /\ units'[c] = Tail(us) /\ queue'[c] = w
        /\ UNCHANGED <<strict, remote, cmd[c], tracker[c], target[c]>>
    BY <1>1, <1>6 DEF TransferTypeOK, registry
  <2> QED
    BY <1>1, <1>4, <1>5, <2>1 DEF ClientInv
<1>9. OnlyClient(c)
  BY <1>1, <1>6 DEF TransferTypeOK, OnlyClient
<1>10. RemoteComplete' /\ TagsResolve' /\ remote \subseteq remote' /\ strict' = strict
  BY <1>6, SameRegistry
<1>11. \A q \in Client : ClientInv(q)'
  BY <1>8, <1>9, <1>10, OthersKeepInv
<1> QED
  BY <1>7, <1>10, <1>11 DEF TransferInv

\* The item in hand is in the registry: what follows it can be sent.
LEMMA PushedKeepsOrder ==
    ASSUME TransferTypeOK, NEW c \in Client, ClientInv(c), pc[c] \in {"head", "upload"},
           Pushed(c), UNCHANGED <<cmd, target, units>>,
           remote \subseteq remote', strict' = strict, Head(queue[c]).content \in remote'
    PROVE  /\ pc' \in [Client -> PC] /\ queue' \in [Client -> Seq(Item)]
           /\ tracker' \in [Client -> SUBSET (Blob \cup Image)]
           /\ \A q \in Client :
                 /\ pc'[q] # "idle" => cmd'[q] \in Commands
                 /\ (queue'[q] # <<>>) <=> pc'[q] \in {"head", "upload", "fetch"}
           /\ OnlyClient(c)
           /\ ClientInv(c)'
<1> DEFINE rest == Tail(queue[c])
           x == Head(queue[c])
<1>1. queue[c] \in Seq(Item) /\ queue[c] # <<>>
  BY DEF TransferTypeOK
<1>2. /\ x \in Item /\ rest \in Seq(Item) /\ Len(queue[c]) \in Nat
      /\ Len(queue[c]) = 1 <=> rest = <<>>
  BY <1>1, FirstAndRest
<1>3. /\ Labelled(rest)
      /\ strict \/ (Ready(rest, remote') /\ UnitsReady(units[c], rest, remote'))
  BY <1>1, TailIsReady DEF ClientInv
<1>4. x.content \in Blob \cup Image
  BY <1>2 DEF Item
<1>5. /\ pc' = [pc EXCEPT ![c] = IF rest = <<>> THEN "unit" ELSE "head"]
      /\ queue' = [queue EXCEPT ![c] = rest]
      /\ tracker' = [tracker EXCEPT ![c] = @ \cup {x.content}]
  BY <1>2 DEF Pushed
<1> HIDE DEF rest, x
<1>6. pc' \in [Client -> PC] /\ queue' \in [Client -> Seq(Item)]
  BY <1>2, <1>5 DEF TransferTypeOK, PC
<1>7. tracker' \in [Client -> SUBSET (Blob \cup Image)]
  BY <1>4, <1>5 DEF TransferTypeOK
<1>8. \A q \in Client :
         /\ pc'[q] # "idle" => cmd'[q] \in Commands
         /\ (queue'[q] # <<>>) <=> pc'[q] \in {"head", "upload", "fetch"}
  BY <1>5 DEF TransferTypeOK
<1>9. OnlyClient(c)
  BY <1>5 DEF TransferTypeOK, OnlyClient
<1>10. ClientInv(c)'
  <2>1. /\ pc'[c] \in {"unit", "head"} /\ queue'[c] = rest
        /\ tracker'[c] = tracker[c] \cup {x.content}
        /\ cmd'[c] = cmd[c] /\ target'[c] = target[c] /\ units'[c] = units[c]
    BY <1>5 DEF TransferTypeOK
  <2>2. x.content \in remote'
    BY DEF x
  <2> QED
    BY <1>3, <2>1, <2>2 DEF ClientInv
<1> QED
  BY <1>6, <1>7, <1>8, <1>9, <1>10

\* What the registry is found to hold is skipped.
LEMMA SkipExistingKeepsInv ==
    ASSUME TransferInv, NEW c \in Client, SkipExisting(c)
    PROVE  TransferInv'
<1>1. /\ TransferTypeOK /\ TagsResolve /\ ClientInv(c) /\ pc[c] = "head"
      /\ AlreadyExists(c, Head(queue[c])) /\ Pushed(c)
      /\ UNCHANGED <<registry, local, cmd, target, units, seen>>
  BY DEF TransferInv, SkipExisting
<1>2. Head(queue[c]).content \in remote
  <2> DEFINE x == Head(queue[c])
  <2>1. queue[c] \in Seq(Item) /\ queue[c] # <<>>
    BY <1>1 DEF TransferTypeOK
  <2>2. x \in Item /\ x = queue[c][1] /\ 1 \in DOMAIN queue[c]
    BY <2>1, FirstAndRest
  <2>3. x.content \in Image <=> x.ref \in Label
    BY <1>1, <2>2 DEF ClientInv, Labelled
  <2>4. x.ref \in Label \cup {NoRef}
    BY <2>2 DEF Item
  <2> HIDE DEF x
  <2>5. CASE x.content \in tracker[c]
    BY <1>1, <2>5 DEF ClientInv, x
  <2>6. CASE x.ref = NoRef /\ x.content \in remote
    BY <2>6 DEF x
  <2>7. CASE x.ref # NoRef /\ rtags[x.ref] = x.content
    <3>1. x.content # None
      BY <2>3, <2>4, <2>7, CommandAssumption
    <3>2. x.content \in remote
      BY <1>1, <2>4, <2>7, <3>1 DEF TagsResolve
    <3> QED
      BY <3>2 DEF x
  <2> QED
    BY <1>1, <2>5, <2>6, <2>7 DEF AlreadyExists, x
<1>3. RemoteComplete' /\ TagsResolve' /\ remote \subseteq remote' /\ strict' = strict
  BY <1>1, SameRegistry
<1>4. /\ pc' \in [Client -> PC] /\ queue' \in [Client -> Seq(Item)]
      /\ tracker' \in [Client -> SUBSET (Blob \cup Image)]
      /\ \A q \in Client :
            /\ pc'[q] # "idle" => cmd'[q] \in Commands
            /\ (queue'[q] # <<>>) <=> pc'[q] \in {"head", "upload", "fetch"}
      /\ OnlyClient(c)
      /\ ClientInv(c)'
  BY <1>1, <1>2, <1>3, PushedKeepsOrder
<1>5. TransferTypeOK'
  BY <1>1, <1>4 DEF TransferTypeOK, registry, local
<1>6. \A q \in Client : ClientInv(q)'
  BY <1>3, <1>4, OthersKeepInv
<1> QED
  BY <1>3, <1>5, <1>6 DEF TransferInv

\* What it is found to lack will be uploaded.
LEMMA BeginUploadKeepsInv ==
    ASSUME TransferInv, NEW c \in Client, BeginUpload(c)
    PROVE  TransferInv'
<1>1. /\ TransferTypeOK /\ ClientInv(c) /\ pc[c] = "head"
      /\ pc' = [pc EXCEPT ![c] = "upload"]
      /\ UNCHANGED <<registry, local, cmd, target, units, queue, tracker, seen>>
  BY DEF TransferInv, BeginUpload
<1>2. TransferTypeOK'
  <2>1. /\ pc' \in [Client -> PC]
        /\ \A q \in Client :
              /\ pc'[q] # "idle" => cmd'[q] \in Commands
              /\ (queue'[q] # <<>>) <=> pc'[q] \in {"head", "upload", "fetch"}
    BY <1>1 DEF TransferTypeOK, PC
  <2> QED
    BY <1>1, <2>1 DEF TransferTypeOK, registry, local
<1>3. ClientInv(c)'
  BY <1>1 DEF TransferTypeOK, ClientInv, registry
<1>4. OnlyClient(c)
  BY <1>1 DEF TransferTypeOK, OnlyClient
<1>5. RemoteComplete' /\ TagsResolve' /\ remote \subseteq remote' /\ strict' = strict
  BY <1>1, SameRegistry
<1>6. \A q \in Client : ClientInv(q)'
  BY <1>3, <1>4, <1>5, OthersKeepInv
<1> QED
  BY <1>2, <1>5, <1>6 DEF TransferInv

\* What can be uploaded now refers to nothing the registry lacks.
LEMMA UploadIsComplete ==
    ASSUME TransferTypeOK, NEW c \in Client, ClientInv(c), Upload(c)
    PROVE  /\ Head(queue[c]) \in Item
           /\ Head(queue[c]).content \in Image => Head(queue[c]).ref \in Label
           /\ Head(queue[c]).content \notin Image => Head(queue[c]).ref = NoRef
           /\ Head(queue[c]).content \in Image =>
                 References[Head(queue[c]).content] \subseteq remote
<1> DEFINE x == Head(queue[c])
<1>1. pc[c] = "upload" /\ Accepted(x)
  BY DEF Upload
<1>2. queue[c] \in Seq(Item) /\ queue[c] # <<>>
  BY <1>1 DEF TransferTypeOK
<1>3. x \in Item /\ x = queue[c][1] /\ 1 \in DOMAIN queue[c]
  BY <1>2, FirstAndRest
<1>4. x.content \in Image <=> x.ref \in Label
  BY <1>1, <1>3 DEF ClientInv, Labelled
<1>5. x.ref \in Label \cup {NoRef}
  BY <1>3 DEF Item
<1>6. ASSUME x.content \in Image
      PROVE  References[x.content] \subseteq remote
  <2>1. CASE strict
    BY <1>1, <1>6, <2>1 DEF Accepted
  <2>2. CASE ~strict
    <3>1. \A y \in References[x.content] :
             y \in remote \/ \E j \in 1 .. 1 - 1 : queue[c][j].content = y
      BY <1>1, <1>3, <1>6, <2>2 DEF ClientInv, Ready
    <3>2. 1 .. 1 - 1 = {}
      OBVIOUS
    <3> QED
      BY <3>1, <3>2
  <2> QED
    BY <2>1, <2>2
<1> QED
  BY <1>3, <1>4, <1>5, <1>6

\* A push answers for references and images.
LEMMA OwedType ==
    ASSUME TransferTypeOK, NEW q \in Client, ClientInv(q)
    PROVE  Owed(q) \subseteq Label \X (Image \cup {None})
<1>1. Label \X Image \subseteq Label \X (Image \cup {None})
  OBVIOUS
<1>2. CASE target[q] # None /\ cmd[q].do = "push"
  <2>1. pc[q] # "idle"
    BY <1>2 DEF ClientInv
  <2>2. cmd[q].ref \in Label /\ target[q] \in Image
    BY <1>2, <2>1, CommandTypes DEF TransferTypeOK
  <2>3. Promised(cmd[q].ref, target[q], cmd[q].subs) \subseteq Label \X Image
    BY <2>2, PromisedType
  <2>4. Owed(q) = Promised(cmd[q].ref, target[q], cmd[q].subs)
    BY <1>2 DEF Owed
  <2> QED
    BY <1>1, <2>3, <2>4, Zenon
<1>3. CASE ~(target[q] # None /\ cmd[q].do = "push")
  BY <1>3 DEF Owed
<1> QED
  BY <1>2, <1>3

\* The registry commits a blob or a manifest.
LEMMA UploadKeepsInv ==
    ASSUME TransferInv, NEW c \in Client, Upload(c)
    PROVE  TransferInv'
<1> DEFINE x == Head(queue[c])
<1>1. /\ TransferTypeOK /\ RemoteComplete /\ TagsResolve /\ ClientInv(c) /\ pc[c] = "upload"
      /\ remote' = remote \cup {x.content}
      /\ rtags' = IF x.ref = NoRef THEN rtags ELSE [rtags EXCEPT ![x.ref] = x.content]
      /\ seen' = [q \in Client |-> seen[q] \cup ({<<x.ref, x.content>>} \cap Owed(q))]
      /\ Pushed(c)
      /\ UNCHANGED <<strict, local, cmd, target, units>>
  BY DEF TransferInv, Upload
<1>2. /\ x \in Item
      /\ x.content \in Image => x.ref \in Label
      /\ x.content \notin Image => x.ref = NoRef
      /\ x.content \in Image => References[x.content] \subseteq remote
  BY <1>1, UploadIsComplete
<1>3. remote \subseteq remote' /\ strict' = strict /\ x.content \in remote'
  BY <1>1
<1>4. /\ pc' \in [Client -> PC] /\ queue' \in [Client -> Seq(Item)]
      /\ tracker' \in [Client -> SUBSET (Blob \cup Image)]
      /\ \A q \in Client :
            /\ pc'[q] # "idle" => cmd'[q] \in Commands
            /\ (queue'[q] # <<>>) <=> pc'[q] \in {"head", "upload", "fetch"}
      /\ OnlyClient(c)
      /\ ClientInv(c)'
  BY <1>1, <1>3, PushedKeepsOrder
<1> HIDE DEF x
<1>5. x.content \in Blob \cup Image /\ x.ref \in Label \cup {NoRef}
  BY <1>2 DEF Item
<1>6. /\ remote' \subseteq Blob \cup Image
      /\ rtags' \in [Label -> Image \cup {None}]
      /\ RemoteComplete' /\ TagsResolve'
  <2>1. remote' \subseteq Blob \cup Image
    BY <1>1, <1>5 DEF TransferTypeOK
  <2>2. RemoteComplete'
    BY <1>1, <1>2 DEF RemoteComplete
  <2>3. CASE x.content \in Image
    <3>1. x.ref \in Label /\ NoRef \notin Label
      BY <1>2, <2>3, CommandAssumption
    <3>2. rtags' = [rtags EXCEPT ![x.ref] = x.content]
      BY <1>1, <3>1
    <3>3. rtags' \in [Label -> Image \cup {None}]
      BY <1>1, <2>3, <3>1, <3>2 DEF TransferTypeOK
    <3>4. TagsResolve'
      BY <1>1, <3>1, <3>2 DEF TagsResolve, TransferTypeOK
    <3> QED
      BY <2>1, <2>2, <3>3, <3>4
  <2>4. CASE x.content \notin Image
    <3>1. rtags' = rtags
      BY <1>1, <1>2, <2>4
    <3>2. TagsResolve'
      BY <1>1, <3>1 DEF TagsResolve
    <3> QED
      BY <1>1, <2>1, <2>2, <3>1, <3>2 DEF TransferTypeOK
  <2> QED
    BY <2>3, <2>4
<1>7. seen' \in [Client -> SUBSET (Label \X (Image \cup {None}))]
  <2> DEFINE Pairs == Label \X (Image \cup {None})
  <2>1. \A q \in Client : Owed(q) \subseteq Pairs
    BY <1>1, OwedType DEF TransferInv
  <2>2. seen \in [Client -> SUBSET Pairs]
    BY <1>1 DEF TransferTypeOK
  <2> HIDE DEF Pairs
  <2>3. seen' \in [Client -> SUBSET Pairs]
    BY <1>1, <2>1, <2>2
  <2> QED
    BY <2>3 DEF Pairs
<1>8. TransferTypeOK'
  BY <1>1, <1>4, <1>6, <1>7 DEF TransferTypeOK, local
<1>9. \A q \in Client : ClientInv(q)'
  BY <1>3, <1>4, OthersKeepInv
<1> QED
  BY <1>6, <1>8, <1>9 DEF TransferInv

-----------------------------------------------------------------------------
(* Every step of a pull keeps it, and every end *)

\* The tag is turned into a digest.
LEMMA ResolveRemoteKeepsInv ==
    ASSUME TransferInv, NEW c \in Client, ResolveRemote(c)
    PROVE  TransferInv'
<1> DEFINE d == rtags[cmd[c].ref]
<1>1. /\ TransferTypeOK /\ RemoteComplete /\ TagsResolve /\ ClientInv(c)
      /\ pc[c] = "resolve" /\ cmd[c].do = "pull" /\ queue[c] = <<>>
  BY DEF TransferInv, ResolveRemote, TransferTypeOK
<1>2. cmd[c].ref \in Label
  BY <1>1, CommandTypes DEF TransferTypeOK
<1>3. d \in Image /\ d \in remote /\ References[d] \subseteq remote
  <2>1. d \in Image
    BY <1>1, <1>2 DEF TransferTypeOK, ResolveRemote
  <2>2. d \in remote
    BY <1>1, <1>2 DEF TagsResolve, ResolveRemote
  <2> QED
    BY <1>1, <2>1, <2>2 DEF RemoteComplete
<1>4. /\ target' = [target EXCEPT ![c] = d]
      /\ \/ d \in Index /\ pc' = [pc EXCEPT ![c] = "index"] /\ queue' = queue
         \/ /\ d \notin Index /\ pc' = [pc EXCEPT ![c] = "fetch"]
            /\ queue' = [queue EXCEPT ![c] = FetchList(d)]
      /\ UNCHANGED <<registry, local, cmd, units, tracker, seen>>
  BY DEF ResolveRemote
<1> HIDE DEF d
<1>5. d \notin Index =>
         /\ FetchList(d) \in Seq(Item) /\ FetchList(d) # <<>>
         /\ \A k \in DOMAIN FetchList(d) : FetchList(d)[k].content \in remote
  BY <1>3, FetchListProperties
<1>6. TransferTypeOK'
  <2>1. pc' \in [Client -> PC] /\ target' \in [Client -> Image \cup {None}]
    BY <1>1, <1>3, <1>4 DEF TransferTypeOK, PC
  <2>2. queue' \in [Client -> Seq(Item)]
    BY <1>1, <1>4, <1>5 DEF TransferTypeOK
  <2>3. \A q \in Client :
           /\ pc'[q] # "idle" => cmd'[q] \in Commands
           /\ (queue'[q] # <<>>) <=> pc'[q] \in {"head", "upload", "fetch"}
    BY <1>1, <1>4, <1>5 DEF TransferTypeOK
  <2> QED
    BY <1>1, <1>4, <2>1, <2>2, <2>3 DEF TransferTypeOK, registry, local
<1>7. ClientInv(c)'
  <2>1. /\ target'[c] = d /\ UNCHANGED <<strict, remote, cmd[c], tracker[c]>>
        /\ \/ d \in Index /\ pc'[c] = "index"
           \/ d \notin Index /\ pc'[c] = "fetch" /\ queue'[c] = FetchList(d)
    BY <1>1, <1>4 DEF TransferTypeOK, registry
  <2> QED
    BY <1>1, <1>3, <1>5, <2>1 DEF ClientInv
<1>8. OnlyClient(c)
  BY <1>1, <1>4 DEF TransferTypeOK, OnlyClient
<1>9. RemoteComplete' /\ TagsResolve' /\ remote \subseteq remote' /\ strict' = strict
  BY <1>4, SameRegistry
<1>10. \A q \in Client : ClientInv(q)'
  BY <1>7, <1>8, <1>9, OthersKeepInv
<1> QED
  BY <1>6, <1>9, <1>10 DEF TransferInv

\* The manifest for the platform is chosen.
LEMMA FetchIndexKeepsInv ==
    ASSUME TransferInv, NEW c \in Client, FetchIndex(c)
    PROVE  TransferInv'
<1>1. /\ TransferTypeOK /\ RemoteComplete /\ ClientInv(c)
      /\ pc[c] = "index" /\ target[c] \in Index /\ target[c] \in remote
  BY DEF TransferInv, FetchIndex, ClientInv
<1>2. PICK m \in MatchPlatform(Manifests[target[c]], cmd[c].platform) :
         /\ target' = [target EXCEPT ![c] = m]
         /\ queue' = [queue EXCEPT ![c] = FetchList(m)]
  BY DEF FetchIndex
<1>3. /\ pc' = [pc EXCEPT ![c] = "fetch"]
      /\ UNCHANGED <<registry, local, cmd, units, tracker, seen>>
  BY DEF FetchIndex
<1>4. m \in Image \ Index /\ m \in remote /\ References[m] \subseteq remote
  <2> DEFINE ms == Manifests[target[c]]
  <2>1. /\ \A i \in DOMAIN ms : ms[i].img \in Image \ Index /\ ms[i].img \in References[target[c]]
        /\ Len(ms) \in Nat /\ DOMAIN ms = 1 .. Len(ms) /\ target[c] \in Image
    BY <1>1, IndexTypes
  <2> HIDE DEF ms
  <2>2. PICK i \in DOMAIN ms : m = ms[i].img
    <3>1. m \in MatchPlatform(ms, cmd[c].platform)
      BY <1>2 DEF ms
    <3> QED
      BY <2>1, <3>1 DEF MatchPlatform
  <2>3. m \in Image \ Index /\ m \in remote
    BY <1>1, <2>1, <2>2 DEF RemoteComplete
  <2> QED
    BY <1>1, <2>3 DEF RemoteComplete
<1>5. /\ FetchList(m) \in Seq(Item) /\ FetchList(m) # <<>>
      /\ \A k \in DOMAIN FetchList(m) : FetchList(m)[k].content \in remote
  BY <1>4, FetchListProperties
<1>6. TransferTypeOK'
  <2>1. pc' \in [Client -> PC] /\ target' \in [Client -> Image \cup {None}]
    BY <1>1, <1>2, <1>3, <1>4 DEF TransferTypeOK, PC
  <2>2. queue' \in [Client -> Seq(Item)]
    BY <1>1, <1>2, <1>5 DEF TransferTypeOK
  <2>3. \A q \in Client :
           /\ pc'[q] # "idle" => cmd'[q] \in Commands
           /\ (queue'[q] # <<>>) <=> pc'[q] \in {"head", "upload", "fetch"}
    BY <1>1, <1>2, <1>3, <1>5 DEF TransferTypeOK
  <2> QED
    BY <1>1, <1>3, <2>1, <2>2, <2>3 DEF TransferTypeOK, registry, local
<1>7. ClientInv(c)'
  <2>1. /\ target'[c] = m /\ pc'[c] = "fetch" /\ queue'[c] = FetchList(m)
        /\ UNCHANGED <<strict, remote, cmd[c], tracker[c]>>
    BY <1>1, <1>2, <1>3 DEF TransferTypeOK, registry
  <2> QED
    BY <1>1, <1>4, <1>5, <2>1 DEF ClientInv
<1>8. OnlyClient(c)
  BY <1>1, <1>2, <1>3 DEF TransferTypeOK, OnlyClient
<1>9. RemoteComplete' /\ TagsResolve' /\ remote \subseteq remote' /\ strict' = strict
  BY <1>3, SameRegistry
<1>10. \A q \in Client : ClientInv(q)'
  BY <1>7, <1>8, <1>9, OthersKeepInv
<1> QED
  BY <1>6, <1>9, <1>10 DEF TransferInv

\* One blob or manifest is read.
LEMMA FetchContentKeepsInv ==
    ASSUME TransferInv, NEW c \in Client, FetchContent(c)
    PROVE  TransferInv'
<1> DEFINE rest == Tail(queue[c])
<1>1. TransferTypeOK /\ ClientInv(c) /\ pc[c] = "fetch"
  BY DEF TransferInv, FetchContent
<1>2. queue[c] \in Seq(Item) /\ queue[c] # <<>>
  BY <1>1 DEF TransferTypeOK
<1>3. /\ rest \in Seq(Item) /\ Len(queue[c]) \in Nat \ {0}
      /\ Len(queue[c]) = 1 <=> rest = <<>>
      /\ DOMAIN queue[c] = 1 .. Len(queue[c]) /\ DOMAIN rest = 1 .. Len(queue[c]) - 1
      /\ \A k \in 1 .. Len(queue[c]) - 1 : rest[k] = queue[c][k + 1]
  BY <1>2, FirstAndRest
<1>4. /\ queue' = [queue EXCEPT ![c] = rest]
      /\ pc' = [pc EXCEPT ![c] = IF rest = <<>> THEN "put" ELSE "fetch"]
      /\ UNCHANGED <<registry, local, cmd, target, units, tracker, seen>>
  BY <1>3 DEF FetchContent
<1> HIDE DEF rest
<1>5. \A k \in DOMAIN rest : rest[k].content \in remote
  <2>1. \A k \in DOMAIN rest : k + 1 \in DOMAIN queue[c] /\ rest[k] = queue[c][k + 1]
    BY <1>3
  <2> QED
    BY <1>1, <2>1 DEF ClientInv
<1>6. TransferTypeOK'
  <2>1. pc' \in [Client -> PC] /\ queue' \in [Client -> Seq(Item)]
    BY <1>1, <1>3, <1>4 DEF TransferTypeOK, PC
  <2>2. \A q \in Client :
           /\ pc'[q] # "idle" => cmd'[q] \in Commands
           /\ (queue'[q] # <<>>) <=> pc'[q] \in {"head", "upload", "fetch"}
    BY <1>1, <1>4 DEF TransferTypeOK
  <2> QED
    BY <1>1, <1>4, <2>1, <2>2 DEF TransferTypeOK, registry, local
<1>7. ClientInv(c)'
  <2>1. /\ queue'[c] = rest /\ pc'[c] \in {"put", "fetch"}
        /\ UNCHANGED <<strict, remote, cmd[c], target[c], tracker[c]>>
    BY <1>1, <1>4 DEF TransferTypeOK, registry
  <2> QED
    BY <1>1, <1>5, <2>1 DEF ClientInv
<1>8. OnlyClient(c)
  BY <1>1, <1>4 DEF TransferTypeOK, OnlyClient
<1>9. RemoteComplete' /\ TagsResolve' /\ remote \subseteq remote' /\ strict' = strict
  BY <1>4, SameRegistry
<1>10. \A q \in Client : ClientInv(q)'
  BY <1>7, <1>8, <1>9, OthersKeepInv
<1> QED
  BY <1>6, <1>9, <1>10 DEF TransferInv

\* The image read is put into the local store.
LEMMA PutPulledKeepsInv ==
    ASSUME TransferInv, NEW c \in Client, PutPulled(c)
    PROVE  TransferInv'
<1>1. /\ TransferTypeOK /\ ClientInv(c) /\ pc[c] = "put" /\ target[c] \in Image
      /\ pc' = [pc EXCEPT ![c] = "tag"]
      /\ images' = images \cup {target[c]} /\ tags' = tags
      /\ UNCHANGED <<registry, cmd, target, units, queue, tracker, seen>>
  BY DEF TransferInv, ClientInv, PutPulled, Put
<1>2. TransferTypeOK'
  <2>1. /\ pc' \in [Client -> PC] /\ images' \subseteq Image
        /\ \A q \in Client :
              /\ pc'[q] # "idle" => cmd'[q] \in Commands
              /\ (queue'[q] # <<>>) <=> pc'[q] \in {"head", "upload", "fetch"}
    BY <1>1 DEF TransferTypeOK, PC
  <2> QED
    BY <1>1, <2>1 DEF TransferTypeOK, registry
<1>3. ClientInv(c)'
  BY <1>1 DEF TransferTypeOK, ClientInv, registry
<1>4. OnlyClient(c)
  BY <1>1 DEF TransferTypeOK, OnlyClient
<1>5. RemoteComplete' /\ TagsResolve' /\ remote \subseteq remote' /\ strict' = strict
  BY <1>1, SameRegistry
<1>6. \A q \in Client : ClientInv(q)'
  BY <1>3, <1>4, <1>5, OthersKeepInv
<1> QED
  BY <1>2, <1>5, <1>6 DEF TransferInv

\* It is tagged, and the pull is done.
LEMMA TagPulledKeepsInv ==
    ASSUME TransferInv, NEW c \in Client, TagPulled(c)
    PROVE  TransferInv'
<1>1. TransferTypeOK /\ pc[c] = "tag" /\ Exit(c) /\ UNCHANGED registry
  BY DEF TransferInv, TagPulled
<1>2. cmd[c].ref \in Label
  BY <1>1, CommandTypes DEF TransferTypeOK
<1>3. images' \subseteq Image /\ tags' \in [Label -> Image \cup {None}]
  BY <1>1, <1>2 DEF TransferTypeOK, TagPulled, Tag
<1> QED
  BY <1>1, <1>3, ExitKeepsInv

\* A process ends with success, with an error or by a kill.
LEMMA EndKeepsInv ==
    ASSUME TransferInv, NEW c \in Client, Exit(c), UNCHANGED <<registry, local>>
    PROVE  TransferInv'
<1>1. images' \subseteq Image /\ tags' \in [Label -> Image \cup {None}]
  BY DEF TransferInv, TransferTypeOK, local
<1> QED
  BY <1>1, ExitKeepsInv

\* Other commands change the local store only.
LEMMA OtherCommandKeepsInv ==
    ASSUME TransferInv, OtherCommand
    PROVE  TransferInv'
<1>1. TransferTypeOK /\ UNCHANGED registry /\ UNCHANGED client
  BY DEF TransferInv, OtherCommand
<1>2. images' \subseteq Image /\ tags' \in [Label -> Image \cup {None}]
  <2>1. CASE \E d \in Doomed \cap images : DeleteImage(d)
    BY <1>1, <2>1 DEF TransferTypeOK, DeleteImage
  <2>2. CASE \E m \in Retags : tags[m[1]] # m[2] /\ Tag(m[1], m[2])
    <3>1. PICK m \in Retags : Tag(m[1], m[2])
      BY <2>2
    <3>2. m[1] \in Label /\ m[2] \in Image
      BY CommandAssumption
    <3> QED
      BY <1>1, <3>1, <3>2 DEF TransferTypeOK, Tag
  <2> QED
    BY <2>1, <2>2 DEF OtherCommand
<1>3. TransferTypeOK'
  BY <1>1, <1>2 DEF TransferTypeOK, registry, client
<1>4. RemoteComplete' /\ TagsResolve'
  BY <1>1, SameRegistry
<1>5. \A c \in Client : ClientInv(c)'
  BY <1>1 DEF TransferInv, ClientInv, registry, client
<1> QED
  BY <1>3, <1>4, <1>5 DEF TransferInv

\* It holds at first,
LEMMA TransferInvInit ==
    TransferInit => TransferInv
<1> SUFFICES ASSUME TransferInit
             PROVE  TransferInv
  OBVIOUS
<1>1. <<>> \in Seq(Unit) /\ <<>> \in Seq(Item)
  BY EmptySeq
<1>2. TransferTypeOK
  BY <1>1, CommandAssumption DEF TransferInit, TransferTypeOK, PC
<1>3. RemoteComplete /\ TagsResolve
  BY DEF TransferInit, RemoteComplete, TagsResolve
<1>4. \A c \in Client : ClientInv(c)
  BY DEF TransferInit, ClientInv
<1> QED
  BY <1>2, <1>3, <1>4 DEF TransferInv

\* and every step keeps it.
LEMMA TransferInvNext ==
    TransferInv /\ [TransferNext]_allVars => TransferInv'
<1> SUFFICES ASSUME TransferInv, [TransferNext]_allVars
             PROVE  TransferInv'
  OBVIOUS
<1>1. ASSUME NEW c \in Client, NEW command \in Commands, Start(c, command)
      PROVE  TransferInv'
  BY <1>1, StartKeepsInv
<1>2. ASSUME NEW c \in Client, Step(c)
      PROVE  TransferInv'
  <2>1. CASE ResolveLocal(c)
    BY <2>1, ResolveLocalKeepsInv
  <2>2. CASE NextUnit(c)
    BY <2>2, NextUnitKeepsInv
  <2>3. CASE SkipExisting(c)
    BY <2>3, SkipExistingKeepsInv
  <2>4. CASE BeginUpload(c)
    BY <2>4, BeginUploadKeepsInv
  <2>5. CASE Upload(c)
    BY <2>5, UploadKeepsInv
  <2>6. CASE FinishPush(c)
    BY <2>6, EndKeepsInv DEF FinishPush
  <2>7. CASE ResolveRemote(c)
    BY <2>7, ResolveRemoteKeepsInv
  <2>8. CASE FetchIndex(c)
    BY <2>8, FetchIndexKeepsInv
  <2>9. CASE FetchContent(c)
    BY <2>9, FetchContentKeepsInv
  <2>10. CASE PutPulled(c)
    BY <2>10, PutPulledKeepsInv
  <2>11. CASE TagPulled(c)
    BY <2>11, TagPulledKeepsInv
  <2>12. CASE ReturnError(c)
    BY <2>12, EndKeepsInv DEF ReturnError
  <2> QED
    BY <1>2, <2>1, <2>2, <2>3, <2>4, <2>5, <2>6, <2>7, <2>8, <2>9, <2>10, <2>11, <2>12 DEF Step
<1>3. ASSUME NEW c \in Client, Stop(c)
      PROVE  TransferInv'
  BY <1>3, EndKeepsInv DEF Stop
<1>4. CASE OtherCommand
  BY <1>4, OtherCommandKeepsInv
<1>5. CASE UNCHANGED allVars
  <2>1. UNCHANGED <<strict, remote, rtags, images, tags, pc, cmd, target, units, queue, tracker, seen>>
    BY <1>5 DEF allVars, registry, local, client
  <2>2. TransferTypeOK'
    BY <2>1 DEF TransferInv, TransferTypeOK
  <2>3. RemoteComplete' /\ TagsResolve' /\ \A c \in Client : ClientInv(c)'
    BY <2>1 DEF TransferInv, RemoteComplete, TagsResolve, ClientInv
  <2> QED
    BY <2>2, <2>3 DEF TransferInv
<1> QED
  BY <1>1, <1>2, <1>3, <1>4, <1>5 DEF TransferNext

\* So it always holds.
THEOREM TransferInvariant == TransferSpec => []TransferInv
<1> QED
  BY TransferInvInit, TransferInvNext, PTL DEF TransferSpec

-----------------------------------------------------------------------------
(* What follows for any number of clients, images and tags *)

\* The type invariant of push and pull holds in every state.
THEOREM TransferTypeCorrect == TransferSpec => []TransferTypeOK
<1>1. TransferInv => TransferTypeOK
  BY DEF TransferInv
<1> QED
  BY <1>1, TransferInvariant, PTL

\* However clients interleave and die, and whether the registry checks or not, it holds
\* what its manifests refer to: blobs go before their manifest, manifests before the
\* index.
THEOREM RegistryIsComplete == TransferSpec => []RemoteComplete
<1>1. TransferInv => RemoteComplete
  BY DEF TransferInv
<1> QED
  BY <1>1, TransferInvariant, PTL

\* A pull that found its tag finds all the rest, although tags move meanwhile.
THEOREM PullsFindAll == TransferSpec => []PullsMeetNoGap
<1>1. TransferInv => PullsMeetNoGap
  <2> SUFFICES ASSUME TransferInv, NEW c \in Client
               PROVE  /\ pc[c] = "index" => target[c] \in remote
                      /\ pc[c] = "fetch" => Head(queue[c]).content \in remote
    BY DEF PullsMeetNoGap
  <2>1. TransferTypeOK /\ ClientInv(c)
    BY DEF TransferInv
  <2>2. ASSUME pc[c] = "fetch"
        PROVE  Head(queue[c]).content \in remote
    <3>1. queue[c] \in Seq(Item) /\ queue[c] # <<>>
      BY <2>1, <2>2 DEF TransferTypeOK
    <3>2. Head(queue[c]) = queue[c][1] /\ 1 \in DOMAIN queue[c]
      BY <3>1, FirstAndRest
    <3> QED
      BY <2>1, <2>2, <3>2 DEF ClientInv
  <2> QED
    BY <2>1, <2>2 DEF ClientInv
<1> QED
  BY <1>1, TransferInvariant, PTL

\* The upload of a manifest is the publication of an image, and nothing else is.
LEMMA UploadPublishes ==
    ASSUME TransferInv, TransferInv', NEW c \in Client, Upload(c)
    PROVE  [Registry!Next]_<<{d \in remote \cap Image : References[d] \subseteq remote}, rtags>>
<1> DEFINE x == Head(queue[c])
           shown == {d \in remote \cap Image : References[d] \subseteq remote}
<1>1. /\ TransferTypeOK /\ ClientInv(c)
      /\ remote' = remote \cup {x.content}
      /\ rtags' = IF x.ref = NoRef THEN rtags ELSE [rtags EXCEPT ![x.ref] = x.content]
  BY DEF TransferInv, Upload
<1>2. /\ x.content \in Image => x.ref \in Label
      /\ x.content \notin Image => x.ref = NoRef
      /\ x.content \in Image => References[x.content] \subseteq remote
  BY <1>1, UploadIsComplete
<1>3. shown = remote \cap Image /\ shown' = remote' \cap Image
  BY DEF TransferInv, RemoteComplete
<1> HIDE DEF x, shown
<1>4. CASE x.content \in Image
  <2>1. Requires[x.content] \subseteq shown
    <3>1. CASE x.content \in Index
      BY <1>2, <1>3, <1>4, <3>1, IndexTypes
    <3>2. CASE x.content \notin Index
      BY <1>4, <3>2, ImageTypes
    <3> QED
      BY <3>1, <3>2
  <2>2. shown' = shown \cup {x.content}
    BY <1>1, <1>3, <1>4
  <2>3. rtags' = [rtags EXCEPT ![x.ref] = x.content]
    BY <1>1, <1>2, <1>4, CommandAssumption
  <2>4. x.ref \in Label
    BY <1>2, <1>4
  <2> QED
    BY <1>4, <2>1, <2>2, <2>3, <2>4 DEF Registry!Next, Registry!Publish, shown
<1>5. CASE x.content \notin Image
  <2>1. shown' = shown
    BY <1>1, <1>3, <1>5
  <2>2. rtags' = rtags
    BY <1>1, <1>2, <1>5
  <2> QED
    BY <2>1, <2>2 DEF shown
<1> QED
  BY <1>4, <1>5

\* Readers see PublishedImages: all that clients do, complete or cut short, is to
\* publish one whole image after the other.
THEOREM RegistryRefinement == TransferSpec => ImplementsRegistry
<1>1. TransferInit => Registry!Init
  BY DEF TransferInit, Registry!Init
<1>2. TransferInv /\ TransferInv' /\ [TransferNext]_allVars
         => [Registry!Next]_<<{d \in remote \cap Image : References[d] \subseteq remote}, rtags>>
  <2> SUFFICES ASSUME TransferInv, TransferInv', [TransferNext]_allVars
               PROVE  [Registry!Next]_<<{d \in remote \cap Image : References[d] \subseteq remote}, rtags>>
    OBVIOUS
  <2>1. CASE \E c \in Client : Upload(c)
    BY <2>1, UploadPublishes
  <2>2. CASE UNCHANGED registry
    BY <2>2 DEF registry
  <2>3. (\E c \in Client : Upload(c)) \/ UNCHANGED registry
    <3>1. ASSUME NEW c \in Client, Step(c), ~Upload(c)
          PROVE  UNCHANGED registry
      BY <3>1 DEF Step, ResolveLocal, NextUnit, SkipExisting, BeginUpload, FinishPush,
                  ResolveRemote, FetchIndex, FetchContent, PutPulled, TagPulled, ReturnError
    <3>2. ASSUME NEW c \in Client, NEW command \in Commands, Start(c, command)
          PROVE  UNCHANGED registry
      BY <3>2 DEF Start
    <3>3. ASSUME NEW c \in Client, Stop(c)
          PROVE  UNCHANGED registry
      BY <3>3 DEF Stop
    <3>4. CASE OtherCommand
      BY <3>4 DEF OtherCommand
    <3>5. CASE UNCHANGED allVars
      BY <3>5 DEF allVars
    <3> QED
      BY <3>1, <3>2, <3>3, <3>4, <3>5 DEF TransferNext
  <2> QED
    BY <2>1, <2>2, <2>3
<1> QED
  BY <1>1, <1>2, TransferInvariant, PTL DEF TransferSpec, ImplementsRegistry, Registry!Spec


-----------------------------------------------------------------------------
(* What a push reports *)

\* References a push has yet to deal with.
Left(c) == UnitPairs(units[c]) \cup QueuePairs(queue[c])

\* The push has found or made right a reference to this image.
Accounted(c, img) == \E r \in seen[c] : r[2] = img

\* A push answers for the references it has yet to deal with and for those it has found
\* or made right.  Those that are right now are among the latter; for an image that its
\* resolver takes for pushed there is one of them, which need not be the only reference
\* the push names for it.
PushInv(c) ==
    /\ pc[c] \in {"idle", "resolve"} =>
          target[c] = None /\ tracker[c] = {} /\ seen[c] = {} /\ units[c] = <<>>
    /\ pc[c] \in {"unit", "head", "upload"} =>
          /\ seen[c] \subseteq Owed(c)
          /\ Left(c) \subseteq Owed(c)
          /\ \A p \in Owed(c) : p \in Left(c) \/ Accounted(c, p[2])
          /\ \A p \in Owed(c) : rtags[p[1]] = p[2] => p \in seen[c]
          /\ \A p \in Owed(c) : p[2] \in tracker[c] => Accounted(c, p[2])

ReportInv ==
    /\ TransferInv
    /\ \A c \in Client : PushInv(c)

\* What is in a list is its head and what is in its tail.
LEMMA ElementsOfTail ==
    ASSUME NEW S, NEW s \in Seq(S), s # <<>>
    PROVE  Elements(s) = {Head(s)} \cup Elements(Tail(s))
<1>1. /\ Head(s) = s[1] /\ Len(s) \in Nat \ {0} /\ DOMAIN s = 1 .. Len(s)
      /\ DOMAIN Tail(s) = 1 .. Len(s) - 1
      /\ \A k \in 1 .. Len(s) - 1 : Tail(s)[k] = s[k + 1]
  BY FirstAndRest
<1> DEFINE rest == Tail(s)
<1> HIDE DEF rest
<1>2. \A k \in DOMAIN rest : k + 1 \in DOMAIN s /\ rest[k] = s[k + 1]
  BY <1>1 DEF rest
<1>3. \A k \in DOMAIN s : k = 1 \/ (k - 1 \in DOMAIN rest /\ rest[k - 1] = s[k])
  BY <1>1 DEF rest
<1>4. Elements(s) \subseteq {s[1]} \cup Elements(rest)
  BY <1>3 DEF Elements
<1>5. {s[1]} \cup Elements(rest) \subseteq Elements(s)
  BY <1>1, <1>2 DEF Elements
<1> QED
  BY <1>1, <1>4, <1>5 DEF rest

\* Nothing is in the empty list.
LEMMA NothingIsLeft ==
    ASSUME NEW S, NEW s \in Seq(S), s = <<>>
    PROVE  UnitPairs(s) = {} /\ QueuePairs(s) = {}
<1>1. DOMAIN s = {}
  BY EmptySeq
<1>2. Elements(s) = {}
  BY <1>1 DEF Elements
<1> QED
  BY <1>2 DEF UnitPairs, QueuePairs

\* The references of a list of manifests, and of a queue, are those of its head and of its
\* tail.
LEMMA PairsOfTail ==
    /\ \A us \in Seq(Unit) : us # <<>> =>
          UnitPairs(us) = {<<Head(us).ref, Head(us).img>>} \cup UnitPairs(Tail(us))
    /\ \A q \in Seq(Item) : q # <<>> =>
          /\ QueuePairs(Tail(q)) \subseteq QueuePairs(q)
          /\ Head(q).ref # NoRef => <<Head(q).ref, Head(q).content>> \in QueuePairs(q)
          /\ \A p \in QueuePairs(q) :
                \/ p \in QueuePairs(Tail(q))
                \/ Head(q).ref # NoRef /\ p = <<Head(q).ref, Head(q).content>>
<1>1. ASSUME NEW us \in Seq(Unit), us # <<>>
      PROVE  UnitPairs(us) = {<<Head(us).ref, Head(us).img>>} \cup UnitPairs(Tail(us))
  <2>1. Elements(us) = {Head(us)} \cup Elements(Tail(us))
    BY <1>1, ElementsOfTail
  <2> QED
    BY <2>1 DEF UnitPairs
<1>2. ASSUME NEW q \in Seq(Item), q # <<>>
      PROVE  /\ QueuePairs(Tail(q)) \subseteq QueuePairs(q)
             /\ Head(q).ref # NoRef => <<Head(q).ref, Head(q).content>> \in QueuePairs(q)
             /\ \A p \in QueuePairs(q) :
                   \/ p \in QueuePairs(Tail(q))
                   \/ Head(q).ref # NoRef /\ p = <<Head(q).ref, Head(q).content>>
  <2>1. Elements(q) = {Head(q)} \cup Elements(Tail(q))
    BY <1>2, ElementsOfTail
  <2> QED
    BY <2>1 DEF QueuePairs
<1> QED
  BY <1>1, <1>2

\* The one reference in what is sent for a manifest is that of the manifest.
LEMMA WriteLayersRefs ==
    ASSUME NEW u, u.img \in Image, u.ref \in Label
    PROVE  QueuePairs(WriteLayers(u)) = {<<u.ref, u.img>>}
<1> DEFINE w == WriteLayers(u)
           last == [content |-> u.img, ref |-> u.ref]
<1>1. /\ \E j \in DOMAIN w : w[j] = last
      /\ \A k \in DOMAIN w : w[k].ref # NoRef => w[k] = last
  BY WriteLayersProperties
<1>2. last.ref = u.ref /\ last.content = u.img /\ u.ref # NoRef
  BY CommandAssumption
<1> HIDE DEF w, last
<1>3. {y \in Elements(w) : y.ref # NoRef} = {last}
  BY <1>1, <1>2 DEF Elements
<1>4. QueuePairs(w) = {<<last.ref, last.content>>}
  BY <1>3 DEF QueuePairs
<1> QED
  BY <1>2, <1>4 DEF w

-----------------------------------------------------------------------------
(* Every step keeps what a push answers for *)

\* What a push with its target in hand answers for.
LEMMA OwedInHand ==
    ASSUME TransferTypeOK, NEW c \in Client, ClientInv(c), pc[c] \in {"unit", "head", "upload"}
    PROVE  /\ cmd[c].ref \in Label /\ target[c] \in Image /\ cmd[c].subs \in BOOLEAN
           /\ Owed(c) = Promised(cmd[c].ref, target[c], cmd[c].subs)
           /\ Owed(c) \subseteq Label \X Image
<1>1. cmd[c] \in Commands /\ cmd[c].do = "push" /\ target[c] \in Image
  BY DEF TransferTypeOK, ClientInv
<1>2. cmd[c].ref \in Label /\ cmd[c].subs \in BOOLEAN
  BY <1>1, CommandTypes
<1>3. target[c] # None
  BY <1>1, CommandAssumption
<1>4. Owed(c) = Promised(cmd[c].ref, target[c], cmd[c].subs)
  BY <1>1, <1>3 DEF Owed
<1>5. Promised(cmd[c].ref, target[c], cmd[c].subs) \subseteq Label \X Image
  BY <1>1, <1>2, PromisedType
<1> QED
  BY <1>1, <1>2, <1>4, <1>5

\* What a step may do to the references a push has found or made right: it adds some the
\* push answers for, and those it makes right.
Credits(q) ==
    /\ seen[q] \subseteq seen'[q]
    /\ seen'[q] \subseteq seen[q] \cup Owed(q)
    /\ \A p \in Owed(q) : rtags'[p[1]] = p[2] => rtags[p[1]] = p[2] \/ p \in seen'[q]

\* A push that does nothing itself loses nothing, whatever others do to the registry.
LEMMA OthersKeepPush ==
    ASSUME NEW c \in Client, \A q \in Client : PushInv(q), OnlyClient(c),
           \A q \in Client \ {c} : Credits(q), PushInv(c)'
    PROVE  \A q \in Client : PushInv(q)'
<1> SUFFICES ASSUME NEW q \in Client \ {c}
             PROVE  PushInv(q)'
  OBVIOUS
<1>1. /\ pc'[q] = pc[q] /\ cmd'[q] = cmd[q] /\ target'[q] = target[q]
      /\ units'[q] = units[q] /\ queue'[q] = queue[q] /\ tracker'[q] = tracker[q]
  BY DEF OnlyClient
<1>2. PushInv(q) /\ Credits(q)
  OBVIOUS
<1>3. Owed(q)' = Owed(q) /\ Left(q)' = Left(q)
  BY <1>1 DEF Owed, Left, UnitPairs, QueuePairs
<1>4. CASE pc[q] \in {"idle", "resolve"}
  <2>1. Owed(q) = {}
    BY <1>2, <1>4 DEF PushInv, Owed
  <2> QED
    BY <1>1, <1>2, <1>4, <2>1 DEF PushInv, Credits
<1>5. CASE pc[q] \in {"unit", "head", "upload"}
  <2>1. seen'[q] \subseteq Owed(q)' /\ Left(q)' \subseteq Owed(q)'
    BY <1>2, <1>3, <1>5 DEF PushInv, Credits
  <2>2. \A p \in Owed(q)' : rtags'[p[1]] = p[2] => p \in seen'[q]
    BY <1>2, <1>3, <1>5 DEF PushInv, Credits
  <2>3. \A p \in Owed(q) : Accounted(q, p[2]) => Accounted(q, p[2])'
    BY <1>2 DEF Credits, Accounted
  <2>4. \A p \in Owed(q)' : p \in Left(q)' \/ Accounted(q, p[2])'
    BY <1>2, <1>3, <1>5, <2>3 DEF PushInv
  <2>5. \A p \in Owed(q)' : p[2] \in tracker'[q] => Accounted(q, p[2])'
    BY <1>1, <1>2, <1>3, <1>5, <2>3 DEF PushInv
  <2> QED
    BY <1>1, <1>5, <2>1, <2>2, <2>4, <2>5 DEF PushInv
<1>6. CASE pc[q] \notin {"idle", "resolve", "unit", "head", "upload"}
  BY <1>1, <1>6 DEF PushInv
<1> QED
  BY <1>4, <1>5, <1>6

\* The same where the step leaves the tags and what others have seen.
LEMMA QuietStepKeepsPush ==
    ASSUME NEW c \in Client, \A q \in Client : PushInv(q), OnlyClient(c),
           \A q \in Client \ {c} : seen'[q] = seen[q], rtags' = rtags, PushInv(c)'
    PROVE  \A q \in Client : PushInv(q)'
<1>1. \A q \in Client \ {c} : Credits(q)
  BY DEF Credits
<1> QED
  BY <1>1, OthersKeepPush

\* The item in hand is in the registry: its reference, if the push answers for it, is made
\* right or was found right, or another of the same image was.
LEMMA PushedKeepsPush ==
    ASSUME TransferTypeOK, NEW c \in Client, ClientInv(c), PushInv(c),
           pc[c] \in {"head", "upload"}, Pushed(c), UNCHANGED <<cmd, target, units>>,
           Credits(c),
           \A p \in Owed(c) :
              p = <<Head(queue[c]).ref, Head(queue[c]).content>> => Accounted(c, p[2])'
    PROVE  PushInv(c)'
<1> DEFINE x == Head(queue[c])
           rest == Tail(queue[c])
           pair == <<x.ref, x.content>>
<1>1. queue[c] \in Seq(Item) /\ queue[c] # <<>>
  BY DEF TransferTypeOK
<1>2. /\ x \in Item /\ x = queue[c][1] /\ 1 \in DOMAIN queue[c]
      /\ rest \in Seq(Item)
      /\ Len(queue[c]) = 1 <=> rest = <<>>
  BY <1>1, FirstAndRest
<1>3. x.content \in Image <=> x.ref \in Label
  BY <1>2 DEF ClientInv, Labelled
<1>4. /\ QueuePairs(rest) \subseteq QueuePairs(queue[c])
      /\ x.ref # NoRef => pair \in QueuePairs(queue[c])
      /\ \A p \in QueuePairs(queue[c]) : p \in QueuePairs(rest) \/ (x.ref # NoRef /\ p = pair)
  BY <1>1, PairsOfTail
<1>5. /\ pc'[c] \in {"unit", "head"} /\ queue'[c] = rest
      /\ tracker'[c] = tracker[c] \cup {x.content}
      /\ cmd'[c] = cmd[c] /\ target'[c] = target[c] /\ units'[c] = units[c]
  BY DEF TransferTypeOK, Pushed
<1> HIDE DEF rest
<1>6. Owed(c)' = Owed(c)
  BY <1>5 DEF Owed
<1>7. Left(c) = UnitPairs(units[c]) \cup QueuePairs(queue[c])
  BY DEF Left
<1>8. Left(c)' = UnitPairs(units[c]) \cup QueuePairs(rest)
  BY <1>5 DEF Left, UnitPairs, QueuePairs
<1>9. /\ cmd[c].ref \in Label /\ target[c] \in Image /\ cmd[c].subs \in BOOLEAN
      /\ Owed(c) = Promised(cmd[c].ref, target[c], cmd[c].subs)
      /\ Owed(c) \subseteq Label \X Image
  BY OwedInHand
<1>10. /\ seen[c] \subseteq Owed(c) /\ Left(c) \subseteq Owed(c)
       /\ \A p \in Owed(c) : p \in Left(c) \/ Accounted(c, p[2])
       /\ \A p \in Owed(c) : rtags[p[1]] = p[2] => p \in seen[c]
       /\ \A p \in Owed(c) : p[2] \in tracker[c] => Accounted(c, p[2])
  BY DEF PushInv
<1>11. seen'[c] \subseteq Owed(c)' /\ Left(c)' \subseteq Owed(c)'
  BY <1>4, <1>6, <1>7, <1>8, <1>10 DEF Credits
<1>12. \A p \in Owed(c) : Accounted(c, p[2]) => Accounted(c, p[2])'
  BY DEF Credits, Accounted
<1>13. x.ref # NoRef => \E r \in seen'[c] : r[2] = x.content
  <2> SUFFICES ASSUME x.ref # NoRef
               PROVE  \E r \in seen'[c] : r[2] = x.content
    OBVIOUS
  <2>1. pair \in Owed(c)
    BY <1>4, <1>7, <1>10
  <2>2. PICK p \in Owed(c) : p = pair
    BY <2>1
  <2>3. Accounted(c, p[2])'
    BY <2>2
  <2> QED
    BY <2>2, <2>3 DEF Accounted
<1> HIDE DEF x
<1>14. ASSUME NEW p \in Owed(c)
       PROVE  p \in Left(c)' \/ Accounted(c, p[2])'
  <2>1. CASE p \in Left(c) /\ p \notin Left(c)'
    <3>1. x.ref # NoRef /\ p = pair
      BY <1>4, <1>7, <1>8, <2>1
    <3>2. p[2] = x.content
      BY <3>1
    <3> QED
      BY <1>13, <3>1, <3>2 DEF Accounted
  <2> QED
    BY <1>10, <1>12, <2>1
<1>15. \A p \in Owed(c)' : rtags'[p[1]] = p[2] => p \in seen'[c]
  BY <1>6, <1>10 DEF Credits
<1>16. ASSUME NEW p \in Owed(c), p[2] \in tracker'[c]
       PROVE  Accounted(c, p[2])'
  <2>1. CASE p[2] \in tracker[c]
    BY <1>10, <1>12, <2>1
  <2>2. CASE p[2] = x.content
    <3>1. x.ref # NoRef
      BY <1>3, <1>9, <2>2, CommandAssumption
    <3> QED
      BY <1>13, <2>2, <3>1 DEF Accounted
  <2> QED
    BY <1>5, <1>16, <2>1, <2>2
<1>17. /\ \A p \in Owed(c)' : p \in Left(c)' \/ Accounted(c, p[2])'
       /\ \A p \in Owed(c)' : p[2] \in tracker'[c] => Accounted(c, p[2])'
  BY <1>6, <1>14, <1>16
<1> QED
  BY <1>5, <1>11, <1>15, <1>17 DEF PushInv

\* The reference is looked up in the local store: all that is promised is left, but for
\* what the registry has right.
LEMMA ResolveLocalKeepsPush ==
    ASSUME TransferTypeOK, NEW c \in Client, PushInv(c), ResolveLocal(c)
    PROVE  PushInv(c)'
<1> DEFINE d == tags[cmd[c].ref]
           us == Units(cmd[c].ref, d, cmd[c].subs)
           owed == Promised(cmd[c].ref, d, cmd[c].subs)
           right == {p \in owed : rtags[p[1]] = p[2]}
<1>1. cmd[c] \in Commands /\ cmd[c].ref \in Label /\ cmd[c].subs \in BOOLEAN /\ cmd[c].do = "push"
  BY CommandTypes DEF TransferTypeOK, ResolveLocal
<1>2. d \in Image /\ d # None
  BY <1>1 DEF TransferTypeOK, ResolveLocal
<1>3. UnitPairs(us) = owed
  BY <1>1, <1>2, UnitsProperties
<1>4. /\ pc'[c] = "unit" /\ target'[c] = d /\ units'[c] = us /\ seen'[c] = right
      /\ cmd'[c] = cmd[c] /\ queue'[c] = queue[c] /\ tracker'[c] = tracker[c]
      /\ rtags' = rtags
  BY DEF TransferTypeOK, ResolveLocal, registry
<1> HIDE DEF d, us
<1>5. Owed(c)' = owed
  BY <1>1, <1>2, <1>4 DEF Owed
<1>6. queue[c] \in Seq(Item) /\ queue[c] = <<>>
  BY DEF TransferTypeOK, ResolveLocal
<1>7. QueuePairs(queue[c]) = {}
  BY <1>6, NothingIsLeft
<1>8. Left(c)' = UnitPairs(us) \cup QueuePairs(queue[c])
  BY <1>4 DEF Left, UnitPairs, QueuePairs
<1>9. Left(c)' = owed
  BY <1>3, <1>7, <1>8
<1>10. tracker'[c] = {}
  BY <1>4 DEF PushInv, ResolveLocal
<1> HIDE DEF owed
<1>11. right \subseteq owed /\ \A p \in owed : rtags'[p[1]] = p[2] => p \in right
  BY <1>4
<1> HIDE DEF right
<1>12. /\ seen'[c] \subseteq Owed(c)' /\ Left(c)' \subseteq Owed(c)'
       /\ \A p \in Owed(c)' : p \in Left(c)' \/ Accounted(c, p[2])'
  BY <1>4, <1>5, <1>9, <1>11
<1>13. \A p \in Owed(c)' : rtags'[p[1]] = p[2] => p \in seen'[c]
  BY <1>4, <1>5, <1>11
<1>14. \A p \in Owed(c)' : p[2] \in tracker'[c] => Accounted(c, p[2])'
  BY <1>10
<1>15. pc'[c] = "unit"
  BY <1>4
<1> QED
  BY <1>12, <1>13, <1>14, <1>15 DEF PushInv

\* The next manifest is taken up.
LEMMA NextUnitKeepsPush ==
    ASSUME TransferTypeOK, NEW c \in Client, PushInv(c), NextUnit(c)
    PROVE  PushInv(c)'
<1> DEFINE us == units[c]
           u == Head(us)
           w == WriteLayers(u)
           rest == Tail(us)
<1>1. us \in Seq(Unit) /\ us # <<>> /\ queue[c] \in Seq(Item) /\ queue[c] = <<>> /\ pc[c] = "unit"
  BY DEF TransferTypeOK, NextUnit
<1>2. UnitPairs(us) = {<<u.ref, u.img>>} \cup UnitPairs(rest)
  BY <1>1, PairsOfTail
<1>3. u.img \in Image /\ u.ref \in Label
  <2>1. u \in Unit
    BY <1>1, FirstAndRest
  <2> HIDE DEF u
  <2> QED
    BY <2>1 DEF Unit
<1>4. /\ pc'[c] = "head" /\ units'[c] = rest /\ queue'[c] = w
      /\ cmd'[c] = cmd[c] /\ target'[c] = target[c] /\ tracker'[c] = tracker[c]
      /\ seen'[c] = seen[c] /\ rtags' = rtags
  BY DEF TransferTypeOK, NextUnit, registry
<1> HIDE DEF us, u, rest
<1>5. QueuePairs(w) = {<<u.ref, u.img>>}
  BY <1>3, WriteLayersRefs
<1> HIDE DEF w
<1>6. QueuePairs(queue[c]) = {}
  BY <1>1, NothingIsLeft
<1>7. Left(c) = UnitPairs(us)
  BY <1>6 DEF Left, us
<1>8. Left(c)' = UnitPairs(rest) \cup QueuePairs(w)
  BY <1>4 DEF Left, UnitPairs, QueuePairs
<1>9. Left(c)' = Left(c) /\ Owed(c)' = Owed(c)
  BY <1>2, <1>4, <1>5, <1>7, <1>8 DEF Owed
<1>10. \A p \in Owed(c) : Accounted(c, p[2])' <=> Accounted(c, p[2])
  BY <1>4 DEF Accounted
<1> QED
  BY <1>1, <1>4, <1>9, <1>10 DEF PushInv

\* What the registry is found to hold is skipped: of an image this process pushed before
\* a reference is accounted for, and a tag found right is one.
LEMMA SkipExistingKeepsPush ==
    ASSUME TransferTypeOK, NEW c \in Client, ClientInv(c), PushInv(c), SkipExisting(c)
    PROVE  PushInv(c)'
<1> DEFINE x == Head(queue[c])
<1>1. /\ pc[c] = "head" /\ AlreadyExists(c, x) /\ Pushed(c)
      /\ UNCHANGED <<registry, local, cmd, target, units, seen>>
  BY DEF SkipExisting
<1> HIDE DEF x
<1>2. Credits(c)
  BY <1>1 DEF Credits, registry
<1>3. ASSUME NEW p \in Owed(c), p = <<x.ref, x.content>>
      PROVE  Accounted(c, p[2])'
  <2>1. p \in Label \X Image
    BY <1>1, OwedInHand
  <2>2. x.ref # NoRef /\ p[1] = x.ref /\ p[2] = x.content
    BY <1>3, <2>1, CommandAssumption
  <2>3. p[2] \in tracker[c] \/ rtags[p[1]] = p[2]
    BY <1>1, <2>2 DEF AlreadyExists
  <2>4. p \in seen[c] \/ Accounted(c, p[2])
    BY <1>1, <2>3 DEF PushInv
  <2> QED
    BY <1>1, <2>4 DEF Accounted
<1> QED
  BY <1>1, <1>2, <1>3, PushedKeepsPush DEF x

\* An upload makes a reference right, for every push that answers for it.
LEMMA UploadCredits ==
    ASSUME TransferInv, NEW c \in Client, Upload(c)
    PROVE  /\ \A q \in Client : Credits(q)
           /\ \A p \in Owed(c) :
                 p = <<Head(queue[c]).ref, Head(queue[c]).content>> => Accounted(c, p[2])'
<1> DEFINE x == Head(queue[c])
<1>1. /\ TransferTypeOK /\ ClientInv(c)
      /\ rtags' = IF x.ref = NoRef THEN rtags ELSE [rtags EXCEPT ![x.ref] = x.content]
      /\ seen' = [q \in Client |-> seen[q] \cup ({<<x.ref, x.content>>} \cap Owed(q))]
  BY DEF TransferInv, Upload
<1> HIDE DEF x
<1>2. ASSUME NEW q \in Client
      PROVE  Credits(q)
  <2>1. \A p \in Owed(q) : p \in Label \X (Image \cup {None})
    BY <1>1, OwedType DEF TransferInv
  <2>2. seen'[q] = seen[q] \cup ({<<x.ref, x.content>>} \cap Owed(q))
    BY <1>1
  <2>3. ASSUME NEW p \in Owed(q), rtags'[p[1]] = p[2], rtags[p[1]] # p[2]
        PROVE  p \in seen'[q]
    <3>1. p[1] \in Label /\ p = <<p[1], p[2]>>
      BY <2>1
    <3>2. p[1] = x.ref /\ p[2] = x.content
      BY <1>1, <2>3, <3>1 DEF TransferTypeOK
    <3>3. p = <<x.ref, x.content>>
      BY <3>1, <3>2
    <3> QED
      BY <2>2, <3>3
  <2> QED
    BY <2>2, <2>3 DEF Credits
<1>3. \A p \in Owed(c) : p = <<x.ref, x.content>> => Accounted(c, p[2])'
  BY <1>1 DEF Accounted
<1> QED
  BY <1>2, <1>3 DEF x

\* The end of a process clears what it knew.
LEMMA ExitKeepsPush ==
    ASSUME TransferTypeOK, \A q \in Client : PushInv(q), NEW c \in Client, Exit(c), rtags' = rtags
    PROVE  \A q \in Client : PushInv(q)'
<1>1. OnlyClient(c) /\ \A q \in Client \ {c} : seen'[q] = seen[q]
  BY DEF TransferTypeOK, Exit, OnlyClient
<1>2. PushInv(c)'
  BY DEF TransferTypeOK, Exit, PushInv
<1> QED
  BY <1>1, <1>2, QuietStepKeepsPush

\* Every step of a client keeps what pushes answer for,
LEMMA StepKeepsPush ==
    ASSUME ReportInv, NEW c \in Client, Step(c)
    PROVE  \A q \in Client : PushInv(q)'
<1>1. /\ TransferInv /\ TransferTypeOK /\ ClientInv(c) /\ PushInv(c)
      /\ \A q \in Client : PushInv(q)
  BY DEF ReportInv, TransferInv
<1>2. CASE ResolveLocal(c)
  <2>1. OnlyClient(c) /\ rtags' = rtags /\ \A q \in Client \ {c} : seen'[q] = seen[q]
    BY <1>1, <1>2 DEF TransferTypeOK, ResolveLocal, OnlyClient, registry
  <2> QED
    BY <1>1, <1>2, <2>1, ResolveLocalKeepsPush, QuietStepKeepsPush
<1>3. CASE NextUnit(c)
  <2>1. OnlyClient(c) /\ rtags' = rtags /\ seen' = seen
    BY <1>1, <1>3 DEF TransferTypeOK, NextUnit, OnlyClient, registry
  <2> QED
    BY <1>1, <1>3, <2>1, NextUnitKeepsPush, QuietStepKeepsPush
<1>4. CASE SkipExisting(c)
  <2>1. OnlyClient(c) /\ rtags' = rtags /\ seen' = seen
    BY <1>1, <1>4 DEF TransferTypeOK, SkipExisting, Pushed, OnlyClient, registry
  <2> QED
    BY <1>1, <1>4, <2>1, SkipExistingKeepsPush, QuietStepKeepsPush
<1>5. CASE BeginUpload(c)
  <2>1. /\ OnlyClient(c) /\ rtags' = rtags /\ seen' = seen
        /\ pc[c] = "head" /\ pc'[c] = "upload"
        /\ UNCHANGED <<cmd, target, units, queue, tracker>>
    BY <1>1, <1>5 DEF TransferTypeOK, BeginUpload, OnlyClient, registry
  <2>2. Owed(c)' = Owed(c) /\ Left(c)' = Left(c)
    BY <2>1 DEF Owed, Left, UnitPairs, QueuePairs
  <2>3. \A p \in Owed(c) : Accounted(c, p[2])' <=> Accounted(c, p[2])
    BY <2>1 DEF Accounted
  <2>4. PushInv(c)'
    BY <1>1, <2>1, <2>2, <2>3 DEF PushInv
  <2> QED
    BY <1>1, <2>1, <2>4, QuietStepKeepsPush
<1>6. CASE Upload(c)
  <2>1. /\ OnlyClient(c) /\ pc[c] = "upload" /\ Pushed(c) /\ UNCHANGED <<cmd, target, units>>
    BY <1>1, <1>6 DEF TransferTypeOK, Upload, Pushed, OnlyClient
  <2>2. /\ \A q \in Client : Credits(q)
        /\ \A p \in Owed(c) :
              p = <<Head(queue[c]).ref, Head(queue[c]).content>> => Accounted(c, p[2])'
    BY <1>1, <1>6, UploadCredits
  <2>3. PushInv(c)'
    BY <1>1, <2>1, <2>2, PushedKeepsPush
  <2> QED
    BY <1>1, <2>1, <2>2, <2>3, OthersKeepPush
<1>7. CASE ResolveRemote(c) \/ FetchIndex(c) \/ FetchContent(c) \/ PutPulled(c)
  <2>1. OnlyClient(c) /\ rtags' = rtags /\ seen' = seen
    BY <1>1, <1>7 DEF TransferTypeOK, ResolveRemote, FetchIndex, FetchContent, PutPulled,
                      OnlyClient, registry
  <2>2. pc'[c] \in {"index", "fetch", "put", "tag"}
    BY <1>1, <1>7 DEF TransferTypeOK, ResolveRemote, FetchIndex, FetchContent, PutPulled
  <2>3. PushInv(c)'
    BY <2>2 DEF PushInv
  <2> QED
    BY <1>1, <2>1, <2>3, QuietStepKeepsPush
<1>8. CASE FinishPush(c) \/ TagPulled(c) \/ ReturnError(c)
  <2>1. Exit(c) /\ rtags' = rtags
    BY <1>8 DEF FinishPush, TagPulled, ReturnError, registry
  <2> QED
    BY <1>1, <2>1, ExitKeepsPush
<1> QED
  BY <1>2, <1>3, <1>4, <1>5, <1>6, <1>7, <1>8 DEF Step

\* and so does every other step.
LEMMA ReportInvNext ==
    ReportInv /\ [TransferNext]_allVars => ReportInv'
<1> SUFFICES ASSUME ReportInv, [TransferNext]_allVars
             PROVE  ReportInv'
  OBVIOUS
<1>1. TransferTypeOK /\ \A q \in Client : PushInv(q)
  BY DEF ReportInv, TransferInv
<1>2. TransferInv'
  BY TransferInvNext DEF ReportInv
<1>3. ASSUME NEW c \in Client, NEW command \in Commands, Start(c, command)
      PROVE  \A q \in Client : PushInv(q)'
  <2>1. /\ OnlyClient(c) /\ rtags' = rtags /\ seen' = seen
        /\ pc[c] = "idle" /\ pc'[c] = "resolve"
        /\ UNCHANGED <<target, units, tracker>>
    BY <1>1, <1>3 DEF TransferTypeOK, Start, OnlyClient, registry
  <2>2. PushInv(c)'
    BY <1>1, <2>1 DEF PushInv
  <2> QED
    BY <1>1, <2>1, <2>2, QuietStepKeepsPush
<1>4. ASSUME NEW c \in Client, Stop(c)
      PROVE  \A q \in Client : PushInv(q)'
  BY <1>1, <1>4, ExitKeepsPush DEF Stop, registry
<1>5. ASSUME UNCHANGED rtags, UNCHANGED client, NEW q \in Client
      PROVE  PushInv(q)'
  <2>1. UNCHANGED <<rtags, pc, cmd, target, units, queue, tracker, seen>>
    BY <1>5 DEF client
  <2>2. Owed(q)' = Owed(q) /\ Left(q)' = Left(q)
    BY <2>1 DEF Owed, Left, UnitPairs, QueuePairs
  <2>3. \A p \in Owed(q) : Accounted(q, p[2])' <=> Accounted(q, p[2])
    BY <2>1 DEF Accounted
  <2> QED
    BY <1>1, <2>1, <2>2, <2>3 DEF PushInv
<1>6. ASSUME OtherCommand \/ UNCHANGED allVars
      PROVE  \A q \in Client : PushInv(q)'
  <2>1. UNCHANGED rtags /\ UNCHANGED client
    BY <1>6 DEF OtherCommand, allVars, registry
  <2> QED
    BY <1>5, <2>1
<1>7. ASSUME NEW c \in Client, Step(c)
      PROVE  \A q \in Client : PushInv(q)'
  BY <1>7, StepKeepsPush
<1>8. \/ \E c \in Client : \E command \in Commands : Start(c, command)
      \/ \E c \in Client : Step(c)
      \/ \E c \in Client : Stop(c)
      \/ OtherCommand \/ UNCHANGED allVars
  BY DEF TransferNext
<1>9. \A q \in Client : PushInv(q)'
  BY <1>3, <1>4, <1>6, <1>7, <1>8
<1> QED
  BY <1>2, <1>9 DEF ReportInv

\* So it always holds.
THEOREM ReportInvariant == TransferSpec => []ReportInv
<1>1. TransferInit => ReportInv
  <2> SUFFICES ASSUME TransferInit
               PROVE  \A c \in Client : PushInv(c)
    BY TransferInvInit DEF ReportInv
  <2> QED
    BY DEF TransferInit, PushInv
<1> QED
  BY <1>1, ReportInvNext, PTL DEF TransferSpec

\* When push reports success, a reference to every image it names was right at some time
\* since the command resolved the index.
ImagesReported == \A c \in Client : PushDone(c) => \A p \in Owed(c) : Accounted(c, p[2])

\* At the end nothing is left to deal with.
LEMMA NothingLeftAtEnd ==
    ASSUME ReportInv, NEW c \in Client, PushDone(c)
    PROVE  /\ seen[c] \subseteq Owed(c)
           /\ \A p \in Owed(c) : Accounted(c, p[2])
<1>1. PushInv(c) /\ pc[c] = "unit" /\ units[c] = <<>>
  BY DEF ReportInv, PushDone
<1>2. /\ units[c] \in Seq(Unit)
      /\ queue[c] \in Seq(Item) /\ queue[c] = <<>>
  BY <1>1 DEF ReportInv, TransferInv, TransferTypeOK
<1>3. Left(c) = {}
  BY <1>1, <1>2, NothingIsLeft DEF Left
<1> QED
  BY <1>1, <1>3 DEF PushInv

\* No image is passed over, for any number of clients that push and pull at the same
\* time, skip what is there, and die anywhere.
THEOREM ImagesAreReported == TransferSpec => []ImagesReported
<1>1. ReportInv => ImagesReported
  BY NothingLeftAtEnd DEF ImagesReported
<1> QED
  BY <1>1, ReportInvariant, PTL

\* No index lists one image for two architectures.
OneArchEach ==
    \A d \in Index : \A m, n \in Elements(Manifests[d]) : m.img = n.img => m.arch = n.arch

\* Then an image goes with one reference of a push,
LEMMA SingleRef ==
    ASSUME OneArchEach, NEW ref \in Label, NEW d \in Image, NEW subs \in BOOLEAN,
           NEW p \in Promised(ref, d, subs), NEW r \in Promised(ref, d, subs), p[2] = r[2]
    PROVE  p = r
<1>1. CASE d \in Index /\ subs
  <2> DEFINE ms == Elements(Manifests[d])
             owed(m) == <<SubRef[<<ref, m.arch>>], m.img>>
  <2>1. Promised(ref, d, subs) = {<<ref, d>>} \cup {owed(m) : m \in ms}
    BY <1>1 DEF Promised
  <2>2. \A m \in ms : m.img # d
    BY <1>1, IndexTypes DEF Elements
  <2>3. \A m, n \in ms : m.img = n.img => m.arch = n.arch
    BY <1>1 DEF OneArchEach
  <2>4. \A m \in ms : owed(m)[2] = m.img
    OBVIOUS
  <2>5. \A m, n \in ms : owed(m)[2] = owed(n)[2] => owed(m) = owed(n)
    BY <2>3
  <2>6. \A m \in ms : owed(m)[2] # d
    BY <2>2, <2>4
  <2> HIDE DEF owed, ms
  <2>7. CASE p = <<ref, d>>
    BY <2>1, <2>6, <2>7
  <2>8. CASE r = <<ref, d>>
    BY <2>1, <2>6, <2>8
  <2>9. CASE p # <<ref, d>> /\ r # <<ref, d>>
    BY <2>1, <2>5, <2>9
  <2> QED
    BY <2>7, <2>8, <2>9
<1>2. CASE ~(d \in Index /\ subs)
  BY <1>2 DEF Promised
<1> QED
  BY <1>1, <1>2

\* and a push that reports success has found right or made right every reference it
\* names.
THEOREM PushesAreReported ==
    ASSUME OneArchEach
    PROVE  TransferSpec => []PushReported
<1>1. ReportInv => PushReported
  <2> SUFFICES ASSUME ReportInv, NEW c \in Client, PushDone(c)
               PROVE  seen[c] = Owed(c)
    BY DEF PushReported
  <2>1. seen[c] \subseteq Owed(c) /\ \A p \in Owed(c) : \E r \in seen[c] : r[2] = p[2]
    BY NothingLeftAtEnd DEF Accounted
  <2>2. /\ cmd[c].ref \in Label /\ target[c] \in Image /\ cmd[c].subs \in BOOLEAN
        /\ Owed(c) = Promised(cmd[c].ref, target[c], cmd[c].subs)
    BY OwedInHand DEF ReportInv, TransferInv, PushDone
  <2>3. ASSUME NEW p \in Owed(c)
        PROVE  p \in seen[c]
    <3>1. PICK r \in seen[c] : r[2] = p[2]
      BY <2>1
    <3>2. p = r
      BY <2>1, <2>2, <3>1, SingleRef
    <3> QED
      BY <3>2
  <2> QED
    BY <2>1, <2>3
<1> QED
  BY <1>1, ReportInvariant, PTL
=============================================================================
