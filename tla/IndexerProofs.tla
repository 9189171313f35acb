---------------------------- MODULE IndexerProofs ----------------------------
(***************************************************************************)
(* Facts about what the indexer's mutations leave in the list of manifests *)
(* for lists of any length.                                                *)
(***************************************************************************)
EXTENDS Indexer, FiniteSetTheorems, FunctionTheorems, WellFoundedInduction, TLAPS

\* Every position up to the number of survivors is the rank of one survivor.
LEMMA RankIsBijection ==
    ASSUME NEW n \in Nat, NEW K \in SUBSET (1 .. n)
    PROVE  /\ Cardinality(K) \in Nat
           /\ \A i \in K : RankIn(K, i) \in 1 .. Cardinality(K)
           /\ \A i, j \in K : i < j => RankIn(K, i) < RankIn(K, j)
           /\ \A k \in 1 .. Cardinality(K) : \E i \in K : RankIn(K, i) = k
<1> DEFINE Upto(i) == {j \in K : j <= i}
           rank == [i \in K |-> RankIn(K, i)]
           size == Cardinality(K)
<1>1. IsFiniteSet(K) /\ size \in Nat
  <2>1. IsFiniteSet(1 .. n)
    BY FS_Interval
  <2> QED
    BY <2>1, FS_Subset, FS_CardinalityType
<1>2. \A i \in K : /\ IsFiniteSet(Upto(i))
                   /\ Cardinality(Upto(i)) \in Nat
                   /\ Cardinality(Upto(i)) <= size
  BY <1>1, FS_Subset, FS_CardinalityType
<1>3. \A i \in K : Cardinality(Upto(i)) # 0
  <2> SUFFICES ASSUME NEW i \in K, Cardinality(Upto(i)) = 0
               PROVE  FALSE
    OBVIOUS
  <2>1. i \in Upto(i)
    OBVIOUS
  <2> QED
    BY <1>2, <2>1, FS_EmptySet
<1>4. \A i \in K : RankIn(K, i) \in 1 .. size
  BY <1>1, <1>2, <1>3 DEF RankIn
<1>5. \A i, j \in K : i < j => RankIn(K, i) < RankIn(K, j)
  <2> SUFFICES ASSUME NEW i \in K, NEW j \in K, i < j
               PROVE  Cardinality(Upto(i)) < Cardinality(Upto(j))
    BY DEF RankIn
  <2> /\ i \in Int /\ j \in Int
      /\ \A x \in K : x \in Int
    OBVIOUS
  <2>0. \A x \in K : x <= i => x <= j
    OBVIOUS
  <2>1. Upto(i) \in SUBSET Upto(j)
    BY <2>0
  <2>2. j \in Upto(j) /\ j \notin Upto(i)
    OBVIOUS
  <2>3. Cardinality(Upto(i)) <= Cardinality(Upto(j))
    BY <1>2, <2>1, FS_Subset
  <2>4. Cardinality(Upto(i)) # Cardinality(Upto(j))
    BY <1>2, <2>1, <2>2, FS_Subset
  <2> QED
    BY <1>2, <2>3, <2>4
<1>6. rank \in Injection(K, 1 .. size)
  <2>1. rank \in [K -> 1 .. size]
    BY <1>4
  <2>2. \A i, j \in K : rank[i] = rank[j] => i = j
    BY <1>4, <1>5
  <2> QED
    BY <2>1, <2>2, Fun_IsInj
<1>7. rank \in Surjection(K, 1 .. size)
  <2>1. IsFiniteSet(1 .. size) /\ Cardinality(1 .. size) = size
    BY <1>1, FS_Interval
  <2> QED
    BY <1>6, <2>1, FS_Injection
<1>8. \A k \in 1 .. size : \E i \in K : RankIn(K, i) = k
  <2>1. \A k \in 1 .. size : \E i \in K : rank[i] = k
    BY <1>7 DEF Surjection
  <2> QED
    BY <2>1
<1> QED
  BY <1>1, <1>4, <1>5, <1>8

\* rest holds the elements of ms that do not match, each from a position of its
\* own and in the order they had.
IsFiltered(rest, ms, match) ==
    \E origin \in [DOMAIN rest -> DOMAIN ms] :
       /\ \A k \in DOMAIN rest : rest[k] = ms[origin[k]] /\ ms[origin[k]] \notin match
       /\ \A k, l \in DOMAIN rest : k < l => origin[k] < origin[l]
       /\ \A i \in DOMAIN ms : ms[i] \notin match => \E k \in DOMAIN rest : origin[k] = i

\* The loops of Indexer.Replace and Indexer.Delete filter.
LEMMA RemainingProperties ==
    ASSUME NEW S, NEW ms \in Seq(S), NEW match
    PROVE  /\ Remaining(ms, match) \in Seq(S)
           /\ IsFiltered(Remaining(ms, match), ms, match)
<1> DEFINE keep == Survivors(ms, match)
           size == Cardinality(keep)
           rest == Remaining(ms, match)
           origin == [k \in 1 .. size |-> CHOOSE i \in keep : RankIn(keep, i) = k]
<1>1. Len(ms) \in Nat /\ DOMAIN ms = 1 .. Len(ms) /\ \A i \in DOMAIN ms : ms[i] \in S
  OBVIOUS
<1>2. /\ keep \in SUBSET (1 .. Len(ms))
      /\ \A i \in keep : i \in Int /\ ms[i] \notin match
  BY <1>1 DEF Survivors
<1>3. /\ size \in Nat
      /\ \A i \in keep : RankIn(keep, i) \in 1 .. size
      /\ \A i, j \in keep : i < j => RankIn(keep, i) < RankIn(keep, j)
      /\ \A k \in 1 .. size : \E i \in keep : RankIn(keep, i) = k
  <2> HIDE DEF keep
  <2> QED
    BY <1>1, <1>2, RankIsBijection
<1>4. \A k \in 1 .. size : origin[k] \in keep /\ RankIn(keep, origin[k]) = k
  <2> HIDE DEF keep, size
  <2> TAKE k \in 1 .. size
  <2>1. \E i \in keep : RankIn(keep, i) = k
    BY <1>3
  <2>2. origin[k] = CHOOSE i \in keep : RankIn(keep, i) = k
    OBVIOUS
  <2> QED
    BY <2>1, <2>2
<1>5. rest = [k \in 1 .. size |-> ms[origin[k]]]
  BY DEF Remaining
<1> HIDE DEF keep, size, rest, origin
<1>6. \A k \in 1 .. size : origin[k] \in DOMAIN ms /\ ms[origin[k]] \in S
  BY <1>1, <1>2, <1>4
<1>7. rest \in Seq(S) /\ DOMAIN rest = 1 .. size
  BY <1>3, <1>5, <1>6
<1>8. origin \in [DOMAIN rest -> DOMAIN ms]
  BY <1>6, <1>7 DEF origin
<1>9. \A k \in DOMAIN rest : rest[k] = ms[origin[k]] /\ ms[origin[k]] \notin match
  BY <1>2, <1>4, <1>5, <1>7
<1>10. \A k, l \in DOMAIN rest : k < l => origin[k] < origin[l]
  <2> SUFFICES ASSUME NEW k \in 1 .. size, NEW l \in 1 .. size, k < l,
                      ~(origin[k] < origin[l])
               PROVE  FALSE
    BY <1>7
  <2>1. /\ origin[k] \in keep /\ RankIn(keep, origin[k]) = k
        /\ origin[l] \in keep /\ RankIn(keep, origin[l]) = l
    BY <1>4
  <2>2. origin[k] \in Int /\ origin[l] \in Int
    BY <1>2, <2>1
  <2>3. origin[l] < origin[k] \/ origin[l] = origin[k]
    BY <2>2
  <2>4. k \in Int /\ l \in Int
    BY <1>3
  <2> QED
    BY <1>3, <2>1, <2>3, <2>4
<1>11. \A i \in DOMAIN ms : ms[i] \notin match => \E k \in DOMAIN rest : origin[k] = i
  <2> SUFFICES ASSUME NEW i \in DOMAIN ms, ms[i] \notin match
               PROVE  \E k \in DOMAIN rest : origin[k] = i
    OBVIOUS
  <2> DEFINE k == RankIn(keep, i)
  <2>1. i \in keep
    BY DEF keep, Survivors
  <2>2. k \in 1 .. size
    BY <1>3, <2>1
  <2>3. origin[k] \in keep /\ RankIn(keep, origin[k]) = k
    BY <1>4, <2>2
  <2>4. i \in Int /\ origin[k] \in Int /\ k \in Int
    BY <1>2, <1>3, <2>1, <2>2, <2>3
  <2>5. ~(i < origin[k]) /\ ~(origin[k] < i)
    BY <1>3, <2>1, <2>3, <2>4
  <2> QED
    BY <1>7, <2>2, <2>4, <2>5
<1> QED
  BY <1>7, <1>8, <1>9, <1>10, <1>11 DEF rest, IsFiltered

\* Delete leaves a list of descriptors.
LEMMA DeletedType ==
    ASSUME NEW ms \in Seq(Descriptor), NEW match
    PROVE  /\ Deleted(ms, match) \in Seq(Descriptor)
           /\ \A k \in DOMAIN Deleted(ms, match) :
                 \E i \in DOMAIN ms : Deleted(ms, match)[k] = ms[i]
BY RemainingProperties DEF IsFiltered, Deleted

\* A mutation writes a list of descriptors: the new one and old ones.
LEMMA MutationsType ==
    ASSUME NEW ms \in Seq(Descriptor), NEW match, NEW desc \in Descriptor
    PROVE  /\ Replaced(ms, desc, match) \in Seq(Descriptor)
           /\ \A k \in DOMAIN Replaced(ms, desc, match) :
                 \/ Replaced(ms, desc, match)[k] = desc
                 \/ \E i \in DOMAIN ms : Replaced(ms, desc, match)[k] = ms[i]
           /\ Added(ms, desc) \in Seq(Descriptor)
           /\ \A k \in DOMAIN Added(ms, desc) :
                 Added(ms, desc)[k] = desc \/ \E i \in DOMAIN ms : Added(ms, desc)[k] = ms[i]
<1>1. /\ Remaining(ms, match) \in Seq(Descriptor)
      /\ \A k \in DOMAIN Remaining(ms, match) :
            \E i \in DOMAIN ms : Remaining(ms, match)[k] = ms[i]
  BY RemainingProperties DEF IsFiltered
<1>2. ASSUME NEW s \in Seq(Descriptor)
      PROVE  /\ Append(s, desc) \in Seq(Descriptor)
             /\ \A k \in DOMAIN Append(s, desc) :
                   Append(s, desc)[k] = desc \/ (k \in DOMAIN s /\ Append(s, desc)[k] = s[k])
  OBVIOUS
<1>3. /\ Append(Remaining(ms, match), desc) \in Seq(Descriptor)
      /\ \A k \in DOMAIN Append(Remaining(ms, match), desc) :
            \/ Append(Remaining(ms, match), desc)[k] = desc
            \/ /\ k \in DOMAIN Remaining(ms, match)
               /\ Append(Remaining(ms, match), desc)[k] = Remaining(ms, match)[k]
  BY <1>1, <1>2
<1>4. /\ Append(ms, desc) \in Seq(Descriptor)
      /\ \A k \in DOMAIN Append(ms, desc) :
            \/ Append(ms, desc)[k] = desc
            \/ k \in DOMAIN ms /\ Append(ms, desc)[k] = ms[k]
  BY <1>2
<1> QED
  BY <1>1, <1>3, <1>4 DEF Replaced, Added

\* Deleting keeps names unique.
LEMMA RemainingKeepsNamesUnique ==
    ASSUME NEW ms \in Seq(Descriptor), NoDuplicateName(ms), NEW m
    PROVE  NoDuplicateName(Remaining(ms, m))
<1> DEFINE rest == Remaining(ms, m)
<1>1. PICK origin \in [DOMAIN rest -> DOMAIN ms] :
            /\ \A k \in DOMAIN rest : rest[k] = ms[origin[k]]
            /\ \A k, l \in DOMAIN rest : k < l => origin[k] < origin[l]
  <2>1. IsFiltered(rest, ms, m)
    BY RemainingProperties
  <2> QED
    BY <2>1 DEF IsFiltered
<1>2. rest \in Seq(Descriptor)
  BY RemainingProperties
<1> HIDE DEF rest
<1> SUFFICES ASSUME NEW i \in DOMAIN rest, NEW j \in DOMAIN rest,
                    rest[i].name = rest[j].name, rest[i].name # NoName, i # j
             PROVE  FALSE
  BY DEF NoDuplicateName, rest
<1>3. origin[i] = origin[j]
  BY <1>1 DEF NoDuplicateName
<1>4. i \in Int /\ j \in Int /\ origin[i] \in Int
  BY <1>1, <1>2
<1>5. i < j \/ j < i
  BY <1>4
<1> QED
  BY <1>1, <1>3, <1>4, <1>5

\* So does adding an anonymous descriptor, or a named one in place of those of its
\* name.
LEMMA MutationsKeepNamesUnique ==
    ASSUME NEW ms \in Seq(Descriptor), NoDuplicateName(ms),
           NEW match, NEW desc \in Descriptor
    PROVE  /\ desc.name = NoName => NoDuplicateName(Added(ms, desc))
           /\ desc.name = NoName => NoDuplicateName(Replaced(ms, desc, match))
           /\ NoDuplicateName(Replaced(ms, desc, Name(desc.name)))
<1>1. \A m : NoDuplicateName(Remaining(ms, m))
  BY RemainingKeepsNamesUnique
<1>2. ASSUME NEW s \in Seq(Descriptor), NoDuplicateName(s),
             \/ desc.name = NoName
             \/ \A i \in DOMAIN s : s[i].name # desc.name
      PROVE  NoDuplicateName(Append(s, desc))
  <2> DEFINE t == Append(s, desc)
  <2>1. /\ DOMAIN t = 1 .. (Len(s) + 1)
        /\ DOMAIN s = 1 .. Len(s)
        /\ t[Len(s) + 1] = desc
        /\ \A i \in DOMAIN s : t[i] = s[i]
        /\ Len(s) \in Nat
    OBVIOUS
  <2> HIDE DEF t
  <2>2. \A i \in DOMAIN t : i \in DOMAIN s \/ i = Len(s) + 1
    BY <2>1
  <2> SUFFICES ASSUME NEW i \in DOMAIN t, NEW j \in DOMAIN t,
                      t[i].name = t[j].name, t[i].name # NoName
               PROVE  i = j
    BY DEF NoDuplicateName, t
  <2>3. CASE i \in DOMAIN s /\ j \in DOMAIN s
    BY <1>2, <2>1, <2>3 DEF NoDuplicateName
  <2>4. CASE i = Len(s) + 1 \/ j = Len(s) + 1
    BY <1>2, <2>1, <2>2, <2>4
  <2> QED
    BY <2>2, <2>3, <2>4
<1>3. Remaining(ms, match) \in Seq(Descriptor)
  BY RemainingProperties
<1>4. /\ Remaining(ms, Name(desc.name)) \in Seq(Descriptor)
      /\ \A k \in DOMAIN Remaining(ms, Name(desc.name)) :
            Remaining(ms, Name(desc.name))[k].name # desc.name
  <2> DEFINE rest == Remaining(ms, Name(desc.name))
  <2>1. /\ rest \in Seq(Descriptor)
        /\ \A k \in DOMAIN rest :
              \E i \in DOMAIN ms : rest[k] = ms[i] /\ ms[i] \notin Name(desc.name)
    BY RemainingProperties DEF IsFiltered
  <2> QED
    BY <2>1 DEF Name
<1> QED
  BY <1>1, <1>2, <1>3, <1>4 DEF Added, Replaced

-----------------------------------------------------------------------------
(* The entries of a list, in no order *)

Entries(ms) == {ms[i] : i \in DOMAIN ms}

\* Indexer.Delete, and the first half of Indexer.Replace, on the set of entries.
LEMMA RemainingEntries ==
    ASSUME NEW ms \in Seq(Descriptor), NEW match
    PROVE  Entries(Remaining(ms, match)) = Entries(ms) \ match
<1> DEFINE rest == Remaining(ms, match)
<1>1. IsFiltered(rest, ms, match)
  BY RemainingProperties
<1> HIDE DEF rest
<1>2. PICK origin \in [DOMAIN rest -> DOMAIN ms] :
         /\ \A k \in DOMAIN rest : rest[k] = ms[origin[k]] /\ ms[origin[k]] \notin match
         /\ \A i \in DOMAIN ms : ms[i] \notin match => \E k \in DOMAIN rest : origin[k] = i
  BY <1>1 DEF IsFiltered
<1>3. Entries(rest) \subseteq Entries(ms) \ match
  BY <1>2 DEF Entries
<1>4. ASSUME NEW i \in DOMAIN ms, ms[i] \notin match
      PROVE  ms[i] \in Entries(rest)
  <2>1. PICK k \in DOMAIN rest : origin[k] = i
    BY <1>2, <1>4
  <2> QED
    BY <1>2, <2>1 DEF Entries
<1> QED
  BY <1>3, <1>4 DEF Entries, rest

\* Indexer.Replace and Indexer.Add on the set of entries.
LEMMA MutationsEntries ==
    ASSUME NEW ms \in Seq(Descriptor), NEW match, NEW desc \in Descriptor
    PROVE  /\ Entries(Replaced(ms, desc, match)) = (Entries(ms) \ match) \cup {desc}
           /\ Entries(Added(ms, desc)) = Entries(ms) \cup {desc}
<1>1. ASSUME NEW s \in Seq(Descriptor)
      PROVE  Entries(Append(s, desc)) = Entries(s) \cup {desc}
  <2> DEFINE t == Append(s, desc)
  <2>1. /\ Len(s) \in Nat /\ DOMAIN s = 1 .. Len(s) /\ DOMAIN t = 1 .. (Len(s) + 1)
        /\ \A i \in 1 .. Len(s) : t[i] = s[i]
        /\ t[Len(s) + 1] = desc
    OBVIOUS
  <2> HIDE DEF t
  <2> QED
    BY <2>1 DEF Entries, t
<1>2. Remaining(ms, match) \in Seq(Descriptor)
  BY RemainingProperties
<1> QED
  BY <1>1, <1>2, RemainingEntries DEF Replaced, Added

\* A lookup finds one position, or none when no entry matches.
LEMMA FirstMatchFinds ==
    ASSUME NEW ms \in Seq(Descriptor), NEW match
    PROVE  /\ FirstMatch(ms, match) = {} <=> Entries(ms) \cap match = {}
           /\ \A i \in FirstMatch(ms, match) : i \in DOMAIN ms /\ ms[i] \in Entries(ms) \cap match
           /\ \A i, j \in FirstMatch(ms, match) : i = j
<1> DEFINE hits == {i \in DOMAIN ms : ms[i] \in match}
<1>1. Len(ms) \in Nat /\ DOMAIN ms = 1 .. Len(ms) /\ DOMAIN ms \subseteq Nat
  OBVIOUS
<1>2. \A i \in FirstMatch(ms, match) : i \in DOMAIN ms /\ ms[i] \in Entries(ms) \cap match
  BY DEF FirstMatch, Entries
<1>3. \A i, j \in FirstMatch(ms, match) : i = j
  <2> SUFFICES ASSUME NEW i \in FirstMatch(ms, match), NEW j \in FirstMatch(ms, match), i # j
               PROVE  FALSE
    OBVIOUS
  <2>1. i \in 1 .. Len(ms) /\ j \in 1 .. Len(ms)
    BY <1>1 DEF FirstMatch
  <2>2. i \in 1 .. (j - 1) \/ j \in 1 .. (i - 1)
    BY <1>1, <2>1
  <2> QED
    BY <2>2 DEF FirstMatch
<1>4. ASSUME hits # {}
      PROVE  FirstMatch(ms, match) # {}
  <2> DEFINE Before == {x \in Nat \X Nat : x[1] < x[2]}
  <2>1. IsWellFoundedOn(Before, Nat)
    BY NatLessThanWellFounded DEF OpToRel
  <2>2. PICK i \in hits : \A j \in hits : ~ (j < i)
    <3>1. hits \subseteq Nat
      BY <1>1
    <3> HIDE DEF hits, Before
    <3>2. \E i \in hits : \A j \in hits : <<j, i>> \notin Before
      BY <1>4, <2>1, <3>1, WFMin
    <3> QED
      BY <3>1, <3>2 DEF Before
  <2>3. i \in FirstMatch(ms, match)
    <3> SUFFICES ASSUME NEW j \in 1 .. (i - 1), ms[j] \in match
                 PROVE  FALSE
      BY DEF FirstMatch
    <3>1. j \in DOMAIN ms /\ j < i
      BY <1>1
    <3> QED
      BY <2>2, <3>1
  <2> QED
    BY <2>3
<1>5. hits = {} <=> Entries(ms) \cap match = {}
  BY DEF Entries
<1> QED
  BY <1>2, <1>3, <1>4, <1>5 DEF FirstMatch

\* A name belongs to one entry.
LEMMA EntryOfName ==
    ASSUME NEW ms, NoDuplicateName(ms), NEW e \in Entries(ms), NEW f \in Entries(ms),
           e.name = f.name, e.name # NoName
    PROVE  e = f
BY DEF NoDuplicateName, Entries
=============================================================================
