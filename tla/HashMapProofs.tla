---------------------------- MODULE HashMapProofs ----------------------------
(***************************************************************************)
(* The hash map of lists.c is a dictionary for any keys, any values, any   *)
(* number of buckets and any hash function.                                *)
(***************************************************************************)
EXTENDS HashMap, SequenceTheorems, TLAPS

(* Find and hashmap_get of one chain. *)
FindIn(s, k) ==
    LET at == {i \in DOMAIN s : s[i].key = k}
    IN  IF at = {} THEN 0 ELSE CHOOSE i \in at : \A j \in at : i <= j
Look(s, k) == IF FindIn(s, k) = 0 THEN NULL ELSE s[FindIn(s, k)].value

(* No key is twice in a chain, so what is left when the first entry with a *)
(* key is removed has no other.                                            *)
Entry == [key : Keys, value : Values]
Distinct(s) == \A i, j \in DOMAIN s : s[i].key = s[j].key => i = j
Chains == {s \in Seq(Entry) : Distinct(s)}

IInv == hashmap \in [0 .. HashSize - 1 -> Chains]

(* The walk stops at the entry with the key. *)
LEMMA Found ==
  ASSUME NEW s \in Chains, NEW k, NEW i \in DOMAIN s, s[i].key = k
  PROVE  FindIn(s, k) = i /\ i # 0 /\ Look(s, k) = s[i].value
<1>1. {j \in DOMAIN s : s[j].key = k} = {i}
  BY DEF Chains, Distinct
<1>2. i \in Nat \ {0}
  BY DEF Chains
<1>3. FindIn(s, k) = CHOOSE j \in {i} : \A l \in {i} : j <= l
  BY <1>1, Zenon DEF FindIn
<1>4. (CHOOSE j \in {i} : \A l \in {i} : j <= l) = i
  BY <1>2
<1> QED BY <1>2, <1>3, <1>4 DEF Look

(* It ends behind the chain when there is none. *)
LEMMA Missing ==
  ASSUME NEW s, NEW k, \A i \in DOMAIN s : s[i].key # k
  PROVE  FindIn(s, k) = 0 /\ Look(s, k) = NULL
<1>1. {i \in DOMAIN s : s[i].key = k} = {}
  OBVIOUS
<1>2. FindIn(s, k) = 0
  BY <1>1, Zenon DEF FindIn
<1> QED BY <1>2 DEF Look

(* Whether an entry is found says whether there is one. *)
LEMMA FindOrNot ==
  ASSUME NEW s \in Chains, NEW k
  PROVE  /\ FindIn(s, k) = 0 => \A i \in DOMAIN s : s[i].key # k
         /\ FindIn(s, k) # 0 => FindIn(s, k) \in DOMAIN s /\ s[FindIn(s, k)].key = k
<1>1. CASE \A i \in DOMAIN s : s[i].key # k
  BY <1>1, Missing
<1>2. CASE \E i \in DOMAIN s : s[i].key = k
  BY <1>2, Found
<1> QED BY <1>1, <1>2

(* A key is answered alike by two chains that have the same entry for it,  *)
(* wherever it is.                                                         *)
LEMMA SameEntry ==
  ASSUME NEW s \in Chains, NEW t \in Chains, NEW k,
         \A i \in DOMAIN s : s[i].key = k => \E j \in DOMAIN t : t[j] = s[i],
         \A j \in DOMAIN t : t[j].key = k => \E i \in DOMAIN s : t[j] = s[i]
  PROVE  Look(t, k) = Look(s, k)
<1>1. CASE \A i \in DOMAIN s : s[i].key # k
  <2>1. \A j \in DOMAIN t : t[j].key # k
    BY <1>1, Zenon
  <2> QED BY <1>1, <2>1, Missing
<1>2. CASE \E i \in DOMAIN s : s[i].key = k
  <2>1. PICK i \in DOMAIN s : s[i].key = k
    BY <1>2
  <2>2. PICK j \in DOMAIN t : t[j] = s[i]
    BY <2>1
  <2>3. Look(s, k) = s[i].value
    BY <2>1, Found
  <2>4. Look(t, k) = t[j].value
    BY <2>1, <2>2, Found
  <2> QED BY <2>2, <2>3, <2>4
<1> QED BY <1>1, <1>2

(* hashmap_set on a key that is there *)
LEMMA ReplaceEntry ==
  ASSUME NEW s \in Chains, NEW k \in Keys, NEW v \in Values,
         NEW n \in DOMAIN s, s[n].key = k
  PROVE  LET t == [s EXCEPT ![n].value = v]
         IN  /\ t \in Chains /\ Look(t, k) = v
             /\ \A o \in Keys \ {k} : Look(t, o) = Look(s, o)
<1> DEFINE e == [s[n] EXCEPT !.value = v]
           t == [s EXCEPT ![n] = e]
<1>1. s \in Seq(Entry) /\ s[n] \in Entry /\ Len(s) \in Nat /\ DOMAIN s = 1 .. Len(s)
  BY DEF Chains
<1>2. e \in Entry /\ e.key = k /\ e.value = v
  BY <1>1 DEF Entry
<1> HIDE DEF e
<1>3. /\ t \in Seq(Entry) /\ DOMAIN t = DOMAIN s /\ t[n] = e
      /\ \A i \in DOMAIN s : i # n => t[i] = s[i]
  BY <1>1, <1>2
<1>4. t = [s EXCEPT ![n].value = v]
  BY DEF e
<1> HIDE DEF t
<1>5. t \in Chains
  BY <1>2, <1>3 DEF Chains, Distinct
<1>6. Look(t, k) = v
  BY <1>2, <1>3, <1>5, Found
<1>7. ASSUME NEW o \in Keys \ {k} PROVE Look(t, o) = Look(s, o)
  <2>1. \A i \in DOMAIN s : s[i].key = o => t[i] = s[i]
    BY <1>3
  <2>2. \A i \in DOMAIN t : t[i].key = o => t[i] = s[i]
    BY <1>2, <1>3
  <2> QED BY <1>3, <1>5, <2>1, <2>2, SameEntry
<1> QED BY <1>4, <1>5, <1>6, <1>7

(* hashmap_set on a new key *)
LEMMA AppendEntry ==
  ASSUME NEW s \in Chains, NEW k \in Keys, NEW v \in Values,
         \A i \in DOMAIN s : s[i].key # k
  PROVE  LET t == Append(s, [key |-> k, value |-> v])
         IN  /\ t \in Chains /\ Look(t, k) = v
             /\ \A o \in Keys \ {k} : Look(t, o) = Look(s, o)
<1> DEFINE e == [key |-> k, value |-> v]
           t == Append(s, e)
<1>1. s \in Seq(Entry) /\ Len(s) \in Nat /\ DOMAIN s = 1 .. Len(s)
  BY DEF Chains
<1>2. e \in Entry /\ e.key = k /\ e.value = v
  BY DEF Entry
<1> HIDE DEF e
<1>3. /\ t \in Seq(Entry) /\ DOMAIN t = 1 .. Len(s) + 1 /\ t[Len(s) + 1] = e
      /\ \A i \in DOMAIN s : t[i] = s[i]
  BY <1>1, <1>2, AppendProperties
<1> HIDE DEF t
<1>4. \A i \in DOMAIN t : i = Len(s) + 1 \/ i \in DOMAIN s
  BY <1>1, <1>3
<1>5. t \in Chains
  BY <1>2, <1>3, <1>4 DEF Chains, Distinct
<1>6. Look(t, k) = v
  <2>1. Len(s) + 1 \in DOMAIN t
    BY <1>1, <1>3
  <2> QED BY <1>2, <1>3, <1>5, <2>1, Found
<1>7. ASSUME NEW o \in Keys \ {k} PROVE Look(t, o) = Look(s, o)
  <2>1. \A i \in DOMAIN s : i \in DOMAIN t /\ t[i] = s[i]
    BY <1>1, <1>3
  <2>2. \A i \in DOMAIN t : t[i].key = o => i \in DOMAIN s /\ t[i] = s[i]
    BY <1>2, <1>3, <1>4
  <2> QED BY <1>5, <2>1, <2>2, SameEntry
<1> QED BY <1>5, <1>6, <1>7 DEF t, e

(* hashmap_remove: the entries behind the one removed move up. *)
LEMMA RemoveEntry ==
  ASSUME NEW s \in Chains, NEW k \in Keys, NEW n \in DOMAIN s, s[n].key = k
  PROVE  LET t == RemoveAt(s, n)
         IN  /\ t \in Chains /\ Look(t, k) = NULL
             /\ \A o \in Keys \ {k} : Look(t, o) = Look(s, o)
<1> DEFINE t == RemoveAt(s, n)
           before == SubSeq(s, 1, n - 1)
           behind == SubSeq(s, n + 1, Len(s))
<1>1. s \in Seq(Entry) /\ Len(s) \in Nat /\ n \in 1 .. Len(s) /\ DOMAIN s = 1 .. Len(s)
  BY DEF Chains
<1>2. t = before \o behind
  BY DEF RemoveAt
<1>3. /\ before \in Seq(Entry) /\ Len(before) = n - 1
      /\ \A i \in 1 .. n - 1 : before[i] = s[i]
  BY <1>1, SubSeqProperties
<1>4. /\ behind \in Seq(Entry) /\ Len(behind) = Len(s) - n
      /\ \A i \in 1 .. Len(s) - n : behind[i] = s[n + i]
  <2>1. /\ n + 1 \in Int /\ Len(s) \in Int /\ \A i \in n + 1 .. Len(s) : s[i] \in Entry
        /\ Len(s) - (n + 1) + 1 = Len(s) - n
    BY <1>1
  <2>2. /\ behind \in Seq(Entry)
        /\ Len(behind) = IF n + 1 <= Len(s) THEN Len(s) - (n + 1) + 1 ELSE 0
        /\ \A i \in 1 .. Len(s) - (n + 1) + 1 : behind[i] = s[(n + 1) + i - 1]
    BY <2>1, SubSeqProperties
  <2>3. \A i \in 1 .. Len(s) - n : (n + 1) + i - 1 = n + i
    BY <1>1
  <2> HIDE DEF behind
  <2> QED BY <1>1, <2>1, <2>2, <2>3
<1> HIDE DEF t, before, behind
<1>5. /\ t \in Seq(Entry) /\ Len(t) = Len(s) - 1
      /\ \A i \in 1 .. Len(s) - 1 : t[i] = IF i < n THEN s[i] ELSE s[i + 1]
  <2>1. /\ t \in Seq(Entry) /\ Len(t) = Len(before) + Len(behind)
        /\ \A i \in 1 .. Len(before) + Len(behind) :
              t[i] = IF i <= Len(before) THEN before[i] ELSE behind[i - Len(before)]
    BY <1>2, <1>3, <1>4, ConcatProperties, Zenon
  <2>2. Len(before) + Len(behind) = Len(s) - 1
    BY <1>1, <1>3, <1>4
  <2>3. ASSUME NEW i \in 1 .. Len(s) - 1
        PROVE  t[i] = IF i < n THEN s[i] ELSE s[i + 1]
    <3>1. t[i] = IF i <= n - 1 THEN before[i] ELSE behind[i - (n - 1)]
      BY <1>3, <2>1, <2>2
    <3>2. CASE i < n
      BY <1>1, <1>3, <3>1, <3>2
    <3>3. CASE ~(i < n)
      <4>1. i - (n - 1) \in 1 .. Len(s) - n /\ n + (i - (n - 1)) = i + 1
        BY <1>1, <3>3
      <4>2. behind[i - (n - 1)] = s[i + 1]
        BY <1>4, <4>1
      <4>3. t[i] = behind[i - (n - 1)]
        BY <1>1, <3>1, <3>3
      <4> QED BY <3>3, <4>2, <4>3
    <3> QED BY <3>2, <3>3
  <2> QED BY <2>1, <2>2, <2>3
<1>6. DOMAIN t = 1 .. Len(s) - 1
  BY <1>5
<1>7. t \in Chains
  <2>1. ASSUME NEW i \in DOMAIN t, NEW j \in DOMAIN t, t[i].key = t[j].key PROVE i = j
    <3>1. PICK a \in DOMAIN s : a = IF i < n THEN i ELSE i + 1
      BY <1>1, <1>6
    <3>2. PICK b \in DOMAIN s : b = IF j < n THEN j ELSE j + 1
      BY <1>1, <1>6
    <3>3. t[i] = s[a] /\ t[j] = s[b]
      BY <1>5, <1>6, <3>1, <3>2
    <3>4. a = b
      BY <2>1, <3>3 DEF Chains, Distinct
    <3> QED BY <1>1, <1>6, <3>1, <3>2, <3>4
  <2> QED BY <1>5, <2>1 DEF Chains, Distinct
<1>8. Look(t, k) = NULL
  <2>1. ASSUME NEW i \in DOMAIN t PROVE t[i].key # k
    <3>1. PICK a \in DOMAIN s : a = IF i < n THEN i ELSE i + 1
      BY <1>1, <1>6
    <3>2. t[i] = s[a] /\ a # n
      BY <1>1, <1>5, <1>6, <3>1
    <3> QED BY <1>1, <3>2 DEF Chains, Distinct
  <2> QED BY <2>1, Missing
<1>9. ASSUME NEW o \in Keys \ {k} PROVE Look(t, o) = Look(s, o)
  <2>1. ASSUME NEW a \in DOMAIN s, s[a].key = o PROVE \E i \in DOMAIN t : t[i] = s[a]
    <3>1. PICK i \in DOMAIN t : i = IF a < n THEN a ELSE a - 1
      BY <1>1, <1>6, <2>1
    <3>2. t[i] = s[a]
      BY <1>1, <1>5, <1>6, <2>1, <3>1
    <3> QED BY <3>2
  <2>2. ASSUME NEW i \in DOMAIN t PROVE \E a \in DOMAIN s : t[i] = s[a]
    <3>1. PICK a \in DOMAIN s : a = IF i < n THEN i ELSE i + 1
      BY <1>1, <1>6
    <3>2. t[i] = s[a]
      BY <1>5, <1>6, <3>1
    <3> QED BY <3>2
  <2> QED BY <1>7, <2>1, <2>2, SameEntry
<1> QED BY <1>7, <1>8, <1>9 DEF t

(* A step changes the chain of its key, and the answer for its key only. *)
LEMMA OneKey ==
  ASSUME HashMapConstants, IInv, NEW k \in Keys, NEW v, NEW t \in Chains,
         hashmap' = [hashmap EXCEPT ![Hash(k)] = t],
         Look(t, k) = v,
         \A o \in Keys \ {k} : Look(t, o) = Look(hashmap[Hash(k)], o)
  PROVE  IInv' /\ Content' = [Content EXCEPT ![k] = v]
<1>1. \A o \in Keys : Hash(o) \in 0 .. HashSize - 1
  BY DEF HashMapConstants
<1>2. IInv'
  BY <1>1 DEF IInv
<1>3. /\ Content = [o \in Keys |-> Look(hashmap[Hash(o)], o)]
      /\ Content' = [o \in Keys |-> Look(hashmap'[Hash(o)], o)]
  BY DEF Content, hashmap_get, Find, Bucket, Look, FindIn
<1>4. ASSUME NEW o \in Keys
      PROVE  Look(hashmap'[Hash(o)], o) = IF o = k THEN v ELSE Look(hashmap[Hash(o)], o)
  <2>1. hashmap'[Hash(o)] = IF Hash(o) = Hash(k) THEN t ELSE hashmap[Hash(o)]
    BY <1>1 DEF IInv
  <2> QED BY <2>1
<1> QED BY <1>2, <1>3, <1>4

(* The dictionary is a function of the chains. *)
LEMMA SameMap ==
  ASSUME hashmap' = hashmap
  PROVE  Content' = Content
BY DEF Content, hashmap_get, Find, Bucket

(* Every call keeps the chains sound and is a step of a dictionary. *)
LEMMA NextIInv ==
  ASSUME HashMapConstants, IInv, Next
  PROVE  /\ IInv'
         /\ \E k \in Keys, v \in Values \cup {NULL} :
               result' = Content[k] /\ Content' = [Content EXCEPT ![k] = v]
<1>1. PICK k \in Keys : hashmap_remove(k) \/ \E v \in Values : hashmap_set(k, v)
  BY DEF Next
<1> DEFINE s == hashmap[Hash(k)]
<1>2. s \in Chains /\ Hash(k) \in 0 .. HashSize - 1
  BY DEF IInv, HashMapConstants
<1>3. Find(k) = FindIn(s, k) /\ hashmap_get(k) = Look(s, k) /\ Content[k] = Look(s, k)
      /\ hashmap_has(k) = (FindIn(s, k) # 0)
  BY DEF Content, hashmap_get, hashmap_has, Find, Bucket, Look, FindIn
<1>4. /\ FindIn(s, k) = 0 => \A i \in DOMAIN s : s[i].key # k
      /\ FindIn(s, k) # 0 => FindIn(s, k) \in DOMAIN s /\ s[FindIn(s, k)].key = k
  BY <1>2, FindOrNot
<1>5. CASE hashmap_remove(k) /\ FindIn(s, k) # 0
  <2> DEFINE t == RemoveAt(s, FindIn(s, k))
  <2>1. hashmap' = [hashmap EXCEPT ![Hash(k)] = t] /\ result' = Content[k]
    BY <1>3, <1>5 DEF hashmap_remove
  <2>2. /\ t \in Chains /\ Look(t, k) = NULL
        /\ \A o \in Keys \ {k} : Look(t, o) = Look(s, o)
    BY <1>2, <1>4, <1>5, RemoveEntry
  <2> HIDE DEF t
  <2> QED BY <2>1, <2>2, OneKey
<1>6. CASE hashmap_remove(k) /\ FindIn(s, k) = 0
  <2>1. hashmap' = hashmap /\ result' = Content[k] /\ Content[k] = NULL
    BY <1>3, <1>6 DEF hashmap_remove, Look
  <2>2. Content' = [Content EXCEPT ![k] = NULL]
    <3>1. Content' = Content
      BY <2>1, SameMap
    <3>2. Content = [o \in Keys |-> Content[o]]
      BY DEF Content
    <3> QED BY <2>1, <3>1, <3>2
  <2> QED BY <2>1, <2>2 DEF IInv
<1>7. ASSUME NEW v \in Values, hashmap_set(k, v), FindIn(s, k) # 0
      PROVE  /\ result' = Content[k] /\ IInv' /\ Content' = [Content EXCEPT ![k] = v]
  <2> DEFINE t == [s EXCEPT ![FindIn(s, k)].value = v]
  <2>1. hashmap' = [hashmap EXCEPT ![Hash(k)] = t] /\ result' = Content[k]
    BY <1>3, <1>7 DEF hashmap_set
  <2>2. /\ t \in Chains /\ Look(t, k) = v
        /\ \A o \in Keys \ {k} : Look(t, o) = Look(s, o)
    BY <1>2, <1>4, <1>7, ReplaceEntry
  <2> HIDE DEF t
  <2> QED BY <2>1, <2>2, OneKey
<1>8. ASSUME NEW v \in Values, hashmap_set(k, v), FindIn(s, k) = 0
      PROVE  /\ result' = Content[k] /\ IInv' /\ Content' = [Content EXCEPT ![k] = v]
  <2> DEFINE t == Append(s, [key |-> k, value |-> v])
  <2>1. hashmap' = [hashmap EXCEPT ![Hash(k)] = t] /\ result' = Content[k]
    BY <1>3, <1>8 DEF hashmap_set, Look
  <2>2. /\ t \in Chains /\ Look(t, k) = v
        /\ \A o \in Keys \ {k} : Look(t, o) = Look(s, o)
    BY <1>2, <1>4, <1>8, AppendEntry
  <2> HIDE DEF t
  <2> QED BY <2>1, <2>2, OneKey
<1> QED BY <1>1, <1>5, <1>6, <1>7, <1>8

(* hashmap_set and hashmap_remove answer what hashmap_get said of the key, *)
(* change the answer for this key and for no other, in whatever chain the  *)
(* other is.                                                               *)
THEOREM MapIsDictionary ==
  ASSUME HashMapConstants
  PROVE  Spec => Dictionary
<1>1. Init => IInv
  <2>1. <<>> \in Chains
    BY DEF Chains, Distinct
  <2> QED BY <2>1 DEF Init, IInv
<1>2. IInv /\ [Next]_<<hashmap, result>> => IInv'
  BY NextIInv DEF IInv
<1>3. IInv /\ [Next]_<<hashmap, result>> =>
        [\E k \in Keys, v \in Values \cup {NULL} :
            result' = Content[k] /\ Content' = [Content EXCEPT ![k] = v]]_<<hashmap, result>>
  BY NextIInv
<1> QED BY <1>1, <1>2, <1>3, PTL DEF Spec, Dictionary
=============================================================================
