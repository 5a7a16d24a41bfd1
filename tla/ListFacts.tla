----------------------------- MODULE ListFacts -----------------------------
(***************************************************************************)
(* What adding to a list and taking from it does to its entries: the lemmas *)
(* that the proofs about the frame lists and the mailbox lists rest on.     *)
(***************************************************************************)
EXTENDS Integers, SequencesExt, TLAPS

Once(q, e) == \A i, j \in DOMAIN q : q[i] = e /\ q[j] = e => i = j

LEMMA RemoveAtFacts ==
  ASSUME NEW S, NEW s \in Seq(S), NEW i \in DOMAIN s
  PROVE  /\ RemoveAt(s, i) \in Seq(S)
         /\ Len(RemoveAt(s, i)) = Len(s) - 1
         /\ \A k \in 1..(Len(s) - 1) :
              RemoveAt(s, i)[k] = IF k < i THEN s[k] ELSE s[k + 1]
<1> DEFINE a == SubSeq(s, 1, i - 1)
           b == SubSeq(s, i + 1, Len(s))
<1>1. i \in 1..Len(s) /\ Len(s) \in Nat
  OBVIOUS
<1>2. a \in Seq(S) /\ Len(a) = i - 1 /\ \A k \in 1..(i - 1) : a[k] = s[k]
  BY <1>1
<1>3. b \in Seq(S) /\ Len(b) = Len(s) - i
      /\ \A k \in 1..(Len(s) - i) : b[k] = s[i + k]
  BY <1>1
<1>4. RemoveAt(s, i) = a \o b
  BY DEF RemoveAt
<1>. HIDE DEF a, b
<1>5. a \o b \in Seq(S) /\ Len(a \o b) = Len(s) - 1
  BY <1>1, <1>2, <1>3
<1>6. ASSUME NEW k \in 1..(Len(s) - 1)
      PROVE  (a \o b)[k] = IF k < i THEN s[k] ELSE s[k + 1]
  <2>1. CASE k < i
    BY <2>1, <1>1, <1>2, <1>3
  <2>2. CASE ~(k < i)
    <3>1. (a \o b)[k] = b[k - (i - 1)]
      BY <2>2, <1>1, <1>2, <1>3, SMTT(30)
    <3>2. k - (i - 1) \in 1..(Len(s) - i)
      BY <2>2, <1>1
    <3>3. i + (k - (i - 1)) = k + 1
      BY <1>1
    <3>4. QED
      BY <2>2, <3>1, <3>2, <3>3, <1>3
  <2>3. QED
    BY <2>1, <2>2
<1>7. QED
  BY <1>4, <1>5, <1>6

LEMMA AppendFacts ==
  ASSUME NEW S, NEW s \in Seq(S), NEW e \in S
  PROVE  /\ Append(s, e) \in Seq(S)
         /\ ToSet(Append(s, e)) = ToSet(s) \cup {e}
         /\ \A d : d # e /\ Once(s, d) => Once(Append(s, e), d)
         /\ e \notin ToSet(s) => Once(Append(s, e), e)
<1>1. /\ Append(s, e) \in Seq(S) /\ Len(s) \in Nat
      /\ DOMAIN s = 1..Len(s) /\ DOMAIN Append(s, e) = 1..(Len(s) + 1)
      /\ \A k \in 1..Len(s) : Append(s, e)[k] = s[k]
      /\ Append(s, e)[Len(s) + 1] = e
  OBVIOUS
<1>2. ToSet(Append(s, e)) = ToSet(s) \cup {e}
  BY <1>1 DEF ToSet
<1>3. \A d : d # e /\ Once(s, d) => Once(Append(s, e), d)
  BY <1>1 DEF Once
<1>4. e \notin ToSet(s) => Once(Append(s, e), e)
  BY <1>1 DEF Once, ToSet
<1>5. QED
  BY <1>1, <1>2, <1>3, <1>4

LEMMA TailFacts ==
  ASSUME NEW S, NEW s \in Seq(S), s # <<>>
  PROVE  /\ Tail(s) \in Seq(S) /\ Head(s) \in S
         /\ ToSet(s) = ToSet(Tail(s)) \cup {Head(s)}
         /\ \A d : Once(s, d) => Once(Tail(s), d)
         /\ Once(s, Head(s)) => Head(s) \notin ToSet(Tail(s))
<1>1. /\ Tail(s) \in Seq(S) /\ Len(s) \in Nat \ {0} /\ Head(s) = s[1]
      /\ DOMAIN s = 1..Len(s) /\ DOMAIN Tail(s) = 1..(Len(s) - 1)
      /\ \A k \in 1..(Len(s) - 1) : Tail(s)[k] = s[k + 1]
  OBVIOUS
<1>2. ToSet(Tail(s)) \cup {Head(s)} \subseteq ToSet(s)
  BY <1>1 DEF ToSet
<1>3. ASSUME NEW k \in DOMAIN s PROVE s[k] \in ToSet(Tail(s)) \cup {Head(s)}
  <2>1. CASE k = 1
    BY <1>1, <2>1
  <2>2. CASE k # 1
    <3>1. k - 1 \in DOMAIN Tail(s) /\ (k - 1) + 1 = k
      BY <1>1, <2>2
    <3>2. Tail(s)[k - 1] = s[k]
      BY <1>1, <3>1
    <3>3. QED
      BY <3>1, <3>2 DEF ToSet
  <2>3. QED
    BY <2>1, <2>2
<1>4. ToSet(s) = ToSet(Tail(s)) \cup {Head(s)}
  BY <1>2, <1>3 DEF ToSet
<1>5. ASSUME NEW d, Once(s, d) PROVE Once(Tail(s), d)
  <2>1. ASSUME NEW i \in DOMAIN Tail(s), NEW j \in DOMAIN Tail(s),
               Tail(s)[i] = d, Tail(s)[j] = d
        PROVE  i = j
    <3>1. /\ i + 1 \in DOMAIN s /\ j + 1 \in DOMAIN s
          /\ s[i + 1] = d /\ s[j + 1] = d
      BY <1>1, <2>1
    <3>2. i + 1 = j + 1
      BY <1>5, <3>1 DEF Once
    <3>3. QED
      BY <1>1, <3>2
  <2>2. QED
    BY <2>1 DEF Once
<1>6. ASSUME Once(s, Head(s)), Head(s) \in ToSet(Tail(s)) PROVE FALSE
  <2>1. PICK k \in DOMAIN Tail(s) : Tail(s)[k] = s[1]
    BY <1>1, <1>6 DEF ToSet
  <2>2. k + 1 \in DOMAIN s /\ 1 \in DOMAIN s /\ s[k + 1] = s[1] /\ k + 1 # 1
    BY <1>1, <2>1
  <2>3. QED
    BY <1>1, <1>6, <2>2 DEF Once
<1>7. QED
  BY <1>1, <1>4, <1>5, <1>6

LEMMA RemoveFirstFacts ==
  ASSUME NEW S, NEW s \in Seq(S), NEW e, Once(s, e)
  PROVE  /\ RemoveFirst(s, e) \in Seq(S)
         /\ ToSet(RemoveFirst(s, e)) = ToSet(s) \ {e}
         /\ \A d : Once(s, d) => Once(RemoveFirst(s, e), d)
<1>0. DOMAIN s = 1..Len(s) /\ Len(s) \in Nat
  OBVIOUS
<1>1. CASE e \notin ToSet(s)
  <2>1. RemoveFirst(s, e) = s
    BY <1>0, <1>1 DEF RemoveFirst, ToSet
  <2>2. QED
    BY <1>1, <2>1
<1>2. CASE e \in ToSet(s)
  <2>1. PICK i \in 1..Len(s) : s[i] = e
    BY <1>0, <1>2 DEF ToSet
  <2>2. {j \in 1..Len(s) : s[j] = e} = {i}
    BY <1>0, <2>1 DEF Once
  <2>3. SelectInSeq(s, LAMBDA v : v = e) = i
    BY <2>1, <2>2 DEF SelectInSeq, Min
  <2>4. RemoveFirst(s, e) = RemoveAt(s, i)
    BY <2>1, <2>3 DEF RemoveFirst
  <2> DEFINE r == RemoveAt(s, i)
             at(x) == IF x < i THEN x ELSE x + 1
  <2>5. /\ r \in Seq(S) /\ DOMAIN r = 1..(Len(s) - 1)
        /\ \A k \in 1..(Len(s) - 1) : r[k] = s[at(k)]
    BY <1>0, <2>1, RemoveAtFacts
  <2> HIDE DEF r
  <2>6. \A k \in DOMAIN r : at(k) \in DOMAIN s /\ at(k) # i
    BY <1>0, <2>5
  <2>7. ToSet(r) \subseteq ToSet(s) \ {e}
    BY <2>1, <2>5, <2>6 DEF ToSet, Once
  <2>8. ASSUME NEW k \in DOMAIN s, s[k] # e PROVE s[k] \in ToSet(r)
    <3>1. CASE k < i
      <4>1. k \in DOMAIN r /\ r[k] = s[k]
        BY <1>0, <2>5, <3>1
      <4>2. QED
        BY <4>1 DEF ToSet
    <3>2. CASE ~(k < i)
      <4>1. k - 1 \in DOMAIN r /\ at(k - 1) = k
        BY <1>0, <2>1, <2>5, <2>8, <3>2
      <4>2. r[k - 1] = s[k]
        BY <2>5, <4>1
      <4>3. QED
        BY <4>1, <4>2 DEF ToSet
    <3>3. QED
      BY <3>1, <3>2
  <2>9. ASSUME NEW d, Once(s, d) PROVE Once(r, d)
    <3>1. ASSUME NEW k \in DOMAIN r, NEW l \in DOMAIN r, r[k] = d, r[l] = d
          PROVE  k = l
      <4>1. at(k) = at(l)
        BY <2>5, <2>6, <2>9, <3>1 DEF Once
      <4>2. QED
        BY <2>5, <4>1
    <3>2. QED
      BY <3>1 DEF Once
  <2>10. ToSet(s) \ {e} \subseteq ToSet(r)
    BY <2>8 DEF ToSet
  <2>11. r = RemoveFirst(s, e)
    BY <2>4 DEF r
  <2>12. QED
    BY <2>5, <2>7, <2>9, <2>10, <2>11
<1>3. QED
  BY <1>1, <1>2
=============================================================================
