--------------------------- MODULE SequenceLemmas ---------------------------
(***************************************************************************)
(* What the operators on sequences that the modules use return: elements   *)
(* and repetitions of heads, tails, appended, reversed and listed ones.    *)
(***************************************************************************)
EXTENDS Naturals, Sequences, SequencesExt, FiniteSetTheorems, TLAPS

-----------------------------------------------------------------------------
(* Elements.                                                               *)

(* A sequence holds its head and what its tail holds.                      *)
LEMMA RangeHeadTail ==
  ASSUME NEW S, NEW s \in Seq(S), s # <<>>
  PROVE  /\ Head(s) \in S
         /\ Tail(s) \in Seq(S)
         /\ Range(s) = {Head(s)} \cup Range(Tail(s))
  <1>1. Head(s) \in S /\ Tail(s) \in Seq(S)
    OBVIOUS
  <1>2. Len(s) \in Nat \ {0} /\ DOMAIN s = 1..Len(s)
    OBVIOUS
  <1>3. Len(Tail(s)) = Len(s) - 1 /\ \A i \in 1..(Len(s) - 1) : Tail(s)[i] = s[i + 1]
    OBVIOUS
  <1>4. DOMAIN Tail(s) = 1..(Len(s) - 1)
    BY <1>1, <1>3
  <1>5. ASSUME NEW x \in Range(s)
        PROVE  x \in {Head(s)} \cup Range(Tail(s))
    <2>1. PICK i \in 1..Len(s) : s[i] = x
      BY <1>2 DEF Range
    <2>2. CASE i = 1
      BY <2>1, <2>2
    <2>3. CASE i # 1
      <3>1. i - 1 \in 1..(Len(s) - 1) /\ Tail(s)[i - 1] = x
        BY <1>2, <1>3, <2>1, <2>3
      <3> QED BY <1>4, <3>1 DEF Range
    <2> QED BY <2>2, <2>3
  <1>6. ASSUME NEW x \in {Head(s)} \cup Range(Tail(s))
        PROVE  x \in Range(s)
    <2>1. CASE x = Head(s)
      <3>1. 1 \in 1..Len(s) /\ s[1] = x
        BY <1>2, <2>1
      <3> QED BY <1>2, <3>1 DEF Range
    <2>2. CASE x \in Range(Tail(s))
      <3>1. PICK i \in 1..(Len(s) - 1) : Tail(s)[i] = x
        BY <1>4, <2>2 DEF Range
      <3>2. i + 1 \in 1..Len(s) /\ s[i + 1] = x
        BY <1>2, <1>3, <3>1
      <3> QED BY <1>2, <3>2 DEF Range
    <2> QED BY <1>6, <2>1, <2>2
  <1> QED BY <1>1, <1>5, <1>6

(* Appending adds one element.                                             *)
LEMMA RangeAppend ==
  ASSUME NEW S, NEW s \in Seq(S), NEW e \in S
  PROVE  /\ Append(s, e) \in Seq(S)
         /\ Range(Append(s, e)) = Range(s) \cup {e}
  <1>1. /\ Append(s, e) \in Seq(S) /\ Len(Append(s, e)) = Len(s) + 1
        /\ \A i \in 1..Len(s) : Append(s, e)[i] = s[i]
        /\ Append(s, e)[Len(s) + 1] = e /\ Len(s) \in Nat
    OBVIOUS
  <1>2. DOMAIN s = 1..Len(s) /\ DOMAIN Append(s, e) = 1..(Len(s) + 1)
    BY <1>1
  <1>3. ASSUME NEW x \in Range(Append(s, e))
        PROVE  x \in Range(s) \cup {e}
    <2>1. PICK i \in 1..(Len(s) + 1) : Append(s, e)[i] = x
      BY <1>2 DEF Range
    <2> QED BY <1>1, <1>2, <2>1 DEF Range
  <1>4. ASSUME NEW x \in Range(s) \cup {e}
        PROVE  x \in Range(Append(s, e))
    <2>1. \E i \in 1..(Len(s) + 1) : Append(s, e)[i] = x
      <3>1. CASE x = e
        <4>1. Len(s) + 1 \in 1..(Len(s) + 1) BY <1>1
        <4> QED BY <1>1, <3>1, <4>1
      <3>2. CASE x \in Range(s)
        <4>1. PICK i \in 1..Len(s) : s[i] = x
          BY <1>2, <3>2 DEF Range
        <4>2. i \in 1..(Len(s) + 1) BY <1>1
        <4> QED BY <1>1, <4>1, <4>2
      <3> QED BY <1>4, <3>1, <3>2
    <2> QED BY <1>2, <2>1 DEF Range
  <1> QED BY <1>1, <1>3, <1>4

(* A concatenation holds what its parts hold.                              *)
LEMMA RangeConcat ==
  ASSUME NEW S, NEW s \in Seq(S), NEW t \in Seq(S)
  PROVE  s \o t \in Seq(S) /\ Range(s \o t) = Range(s) \cup Range(t)
  <1>1. /\ s \o t \in Seq(S) /\ Len(s \o t) = Len(s) + Len(t) /\ Len(s) \in Nat /\ Len(t) \in Nat
        /\ \A i \in 1..Len(s) : (s \o t)[i] = s[i]
        /\ \A i \in 1..Len(t) : (s \o t)[Len(s) + i] = t[i]
    OBVIOUS
  <1>2. /\ DOMAIN s = 1..Len(s) /\ DOMAIN t = 1..Len(t) /\ DOMAIN (s \o t) = 1..(Len(s) + Len(t))
    BY <1>1
  <1>3. ASSUME NEW x \in Range(s \o t)
        PROVE  x \in Range(s) \cup Range(t)
    <2>1. PICK i \in 1..(Len(s) + Len(t)) : (s \o t)[i] = x
      BY <1>2, <1>3 DEF Range
    <2>2. CASE i <= Len(s)
      <3>1. i \in 1..Len(s)
        BY <1>1, <2>2
      <3> QED BY <1>1, <1>2, <2>1, <3>1 DEF Range
    <2>3. CASE ~(i <= Len(s))
      <3>1. i - Len(s) \in 1..Len(t) /\ Len(s) + (i - Len(s)) = i
        BY <1>1, <2>3
      <3>2. t[i - Len(s)] = x
        BY <1>1, <2>1, <3>1
      <3> QED BY <1>2, <3>1, <3>2 DEF Range
    <2> QED BY <2>2, <2>3
  <1>4. ASSUME NEW x \in Range(s) \cup Range(t)
        PROVE  x \in Range(s \o t)
    <2>1. CASE x \in Range(s)
      <3>1. PICK i \in 1..Len(s) : s[i] = x
        BY <1>2, <2>1 DEF Range
      <3>2. i \in 1..(Len(s) + Len(t)) /\ (s \o t)[i] = x
        BY <1>1, <3>1
      <3> QED BY <1>2, <3>2 DEF Range
    <2>2. CASE x \in Range(t)
      <3>1. PICK i \in 1..Len(t) : t[i] = x
        BY <1>2, <2>2 DEF Range
      <3>2. Len(s) + i \in 1..(Len(s) + Len(t)) /\ (s \o t)[Len(s) + i] = x
        BY <1>1, <3>1
      <3> QED BY <1>2, <3>2 DEF Range
    <2> QED BY <1>4, <2>1, <2>2
  <1> QED BY <1>1, <1>3, <1>4
(* The empty sequence holds nothing.                                       *)
LEMMA RangeEmpty == Range(<<>>) = {}
  BY DEF Range

-----------------------------------------------------------------------------
(* Repetitions.                                                            *)

(* A sequence without repetitions does not repeat its head.                *)
LEMMA InjectiveTail ==
  ASSUME NEW S, NEW s \in Seq(S), s # <<>>, IsInjective(s)
  PROVE  IsInjective(Tail(s)) /\ Head(s) \notin Range(Tail(s))
  <1>1. Len(s) \in Nat \ {0} /\ DOMAIN s = 1..Len(s) /\ Tail(s) \in Seq(S) /\ Head(s) = s[1]
    OBVIOUS
  <1>2. Len(Tail(s)) = Len(s) - 1 /\ \A i \in 1..(Len(s) - 1) : Tail(s)[i] = s[i + 1]
    OBVIOUS
  <1>3. DOMAIN Tail(s) = 1..(Len(s) - 1)
    BY <1>1, <1>2
  <1>4. ASSUME NEW i \in 1..(Len(s) - 1), NEW j \in 1..(Len(s) - 1), Tail(s)[i] = Tail(s)[j]
        PROVE  i = j
    <2>1. i + 1 \in 1..Len(s) /\ j + 1 \in 1..Len(s) /\ s[i + 1] = s[j + 1]
      BY <1>1, <1>2, <1>4
    <2>2. i + 1 = j + 1
      BY <1>1, <2>1 DEF IsInjective
    <2> QED BY <2>2
  <1>5. ASSUME NEW i \in 1..(Len(s) - 1), Tail(s)[i] = Head(s)
        PROVE  FALSE
    <2>1. i + 1 \in 1..Len(s) /\ 1 \in 1..Len(s) /\ s[i + 1] = s[1]
      BY <1>1, <1>2, <1>5
    <2>2. i + 1 = 1
      BY <1>1, <2>1 DEF IsInjective
    <2> QED BY <2>2
  <1>6. IsInjective(Tail(s))
    BY <1>3, <1>4 DEF IsInjective
  <1> QED BY <1>3, <1>5, <1>6 DEF Range

(* Appending something new makes no repetition.                            *)
LEMMA InjectiveAppend ==
  ASSUME NEW S, NEW s \in Seq(S), NEW e \in S, IsInjective(s), e \notin Range(s)
  PROVE  IsInjective(Append(s, e))
  <1>1. /\ Len(Append(s, e)) = Len(s) + 1 /\ Len(s) \in Nat
        /\ \A i \in 1..Len(s) : Append(s, e)[i] = s[i]
        /\ Append(s, e)[Len(s) + 1] = e
    OBVIOUS
  <1>2. DOMAIN s = 1..Len(s) /\ DOMAIN Append(s, e) = 1..(Len(s) + 1)
    BY <1>1
  <1>3. \A i \in 1..Len(s) : s[i] # e
    BY <1>2 DEF Range
  <1>4. ASSUME NEW i \in 1..(Len(s) + 1), NEW j \in 1..(Len(s) + 1), Append(s, e)[i] = Append(s, e)[j]
        PROVE  i = j
    <2>1. CASE i \in 1..Len(s) /\ j \in 1..Len(s)
      BY <1>1, <1>2, <1>4, <2>1 DEF IsInjective
    <2>2. CASE ~(i \in 1..Len(s) /\ j \in 1..Len(s))
      BY <1>1, <1>3, <1>4, <2>2
    <2> QED BY <2>1, <2>2
  <1> QED BY <1>2, <1>4 DEF IsInjective

(* The empty sequence repeats nothing.                                     *)
LEMMA InjectiveEmpty == IsInjective(<<>>)
  BY DEF IsInjective

(* Reversing keeps the elements.                                           *)
LEMMA RangeReverse ==
  ASSUME NEW S, NEW s \in Seq(S)
  PROVE  Reverse(s) \in Seq(S) /\ Range(Reverse(s)) = Range(s)
  <1>1. Len(s) \in Nat /\ DOMAIN s = 1..Len(s)
    OBVIOUS
  <1>2. \A i \in 1..Len(s) : (Len(s) - i) + 1 \in 1..Len(s)
    BY <1>1
  <1>3. /\ DOMAIN Reverse(s) = 1..Len(s)
        /\ \A i \in 1..Len(s) : Reverse(s)[i] = s[(Len(s) - i) + 1]
    BY DEF Reverse
  <1>4. Reverse(s) \in [1..Len(s) -> S]
    <2>1. \A i \in 1..Len(s) : s[(Len(s) - i) + 1] \in S
      BY <1>2
    <2> QED BY <2>1 DEF Reverse
  <1>5. Range(Reverse(s)) \subseteq Range(s)
    BY <1>1, <1>2, <1>3 DEF Range
  <1>6. ASSUME NEW x \in Range(s)
        PROVE  x \in Range(Reverse(s))
    <2>1. PICK i \in 1..Len(s) : s[i] = x
      BY <1>1 DEF Range
    <2>2. (Len(s) - i) + 1 \in 1..Len(s) /\ (Len(s) - ((Len(s) - i) + 1)) + 1 = i
      BY <1>1
    <2>3. Reverse(s)[(Len(s) - i) + 1] = x
      BY <1>3, <2>1, <2>2
    <2> QED BY <1>3, <2>2, <2>3 DEF Range
  <1> QED BY <1>1, <1>4, <1>5, <1>6

(* A listing of a finite set that has as many places as the set has        *)
(* elements, and misses none, repeats none.                                *)
LEMMA ListedOnce ==
  ASSUME NEW S, IsFiniteSet(S), NEW s \in [1..Cardinality(S) -> S], Range(s) = S
  PROVE  s \in Seq(S) /\ IsInjective(s)
  <1>1. Cardinality(S) \in Nat
    BY FS_CardinalityType
  <1>2. IsFiniteSet(1..Cardinality(S)) /\ Cardinality(1..Cardinality(S)) = Cardinality(S)
    BY <1>1, FS_Interval
  <1>3. s \in Surjection(1..Cardinality(S), S)
    BY DEF Range, Surjection
  <1>4. s \in Injection(1..Cardinality(S), S)
    BY <1>2, <1>3, FS_SurjSameCardinalityImpliesInj
  <1> QED BY <1>1, <1>4 DEF Injection

-----------------------------------------------------------------------------
(* Prefixes.                                                               *)

(* A prefix is no longer, and agrees as far as it goes.                    *)
LEMMA PrefixElements ==
  ASSUME NEW S, NEW s \in Seq(S), NEW t \in Seq(S)
  PROVE  IsPrefix(s, t) <=> Len(s) <= Len(t) /\ \A i \in 1..Len(s) : s[i] = t[i]
  <1>1. Len(s) \in Nat /\ Len(t) \in Nat
    OBVIOUS
  <1>2. /\ SubSeq(s, 1, Len(s)) \in Seq(S) /\ Len(SubSeq(s, 1, Len(s))) = Len(s)
        /\ \A i \in 1..Len(s) : SubSeq(s, 1, Len(s))[i] = s[i]
    BY <1>1
  <1>3. ASSUME Len(s) <= Len(t)
        PROVE  /\ SubSeq(t, 1, Len(s)) \in Seq(S) /\ Len(SubSeq(t, 1, Len(s))) = Len(s)
               /\ \A i \in 1..Len(s) : SubSeq(t, 1, Len(s))[i] = t[i]
    BY <1>1, <1>3
  <1>4. ASSUME IsPrefix(s, t)
        PROVE  Len(s) <= Len(t) /\ \A i \in 1..Len(s) : s[i] = t[i]
    <2>1. Len(s) <= Len(t) /\ SubSeq(s, 1, Len(s)) = SubSeq(t, 1, Len(s))
      BY <1>4 DEF IsPrefix
    <2> QED BY <1>2, <1>3, <2>1
  <1>5. ASSUME Len(s) <= Len(t), \A i \in 1..Len(s) : s[i] = t[i]
        PROVE  IsPrefix(s, t)
    <2>1. \A i \in 1..Len(s) : SubSeq(s, 1, Len(s))[i] = SubSeq(t, 1, Len(s))[i]
      BY <1>2, <1>3, <1>5
    <2>2. SubSeq(s, 1, Len(s)) = SubSeq(t, 1, Len(s))
      BY <1>2, <1>3, <1>5, <2>1
    <2> QED BY <1>5, <2>2 DEF IsPrefix
  <1> QED BY <1>4, <1>5

(* Of the prefixes of a concatenation, each is one of its first part or    *)
(* has that for a prefix.                                                  *)
LEMMA PrefixOfConcat ==
  ASSUME NEW S, NEW r \in Seq(S), NEW s \in Seq(S), NEW k \in Seq(S), IsPrefix(r, s \o k)
  PROVE  IsPrefix(r, s) \/ IsPrefix(s, r)
  <1>1. /\ s \o k \in Seq(S) /\ Len(s) \in Nat /\ Len(k) \in Nat /\ Len(r) \in Nat
        /\ \A i \in 1..Len(s) : (s \o k)[i] = s[i]
    OBVIOUS
  <1>2. \A i \in 1..Len(r) : r[i] = (s \o k)[i]
    <2>1. PICK t \in Seq(S) : t = s \o k
      BY <1>1
    <2>2. IsPrefix(r, t)
      BY <2>1
    <2>3. \A i \in 1..Len(r) : r[i] = t[i]
      BY <2>2, PrefixElements
    <2> QED BY <2>1, <2>3
  <1>3. CASE Len(r) <= Len(s)
    <2>1. \A i \in 1..Len(r) : r[i] = s[i]
      BY <1>1, <1>2, <1>3
    <2> QED BY <1>3, <2>1, PrefixElements
  <1>4. CASE Len(s) <= Len(r)
    <2>1. \A i \in 1..Len(s) : s[i] = r[i]
      BY <1>1, <1>2, <1>4
    <2> QED BY <1>4, <2>1, PrefixElements
  <1> QED BY <1>1, <1>3, <1>4

(* The first part of a concatenation is a prefix of it, and a strict one   *)
(* unless the second is empty.                                             *)
LEMMA PrefixConcat ==
  ASSUME NEW S, NEW s \in Seq(S), NEW k \in Seq(S)
  PROVE  IsPrefix(s, s \o k) /\ (k # <<>> => IsStrictPrefix(s, s \o k))
  <1>1. /\ s \o k \in Seq(S) /\ Len(s) \in Nat /\ Len(k) \in Nat /\ Len(s \o k) = Len(s) + Len(k)
        /\ \A i \in 1..Len(s) : (s \o k)[i] = s[i]
    OBVIOUS
  <1>2. Len(s) <= Len(s \o k) /\ \A i \in 1..Len(s) : s[i] = (s \o k)[i]
    BY <1>1
  <1>3. IsPrefix(s, s \o k)
    BY <1>1, <1>2, PrefixElements
  <1>4. ASSUME k # <<>>
        PROVE  s # s \o k
    <2>1. Len(k) # 0
      BY <1>4
    <2> QED BY <1>1, <2>1
  <1> QED BY <1>3, <1>4 DEF IsStrictPrefix

(* The second parts of equal concatenations with equal first parts are     *)
(* equal.                                                                  *)
LEMMA ConcatCancel ==
  ASSUME NEW S, NEW r \in Seq(S), NEW k \in Seq(S), NEW l \in Seq(S), r \o k = r \o l
  PROVE  k = l
  <1>1. /\ Len(r) \in Nat /\ Len(k) \in Nat /\ Len(l) \in Nat
        /\ Len(r \o k) = Len(r) + Len(k) /\ Len(r \o l) = Len(r) + Len(l)
    OBVIOUS
  <1>2. Len(k) = Len(l)
    BY <1>1
  <1>3. ASSUME NEW i \in 1..Len(k)
        PROVE  k[i] = l[i]
    <2>1. (r \o k)[Len(r) + i] = k[i] /\ (r \o l)[Len(r) + i] = l[i]
      BY <1>1, <1>2
    <2> QED BY <2>1
  <1> QED BY <1>1, <1>2, <1>3

(* Appending, and adding to something, leaves something.                   *)
LEMMA NotEmpty ==
  ASSUME NEW S, NEW s \in Seq(S), NEW e \in S, NEW t \in Seq(S)
  PROVE  Append(s, e) # <<>> /\ (s # <<>> => s \o t # <<>>)
  <1>1. Len(Append(s, e)) = Len(s) + 1 /\ Len(s \o t) = Len(s) + Len(t)
    OBVIOUS
  <1>2. Len(s) \in Nat /\ Len(t) \in Nat /\ (s # <<>> => Len(s) # 0) /\ Len(<<>>) = 0
    OBVIOUS
  <1>3. Len(Append(s, e)) # 0 /\ (s # <<>> => Len(s \o t) # 0)
    BY <1>1, <1>2
  <1> QED BY <1>2, <1>3

(* What begins with a sequence and an element begins with the sequence.    *)
LEMMA PrefixOfAppend ==
  ASSUME NEW S, NEW s \in Seq(S), NEW e \in S, NEW t \in Seq(S), IsPrefix(Append(s, e), t)
  PROVE  IsPrefix(s, t)
  <1>1. /\ Append(s, e) \in Seq(S) /\ Len(Append(s, e)) = Len(s) + 1
        /\ \A i \in 1..Len(s) : Append(s, e)[i] = s[i]
        /\ Len(s) \in Nat /\ Len(t) \in Nat
    OBVIOUS
  <1>2. PICK u \in Seq(S) : u = Append(s, e)
    BY <1>1
  <1>3. IsPrefix(u, t)
    BY <1>2
  <1>5. Len(u) <= Len(t) /\ \A i \in 1..Len(u) : u[i] = t[i]
    BY <1>3, PrefixElements
  <1>4. Len(s) <= Len(t) /\ \A i \in 1..Len(s) : s[i] = t[i]
    BY <1>1, <1>2, <1>5
  <1> QED BY <1>4, PrefixElements

(* Of two prefixes of a sequence, one is a prefix of the other.            *)
LEMMA PrefixesOfOne ==
  ASSUME NEW S, NEW r \in Seq(S), NEW s \in Seq(S), NEW t \in Seq(S), IsPrefix(r, t), IsPrefix(s, t)
  PROVE  IsPrefix(r, s) \/ IsPrefix(s, r)
  <1>1. Len(r) \in Nat /\ Len(s) \in Nat
    OBVIOUS
  <1>2. /\ \A i \in 1..Len(r) : r[i] = t[i]
        /\ \A i \in 1..Len(s) : s[i] = t[i]
    BY PrefixElements
  <1>3. CASE Len(r) <= Len(s)
    <2>1. \A i \in 1..Len(r) : r[i] = s[i]
      BY <1>1, <1>2, <1>3
    <2> QED BY <1>3, <2>1, PrefixElements
  <1>4. CASE Len(s) <= Len(r)
    <2>1. \A i \in 1..Len(s) : s[i] = r[i]
      BY <1>1, <1>2, <1>4
    <2> QED BY <1>4, <2>1, PrefixElements
  <1> QED BY <1>1, <1>3, <1>4
=============================================================================
