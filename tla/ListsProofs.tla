----------------------------- MODULE ListsProofs -----------------------------
(***************************************************************************)
(* What the list operations of Lists do to a list's elements.              *)
(***************************************************************************)
EXTENDS Lists, SequenceTheorems, TLAPS

(* The cut Unlink makes. *)
LEMMA RemoveAtDef ==
    ASSUME NEW S, NEW list \in Seq(S), NEW k \in 1..Len(list)
    PROVE  /\ RemoveAt(list, k) \in Seq(S)
           /\ Len(RemoveAt(list, k)) = Len(list) - 1
           /\ \A i \in 1..(Len(list) - 1) :
                 RemoveAt(list, k)[i] = IF i < k THEN list[i] ELSE list[i + 1]
<1> DEFINE front == SubSeq(list, 1, k - 1)
           back == SubSeq(list, k + 1, Len(list))
<1>1. /\ front \in Seq(S) /\ Len(front) = k - 1
      /\ \A i \in 1..(k - 1) : front[i] = list[i]
  BY SubSeqProperties
<1>2. /\ back \in Seq(S) /\ Len(back) = Len(list) - k
      /\ \A i \in 1..(Len(list) - k) : back[i] = list[k + i]
  <2>1. \A i \in (k + 1)..Len(list) : list[i] \in S
    BY ElementOfSeq
  <2> QED
    BY <2>1
<1>3. RemoveAt(list, k) = front \o back
  BY DEF RemoveAt
<1> HIDE DEF front, back
<1>4. /\ RemoveAt(list, k) \in Seq(S)
      /\ Len(RemoveAt(list, k)) = Len(front) + Len(back)
      /\ \A i \in 1..(Len(front) + Len(back)) : RemoveAt(list, k)[i] =
              IF i <= Len(front) THEN front[i] ELSE back[i - Len(front)]
  <2>1. front \in Seq(S) /\ back \in Seq(S)
    BY <1>1, <1>2
  <2> QED
    BY <1>3, <2>1, ConcatProperties
<1>5. Len(front) + Len(back) = Len(list) - 1
  BY <1>1, <1>2, LenProperties
<1>6. ASSUME NEW i \in 1..(Len(list) - 1)
      PROVE  RemoveAt(list, k)[i] = IF i < k THEN list[i] ELSE list[i + 1]
  <2>1. CASE i < k
    BY <1>1, <1>4, <1>5, <2>1
  <2>2. CASE i >= k
    <3>1. RemoveAt(list, k)[i] = back[i - (k - 1)]
      BY <1>1, <1>4, <1>5, <2>2
    <3>2. back[i - (k - 1)] = list[k + (i - (k - 1))]
      BY <1>2, <2>2
    <3> QED
      BY <3>1, <3>2, <2>2
  <2> QED
    BY <2>1, <2>2
<1> QED
  BY <1>4, <1>5, <1>6

LEMMA UnlinkDef ==
    ASSUME NEW S, NEW list \in Seq(S), NEW x \in Range(list)
    PROVE  \E k \in 1..Len(list) :
              list[k] = x /\ Unlink(list, x) = RemoveAt(list, k)
<1> DEFINE k == CHOOSE i \in DOMAIN list : list[i] = x
<1>1. k \in 1..Len(list) /\ list[k] = x
  BY LenProperties DEF Range
<1>2. Unlink(list, x) = RemoveAt(list, k)
  BY DEF Unlink
<1> HIDE DEF k
<1> QED
  BY <1>1, <1>2

(* Unlink leaves a list of the same elements but for the one it removes,   *)
(* in which nothing is linked twice if nothing was.                        *)
LEMMA UnlinkSeq ==
    ASSUME NEW S, NEW list \in Seq(S), NEW x
    PROVE  Unlink(list, x) \in Seq(S)
<1>1. CASE x \in Range(list)
  BY <1>1, UnlinkDef, RemoveAtDef
<1>2. CASE x \notin Range(list)
  BY <1>2 DEF Unlink
<1> QED
  BY <1>1, <1>2

LEMMA UnlinkRange ==
    ASSUME NEW S, NEW list \in Seq(S), NEW x
    PROVE  /\ Range(Unlink(list, x)) \subseteq Range(list)
           /\ Range(list) \subseteq Range(Unlink(list, x)) \cup {x}
<1>1. CASE x \in Range(list)
  <2>1. PICK k \in 1..Len(list) : list[k] = x /\ Unlink(list, x) = RemoveAt(list, k)
    BY <1>1, UnlinkDef
  <2>2. /\ Unlink(list, x) \in Seq(S)
        /\ Len(Unlink(list, x)) = Len(list) - 1
        /\ \A i \in 1..(Len(list) - 1) :
              Unlink(list, x)[i] = IF i < k THEN list[i] ELSE list[i + 1]
    BY <2>1, RemoveAtDef
  <2>3. Range(Unlink(list, x)) \subseteq Range(list)
    <3>1. Range(Unlink(list, x)) = {Unlink(list, x)[i] : i \in 1..(Len(list) - 1)}
      BY <2>2, RangeEquality
    <3>2. \A i \in 1..(Len(list) - 1) : Unlink(list, x)[i] \in Range(list)
      <4>1. Range(list) = {list[i] : i \in 1..Len(list)} /\ Len(list) \in Nat
        BY RangeEquality, LenProperties
      <4> QED
        BY <2>2, <4>1
    <3> QED
      BY <3>1, <3>2
  <2>4. ASSUME NEW y \in Range(list), y # x
        PROVE  y \in Range(Unlink(list, x))
    <3>1. PICK j \in 1..Len(list) : list[j] = y
      BY RangeEquality
    <3>2. j # k
      BY <2>1, <2>4, <3>1
    <3>3. CASE j < k
      BY <2>2, <3>1, <3>3, LenProperties, RangeEquality
    <3>4. CASE j > k
      <4>1. Unlink(list, x)[j - 1] = y
        BY <2>2, <3>1, <3>4, LenProperties
      <4> QED
        BY <2>2, <3>4, <4>1, LenProperties, RangeEquality
    <3> QED
      BY <3>2, <3>3, <3>4
  <2> QED
    BY <2>3, <2>4
<1>2. CASE x \notin Range(list)
  BY <1>2 DEF Unlink
<1> QED
  BY <1>1, <1>2

LEMMA UnlinkNoDuplicates ==
    ASSUME NEW S, NEW list \in Seq(S), NEW x, NoDuplicates(list)
    PROVE  /\ NoDuplicates(Unlink(list, x))
           /\ x \notin Range(Unlink(list, x))
<1>1. CASE x \in Range(list)
  <2>1. PICK k \in 1..Len(list) : list[k] = x /\ Unlink(list, x) = RemoveAt(list, k)
    BY <1>1, UnlinkDef
  <2>2. /\ Unlink(list, x) \in Seq(S)
        /\ Len(Unlink(list, x)) = Len(list) - 1
        /\ \A i \in 1..(Len(list) - 1) :
              Unlink(list, x)[i] = IF i < k THEN list[i] ELSE list[i + 1]
    BY <2>1, RemoveAtDef
  <2>3. \A i, j \in 1..Len(list) : list[i] = list[j] => i = j
    BY LenProperties DEF NoDuplicates, IsInjective
  <2>4. DOMAIN Unlink(list, x) = 1..(Len(list) - 1) /\ Len(list) \in Nat
    BY <2>2, LenProperties
  <2>5. NoDuplicates(Unlink(list, x))
    BY <2>2, <2>3, <2>4 DEF NoDuplicates, IsInjective
  <2>6. x \notin Range(Unlink(list, x))
    BY <2>1, <2>2, <2>3, <2>4 DEF Range
  <2> QED
    BY <2>5, <2>6
<1>2. CASE x \notin Range(list)
  BY <1>2 DEF Unlink
<1> QED
  BY <1>1, <1>2

(* Append and AppendNew add one element. *)
LEMMA AppendRange ==
    ASSUME NEW S, NEW list \in Seq(S), NEW x \in S
    PROVE  /\ Range(Append(list, x)) = Range(list) \cup {x}
           /\ NoDuplicates(list) /\ x \notin Range(list)
                => NoDuplicates(Append(list, x))
<1>1. /\ Append(list, x) \in Seq(S)
      /\ Len(Append(list, x)) = Len(list) + 1
      /\ \A i \in 1..Len(list) : Append(list, x)[i] = list[i]
      /\ Append(list, x)[Len(list) + 1] = x
      /\ Len(list) \in Nat
  BY AppendProperties, LenProperties
<1>2. Range(Append(list, x)) = Range(list) \cup {x}
  <2>1. Range(Append(list, x)) = {Append(list, x)[i] : i \in 1..(Len(list) + 1)}
    BY <1>1, RangeEquality
  <2>2. Range(list) = {list[i] : i \in 1..Len(list)}
    BY RangeEquality
  <2> QED
    BY <1>1, <2>1, <2>2
<1>3. ASSUME NoDuplicates(list), x \notin Range(list)
      PROVE  NoDuplicates(Append(list, x))
  <2>1. \A i, j \in 1..Len(list) : list[i] = list[j] => i = j
    BY <1>3, LenProperties DEF NoDuplicates, IsInjective
  <2>2. \A i \in 1..Len(list) : list[i] # x
    BY <1>3, RangeEquality
  <2>3. DOMAIN Append(list, x) = 1..(Len(list) + 1)
    BY <1>1, LenProperties
  <2> QED
    BY <1>1, <2>1, <2>2, <2>3 DEF NoDuplicates, IsInjective
<1> QED
  BY <1>2, <1>3

LEMMA AppendNewProperties ==
    ASSUME NEW S, NEW list \in Seq(S), NEW x \in S
    PROVE  /\ AppendNew(list, x) \in Seq(S)
           /\ Range(AppendNew(list, x)) = Range(list) \cup {x}
           /\ NoDuplicates(list) => NoDuplicates(AppendNew(list, x))
<1>1. CASE x \in Range(list)
  BY <1>1 DEF AppendNew
<1>2. CASE x \notin Range(list)
  BY <1>2, AppendRange, AppendProperties DEF AppendNew
<1> QED
  BY <1>1, <1>2

(* The rest of a list in which nothing is linked twice. *)
LEMMA TailRange ==
    ASSUME NEW S, NEW list \in Seq(S), list # <<>>
    PROVE  /\ Head(list) \in Range(list)
           /\ Range(Tail(list)) \subseteq Range(list)
           /\ NoDuplicates(list) => /\ NoDuplicates(Tail(list))
                                    /\ Head(list) \notin Range(Tail(list))
<1>1. /\ Tail(list) \in Seq(S)
      /\ Len(Tail(list)) = Len(list) - 1
      /\ \A i \in 1..Len(Tail(list)) : Tail(list)[i] = list[i + 1]
      /\ Len(list) \in Nat \ {0}
      /\ Head(list) = list[1]
  BY HeadTailProperties, EmptySeq
<1>2. Head(list) \in Range(list) /\ Range(Tail(list)) \subseteq Range(list)
  <2>1. Range(Tail(list)) = {Tail(list)[i] : i \in 1..Len(Tail(list))}
    BY <1>1, RangeEquality
  <2>2. Range(list) = {list[i] : i \in 1..Len(list)}
    BY RangeEquality
  <2> QED
    BY <1>1, <2>1, <2>2
<1>3. ASSUME NoDuplicates(list)
      PROVE  NoDuplicates(Tail(list)) /\ Head(list) \notin Range(Tail(list))
  <2>1. \A i, j \in 1..Len(list) : list[i] = list[j] => i = j
    BY <1>3, LenProperties DEF NoDuplicates, IsInjective
  <2>2. DOMAIN Tail(list) = 1..(Len(list) - 1)
    BY <1>1, LenProperties
  <2>3. NoDuplicates(Tail(list))
    BY <1>1, <2>1, <2>2 DEF NoDuplicates, IsInjective
  <2>4. Head(list) \notin Range(Tail(list))
    BY <1>1, <2>1, <2>2 DEF Range
  <2> QED
    BY <2>3, <2>4
<1> QED
  BY <1>2, <1>3

LEMMA TailRangeExact ==
    ASSUME NEW S, NEW list \in Seq(S), list # <<>>
    PROVE  Range(list) = {Head(list)} \cup Range(Tail(list))
<1>1. /\ Tail(list) \in Seq(S)
      /\ Len(Tail(list)) = Len(list) - 1
      /\ \A i \in 1..Len(Tail(list)) : Tail(list)[i] = list[i + 1]
      /\ Len(list) \in Nat \ {0}
      /\ Head(list) = list[1]
  BY HeadTailProperties, EmptySeq
<1>2. ASSUME NEW x \in Range(list) PROVE x = Head(list) \/ x \in Range(Tail(list))
  <2>1. PICK i \in 1..Len(list) : x = list[i]
    BY RangeEquality
  <2>2. CASE i = 1
    BY <1>1, <2>1, <2>2
  <2>3. CASE i # 1
    <3>1. i - 1 \in 1..Len(Tail(list)) /\ (i - 1) + 1 = i
      BY <1>1, <2>3
    <3>2. x = Tail(list)[i - 1]
      BY <1>1, <2>1, <3>1
    <3> QED
      BY <1>1, <3>1, <3>2, RangeEquality
  <2> QED
    BY <2>2, <2>3
<1> QED
  BY <1>2, TailRange

(* Lists without elements, with one, and two of them put together. *)
LEMMA EmptyRange ==
    ASSUME NEW S, NEW list \in Seq(S)
    PROVE  /\ Range(list) = {} <=> list = <<>>
           /\ Range(<<>>) = {} /\ NoDuplicates(<<>>)
<1>1. Range(<<>>) = {} /\ NoDuplicates(<<>>)
  BY DEF Range, NoDuplicates, IsInjective
<1>2. ASSUME list # <<>> PROVE Range(list) # {}
  BY <1>2, TailRange
<1> QED
  BY <1>1, <1>2

LEMMA SingleRange ==
    ASSUME NEW S, NEW x \in S
    PROVE  <<x>> \in Seq(S) /\ Range(<<x>>) = {x} /\ NoDuplicates(<<x>>)
<1>1. /\ <<x>> \in Seq(S) /\ DOMAIN <<x>> = {1} /\ <<x>>[1] = x
  OBVIOUS
<1> QED
  BY <1>1 DEF Range, NoDuplicates, IsInjective

LEMMA ConcatNoDuplicates ==
    ASSUME NEW S, NEW a \in Seq(S), NEW b \in Seq(S)
    PROVE  NoDuplicates(a \o b)
             <=> NoDuplicates(a) /\ NoDuplicates(b) /\ Range(a) \cap Range(b) = {}
<1>1. /\ a \o b \in Seq(S) /\ Len(a \o b) = Len(a) + Len(b)
      /\ \A i \in 1..(Len(a) + Len(b)) :
            (a \o b)[i] = IF i <= Len(a) THEN a[i] ELSE b[i - Len(a)]
      /\ Len(a) \in Nat /\ Len(b) \in Nat
  BY ConcatProperties, LenProperties
<1>2. /\ DOMAIN (a \o b) = 1..(Len(a) + Len(b))
      /\ DOMAIN a = 1..Len(a) /\ DOMAIN b = 1..Len(b)
  BY <1>1, LenProperties
<1>3. /\ Range(a) = {a[i] : i \in 1..Len(a)}
      /\ Range(b) = {b[i] : i \in 1..Len(b)}
  BY RangeEquality
<1>4. /\ \A i \in 1..Len(a) : (a \o b)[i] = a[i] /\ i \in 1..(Len(a) + Len(b))
      /\ \A i \in 1..Len(b) : /\ (a \o b)[Len(a) + i] = b[i]
                              /\ Len(a) + i \in 1..(Len(a) + Len(b))
  BY <1>1
<1>5. ASSUME NoDuplicates(a \o b)
      PROVE  NoDuplicates(a) /\ NoDuplicates(b) /\ Range(a) \cap Range(b) = {}
  <2>1. \A i, j \in 1..(Len(a) + Len(b)) : (a \o b)[i] = (a \o b)[j] => i = j
    BY <1>2, <1>5 DEF NoDuplicates, IsInjective
  <2>2. \A i, j \in 1..Len(a) : a[i] = a[j] => i = j
    BY <1>4, <2>1
  <2>3. ASSUME NEW i \in 1..Len(b), NEW j \in 1..Len(b), b[i] = b[j] PROVE i = j
    <3>1. Len(a) + i = Len(a) + j
      BY <1>4, <2>1, <2>3
    <3> QED
      BY <1>1, <3>1
  <2>4. ASSUME NEW i \in 1..Len(a), NEW j \in 1..Len(b) PROVE a[i] # b[j]
    <3>1. i # Len(a) + j
      BY <1>1
    <3> QED
      BY <1>4, <2>1, <3>1
  <2> QED
    BY <1>2, <1>3, <2>2, <2>3, <2>4 DEF NoDuplicates, IsInjective
<1>6. ASSUME NoDuplicates(a), NoDuplicates(b), Range(a) \cap Range(b) = {}
      PROVE  NoDuplicates(a \o b)
  <2>1. /\ \A i, j \in 1..Len(a) : a[i] = a[j] => i = j
        /\ \A i, j \in 1..Len(b) : b[i] = b[j] => i = j
    BY <1>2, <1>6 DEF NoDuplicates, IsInjective
  <2>2. \A i \in 1..Len(a), j \in 1..Len(b) : a[i] # b[j]
    BY <1>3, <1>6
  <2>3. ASSUME NEW i \in 1..(Len(a) + Len(b)), NEW j \in 1..(Len(a) + Len(b)),
               (a \o b)[i] = (a \o b)[j]
        PROVE  i = j
    <3>1. /\ i \in 1..Len(a) \/ i - Len(a) \in 1..Len(b)
          /\ j \in 1..Len(a) \/ j - Len(a) \in 1..Len(b)
      BY <1>1
    <3>2. CASE i \in 1..Len(a) /\ j \in 1..Len(a)
      BY <1>1, <2>1, <2>3, <3>2
    <3>3. CASE i \in 1..Len(a) /\ j \notin 1..Len(a)
      BY <1>1, <2>2, <2>3, <3>1, <3>3
    <3>4. CASE i \notin 1..Len(a) /\ j \in 1..Len(a)
      BY <1>1, <2>2, <2>3, <3>1, <3>4
    <3>5. CASE i \notin 1..Len(a) /\ j \notin 1..Len(a)
      <4>1. i - Len(a) = j - Len(a)
        BY <1>1, <2>1, <2>3, <3>1, <3>5
      <4> QED
        BY <1>1, <4>1
    <3> QED
      BY <3>2, <3>3, <3>4, <3>5
  <2> QED
    BY <1>2, <2>3 DEF NoDuplicates, IsInjective
<1> QED
  BY <1>5, <1>6

(* A list cut in two. *)
LEMMA CutRange ==
    ASSUME NEW S, NEW list \in Seq(S), NEW n \in 0..Len(list)
    PROVE  LET front == SubSeq(list, 1, n)
               back == SubSeq(list, n + 1, Len(list))
           IN /\ front \in Seq(S) /\ back \in Seq(S)
              /\ Range(list) = Range(front) \cup Range(back)
              /\ NoDuplicates(list) => /\ NoDuplicates(back)
                                       /\ Range(back) = Range(list) \ Range(front)
              /\ back = <<>> <=> n = Len(list)
<1> DEFINE front == SubSeq(list, 1, n)
           back == SubSeq(list, n + 1, Len(list))
<1>1. Len(list) \in Nat /\ \A i \in 1..Len(list) : list[i] \in S
  BY LenProperties, ElementOfSeq
<1>2. front \in Seq(S)
  BY <1>1, SubSeqProperties
<1>3. /\ back \in Seq(S)
      /\ Len(back) = IF n + 1 <= Len(list) THEN Len(list) - (n + 1) + 1 ELSE 0
  <2>1. \A i \in (n + 1)..Len(list) : list[i] \in S
    BY <1>1
  <2> QED
    BY <1>1, <2>1, SubSeqProperties
<1>4. front \o back = list
  <2>1. /\ 1 \in 1..(Len(list) + 1) /\ n \in (1 - 1)..Len(list)
        /\ Len(list) \in n..Len(list)
    BY <1>1
  <2>2. front \o back = SubSeq(list, 1, Len(list))
    BY <2>1, ConcatAdjacentSubSeq
  <2> QED
    BY <2>2, SubSeqFull
<1>5. back = <<>> <=> n = Len(list)
  <2>1. Len(back) = Len(list) - n
    BY <1>1, <1>3
  <2>2. back = <<>> <=> Len(back) = 0
    BY <1>3, EmptySeq
  <2> QED
    BY <1>1, <2>1, <2>2
<1> HIDE DEF front, back
<1>6. Range(list) = Range(front) \cup Range(back)
  BY <1>2, <1>3, <1>4, RangeConcatenation
<1>7. NoDuplicates(list) => NoDuplicates(back) /\ Range(back) = Range(list) \ Range(front)
  BY <1>2, <1>3, <1>4, <1>6, ConcatNoDuplicates
<1> QED
  BY <1>2, <1>3, <1>5, <1>6, <1>7 DEF front, back
=============================================================================
