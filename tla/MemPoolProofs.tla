---------------------------- MODULE MemPoolProofs ----------------------------
(***************************************************************************)
(* Lemmas on the pool and on its singly linked lists.  The lists are those *)
(* from the heads in a set H; a node is a head or an element.              *)
(***************************************************************************)
EXTENDS MemPool, WellFoundedInduction, TLAPS

(* At most one node is linked to an element. *)
Injective(nx) ==
    \A m, n \in DOMAIN nx : nx[m] = nx[n] /\ nx[m] # NULL => m = n

Links(H) == [H \cup Cells -> Cells \cup {NULL}]

-----------------------------------------------------------------------------
(* A nonempty set of natural numbers has a least element. *)
LEMMA LeastNatural ==
  ASSUME NEW T \in SUBSET Nat, T # {}
  PROVE  \E x \in T : \A y \in T : x <= y
<1> DEFINE R == OpToRel(<, Nat)
<1>1. IsWellFoundedOn(R, Nat)
  BY NatLessThanWellFounded
<1>2. PICK x \in T : \A y \in T : ~(<<y, x>> \in R)
  <2> HIDE DEF R
  <2> QED BY <1>1, WFMin
<1>3. ASSUME NEW y \in T PROVE x <= y
  <2>1. x \in Nat /\ y \in Nat
    OBVIOUS
  <2>2. y < x => <<y, x>> \in R
    BY <2>1 DEF OpToRel
  <2>3. ~(<<y, x>> \in R)
    BY <1>2
  <2> HIDE DEF R
  <2>4. ~(y < x)
    BY <2>2, <2>3
  <2> QED BY <2>1, <2>4
<1> QED BY <1>3

LEMMA Quotient ==
  ASSUME NEW a \in Nat, NEW b \in Nat \ {0}
  PROVE  /\ a \div b \in Nat /\ a % b \in Nat
         /\ a = (a \div b) * b + (a % b) /\ a % b < b
OBVIOUS

LEMMA PositiveQuotient ==
  ASSUME NEW a \in Nat, NEW b \in Nat \ {0}, b <= a
  PROVE  a \div b \in Nat \ {0}
<1>1. PICK q \in Nat : q = a \div b
  BY Quotient
<1>2. PICK r \in Nat : r = a % b
  BY Quotient
<1>3. a = q * b + r /\ r < b
  BY <1>1, <1>2, Quotient
<1>4. q # 0
  BY <1>3
<1> QED BY <1>1, <1>4

LEMMA NextMultiple ==
  ASSUME NEW q \in Nat, NEW b \in Nat \ {0}
  PROVE  /\ (q + 1) * b = q * b + b /\ (q + 1) * b \in Nat \ {0}
         /\ q * b \in Nat /\ ((q + 1) * b) % b = 0
OBVIOUS

LEMMA Times ==
  ASSUME NEW b \in Nat, NEW p \in Nat, NEW q \in Nat
  PROVE  /\ p * b \in Nat /\ 0 * b = 0 /\ (p + 1) * b = p * b + b
         /\ p <= q => p * b <= q * b
OBVIOUS

(* mp_init pads by less than a word. *)
LEMMA PaddedFits ==
  ASSUME NEW size \in Nat \ {0}
  PROVE  /\ Padded(size) \in Nat \ {0}
         /\ Padded(size) % Word = 0
         /\ size <= Padded(size) /\ Padded(size) < size + Word
<1> USE PoolAssumption DEF PoolAssumption
<1>1. PICK q \in Nat : q = size \div Word
  BY Quotient
<1>2. PICK r \in Nat : r = size % Word
  BY Quotient
<1>3. size = q * Word + r /\ r < Word
  BY <1>1, <1>2, Quotient
<1>4. CASE r = 0
  BY <1>2, <1>4 DEF Padded
<1>5. CASE r # 0
  <2>1. Padded(size) = (q + 1) * Word
    BY <1>1, <1>2, <1>5 DEF Padded
  <2>2. /\ (q + 1) * Word = q * Word + Word /\ (q + 1) * Word \in Nat \ {0}
        /\ q * Word \in Nat /\ ((q + 1) * Word) % Word = 0
    BY NextMultiple
  <2>3. PICK w \in Nat : w = q * Word
    BY <2>2
  <2>4. Padded(size) = w + Word /\ size = w + r
    BY <1>3, <2>1, <2>2, <2>3
  <2>5. size <= Padded(size) /\ Padded(size) < size + Word
    BY <1>3, <1>5, <2>4
  <2> QED BY <2>1, <2>2, <2>5
<1> QED BY <1>4, <1>5

LEMMA ElemNumPositive ==
  ASSUME NEW size \in Nat \ {0}
  PROVE  ElemNum(size) \in Nat \ {0}
<1>1. Room \in Nat
  BY PoolAssumption DEF PoolAssumption, Room
<1>2. size <= Room => Room \div size \in Nat \ {0}
  BY <1>1, PositiveQuotient
<1> QED BY <1>1, <1>2 DEF ElemNum

LEMMA LastNatural == Last \in Nat
<1>1. Padded(ElemSize) \in Nat \ {0}
  BY PaddedFits, PoolAssumption DEF PoolAssumption
<1> QED BY <1>1, ElemNumPositive DEF Last

LEMMA NullNoCell == NULL \notin Cells
<1>1. 0..Last \subseteq Nat
  BY LastNatural
<1> QED BY <1>1, PoolAssumption DEF PoolAssumption, Cells

(***************************************************************************)
(* The elements of a page lie behind its head and within the page, one     *)
(* behind the other (mp_alloc, mp_init), whether they are small or need a  *)
(* page of their own.                                                      *)
(***************************************************************************)
THEOREM ElementsFit ==
  ASSUME NEW size \in Nat \ {0}, NEW i \in 0..(ElemNum(size) - 1)
  PROVE  /\ HeadSize <= Offset(i, size)
         /\ Offset(i, size) + size <= PageBytes(size)
         /\ \A j \in 0..(ElemNum(size) - 1) :
                i < j => Offset(i, size) + size <= Offset(j, size)
<1> USE PoolAssumption DEF PoolAssumption
<1>1. Room \in Nat /\ PageSize = Room + HeadSize
  BY DEF Room
<1>2. i \in Nat /\ ElemNum(size) \in Nat \ {0} /\ i + 1 <= ElemNum(size)
  BY ElemNumPositive
<1>3. PICK w \in Nat : w = i * size
  BY <1>2, Times
<1>4. (i + 1) * size = w + size
  BY <1>2, <1>3, Times
<1>5. HeadSize <= Offset(i, size)
  BY <1>3 DEF Offset
<1>6. Offset(i, size) + size <= PageBytes(size)
  <2>1. CASE size > Room
    <3>1. i = 0
      BY <2>1, <1>2 DEF ElemNum
    <3>2. i * size = 0
      BY <3>1, Times
    <3> QED BY <2>1, <3>2 DEF Offset, PageBytes
  <2>2. CASE size <= Room
    <3>1. PICK q \in Nat : q = Room \div size
      BY <1>1, Quotient
    <3>2. PICK r \in Nat : r = Room % size
      BY <1>1, Quotient
    <3>3. Room = q * size + r
      BY <1>1, <3>1, <3>2, Quotient
    <3>4. i + 1 <= q
      BY <1>1, <1>2, <2>2, <3>1 DEF ElemNum
    <3>5. (i + 1) * size <= q * size
      BY <1>2, <3>4, Times
    <3>6. PICK z \in Nat : z = q * size
      BY Times
    <3>8. w + size <= Room
      BY <1>1, <1>4, <3>3, <3>5, <3>6
    <3>7. PageBytes(size) = PageSize
      BY <1>1, <2>2 DEF PageBytes
    <3> QED BY <1>1, <1>3, <3>8, <3>7 DEF Offset
  <2> QED BY <1>1, <2>1, <2>2
<1>7. ASSUME NEW j \in 0..(ElemNum(size) - 1), i < j
      PROVE  Offset(i, size) + size <= Offset(j, size)
  <2>1. j \in Nat /\ i + 1 <= j
    BY <1>2, <1>7
  <2>2. (i + 1) * size <= j * size
    BY <1>2, <2>1, Times
  <2>3. PICK z \in Nat : z = j * size
    BY <2>1, Times
  <2> QED BY <1>3, <1>4, <2>2, <2>3 DEF Offset
<1> QED BY <1>5, <1>6, <1>7

-----------------------------------------------------------------------------
(* What a walk meets is a set that the walk does not leave, and the least. *)
LEMMA ChainLeast ==
  ASSUME NEW nx, NEW h, NEW S \in Walkable(nx, h)
  PROVE  Chain(nx, h) \subseteq S
BY DEF Chain

LEMMA ChainClosed ==
  ASSUME NEW H, NEW nx \in Links(H), NEW h \in H
  PROVE  /\ Chain(nx, h) \subseteq Cells
         /\ nx[h] = NULL \/ nx[h] \in Chain(nx, h)
         /\ \A m \in Chain(nx, h) : nx[m] = NULL \/ nx[m] \in Chain(nx, h)
<1>1. Chain(nx, h) \subseteq Cells
  BY DEF Chain
<1>2. ASSUME nx[h] # NULL PROVE nx[h] \in Chain(nx, h)
  <2>1. nx[h] \in Cells
    BY <1>2 DEF Links
  <2>2. \A S \in Walkable(nx, h) : nx[h] \in S
    BY <1>2 DEF Walkable
  <2> QED BY <2>1, <2>2 DEF Chain
<1>3. ASSUME NEW m \in Chain(nx, h), nx[m] # NULL
      PROVE  nx[m] \in Chain(nx, h)
  <2>1. m \in Cells /\ \A S \in Walkable(nx, h) : m \in S
    BY DEF Chain
  <2>2. nx[m] \in Cells
    BY <1>3, <2>1 DEF Links
  <2>3. \A S \in Walkable(nx, h) : nx[m] \in S
    BY <1>3, <2>1 DEF Walkable
  <2> QED BY <2>2, <2>3 DEF Chain
<1> QED BY <1>1, <1>2, <1>3

(* To compare two chains: the one is walkable for the other. *)
LEMMA ClosedWalkable ==
  ASSUME NEW nx, NEW h, NEW S \in SUBSET Cells,
         nx[h] = NULL \/ nx[h] \in S,
         \A m \in S : nx[m] = NULL \/ nx[m] \in S
  PROVE  S \in Walkable(nx, h)
BY DEF Walkable

LEMMA EmptyChain ==
  ASSUME NEW nx, NEW h, nx[h] = NULL
  PROVE  Chain(nx, h) = {}
<1>1. {} \in Walkable(nx, h)
  BY ClosedWalkable
<1> QED BY <1>1, ChainLeast

(* An element that no node is linked to is in no chain. *)
LEMMA UnlinkedNotMet ==
  ASSUME NEW H, NEW nx \in Links(H), NEW h \in H,
         NEW D, \A n \in DOMAIN nx : nx[n] \notin D
  PROVE  Chain(nx, h) \cap D = {}
<1>1. DOMAIN nx = H \cup Cells /\ \A n \in H \cup Cells : nx[n] \in Cells \cup {NULL}
  BY DEF Links
<1>2. Cells \ D \in Walkable(nx, h)
  BY <1>1, ClosedWalkable
<1> QED BY <1>2, ChainLeast

(* No chain runs into itself. *)
LEMMA NoLoop ==
  ASSUME NEW H, H \cap Cells = {},
         NEW nx \in Links(H), Injective(nx), NEW h \in H, NEW c \in Chain(nx, h)
  PROVE  nx[c] # c
<1>1. SUFFICES ASSUME nx[c] = c PROVE FALSE
  OBVIOUS
<1>2. Chain(nx, h) \subseteq Cells /\ c \in Cells /\ c # NULL
  BY ChainClosed, NullNoCell
<1>3. \A m \in H \cup Cells : nx[m] = c => m = c
  <2>1. DOMAIN nx = H \cup Cells
    BY DEF Links
  <2> QED BY <1>1, <1>2, <2>1 DEF Injective
<1>4. h # c /\ h \in H \cup Cells
  BY <1>2
<1>5. Chain(nx, h) \ {c} \in Walkable(nx, h)
  <2>1. nx[h] = NULL \/ nx[h] \in Chain(nx, h) \ {c}
    BY <1>3, <1>4, ChainClosed
  <2>2. \A m \in Chain(nx, h) \ {c} : nx[m] = NULL \/ nx[m] \in Chain(nx, h) \ {c}
    BY <1>2, <1>3, ChainClosed
  <2> QED BY <1>2, <2>1, <2>2, ClosedWalkable
<1> QED BY <1>5, ChainLeast

-----------------------------------------------------------------------------
(* SLIST_REMOVE takes one element out of the chain it is in. *)
LEMMA RemoveKeeps ==
  ASSUME NEW H, H \cap Cells = {}, NEW nx \in Links(H), Injective(nx),
         NEW p \in H \cup Cells, NEW c \in Cells, nx[p] = c, p # c
  PROVE  /\ RemoveAfter(nx, p, c) \in Links(H)
         /\ Injective(RemoveAfter(nx, p, c))
         /\ \A n \in H \cup Cells : RemoveAfter(nx, p, c)[n] # c
<1> DEFINE nw == RemoveAfter(nx, p, c)
<1>1. DOMAIN nx = H \cup Cells /\ DOMAIN nw = H \cup Cells
  BY DEF RemoveAfter, Links
<1>2. nw[p] = nx[c] /\ nw[c] = NULL /\ \A n \in (H \cup Cells) \ {p, c} : nw[n] = nx[n]
  BY DEF RemoveAfter, Links
<1>3. nw \in Links(H)
  BY <1>1 DEF RemoveAfter, Links
<1>4. c # NULL
  BY NullNoCell
<1>5. Injective(nw)
  <2> HIDE DEF nw
  <2>1. \A m, n \in H \cup Cells : nx[m] = nx[n] /\ nx[m] # NULL => m = n
    BY <1>1 DEF Injective
  <2> QED BY <1>1, <1>2, <2>1 DEF Injective
<1>6. \A n \in H \cup Cells : nw[n] # c
  <2> HIDE DEF nw
  <2>1. \A m, n \in H \cup Cells : nx[m] = nx[n] /\ nx[m] # NULL => m = n
    BY <1>1 DEF Injective
  <2> QED BY <1>2, <1>4, <2>1
<1> QED BY <1>3, <1>5, <1>6

LEMMA RemoveChain ==
  ASSUME NEW H, H \cap Cells = {}, NEW nx \in Links(H), Injective(nx),
         NEW p \in H \cup Cells, NEW c \in Cells, nx[p] = c, p # c, NEW h \in H
  PROVE  Chain(RemoveAfter(nx, p, c), h) = Chain(nx, h) \ {c}
<1> DEFINE nw == RemoveAfter(nx, p, c)
<1>1. nw[p] = nx[c] /\ nw[c] = NULL /\ \A n \in (H \cup Cells) \ {p, c} : nw[n] = nx[n]
  BY DEF RemoveAfter, Links
<1>2. \A n \in H \cup Cells : nw[n] # c
  BY RemoveKeeps
<1>3. nw \in Links(H)
  BY RemoveKeeps
<1>4. \A n \in H \cup Cells : nx[n] = c => n = p
  <2>1. DOMAIN nx = H \cup Cells /\ c # NULL
    BY NullNoCell DEF Links
  <2> QED BY <2>1 DEF Injective
<1>5. h # c /\ h \in H \cup Cells
  OBVIOUS
<1> HIDE DEF nw
<1>6. Chain(nw, h) \subseteq Chain(nx, h) \ {c}
  <2> DEFINE X == Chain(nx, h) \ {c}
  <2>1. Chain(nx, h) \subseteq Cells
    BY ChainClosed
  <2>2. p \in Chain(nx, h) \cup {h} => nx[c] = NULL \/ nx[c] \in Chain(nx, h)
    BY ChainClosed, NullNoCell
  <2>3. nw[h] = NULL \/ nw[h] \in X
    BY <1>1, <1>2, <1>5, <2>2, ChainClosed
  <2>4. \A m \in X : nw[m] = NULL \/ nw[m] \in X
    BY <1>1, <1>2, <2>1, <2>2, ChainClosed
  <2>5. X \in Walkable(nw, h)
    BY <2>1, <2>3, <2>4, ClosedWalkable
  <2> QED BY <2>5, ChainLeast
<1>7. Chain(nx, h) \ {c} \subseteq Chain(nw, h)
  <2> DEFINE X == Chain(nw, h)
  <2>1. X \subseteq Cells
    BY <1>3, ChainClosed
  <2>2. /\ nw[h] = NULL \/ nw[h] \in X
        /\ \A m \in X : nw[m] = NULL \/ nw[m] \in X
    BY <1>3, ChainClosed
  <2> HIDE DEF X
  <2>3. CASE p \in X \cup {h}
    <3>1. nx[c] = NULL \/ nx[c] \in X
      BY <1>1, <2>2, <2>3
    <3>2. nx[h] = NULL \/ nx[h] \in X \cup {c}
      BY <1>1, <1>5, <2>2
    <3>3. \A m \in X \cup {c} : nx[m] = NULL \/ nx[m] \in X \cup {c}
      BY <1>1, <2>1, <2>2, <3>1
    <3>4. X \cup {c} \in Walkable(nx, h)
      BY <2>1, <3>2, <3>3, ClosedWalkable
    <3> QED BY <3>4, ChainLeast DEF X
  <2>4. CASE p \notin X \cup {h}
    <3>1. nx[h] = NULL \/ nx[h] \in X \ {c}
      BY <1>1, <1>4, <1>5, <2>2, <2>4
    <3>2. \A m \in X \ {c} : nx[m] = NULL \/ nx[m] \in X \ {c}
      BY <1>1, <1>4, <2>1, <2>2, <2>4
    <3>3. X \ {c} \in Walkable(nx, h)
      BY <2>1, <3>1, <3>2, ClosedWalkable
    <3> QED BY <3>3, ChainLeast DEF X
  <2> QED BY <2>3, <2>4
<1> QED BY <1>6, <1>7 DEF nw

(* SLIST_INSERT_A of an element that is in no chain, at a head. *)
LEMMA InsertKeeps ==
  ASSUME NEW H, H \cap Cells = {}, NEW nx \in Links(H), Injective(nx),
         NEW p \in H, NEW c \in Cells, \A n \in H \cup Cells : nx[n] # c
  PROVE  /\ InsertAfter(nx, p, c) \in Links(H)
         /\ Injective(InsertAfter(nx, p, c))
<1> DEFINE nw == InsertAfter(nx, p, c)
<1>1. DOMAIN nx = H \cup Cells /\ DOMAIN nw = H \cup Cells /\ p # c
  BY DEF InsertAfter, Links
<1>2. nw[c] = nx[p] /\ nw[p] = c /\ \A n \in (H \cup Cells) \ {p, c} : nw[n] = nx[n]
  BY <1>1 DEF InsertAfter
<1>3. nw \in Links(H)
  BY <1>1 DEF InsertAfter, Links
<1>4. Injective(nw)
  <2> HIDE DEF nw
  <2>1. \A m, n \in H \cup Cells : nx[m] = nx[n] /\ nx[m] # NULL => m = n
    BY <1>1 DEF Injective
  <2> QED BY <1>1, <1>2, <2>1 DEF Injective
<1> QED BY <1>3, <1>4

LEMMA InsertChain ==
  ASSUME NEW H, H \cap Cells = {}, NEW nx \in Links(H), NEW p \in H,
         NEW c \in Cells, \A n \in H \cup Cells : nx[n] # c, NEW h \in H
  PROVE  Chain(InsertAfter(nx, p, c), h) =
            IF h = p THEN Chain(nx, p) \cup {c} ELSE Chain(nx, h)
<1> DEFINE nw == InsertAfter(nx, p, c)
           X == IF h = p THEN Chain(nx, p) \cup {c} ELSE Chain(nx, h)
           Y == Chain(nw, h)
<1>1. DOMAIN nx = H \cup Cells /\ p # c /\ h # c /\ c # NULL
  BY NullNoCell DEF Links
<1>2. nw[c] = nx[p] /\ nw[p] = c /\ \A n \in (H \cup Cells) \ {p, c} : nw[n] = nx[n]
  BY <1>1 DEF InsertAfter
<1>3. nw \in Links(H)
  BY <1>1 DEF InsertAfter, Links
<1>4. c \notin Chain(nx, h) /\ p \notin Chain(nx, h)
  <2>1. \A n \in DOMAIN nx : nx[n] \notin {c}
    BY <1>1
  <2>2. Chain(nx, h) \cap {c} = {}
    BY <2>1, UnlinkedNotMet
  <2> QED BY <2>2, ChainClosed
<1>5. /\ Chain(nx, h) \subseteq Cells
      /\ nx[h] = NULL \/ nx[h] \in Chain(nx, h)
      /\ \A m \in Chain(nx, h) : nx[m] = NULL \/ nx[m] \in Chain(nx, h)
  BY ChainClosed
<1>6. /\ Y \subseteq Cells /\ p \notin Y
      /\ nw[h] = NULL \/ nw[h] \in Y
      /\ \A m \in Y : nw[m] = NULL \/ nw[m] \in Y
  BY <1>3, ChainClosed
<1> HIDE DEF nw
<1>7. Y \subseteq X
  <2>1. X \subseteq Cells
    BY <1>5
  <2>2. nw[h] = NULL \/ nw[h] \in X
    BY <1>1, <1>2, <1>5
  <2>3. \A m \in X : nw[m] = NULL \/ nw[m] \in X
    BY <1>1, <1>2, <1>4, <1>5
  <2>4. X \in Walkable(nw, h)
    BY <2>1, <2>2, <2>3, ClosedWalkable
  <2> QED BY <2>4, ChainLeast
<1>8. Chain(nx, h) \subseteq Y \ {c}
  <2> HIDE DEF Y
  <2>1. nx[h] = NULL \/ nx[h] \in Y \ {c}
    BY <1>1, <1>2, <1>6
  <2>2. \A m \in Y \ {c} : nx[m] = NULL \/ nx[m] \in Y \ {c}
    BY <1>1, <1>2, <1>6
  <2>3. Y \ {c} \in Walkable(nx, h)
    BY <1>6, <2>1, <2>2, ClosedWalkable
  <2> QED BY <2>3, ChainLeast
<1>9. h = p => c \in Y
  BY <1>1, <1>2, <1>6
<1>10. Y = X
  <2> HIDE DEF Y
  <2> QED BY <1>7, <1>8, <1>9
<1> QED BY <1>10 DEF nw

-----------------------------------------------------------------------------
(* mp_alloc threads the elements of a new page: all of them become free,   *)
(* and nothing else changes.                                               *)
LEMMA ThreadedLinks ==
  ASSUME NEW H, H \cap Cells = {}, FreeList \in H, NEW nx \in Links(H),
         nx[FreeList] = NULL, NEW p \in Pages
  PROVE  /\ Threaded(nx, p) \in Links(H)
         /\ Threaded(nx, p)[FreeList] = <<p, Last>>
         /\ Threaded(nx, p)[<<p, 0>>] = NULL
         /\ \A i \in 1..Last : Threaded(nx, p)[<<p, i>>] = <<p, i - 1>>
         /\ \A n \in (H \cup Cells) \ ({p} \X (0..Last)) :
                n # FreeList => Threaded(nx, p)[n] = nx[n]
<1> USE LastNatural
<1> DEFINE nw == Threaded(nx, p)
<1>1. DOMAIN nx = H \cup Cells
  BY DEF Links
<1>2. nw = [n \in H \cup Cells |->
              IF n = FreeList THEN <<p, Last>>
              ELSE IF n \in {p} \X (0..Last)
                   THEN IF n[2] = 0 THEN NULL ELSE <<p, n[2] - 1>>
                   ELSE nx[n]]
  BY <1>1 DEF Threaded
<1>3. /\ FreeList \notin Cells
      /\ \A i \in 0..Last : <<p, i>> \in Cells /\ <<p, i>> \in {p} \X (0..Last)
  BY DEF Cells
<1> HIDE DEF nw
<1>5. nw[FreeList] = <<p, Last>>
  BY <1>2
<1>6. nw[<<p, 0>>] = NULL
  BY <1>2, <1>3
<1>7. ASSUME NEW i \in 1..Last PROVE nw[<<p, i>>] = <<p, i - 1>>
  <2>1. i \in 0..Last /\ i # 0
    OBVIOUS
  <2>2. <<p, i>> # FreeList
    BY <1>3, <2>1
  <2> QED BY <1>2, <1>3, <2>1, <2>2
<1>8. \A n \in (H \cup Cells) \ ({p} \X (0..Last)) : n # FreeList => nw[n] = nx[n]
  BY <1>2
<1>9. ASSUME NEW n \in H \cup Cells PROVE nw[n] \in Cells \cup {NULL}
  <2>1. CASE n \in {p} \X (0..Last) /\ n # FreeList
    <3>1. PICK i \in 0..Last : n = <<p, i>>
      BY <2>1
    <3>2. i = 0 \/ i \in 1..Last
      OBVIOUS
    <3>3. i \in 1..Last => i - 1 \in 0..Last
      OBVIOUS
    <3> QED BY <1>3, <1>6, <1>7, <3>1, <3>2, <3>3
  <2>2. CASE n = FreeList
    BY <1>3, <1>5, <2>2
  <2>3. CASE n \notin {p} \X (0..Last) /\ n # FreeList
    BY <1>8, <2>3 DEF Links
  <2> QED BY <2>1, <2>2, <2>3
<1>10. nw \in Links(H)
  <2>1. nw = [n \in H \cup Cells |-> nw[n]]
    BY <1>2
  <2> QED BY <1>9, <2>1 DEF Links
<1> QED BY <1>5, <1>6, <1>7, <1>8, <1>10 DEF nw

LEMMA ThreadedInjective ==
  ASSUME NEW H, H \cap Cells = {}, FreeList \in H, NEW nx \in Links(H), Injective(nx),
         nx[FreeList] = NULL, NEW p \in Pages,
         \A n \in H \cup Cells : nx[n] \notin {p} \X (0..Last)
  PROVE  Injective(Threaded(nx, p))
<1> USE LastNatural
<1> DEFINE nw == Threaded(nx, p)
           page == {p} \X (0..Last)
<1>1. DOMAIN nw = H \cup Cells /\ DOMAIN nx = H \cup Cells
  BY DEF Threaded, Links
<1>2. /\ nw[FreeList] = <<p, Last>> /\ nw[<<p, 0>>] = NULL
      /\ \A i \in 1..Last : nw[<<p, i>>] = <<p, i - 1>>
      /\ \A n \in (H \cup Cells) \ page : n # FreeList => nw[n] = nx[n]
  BY ThreadedLinks
<1> HIDE DEF nw
<1>3. \A n \in page : \E i \in 0..Last : n = <<p, i>>
  OBVIOUS
<1>4. \A i \in 0..Last : <<p, i>> \in page
  OBVIOUS
(* The node that is linked to each element of the page. *)
<1>5. ASSUME NEW i \in 0..Last, NEW n \in H \cup Cells, nw[n] = <<p, i>>
      PROVE  n = IF i = Last THEN FreeList ELSE <<p, i + 1>>
  <2>1. n = FreeList \/ n \in page
    BY <1>2, <1>4, <1>5
  <2>2. CASE n = FreeList
    BY <1>2, <1>5, <2>2
  <2>3. CASE n \in page
    <3>1. PICK j \in 0..Last : n = <<p, j>>
      BY <1>3, <2>3
    <3>2. j # 0
      <4>1. <<p, i>> # NULL
        <5>1. <<p, i>> \in Cells
          BY DEF Cells
        <5> QED BY <5>1, NullNoCell
      <4> QED BY <1>2, <1>5, <3>1, <4>1
    <3>3. j \in 1..Last
      BY <3>2
    <3>4. <<p, j - 1>> = <<p, i>>
      BY <1>2, <1>5, <3>1, <3>3
    <3>5. j - 1 = i
      BY <3>4
    <3>6. j = i + 1 /\ i # Last
      BY <3>3, <3>5
    <3> QED BY <3>1, <3>6
  <2> QED BY <2>1, <2>2, <2>3
<1>6. ASSUME NEW m \in H \cup Cells, NEW n \in H \cup Cells, nw[m] = nw[n], nw[m] # NULL
      PROVE  m = n
  <2>1. CASE nw[m] \in page
    <3>1. PICK i \in 0..Last : nw[m] = <<p, i>>
      BY <1>3, <2>1
    <3> QED BY <1>5, <1>6, <3>1
  <2>2. CASE nw[m] \notin page
    <3>1. \A k \in page \cup {FreeList} : nw[k] \in page \cup {NULL}
      <4>1. \A i \in 1..Last : i - 1 \in 0..Last
        OBVIOUS
      <4>2. \A i \in 0..Last : i = 0 \/ i \in 1..Last
        OBVIOUS
      <4>3. Last \in 0..Last
        OBVIOUS
      <4> HIDE DEF page
      <4> QED BY <1>2, <1>3, <1>4, <4>1, <4>2, <4>3
    <3>2. nw[m] = nx[m] /\ nw[n] = nx[n]
      BY <1>2, <1>6, <2>2, <3>1
    <3> QED BY <1>1, <1>6, <3>2 DEF Injective
  <2> QED BY <2>1, <2>2
<1>7. Injective(nw)
  BY <1>1, <1>6 DEF Injective
<1> QED BY <1>7 DEF nw

LEMMA ThreadedChain ==
  ASSUME NEW H, H \cap Cells = {}, FreeList \in H, NEW nx \in Links(H),
         nx[FreeList] = NULL, NEW p \in Pages,
         \A n \in H \cup Cells : nx[n] \notin {p} \X (0..Last), NEW h \in H
  PROVE  Chain(Threaded(nx, p), h) =
            IF h = FreeList THEN {p} \X (0..Last) ELSE Chain(nx, h)
<1> USE LastNatural
<1> DEFINE nw == Threaded(nx, p)
           page == {p} \X (0..Last)
           Y == Chain(nw, h)
<1>1. nw \in Links(H)
  BY ThreadedLinks
<1>2. /\ nw[FreeList] = <<p, Last>> /\ nw[<<p, 0>>] = NULL
      /\ \A i \in 1..Last : nw[<<p, i>>] = <<p, i - 1>>
      /\ \A n \in (H \cup Cells) \ page : n # FreeList => nw[n] = nx[n]
  BY ThreadedLinks
<1>3. /\ \A n \in page : \E i \in 0..Last : n = <<p, i>>
      /\ \A i \in 0..Last : <<p, i>> \in page
      /\ page \subseteq Cells
  BY DEF Cells
<1>4. /\ Y \subseteq Cells
      /\ nw[h] = NULL \/ nw[h] \in Y
      /\ \A m \in Y : nw[m] = NULL \/ nw[m] \in Y
  BY <1>1, ChainClosed
<1>5. /\ \A i \in 1..Last : i - 1 \in 0..Last
      /\ \A i \in 0..Last : i = 0 \/ i \in 1..Last
      /\ Last \in 0..Last
  OBVIOUS
<1> HIDE DEF nw, page, Y
<1>6. CASE h = FreeList
  <2>1. Y \subseteq page
    <3>1. nw[h] \in page
      BY <1>2, <1>3, <1>5, <1>6
    <3>2. \A m \in page : nw[m] = NULL \/ nw[m] \in page
      BY <1>2, <1>3, <1>5
    <3>3. page \in Walkable(nw, h)
      BY <1>3, <3>1, <3>2, ClosedWalkable
    <3> QED BY <3>3, ChainLeast DEF Y
  (* The walk starts at Last and goes down by one: look at the first it misses. *)
  <2>2. \A i \in 0..Last : <<p, i>> \in Y
    <3>1. SUFFICES ASSUME NEW j \in 0..Last, <<p, j>> \notin Y PROVE FALSE
      OBVIOUS
    <3> DEFINE T == {x \in Nat : x <= Last /\ <<p, Last - x>> \notin Y}
    <3>2. Last - j \in T
      <4>1. Last - j \in Nat /\ Last - (Last - j) = j /\ Last - j <= Last
        OBVIOUS
      <4> QED BY <3>1, <4>1
    <3>3. PICK x \in T : \A y \in T : x <= y
      <4> HIDE DEF T
      <4>1. T \subseteq Nat
        BY DEF T
      <4> QED BY <3>2, <4>1, LeastNatural
    <3>4. x \in Nat /\ x <= Last /\ <<p, Last - x>> \notin Y
      BY <3>3
    <3>5. x # 0
      <4>1. <<p, Last>> \in Y
        <5>1. <<p, Last>> # NULL
          BY <1>3, <1>5, NullNoCell
        <5> QED BY <1>2, <1>4, <1>6, <5>1
      <4>2. Last - 0 = Last
        OBVIOUS
      <4> QED BY <3>4, <4>1, <4>2
    <3>6. x - 1 \in Nat /\ x - 1 <= Last /\ ~(x <= x - 1)
      BY <3>4, <3>5
    <3>7. <<p, Last - (x - 1)>> \in Y
      BY <3>3, <3>6
    <3>8. /\ Last - (x - 1) \in 1..Last /\ (Last - (x - 1)) - 1 = Last - x
          /\ Last - x \in 0..Last
      BY <3>4, <3>5
    <3>9. nw[<<p, Last - (x - 1)>>] = <<p, Last - x>>
      BY <1>2, <3>8
    <3>10. <<p, Last - x>> # NULL
      BY <1>3, <3>8, NullNoCell
    <3> QED BY <1>4, <3>4, <3>7, <3>9, <3>10
  <2>3. page \subseteq Y
    BY <1>3, <2>2
  <2>4. Y = page
    BY <2>1, <2>3
  <2> QED BY <1>6, <2>4 DEF Y, nw, page
<1>7. CASE h # FreeList
  <2>1. /\ Chain(nx, h) \subseteq Cells
        /\ nx[h] = NULL \/ nx[h] \in Chain(nx, h)
        /\ \A m \in Chain(nx, h) : nx[m] = NULL \/ nx[m] \in Chain(nx, h)
    BY ChainClosed
  <2>2. Chain(nx, h) \cap page = {}
    <3>1. \A n \in DOMAIN nx : nx[n] \notin page
      BY DEF Links, page
    <3> QED BY <3>1, UnlinkedNotMet
  <2>3. h \notin page /\ FreeList \notin Cells
    BY <1>3
  <2>4. Y \subseteq Chain(nx, h)
    <3>1. nw[h] = nx[h]
      BY <1>2, <1>7, <2>3
    <3>2. \A m \in Chain(nx, h) : nw[m] = nx[m]
      BY <1>2, <2>1, <2>2, <2>3
    <3>3. Chain(nx, h) \in Walkable(nw, h)
      BY <2>1, <3>1, <3>2, ClosedWalkable
    <3> QED BY <3>3, ChainLeast DEF Y
  <2>5. Chain(nx, h) \subseteq Y \ page
    <3>0. \A n \in H \cup Cells : nx[n] \notin page
      BY DEF page
    <3>1. nx[h] = NULL \/ nx[h] \in Y \ page
      BY <1>2, <1>4, <1>7, <2>3, <3>0
    <3>2. \A m \in Y \ page : nx[m] = NULL \/ nx[m] \in Y \ page
      BY <1>2, <1>4, <2>3, <3>0
    <3>3. Y \ page \in Walkable(nx, h)
      BY <1>4, <3>1, <3>2, ClosedWalkable
    <3> QED BY <3>3, ChainLeast
  <2>6. Y = Chain(nx, h)
    BY <2>4, <2>5
  <2> QED BY <1>7, <2>6 DEF Y, nw
<1> QED BY <1>6, <1>7
=============================================================================
