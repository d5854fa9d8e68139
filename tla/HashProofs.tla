------------------------------ MODULE HashProofs ------------------------------
(***************************************************************************)
(* The invariants of the hash table, and that it implements HashApi, for   *)
(* any keys, hash function, buckets, pages and sizes.                      *)
(***************************************************************************)
EXTENDS HashProps, MemPoolProofs, FiniteSetTheorems

Heads == {FreeList} \cup BucketHeads

PagesTaken(nx, pg) == \A n \in Nodes : nx[n] # NULL => nx[n][1] \in pg

(* Without a table there is no node. *)
NoTable == ~table => Used = {}

HInv ==
    /\ TypeOK /\ OnePredecessor /\ NodesAccounted /\ KeysOnce
    /\ IsFiniteSet(Used) /\ NoTable

-----------------------------------------------------------------------------
LEMMA HeadsApart ==
    /\ Heads \cap Cells = {} /\ Nodes = Heads \cup Cells
    /\ FreeList \in Heads /\ FreeList \notin BucketHeads
    /\ BucketHeads \subseteq Heads
    /\ \A key \in Keys : BucketOf(key) \in BucketHeads
<1>1. Heads \cap Cells = {}
  BY PoolAssumption DEF PoolAssumption, Heads, BucketHeads, BucketHead, FreeList, Cells
<1>2. FreeList \notin BucketHeads
  BY DEF FreeList, BucketHeads, BucketHead
<1>3. ASSUME NEW key \in Keys PROVE BucketOf(key) \in BucketHeads
  <2>1. HashFun[key] \in Nat /\ BucketNum \in Nat \ {0}
    BY HashAssumption DEF HashAssumption
  <2>2. HashFun[key] % BucketNum \in 0..(BucketNum - 1)
    BY <2>1
  <2> QED BY <2>2 DEF BucketOf, BucketHeads
<1> QED BY <1>1, <1>2, <1>3 DEF Heads, Nodes

(* An entry is a record, NULL is not. *)
LEMMA EntryNotNull == NULL \notin Entry
BY HashAssumption DEF HashAssumption

LEMMA LinksOfInv ==
  ASSUME HInv
  PROVE  next \in Links(Heads) /\ Injective(next) /\ PagesTaken(next, pages)
<1>1. next \in Links(Heads)
  BY HeadsApart DEF HInv, TypeOK, Links
<1>2. DOMAIN next = Nodes
  BY DEF HInv, TypeOK
<1> QED BY <1>1, <1>2 DEF HInv, OnePredecessor, Injective, PagesTaken

(* Elements that are linked to lie in pages that are there. *)
LEMMA UsedInPages ==
  ASSUME HInv, NEW c \in Used
  PROVE  c[1] \in pages
<1> DEFINE S == {d \in Cells : d[1] \in pages}
<1>1. PICK b \in BucketHeads : c \in Chain(next, b)
  <2>1. entry[c] \in Entry /\ c \in Cells
    BY DEF HInv, TypeOK, Used
  <2>2. BucketOf(entry[c].key) \in BucketHeads
    BY <2>1, HeadsApart DEF Entry
  <2> QED BY <2>2 DEF HInv, NodesAccounted
<1>2. \A n \in Nodes : next[n] = NULL \/ next[n] \in S
  <2>1. \A n \in Nodes : next[n] \in Cells \cup {NULL}
    BY DEF HInv, TypeOK
  <2> QED BY <2>1, LinksOfInv DEF PagesTaken
<1>3. S \in Walkable(next, b)
  <2>1. b \in Nodes /\ S \subseteq Nodes /\ S \subseteq Cells
    BY <1>1, HeadsApart
  <2> HIDE DEF S
  <2> QED BY <1>2, <2>1, ClosedWalkable
<1> QED BY <1>1, <1>3, ChainLeast

LEMMA FoundAreUsed ==
  ASSUME HInv, NEW key \in Keys
  PROVE  Found(key) = {c \in Used : entry[c].key = key}
<1>1. Chain(next, BucketOf(key)) = {c \in Used : BucketOf(key) = BucketOf(entry[c].key)}
  BY HeadsApart DEF HInv, NodesAccounted
<1> QED BY <1>1 DEF Found, Used

-----------------------------------------------------------------------------
(* What mp_alloc takes an element from. *)
LEMMA StockKept ==
  ASSUME HInv, NEW stock \in Stocks(next, pages)
  PROVE  /\ stock.next \in Links(Heads) /\ Injective(stock.next)
         /\ stock.pages \in SUBSET Pages /\ pages \subseteq stock.pages
         /\ PagesTaken(stock.next, stock.pages)
         /\ stock.next[FreeList] \in Chain(stock.next, FreeList)
         /\ Chain(stock.next, FreeList) = {d \in Cells \ Used : d[1] \in stock.pages}
         /\ \A b \in BucketHeads : Chain(stock.next, b) = Chain(next, b)
<1> USE HeadsApart
<1>1. next \in Links(Heads) /\ Injective(next) /\ PagesTaken(next, pages)
  BY LinksOfInv
<1>2. pages \in SUBSET Pages
  BY DEF HInv, TypeOK
<1>3. Chain(next, FreeList) = {d \in Cells \ Used : d[1] \in pages}
  BY DEF HInv, NodesAccounted
<1>4. CASE next[FreeList] # NULL
  <2>1. stock.next = next /\ stock.pages = pages
    BY <1>4 DEF Stocks
  <2>2. next[FreeList] \in Chain(next, FreeList)
    BY <1>1, <1>4, ChainClosed
  <2> QED BY <1>1, <1>2, <1>3, <2>1, <2>2 DEF HInv, NodesAccounted
<1>5. CASE next[FreeList] = NULL
  <2>1. PICK p \in Pages \ pages :
            stock.next = Threaded(next, p) /\ stock.pages = pages \cup {p}
    BY <1>5 DEF Stocks
  <2> DEFINE nw == Threaded(next, p)
  <2>2. \A n \in Heads \cup Cells : next[n] \notin {p} \X (0..Last)
    <3>1. \A n \in Nodes : next[n] # NULL => next[n][1] \in pages
      BY <1>1 DEF PagesTaken
    <3>2. \A d \in {p} \X (0..Last) : d[1] = p /\ d \in Cells
      BY DEF Cells
    <3> QED BY <2>1, <3>1, <3>2, NullNoCell
  <2>3. nw \in Links(Heads) /\ Injective(nw)
    BY <1>1, <1>5, <2>1, <2>2, ThreadedLinks, ThreadedInjective
  <2>4. /\ Chain(nw, FreeList) = {p} \X (0..Last)
        /\ \A b \in BucketHeads : Chain(nw, b) = Chain(next, b)
    BY <1>1, <1>5, <2>1, <2>2, ThreadedChain
  <2>5. nw[FreeList] \in Chain(nw, FreeList)
    <3>1. nw[FreeList] = <<p, Last>>
      BY <1>1, <1>5, <2>1, ThreadedLinks
    <3>2. Last \in 0..Last
      BY LastNatural
    <3> QED BY <2>4, <3>1, <3>2
  <2>6. {d \in Cells \ Used : d[1] \in pages} = {}
    BY <1>1, <1>3, <1>5, EmptyChain
  <2>7. {p} \X (0..Last) = {d \in Cells \ Used : d[1] \in pages \cup {p}}
    <3>1. \A d \in Used : d[1] # p
      BY <2>1, UsedInPages
    <3>2. \A d \in {p} \X (0..Last) : d \in Cells /\ d[1] = p
      BY DEF Cells
    <3>3. \A d \in Cells : d[1] = p => d \in {p} \X (0..Last)
      BY DEF Cells
    <3> QED BY <2>6, <3>1, <3>2, <3>3
  <2>8. PagesTaken(nw, pages \cup {p})
    <3>1. ASSUME NEW n \in Nodes, nw[n] # NULL PROVE nw[n][1] \in pages \cup {p}
      <4>1. nw[n] = next[n] \/ nw[n][1] = p
        <5>1. DOMAIN next = Nodes
          BY <1>1 DEF Links
        <5>2. nw[n] = IF n = FreeList THEN <<p, Last>>
                      ELSE IF n \in {p} \X (0..Last)
                           THEN IF n[2] = 0 THEN next[FreeList] ELSE <<p, n[2] - 1>>
                           ELSE next[n]
          BY <5>1 DEF Threaded
        <5> QED BY <1>5, <3>1, <5>2
      <4> QED BY <1>1, <3>1, <4>1 DEF PagesTaken
    <3> QED BY <3>1 DEF PagesTaken
  <2> HIDE DEF nw
  <2> QED BY <1>2, <2>1, <2>3, <2>4, <2>5, <2>7, <2>8 DEF nw
<1> QED BY <1>4, <1>5

(* mp_alloc and SLIST_INSERT_HEAD: an element goes from the free list to a bucket. *)
LEMMA TakenToBucket ==
  ASSUME NEW nx \in Links(Heads), Injective(nx), NEW pg, PagesTaken(nx, pg),
         NEW c \in Chain(nx, FreeList), nx[FreeList] = c, NEW b \in BucketHeads
  PROVE  LET nw == InsertAfter(Taken(nx), b, c) IN
         /\ nw \in Links(Heads) /\ Injective(nw) /\ PagesTaken(nw, pg)
         /\ Chain(nw, FreeList) = Chain(nx, FreeList) \ {c}
         /\ \A d \in BucketHeads :
                Chain(nw, d) = IF d = b THEN Chain(nx, d) \cup {c} ELSE Chain(nx, d)
<1> USE HeadsApart
<1> DEFINE tk == Taken(nx)
           nw == InsertAfter(tk, b, c)
<1>1. tk = RemoveAfter(nx, FreeList, c)
  BY DEF Taken
<1>2. c \in Cells /\ FreeList # c
  BY ChainClosed
<1>3. tk \in Links(Heads) /\ Injective(tk) /\ \A n \in Heads \cup Cells : tk[n] # c
  <2> HIDE DEF tk
  <2> QED BY <1>1, <1>2, RemoveKeeps
<1>4. \A h \in Heads : Chain(tk, h) = Chain(nx, h) \ {c}
  <2> HIDE DEF tk
  <2> QED BY <1>1, <1>2, RemoveChain
<1>5. nw \in Links(Heads) /\ Injective(nw)
  <2> HIDE DEF tk
  <2> QED BY <1>2, <1>3, InsertKeeps
<1>6. \A h \in Heads : Chain(nw, h) = IF h = b THEN Chain(tk, h) \cup {c} ELSE Chain(tk, h)
  <2> HIDE DEF tk
  <2> QED BY <1>2, <1>3, InsertChain
<1>7. PagesTaken(nw, pg)
  <2>1. DOMAIN nx = Nodes /\ DOMAIN tk = Nodes
    BY DEF Links, Taken, RemoveAfter
  <2>2. \A n \in Nodes : nw[n] = IF n = b THEN c ELSE IF n = c THEN tk[b] ELSE tk[n]
    BY <1>2, <2>1 DEF InsertAfter
  <2>3. \A n \in Nodes : tk[n] = IF n = c THEN NULL ELSE IF n = FreeList THEN nx[c] ELSE nx[n]
    BY <1>1, <2>1 DEF RemoveAfter
  <2>4. \A n \in Nodes : nw[n] = NULL \/ \E m \in Nodes : nw[n] = nx[m]
    <3> HIDE DEF nw, tk
    <3> QED BY <1>2, <2>2, <2>3
  <2> HIDE DEF nw
  <2> QED BY <2>4 DEF PagesTaken
<1>8. \A d \in BucketHeads : c \notin Chain(nx, d)
  <2>1. SUFFICES ASSUME NEW d \in BucketHeads, c \in Chain(nx, d) PROVE FALSE
    OBVIOUS
  <2>2. \A n \in DOMAIN nx : nx[n] = c => n = FreeList
    <3>1. DOMAIN nx = Nodes /\ FreeList \in Nodes
      BY DEF Links
    <3> QED BY <1>2, <3>1, NullNoCell DEF Injective
  <2>3. Chain(nx, d) \ {c} \in Walkable(nx, d)
    <3>1. DOMAIN nx = Heads \cup Cells
      BY DEF Links
    <3>2. /\ Chain(nx, d) \subseteq Cells
          /\ nx[d] = NULL \/ nx[d] \in Chain(nx, d)
          /\ \A m \in Chain(nx, d) : nx[m] = NULL \/ nx[m] \in Chain(nx, d)
      BY <2>1, ChainClosed
    <3>3. d # FreeList /\ FreeList \notin Cells
      OBVIOUS
    <3> QED BY <2>2, <3>1, <3>2, <3>3, ClosedWalkable
  <2> QED BY <2>1, <2>3, ChainLeast
<1> HIDE DEF nw, tk
<1>9. Chain(nw, FreeList) = Chain(nx, FreeList) \ {c}
  BY <1>4, <1>6
<1>10. \A d \in BucketHeads :
          Chain(nw, d) = IF d = b THEN Chain(nx, d) \cup {c} ELSE Chain(nx, d)
  <2>1. SUFFICES ASSUME NEW d \in BucketHeads
                 PROVE  Chain(nw, d) = IF d = b THEN Chain(nx, d) \cup {c} ELSE Chain(nx, d)
    OBVIOUS
  <2>2. Chain(tk, d) = Chain(nx, d)
    BY <1>4, <1>8
  <2>3. Chain(nw, d) = IF d = b THEN Chain(tk, d) \cup {c} ELSE Chain(tk, d)
    BY <1>6
  <2> QED BY <2>2, <2>3
<1> QED BY <1>5, <1>7, <1>9, <1>10 DEF nw, tk

(* SLIST_REMOVE and mp_free: an element goes from its bucket to the free list. *)
LEMMA DroppedToFree ==
  ASSUME NEW nx \in Links(Heads), Injective(nx), NEW pg, PagesTaken(nx, pg),
         NEW b \in BucketHeads, NEW c \in Chain(nx, b), NEW pre \in Nodes, nx[pre] = c
  PROVE  LET nw == Given(RemoveAfter(nx, pre, c), c) IN
         /\ nw \in Links(Heads) /\ Injective(nw) /\ PagesTaken(nw, pg)
         /\ Chain(nw, FreeList) = Chain(nx, FreeList) \cup {c}
         /\ \A d \in BucketHeads : Chain(nw, d) = Chain(nx, d) \ {c}
<1> USE HeadsApart
<1> DEFINE rm == RemoveAfter(nx, pre, c)
           nw == Given(rm, c)
<1>1. c \in Cells /\ FreeList # c
  BY ChainClosed
<1>2. pre # c
  <2>1. nx[c] # c
    BY NoLoop
  <2> QED BY <2>1
<1>3. rm \in Links(Heads) /\ Injective(rm) /\ \A n \in Heads \cup Cells : rm[n] # c
  BY <1>1, <1>2, RemoveKeeps
<1>4. \A h \in Heads : Chain(rm, h) = Chain(nx, h) \ {c}
  BY <1>1, <1>2, RemoveChain
<1>5. nw = InsertAfter(rm, FreeList, c)
  BY DEF Given
<1>6. nw \in Links(Heads) /\ Injective(nw)
  <2> HIDE DEF rm, nw
  <2> QED BY <1>1, <1>3, <1>5, InsertKeeps
<1>7. \A h \in Heads :
          Chain(nw, h) = IF h = FreeList THEN Chain(rm, h) \cup {c} ELSE Chain(rm, h)
  <2> HIDE DEF rm, nw
  <2> QED BY <1>1, <1>3, <1>5, InsertChain
<1>8. PagesTaken(nw, pg)
  <2>1. DOMAIN nx = Nodes /\ DOMAIN rm = Nodes
    BY DEF Links, RemoveAfter
  <2>2. \A n \in Nodes :
            nw[n] = IF n = FreeList THEN c ELSE IF n = c THEN rm[FreeList] ELSE rm[n]
    BY <1>1, <1>5, <2>1 DEF InsertAfter
  <2>3. \A n \in Nodes : rm[n] = IF n = c THEN NULL ELSE IF n = pre THEN nx[c] ELSE nx[n]
    BY <1>1, <2>1 DEF RemoveAfter
  <2>4. \A n \in Nodes : nw[n] = NULL \/ \E m \in Nodes : nw[n] = nx[m]
    <3> HIDE DEF nw, rm
    <3> QED BY <1>1, <2>2, <2>3
  <2> HIDE DEF nw
  <2> QED BY <2>4 DEF PagesTaken
<1> HIDE DEF nw, rm
<1>9. Chain(nw, FreeList) = Chain(nx, FreeList) \cup {c}
  BY <1>4, <1>7
<1>10. \A d \in BucketHeads : Chain(nw, d) = Chain(nx, d) \ {c}
  BY <1>4, <1>7
<1> QED BY <1>6, <1>8, <1>9, <1>10 DEF nw, rm

-----------------------------------------------------------------------------
LEMMA InitInv == Init => HInv
<1> SUFFICES ASSUME Init PROVE HInv
  OBVIOUS
<1> USE HeadsApart DEF Init
<1>1. Used = {}
  BY DEF Used
<1>2. TypeOK
  BY DEF TypeOK, Unlinked, Codes
<1>3. OnePredecessor
  BY DEF OnePredecessor, Unlinked
<1>4. NodesAccounted
  <2>1. \A h \in Heads : Chain(next, h) = {}
    BY EmptyChain DEF Unlinked
  <2> QED BY <1>1, <2>1 DEF NodesAccounted
<1>5. KeysOnce /\ IsFiniteSet(Used)
  BY <1>1, FS_EmptySet DEF KeysOnce
<1> QED BY <1>1, <1>2, <1>3, <1>4, <1>5 DEF HInv, NoTable

(* Steps that leave the table as it is. *)
LEMMA QuietKeeps ==
  ASSUME HInv, UNCHANGED <<next, pages, entry, cnt>>,
         ret' \in [code : Codes, value : Values \cup {NULL}],
         table' \in BOOLEAN, table' \/ table' = table
  PROVE  HInv'
<1>1. TypeOK'
  BY DEF HInv, TypeOK
<1>2. OnePredecessor' /\ NodesAccounted'
  BY DEF HInv, OnePredecessor, NodesAccounted, Used
<1>3. Used' = Used
  BY DEF Used
<1>4. KeysOnce' /\ IsFiniteSet(Used)'
  BY <1>3 DEF HInv, KeysOnce
<1> QED BY <1>1, <1>2, <1>3, <1>4 DEF HInv, NoTable

(* Steps after which no node is left: ex_hash_free and ex_hash_renew. *)
LEMMA EmptiedKeeps ==
  ASSUME HInv, next' = Unlinked, pages' = {}, entry' = [c \in Cells |-> NULL],
         cnt' \in Nat, table' \in BOOLEAN,
         ret' \in [code : Codes, value : Values \cup {NULL}]
  PROVE  HInv'
<1> USE HeadsApart
<1>1. Used' = {}
  BY DEF Used
<1>2. TypeOK'
  BY DEF TypeOK, Unlinked
<1>3. OnePredecessor'
  BY DEF OnePredecessor, Unlinked
<1>4. NodesAccounted'
  <2>1. \A h \in Heads : Chain(next', h) = {}
    BY EmptyChain DEF Unlinked
  <2> QED BY <1>1, <2>1 DEF NodesAccounted
<1>5. KeysOnce' /\ IsFiniteSet(Used)'
  BY <1>1, FS_EmptySet DEF KeysOnce
<1> QED BY <1>1, <1>2, <1>3, <1>4, <1>5 DEF HInv, NoTable

LEMMA RenewEmpties ==
  ASSUME HInv, HashRenew
  PROVE  next' = Unlinked
<1>1. DOMAIN next = Nodes
  BY DEF HInv, TypeOK
<1>2. Nodes \ BucketHeads \subseteq Cells \cup {FreeList}
  BY DEF Nodes
<1> QED BY <1>1, <1>2 DEF HashRenew, Emptied, Unlinked

LEMMA AddFoundKeeps ==
  ASSUME HInv, NEW key \in Keys, NEW value \in Values, NEW ow \in BOOLEAN,
         AddFound(key, value, ow)
  PROVE  HInv'
<1>1. PICK c \in Found(key) : AddedAgain(c, value, ow)
  BY DEF AddFound
<1>2. c \in Used /\ c \in Cells /\ entry[c] \in Entry
  BY FoundAreUsed DEF HInv, TypeOK, Used
<1>3. /\ entry' \in [Cells -> Entry \cup {NULL}]
      /\ \A d \in Cells : entry'[d] = NULL <=> entry[d] = NULL
      /\ \A d \in Used : entry'[d].key = entry[d].key
  <2>1. entry \in [Cells -> Entry \cup {NULL}] /\ entry[c] # NULL
    BY <1>2 DEF HInv, TypeOK, Used
  <2>2. CASE entry' = entry
    BY <2>1, <2>2
  <2>3. CASE entry' = [entry EXCEPT ![c].value = value]
    <3>1. PICK e \in Entry : e = [entry[c] EXCEPT !.value = value]
      BY <1>2 DEF Entry
    <3>2. e.key = entry[c].key /\ e # NULL
      <4>1. e.key = entry[c].key
        BY <1>2, <3>1 DEF Entry
      <4>2. e # NULL
        BY <3>1, EntryNotNull
      <4> QED BY <4>1, <4>2
    <3>3. entry' = [entry EXCEPT ![c] = e]
      BY <2>3, <3>1
    <3> QED BY <2>1, <3>1, <3>2, <3>3 DEF Used
  <2> QED BY <1>1, <2>2, <2>3 DEF AddedAgain
<1>4. Used' = Used
  BY <1>3 DEF Used
<1>5. TypeOK'
  <2>1. ret' \in [code : Codes, value : Values \cup {NULL}]
    BY <1>1 DEF AddedAgain, Returns, Codes
  <2> QED BY <1>3, <2>1 DEF AddFound, HInv, TypeOK
<1>6. OnePredecessor'
  BY DEF AddFound, HInv, OnePredecessor
<1>7. NodesAccounted'
  <2>1. \A d \in Used : BucketOf(entry'[d].key) = BucketOf(entry[d].key)
    BY <1>3
  <2> QED BY <1>4, <2>1 DEF AddFound, HInv, NodesAccounted
<1>8. KeysOnce' /\ IsFiniteSet(Used)' /\ NoTable'
  BY <1>3, <1>4 DEF AddFound, HInv, KeysOnce, NoTable
<1> QED BY <1>4, <1>5, <1>6, <1>7, <1>8 DEF HInv

LEMMA AddNewKeeps ==
  ASSUME HInv, NEW key \in Keys, NEW value \in Values, AddNew(key, value)
  PROVE  HInv'
<1> USE HeadsApart
<1>1. PICK stock \in Stocks(next, pages) :
        LET c == stock.next[FreeList] IN
        /\ next' = InsertAfter(Taken(stock.next), BucketOf(key), c)
        /\ pages' = stock.pages
        /\ entry' = [entry EXCEPT ![c] = [key |-> key, value |-> value]]
  BY DEF AddNew
<1> DEFINE c == stock.next[FreeList]
           b == BucketOf(key)
<1>2. /\ stock.next \in Links(Heads) /\ Injective(stock.next)
      /\ stock.pages \in SUBSET Pages /\ pages \subseteq stock.pages
      /\ PagesTaken(stock.next, stock.pages)
      /\ c \in Chain(stock.next, FreeList)
      /\ Chain(stock.next, FreeList) = {d \in Cells \ Used : d[1] \in stock.pages}
      /\ \A d \in BucketHeads : Chain(stock.next, d) = Chain(next, d)
  BY StockKept
<1>3. c \in Cells \ Used
  BY <1>2
<1>4. b \in BucketHeads
  OBVIOUS
<1>5. /\ next' \in Links(Heads) /\ Injective(next') /\ PagesTaken(next', pages')
      /\ Chain(next', FreeList) = Chain(stock.next, FreeList) \ {c}
      /\ \A d \in BucketHeads :
            Chain(next', d) = IF d = b THEN Chain(stock.next, d) \cup {c}
                                       ELSE Chain(stock.next, d)
  <2> HIDE DEF b
  <2>1. /\ next' = InsertAfter(Taken(stock.next), b, c)
        /\ pages' = stock.pages
    BY <1>1 DEF b
  <2>2. stock.next[FreeList] = c
    OBVIOUS
  <2> DEFINE nx == stock.next
             pg == stock.pages
  <2>3. nx \in Links(Heads) /\ Injective(nx) /\ PagesTaken(nx, pg)
    BY <1>2
  <2>4. c \in Chain(nx, FreeList) /\ nx[FreeList] = c
    BY <1>2
  <2>5. next' = InsertAfter(Taken(nx), b, c) /\ pages' = pg
    BY <2>1
  <2> HIDE DEF nx, pg, c
  <2>6. /\ next' \in Links(Heads) /\ Injective(next') /\ PagesTaken(next', pg)
        /\ Chain(next', FreeList) = Chain(nx, FreeList) \ {c}
        /\ \A d \in BucketHeads :
              Chain(next', d) = IF d = b THEN Chain(nx, d) \cup {c} ELSE Chain(nx, d)
    BY <1>4, <2>3, <2>4, <2>5, TakenToBucket
  <2> QED BY <2>5, <2>6 DEF nx, pg
<1>6. entry' = [entry EXCEPT ![c] = [key |-> key, value |-> value]] /\ pages' = stock.pages
  BY <1>1
<1> HIDE DEF c, b
<1>7. /\ entry' \in [Cells -> Entry \cup {NULL}]
      /\ entry'[c] = [key |-> key, value |-> value] /\ entry'[c] # NULL
      /\ \A d \in Cells \ {c} : entry'[d] = entry[d]
  <2>1. entry \in [Cells -> Entry \cup {NULL}]
    BY DEF HInv, TypeOK
  <2>2. [key |-> key, value |-> value] \in Entry
    BY DEF Entry
  <2> QED BY <1>3, <1>6, <2>1, <2>2, EntryNotNull
<1>8. Used' = Used \cup {c}
  BY <1>3, <1>7 DEF Used
<1>9. cnt' = cnt + 1 /\ cnt \in Nat /\ Found(key) = {} /\ table /\ table' = table
  BY DEF AddNew, HInv, TypeOK
<1>10. TypeOK'
  <2>1. ret' \in [code : Codes, value : Values \cup {NULL}]
    BY DEF AddNew, Returns, Codes
  <2>2. next' \in [Nodes -> Cells \cup {NULL}]
    BY <1>5 DEF Links
  <2>3. table' \in BOOLEAN /\ cnt' \in Nat /\ pages' \in SUBSET Pages
    BY <1>2, <1>6, <1>9
  <2> QED BY <1>7, <2>1, <2>2, <2>3 DEF TypeOK
<1>11. OnePredecessor'
  <2>1. DOMAIN next' = Nodes
    BY <1>5 DEF Links
  <2> QED BY <1>5, <2>1 DEF OnePredecessor, Injective, PagesTaken
<1>12. NodesAccounted'
  <2>1. Chain(next', FreeList) = {d \in Cells \ Used' : d[1] \in pages'}
    BY <1>2, <1>5, <1>6, <1>8
  <2>2. ASSUME NEW d \in BucketHeads
        PROVE  Chain(next', d) = {e \in Used' : d = BucketOf(entry'[e].key)}
    <3>1. Chain(stock.next, d) = {e \in Used : d = BucketOf(entry[e].key)}
      BY <1>2 DEF HInv, NodesAccounted
    <3>2. \A e \in Used : entry'[e] = entry[e]
      BY <1>3, <1>7 DEF Used
    <3>3. entry'[c].key = key
      BY <1>7
    <3> QED BY <1>5, <1>8, <3>1, <3>2, <3>3 DEF b
  <2> QED BY <2>1, <2>2 DEF NodesAccounted
<1>13. \A d, e \in Used' : entry'[d].key = entry'[e].key => d = e
  <2>1. \A d \in Used : entry'[d].key = entry[d].key /\ entry[d].key # key
    BY <1>3, <1>7, <1>9, FoundAreUsed DEF Used
  <2>2. entry'[c].key = key
    BY <1>7
  <2> QED BY <1>8, <2>1, <2>2 DEF HInv, KeysOnce
<1>14. IsFiniteSet(Used') /\ Cardinality(Used') <= cnt'
  <2>1. IsFiniteSet(Used) /\ Cardinality(Used) <= cnt
    BY DEF HInv, KeysOnce
  <2>2. Cardinality(Used) \in Nat
    BY <2>1, FS_CardinalityType
  <2>3. IsFiniteSet(Used') /\ Cardinality(Used') = Cardinality(Used) + 1
    BY <1>3, <1>8, <2>1, FS_AddElement
  <2> QED BY <1>9, <2>1, <2>2, <2>3
<1> QED BY <1>9, <1>10, <1>11, <1>12, <1>13, <1>14 DEF HInv, KeysOnce, NoTable

LEMMA DelFoundKeeps ==
  ASSUME HInv, NEW key \in Keys, DelFound(key)
  PROVE  HInv'
<1> USE HeadsApart
<1> DEFINE b == BucketOf(key)
<1>1. PICK c \in Found(key), pre \in Nodes :
        /\ next[pre] = c
        /\ next' = Dropped(pre, c)
        /\ entry' = [entry EXCEPT ![c] = NULL]
        /\ ret' = [code |-> "DEL_OK", value |-> entry[c].value]
  BY DEF DelFound, Returns
<1>2. c \in Used /\ c \in Cells /\ c \in Chain(next, b) /\ entry[c] \in Entry
  BY FoundAreUsed DEF Found, Used, HInv, TypeOK
<1>3. next \in Links(Heads) /\ Injective(next) /\ PagesTaken(next, pages)
  BY LinksOfInv
<1>4. /\ next' \in Links(Heads) /\ Injective(next') /\ PagesTaken(next', pages)
      /\ Chain(next', FreeList) = Chain(next, FreeList) \cup {c}
      /\ \A d \in BucketHeads : Chain(next', d) = Chain(next, d) \ {c}
  <2>1. next' = Given(RemoveAfter(next, pre, c), c)
    BY <1>1 DEF Dropped
  <2>2. b \in BucketHeads
    OBVIOUS
  <2> HIDE DEF b
  <2> QED BY <1>1, <1>2, <1>3, <2>1, <2>2, DroppedToFree
<1>5. /\ pages' = pages /\ table' = table /\ cnt' = cnt - 1 /\ table
      /\ table \in BOOLEAN /\ cnt \in Nat /\ pages \in SUBSET Pages
  BY DEF DelFound, HInv, TypeOK
<1>6. /\ entry' \in [Cells -> Entry \cup {NULL}] /\ entry'[c] = NULL
      /\ \A d \in Cells \ {c} : entry'[d] = entry[d]
  BY <1>1, <1>2 DEF HInv, TypeOK
<1> HIDE DEF b
<1>7. Used' = Used \ {c}
  BY <1>2, <1>6 DEF Used
<1>8. IsFiniteSet(Used') /\ Cardinality(Used') <= cnt' /\ cnt' \in Nat
  <2>1. IsFiniteSet(Used) /\ Cardinality(Used) <= cnt
    BY DEF HInv, KeysOnce
  <2>2. IsFiniteSet(Used') /\ Cardinality(Used') = Cardinality(Used) - 1
    BY <1>2, <1>7, <2>1, FS_RemoveElement
  <2>3. Cardinality(Used) \in Nat /\ Cardinality(Used') \in Nat
    BY <2>1, <2>2, FS_CardinalityType
  <2> QED BY <1>5, <2>1, <2>2, <2>3
<1>9. TypeOK'
  <2>1. ret' \in [code : Codes, value : Values \cup {NULL}]
    BY <1>1, <1>2 DEF Entry, Codes
  <2>2. next' \in [Nodes -> Cells \cup {NULL}]
    BY <1>4 DEF Links
  <2> QED BY <1>5, <1>6, <1>8, <2>1, <2>2 DEF TypeOK
<1>10. OnePredecessor'
  <2>1. DOMAIN next' = Nodes
    BY <1>4 DEF Links
  <2> QED BY <1>4, <1>5, <2>1 DEF OnePredecessor, Injective, PagesTaken
<1>11. NodesAccounted'
  <2>1. Chain(next', FreeList) = {d \in Cells \ Used' : d[1] \in pages'}
    <3>1. Chain(next, FreeList) = {d \in Cells \ Used : d[1] \in pages}
      BY DEF HInv, NodesAccounted
    <3>2. c[1] \in pages
      BY <1>2, UsedInPages
    <3> QED BY <1>2, <1>4, <1>5, <1>7, <3>1, <3>2
  <2>2. ASSUME NEW d \in BucketHeads
        PROVE  Chain(next', d) = {e \in Used' : d = BucketOf(entry'[e].key)}
    <3>1. Chain(next, d) = {e \in Used : d = BucketOf(entry[e].key)}
      BY DEF HInv, NodesAccounted
    <3>2. \A e \in Used' : entry'[e] = entry[e]
      BY <1>6, <1>7 DEF Used
    <3> QED BY <1>4, <1>7, <3>1, <3>2
  <2> QED BY <2>1, <2>2 DEF NodesAccounted
<1>12. \A d, e \in Used' : entry'[d].key = entry'[e].key => d = e
  <2>1. \A d \in Used' : entry'[d] = entry[d] /\ d \in Used
    BY <1>6, <1>7 DEF Used
  <2> QED BY <2>1 DEF HInv, KeysOnce
<1> QED BY <1>5, <1>8, <1>9, <1>10, <1>11, <1>12 DEF HInv, KeysOnce, NoTable

LEMMA SeekReturns ==
  ASSUME HInv, NEW key \in Keys, Seek(key)
  PROVE  ret' \in [code : Codes, value : Values \cup {NULL}]
<1>1. CASE Found(key) = {} /\ Returns("SEEK_FAIL", NULL)
  BY <1>1 DEF Returns, Codes
<1>2. CASE \E c \in Found(key) : Returns("SEEK_OK", entry[c].value)
  <2>1. PICK c \in Found(key) : Returns("SEEK_OK", entry[c].value)
    BY <1>2
  <2>2. entry[c] \in Entry
    BY FoundAreUsed DEF HInv, TypeOK, Used
  <2> QED BY <2>1, <2>2 DEF Returns, Codes, Entry
<1> QED BY <1>1, <1>2 DEF Seek

LEMMA StepKeepsInv == HInv /\ [Next]_vars => HInv'
<1> SUFFICES ASSUME HInv, [Next]_vars PROVE HInv'
  OBVIOUS
<1>1. table \in BOOLEAN /\ cnt \in Nat /\ ret \in [code : Codes, value : Values \cup {NULL}]
  BY DEF HInv, TypeOK
<1>2. CASE UNCHANGED vars
  <2>1. UNCHANGED <<next, pages, entry, cnt>> /\ ret' = ret /\ table' = table
    BY <1>2 DEF vars
  <2> QED BY <1>1, <2>1, QuietKeeps
<1>3. CASE HashInit
  <2>1. /\ UNCHANGED <<next, pages, entry, cnt>> /\ table'
        /\ ret' \in [code : Codes, value : Values \cup {NULL}] /\ table' \in BOOLEAN
    BY <1>3 DEF HashInit, Returns, Codes
  <2> QED BY <2>1, QuietKeeps
<1>4. CASE HashFree
  <2>1. /\ next' = Unlinked /\ pages' = {} /\ entry' = [c \in Cells |-> NULL]
        /\ cnt' \in Nat /\ table' \in BOOLEAN
        /\ ret' \in [code : Codes, value : Values \cup {NULL}]
    BY <1>4 DEF HashFree, Returns, Codes
  <2> QED BY <2>1, EmptiedKeeps
<1>5. CASE HashRenew
  <2>1. /\ pages' = {} /\ entry' = [c \in Cells |-> NULL]
        /\ cnt' \in Nat /\ table' \in BOOLEAN
        /\ ret' \in [code : Codes, value : Values \cup {NULL}]
    BY <1>1, <1>5 DEF HashRenew, Returns, Codes
  <2> QED BY <1>5, <2>1, RenewEmpties, EmptiedKeeps
<1>6. ASSUME NEW key \in Keys, NEW value \in Values, AddNew(key, value) PROVE HInv'
  BY <1>6, AddNewKeeps
<1>7. ASSUME NEW key \in Keys, NEW value \in Values, NEW ow \in BOOLEAN,
             AddFound(key, value, ow)
      PROVE  HInv'
  BY <1>7, AddFoundKeeps
<1>8. ASSUME NEW key \in Keys, AddFail(key) PROVE HInv'
  <2>1. /\ UNCHANGED <<next, pages, entry, cnt>> /\ table' = table
        /\ ret' \in [code : Codes, value : Values \cup {NULL}]
    BY <1>8 DEF AddFail, Returns, Codes
  <2> QED BY <1>1, <2>1, QuietKeeps
<1>9. ASSUME NEW key \in Keys, Seek(key) PROVE HInv'
  <2>1. /\ UNCHANGED <<next, pages, entry, cnt>> /\ table' = table
        /\ ret' \in [code : Codes, value : Values \cup {NULL}]
    BY <1>9, SeekReturns DEF Seek
  <2> QED BY <1>1, <2>1, QuietKeeps
<1>10. ASSUME NEW key \in Keys, DelFound(key) PROVE HInv'
  BY <1>10, DelFoundKeeps
<1>11. ASSUME NEW key \in Keys, DelNotFound(key) PROVE HInv'
  <2>1. /\ UNCHANGED <<next, pages, entry, cnt>> /\ table' = table
        /\ ret' \in [code : Codes, value : Values \cup {NULL}]
    BY <1>11 DEF DelNotFound, Returns, Codes
  <2> QED BY <1>1, <2>1, QuietKeeps
<1> QED
  BY <1>2, <1>3, <1>4, <1>5, <1>6, <1>7, <1>8, <1>9, <1>10, <1>11 DEF Next

LEMMA InvHolds == Spec => []HInv
BY InitInv, StepKeepsInv, PTL DEF Spec

(* Every link is that of a head or an element, and _node_cnt does not go   *)
(* below zero.                                                             *)
THEOREM TypeCorrect == Spec => []TypeOK
<1>1. HInv => TypeOK
  BY DEF HInv
<1> QED BY <1>1, InvHolds, PTL

(* The free list and the buckets never run together, into themselves or    *)
(* into a page that was given back: mp_alloc, mp_free, ex_hash_add and     *)
(* ex_hash_del may share the link words.                                   *)
THEOREM ListsApart == Spec => []OnePredecessor
<1>1. HInv => OnePredecessor
  BY DEF HInv
<1> QED BY <1>1, InvHolds, PTL

(* No element of the pool is lost or is in two places, and each node is in *)
(* the bucket in which ex_hash_seek and ex_hash_del look for its key.      *)
THEOREM NothingLost == Spec => []NodesAccounted
<1>1. HInv => NodesAccounted
  BY DEF HInv
<1> QED BY <1>1, InvHolds, PTL

(* ex_hash_add never makes a second node for a key, and _node_cnt is never *)
(* below the number of nodes, although ex_hash_renew does not reset it.    *)
THEOREM OneNodePerKey == Spec => []KeysOnce
<1>1. HInv => KeysOnce
  BY DEF HInv
<1> QED BY <1>1, InvHolds, PTL

-----------------------------------------------------------------------------
(* The function that the table stands for. *)
Mapped == [key \in Keys |-> Lookup(key)]

LookupAgrees ==
    \A key \in Keys :
        /\ \A c \in Used : entry[c].key = key => Lookup(key) = entry[c].value
        /\ (\A c \in Used : entry[c].key # key) => Lookup(key) = NULL

LEMMA LookupOfInv == HInv => LookupAgrees
<1> SUFFICES ASSUME HInv, NEW key \in Keys
             PROVE  /\ \A c \in Used : entry[c].key = key => Lookup(key) = entry[c].value
                    /\ (\A c \in Used : entry[c].key # key) => Lookup(key) = NULL
  BY DEF LookupAgrees
<1>1. Found(key) = {c \in Used : entry[c].key = key}
  BY FoundAreUsed
<1>2. ASSUME NEW c \in Used, entry[c].key = key PROVE Lookup(key) = entry[c].value
  <2>1. c \in Found(key)
    BY <1>1, <1>2
  <2>2. \A d \in Found(key) : d = c
    BY <1>1, <1>2 DEF HInv, KeysOnce
  <2>3. (CHOOSE d \in Found(key) : TRUE) = c
    BY <2>1, <2>2
  <2> QED BY <2>1, <2>3 DEF Lookup
<1>3. ASSUME \A c \in Used : entry[c].key # key PROVE Lookup(key) = NULL
  <2>1. Found(key) = {}
    BY <1>1, <1>3
  <2> QED BY <2>1 DEF Lookup
<1> QED BY <1>2, <1>3

LEMMA LookupOfNextInv == HInv' => LookupAgrees'
BY LookupOfInv, PTL

(* What a step does to the nodes tells what it does to the function. *)
LEMMA SameMapped ==
  ASSUME HInv, HInv', Used' = Used, \A c \in Used : entry'[c] = entry[c]
  PROVE  Mapped' = Mapped
<1>1. LookupAgrees /\ LookupAgrees'
  BY LookupOfInv, LookupOfNextInv
<1>2. ASSUME NEW key \in Keys PROVE Lookup(key)' = Lookup(key)
  <2>1. CASE \E c \in Used : entry[c].key = key
    <3>1. PICK c \in Used : entry[c].key = key
      BY <2>1
    <3>2. Lookup(key) = entry[c].value
      BY <1>1, <3>1 DEF LookupAgrees
    <3>3. c \in Used' /\ entry'[c].key = key /\ entry'[c].value = entry[c].value
      BY <3>1
    <3>4. Lookup(key)' = entry'[c].value
      BY <1>1, <3>3 DEF LookupAgrees
    <3> QED BY <3>2, <3>3, <3>4
  <2>2. CASE \A c \in Used : entry[c].key # key
    <3>1. \A c \in Used' : entry'[c].key # key
      BY <2>2
    <3> QED BY <1>1, <2>2, <3>1 DEF LookupAgrees
  <2> QED BY <2>1, <2>2
<1> QED BY <1>2 DEF Mapped

LEMMA NoneMapped ==
  ASSUME HInv', Used' = {}
  PROVE  Mapped' = [key \in Keys |-> NULL]
<1>1. LookupAgrees'
  BY LookupOfNextInv
<1>2. \A key \in Keys : Lookup(key)' = NULL
  BY <1>1 DEF LookupAgrees
<1> QED BY <1>2 DEF Mapped

(* The node c becomes, or goes on to be, that of a key. *)
LEMMA OneMapped ==
  ASSUME HInv, HInv', NEW key \in Keys, NEW value, NEW c \in Cells,
         c \in Used' /\ entry'[c].key = key /\ entry'[c].value = value,
         Used' = Used \cup {c}, \A d \in Used \ {c} : entry'[d] = entry[d],
         c \in Used => entry[c].key = key
  PROVE  Mapped' = [Mapped EXCEPT ![key] = value]
<1>1. LookupAgrees /\ LookupAgrees'
  BY LookupOfInv, LookupOfNextInv
<1>2. Lookup(key)' = value
  BY <1>1 DEF LookupAgrees
<1>3. ASSUME NEW k \in Keys, k # key PROVE Lookup(k)' = Lookup(k)
  <2>1. CASE \E d \in Used : entry[d].key = k
    <3>1. PICK d \in Used : entry[d].key = k
      BY <2>1
    <3>2. d # c
      BY <1>3, <3>1
    <3>3. Lookup(k) = entry[d].value
      BY <1>1, <3>1 DEF LookupAgrees
    <3>4. d \in Used' /\ entry'[d].key = k /\ entry'[d].value = entry[d].value
      BY <3>1, <3>2
    <3>5. Lookup(k)' = entry'[d].value
      BY <1>1, <3>4 DEF LookupAgrees
    <3> QED BY <3>3, <3>4, <3>5
  <2>2. CASE \A d \in Used : entry[d].key # k
    <3>1. \A d \in Used' : entry'[d].key # k
      BY <1>3, <2>2
    <3> QED BY <1>1, <2>2, <3>1 DEF LookupAgrees
  <2> QED BY <2>1, <2>2
<1> QED BY <1>2, <1>3 DEF Mapped

LEMMA OneUnmapped ==
  ASSUME HInv, HInv', NEW key \in Keys, NEW c \in Used, entry[c].key = key,
         Used' = Used \ {c}, \A d \in Used' : entry'[d] = entry[d]
  PROVE  Mapped' = [Mapped EXCEPT ![key] = NULL]
<1>1. LookupAgrees /\ LookupAgrees'
  BY LookupOfInv, LookupOfNextInv
<1>2. Lookup(key)' = NULL
  <2>1. \A d \in Used' : entry'[d].key # key
    BY DEF HInv, KeysOnce
  <2> QED BY <1>1, <2>1 DEF LookupAgrees
<1>3. ASSUME NEW k \in Keys, k # key PROVE Lookup(k)' = Lookup(k)
  <2>1. CASE \E d \in Used : entry[d].key = k
    <3>1. PICK d \in Used : entry[d].key = k
      BY <2>1
    <3>2. d # c
      BY <1>3, <3>1
    <3>3. Lookup(k) = entry[d].value
      BY <1>1, <3>1 DEF LookupAgrees
    <3>4. d \in Used' /\ entry'[d].key = k /\ entry'[d].value = entry[d].value
      BY <3>1, <3>2
    <3>5. Lookup(k)' = entry'[d].value
      BY <1>1, <3>4 DEF LookupAgrees
    <3> QED BY <3>3, <3>4, <3>5
  <2>2. CASE \A d \in Used : entry[d].key # k
    <3>1. \A d \in Used' : entry'[d].key # k
      BY <2>2
    <3> QED BY <1>1, <2>2, <3>1 DEF LookupAgrees
  <2> QED BY <2>1, <2>2
<1> QED BY <1>2, <1>3 DEF Mapped

(* A key that is found has its value, one that is not has none. *)
LEMMA FoundMapped ==
  ASSUME HInv, NEW key \in Keys
  PROVE  /\ \A c \in Found(key) : Mapped[key] = entry[c].value /\ entry[c].value # NULL
         /\ Found(key) = {} => Mapped[key] = NULL
<1>1. LookupAgrees
  BY LookupOfInv
<1>2. Found(key) = {c \in Used : entry[c].key = key}
  BY FoundAreUsed
<1>3. Mapped[key] = Lookup(key)
  BY DEF Mapped
<1>4. \A c \in Used : entry[c].value # NULL
  <2>1. \A c \in Used : entry[c] \in Entry
    BY DEF HInv, TypeOK, Used
  <2> QED BY <2>1, HashAssumption DEF HashAssumption, Entry
<1> QED BY <1>1, <1>2, <1>3, <1>4 DEF LookupAgrees

-----------------------------------------------------------------------------
LEMMA InitMaps == Init => Api!Init
<1> SUFFICES ASSUME Init PROVE Api!Init
  OBVIOUS
<1>1. \A key \in Keys : Found(key) = {}
  <2>1. \A c \in Cells : entry[c] = NULL
    BY DEF Init
  <2>2. \A key \in Keys : Chain(next, BucketOf(key)) \subseteq Cells
    BY DEF Chain
  <2> QED BY <2>1, <2>2 DEF Found
<1>2. [key \in Keys |-> Lookup(key)] = [key \in Keys |-> NULL]
  BY <1>1 DEF Lookup
<1> QED BY <1>2 DEF Init, Api!Init, Api!Empty

LEMMA StepMaps == HInv /\ HInv' /\ [Next]_vars => [Api!Next]_Api!vars
<1> SUFFICES ASSUME HInv, HInv', [Next]_vars PROVE [Api!Next]_Api!vars
  OBVIOUS
<1>0. Mapped = [key \in Keys |-> Lookup(key)] /\ Mapped' = [key \in Keys |-> Lookup(key)']
  BY DEF Mapped
(* A step that leaves the nodes alone leaves the function alone. *)
<1>1. entry' = entry => Mapped' = Mapped
  BY SameMapped DEF Used
<1>2. CASE UNCHANGED vars
  BY <1>0, <1>1, <1>2 DEF vars, Api!vars
<1>3. CASE HashInit
  <2>1. Used = {} /\ Used' = {}
    BY <1>3 DEF HashInit, HInv, NoTable, Used
  <2>2. Mapped' = [key \in Keys |-> NULL]
    BY <2>1, NoneMapped
  <2>3. Api!Make
    BY <1>0, <1>3, <2>2 DEF HashInit, Returns, Api!Make, Api!Returns, Api!Empty
  <2> QED BY <2>3 DEF Api!Next
<1>4. CASE HashFree
  <2>1. Used' = {}
    BY <1>4 DEF HashFree, Used
  <2>2. Mapped' = [key \in Keys |-> NULL]
    BY <2>1, NoneMapped
  <2>3. Api!Free
    BY <1>0, <1>4, <2>2 DEF HashFree, Returns, Api!Free, Api!Returns, Api!Empty
  <2> QED BY <2>3 DEF Api!Next
<1>5. CASE HashRenew
  <2>1. Used' = {}
    BY <1>5 DEF HashRenew, Used
  <2>2. Mapped' = [key \in Keys |-> NULL]
    BY <2>1, NoneMapped
  <2>3. Api!Renew
    BY <1>0, <1>5, <2>2 DEF HashRenew, Returns, Api!Renew, Api!Returns, Api!Empty
  <2> QED BY <2>3 DEF Api!Next
<1>6. ASSUME NEW key \in Keys, NEW value \in Values, AddNew(key, value)
      PROVE  Api!Next
  <2>1. PICK stock \in Stocks(next, pages) :
            entry' = [entry EXCEPT ![stock.next[FreeList]] = [key |-> key, value |-> value]]
    BY <1>6 DEF AddNew
  <2>2. PICK c \in Cells \ Used :
            entry' = [entry EXCEPT ![c] = [key |-> key, value |-> value]]
    BY <2>1, StockKept
  <2>3. /\ entry'[c] = [key |-> key, value |-> value]
        /\ \A d \in Cells \ {c} : entry'[d] = entry[d]
    BY <2>2 DEF HInv, TypeOK
  <2>4. c \in Used' /\ Used' = Used \cup {c} /\ \A d \in Used \ {c} : entry'[d] = entry[d]
    <3>1. entry'[c] # NULL
      BY <2>3, EntryNotNull DEF Entry
    <3> QED BY <2>2, <2>3, <3>1 DEF Used
  <2>5. Mapped' = [Mapped EXCEPT ![key] = value]
    BY <2>2, <2>3, <2>4, OneMapped
  <2>6. Mapped[key] = NULL
    BY <1>6, FoundMapped DEF AddNew
  <2>7. Api!Add(key, value, TRUE)
    BY <1>0, <1>6, <2>5, <2>6 DEF AddNew, Returns, Api!Add, Api!Returns
  <2> QED BY <2>7 DEF Api!Next
<1>7. ASSUME NEW key \in Keys, NEW value \in Values, NEW ow \in BOOLEAN,
             AddFound(key, value, ow)
      PROVE  Api!Next
  <2>1. PICK c \in Found(key) : AddedAgain(c, value, ow)
    BY <1>7 DEF AddFound
  <2>2. c \in Used /\ c \in Cells /\ entry[c] \in Entry /\ entry[c].key = key
    BY FoundAreUsed DEF HInv, TypeOK, Used
  <2>3. Mapped[key] # NULL
    BY FoundMapped
  <2>4. CASE ow
    <3>1. entry' = [entry EXCEPT ![c].value = value] /\ Returns("OVERWRITE", NULL)
      BY <2>1, <2>4 DEF AddedAgain
    <3>2. /\ entry'[c].key = key /\ entry'[c].value = value
          /\ \A d \in Cells \ {c} : entry'[d] = entry[d]
      BY <2>2, <3>1 DEF HInv, TypeOK, Entry
    <3>3. Used' = Used
      <4>1. entry'[c] # NULL
        <5>1. entry'[c] = [entry[c] EXCEPT !.value = value]
          BY <2>2, <3>1 DEF HInv, TypeOK
        <5>2. entry'[c] \in Entry
          BY <2>2, <5>1 DEF Entry
        <5> QED BY <5>2, EntryNotNull
      <4> QED BY <2>2, <3>2, <4>1 DEF Used
    <3>4. Mapped' = [Mapped EXCEPT ![key] = value]
      BY <2>2, <3>2, <3>3, OneMapped DEF Used
    <3>5. Api!Add(key, value, TRUE)
      BY <1>0, <1>7, <2>3, <3>1, <3>4 DEF AddFound, Returns, Api!Add, Api!Returns
    <3> QED BY <3>5 DEF Api!Next
  <2>5. CASE ~ow
    <3>1. entry' = entry /\ Returns("EXIST", NULL)
      BY <2>1, <2>5 DEF AddedAgain
    <3>2. Api!Add(key, value, FALSE)
      BY <1>0, <1>1, <1>7, <2>3, <3>1 DEF AddFound, Returns, Api!Add, Api!Returns
    <3> QED BY <3>2 DEF Api!Next
  <2> QED BY <2>4, <2>5
<1>8. ASSUME NEW key \in Keys, NEW value \in Values, AddFail(key) PROVE Api!Next
  <2>1. Mapped[key] = NULL /\ Mapped' = Mapped
    BY <1>1, <1>8, FoundMapped DEF AddFail
  <2>2. Api!Add(key, value, TRUE)
    BY <1>0, <1>8, <2>1 DEF AddFail, Returns, Api!Add, Api!Returns
  <2> QED BY <2>2 DEF Api!Next
<1>9. ASSUME NEW key \in Keys, Seek(key) PROVE Api!Next
  <2>1. Mapped' = Mapped /\ table /\ table' = table
    BY <1>1, <1>9 DEF Seek
  <2>2. CASE Found(key) = {} /\ Returns("SEEK_FAIL", NULL)
    <3>1. Mapped[key] = NULL
      BY <2>2, FoundMapped
    <3>2. Api!Seek(key)
      BY <1>0, <2>1, <2>2, <3>1 DEF Returns, Api!Seek, Api!Returns
    <3> QED BY <3>2 DEF Api!Next
  <2>3. CASE \E c \in Found(key) : Returns("SEEK_OK", entry[c].value)
    <3>1. Mapped[key] # NULL /\ Returns("SEEK_OK", Mapped[key])
      BY <2>3, FoundMapped
    <3>2. Api!Seek(key)
      BY <1>0, <2>1, <3>1 DEF Returns, Api!Seek, Api!Returns
    <3> QED BY <3>2 DEF Api!Next
  <2> QED BY <1>9, <2>2, <2>3 DEF Seek
<1>10. ASSUME NEW key \in Keys, DelFound(key) PROVE Api!Next
  <2>1. PICK c \in Found(key) :
            entry' = [entry EXCEPT ![c] = NULL] /\ Returns("DEL_OK", entry[c].value)
    BY <1>10 DEF DelFound
  <2>2. c \in Used /\ c \in Cells /\ entry[c].key = key
    BY FoundAreUsed DEF Used
  <2>3. entry'[c] = NULL /\ \A d \in Cells \ {c} : entry'[d] = entry[d]
    BY <2>1, <2>2 DEF HInv, TypeOK
  <2>4. Used' = Used \ {c} /\ \A d \in Used' : entry'[d] = entry[d]
    BY <2>2, <2>3 DEF Used
  <2>5. Mapped' = [Mapped EXCEPT ![key] = NULL]
    BY <2>2, <2>4, OneUnmapped
  <2>6. Mapped[key] # NULL /\ Returns("DEL_OK", Mapped[key])
    BY <2>1, FoundMapped
  <2>7. Api!Del(key)
    BY <1>0, <1>10, <2>5, <2>6 DEF DelFound, Returns, Api!Del, Api!Returns
  <2> QED BY <2>7 DEF Api!Next
<1>11. ASSUME NEW key \in Keys, DelNotFound(key) PROVE Api!Next
  <2>1. Mapped[key] = NULL /\ Mapped' = Mapped
    BY <1>1, <1>11, FoundMapped DEF DelNotFound
  <2>2. Mapped' = [Mapped EXCEPT ![key] = NULL]
    BY <2>1 DEF Mapped
  <2>3. Api!Del(key)
    BY <1>0, <1>11, <2>1, <2>2 DEF DelNotFound, Returns, Api!Del, Api!Returns
  <2> QED BY <2>3 DEF Api!Next
<1> QED
  BY <1>2, <1>3, <1>4, <1>5, <1>6, <1>7, <1>8, <1>9, <1>10, <1>11 DEF Next

(* The calls of hash.h return what the partial function of HashApi says,   *)
(* for any hash function, number of buckets and memory.                    *)
THEOREM TableIsFunction == Spec => ImplementsApi
<1>1. Spec => Api!Init /\ [][Api!Next]_Api!vars
  BY InvHolds, InitMaps, StepMaps, PTL DEF Spec
<1> QED BY <1>1 DEF ImplementsApi, Api!Spec
=============================================================================
