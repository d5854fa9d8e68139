------------------------------- MODULE MemPool -------------------------------
(***************************************************************************)
(* The pool of mempool.c: elements of one size that are cut from pages and *)
(* kept, while they are free, in a singly linked list (slist.h) whose      *)
(* links lie in the elements themselves.  The links of all lists, those of *)
(* the pool's user too, are one function from list heads and elements to   *)
(* elements or NULL; the operators take it as an argument.                 *)
(***************************************************************************)
EXTENDS Integers, FiniteSets

CONSTANTS
    Pages,     \* the pages that malloc may return
    NULL,
    Word,      \* sizeof(void *)
    HeadSize,  \* sizeof(__page_head_t)
    PageSize,  \* __mp_g_page_size
    ElemSize   \* the argument of mp_init

PoolAssumption ==
    /\ Word \in Nat \ {0} /\ HeadSize \in Nat /\ ElemSize \in Nat \ {0}
    /\ PageSize \in Nat /\ HeadSize < PageSize
    /\ "free" \notin Pages /\ "bucket" \notin Pages
    /\ NULL \notin Pages \X Nat
ASSUME PoolAssumption

-----------------------------------------------------------------------------
(* mp_init makes the size a multiple of that of a pointer. *)
Padded(size) ==
    IF size % Word # 0 THEN (size \div Word + 1) * Word ELSE size

(* A page holds as many elements as fit after its head; an element that is *)
(* larger than that gets a page of its own.                                *)
Room == PageSize - HeadSize
ElemNum(size) == IF size > Room THEN 1 ELSE Room \div size
PageBytes(size) == IF size > Room THEN size + HeadSize ELSE PageSize
Offset(i, size) == HeadSize + (i * size)

Last == ElemNum(Padded(ElemSize)) - 1
Cells == Pages \X (0..Last)

-----------------------------------------------------------------------------
FreeList == <<"free", 0>>  \* _free_list

(* SLIST_INSERT_A *)
InsertAfter(nx, pre, cur) == [nx EXCEPT ![cur] = nx[pre], ![pre] = cur]

(* SLIST_REMOVE *)
RemoveAfter(nx, pre, cur) == [nx EXCEPT ![pre] = nx[cur], ![cur] = NULL]

(* The elements that a walk along SLIST_NEXT from a head meets: those in   *)
(* every set that the walk cannot leave.                                   *)
Walkable(nx, head) ==
    {S \in SUBSET Cells : /\ nx[head] = NULL \/ nx[head] \in S
                          /\ \A m \in S : nx[m] = NULL \/ nx[m] \in S}

Chain(nx, head) == {c \in Cells : \A S \in Walkable(nx, head) : c \in S}

-----------------------------------------------------------------------------
(* mp_alloc pushes the elements of a new page to the free list one by one. *)
Threaded(nx, p) ==
    [n \in DOMAIN nx |->
        IF n = FreeList THEN <<p, Last>>
        ELSE IF n \in {p} \X (0..Last)
             THEN IF n[2] = 0 THEN nx[FreeList] ELSE <<p, n[2] - 1>>
             ELSE nx[n]]

(* What mp_alloc takes the first free element from: the list as it is, or  *)
(* with one more page if it was empty.  There may be none.                 *)
Stocks(nx, pages) ==
    IF nx[FreeList] # NULL
    THEN {[next |-> nx, pages |-> pages]}
    ELSE {[next |-> Threaded(nx, p), pages |-> pages \cup {p}] : p \in Pages \ pages}

(* mp_alloc: the first free element is taken off the list. *)
Taken(nx) == RemoveAfter(nx, FreeList, nx[FreeList])

(* mp_free *)
Given(nx, c) == InsertAfter(nx, FreeList, c)

(* mp_renew gives all pages back; what was in them is gone. *)
Emptied(nx) ==
    [n \in DOMAIN nx |-> IF n \in Cells \cup {FreeList} THEN NULL ELSE nx[n]]
=============================================================================
