--------------------------------- MODULE Hash ---------------------------------
(***************************************************************************)
(* The hash table of hash.c.  Its nodes are elements of a memory pool; a   *)
(* node is a link, a key and a value.  The table of exnet.c maps a file    *)
(* descriptor to its stub.                                                 *)
(***************************************************************************)
EXTENDS MemPool

CONSTANTS
    Keys, Values,
    HashFun,    \* _hash_fun, as a function
    BucketNum,  \* _bucket_num
    CountLimit  \* bound: the table is emptied while _node_cnt is at most this

Entry == [key : Keys, value : Values]

HashAssumption ==
    /\ HashFun \in [Keys -> Nat]
    /\ BucketNum \in Nat \ {0}
    /\ NULL \notin Values \cup Entry
    /\ CountLimit \in Nat
ASSUME HashAssumption

VARIABLES
    next,   \* the link of every head and element
    pages,  \* _pages of the pool
    entry,  \* the key and value of each element; NULL: what is there has no meaning
    cnt,    \* _node_cnt
    table,  \* whether there is a table: between ex_hash_init and ex_hash_free
    ret     \* what the last call returned: a code and, if the code gives one, a value

vars == <<next, pages, entry, cnt, table, ret>>

Returns(code, value) == ret' = [code |-> code, value |-> value]

BucketHead(i) == <<"bucket", i>>
BucketHeads == {BucketHead(i) : i \in 0..(BucketNum - 1)}
Nodes == {FreeList} \cup BucketHeads \cup Cells

BucketOf(key) == BucketHead(HashFun[key] % BucketNum)

(* The nodes of its bucket in which the key is found; slip: no walk. *)
FoundNot(key) == {}
Found(key) ==
    {c \in Chain(next, BucketOf(key)) : entry[c] # NULL /\ entry[c].key = key}

Unlinked == [n \in Nodes |-> NULL]

Init ==
    /\ next = Unlinked /\ pages = {} /\ entry = [c \in Cells |-> NULL]
    /\ cnt = 0 /\ table = FALSE
    /\ ret = [code |-> "NONE", value |-> NULL]

-----------------------------------------------------------------------------
(* ex_hash_init, with mp_init; if that fails there is no table. *)
HashInit ==
    /\ ~table
    /\ table' = TRUE
    /\ Returns("INIT", NULL)
    /\ UNCHANGED <<next, pages, entry, cnt>>

(* ex_hash_free, with mp_close. *)
HashFree ==
    /\ table
    /\ table' = FALSE
    /\ next' = Unlinked /\ pages' = {} /\ entry' = [c \in Cells |-> NULL]
    /\ cnt' = 0
    /\ Returns("FREE", NULL)

(* ex_hash_renew, with mp_renew: _node_cnt stays as it is.  Slip: the heads *)
(* of the buckets are not reset.                                           *)
RenewKeepsHeads ==
    /\ table /\ cnt <= CountLimit
    /\ next' = Emptied(next)
    /\ pages' = {} /\ entry' = [c \in Cells |-> NULL]
    /\ Returns("RENEW", NULL)
    /\ UNCHANGED <<cnt, table>>
HashRenew ==
    /\ table /\ cnt <= CountLimit
    /\ next' = Emptied([n \in Nodes |-> IF n \in BucketHeads THEN NULL ELSE next[n]])
    /\ pages' = {} /\ entry' = [c \in Cells |-> NULL]
    /\ Returns("RENEW", NULL)
    /\ UNCHANGED <<cnt, table>>

-----------------------------------------------------------------------------
(* What becomes of the node of a key that is there; slip: it is written    *)
(* before ow is looked at.                                                 *)
AlwaysWritten(c, value, ow) ==
    /\ entry' = [entry EXCEPT ![c].value = value]
    /\ Returns(IF ow THEN "OVERWRITE" ELSE "EXIST", NULL)
AddedAgain(c, value, ow) ==
    IF ow
    THEN entry' = [entry EXCEPT ![c].value = value] /\ Returns("OVERWRITE", NULL)
    ELSE entry' = entry /\ Returns("EXIST", NULL)

(* ex_hash_add of a key that is there; ow: overwrite its value. *)
AddFound(key, value, ow) ==
    /\ table
    /\ \E c \in Found(key) : AddedAgain(c, value, ow)
    /\ UNCHANGED <<next, pages, cnt, table>>

(* ex_hash_add of a new key: the first free element becomes the first node *)
(* of the bucket.                                                          *)
AddNew(key, value) ==
    /\ table
    /\ Found(key) = {}
    /\ \E stock \in Stocks(next, pages) :
        LET c == stock.next[FreeList] IN
        /\ next' = InsertAfter(Taken(stock.next), BucketOf(key), c)
        /\ pages' = stock.pages
        /\ entry' = [entry EXCEPT ![c] = [key |-> key, value |-> value]]
    /\ cnt' = cnt + 1
    /\ Returns("ADD_OK", NULL)
    /\ UNCHANGED table

(* ex_hash_add when no element is free and malloc returns NULL. *)
AddFail(key) ==
    /\ table
    /\ Found(key) = {}
    /\ next[FreeList] = NULL
    /\ Returns("ADD_FAIL", NULL)
    /\ UNCHANGED <<next, pages, entry, cnt, table>>

(* ex_hash_seek *)
Seek(key) ==
    /\ table
    /\ \/ \E c \in Found(key) : Returns("SEEK_OK", entry[c].value)
       \/ Found(key) = {} /\ Returns("SEEK_FAIL", NULL)
    /\ UNCHANGED <<next, pages, entry, cnt, table>>

(* SLIST_REMOVE and mp_free, as ex_hash_del calls them, of the node c and  *)
(* the one before it; slip: the other way round.                           *)
DroppedLate(pre, c) == RemoveAfter(Given(next, c), pre, c)
Dropped(pre, c) == Given(RemoveAfter(next, pre, c), c)

(* ex_hash_del *)
DelFound(key) ==
    /\ table
    /\ \E c \in Found(key), pre \in Nodes :
        /\ next[pre] = c /\ pre \in Chain(next, BucketOf(key)) \cup {BucketOf(key)}
        /\ next' = Dropped(pre, c)
        /\ entry' = [entry EXCEPT ![c] = NULL]
        /\ Returns("DEL_OK", entry[c].value)
    /\ cnt' = cnt - 1
    /\ UNCHANGED <<pages, table>>

(* Slip: the node is counted out although there was none. *)
DelCountsAnyway(key) ==
    /\ table
    /\ Found(key) = {}
    /\ Returns("DEL_FAIL", NULL)
    /\ cnt' = cnt - 1
    /\ UNCHANGED <<next, pages, entry, table>>
DelNotFound(key) ==
    /\ table
    /\ Found(key) = {}
    /\ Returns("DEL_FAIL", NULL)
    /\ UNCHANGED <<next, pages, entry, cnt, table>>

Next ==
    \/ HashInit \/ HashFree \/ HashRenew
    \/ \E key \in Keys :
        \/ \E value \in Values :
            \/ AddNew(key, value) \/ AddFail(key)
            \/ \E ow \in BOOLEAN : AddFound(key, value, ow)
        \/ Seek(key)
        \/ DelFound(key) \/ DelNotFound(key)

Spec == Init /\ [][Next]_vars
=============================================================================
