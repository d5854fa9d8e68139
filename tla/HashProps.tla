------------------------------ MODULE HashProps ------------------------------
(* Properties of the hash table and of the pool under it. *)
EXTENDS Hash

Used == {c \in Cells : entry[c] # NULL}

Codes ==
    {"NONE", "INIT", "FREE", "RENEW", "ADD_OK", "ADD_FAIL", "OVERWRITE", "EXIST",
     "SEEK_OK", "SEEK_FAIL", "DEL_OK", "DEL_FAIL"}

(***************************************************************************)
(* Types.                                                                  *)
(***************************************************************************)
TypeOK ==
    /\ next \in [Nodes -> Cells \cup {NULL}]
    /\ pages \in SUBSET Pages
    /\ entry \in [Cells -> Entry \cup {NULL}]
    /\ cnt \in Nat
    /\ table \in BOOLEAN
    /\ ret \in [code : Codes, value : Values \cup {NULL}]

(* The link words of slist.h are the pool's and the table's in turn        *)
(* (mp_free and mp_alloc, ex_hash_add and ex_hash_del): no two lists run   *)
(* together, none runs in a circle or into a page that mp_renew has given  *)
(* back.                                                                   *)
OnePredecessor ==
    /\ \A m, n \in Nodes : next[m] = next[n] /\ next[m] # NULL => m = n
    /\ \A n \in Nodes : next[n] # NULL => next[n][1] \in pages

(* Every element of the pool's pages is in exactly one place: in the free  *)
(* list, or in the bucket that ex_hash_add chose and ex_hash_seek and      *)
(* ex_hash_del will walk for its key.  So none is lost, or handed out      *)
(* while it is a node.                                                     *)
NodesAccounted ==
    /\ Chain(next, FreeList) = {c \in Cells \ Used : c[1] \in pages}
    /\ \A b \in BucketHeads :
        Chain(next, b) = {c \in Used : b = BucketOf(entry[c].key)}

(* A key is in the table once (ex_hash_add walks the bucket first), and    *)
(* _node_cnt is never too small, even after ex_hash_renew, which does not  *)
(* reset it.                                                               *)
KeysOnce ==
    /\ \A c, d \in Used : entry[c].key = entry[d].key => c = d
    /\ Cardinality(Used) <= cnt

(* The table is the partial function that hash.h promises, and its calls   *)
(* return what that function says.                                         *)
Lookup(key) ==
    LET found == Found(key) IN
    IF found = {} THEN NULL ELSE entry[CHOOSE c \in found : TRUE].value

Api == INSTANCE HashApi WITH map <- [key \in Keys |-> Lookup(key)]
ImplementsApi == Api!Spec
=============================================================================
