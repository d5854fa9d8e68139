------------------------------- MODULE HashApi -------------------------------
(***************************************************************************)
(* What the users of hash.h take a hash table for: a partial function from *)
(* keys to values, and the codes that the calls return.                    *)
(***************************************************************************)
CONSTANTS Keys, Values, NULL

VARIABLES
    map,    \* the value of each key, NULL: it has none
    table,  \* whether there is a table
    ret     \* what the last call returned

vars == <<map, table, ret>>

Empty == [key \in Keys |-> NULL]
Returns(code, value) == ret' = [code |-> code, value |-> value]

Init == map = Empty /\ table = FALSE /\ ret = [code |-> "NONE", value |-> NULL]

Make == ~table /\ table' /\ Returns("INIT", NULL) /\ map' = Empty
Free == table /\ ~table' /\ Returns("FREE", NULL) /\ map' = Empty
Renew == table /\ UNCHANGED table /\ Returns("RENEW", NULL) /\ map' = Empty

(* A new key is added unless there is no memory; the value of one that is  *)
(* there is kept or, if the caller says so, overwritten.                   *)
Add(key, value, ow) ==
    /\ table /\ UNCHANGED table
    /\ \/ /\ Returns("ADD_OK", NULL)
          /\ map[key] = NULL /\ map' = [map EXCEPT ![key] = value]
       \/ /\ Returns("ADD_FAIL", NULL)
          /\ map[key] = NULL /\ map' = map
       \/ /\ ow /\ Returns("OVERWRITE", NULL)
          /\ map[key] # NULL /\ map' = [map EXCEPT ![key] = value]
       \/ /\ ~ow /\ Returns("EXIST", NULL)
          /\ map[key] # NULL /\ map' = map

Seek(key) ==
    /\ table /\ UNCHANGED table
    /\ \/ Returns("SEEK_FAIL", NULL) /\ map[key] = NULL
       \/ map[key] # NULL /\ Returns("SEEK_OK", map[key])
    /\ map' = map

Del(key) ==
    /\ table /\ UNCHANGED table
    /\ \/ Returns("DEL_FAIL", NULL) /\ map[key] = NULL
       \/ map[key] # NULL /\ Returns("DEL_OK", map[key])
    /\ map' = [map EXCEPT ![key] = NULL]

Next ==
    \/ Make \/ Free \/ Renew
    \/ \E key \in Keys :
        \/ \E value \in Values, ow \in BOOLEAN : Add(key, value, ow)
        \/ Seek(key) \/ Del(key)

Spec == Init /\ [][Next]_vars
=============================================================================
