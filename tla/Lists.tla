-------------------------------- MODULE Lists --------------------------------
(***************************************************************************)
(* The intrusive doubly linked list of include/dlist.h, as the rest of the *)
(* library uses it: a list head is a sequence of the objects linked to it, *)
(* DLIST_INSERT_B(node, head) appends, DLIST_NEXT(head) is Head.           *)
(***************************************************************************)
EXTENDS SequencesExt

(* DLIST_REMOVE: takes the node out of the list it is in; a node that is   *)
(* in no list is linked to itself and removing it changes nothing.         *)
Unlink(list, x) ==
    IF x \in Range(list)
    THEN RemoveAt(list, CHOOSE i \in DOMAIN list : list[i] = x)
    ELSE list

(* MAKE_STUB_AVAIL and the flag-guarded insertions of the poll loop: the   *)
(* node is appended unless it is linked already.                           *)
AppendNew(list, x) == IF x \in Range(list) THEN list ELSE Append(list, x)

NoDuplicates(list) == IsInjective(list)
=============================================================================
