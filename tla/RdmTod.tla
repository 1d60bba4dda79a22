------------------------------- MODULE RdmTod -------------------------------
(***************************************************************************)
(* The table of devices (TOD) of one RDM port: class rdm::Tod of           *)
(* lib-rdm/include/rdm_tod.h.  The table is the sequence of the entries_   *)
(* first elements of tod_; what lies above entries_ is never read by the   *)
(* operations below.                                                       *)
(***************************************************************************)
EXTENDS Integers, Sequences

CONSTANT TableSize      \* kTableSize, 200 in the firmware

ASSUME TableSizeAssumption == TableSize \in Nat \ {0}

EmptyTod == << >>

\* The set of UIDs a table holds.
Uids(tod) == { tod[i] : i \in 1..Len(tod) }

\* Exist(): is the UID in the table.
Exist(tod, uid) == \E i \in 1..Len(tod) : tod[i] = uid

\* Variant that must break NoDuplicateEntry: the Exist() test is forgotten.
AddUidUnchecked(tod, uid) ==
    IF Len(tod) = TableSize THEN tod ELSE Append(tod, uid)

\* AddUid(): refused when the table is full or already has the UID.
AddUid(tod, uid) ==
    IF Len(tod) = TableSize \/ Exist(tod, uid) THEN tod ELSE Append(tod, uid)

\* The first entry that holds uid, where Delete() stops searching.
FirstIndex(tod, uid) ==
    CHOOSE i \in 1..Len(tod) : tod[i] = uid /\ \A j \in 1..(i - 1) : tod[j] # uid

\* Delete(): the entries above the deleted one move down by one.
Delete(tod, uid) ==
    IF ~Exist(tod, uid) THEN tod
    ELSE [ j \in 1..(Len(tod) - 1) |->
             IF j < FirstIndex(tod, uid) THEN tod[j] ELSE tod[j + 1] ]

\* A table that holds no UID twice.
NoDuplicates(tod) ==
    \A i, j \in 1..Len(tod) : tod[i] = tod[j] => i = j
=============================================================================
