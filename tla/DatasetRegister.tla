--------------------------- MODULE DatasetRegister ---------------------------
(***************************************************************************)
(* What a reader of the datasets is promised: a register for each dataset,  *)
(* changed by one indivisible step at a time, in which metadata_modified     *)
(* identifies the metadata for ever.  A reader that meets a                  *)
(* metadata_modified it has seen before (a harvester, the cache of           *)
(* package_show) may use what it read then.                                  *)
(***************************************************************************)
CONSTANTS
    Packages,   \* datasets
    Rows,       \* the metadata a dataset may have, with its field mm
    None        \* the value of a dataset that does not exist

VARIABLES
    value,      \* what a reader gets for each dataset
    used        \* the values of metadata_modified each dataset has had

vars == <<value, used>>

Init ==
    /\ value \in [Packages -> Rows \cup {None}]
    /\ used = [p \in Packages |-> IF value[p] = None THEN {} ELSE {value[p].mm}]

\* One dataset gets new metadata, under a metadata_modified it never had.
Put(p, row) ==
    /\ row \in Rows
    /\ row.mm \notin used[p]
    /\ value' = [value EXCEPT ![p] = row]
    /\ used' = [used EXCEPT ![p] = @ \cup {row.mm}]

Next == \E p \in Packages : Put(p, value'[p])

Spec == Init /\ [][Next]_vars
=============================================================================
