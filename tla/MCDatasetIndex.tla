--------------------------- MODULE MCDatasetIndex ---------------------------
(***************************************************************************)
(* Values of the constants of DatasetIndex for TLC.                        *)
(***************************************************************************)
EXTENDS DatasetIndex, TLC

\* Two full dictionaries, one of a client that takes the dataset out of the
\* group and makes it private.
MCUpdates == {[title |-> 1, private |-> TRUE,  body |-> 1, groups |-> FALSE],
              [title |-> 2, private |-> FALSE, body |-> 0, groups |-> TRUE]}

\* One patch of the package row, one of the resources (resource_create).
MCPatches == {[title |-> 3], [body |-> 2]}

Symmetry == Permutations(Workers)

Stamped == {"show", "create", "update", "patch", "move", "reindex", "rebuild"}
Edits == {"show", "create", "update", "patch", "delete"}
Deletions == {"show", "update", "patch", "delete", "bulk_delete"}
Patching == {"show", "patch"}
=============================================================================
