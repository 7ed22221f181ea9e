------------------------------ MODULE MCCatalogue ------------------------------
(***************************************************************************)
(* Values of the constants of Catalogue for TLC.                           *)
(***************************************************************************)
EXTENDS Catalogue, TLC

CONSTANTS
    p1, g1,         \* a dataset, a group
    w1, w2          \* workers

SameWorkers == Permutations({w1, w2})

\* The activity stream: an edit of the package row only, one with a new resource.
GroupOfOne == [g \in {g1} |-> {p1}]
TwoEdits == {{}, {[part |-> "resource", kind |-> "new"]}}

\* The lists of a dataset: in either order, without one of them, empty.
Asked(list, keys, names) == [resources |-> list, extras |-> keys, tags |-> names]
TheAsks == {Asked(<<"r1", "r2">>, [k1 |-> 1], {"t1"}), Asked(<<"r2", "r1">>, [k1 |-> 1], {}),
            Asked(<<"r1">>, [k1 |-> 2], {"t1"}), Asked(<<>>, <<>>, {})}

\* Two requests of the activity stream run at once when one of them is about the dashboard,
\* for whose mark the order of timestamps and commits matters.
OneBusyOrDashboard ==
    (\A w \in Workers : pc'[w] = "commit") => \E w \in Workers : req'[w].kind \in {"mark", "open"}

\* Uploads are all of a group or all of a resource: the two share nothing.  At most one file
\* is named by a form that did not upload it, among two uploads, and a request that was torn is the last one:
\* of its group or resource, the only one, nothing is said after that.
Requested(what) == \E w \in Workers : fileReq'[w] # Files!NoRequest /\ fileReq'[w].what = what
FewFiles ==
    /\ \/ ~ Requested("resource") /\ stored' = [r \in Resources |-> None] /\ edited' = {}
       \/ ~ Requested("image") /\ images' = {} /\ named' = {} /\ image' = [g \in Groups |-> None]
    /\ Cardinality(named') < 2 /\ (named' = {} \/ uploads' < 3) /\ torn = {}

MCSpec == CatalogueInit /\ [][CatalogueNext /\ OneBusyOrDashboard /\ FewFiles]_all
=============================================================================
