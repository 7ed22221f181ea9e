---------------------------- MODULE RelatedItems ----------------------------
(***************************************************************************)
(* Related items: applications, visualizations and the like that belong to  *)
(* an account and may be shown with a dataset.                             *)
(*                                                                         *)
(* related_create commits the item, then the row that relates it to the     *)
(* dataset, then the activity; related_delete commits the activity before    *)
(* the deletion.  A request that ends in between leaves what it committed.  *)
(*                                                                         *)
(* Abstractions: the contents of an item are one value; an item has one     *)
(* dataset or none, which is what related_create can give it.               *)
(***************************************************************************)
EXTENDS Naturals, FiniteSets

CONSTANTS
    Items, Packages,
    Users,
    Contents,
    Workers,
    MaxRequests,    \* bound on updates and deletions
    None,
    Gone

VARIABLES
    item,       \* the row of an item: owner and content; None before, Gone after
    relation,   \* the active rows of related_dataset: pairs of an item and a dataset
    package,    \* of each dataset: active, deleted or purged
    logged,     \* of each item, the number of its activities of each kind
    pc,         \* of each worker: idle, item, relate, log, update, note or delete
    req,        \* its request: the item, what is asked for
    born,       \* history: of each item, the dataset that its creation named
    broken,     \* history: items one of whose requests failed or was killed on the way
    requests    \* updates and deletions

vars == <<item, relation, package, logged, pc, req, born, broken, requests>>


NoRequest == [item |-> None]
Steps == {"idle", "item", "relate", "log", "update", "note", "delete"}

Is(i) == item[i] \notin {None, Gone}

TypeOK ==
    /\ \A i \in Items : Is(i) => item[i] \in [owner : Users, content : Contents]
    /\ relation \subseteq {i \in Items : Is(i)} \X Packages
    /\ \A r \in relation : package[r[2]] # "purged"
    /\ package \in [Packages -> {"active", "deleted", "purged"}]
    /\ logged \in [Items -> [{"new", "changed", "deleted"} -> Nat]]
    /\ pc \in [Workers -> Steps]
    /\ broken \subseteq Items

Init ==
    /\ item = [i \in Items |-> None]
    /\ relation = {}
    /\ package = [p \in Packages |-> "active"]
    /\ logged = [i \in Items |-> [new |-> 0, changed |-> 0, deleted |-> 0]]
    /\ pc = [w \in Workers |-> "idle"]
    /\ req = [w \in Workers |-> NoRequest]
    /\ born = [i \in Items |-> None]
    /\ broken = {} /\ requests = 0

Goto(w, step) == pc' = [pc EXCEPT ![w] = step]
Idle(w) == Goto(w, "idle") /\ req' = [req EXCEPT ![w] = NoRequest]
Log(i, kind) == logged' = [logged EXCEPT ![i][kind] = @ + 1]
Break(i) == broken' = broken \cup {i}

-----------------------------------------------------------------------------
(***************************************************************************)
(* related_create.                                                         *)
(***************************************************************************)
Ask(w, i, owner, content, p) ==
    /\ pc[w] = "idle" /\ item[i] = None /\ born[i] = None
    /\ \A v \in Workers : req[v].item # i
    /\ Goto(w, "item")
    /\ req' = [req EXCEPT ![w] = [item |-> i, owner |-> owner, content |-> content, package |-> p]]
    /\ born' = [born EXCEPT ![i] = p]
    /\ UNCHANGED <<item, relation, package, logged, broken, requests>>

CommitItem(w) ==
    LET i == req[w].item
    IN  /\ pc[w] = "item"
        /\ item' = [item EXCEPT ![i] = [owner |-> req[w].owner, content |-> req[w].content]]
        /\ Goto(w, IF req[w].package = None THEN "log" ELSE "relate")
        /\ UNCHANGED <<relation, package, logged, req, born, broken, requests>>

\* Package.get finds deleted datasets; where there is none, or where the item was
\* deleted in the meantime, the request fails with the item that it has committed.
CommitRelation(w) ==
    LET i == req[w].item
        p == req[w].package
    IN  /\ pc[w] = "relate"
        /\ IF package[p] # "purged" /\ Is(i)
           THEN /\ relation' = relation \cup {<<i, p>>}
                /\ Goto(w, "log")
                /\ UNCHANGED <<req, broken>>
           ELSE Idle(w) /\ Break(i) /\ UNCHANGED relation
        /\ UNCHANGED <<item, package, logged, born, requests>>

CommitActivity(w) ==
    /\ pc[w] = "log"
    /\ Log(req[w].item, "new")
    /\ Idle(w)
    /\ UNCHANGED <<item, relation, package, born, broken, requests>>

(***************************************************************************)
(* related_update: one transaction.  A row that was deleted meanwhile makes *)
(* the commit fail, and the activity with it.                              *)
(***************************************************************************)
AskUpdate(w, i, content) ==
    /\ pc[w] = "idle" /\ Is(i) /\ requests < MaxRequests
    /\ Goto(w, "update")
    /\ req' = [req EXCEPT ![w] = [item |-> i, content |-> content]]
    /\ requests' = requests + 1
    /\ UNCHANGED <<item, relation, package, logged, born, broken>>

CommitUpdate(w) ==
    LET i == req[w].item
    IN  /\ pc[w] = "update"
        /\ IF Is(i) THEN /\ item' = [item EXCEPT ![i].content = req[w].content]
                         /\ Log(i, "changed")
           ELSE UNCHANGED <<item, logged>>
        /\ Idle(w)
        /\ UNCHANGED <<relation, package, born, broken, requests>>

(***************************************************************************)
(* related_delete: by the owner, or who may delete the dataset.             *)
(***************************************************************************)
AskDelete(w, i) ==
    /\ pc[w] = "idle" /\ Is(i) /\ requests < MaxRequests
    /\ Goto(w, "note")
    /\ req' = [req EXCEPT ![w] = [item |-> i]]
    /\ requests' = requests + 1
    /\ UNCHANGED <<item, relation, package, logged, born, broken>>

\* The activity first.
Note(w) ==
    /\ pc[w] = "note"
    /\ Log(req[w].item, "deleted")
    /\ Goto(w, "delete")
    /\ UNCHANGED <<item, relation, package, req, born, broken, requests>>

\* Mutant of Relations: the rows of the relation stay.
RelationsNone(i) == {}

\* The rows of the item go with it.
Relations(i) == {r \in relation : r[1] = i}

\* The second of two deletions at once finds no row.
Delete(w) ==
    LET i == req[w].item
    IN  /\ pc[w] = "delete"
        /\ IF Is(i)
           THEN /\ item' = [item EXCEPT ![i] = Gone]
                /\ relation' = relation \ Relations(i)
                /\ UNCHANGED broken
           ELSE UNCHANGED <<item, relation>> /\ Break(i)
        /\ Idle(w)
        /\ UNCHANGED <<package, logged, born, requests>>

\* A worker dies.
Kill(w) ==
    /\ pc[w] # "idle"
    /\ Break(req[w].item)
    /\ Idle(w)
    /\ UNCHANGED <<item, relation, package, logged, born, requests>>

-----------------------------------------------------------------------------
\* Deleting a dataset leaves the rows; a purge deletes those it has as related.
PackageDelete(p) ==
    /\ package[p] = "active"
    /\ package' = [package EXCEPT ![p] = "deleted"]
    /\ UNCHANGED <<item, relation, logged, pc, req, born, broken, requests>>

PackagePurge(p) ==
    /\ package[p] # "purged"
    /\ package' = [package EXCEPT ![p] = "purged"]
    /\ relation' = {r \in relation : r[2] # p}
    /\ UNCHANGED <<item, logged, pc, req, born, broken, requests>>

Next ==
    \/ \E w \in Workers :
         \/ \E i \in Items :
              \/ \E owner \in Users, content \in Contents, p \in Packages \cup {None} :
                   Ask(w, i, owner, content, p)
              \/ \E content \in Contents : AskUpdate(w, i, content)
              \/ AskDelete(w, i)
         \/ CommitItem(w)
         \/ CommitRelation(w)
         \/ CommitActivity(w)
         \/ CommitUpdate(w)
         \/ Note(w)
         \/ Delete(w)
         \/ Kill(w)
    \/ \E p \in Packages : PackageDelete(p) \/ PackagePurge(p)

Spec == Init /\ [][Next]_vars

-----------------------------------------------------------------------------
(***************************************************************************)
(* Properties.                                                             *)
(***************************************************************************)

\* related_list of a dataset, and of the portal.
RelatedList(p) == {r[1] : r \in {r \in relation : r[2] = p}}
AllRelated == {i \in Items : Is(i)}

At(i) == {pc[w] : w \in {w \in Workers : req[w].item = i}}

\* An item that no request is at work on is shown with the dataset it was made for as
\* long as the dataset is there, and its activities tell its story: it was made once, and
\* it is deleted if they say so.  Only a request that failed or was killed on the way, as
\* the second of two deletions does, leaves anything else.
ItemsAsTold ==
    \A i \in Items \ broken : item[i] # None /\ At(i) = {} =>
      /\ logged[i].new = 1
      /\ (item[i] = Gone) <=> logged[i].deleted > 0
      /\ logged[i].deleted =< 1
      /\ \A p \in Packages :
           i \in RelatedList(p) <=> i \in AllRelated /\ born[i] = p /\ package[p] # "purged"
=============================================================================
