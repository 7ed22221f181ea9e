------------------------------- MODULE SiteProofs -------------------------------
(***************************************************************************)
(* Proofs about Site, for any datasets, accounts, items and workers: a       *)
(* behaviour of Site is one of each of its components, so that what is       *)
(* proved of a component holds of it.                                       *)
(***************************************************************************)
EXTENDS Site, FiniteSetTheorems, TLAPS, SequenceTheorems

-----------------------------------------------------------------------------
(***************************************************************************)
(* Related items.                                                          *)
(***************************************************************************)
LEMMA SiteRunsItems == SiteSpec => Items!Spec
<1>1. SiteInit => Items!Init
  BY DEF SiteInit
<1>2. [SiteNext]_all => [Items!Next]_Items!vars
  BY DEF SiteNext, all, itemVars, Items!vars
<1> QED BY <1>1, <1>2, PTL DEF SiteSpec, Items!Spec

Creations == [item : ItemNames, owner : Users, content : Contents, package : Packages \cup {None}]
ItemSteps == {"idle", "item", "relate", "log", "update", "note", "delete"}

\* The requests that create i, and those that have it to delete.
Creates(w, i) == itemPc[w] \in {"item", "relate", "log"} /\ itemReq[w].item = i
Deleting(i) == {w \in Workers : itemPc[w] = "delete" /\ itemReq[w].item = i}

ItemsTyped ==
    /\ item \in [ItemNames -> [owner : Users, content : Contents] \cup {None, Gone}]
    /\ relation \subseteq ItemNames \X Packages
    /\ \A i \in ItemNames : logged[i].new \in Nat /\ logged[i].deleted \in Nat
    /\ logged \in [ItemNames -> [{"new", "changed", "deleted"} -> Nat]]
    /\ package \in [Packages -> {"active", "deleted", "purged"}]
    /\ born \in [ItemNames -> Packages \cup {None}]
    /\ itemPc \in [Workers -> ItemSteps] /\ DOMAIN itemReq = Workers
    /\ \A w \in Workers : itemPc[w] # "idle" => itemReq[w].item \in ItemNames
    /\ \A w \in Workers : itemPc[w] = "idle" => itemReq[w] = Items!NoRequest
    /\ \A w \in Workers : itemPc[w] \in {"item", "relate", "log"} => itemReq[w] \in Creations
    /\ \A w \in Workers : itemPc[w] = "update" => itemReq[w].content \in Contents

\* A row of the relation is of an item that is there.
RowsOfItems == \A r \in relation : Items!Is(r[1]) /\ package[r[2]] # "purged"

\* An item is made by one request, the only one at work on it until it is there.
OneCreation ==
    \A w \in Workers, i \in ItemNames :
      /\ itemPc[w] # "idle" /\ itemReq[w].item = i => (item[i] = None <=> itemPc[w] = "item")
      /\ Creates(w, i) => \A v \in Workers : Creates(v, i) => v = w
      /\ itemPc[w] = "item" /\ itemReq[w].item = i => \A v \in Workers \ {w} : itemReq[v].item # i
      /\ Creates(w, i) /\ i \notin failed => born[i] = itemReq[w].package
      /\ itemPc[w] = "relate" => itemReq[w].package # None

\* The log of an item that no request failed on: whether it was made, and one entry for
\* its deletion and for each request that is about to delete it.
LogTells ==
    \A i \in ItemNames \ failed :
      /\ logged[i].new = IF item[i] = None \/ \E w \in Workers : Creates(w, i) THEN 0 ELSE 1
      /\ logged[i].deleted = Cardinality(Deleting(i)) + (IF item[i] = Gone THEN 1 ELSE 0)

\* Its row: with the dataset it was made for, once its creation is through with it.
RelationTells ==
    \A i \in ItemNames \ failed, p \in Packages :
      <<i, p>> \in relation <=>
        /\ Items!Is(i) /\ born[i] = p /\ package[p] # "purged"
        /\ \A w \in Workers : Creates(w, i) => itemPc[w] = "log"

ItemsInv == ItemsTyped /\ RowsOfItems /\ OneCreation /\ LogTells /\ RelationTells

LEMMA ItemsInit == Items!Init => ItemsInv
<1> SUFFICES ASSUME Items!Init PROVE ItemsInv
  OBVIOUS
<1>1. ItemsTyped
  BY DEF Items!Init, ItemsTyped, ItemSteps
<1>2. LogTells
  <2>1. \A i \in ItemNames : Deleting(i) = {}
    BY DEF Items!Init, Deleting
  <2>2. \A i \in ItemNames : Cardinality(Deleting(i)) = 0
    BY <2>1, FS_EmptySet
  <2> QED BY <2>2, ItemsAssumption DEF Items!Init, LogTells
<1>3. RowsOfItems /\ OneCreation /\ RelationTells
  BY DEF Items!Init, RowsOfItems, OneCreation, RelationTells, Creates, Items!Is
<1> QED BY <1>1, <1>2, <1>3 DEF ItemsInv

LEMMA DeletingFinite == \A i : IsFiniteSet(Deleting(i)) /\ Cardinality(Deleting(i)) \in Nat
<1> SUFFICES ASSUME NEW i PROVE IsFiniteSet(Deleting(i))
  BY FS_CardinalityType
<1>1. Deleting(i) \subseteq Workers
  BY DEF Deleting
<1> QED BY <1>1, ItemsAssumption, FS_Subset

\* A worker goes from one step to another, with the same request, a new one or none.
Moves(w, from, to) ==
    /\ itemPc[w] = from /\ itemPc' = [itemPc EXCEPT ![w] = to] /\ to \in ItemSteps
    /\ itemReq' = itemReq \/ (to = "idle" /\ itemReq' = [itemReq EXCEPT ![w] = Items!NoRequest])

LEMMA MovedOthers ==
    ASSUME ItemsTyped, NEW w \in Workers, NEW from, NEW to, Moves(w, from, to)
    PROVE  /\ itemPc'[w] = to /\ (to # "idle" => itemReq'[w] = itemReq[w])
           /\ to = "idle" => itemReq'[w] = Items!NoRequest \/ itemReq' = itemReq
           /\ \A v \in Workers \ {w} : itemPc'[v] = itemPc[v] /\ itemReq'[v] = itemReq[v]
  BY DEF Moves, ItemsTyped

LEMMA AskKeeps ==
    ASSUME ItemsInv, NEW w \in Workers, NEW i \in ItemNames, NEW owner \in Users,
           NEW content \in Contents, NEW p \in Packages \cup {None}, Items!Ask(w, i, owner, content, p)
    PROVE  ItemsInv'
<1> DEFINE q == [item |-> i, owner |-> owner, content |-> content, package |-> p]
<1>1. /\ itemPc[w] = "idle" /\ item[i] = None /\ \A v \in Workers : itemReq[v].item # i
      /\ itemPc' = [itemPc EXCEPT ![w] = "item"] /\ itemReq' = [itemReq EXCEPT ![w] = q]
      /\ born' = [born EXCEPT ![i] = p]
      /\ UNCHANGED <<item, relation, package, logged, failed, requests>>
  BY DEF Items!Ask, Items!Goto
<1>2. q \in Creations
  BY DEF Creations
<1>3. /\ itemPc'[w] = "item" /\ itemReq'[w] = q /\ q.item = i /\ q.package = p
      /\ \A v \in Workers \ {w} : itemPc'[v] = itemPc[v] /\ itemReq'[v] = itemReq[v]
      /\ itemReq[w].item \notin ItemNames
      /\ born'[i] = p /\ \A j \in ItemNames \ {i} : born'[j] = born[j]
  BY <1>1, ItemsAssumption DEF ItemsInv, ItemsTyped, Items!NoRequest
<1>4. ItemsTyped'
  BY <1>1, <1>2, <1>3 DEF ItemsInv, ItemsTyped, ItemSteps
<1>5. OneCreation'
  BY <1>1, <1>3 DEF ItemsInv, ItemsTyped, OneCreation, Creates
<1>6. LogTells'
  <2>1. \A j \in ItemNames : Deleting(j)' = Deleting(j)
    BY <1>1, <1>3 DEF Deleting
  <2>2. \A j \in ItemNames \ {i}, v \in Workers : Creates(v, j)' <=> Creates(v, j)
    BY <1>1, <1>3 DEF Creates
  <2> QED BY <1>1, <2>1, <2>2 DEF ItemsInv, LogTells
<1>7. RowsOfItems' /\ RelationTells'
  BY <1>1, <1>3 DEF ItemsInv, RowsOfItems, RelationTells, Creates, Items!Is
<1> QED BY <1>4, <1>5, <1>6, <1>7 DEF ItemsInv

LEMMA CommitItemKeeps ==
    ASSUME ItemsInv, NEW w \in Workers, Items!CommitItem(w)
    PROVE  ItemsInv'
<1>i. PICK i \in ItemNames : i = itemReq[w].item
  BY DEF Items!CommitItem, ItemsInv, ItemsTyped
<1> DEFINE r == [owner |-> itemReq[w].owner, content |-> itemReq[w].content]
           to == IF itemReq[w].package = None THEN "log" ELSE "relate"
<1>0. to \in {"log", "relate"} /\ (to = "log" <=> itemReq[w].package = None)
  OBVIOUS
<1>1. /\ itemPc[w] = "item" /\ item' = [item EXCEPT ![i] = r] /\ itemPc' = [itemPc EXCEPT ![w] = to]
      /\ UNCHANGED <<relation, package, logged, itemReq, born, failed, requests>>
  BY <1>i DEF Items!CommitItem, Items!Goto
<1> HIDE DEF to
<1>2. itemReq[w] \in Creations /\ i \in ItemNames /\ r \in [owner : Users, content : Contents]
  BY <1>1, <1>i DEF ItemsInv, ItemsTyped, Creations
<1>3. /\ itemPc'[w] = to
      /\ \A v \in Workers \ {w} : itemPc'[v] = itemPc[v] /\ itemReq[v].item # i
      /\ item'[i] = r /\ r \notin {None, Gone} /\ item[i] = None
      /\ \A j \in ItemNames \ {i} : item'[j] = item[j]
  BY <1>1, <1>i, <1>2, ItemsAssumption DEF ItemsInv, ItemsTyped, OneCreation
<1>4. ItemsTyped'
  BY <1>0, <1>i, <1>1, <1>2, <1>3 DEF ItemsInv, ItemsTyped, ItemSteps
<1>5. OneCreation'
  BY <1>0, <1>i, <1>1, <1>2, <1>3 DEF ItemsInv, OneCreation, Creates
<1>6. LogTells'
  <2>1. \A j \in ItemNames : Deleting(j)' = Deleting(j)
    BY <1>0, <1>i, <1>1, <1>3 DEF Deleting
  <2>2. \A j \in ItemNames, v \in Workers : Creates(v, j)' <=> Creates(v, j)
    BY <1>0, <1>i, <1>1, <1>3 DEF Creates
  <2>3. Creates(w, i)
    BY <1>1, <1>i DEF Creates
  <2>4. \A j \in ItemNames : item'[j] = Gone <=> item[j] = Gone
    BY <1>3, ItemsAssumption
  <2> QED BY <1>1, <1>2, <1>3, <2>1, <2>2, <2>3, <2>4 DEF ItemsInv, LogTells
<1>7. RowsOfItems'
  BY <1>1, <1>3 DEF ItemsInv, ItemsTyped, RowsOfItems, Items!Is
<1>8. RelationTells'
  <2>1. \A j \in ItemNames \ {i}, v \in Workers : Creates(v, j)' => Creates(v, j) /\ itemPc'[v] = itemPc[v]
    BY <1>0, <1>i, <1>1, <1>3 DEF Creates
  <2>2. \A j \in ItemNames \ {i}, v \in Workers : Creates(v, j) => Creates(v, j)'
    BY <1>0, <1>i, <1>1, <1>3 DEF Creates
  <2>3. Creates(w, i) /\ Creates(w, i)'
    BY <1>0, <1>i, <1>1, <1>3 DEF Creates
  <2>4. i \notin failed => born[i] = itemReq[w].package
    BY <1>i, <1>2, <2>3 DEF ItemsInv, OneCreation
  <2>5. \A p \in Packages : <<i, p>> \notin relation
    BY <1>3 DEF ItemsInv, RowsOfItems, Items!Is
  <2>6. ASSUME NEW j \in ItemNames \ failed, NEW p \in Packages, j # i
        PROVE  <<j, p>> \in relation <=>
                 /\ Items!Is(j)' /\ born[j] = p /\ package[p] # "purged"
                 /\ \A v \in Workers : Creates(v, j)' => itemPc'[v] = "log"
    BY <1>3, <2>1, <2>2, <2>6 DEF ItemsInv, RelationTells, Items!Is
  <2>7. ASSUME NEW p \in Packages, i \notin failed, born[i] = p
        PROVE  ~ \A v \in Workers : Creates(v, i)' => itemPc'[v] = "log"
    BY <1>0, <1>3, <2>3, <2>4, <2>7, ItemsAssumption
  <2> SUFFICES ASSUME NEW j \in ItemNames \ failed, NEW p \in Packages
               PROVE  <<j, p>> \in relation <=>
                        /\ Items!Is(j)' /\ born[j] = p /\ package[p] # "purged"
                        /\ \A v \in Workers : Creates(v, j)' => itemPc'[v] = "log"
    BY <1>1 DEF RelationTells
  <2>8. CASE j = i
    BY <2>5, <2>7, <2>8
  <2>9. CASE j # i
    BY <2>6, <2>9
  <2> QED BY <2>8, <2>9
<1> QED BY <1>4, <1>5, <1>6, <1>7, <1>8 DEF ItemsInv

\* A step of a request that fails, ends, or goes on, and leaves items and logs.
LEMMA FailKeeps ==
    ASSUME ItemsInv, NEW w \in Workers, NEW from \in ItemSteps \ {"idle"}, Moves(w, from, "idle"),
           itemReq' = [itemReq EXCEPT ![w] = Items!NoRequest],
           UNCHANGED <<item, relation, package, logged, born>>,
           failed' = failed \cup {itemReq[w].item}
    PROVE  ItemsInv'
<1> DEFINE i == itemReq[w].item
<1>1. /\ itemPc'[w] = "idle" /\ itemReq'[w] = Items!NoRequest
      /\ \A v \in Workers \ {w} : itemPc'[v] = itemPc[v] /\ itemReq'[v] = itemReq[v]
  BY MovedOthers DEF ItemsInv, ItemsTyped
<1>2. ItemsTyped'
  BY <1>1 DEF Moves, ItemsInv, ItemsTyped
<1>3. OneCreation'
  BY <1>1, ItemsAssumption DEF ItemsInv, OneCreation, Creates, Items!NoRequest
<1>4. LogTells'
  <2>1. \A j \in ItemNames \ {i} : Deleting(j)' = Deleting(j)
    BY <1>1 DEF Deleting
  <2>2. \A j \in ItemNames \ {i}, v \in Workers : Creates(v, j)' <=> Creates(v, j)
    BY <1>1 DEF Creates
  <2> QED BY <1>1, <2>1, <2>2 DEF ItemsInv, LogTells
<1>5. RowsOfItems' /\ RelationTells'
  BY <1>1 DEF ItemsInv, RowsOfItems, RelationTells, Creates, Items!Is
<1> QED BY <1>2, <1>3, <1>4, <1>5 DEF ItemsInv

LEMMA CommitRelationKeeps ==
    ASSUME ItemsInv, NEW w \in Workers, Items!CommitRelation(w)
    PROVE  ItemsInv'
<1>i. PICK i \in ItemNames : i = itemReq[w].item
  BY DEF Items!CommitRelation, ItemsInv, ItemsTyped
<1>p. PICK p \in Packages : p = itemReq[w].package
  BY DEF Items!CommitRelation, ItemsInv, ItemsTyped, OneCreation, Creates, Creations
<1>1. CASE package[p] # "purged" /\ Items!Is(i)
  <2>1. /\ itemPc[w] = "relate" /\ itemPc' = [itemPc EXCEPT ![w] = "log"]
        /\ relation' = relation \cup {<<i, p>>}
        /\ UNCHANGED <<item, package, logged, itemReq, born, failed, requests>>
    BY <1>1, <1>i, <1>p DEF Items!CommitRelation, Items!Goto
  <2>2. itemPc'[w] = "log" /\ \A v \in Workers \ {w} : itemPc'[v] = itemPc[v]
    BY <2>1 DEF ItemsInv, ItemsTyped
  <2>3. ItemsTyped'
    BY <2>1, <2>2 DEF ItemsInv, ItemsTyped, ItemSteps
  <2>4. OneCreation'
    BY <2>1, <2>2 DEF ItemsInv, OneCreation, Creates
  <2>5. \A j \in ItemNames, v \in Workers : Creates(v, j)' <=> Creates(v, j)
    BY <2>1, <2>2 DEF Creates
  <2>6. LogTells'
    <3>1. \A j \in ItemNames : Deleting(j)' = Deleting(j)
      BY <2>1, <2>2 DEF Deleting
    <3> QED BY <2>1, <2>5, <3>1 DEF ItemsInv, LogTells
  <2>7. RowsOfItems'
    BY <1>1, <2>1 DEF ItemsInv, RowsOfItems, Items!Is
  <2>8. RelationTells'
    <3>1. Creates(w, i) /\ \A v \in Workers : Creates(v, i) => v = w
      BY <1>i, <2>1 DEF ItemsInv, OneCreation, Creates
    <3>2. i \notin failed => born[i] = p
      BY <1>p, <1>i, <3>1 DEF ItemsInv, OneCreation
    <3>3. \A j \in ItemNames \ {i} : ~ Creates(w, j)
      BY <1>i DEF Creates
    <3>4. SUFFICES ASSUME NEW j \in ItemNames \ failed, NEW x \in Packages
                   PROVE  <<j, x>> \in relation' <=>
                            /\ Items!Is(j) /\ born[j] = x /\ package[x] # "purged"
                            /\ \A v \in Workers : Creates(v, j) => itemPc'[v] = "log"
      <4>1. ItemNames \ failed' = ItemNames \ failed /\ born' = born /\ package' = package
        BY <2>1
      <4>2. \A j \in ItemNames : Items!Is(j)' <=> Items!Is(j)
        BY <2>1 DEF Items!Is
      <4> QED BY <2>5, <4>1, <4>2 DEF RelationTells
    <3>5. <<j, x>> \in relation <=>
            /\ Items!Is(j) /\ born[j] = x /\ package[x] # "purged"
            /\ \A v \in Workers : Creates(v, j) => itemPc[v] = "log"
      BY DEF ItemsInv, RelationTells
    <3>6. CASE j = i
      <4>1. <<i, x>> \notin relation
        BY <2>1, <3>1, <3>5, <3>6
      <4>2. <<i, x>> \in relation' <=> x = p
        BY <2>1, <4>1
      <4> QED BY <1>1, <2>2, <3>1, <3>2, <3>6, <4>2
    <3>7. CASE j # i
      <4>1. <<j, x>> \in relation' <=> <<j, x>> \in relation
        BY <2>1, <3>7
      <4> QED BY <2>2, <3>3, <3>5, <3>7, <4>1
    <3> QED BY <3>6, <3>7
  <2> QED BY <2>3, <2>4, <2>6, <2>7, <2>8 DEF ItemsInv
<1>2. CASE ~ (package[p] # "purged" /\ Items!Is(i))
  <2>1. /\ Moves(w, "relate", "idle") /\ itemReq' = [itemReq EXCEPT ![w] = Items!NoRequest]
        /\ UNCHANGED <<item, relation, package, logged, born>>
        /\ failed' = failed \cup {itemReq[w].item}
    BY <1>2, <1>i, <1>p DEF Items!CommitRelation, Items!Goto, Items!Idle, Items!Break, Moves, ItemSteps
  <2> QED BY <2>1, FailKeeps DEF ItemSteps
<1> QED BY <1>1, <1>2

LEMMA CommitActivityKeeps ==
    ASSUME ItemsInv, NEW w \in Workers, Items!CommitActivity(w)
    PROVE  ItemsInv'
<1>i. PICK i \in ItemNames : i = itemReq[w].item
  BY DEF Items!CommitActivity, ItemsInv, ItemsTyped
<1>0. logged' = [logged EXCEPT ![i]["new"] = @ + 1]
  BY <1>i DEF Items!CommitActivity, Items!Log
<1>1. /\ itemPc[w] = "log" /\ itemPc' = [itemPc EXCEPT ![w] = "idle"]
      /\ itemReq' = [itemReq EXCEPT ![w] = Items!NoRequest]
      /\ UNCHANGED <<item, relation, package, born, failed, requests>>
  BY DEF Items!CommitActivity, Items!Goto, Items!Idle
<1>2. /\ itemPc'[w] = "idle" /\ itemReq'[w] = Items!NoRequest
      /\ \A v \in Workers \ {w} : itemPc'[v] = itemPc[v] /\ itemReq'[v] = itemReq[v]
  BY <1>1 DEF ItemsInv, ItemsTyped
<1>3. /\ logged'[i].new = logged[i].new + 1 /\ logged'[i].deleted = logged[i].deleted
      /\ \A j \in ItemNames \ {i} : logged'[j] = logged[j]
      /\ logged' \in [ItemNames -> [{"new", "changed", "deleted"} -> Nat]]
      /\ \A j \in ItemNames : logged'[j].new \in Nat /\ logged'[j].deleted \in Nat
  BY <1>0 DEF ItemsInv, ItemsTyped
<1>4. ItemsTyped'
  BY <1>1, <1>2, <1>3 DEF ItemsInv, ItemsTyped, ItemSteps
<1>5. OneCreation'
  BY <1>1, <1>2, ItemsAssumption DEF ItemsInv, OneCreation, Creates, Items!NoRequest
<1>6. /\ Creates(w, i) /\ item[i] # None
      /\ \A v \in Workers : ~ Creates(v, i)' /\ (Creates(v, i) => itemPc[v] = "log")
      /\ \A j \in ItemNames \ {i}, v \in Workers : Creates(v, j)' <=> Creates(v, j)
  BY <1>i, <1>1, <1>2 DEF ItemsInv, OneCreation, Creates
<1>7. LogTells'
  <2>1. \A j \in ItemNames : Deleting(j)' = Deleting(j)
    BY <1>1, <1>2 DEF Deleting
  <2> QED BY <1>1, <1>3, <1>6, <2>1 DEF ItemsInv, LogTells
<1>8. RowsOfItems' /\ RelationTells'
  BY <1>1, <1>2, <1>6 DEF ItemsInv, RowsOfItems, RelationTells, Creates, Items!Is
<1> QED BY <1>4, <1>5, <1>7, <1>8 DEF ItemsInv

\* Asking for a change or a deletion of an item that is there.
LEMMA AskOfKeeps ==
    ASSUME ItemsInv, NEW w \in Workers, NEW i \in ItemNames, NEW to \in {"update", "note"}, NEW q,
           itemPc[w] = "idle", Items!Is(i), q.item = i, to = "update" => q.content \in Contents,
           itemPc' = [itemPc EXCEPT ![w] = to], itemReq' = [itemReq EXCEPT ![w] = q],
           UNCHANGED <<item, relation, package, logged, born, failed>>
    PROVE  ItemsInv'
<1>1. /\ itemPc'[w] = to /\ itemReq'[w] = q
      /\ \A v \in Workers \ {w} : itemPc'[v] = itemPc[v] /\ itemReq'[v] = itemReq[v]
  BY DEF ItemsInv, ItemsTyped
<1>2. ItemsTyped'
  BY <1>1 DEF ItemsInv, ItemsTyped, ItemSteps
<1>3. OneCreation'
  BY <1>1 DEF ItemsInv, OneCreation, Creates, Items!Is
<1>4. \A j \in ItemNames, v \in Workers : Creates(v, j)' <=> Creates(v, j)
  BY <1>1 DEF Creates
<1>5. LogTells'
  <2>1. \A j \in ItemNames : Deleting(j)' = Deleting(j)
    BY <1>1 DEF Deleting
  <2> QED BY <1>4, <2>1 DEF ItemsInv, LogTells
<1>6. RowsOfItems' /\ RelationTells'
  BY <1>1, <1>4 DEF ItemsInv, RowsOfItems, RelationTells, Creates, Items!Is
<1> QED BY <1>2, <1>3, <1>5, <1>6 DEF ItemsInv

LEMMA CommitUpdateKeeps ==
    ASSUME ItemsInv, NEW w \in Workers, Items!CommitUpdate(w)
    PROVE  ItemsInv'
<1>i. PICK i \in ItemNames : i = itemReq[w].item
  BY DEF Items!CommitUpdate, ItemsInv, ItemsTyped
<1>1. /\ itemPc[w] = "update" /\ itemPc' = [itemPc EXCEPT ![w] = "idle"]
      /\ itemReq' = [itemReq EXCEPT ![w] = Items!NoRequest]
      /\ UNCHANGED <<relation, package, born, failed, requests>>
  BY DEF Items!CommitUpdate, Items!Goto, Items!Idle
<1>2. /\ itemPc'[w] = "idle" /\ itemReq'[w] = Items!NoRequest
      /\ \A v \in Workers \ {w} : itemPc'[v] = itemPc[v] /\ itemReq'[v] = itemReq[v]
  BY <1>1 DEF ItemsInv, ItemsTyped
<1>3. /\ item' \in [ItemNames -> [owner : Users, content : Contents] \cup {None, Gone}]
      /\ \A j \in ItemNames : (item'[j] = None <=> item[j] = None) /\ (item'[j] = Gone <=> item[j] = Gone)
  <2>1. CASE ~ Items!Is(i)
    BY <1>i, <2>1 DEF Items!CommitUpdate, ItemsInv, ItemsTyped
  <2>2. CASE Items!Is(i)
    <3>1. item' = [item EXCEPT ![i].content = itemReq[w].content]
      BY <1>i, <2>2 DEF Items!CommitUpdate
    <3>2. /\ item'[i] = [item[i] EXCEPT !.content = itemReq[w].content]
          /\ \A j \in ItemNames \ {i} : item'[j] = item[j]
          /\ DOMAIN item' = ItemNames /\ item' = [j \in ItemNames |-> item'[j]]
      BY <3>1 DEF ItemsInv, ItemsTyped
    <3>3. item[i] \in [owner : Users, content : Contents] /\ itemReq[w].content \in Contents
      BY <1>1, <2>2 DEF ItemsInv, ItemsTyped, Items!Is
    <3>4. item'[i] \in [owner : Users, content : Contents]
      BY <3>2, <3>3
    <3>5. \A j \in ItemNames : item'[j] \in [owner : Users, content : Contents] \cup {None, Gone}
      BY <3>2, <3>4 DEF ItemsInv, ItemsTyped
    <3> QED BY <2>2, <3>2, <3>4, <3>5, ItemsAssumption DEF Items!Is
  <2> QED BY <2>1, <2>2
<1>4. /\ \A j \in ItemNames : logged'[j].new = logged[j].new /\ logged'[j].deleted = logged[j].deleted
      /\ logged' \in [ItemNames -> [{"new", "changed", "deleted"} -> Nat]]
  <2>1. CASE ~ Items!Is(i)
    BY <1>i, <2>1 DEF Items!CommitUpdate, ItemsInv, ItemsTyped
  <2>2. CASE Items!Is(i)
    <3>1. logged' = [logged EXCEPT ![i]["changed"] = @ + 1]
      BY <1>i, <2>2 DEF Items!CommitUpdate, Items!Log
    <3> QED BY <3>1 DEF ItemsInv, ItemsTyped
  <2> QED BY <2>1, <2>2
<1>5. ItemsTyped'
  BY <1>1, <1>2, <1>3, <1>4 DEF ItemsInv, ItemsTyped, ItemSteps
<1>6. OneCreation'
  BY <1>1, <1>2, <1>3, ItemsAssumption DEF ItemsInv, OneCreation, Creates, Items!NoRequest
<1>7. \A j \in ItemNames, v \in Workers : Creates(v, j)' <=> Creates(v, j)
  BY <1>1, <1>2 DEF Creates
<1>8. LogTells'
  <2>1. \A j \in ItemNames : Deleting(j)' = Deleting(j)
    BY <1>1, <1>2 DEF Deleting
  <2> QED BY <1>1, <1>3, <1>4, <1>7, <2>1 DEF ItemsInv, LogTells
<1>9. \A j \in ItemNames, v \in Workers : Creates(v, j) => itemPc'[v] = itemPc[v]
  BY <1>1, <1>2 DEF Creates
<1>10. RowsOfItems' /\ RelationTells'
  BY <1>1, <1>3, <1>7, <1>9 DEF ItemsInv, ItemsTyped, RowsOfItems, RelationTells, Items!Is
<1> QED BY <1>5, <1>6, <1>8, <1>10 DEF ItemsInv

LEMMA NoteKeeps ==
    ASSUME ItemsInv, NEW w \in Workers, Items!Note(w)
    PROVE  ItemsInv'
<1>i. PICK i \in ItemNames : i = itemReq[w].item
  BY DEF Items!Note, ItemsInv, ItemsTyped
<1>0. logged' = [logged EXCEPT ![i]["deleted"] = @ + 1]
  BY <1>i DEF Items!Note, Items!Log
<1>1. /\ itemPc[w] = "note" /\ itemPc' = [itemPc EXCEPT ![w] = "delete"]
      /\ UNCHANGED <<item, relation, package, itemReq, born, failed, requests>>
  BY DEF Items!Note, Items!Goto
<1>2. itemPc'[w] = "delete" /\ \A v \in Workers \ {w} : itemPc'[v] = itemPc[v]
  BY <1>1 DEF ItemsInv, ItemsTyped
<1>3. /\ logged'[i].new = logged[i].new /\ logged'[i].deleted = logged[i].deleted + 1
      /\ \A j \in ItemNames \ {i} : logged'[j] = logged[j]
      /\ logged' \in [ItemNames -> [{"new", "changed", "deleted"} -> Nat]]
      /\ \A j \in ItemNames : logged'[j].new \in Nat /\ logged'[j].deleted \in Nat
  BY <1>0 DEF ItemsInv, ItemsTyped
<1>4. ItemsTyped'
  BY <1>1, <1>2, <1>3 DEF ItemsInv, ItemsTyped, ItemSteps
<1>5. OneCreation'
  BY <1>1, <1>2 DEF ItemsInv, OneCreation, Creates
<1>6. \A j \in ItemNames, v \in Workers : Creates(v, j)' <=> Creates(v, j)
  BY <1>1, <1>2 DEF Creates
<1>7. LogTells'
  <2>1. Deleting(i)' = Deleting(i) \cup {w} /\ w \notin Deleting(i)
    BY <1>i, <1>1, <1>2 DEF Deleting
  <2>2. Cardinality(Deleting(i)') = Cardinality(Deleting(i)) + 1
    BY <2>1, DeletingFinite, FS_AddElement
  <2>3. \A j \in ItemNames \ {i} : Deleting(j)' = Deleting(j)
    BY <1>i, <1>1, <1>2 DEF Deleting
  <2>4. ASSUME NEW j \in ItemNames \ failed
        PROVE  logged'[j].deleted = Cardinality(Deleting(j)') + (IF item[j] = Gone THEN 1 ELSE 0)
    <3>1. Cardinality(Deleting(j)) \in Nat /\ logged[j].deleted \in Nat
      BY DeletingFinite DEF ItemsInv, ItemsTyped
    <3>2. logged[j].deleted = Cardinality(Deleting(j)) + (IF item[j] = Gone THEN 1 ELSE 0)
      BY DEF ItemsInv, LogTells
    <3> QED BY <1>3, <2>2, <2>3, <3>1, <3>2
  <2>5. \A j \in ItemNames \ failed :
          logged'[j].new = IF item[j] = None \/ \E v \in Workers : Creates(v, j) THEN 0 ELSE 1
    BY <1>3 DEF ItemsInv, LogTells
  <2> QED BY <1>1, <1>6, <2>4, <2>5 DEF LogTells
<1>8. \A j \in ItemNames, v \in Workers : Creates(v, j) => itemPc'[v] = itemPc[v]
  BY <1>1, <1>2 DEF Creates
<1>9. RowsOfItems' /\ RelationTells'
  BY <1>1, <1>6, <1>8 DEF ItemsInv, RowsOfItems, RelationTells, Items!Is
<1> QED BY <1>4, <1>5, <1>7, <1>9 DEF ItemsInv

LEMMA DeleteKeeps ==
    ASSUME ItemsInv, NEW w \in Workers, Items!Delete(w)
    PROVE  ItemsInv'
<1>i. PICK i \in ItemNames : i = itemReq[w].item
  BY DEF Items!Delete, ItemsInv, ItemsTyped
<1>1. CASE ~ Items!Is(i)
  <2>1. /\ Moves(w, "delete", "idle") /\ itemReq' = [itemReq EXCEPT ![w] = Items!NoRequest]
        /\ UNCHANGED <<item, relation, package, logged, born>>
        /\ failed' = failed \cup {itemReq[w].item}
    BY <1>1, <1>i DEF Items!Delete, Items!Goto, Items!Idle, Items!Break, Moves, ItemSteps
  <2> QED BY <2>1, FailKeeps DEF ItemSteps
<1>2. CASE Items!Is(i)
  <2>1. /\ itemPc[w] = "delete" /\ itemPc' = [itemPc EXCEPT ![w] = "idle"]
        /\ itemReq' = [itemReq EXCEPT ![w] = Items!NoRequest]
        /\ item' = [item EXCEPT ![i] = Gone]
        /\ relation' = {r \in relation : r[1] # i}
        /\ UNCHANGED <<package, logged, born, failed, requests>>
    BY <1>i, <1>2 DEF Items!Delete, Items!Goto, Items!Idle, Items!Relations
  <2>2. /\ itemPc'[w] = "idle" /\ itemReq'[w] = Items!NoRequest
        /\ \A v \in Workers \ {w} : itemPc'[v] = itemPc[v] /\ itemReq'[v] = itemReq[v]
        /\ item'[i] = Gone /\ item[i] \notin {None, Gone}
        /\ \A j \in ItemNames \ {i} : item'[j] = item[j]
    BY <1>2, <2>1 DEF ItemsInv, ItemsTyped, Items!Is
  <2>3. ItemsTyped'
    BY <2>1, <2>2 DEF ItemsInv, ItemsTyped, ItemSteps
  <2>4. OneCreation'
    BY <2>1, <2>2, ItemsAssumption DEF ItemsInv, OneCreation, Creates, Items!NoRequest
  <2>5. \A j \in ItemNames, v \in Workers : Creates(v, j)' <=> Creates(v, j)
    BY <2>1, <2>2 DEF Creates
  <2>6. LogTells'
    <3>1. Deleting(i)' = Deleting(i) \ {w} /\ w \in Deleting(i)
      BY <1>i, <2>1, <2>2, ItemsAssumption DEF Deleting, Items!NoRequest
    <3>2. Cardinality(Deleting(i)') = Cardinality(Deleting(i)) - 1
      BY <3>1, DeletingFinite, FS_RemoveElement
    <3>3. \A j \in ItemNames \ {i} : Deleting(j)' = Deleting(j)
      BY <1>i, <2>1, <2>2 DEF Deleting
    <3>4. ASSUME NEW j \in ItemNames \ failed
          PROVE  logged[j].deleted = Cardinality(Deleting(j)') + (IF item'[j] = Gone THEN 1 ELSE 0)
      <4>1. Cardinality(Deleting(j)) \in Nat /\ logged[j].deleted \in Nat
        BY DeletingFinite DEF ItemsInv, ItemsTyped
      <4>2. logged[j].deleted = Cardinality(Deleting(j)) + (IF item[j] = Gone THEN 1 ELSE 0)
        BY DEF ItemsInv, LogTells
      <4>3. CASE j = i
        BY <2>2, <3>2, <4>1, <4>2, <4>3
      <4>4. CASE j # i
        BY <2>2, <3>3, <4>2, <4>4
      <4> QED BY <4>3, <4>4
    <3>5. \A j \in ItemNames \ failed :
            logged[j].new = IF item'[j] = None \/ \E v \in Workers : Creates(v, j) THEN 0 ELSE 1
      BY <2>2, ItemsAssumption DEF ItemsInv, LogTells
    <3> QED BY <2>1, <2>5, <3>4, <3>5 DEF LogTells
  <2>7. \A j \in ItemNames, v \in Workers : Creates(v, j) => itemPc'[v] = itemPc[v]
    BY <2>1, <2>2 DEF Creates
  <2>8. RowsOfItems'
    BY <2>1, <2>2 DEF ItemsInv, ItemsTyped, RowsOfItems, Items!Is
  <2>9. RelationTells'
    <3>1. \A j \in ItemNames : Items!Is(j)' <=> Items!Is(j) /\ j # i
      BY <2>2 DEF Items!Is
    <3>2. \A j \in ItemNames, p \in Packages : <<j, p>> \in relation' <=> <<j, p>> \in relation /\ j # i
      BY <2>1
    <3>3. ItemNames \ failed' = ItemNames \ failed /\ born' = born /\ package' = package
      BY <2>1
    <3> SUFFICES ASSUME NEW j \in ItemNames \ failed, NEW p \in Packages
                 PROVE  <<j, p>> \in relation' <=>
                          /\ Items!Is(j)' /\ born[j] = p /\ package[p] # "purged"
                          /\ \A v \in Workers : Creates(v, j)' => itemPc'[v] = "log"
      BY <3>3 DEF RelationTells
    <3>4. <<j, p>> \in relation <=>
            /\ Items!Is(j) /\ born[j] = p /\ package[p] # "purged"
            /\ \A v \in Workers : Creates(v, j) => itemPc[v] = "log"
      BY DEF ItemsInv, RelationTells
    <3> QED BY <2>5, <2>7, <3>1, <3>2, <3>4
  <2> QED BY <2>3, <2>4, <2>6, <2>8, <2>9 DEF ItemsInv
<1> QED BY <1>1, <1>2

\* A dataset that is deleted, or purged with the rows it has as related.
LEMMA PackageKeeps ==
    ASSUME ItemsInv, NEW p \in Packages, Items!PackageDelete(p) \/ Items!PackagePurge(p)
    PROVE  ItemsInv'
<1>1. /\ UNCHANGED <<item, logged, itemPc, itemReq, born, failed>>
      /\ package' \in [Packages -> {"active", "deleted", "purged"}]
      /\ relation' = {r \in relation : package'[r[2]] # "purged"}
      /\ \A x \in Packages : package'[x] # "purged" => package[x] # "purged"
  <2>1. CASE Items!PackageDelete(p)
    BY <2>1 DEF Items!PackageDelete, ItemsInv, ItemsTyped, RowsOfItems
  <2>2. CASE Items!PackagePurge(p)
    BY <2>2 DEF Items!PackagePurge, ItemsInv, ItemsTyped, RowsOfItems
  <2> QED BY <2>1, <2>2
<1>2. ItemsTyped' /\ OneCreation'
  BY <1>1 DEF ItemsInv, ItemsTyped, OneCreation, Creates
<1>3. LogTells'
  <2>1. \A j \in ItemNames : Deleting(j)' = Deleting(j)
    BY <1>1 DEF Deleting
  <2> QED BY <1>1, <2>1 DEF ItemsInv, LogTells, Creates
<1>4. RowsOfItems' /\ RelationTells'
  BY <1>1 DEF ItemsInv, ItemsTyped, RowsOfItems, RelationTells, Creates, Items!Is
<1> QED BY <1>2, <1>3, <1>4 DEF ItemsInv

LEMMA ItemsStep == ItemsInv /\ [Items!Next]_Items!vars => ItemsInv'
<1> SUFFICES ASSUME ItemsInv, [Items!Next]_Items!vars PROVE ItemsInv'
  OBVIOUS
<1>1. ASSUME NEW w \in Workers, NEW i \in ItemNames, NEW owner \in Users, NEW content \in Contents,
             NEW p \in Packages \cup {None}, Items!Ask(w, i, owner, content, p)
      PROVE  ItemsInv'
  BY <1>1, AskKeeps
<1>2. ASSUME NEW w \in Workers, NEW i \in ItemNames, NEW content \in Contents, Items!AskUpdate(w, i, content)
      PROVE  ItemsInv'
  BY <1>2, AskOfKeeps DEF Items!AskUpdate, Items!Goto
<1>3. ASSUME NEW w \in Workers, NEW i \in ItemNames, Items!AskDelete(w, i) PROVE ItemsInv'
  BY <1>3, AskOfKeeps DEF Items!AskDelete, Items!Goto
<1>4. ASSUME NEW w \in Workers, Items!Kill(w) PROVE ItemsInv'
  <2>1. /\ Moves(w, itemPc[w], "idle") /\ itemReq' = [itemReq EXCEPT ![w] = Items!NoRequest]
        /\ UNCHANGED <<item, relation, package, logged, born>>
        /\ failed' = failed \cup {itemReq[w].item} /\ itemPc[w] \in ItemSteps \ {"idle"}
    BY <1>4 DEF Items!Kill, Items!Goto, Items!Idle, Items!Break, Moves, ItemsInv, ItemsTyped, ItemSteps
  <2> QED BY <2>1, FailKeeps
<1>5. CASE UNCHANGED Items!vars
  <2>1. \A j \in ItemNames : Deleting(j)' = Deleting(j)
    BY <1>5 DEF Items!vars, Deleting
  <2> QED BY <1>5, <2>1 DEF Items!vars, ItemsInv, ItemsTyped, RowsOfItems, OneCreation, LogTells,
                            RelationTells, Creates, Items!Is
<1> QED BY <1>1, <1>2, <1>3, <1>4, <1>5, CommitItemKeeps, CommitRelationKeeps, CommitActivityKeeps,
           CommitUpdateKeeps, NoteKeeps, DeleteKeeps, PackageKeeps DEF Items!Next

LEMMA ItemsInvTells == ItemsInv => ItemsAsTold
<1> SUFFICES ASSUME ItemsInv, NEW i \in ItemNames \ failed, item[i] # None, Items!At(i) = {}
             PROVE  /\ logged[i].new = 1
                    /\ (item[i] = Gone) <=> logged[i].deleted > 0
                    /\ logged[i].deleted =< 1
                    /\ \A p \in Packages :
                         i \in Items!RelatedList(p) <=>
                           i \in Items!AllRelated /\ born[i] = p /\ package[p] # "purged"
  BY DEF ItemsAsTold, Items!ItemsAsTold
<1>1. \A w \in Workers : itemReq[w].item # i
  BY DEF Items!At
<1>2. Deleting(i) = {} /\ \A w \in Workers : ~ Creates(w, i)
  BY <1>1 DEF Deleting, Creates
<1>3. Cardinality(Deleting(i)) = 0
  BY <1>2, FS_EmptySet
<1>4. logged[i].new = 1 /\ logged[i].deleted = IF item[i] = Gone THEN 1 ELSE 0
  BY <1>2, <1>3 DEF ItemsInv, LogTells
<1>5. \A p \in Packages : <<i, p>> \in relation <=> Items!Is(i) /\ born[i] = p /\ package[p] # "purged"
  BY <1>2 DEF ItemsInv, RelationTells
<1>6. \A p \in Packages : i \in Items!RelatedList(p) <=> <<i, p>> \in relation
  <2> SUFFICES ASSUME NEW p \in Packages PROVE i \in Items!RelatedList(p) <=> <<i, p>> \in relation
    OBVIOUS
  <2>1. i \in Items!RelatedList(p) => <<i, p>> \in relation
    <3> SUFFICES ASSUME i \in Items!RelatedList(p) PROVE <<i, p>> \in relation
      OBVIOUS
    <3>1. PICK r \in relation : r[2] = p /\ r[1] = i
      BY DEF Items!RelatedList
    <3>2. r \in ItemNames \X Packages
      BY DEF ItemsInv, ItemsTyped
    <3>3. r = <<i, p>>
      BY <3>1, <3>2
    <3> QED BY <3>3
  <2>2. <<i, p>> \in relation => i \in Items!RelatedList(p)
    <3> DEFINE r == <<i, p>>
    <3>1. r[1] = i /\ r[2] = p
      OBVIOUS
    <3> HIDE DEF r
    <3>2. r \in relation => i \in Items!RelatedList(p)
      BY <3>1 DEF Items!RelatedList
    <3> QED BY <3>2 DEF r
  <2> QED BY <2>1, <2>2
<1>7. (item[i] = Gone) <=> logged[i].deleted > 0
  BY <1>4
<1>8. logged[i].deleted =< 1
  BY <1>4
<1>9. i \in Items!AllRelated <=> Items!Is(i)
  BY DEF Items!AllRelated
<1> QED BY <1>4, <1>5, <1>6, <1>7, <1>8, <1>9

\* An item that no request failed on or is at work on is shown with the dataset it was
\* made for as long as that is there, and its activities tell its story: related_create
\* and related_delete commit several times, and what they commit adds up.
THEOREM ItemsStayAsTold == SiteSpec => []ItemsAsTold
<1>1. Items!Spec => []ItemsInv
  BY ItemsInit, ItemsStep, PTL DEF Items!Spec
<1> QED BY <1>1, SiteRunsItems, ItemsInvTells, PTL

-----------------------------------------------------------------------------
(***************************************************************************)
(* Lists.                                                                  *)
(***************************************************************************)
LEMMA SiteRunsLists == SiteSpec => Lists!Spec
<1>1. SiteInit => Lists!Init
  BY DEF SiteInit
<1>2. [SiteNext]_all => [Lists!Next]_Lists!vars
  BY DEF SiteNext, all, listVars, Lists!vars
<1> QED BY <1>1, <1>2, PTL DEF SiteSpec, Lists!Spec

NamesOrNone == GroupNames \cup {None}
Documents == [owner : Orgs \cup {None}, state : {"draft", "active"},
              capacity : {"private", "public"}, groups : SUBSET NamesOrNone]

\* Whether a dataset is in the group of a name.
IsIn(n, p) == \E g \in Groups : gname[g] = n /\ p \in inGroup[g]

\* A dataset that is not in the index is not in the database, or deleted.
OutOfIndex(p) == record[p] = None \/ record[p].state = "deleted"

TablesOfLists ==
    /\ record \in [Listed -> Lists!PackageRecords \cup {None}]
    /\ doc = [p \in Listed |-> doc[p]]
    /\ gname \in [Groups -> NamesOrNone]
    /\ DOMAIN gstate = Groups
    /\ inGroup \in [Groups -> SUBSET Listed]
    /\ \A g, h \in Groups : gname[g] = gname[h] => g = h \/ gname[g] = None
    /\ \A g \in Groups : gname[g] = None => inGroup[g] = {}

\* The index follows the table of datasets.
DocsFit ==
    \A p \in Listed :
       /\ doc[p] = None <=> OutOfIndex(p)
       /\ doc[p] # None =>
            /\ doc[p].owner = record[p].owner
            /\ doc[p].state = record[p].state
            /\ doc[p].capacity = IF record[p].private THEN "private" ELSE "public"

\* It follows the groups by their names, but for names that were taken or given up.
NamesFit ==
    \A p \in Listed : doc[p] # None =>
       \A n \in GroupNames \ renamed : n \in doc[p].groups <=> IsIn(n, p)

ListsInv == TablesOfLists /\ DocsFit /\ NamesFit

LEMMA ListsInitially == Lists!Init => ListsInv
<1> SUFFICES ASSUME Lists!Init
             PROVE  ListsInv
  OBVIOUS
<1>1. TablesOfLists
  BY DEF Lists!Init, TablesOfLists, NamesOrNone
<1>2. DocsFit /\ NamesFit
  BY DEF Lists!Init, DocsFit, NamesFit, OutOfIndex
<1> QED BY <1>1, <1>2 DEF ListsInv

\* What is indexed reads as the tables do; what is not has to read as before.
LEMMA IndexingKeeps ==
    ASSUME TablesOfLists', NEW ps, Lists!Indexed(ps),
           \A p \in Listed \ ps :
             /\ ListsInv
             /\ record'[p] = record[p]
             /\ renamed \subseteq renamed'
             /\ \A n \in GroupNames \ renamed' : IsIn(n, p)' <=> IsIn(n, p)
    PROVE  DocsFit' /\ NamesFit'
<1>1. doc' = [p \in Listed |-> IF p \in ps THEN Lists!DocumentOf(p, record'[p], gname', inGroup')
                               ELSE doc[p]]
  BY DEF Lists!Indexed
<1>2. ASSUME NEW p \in Listed, p \notin ps
      PROVE  /\ doc'[p] = None <=> OutOfIndex(p)'
             /\ doc'[p] # None =>
                  /\ doc'[p].owner = record'[p].owner
                  /\ doc'[p].state = record'[p].state
                  /\ doc'[p].capacity = IF record'[p].private THEN "private" ELSE "public"
                  /\ \A n \in GroupNames \ renamed' : n \in doc'[p].groups <=> IsIn(n, p)'
  <2>1. doc'[p] = doc[p]
    BY <1>1, <1>2
  <2>2. ListsInv /\ record'[p] = record[p] /\ renamed \subseteq renamed'
        /\ \A n \in GroupNames \ renamed' : IsIn(n, p)' <=> IsIn(n, p)
    BY <1>2
  <2>3. OutOfIndex(p)' <=> OutOfIndex(p)
    BY <2>2 DEF OutOfIndex
  <2> HIDE DEF IsIn
  <2> QED BY <2>1, <2>2, <2>3 DEF ListsInv, DocsFit, NamesFit
<1>3. ASSUME NEW p \in Listed, p \in ps
      PROVE  /\ doc'[p] = None <=> OutOfIndex(p)'
             /\ doc'[p] # None =>
                  /\ doc'[p].owner = record'[p].owner
                  /\ doc'[p].state = record'[p].state
                  /\ doc'[p].capacity = IF record'[p].private THEN "private" ELSE "public"
                  /\ \A n \in GroupNames \ renamed' : n \in doc'[p].groups <=> IsIn(n, p)'
  <2>1. doc'[p] = Lists!DocumentOf(p, record'[p], gname', inGroup')
    BY <1>1, <1>3
  <2>2. CASE OutOfIndex(p)'
    <3>1. doc'[p] = None
      BY <2>1, <2>2 DEF Lists!DocumentOf, OutOfIndex
    <3> QED BY <2>2, <3>1
  <2>3. CASE ~ OutOfIndex(p)'
    <3> DEFINE d == [owner |-> record'[p].owner, state |-> record'[p].state,
                     capacity |-> IF record'[p].private THEN "private" ELSE "public",
                     groups |-> {gname'[g] : g \in Lists!GroupsOf(p, inGroup')}]
    <3>1. doc'[p] = d
      BY <2>1, <2>3 DEF Lists!DocumentOf, OutOfIndex
    <3>2. record'[p] \in Lists!PackageRecords /\ record'[p].state # "deleted"
      BY <2>3 DEF TablesOfLists, OutOfIndex
    <3>3. \A g \in Groups : gname'[g] \in NamesOrNone
      BY DEF TablesOfLists
    <3>4. d \in Documents
      BY <3>2, <3>3 DEF Documents, Lists!PackageRecords, Lists!GroupsOf
    <3>5. d # None
      BY <3>4, ListsAssumption DEF Documents, NamesOrNone
    <3>6. /\ d.owner = record'[p].owner /\ d.state = record'[p].state
          /\ d.capacity = IF record'[p].private THEN "private" ELSE "public"
          /\ d.groups = {gname'[g] : g \in Lists!GroupsOf(p, inGroup')}
      OBVIOUS
    <3> HIDE DEF d
    <3>7. \A n : n \in d.groups <=> IsIn(n, p)'
      BY <3>6 DEF IsIn, Lists!GroupsOf
    <3> QED BY <2>3, <3>1, <3>5, <3>6, <3>7
  <2> QED BY <2>2, <2>3
<1> HIDE DEF IsIn, OutOfIndex
<1>4. DocsFit'
  BY <1>2, <1>3 DEF DocsFit
<1>5. NamesFit'
  BY <1>2, <1>3 DEF NamesFit
<1> QED BY <1>4, <1>5

LEMMA PackageSaveKeeps ==
    ASSUME ListsInv, NEW p \in Listed, NEW r \in Lists!PackageRecords,
           NEW gs \in SUBSET {g \in Groups : gname[g] # None}, Lists!PackageSave(p, r, gs)
    PROVE  ListsInv'
<1>1. /\ record' = [record EXCEPT ![p] = r]
      /\ inGroup' = [g \in Groups |-> IF g \in gs THEN inGroup[g] \cup {p} ELSE inGroup[g] \ {p}]
      /\ UNCHANGED <<gname, gstate, renamed>>
      /\ Lists!Indexed({p})
  BY DEF Lists!PackageSave
<1>2. \A q \in Listed \ {p} : \A g \in Groups : q \in inGroup'[g] <=> q \in inGroup[g]
  BY <1>1
<1>3. TablesOfLists'
  <2>1. record' \in [Listed -> Lists!PackageRecords \cup {None}]
    BY <1>1 DEF ListsInv, TablesOfLists
  <2>2. doc' = [q \in Listed |-> doc'[q]]
    BY <1>1 DEF Lists!Indexed
  <2>3. inGroup' \in [Groups -> SUBSET Listed]
    BY <1>1 DEF ListsInv, TablesOfLists
  <2>4. \A g \in Groups : gname[g] = None => inGroup'[g] = {}
    BY <1>1 DEF ListsInv, TablesOfLists
  <2> QED BY <2>1, <2>2, <2>3, <2>4, <1>1 DEF ListsInv, TablesOfLists
<1>4. \A q \in Listed \ {p} :
        /\ record'[q] = record[q]
        /\ \A n \in GroupNames : IsIn(n, q)' <=> IsIn(n, q)
  BY <1>1, <1>2 DEF ListsInv, TablesOfLists, IsIn
<1>5. DocsFit' /\ NamesFit'
  BY <1>1, <1>3, <1>4, IndexingKeeps
<1> QED BY <1>3, <1>5 DEF ListsInv

LEMMA PackageDeleteKeeps ==
    ASSUME ListsInv, NEW p \in Listed, Lists!PackageDelete(p)
    PROVE  ListsInv'
<1> DEFINE r == [record[p] EXCEPT !.state = "deleted"]
<1>1. /\ record[p] # None
      /\ record' = [record EXCEPT ![p] = r]
      /\ UNCHANGED <<gname, gstate, inGroup, renamed>>
      /\ Lists!Indexed({p})
  BY DEF Lists!PackageDelete
<1>2. r \in Lists!PackageRecords
  <2>1. record[p] \in Lists!PackageRecords
    BY <1>1 DEF ListsInv, TablesOfLists
  <2> QED BY <2>1 DEF Lists!PackageRecords
<1> HIDE DEF r
<1>3. doc' = [q \in Listed |-> doc'[q]]
  BY <1>1 DEF Lists!Indexed
<1>4. TablesOfLists'
  BY <1>1, <1>2, <1>3 DEF ListsInv, TablesOfLists
<1>5. \A q \in Listed \ {p} :
        /\ record'[q] = record[q]
        /\ \A n \in GroupNames : IsIn(n, q)' <=> IsIn(n, q)
  BY <1>1 DEF ListsInv, TablesOfLists, IsIn
<1>6. DocsFit' /\ NamesFit'
  BY <1>1, <1>4, <1>5, IndexingKeeps
<1> QED BY <1>4, <1>6 DEF ListsInv

LEMMA GroupCreateKeeps ==
    ASSUME ListsInv, NEW g \in Groups, NEW n \in GroupNames,
           NEW ps \in SUBSET {p \in Listed : record[p] # None}, Lists!GroupCreate(g, n, ps)
    PROVE  ListsInv'
<1>1. /\ gname[g] = None /\ \A h \in Groups : gname[h] # n
      /\ gname' = [gname EXCEPT ![g] = n]
      /\ inGroup' = [inGroup EXCEPT ![g] = ps]
      /\ UNCHANGED <<record, gstate, renamed>>
      /\ Lists!Indexed(ps)
  BY DEF Lists!GroupCreate
<1>2. doc' = [q \in Listed |-> doc'[q]]
  BY <1>1 DEF Lists!Indexed
<1>3. n # None
  BY ListsAssumption
<1>4. TablesOfLists'
  <2>1. ps \in SUBSET Listed
    OBVIOUS
  <2>2. \A h, k \in Groups : gname'[h] = gname'[k] => h = k \/ gname'[h] = None
    BY <1>1 DEF ListsInv, TablesOfLists
  <2>3. \A h \in Groups : gname'[h] = None => inGroup'[h] = {}
    BY <1>1, <1>3 DEF ListsInv, TablesOfLists
  <2> QED BY <2>1, <2>2, <2>3, <1>1, <1>2 DEF ListsInv, TablesOfLists, NamesOrNone
<1>5. ASSUME NEW q \in Listed, q \notin ps, NEW m \in GroupNames
      PROVE  IsIn(m, q)' <=> IsIn(m, q)
  <2>1. inGroup[g] = {}
    BY <1>1 DEF ListsInv, TablesOfLists
  <2>2. \A h \in Groups \ {g} : gname'[h] = gname[h] /\ inGroup'[h] = inGroup[h]
    BY <1>1 DEF ListsInv, TablesOfLists
  <2>3. q \notin inGroup'[g]
    BY <1>1, <1>5 DEF ListsInv, TablesOfLists
  <2> QED BY <2>1, <2>2, <2>3 DEF IsIn
<1>6. DocsFit' /\ NamesFit'
  BY <1>1, <1>4, <1>5, IndexingKeeps
<1> QED BY <1>4, <1>6 DEF ListsInv

LEMMA GroupUpdateKeeps ==
    ASSUME ListsInv, NEW g \in Groups, NEW n \in GroupNames, NEW s,
           NEW ps \in SUBSET {p \in Listed : record[p] # None}, Lists!GroupUpdate(g, n, s, ps)
    PROVE  ListsInv'
<1> DEFINE changed == (ps \ inGroup[g]) \cup (inGroup[g] \ ps)
<1>1. /\ gname[g] # None /\ \A h \in Groups \ {g} : gname[h] # n
      /\ gname' = [gname EXCEPT ![g] = n]
      /\ gstate' = [gstate EXCEPT ![g] = s]
      /\ inGroup' = [inGroup EXCEPT ![g] = ps]
      /\ renamed' = IF gname[g] = n THEN renamed ELSE renamed \cup {gname[g], n}
      /\ record' = record
      /\ Lists!Indexed(changed)
  BY DEF Lists!GroupUpdate
<1>2. doc' = [q \in Listed |-> doc'[q]]
  BY <1>1 DEF Lists!Indexed
<1>3. n # None
  BY ListsAssumption
<1>4. TablesOfLists'
  <2>1. ps \in SUBSET Listed
    OBVIOUS
  <2>2. \A h, k \in Groups : gname'[h] = gname'[k] => h = k \/ gname'[h] = None
    BY <1>1 DEF ListsInv, TablesOfLists
  <2>3. \A h \in Groups : gname'[h] = None => inGroup'[h] = {}
    BY <1>1, <1>3 DEF ListsInv, TablesOfLists
  <2> QED BY <2>1, <2>2, <2>3, <1>1, <1>2 DEF ListsInv, TablesOfLists, NamesOrNone
<1>5. ASSUME NEW q \in Listed, q \notin changed, NEW m \in GroupNames, m \notin renamed'
      PROVE  IsIn(m, q)' <=> IsIn(m, q)
  <2>1. \A h \in Groups \ {g} : gname'[h] = gname[h] /\ inGroup'[h] = inGroup[h]
    BY <1>1 DEF ListsInv, TablesOfLists
  <2>2. q \in inGroup'[g] <=> q \in inGroup[g]
    BY <1>1, <1>5 DEF ListsInv, TablesOfLists
  <2>3. gname'[g] = m <=> gname[g] = m
    BY <1>1, <1>5 DEF ListsInv, TablesOfLists
  <2> QED BY <2>1, <2>2, <2>3 DEF IsIn
<1>6. renamed \subseteq renamed'
  BY <1>1
<1> HIDE DEF changed
<1>7. DocsFit' /\ NamesFit'
  BY <1>1, <1>4, <1>5, <1>6, IndexingKeeps
<1> QED BY <1>4, <1>7 DEF ListsInv

\* A change of the datasets of one group, after which those that joined or left are indexed.
LEMMA RowsKeep ==
    ASSUME ListsInv, NEW g \in Groups, NEW ps \in SUBSET Listed, NEW qs,
           gname[g] = None => ps = {},
           inGroup' = [inGroup EXCEPT ![g] = ps], DOMAIN gstate' = Groups,
           UNCHANGED <<record, gname, renamed>>,
           \A q \in Listed \ qs : q \in ps <=> q \in inGroup[g],
           Lists!Indexed(qs)
    PROVE  ListsInv'
<1>1. doc' = [q \in Listed |-> doc'[q]]
  BY DEF Lists!Indexed
<1>2. TablesOfLists'
  BY <1>1 DEF ListsInv, TablesOfLists
<1>3. ASSUME NEW q \in Listed, q \notin qs, NEW m \in GroupNames
      PROVE  IsIn(m, q)' <=> IsIn(m, q)
  <2>1. \A h \in Groups \ {g} : inGroup'[h] = inGroup[h]
    BY DEF ListsInv, TablesOfLists
  <2>2. q \in inGroup'[g] <=> q \in inGroup[g]
    BY <1>3 DEF ListsInv, TablesOfLists
  <2> QED BY <2>1, <2>2 DEF IsIn
<1>4. DocsFit' /\ NamesFit'
  BY <1>2, <1>3, IndexingKeeps
<1> QED BY <1>2, <1>4 DEF ListsInv

LEMMA GroupDeleteKeeps ==
    ASSUME ListsInv, NEW g \in Groups, NEW reference, Lists!GroupDelete(g, reference)
    PROVE  ListsInv'
<1> DEFINE ps == IF reference = "id" THEN {} ELSE inGroup[g]
<1>1. /\ gname[g] # None
      /\ gstate' = [gstate EXCEPT ![g] = "deleted"]
      /\ inGroup' = [inGroup EXCEPT ![g] = ps]
      /\ UNCHANGED <<record, gname, renamed>>
      /\ Lists!Indexed(inGroup[g] \ inGroup'[g])
  BY DEF Lists!GroupDelete
<1>2. inGroup[g] \in SUBSET Listed /\ ps \in SUBSET Listed /\ ps \subseteq inGroup[g]
      /\ DOMAIN gstate' = Groups /\ DOMAIN inGroup = Groups
  BY <1>1 DEF ListsInv, TablesOfLists
<1> HIDE DEF ps
<1>3. inGroup'[g] = ps
  BY <1>1, <1>2
<1> QED BY <1>1, <1>2, <1>3, RowsKeep

LEMMA MemberKeeps ==
    ASSUME ListsInv, NEW g \in Groups, NEW p \in Listed,
           Lists!MemberCreate(g, p) \/ Lists!MemberDelete(g, p)
    PROVE  ListsInv'
<1>1. inGroup[g] \in SUBSET Listed /\ DOMAIN gstate = Groups
      /\ (gname[g] = None => inGroup[g] = {})
  BY DEF ListsInv, TablesOfLists
<1>2. CASE Lists!MemberCreate(g, p)
  <2> DEFINE ps == inGroup[g] \cup {p}
  <2>1. /\ gname[g] # None /\ inGroup' = [inGroup EXCEPT ![g] = ps]
        /\ UNCHANGED <<record, gname, gstate, renamed>>
        /\ Lists!Indexed({p})
    BY <1>2 DEF Lists!MemberCreate
  <2>2. ps \in SUBSET Listed /\ \A q \in Listed \ {p} : q \in ps <=> q \in inGroup[g]
    BY <1>1
  <2> HIDE DEF ps
  <2> QED BY <1>1, <2>1, <2>2, RowsKeep
<1>3. CASE Lists!MemberDelete(g, p)
  <2> DEFINE ps == inGroup[g] \ {p}
  <2>1. /\ p \in inGroup[g] /\ inGroup' = [inGroup EXCEPT ![g] = ps]
        /\ UNCHANGED <<record, gname, gstate, renamed>>
        /\ Lists!Indexed({p})
    BY <1>3 DEF Lists!MemberDelete
  <2>2. ps \in SUBSET Listed /\ \A q \in Listed \ {p} : q \in ps <=> q \in inGroup[g]
    BY <1>1
  <2> HIDE DEF ps
  <2> QED BY <1>1, <2>1, <2>2, RowsKeep
<1> QED BY <1>2, <1>3

LEMMA ListsStep == ListsInv /\ [Lists!Next]_Lists!vars => ListsInv'
<1> SUFFICES ASSUME ListsInv, [Lists!Next]_Lists!vars
             PROVE  ListsInv'
  OBVIOUS
<1>1. CASE UNCHANGED Lists!vars
  BY <1>1 DEF Lists!vars, ListsInv, TablesOfLists, DocsFit, NamesFit, OutOfIndex, IsIn
<1>2. CASE Lists!Rebuild
  <2>1. /\ UNCHANGED <<record, gname, gstate, inGroup>>
        /\ Lists!Indexed(Listed)
    BY <1>2 DEF Lists!Rebuild
  <2>2. doc' = [q \in Listed |-> doc'[q]]
    BY <2>1 DEF Lists!Indexed
  <2>3. TablesOfLists'
    BY <2>1, <2>2 DEF ListsInv, TablesOfLists
  <2>4. DocsFit' /\ NamesFit'
    BY <2>1, <2>3, IndexingKeeps
  <2> QED BY <2>3, <2>4 DEF ListsInv
<1> QED BY <1>1, <1>2, PackageSaveKeeps, PackageDeleteKeeps, GroupCreateKeeps, GroupUpdateKeeps,
           GroupDeleteKeeps, MemberKeeps DEF Lists!Next

\* Listings counts as this module does.
LEMMA ListsCount == \A S : Lists!Cardinality(S) = Cardinality(S)
  BY DEF Lists!Cardinality, Cardinality

\* What a document tells of its dataset.
LEMMA DocTells ==
    ASSUME ListsInv, NEW p \in Listed
    PROVE  /\ doc[p] # None => /\ record[p] # None
                               /\ doc[p].owner = record[p].owner
                               /\ doc[p].state = record[p].state
                               /\ doc[p].capacity = "public" <=> ~ record[p].private
           /\ Lists!InState(p, "active") \/ Lists!InState(p, "draft") <=> doc[p] # None
           /\ Lists!InState(p, "active") <=> doc[p] # None /\ doc[p].state = "active"
           /\ Lists!InState(p, "draft") <=> doc[p] # None /\ doc[p].state = "draft"
           /\ p \in Lists!Anyone <=>
                doc[p] # None /\ doc[p].state = "active" /\ doc[p].capacity = "public"
<1>1. record[p] # None => record[p].state \in {"draft", "active", "deleted"}
                          /\ record[p].private \in BOOLEAN
  BY DEF ListsInv, TablesOfLists, Lists!PackageRecords
<1>2. doc[p] = None <=> record[p] = None \/ record[p].state = "deleted"
  BY DEF ListsInv, DocsFit, OutOfIndex
<1>3. doc[p] # None => /\ doc[p].owner = record[p].owner
                       /\ doc[p].state = record[p].state
                       /\ doc[p].capacity = IF record[p].private THEN "private" ELSE "public"
  BY DEF ListsInv, DocsFit
<1>4. doc[p] # None => (doc[p].capacity = "public" <=> ~ record[p].private)
  BY <1>1, <1>2, <1>3
<1> QED BY <1>1, <1>2, <1>3, <1>4 DEF Lists!InState, Lists!Anyone, Lists!Active

\* A search of some datasets: those that are active, or among the drafts asked for, and
\* public if only public ones are.
LEMMA SearchFinds ==
    ASSUME ListsInv, NEW ps \in SUBSET Listed, NEW drafts, NEW p
    PROVE  /\ p \in Lists!Search(ps, FALSE, drafts) <=>
                /\ p \in ps /\ ~ record[p].private
                /\ Lists!InState(p, "active") \/ (Lists!InState(p, "draft") /\ p \in drafts)
           /\ p \in Lists!Search(ps, TRUE, drafts) <=>
                /\ p \in ps
                /\ Lists!InState(p, "active") \/ (Lists!InState(p, "draft") /\ p \in drafts)
<1>1. /\ p \in Lists!Search(ps, FALSE, drafts) <=>
           /\ p \in ps /\ doc[p] # None /\ doc[p].capacity = "public"
           /\ doc[p].state = "active" \/ p \in drafts
           /\ Lists!InState(p, "active") \/ Lists!InState(p, "draft")
      /\ p \in Lists!Search(ps, TRUE, drafts) <=>
           /\ p \in ps /\ doc[p] # None
           /\ doc[p].state = "active" \/ p \in drafts
           /\ Lists!InState(p, "active") \/ Lists!InState(p, "draft")
  BY DEF Lists!Search, Lists!Run
<1>2. p \in ps => /\ doc[p] # None => (doc[p].capacity = "public" <=> ~ record[p].private)
                  /\ Lists!InState(p, "active") \/ Lists!InState(p, "draft") <=> doc[p] # None
                  /\ Lists!InState(p, "active") <=> doc[p] # None /\ doc[p].state = "active"
                  /\ Lists!InState(p, "draft") <=> doc[p] # None /\ doc[p].state = "draft"
  BY DocTells
<1> QED BY <1>1, <1>2

\* The public search of some datasets, and the facet that counts it.
LEMMA PublicSearch ==
    ASSUME ListsInv, NEW ps \in SUBSET Listed
    PROVE  /\ Lists!Search(ps, FALSE, {}) = ps \cap Lists!Anyone
           /\ Lists!Search(ps, TRUE, {}) = ps \cap Lists!Active
           /\ Lists!Facet(ps) = Cardinality(ps \cap Lists!Anyone)
<1>1. \A p \in ps : /\ p \in Lists!Anyone <=> Lists!InState(p, "active") /\ ~ record[p].private
                    /\ p \in Lists!Active <=> Lists!InState(p, "active")
  BY DEF Lists!Anyone, Lists!Active
<1>2. Lists!Search(ps, FALSE, {}) = ps \cap Lists!Anyone
  <2> SUFFICES ASSUME NEW p
               PROVE  p \in Lists!Search(ps, FALSE, {}) <=> p \in ps /\ p \in Lists!Anyone
    OBVIOUS
  <2>1. p \in Lists!Search(ps, FALSE, {}) <=>
          p \in ps /\ ~ record[p].private /\ Lists!InState(p, "active")
    <3>1. \A drafts : p \in Lists!Search(ps, FALSE, drafts) <=>
            /\ p \in ps /\ ~ record[p].private
            /\ Lists!InState(p, "active") \/ (Lists!InState(p, "draft") /\ p \in drafts)
      BY SearchFinds
    <3>2. PICK none : none = {}
      OBVIOUS
    <3>3. p \in Lists!Search(ps, FALSE, none) <=>
            /\ p \in ps /\ ~ record[p].private
            /\ Lists!InState(p, "active") \/ (Lists!InState(p, "draft") /\ p \in none)
      BY <3>1, Zenon
    <3>4. p \notin none
      BY <3>2
    <3>5. p \in Lists!Search(ps, FALSE, none) <=>
            p \in ps /\ ~ record[p].private /\ Lists!InState(p, "active")
      BY <3>3, <3>4
    <3> QED BY <3>2, <3>5
  <2> QED BY <1>1, <2>1
<1>3. Lists!Search(ps, TRUE, {}) = ps \cap Lists!Active
  <2> SUFFICES ASSUME NEW p
               PROVE  p \in Lists!Search(ps, TRUE, {}) <=> p \in ps /\ p \in Lists!Active
    OBVIOUS
  <2> QED BY <1>1, SearchFinds
<1>4. {p \in Lists!Run(ps, {}) : doc[p].capacity = "public"} = ps \cap Lists!Anyone
  <2> SUFFICES ASSUME NEW p
               PROVE  p \in Lists!Run(ps, {}) /\ doc[p].capacity = "public"
                        <=> p \in ps /\ p \in Lists!Anyone
    OBVIOUS
  <2> QED BY DocTells DEF Lists!Run
<1>5. Lists!Facet(ps) = Cardinality({p \in Lists!Run(ps, {}) : doc[p].capacity = "public"})
  BY ListsCount, Zenon DEF Lists!Facet
<1>6. Lists!Facet(ps) = Cardinality(ps \cap Lists!Anyone)
  BY <1>4, <1>5, Zenon
<1> QED BY <1>2, <1>3, <1>6

\* The pages of a search of some datasets: of those that are active, and of their number.
LEMMA PagesAgree ==
    ASSUME ListsInv, NEW ps \in SUBSET Listed, NEW limit, NEW offset
    PROVE  Lists!ArePagesOf(Lists!SearchPages(ps, Lists!RowsOf(limit), offset),
                            ps \cap Lists!Active, limit, offset)
<1> DEFINE size == Lists!PageSize(Lists!Cardinality(ps \cap Lists!Active), Lists!RowsOf(limit), offset)
           pages == Lists!SearchPages(ps, Lists!RowsOf(limit), offset)
<1>1. Lists!Run(ps, {}) = ps \cap Lists!Active
  <2> SUFFICES ASSUME NEW p
               PROVE  p \in Lists!Run(ps, {}) <=> p \in ps /\ p \in Lists!Active
    OBVIOUS
  <2> QED BY DocTells DEF Lists!Run, Lists!Active
<1>2. ASSUME NEW page \in pages
      PROVE  page \subseteq ps \cap Lists!Active /\ Lists!Cardinality(page) = size
  <2>1. PICK some \in SUBSET (ps \cap Lists!Active) :
          Lists!Cardinality(some) = size /\ page = Lists!Search(some, TRUE, {})
    BY <1>1, <1>2 DEF Lists!SearchPages
  <2>2. some \in SUBSET Listed
    OBVIOUS
  <2>3. Lists!Search(some, TRUE, {}) = some \cap Lists!Active
    BY <2>2, PublicSearch
  <2>4. page = some
    BY <2>1, <2>3
  <2> QED BY <2>1, <2>4
<1> HIDE DEF size, pages
<1>3. \A page \in pages : page \subseteq ps \cap Lists!Active /\ Lists!Cardinality(page) = size
  BY <1>2
<1> QED BY <1>3, Zenon DEF Lists!ArePagesOf, pages, size

LEMMA DatasetListsAgree ==
    ASSUME ListsInv, NEW a
    PROVE  /\ Lists!PackageList = Lists!Anyone
           /\ Lists!Search(Listed, FALSE, {}) = Lists!Anyone
           /\ \A limit, offset :
                Lists!ArePagesOf(Lists!CurrentPackageList(a, limit, offset),
                                 IF a \in Sysadmins THEN Lists!Active ELSE Lists!Anyone, limit, offset)
<1>1. Lists!Anyone \subseteq Listed /\ Lists!Active \subseteq Listed
  BY DEF Lists!Anyone, Lists!Active
<1>2. Lists!PackageList = Lists!Anyone
  BY DEF Lists!PackageList, Lists!Anyone, Lists!Active
<1>3. Lists!Search(Listed, FALSE, {}) = Lists!Anyone
  BY <1>1, PublicSearch
<1>4. ASSUME NEW limit, NEW offset
      PROVE  Lists!ArePagesOf(Lists!CurrentPackageList(a, limit, offset),
                              IF a \in Sysadmins THEN Lists!Active ELSE Lists!Anyone, limit, offset)
  <2> DEFINE open == {p \in Listed : doc[p] # None /\ doc[p].capacity = "public"}
             scope == IF a \in Sysadmins THEN Listed ELSE open
  <2>1. open \cap Lists!Active = Lists!Anyone
    <3> SUFFICES ASSUME NEW p \in Listed
                 PROVE  p \in open /\ p \in Lists!Active <=> p \in Lists!Anyone
      BY <1>1
    <3> QED BY DocTells DEF Lists!Active
  <2>2. scope \in SUBSET Listed
    OBVIOUS
  <2>3. scope \cap Lists!Active = IF a \in Sysadmins THEN Lists!Active ELSE Lists!Anyone
    BY <1>1, <2>1
  <2>4. Lists!CurrentPackageList(a, limit, offset) =
          Lists!SearchPages(scope, Lists!RowsOf(limit), offset)
    BY Zenon DEF Lists!CurrentPackageList
  <2> HIDE DEF scope
  <2>5. Lists!ArePagesOf(Lists!SearchPages(scope, Lists!RowsOf(limit), offset),
                         scope \cap Lists!Active, limit, offset)
    BY <2>2, PagesAgree
  <2> QED BY <2>3, <2>4, <2>5, Zenon
<1> QED BY <1>2, <1>3, <1>4

LEMMA OrganizationsAgree ==
    ASSUME ListsInv, NEW a, NEW o \in Orgs
    PROVE  /\ Lists!OrganizationShow(o, Lists!Reads(a, o)) =
                {p \in Lists!Active : record[p].owner = o /\ Lists!Shows(a, p)}
           /\ Lists!Facet(Lists!Owned(o)) = Cardinality(Lists!OrganizationShow(o, FALSE))
<1>1. Lists!Owned(o) \in SUBSET Listed
  BY DEF Lists!Owned
<1>2. \A p \in Listed : p \in Lists!Active =>
        /\ p \in Lists!Owned(o) <=> record[p].owner = o
        /\ p \in Lists!Anyone <=> ~ record[p].private
        /\ record[p] # None /\ Lists!InState(p, "active")
  BY DocTells DEF Lists!Owned, Lists!Active, Lists!Anyone, Lists!InState
<1>3. o # None
  BY ListsAssumption
<1>4. Lists!Active \subseteq Listed /\ Lists!Anyone \subseteq Lists!Active
  BY DEF Lists!Active, Lists!Anyone
<1>5. CASE Lists!Reads(a, o)
  <2>1. Lists!OrganizationShow(o, Lists!Reads(a, o)) = Lists!Owned(o) \cap Lists!Active
    <3>1. Lists!Reads(a, o) = TRUE
      BY <1>5 DEF Lists!Reads
    <3>2. Lists!OrganizationShow(o, TRUE) = Lists!Owned(o) \cap Lists!Active
      BY <1>1, PublicSearch DEF Lists!OrganizationShow
    <3> QED BY <3>1, <3>2, Zenon
  <2>2. \A p \in Lists!Active : record[p].owner = o => Lists!Shows(a, p)
    BY <1>2, <1>3, <1>4, <1>5 DEF Lists!Shows
  <2> QED BY <1>1, <1>2, <1>4, <2>1, <2>2, PublicSearch DEF Lists!OrganizationShow
<1>6. CASE ~ Lists!Reads(a, o)
  <2>1. Lists!OrganizationShow(o, Lists!Reads(a, o)) = Lists!Owned(o) \cap Lists!Anyone
    <3>1. Lists!Reads(a, o) = FALSE
      BY <1>6 DEF Lists!Reads
    <3>2. Lists!OrganizationShow(o, FALSE) = Lists!Owned(o) \cap Lists!Anyone
      BY <1>1, PublicSearch DEF Lists!OrganizationShow
    <3> QED BY <3>1, <3>2, Zenon
  <2>2. \A p \in Lists!Active : record[p].owner = o => (Lists!Shows(a, p) <=> ~ record[p].private)
    <3> SUFFICES ASSUME NEW p \in Lists!Active, record[p].owner = o
                 PROVE  Lists!Shows(a, p) <=> ~ record[p].private
      OBVIOUS
    <3>1. a \notin Sysadmins
      BY <1>6 DEF Lists!Reads
    <3>2. Lists!InState(p, "active") /\ ~ Lists!InState(p, "draft")
      BY <1>2, <1>4 DEF Lists!InState
    <3> QED BY <1>3, <1>6, <3>1, <3>2 DEF Lists!Shows
  <2> QED BY <1>1, <1>2, <1>4, <2>1, <2>2, PublicSearch DEF Lists!OrganizationShow
<1>7. Lists!Facet(Lists!Owned(o)) = Cardinality(Lists!OrganizationShow(o, FALSE))
  BY <1>1, PublicSearch DEF Lists!OrganizationShow
<1> QED BY <1>5, <1>6, <1>7

\* In a list of organizations, the flag of a reader is the same for all of them.
LEMMA OrganizationListAgrees ==
    ASSUME ListsInv, NEW a, \A o1, o2 \in Orgs : Lists!Reads(a, o1) = Lists!Reads(a, o2),
           NEW order \in [1 .. Cardinality(Orgs) -> Orgs], NEW i \in DOMAIN order
    PROVE  Lists!OrganizationList(a, order)[i] =
             Lists!OrganizationShow(order[i], Lists!Reads(a, order[i]))
<1>1. Cardinality(Orgs) \in Nat
  BY ListsAssumption, FS_CardinalityType
<1>2. i \in 1 .. Cardinality(Orgs) /\ i \in 1 .. i
  BY <1>1
<1>3. \A j \in 1 .. i : order[j] \in Orgs
  BY <1>1, <1>2
<1>4. (\E j \in 1 .. i : Lists!Reads(a, order[j])) = Lists!Reads(a, order[i])
  <2>1. \A j \in 1 .. i : Lists!Reads(a, order[j]) = Lists!Reads(a, order[i])
    BY <1>2, <1>3
  <2>2. CASE Lists!Reads(a, order[i])
    <3>1. Lists!Reads(a, order[i]) = TRUE
      BY <2>2 DEF Lists!Reads
    <3>2. \E j \in 1 .. i : Lists!Reads(a, order[j])
      BY <1>2, <2>2
    <3> QED BY <3>1, <3>2
  <2>3. CASE ~ Lists!Reads(a, order[i])
    <3>1. Lists!Reads(a, order[i]) = FALSE
      BY <2>3 DEF Lists!Reads
    <3>2. ~ \E j \in 1 .. i : Lists!Reads(a, order[j])
      BY <2>1, <2>3
    <3> QED BY <3>1, <3>2
  <2> QED BY <2>2, <2>3
<1>5. Lists!OrganizationList(a, order)[i] =
        Lists!OrganizationShow(order[i], \E j \in 1 .. i : Lists!Reads(a, order[j]))
  BY DEF Lists!OrganizationList
<1> QED BY <1>4, <1>5, Zenon

LEMMA AutocompleteAgrees ==
    ASSUME NEW found \in Lists!PackageAutocomplete(Listed, 1)
    PROVE  found \subseteq Lists!Anyone /\ (found = {} => Lists!Anyone = {})
<1>1. {p \in Listed : Lists!InState(p, "active") /\ ~ record[p].private} = Lists!Anyone
  BY DEF Lists!Anyone, Lists!Active
<1> DEFINE open == {p \in Listed : Lists!InState(p, "active") /\ ~ record[p].private}
<1>2. found \subseteq open /\ (Cardinality(found) = 1 \/ found = open)
  BY ListsCount DEF Lists!PackageAutocomplete
<1>3. Cardinality({}) = 0
  BY FS_EmptySet
<1> QED BY <1>1, <1>2, <1>3

LEMMA ResourcesAgree ==
    ASSUME ListsInv, NEW r
    PROVE  Lists!ResourceSearch({r}).count =
             Cardinality({p \in Lists!Search(Listed, FALSE, {}) : r \in ResourcesOf[p]})
<1> DEFINE found == {f \in Lists!Anyone \X {r} : f[2] \in ResourcesOf[f[1]]}
           having == {p \in Lists!Anyone : r \in ResourcesOf[p]}
           pair == [p \in having |-> <<p, r>>]
<1>1. Lists!ResourceSearch({r}).count = Cardinality(found)
  <2> DEFINE open == {p \in Listed : Lists!InState(p, "active") /\ ~ record[p].private}
  <2>1. open = Lists!Anyone
    BY DEF Lists!Anyone, Lists!Active
  <2>2. Lists!ResourceSearch({r}).count =
          Cardinality({f \in open \X {r} : f[2] \in ResourcesOf[f[1]]})
    BY ListsCount, Zenon DEF Lists!ResourceSearch
  <2> HIDE DEF open
  <2> QED BY <2>1, <2>2, Zenon
<1>2. {p \in Lists!Search(Listed, FALSE, {}) : r \in ResourcesOf[p]} = having
  BY DatasetListsAgree
<1>3. IsFiniteSet(having)
  <2>1. having \in SUBSET Listed
    BY DEF Lists!Anyone, Lists!Active
  <2> HIDE DEF having
  <2> QED BY <2>1, ListsAssumption, FS_Subset
<1>4. pair \in Bijection(having, found)
  <2>1. \A p \in having : pair[p] = <<p, r>> /\ pair[p] \in found
    OBVIOUS
  <2>2. \A f \in found : \E p \in having : pair[p] = f
    <3> SUFFICES ASSUME NEW f \in found
                 PROVE  f[1] \in having /\ f = <<f[1], r>>
      BY <2>1
    <3> QED OBVIOUS
  <2>3. \A p, q \in having : pair[p] = pair[q] => p = q
    BY <2>1
  <2>4. pair \in [having -> found]
    BY <2>1
  <2> HIDE DEF pair, having, found
  <2> QED BY <2>2, <2>3, <2>4 DEF Bijection, Injection, Surjection, IsInjective
<1> HIDE DEF found, having, pair
<1>5. Cardinality(found) = Cardinality(having)
  BY <1>3, <1>4, FS_Bijection DEF ExistsBijection
<1> QED BY <1>1, <1>2, <1>5

LEMMA AccountsAgree ==
    ASSUME ListsInv, NEW a \in Readers \cup {None}, NEW u \in Readers
    PROVE  /\ Lists!UserList[u] = Cardinality(Lists!UserShow(None, u))
           /\ Cardinality(Lists!UserShow(a, u)) = Lists!NumberCreated(u, Lists!Own(a, u))
           /\ \A p \in Lists!UserShow(a, u) : Lists!Shows(a, p) \/ CreatorOf[p] = a
<1>1. Lists!Created(u) \in SUBSET Listed /\ Lists!Drafts(a) \in SUBSET Listed
  BY DEF Lists!Created, Lists!Drafts
<1>2. Lists!NumberCreated(u, FALSE) = Cardinality(Lists!Created(u) \cap Lists!Anyone)
  <2>1. {p \in Lists!Created(u) : IF FALSE THEN Lists!InState(p, "active") \/ Lists!InState(p, "draft")
                                   ELSE p \in Lists!PackageList}
          = Lists!Created(u) \cap Lists!Anyone
    BY DatasetListsAgree
  <2>2. Lists!NumberCreated(u, FALSE) =
          Cardinality({p \in Lists!Created(u) : IF FALSE THEN Lists!InState(p, "active") \/ Lists!InState(p, "draft")
                                                  ELSE p \in Lists!PackageList})
    BY ListsCount, Zenon DEF Lists!NumberCreated
  <2> QED BY <2>1, <2>2, Zenon
<1>3. ASSUME NEW b, ~ Lists!Own(b, u)
      PROVE  Lists!UserShow(b, u) = Lists!Created(u) \cap Lists!Anyone
  <2>1. Lists!Own(b, u) = FALSE
    BY <1>3 DEF Lists!Own
  <2>2. Lists!UserShow(b, u) = Lists!Search(Lists!Created(u), FALSE, {})
    BY <2>1, Zenon DEF Lists!UserShow
  <2> QED BY <1>1, <2>2, PublicSearch
<1>4. ~ Lists!Own(None, u)
  BY ListsAssumption DEF Lists!Own
<1>5. Lists!UserList[u] = Cardinality(Lists!UserShow(None, u))
  BY <1>2, <1>3, <1>4 DEF Lists!UserList
<1>6. CASE ~ Lists!Own(a, u)
  <2>1. \A p \in Lists!Anyone : Lists!Shows(a, p)
    BY DEF Lists!Anyone, Lists!Active, Lists!Shows
  <2>2. Lists!UserShow(a, u) = Lists!Created(u) \cap Lists!Anyone
    BY <1>3, <1>6
  <2>3. Lists!Own(a, u) = FALSE
    BY <1>6 DEF Lists!Own
  <2>4. Cardinality(Lists!UserShow(a, u)) = Lists!NumberCreated(u, Lists!Own(a, u))
    BY <1>2, <2>2, <2>3, Zenon
  <2> QED BY <1>5, <2>1, <2>2, <2>4
<1>7. CASE Lists!Own(a, u)
  <2>1. \A p \in Lists!Created(u) : p \in Lists!Drafts(a)
    BY <1>7 DEF Lists!Own, Lists!Created, Lists!Drafts
  <2>2. Lists!UserShow(a, u) =
          {p \in Lists!Created(u) : Lists!InState(p, "active") \/ Lists!InState(p, "draft")}
    <3>1. Lists!Own(a, u) = TRUE
      BY <1>7 DEF Lists!Own
    <3>2. Lists!UserShow(a, u) = Lists!Search(Lists!Created(u), TRUE, Lists!Drafts(a))
      BY <3>1, Zenon DEF Lists!UserShow
    <3> QED BY <1>1, <2>1, <3>2, SearchFinds
  <2>3. Cardinality(Lists!UserShow(a, u)) = Lists!NumberCreated(u, Lists!Own(a, u))
    <3>1. Lists!NumberCreated(u, TRUE) =
            Cardinality({p \in Lists!Created(u) :
                           IF TRUE THEN Lists!InState(p, "active") \/ Lists!InState(p, "draft")
                           ELSE p \in Lists!PackageList})
      BY ListsCount, Zenon DEF Lists!NumberCreated
    <3>2. {p \in Lists!Created(u) :
             IF TRUE THEN Lists!InState(p, "active") \/ Lists!InState(p, "draft")
             ELSE p \in Lists!PackageList} = Lists!UserShow(a, u)
      BY <2>2
    <3>3. Lists!Own(a, u) = TRUE
      BY <1>7 DEF Lists!Own
    <3> QED BY <3>1, <3>2, <3>3, Zenon
  <2>4. \A p \in Lists!UserShow(a, u) : Lists!Shows(a, p) \/ CreatorOf[p] = a
    BY <1>7, <2>2 DEF Lists!Own, Lists!Shows, Lists!Created
  <2> QED BY <1>5, <2>3, <2>4
<1> QED BY <1>6, <1>7

LEMMA TagsAgree ==
    ASSUME ListsInv, NEW t
    PROVE  Lists!TagShow(t) = {p \in Lists!Anyone : t \in TagsOf[p]}
<1> SUFFICES ASSUME NEW p \in Listed
             PROVE  p \in Lists!TagShow(t) <=> p \in Lists!Anyone /\ t \in TagsOf[p]
  BY DEF Lists!TagShow, Lists!Run, Lists!Anyone, Lists!Active
<1> QED BY DocTells DEF Lists!TagShow, Lists!Run

\* The datasets that the documents give to the name of a group are those of its rows.
LEMMA GroupsList ==
    ASSUME ListsInv, NEW g \in Groups, gname[g] \notin renamed \cup {None}
    PROVE  Lists!Search(Lists!Named(gname[g]), FALSE, {}) = inGroup[g] \cap Lists!Anyone
<1>1. gname[g] \in GroupNames \ renamed /\ inGroup[g] \subseteq Listed
  BY DEF ListsInv, TablesOfLists, NamesOrNone
<1>2. \A p : IsIn(gname[g], p) <=> p \in inGroup[g]
  <2>1. \A h \in Groups : gname[h] = gname[g] => h = g
    BY DEF ListsInv, TablesOfLists
  <2> QED BY <2>1 DEF IsIn
<1>3. Lists!Named(gname[g]) \in SUBSET Listed
  BY DEF Lists!Named
<1>4. ASSUME NEW p \in Lists!Anyone
      PROVE  p \in Lists!Named(gname[g]) <=> p \in inGroup[g]
  <2>1. p \in Listed
    BY DEF Lists!Anyone, Lists!Active
  <2>2. doc[p] # None
    BY <2>1, DocTells
  <2>3. gname[g] \in doc[p].groups <=> IsIn(gname[g], p)
    BY <1>1, <2>1, <2>2 DEF ListsInv, NamesFit
  <2> QED BY <1>2, <2>1, <2>2, <2>3 DEF Lists!Named
<1>5. Lists!Search(Lists!Named(gname[g]), FALSE, {}) = Lists!Named(gname[g]) \cap Lists!Anyone
  BY <1>3, PublicSearch
<1> QED BY <1>4, <1>5

LEMMA GroupsAgree ==
    ASSUME ListsInv
    PROVE  Lists!GroupsListTheirs
<1> SUFFICES ASSUME NEW g \in Groups, gname[g] \notin renamed \cup {None}
             PROVE  /\ Lists!GroupShow(g) = Lists!MemberList(g) \cap Lists!Anyone
                    /\ \A limit \in Lists!Limits :
                         Lists!ArePagesOf(Lists!GroupPackageShow(g, limit), Lists!GroupShow(g), limit, 0)
                    /\ \A a \in Readers \cup {None}, p \in Lists!GroupShow(g) :
                         g \notin Lists!GroupListAuthz(a, p)
                    /\ Lists!Facet(Lists!Named(gname[g])) = Cardinality(Lists!GroupShow(g))
                    /\ gstate[g] = "active" /\ Lists!GroupShow(g) # {} =>
                         g \in Lists!GroupListByCount
  BY ListsCount DEF Lists!GroupsListTheirs, Lists!Actors
<1>1. Lists!GroupShow(g) = inGroup[g] \cap Lists!Anyone
  BY GroupsList DEF Lists!GroupShow
<1>2. ASSUME NEW limit
      PROVE  Lists!ArePagesOf(Lists!GroupPackageShow(g, limit), Lists!GroupShow(g), limit, 0)
  <2> DEFINE named == {p \in Lists!Named(gname[g]) : doc[p].capacity = "public"}
  <2>1. named \in SUBSET Listed
    BY DEF Lists!Named
  <2>2. named \cap Lists!Active = Lists!Named(gname[g]) \cap Lists!Anyone
    <3> SUFFICES ASSUME NEW p \in Lists!Named(gname[g])
                 PROVE  doc[p].capacity = "public" /\ p \in Lists!Active <=> p \in Lists!Anyone
      OBVIOUS
    <3>1. p \in Listed
      BY DEF Lists!Named
    <3> QED BY <3>1, DocTells DEF Lists!Active
  <2>3. Lists!GroupShow(g) = Lists!Named(gname[g]) \cap Lists!Anyone
    <3>1. Lists!Named(gname[g]) \in SUBSET Listed
      BY DEF Lists!Named
    <3> QED BY <3>1, PublicSearch DEF Lists!GroupShow
  <2>4. Lists!GroupPackageShow(g, limit) = Lists!SearchPages(named, Lists!RowsOf(limit), 0)
    BY Zenon DEF Lists!GroupPackageShow
  <2> HIDE DEF named
  <2>5. Lists!ArePagesOf(Lists!SearchPages(named, Lists!RowsOf(limit), 0), named \cap Lists!Active, limit, 0)
    BY <2>1, PagesAgree
  <2> QED BY <2>2, <2>3, <2>4, <2>5, Zenon
<1>3. Lists!Facet(Lists!Named(gname[g])) = Cardinality(Lists!GroupShow(g))
  <2>1. Lists!Named(gname[g]) \in SUBSET Listed
    BY DEF Lists!Named
  <2>2. Lists!Search(Lists!Named(gname[g]), FALSE, {}) = Lists!Named(gname[g]) \cap Lists!Anyone
    BY <2>1, PublicSearch
  <2>3. Lists!Facet(Lists!Named(gname[g])) = Cardinality(Lists!Named(gname[g]) \cap Lists!Anyone)
    BY <2>1, PublicSearch
  <2>4. Lists!GroupShow(g) = Lists!Named(gname[g]) \cap Lists!Anyone
    BY <2>2 DEF Lists!GroupShow
  <2> QED BY <2>3, <2>4, Zenon
<1>4. \A a \in Readers \cup {None}, p \in Lists!GroupShow(g) : g \notin Lists!GroupListAuthz(a, p)
  BY <1>1 DEF Lists!GroupListAuthz, Lists!GroupsOf
<1>5. gstate[g] = "active" /\ Lists!GroupShow(g) # {} => g \in Lists!GroupListByCount
  BY <1>1 DEF Lists!GroupListByCount, Lists!GroupList, Lists!Anyone, Lists!Active
<1> QED BY <1>1, <1>2, <1>3, <1>4, <1>5 DEF Lists!MemberList

LEMMA ListsInvGives == ListsInv => ListsAgree
<1> SUFFICES ASSUME ListsInv
             PROVE  Lists!ListsAgree /\ Lists!GroupsListTheirs
  BY DEF ListsAgree
<1>1. Lists!ListsAgree
  <2> SUFFICES ASSUME NEW a \in Readers \cup {None}
               PROVE
      /\ Lists!PackageList = Lists!Anyone /\ Lists!Search(Listed, FALSE, {}) = Lists!Anyone
      /\ \A limit \in Lists!Limits, offset \in 0 .. Lists!Cardinality(Listed) :
           Lists!ArePagesOf(Lists!CurrentPackageList(a, limit, offset),
                            IF a \in Sysadmins THEN Lists!Active ELSE Lists!Anyone, limit, offset)
      /\ \A o \in Orgs :
           /\ Lists!OrganizationShow(o, Lists!Reads(a, o)) =
                {p \in Lists!Active : record[p].owner = o /\ Lists!Shows(a, p)}
           /\ Lists!Facet(Lists!Owned(o)) = Lists!Cardinality(Lists!OrganizationShow(o, FALSE))
      /\ \A order \in {s \in [1 .. Lists!Cardinality(Orgs) -> Orgs] :
                         \A o \in Orgs : \E i \in DOMAIN s : s[i] = o} :
           (\A o1, o2 \in Orgs : Lists!Reads(a, o1) = Lists!Reads(a, o2)) =>
             \A i \in DOMAIN order :
               Lists!OrganizationList(a, order)[i] =
                 Lists!OrganizationShow(order[i], Lists!Reads(a, order[i]))
      /\ \A found \in Lists!PackageAutocomplete(Listed, 1) :
           found \subseteq Lists!Anyone /\ (found = {} => Lists!Anyone = {})
      /\ \A r \in UNION {ResourcesOf[p] : p \in Listed} :
           Lists!ResourceSearch({r}).count =
             Lists!Cardinality({p \in Lists!Search(Listed, FALSE, {}) : r \in ResourcesOf[p]})
      /\ \A u \in Readers :
           /\ Lists!UserList[u] = Lists!Cardinality(Lists!UserShow(None, u))
           /\ Lists!Cardinality(Lists!UserShow(a, u)) = Lists!NumberCreated(u, Lists!Own(a, u))
           /\ \A p \in Lists!UserShow(a, u) : Lists!Shows(a, p) \/ CreatorOf[p] = a
      /\ \A t \in UNION {TagsOf[p] : p \in Listed} :
           Lists!TagShow(t) = {p \in Lists!Anyone : t \in TagsOf[p]}
    BY Zenon DEF Lists!ListsAgree, Lists!Actors
  <2>1. \A o \in Orgs :
           /\ Lists!OrganizationShow(o, Lists!Reads(a, o)) =
                {p \in Lists!Active : record[p].owner = o /\ Lists!Shows(a, p)}
           /\ Lists!Facet(Lists!Owned(o)) = Lists!Cardinality(Lists!OrganizationShow(o, FALSE))
    BY OrganizationsAgree, ListsCount, Zenon
  <2>2. ASSUME NEW order \in [1 .. Lists!Cardinality(Orgs) -> Orgs],
               \A o1, o2 \in Orgs : Lists!Reads(a, o1) = Lists!Reads(a, o2),
               NEW i \in DOMAIN order
        PROVE  Lists!OrganizationList(a, order)[i] =
                 Lists!OrganizationShow(order[i], Lists!Reads(a, order[i]))
    <3>1. order \in [1 .. Cardinality(Orgs) -> Orgs]
      BY ListsCount
    <3> QED BY <2>2, <3>1, OrganizationListAgrees, Zenon
  <2>3. \A r : Lists!ResourceSearch({r}).count =
             Lists!Cardinality({p \in Lists!Search(Listed, FALSE, {}) : r \in ResourcesOf[p]})
    BY ResourcesAgree, ListsCount, Zenon
  <2>4. \A u \in Readers :
           /\ Lists!UserList[u] = Lists!Cardinality(Lists!UserShow(None, u))
           /\ Lists!Cardinality(Lists!UserShow(a, u)) = Lists!NumberCreated(u, Lists!Own(a, u))
           /\ \A p \in Lists!UserShow(a, u) : Lists!Shows(a, p) \/ CreatorOf[p] = a
    BY AccountsAgree, ListsCount, Zenon
  <2>5. \A t : Lists!TagShow(t) = {p \in Lists!Anyone : t \in TagsOf[p]}
    BY TagsAgree, Zenon
  <2>6. \A found \in Lists!PackageAutocomplete(Listed, 1) :
           found \subseteq Lists!Anyone /\ (found = {} => Lists!Anyone = {})
    BY AutocompleteAgrees, Zenon
  <2>7. /\ Lists!PackageList = Lists!Anyone /\ Lists!Search(Listed, FALSE, {}) = Lists!Anyone
        /\ \A limit \in Lists!Limits, offset \in 0 .. Lists!Cardinality(Listed) :
             Lists!ArePagesOf(Lists!CurrentPackageList(a, limit, offset),
                              IF a \in Sysadmins THEN Lists!Active ELSE Lists!Anyone, limit, offset)
    BY DatasetListsAgree, Zenon
  <2> QED BY <2>1, <2>2, <2>3, <2>4, <2>5, <2>6, <2>7, Zenon
<1> QED BY <1>1, GroupsAgree

\* Searches, lists and counts agree with each other and with what their reader may see,
\* whether they read the tables or the index, and a group lists its public datasets:
\* package_list, package_search, current_package_list_with_resources, organization_show and
\* _list, package_autocomplete, resource_search, user_show, user_list, tag_show, group_show,
\* group_package_show, group_list.
THEOREM ListsStayInAgreement == SiteSpec => []ListsAgree
<1>1. ListsInv /\ [Lists!Next]_Lists!vars => ListsInv'
  BY ListsStep
<1> QED BY <1>1, SiteRunsLists, ListsInitially, ListsInvGives, PTL DEF Lists!Spec

-----------------------------------------------------------------------------
(***************************************************************************)
(* Plugins.                                                                *)
(***************************************************************************)
LEMMA SiteRunsRegistry == SiteSpec => Registry!Spec
<1>1. SiteInit => Registry!Init
  BY DEF SiteInit
<1>2. [SiteNext]_all => [Registry!Next]_Registry!vars
  BY DEF SiteNext, all, pluginVars, Registry!vars
<1> QED BY <1>1, <1>2, PTL DEF SiteSpec, Registry!Spec

Loaded == Registry!Running
Full(c) == Registry!Expected(c, Loaded)
Theirs(c) == Registry!NamesOf(c, Loaded)
Filling(c) == {t \in Workers : thread[t].at = "plugins" /\ thread[t].cache = c}

ThreadsTyped ==
    /\ thread \in [Workers -> {Registry!Idle} \cup [at : {"core", "plugins"}, cache : Registry!Lazy]]
    /\ DOMAIN cache = Registry!Caches
    /\ broken \in BOOLEAN

\* What the last load or unload registered, if it succeeded.
Registered ==
    ~ broken => /\ forms = Registry!Forms(Loaded)
                /\ \A c \in {"actions", "helpers"} : cache[c] = Full(c)

\* A cache under filling holds names it will hold, each with what it will have or, as long
\* as a thread has the plugins to come, with that of core; validators of plugins come
\* together.  When no thread has the plugins to come, it is full, or empty.
HalfFull(c) ==
    /\ cache[c] = [n \in DOMAIN cache[c] |-> cache[c][n]]
    /\ DOMAIN cache[c] \subseteq Core[c] \cup Theirs(c)
    /\ \A n \in DOMAIN cache[c] :
         \/ cache[c][n] = Full(c)[n]
         \/ cache[c][n] = "core" /\ n \in Core[c]
    /\ Filling(c) = {} => cache[c] \in {Registry!Nothing, Full(c)}
    /\ Filling(c) # {} => Core[c] \subseteq DOMAIN cache[c]
    /\ c = "validators" /\ Theirs(c) \cap DOMAIN cache[c] # {} => Theirs(c) \subseteq DOMAIN cache[c]

Lookups == ~ broken => \A c \in Registry!Lazy : ~ Registry!Conflict(c, Loaded) => HalfFull(c)

RegistryInv == ThreadsTyped /\ Registered /\ Lookups

LEMMA FullHas ==
    ASSUME NEW c
    PROVE  /\ DOMAIN Full(c) = Core[c] \cup Theirs(c)
           /\ Full(c) = [n \in Core[c] \cup Theirs(c) |-> Full(c)[n]]
           /\ \A n \in Core[c] \ Theirs(c) : Full(c)[n] = "core"
<1>1. \A n : n \notin Theirs(c) => Registry!Definers(c, n, Loaded) = {}
  BY DEF Theirs, Registry!NamesOf, Registry!Definers
<1>2. Full(c) = [n \in Core[c] \cup Theirs(c) |->
                   IF Registry!Definers(c, n, Loaded) = {} THEN "core"
                   ELSE CHOOSE p \in Registry!Definers(c, n, Loaded) : TRUE]
  BY DEF Full, Theirs, Registry!Expected
<1> HIDE DEF Full
<1> QED BY <1>1, <1>2

\* An empty cache that no thread is filling.
LEMMA EmptyIsHalfFull ==
    ASSUME NEW c, cache[c] = Registry!Nothing, Filling(c) = {}
    PROVE  HalfFull(c)
<1>1. DOMAIN cache[c] = {}
  BY DEF Registry!Nothing
<1> QED BY <1>1 DEF HalfFull, Registry!Nothing

LEMMA RegistryInitially == Registry!Init => RegistryInv
<1> SUFFICES ASSUME Registry!Init
             PROVE  RegistryInv
  OBVIOUS
<1>1. Loaded = {}
  BY DEF Registry!Init, Loaded, Registry!Running
<1>2. ThreadsTyped
  BY DEF Registry!Init, ThreadsTyped
<1>3. Registered
  BY <1>1 DEF Registry!Init, Registered, Full, Registry!Caches
<1>4. Lookups
  <2> SUFFICES ASSUME NEW c \in Registry!Lazy
               PROVE  HalfFull(c)
    BY DEF Lookups
  <2>1. cache[c] = Registry!Nothing
    BY DEF Registry!Init, Registry!Caches, Registry!Lazy
  <2>2. Filling(c) = {}
    BY DEF Registry!Init, Filling, Registry!Idle
  <2> QED BY <2>1, <2>2, EmptyIsHalfFull
<1> QED BY <1>2, <1>3, <1>4 DEF RegistryInv

\* Plugins are loaded and unloaded at rest: a configuration that succeeds starts over.
LEMMA ConfigKeeps ==
    ASSUME RegistryInv, Registry!AtRest, thread' = thread,
           Registry!UpdateConfig({loaded'[i] : i \in DOMAIN loaded'})
    PROVE  RegistryInv'
<1> DEFINE ps == {loaded'[i] : i \in DOMAIN loaded'}
<1>1. ps = Loaded'
  BY DEF Loaded, Registry!Running
<1>2. Registry!UpdateConfig(ps)
  OBVIOUS
<1> HIDE DEF ps
<1>3. broken' = (Registry!FormConflict(ps) \/ Registry!Conflict("helpers", ps)
                 \/ Registry!Conflict("actions", ps))
  BY <1>2 DEF Registry!UpdateConfig
<1>4. ~ broken' => /\ forms' = Registry!Forms(ps)
                   /\ cache' = [c \in Registry!Caches |->
                                  CASE c = "helpers" -> Registry!Expected(c, ps)
                                    [] c = "actions" -> Registry!Actions(ps)
                                    [] OTHER -> Registry!Cleared(c)]
                   /\ ~ Registry!Conflict("actions", ps)
  BY <1>2, <1>3 DEF Registry!UpdateConfig
<1>5. ThreadsTyped'
  <2>1. DOMAIN cache' = Registry!Caches
    BY <1>2 DEF Registry!UpdateConfig, RegistryInv, ThreadsTyped
  <2>2. broken' \in BOOLEAN
    BY <1>3
  <2> QED BY <2>1, <2>2 DEF RegistryInv, ThreadsTyped
<1>6. Registered'
  BY <1>1, <1>4 DEF Registered, Registry!Actions, Full, Registry!Caches
<1>7. Lookups'
  <2> SUFFICES ASSUME ~ broken', NEW c \in Registry!Lazy
               PROVE  HalfFull(c)'
    BY DEF Lookups
  <2>1. cache'[c] = Registry!Nothing
    BY <1>4 DEF Registry!Caches, Registry!Lazy, Registry!Cleared
  <2>2. Filling(c)' = {}
    BY DEF Registry!AtRest, Filling, Registry!Idle
  <2> QED BY <2>1, <2>2 DEF HalfFull, Registry!Nothing
<1> QED BY <1>5, <1>6, <1>7 DEF RegistryInv

\* A load or an unload stops at a name that is not found, or registers what it came to.
LEMMA FinishKeeps ==
    ASSUME RegistryInv, NEW done, Registry!Finish(done), Registry!AtRest, thread' = thread
    PROVE  RegistryInv'
<1>1. CASE done
  <2>1. Registry!UpdateConfig({loaded'[i] : i \in DOMAIN loaded'})
    BY <1>1 DEF Registry!Finish
  <2> QED BY <2>1, ConfigKeeps
<1>2. CASE ~ done
  <2>1. broken' = TRUE /\ cache' = cache
    BY <1>2 DEF Registry!Finish
  <2> QED BY <2>1 DEF RegistryInv, ThreadsTyped, Registered, Lookups
<1> QED BY <1>1, <1>2

LEMMA LoadingKeeps ==
    ASSUME RegistryInv, NEW ps, Registry!Load(ps) \/ Registry!Unload(ps)
    PROVE  RegistryInv'
<1> Registry!AtRest /\ thread' = thread
  BY DEF Registry!Load, Registry!Unload
<1>1. CASE Registry!Load(ps)
  BY <1>1, FinishKeeps DEF Registry!Load
<1>2. CASE Registry!Unload(ps)
  BY <1>2, FinishKeeps DEF Registry!Unload
<1> QED BY <1>1, <1>2

\* What is loaded is not changed by requests.
LEMMA SameLoaded ==
    ASSUME loaded' = loaded
    PROVE  /\ Loaded' = Loaded
           /\ \A c : Full(c)' = Full(c) /\ Theirs(c)' = Theirs(c)
<1>1. Loaded' = Loaded
  BY DEF Loaded, Registry!Running
<1> QED BY <1>1 DEF Full, Theirs

LEMMA FillKeeps ==
    ASSUME RegistryInv, NEW t \in Workers, NEW c \in Registry!Lazy, Registry!Fill(t, c)
    PROVE  RegistryInv'
<1>1. /\ thread[t] = Registry!Idle
      /\ thread' = [thread EXCEPT ![t] = [at |-> "core", cache |-> c]]
      /\ loaded' = loaded /\ cache' = cache /\ forms' = forms /\ broken' = broken
  BY DEF Registry!Fill
<1>2. ThreadsTyped'
  BY <1>1 DEF RegistryInv, ThreadsTyped
<1>3. Registered'
  BY <1>1, SameLoaded DEF RegistryInv, Registered
<1>4. Lookups'
  <2>1. ASSUME NEW d
        PROVE  Filling(d)' = Filling(d)
    BY <1>1 DEF Filling, Registry!Idle, RegistryInv, ThreadsTyped
  <2> QED BY <1>1, <2>1, SameLoaded DEF RegistryInv, Lookups, HalfFull
<1> QED BY <1>2, <1>3, <1>4 DEF RegistryInv

\* The thread that has the plugins to come is one that is filling.
LEMMA FillCoreKeeps ==
    ASSUME RegistryInv, NEW t \in Workers, Registry!FillCore(t)
    PROVE  RegistryInv'
<1> DEFINE c == thread[t].cache
<1>1. /\ thread[t].at = "core"
      /\ cache' = [cache EXCEPT ![c] = [n \in DOMAIN cache[c] \cup Core[c] |->
                     IF n \in Core[c] THEN "core" ELSE cache[c][n]]]
      /\ thread' = [thread EXCEPT ![t].at = "plugins"]
      /\ loaded' = loaded /\ forms' = forms /\ broken' = broken
  BY DEF Registry!FillCore
<1>2. /\ c \in Registry!Lazy
      /\ thread[t] \in [at : {"core", "plugins"}, cache : Registry!Lazy]
  BY <1>1 DEF RegistryInv, ThreadsTyped, Registry!Idle
<1>3. ThreadsTyped'
  <2>1. thread'[t] \in [at : {"core", "plugins"}, cache : Registry!Lazy]
    BY <1>1, <1>2 DEF RegistryInv, ThreadsTyped
  <2> QED BY <1>1, <2>1 DEF RegistryInv, ThreadsTyped
<1>4. \A d \in Registry!Caches : d # c => cache'[d] = cache[d]
  BY <1>1 DEF RegistryInv, ThreadsTyped
<1>5. Registered'
  <2>1. \A d \in {"actions", "helpers"} : cache'[d] = cache[d]
    BY <1>2, <1>4 DEF Registry!Caches, Registry!Lazy
  <2> QED BY <1>1, <2>1, SameLoaded DEF RegistryInv, Registered
<1>6. ASSUME NEW d
      PROVE  Filling(d)' = IF d = c THEN Filling(d) \cup {t} ELSE Filling(d)
  <2>1. \A u \in Workers : u # t => thread'[u] = thread[u]
    BY <1>1 DEF RegistryInv, ThreadsTyped
  <2>2. thread'[t].at = "plugins" /\ thread'[t].cache = c
    BY <1>1, <1>2 DEF RegistryInv, ThreadsTyped
  <2> QED BY <1>1, <2>1, <2>2 DEF Filling
<1>7. Lookups'
  <2> SUFFICES ASSUME ~ broken', NEW d \in Registry!Lazy, ~ Registry!Conflict(d, Loaded)'
               PROVE  HalfFull(d)'
    BY DEF Lookups
  <2>1. ~ Registry!Conflict(d, Loaded) /\ HalfFull(d)
    BY <1>1, SameLoaded DEF RegistryInv, Lookups
  <2>2. CASE d # c
    <3>1. cache'[d] = cache[d] /\ Filling(d)' = Filling(d)
      BY <1>4, <1>6, <2>2 DEF Registry!Caches, Registry!Lazy
    <3> QED BY <1>1, <2>1, <3>1, SameLoaded DEF HalfFull
  <2>3. CASE d = c
    <3>1. cache'[d] = [n \in DOMAIN cache[d] \cup Core[d] |->
                         IF n \in Core[d] THEN "core" ELSE cache[d][n]]
      BY <1>1, <1>2, <2>3 DEF RegistryInv, ThreadsTyped, Registry!Caches, Registry!Lazy
    <3>2. Filling(d)' # {}
      BY <1>6, <2>3
    <3>3. d = "validators" => \A n \in Theirs(d) : n \notin Core[d]
      BY <2>1 DEF Registry!Conflict, Theirs
    <3>4. /\ DOMAIN cache'[d] = DOMAIN cache[d] \cup Core[d]
          /\ \A n \in Core[d] : cache'[d][n] = "core"
          /\ \A n \in DOMAIN cache[d] \ Core[d] : cache'[d][n] = cache[d][n]
          /\ cache'[d] = [n \in DOMAIN cache'[d] |-> cache'[d][n]]
      BY <3>1
    <3>5. /\ DOMAIN cache[d] \subseteq Core[d] \cup Theirs(d)
          /\ \A n \in DOMAIN cache[d] : n \notin Core[d] => cache[d][n] = Full(d)[n]
          /\ d = "validators" /\ Theirs(d) \cap DOMAIN cache[d] # {} =>
               Theirs(d) \subseteq DOMAIN cache[d]
      BY <2>1 DEF HalfFull
    <3>6. Full(d)' = Full(d) /\ Theirs(d)' = Theirs(d)
      BY <1>1, SameLoaded
    <3> QED BY <3>2, <3>3, <3>4, <3>5, <3>6 DEF HalfFull
  <2> QED BY <2>2, <2>3
<1> QED BY <1>3, <1>5, <1>7 DEF RegistryInv

\* What a thread with the plugins to come adds to what there is, and when it cannot.
Collected(c) ==
    [n \in DOMAIN cache[c] \cup Theirs(c) |-> IF n \in Theirs(c) THEN Full(c)[n] ELSE cache[c][n]]

Clash(c) ==
    Registry!Conflict(c, Loaded) \/ (c = "validators" /\ Theirs(c) \cap DOMAIN cache[c] # {})

Named(c) ==
    IF ~ Clash(c) THEN {DOMAIN Collected(c)}
    ELSE IF c = "auth" THEN {DOMAIN cache[c]}
    ELSE {DOMAIN cache[c] \cup part : part \in SUBSET Theirs(c)}

Left(c, names) ==
    [n \in names |-> IF Clash(c) /\ n \in DOMAIN cache[c] THEN cache[c][n] ELSE Collected(c)[n]]

\* Without a conflict, what the thread leaves is full: what is there already is in its place.
LEMMA FilledIsFull ==
    ASSUME NEW c \in Registry!Lazy, ~ Registry!Conflict(c, Loaded), HalfFull(c), Filling(c) # {},
           NEW names \in Named(c)
    PROVE  Left(c, names) = Full(c)
<1>1. /\ DOMAIN cache[c] \subseteq Core[c] \cup Theirs(c)
      /\ Core[c] \subseteq DOMAIN cache[c]
      /\ \A n \in DOMAIN cache[c] : \/ cache[c][n] = Full(c)[n]
                                    \/ cache[c][n] = "core" /\ n \in Core[c]
      /\ c = "validators" /\ Theirs(c) \cap DOMAIN cache[c] # {} => Theirs(c) \subseteq DOMAIN cache[c]
  BY DEF HalfFull
<1>2. Full(c) = [n \in Core[c] \cup Theirs(c) |-> Full(c)[n]]
  BY FullHas
<1>3. \A n \in Core[c] \ Theirs(c) : Full(c)[n] = "core"
  BY FullHas
<1>4. c = "validators" => \A n \in Theirs(c) : n \notin Core[c]
  BY DEF Registry!Conflict, Theirs
<1>5. Clash(c) => c = "validators" /\ Theirs(c) \subseteq DOMAIN cache[c]
  BY <1>1 DEF Clash
<1>6. names = Core[c] \cup Theirs(c)
  BY <1>1, <1>5 DEF Named, Collected
<1>7. \A n \in names : Left(c, names)[n] = Full(c)[n]
  <2>1. CASE Clash(c)
    BY <1>1, <1>3, <1>4, <1>5, <1>6, <2>1 DEF Left
  <2>2. CASE ~ Clash(c)
    BY <1>1, <1>3, <1>6, <2>2 DEF Left, Collected
  <2> QED BY <2>1, <2>2
<1> QED BY <1>2, <1>6, <1>7 DEF Left

LEMMA FillPluginsKeeps ==
    ASSUME RegistryInv, NEW t \in Workers, Registry!FillPlugins(t)
    PROVE  RegistryInv'
<1>1. PICK c \in Registry!Lazy : \E names \in Named(c) :
               t \in Filling(c) /\ cache' = [cache EXCEPT ![c] = Left(c, names)]
  <2> DEFINE k == thread[t].cache
  <2>1. k \in Registry!Lazy /\ t \in Filling(k)
    BY DEF Registry!FillPlugins, RegistryInv, ThreadsTyped, Registry!Idle, Filling
  <2>2. \E names \in Named(k) : cache' = [cache EXCEPT ![k] = Left(k, names)]
    BY DEF Registry!FillPlugins, Named, Left, Clash, Collected, Full, Theirs, Loaded
  <2> HIDE DEF k
  <2> QED BY <2>1, <2>2
<1>2. /\ thread[t].at = "plugins"
      /\ thread' = [thread EXCEPT ![t] = Registry!Idle]
      /\ loaded' = loaded /\ forms' = forms /\ broken' = broken
  BY DEF Registry!FillPlugins
<1> PICK names \in Named(c) : t \in Filling(c) /\ cache' = [cache EXCEPT ![c] = Left(c, names)]
  BY <1>1
<1>3. ThreadsTyped'
  BY <1>2 DEF RegistryInv, ThreadsTyped
<1>4. \A d \in Registry!Caches : d # c => cache'[d] = cache[d]
  BY DEF RegistryInv, ThreadsTyped
<1>5. Registered'
  <2>1. \A d \in {"actions", "helpers"} : cache'[d] = cache[d]
    BY <1>4 DEF Registry!Caches, Registry!Lazy
  <2> QED BY <1>2, <2>1, SameLoaded DEF RegistryInv, Registered
<1>6. Lookups'
  <2> SUFFICES ASSUME ~ broken', NEW d \in Registry!Lazy, ~ Registry!Conflict(d, Loaded)'
               PROVE  HalfFull(d)'
    BY DEF Lookups
  <2>1. ~ Registry!Conflict(d, Loaded) /\ HalfFull(d)
    BY <1>2, SameLoaded DEF RegistryInv, Lookups
  <2>2. CASE d # c
    <3>1. cache'[d] = cache[d]
      BY <1>4, <2>2 DEF Registry!Caches, Registry!Lazy
    <3>2. \A u \in Workers : u # t => thread'[u] = thread[u]
      BY <1>2 DEF RegistryInv, ThreadsTyped
    <3>3. thread'[t].at # "plugins"
      BY <1>2 DEF RegistryInv, ThreadsTyped, Registry!Idle
    <3>4. Filling(d)' = Filling(d)
      BY <1>1, <2>2, <3>2, <3>3 DEF Filling
    <3> QED BY <1>2, <2>1, <3>1, <3>4, SameLoaded DEF HalfFull
  <2>3. CASE d = c
    <3>1. cache'[c] = Left(c, names)
      BY DEF RegistryInv, ThreadsTyped, Registry!Caches, Registry!Lazy
    <3>2. ~ Registry!Conflict(c, Loaded) /\ HalfFull(c) /\ Filling(c) # {}
      BY <1>1, <2>1, <2>3
    <3>3. cache'[c] = Full(c)
      BY <3>1, <3>2, FilledIsFull
    <3>4. Full(c)' = Full(c) /\ Theirs(c)' = Theirs(c)
      BY <1>2, SameLoaded
    <3>5. DOMAIN Full(c) = Core[c] \cup Theirs(c) /\ Full(c) = [n \in DOMAIN Full(c) |-> Full(c)[n]]
      BY FullHas
    <3> QED BY <2>3, <3>3, <3>4, <3>5 DEF HalfFull
  <2> QED BY <2>2, <2>3
<1> QED BY <1>3, <1>5, <1>6 DEF RegistryInv

LEMMA RegistryStep == RegistryInv /\ [Registry!Next]_Registry!vars => RegistryInv'
<1> SUFFICES ASSUME RegistryInv, [Registry!Next]_Registry!vars
             PROVE  RegistryInv'
  OBVIOUS
<1>1. ASSUME NEW ps, Registry!Load(ps) \/ Registry!Unload(ps)
      PROVE  RegistryInv'
  BY <1>1, LoadingKeeps
<1>3. ASSUME NEW t \in Workers, NEW c \in Registry!Lazy, Registry!Fill(t, c)
      PROVE  RegistryInv'
  BY <1>3, FillKeeps
<1>4. ASSUME NEW t \in Workers, Registry!FillCore(t)
      PROVE  RegistryInv'
  BY <1>4, FillCoreKeeps
<1>5. ASSUME NEW t \in Workers, Registry!FillPlugins(t)
      PROVE  RegistryInv'
  BY <1>5, FillPluginsKeeps
<1>6. CASE UNCHANGED Registry!vars
  BY <1>6, SameLoaded DEF Registry!vars, RegistryInv, ThreadsTyped, Registered, Lookups, HalfFull,
     Filling
<1> QED BY <1>1, <1>3, <1>4, <1>5, <1>6 DEF Registry!Next

LEMMA RegistryInvGives == RegistryInv => ServedAsLoaded
<1> SUFFICES ASSUME RegistryInv, ~ broken, Registry!AtRest
             PROVE  /\ forms = Registry!Forms(Loaded)
                    /\ \A c \in {"actions", "helpers"} : cache[c] = Full(c)
                    /\ \A c \in Registry!Lazy :
                         cache[c] # Registry!Nothing /\ ~ Registry!Conflict(c, Loaded) =>
                           cache[c] = Full(c)
  BY DEF ServedAsLoaded, Registry!ServedAsLoaded, Loaded, Full
<1>1. \A c : Filling(c) = {}
  BY DEF Registry!AtRest, Filling, Registry!Idle
<1> QED BY <1>1 DEF RegistryInv, Registered, Lookups, HalfFull

\* What is looked up of plugins is what the loaded ones define and core for the rest,
\* whatever failed before and however threads filled the caches beside each other.
THEOREM LookupsStayAsLoaded == SiteSpec => []ServedAsLoaded
<1>1. RegistryInv /\ [Registry!Next]_Registry!vars => RegistryInv'
  BY RegistryStep
<1> QED BY <1>1, SiteRunsRegistry, RegistryInitially, RegistryInvGives, PTL DEF Registry!Spec

-----------------------------------------------------------------------------
(***************************************************************************)
(* Accounts.                                                               *)
(***************************************************************************)
LEMMA SiteRunsPeople == SiteSpec => People!Spec
<1>1. SiteInit => People!Init
  BY DEF SiteInit
<1>2. [SiteNext]_all => [People!Next]_People!vars
  BY DEF SiteNext, all, userVars, People!vars
<1> QED BY <1>1, <1>2, PTL DEF SiteSpec, People!Spec

Hashes == [text : Passwords, old : {FALSE}]
NewRows == [name : Names, password : Hashes, key : Nat, state : {"active"}]
Settings == [name : Names, state : {"active"}] \cup [password : Hashes]
              \cup [name : Names, state : {"active", "deleted"}, key : Nat]

AccountsTyped ==
    /\ account \in [Persons -> People!Rows \cup {None}] /\ nextKey \in Nat
    /\ userPc \in [Workers -> {"idle", "commit"}]
    /\ userReq \in [Workers -> [user : Persons \cup {None},
                                kind : {"none", "create", "update", "apikey", "login"}]]
    /\ session \in [Workers -> People!Rows \cup {None}]
    /\ change \in [Workers -> NewRows \cup Settings \cup {<<>>}]
    /\ lastSet \in [Persons -> Passwords \cup {None}]

\* A request that makes an account is the only one on it ...
Making(w) ==
    /\ session[w] = None /\ userReq[w].kind = "create" /\ change[w] \in NewRows
    /\ account[userReq[w].user] = None
    /\ \A v \in Workers \ {w} : userPc[v] = "commit" => userReq[v].user # userReq[w].user

\* ... and the others are about one that is there; a login had an old hash.
Changing(w) ==
    /\ session[w] # None /\ account[userReq[w].user] # None
    /\ userReq[w].kind # "login" => change[w] \in Settings
    /\ userReq[w].kind = "login" =>
         /\ session[w].password.old
         /\ change[w] = [password |-> People!Hash(session[w].password.text)]

SessionsFit ==
    \A w \in Workers : userPc[w] = "commit" =>
      userReq[w].user \in Persons /\ (Making(w) \/ Changing(w))

\* What a login brought back is hashed anew, so that no login does it again.
PasswordsKept ==
    \A u \in Persons : account[u] # None =>
      /\ u \notin userCrossed => account[u].password.text = lastSet[u]
      /\ u \in userCrossed => ~ account[u].password.old

PeopleInv == AccountsTyped /\ SessionsFit /\ PasswordsKept

LEMMA PeopleInitially == People!Init => PeopleInv
<1> SUFFICES ASSUME People!Init PROVE PeopleInv
  OBVIOUS
<1>1. PICK S \in SUBSET Persons, n \in Names, p \in Passwords :
        account = [u \in Persons |-> IF u \in S
                     THEN [name |-> n, password |-> [text |-> p, old |-> TRUE], key |-> 0,
                           state |-> "active"]
                     ELSE None]
  BY DEF People!Init
<1>a. [text |-> p, old |-> TRUE] \in [text : Passwords, old : BOOLEAN]
  OBVIOUS
<1>b. [name |-> n, password |-> [text |-> p, old |-> TRUE], key |-> 0, state |-> "active"]
        \in People!Rows
  BY <1>a DEF People!Rows
<1>2. account \in [Persons -> People!Rows \cup {None}]
  BY <1>1, <1>b
<1>3. \A u \in Persons : account[u] # None => account[u].password.text = p
  BY <1>1
<1>4. lastSet \in [Persons -> Passwords \cup {None}]
  BY <1>1, <1>3 DEF People!Init
<1>5. AccountsTyped
  BY <1>2, <1>4 DEF People!Init, AccountsTyped, People!NoRequest
<1>6. SessionsFit /\ PasswordsKept
  BY DEF People!Init, SessionsFit, PasswordsKept
<1> QED BY <1>5, <1>6 DEF PeopleInv

LEMMA StartKeeps ==
    ASSUME PeopleInv, NEW w \in Workers, NEW u \in Persons,
           NEW knd \in {"create", "update", "apikey", "login"},
           NEW set \in NewRows \cup Settings,
           People!Start(w, u, knd, set), nextKey' \in Nat,
           \/ People!New(u) /\ knd = "create" /\ set \in NewRows
           \/ /\ account[u] # None /\ knd # "create"
              /\ knd # "login" => set \in Settings
              /\ knd = "login" => /\ account[u].password.old
                                  /\ set = [password |-> People!Hash(account[u].password.text)]
    PROVE  PeopleInv'
<1>1. AccountsTyped'
  BY DEF PeopleInv, AccountsTyped, People!Start
<1>2. ASSUME NEW v \in Workers, v # w, userPc'[v] = "commit"
      PROVE  userReq'[v].user \in Persons /\ (Making(v) \/ Changing(v))'
  <2>1. userPc[v] = "commit" /\ userReq'[v] = userReq[v] /\ session'[v] = session[v]
        /\ change'[v] = change[v] /\ account' = account
    BY <1>2 DEF PeopleInv, AccountsTyped, People!Start
  <2>2. userReq[v].user \in Persons /\ (Making(v) \/ Changing(v))
    BY <2>1 DEF PeopleInv, SessionsFit
  <2>3. CASE Changing(v)
    BY <2>1, <2>2, <2>3 DEF Changing
  <2>4. CASE Making(v)
    <3>1. u # userReq[v].user
      BY <2>4 DEF Making, People!New
    <3>2. userReq' = [userReq EXCEPT ![w] = [user |-> u, kind |-> knd]] /\ userReq'[w].user = u
      BY DEF PeopleInv, AccountsTyped, People!Start
    <3>3. \A x \in Workers \ {v} : userPc'[x] = "commit" => userReq'[x].user # userReq'[v].user
      BY <2>1, <2>4, <3>1, <3>2 DEF PeopleInv, AccountsTyped, People!Start, Making
    <3> QED BY <2>1, <2>2, <2>4, <3>3 DEF Making
  <2> QED BY <2>2, <2>3, <2>4
<1>3. userReq'[w].user \in Persons /\ (Making(w) \/ Changing(w))'
  <2>1. /\ userReq'[w] = [user |-> u, kind |-> knd] /\ session'[w] = account[u]
        /\ change'[w] = set /\ account' = account
        /\ \A v \in Workers \ {w} : userReq'[v] = userReq[v]
    BY DEF PeopleInv, AccountsTyped, People!Start
  <2>2. CASE People!New(u) /\ knd = "create" /\ set \in NewRows
    BY <2>1, <2>2 DEF Making, People!New
  <2>3. CASE account[u] # None /\ knd # "create"
    BY <2>1, <2>3 DEF Changing
  <2> QED BY <2>1, <2>2, <2>3
<1>4. SessionsFit'
  BY <1>2, <1>3 DEF SessionsFit
<1>5. PasswordsKept'
  BY DEF PeopleInv, PasswordsKept, People!Start
<1> QED BY <1>1, <1>4, <1>5 DEF PeopleInv

LEMMA HashIsOne == \A p \in Passwords : People!Hash(p) \in Hashes /\ People!Hash(p).text = p
<1> QED BY DEF People!Hash, Hashes

LEMMA CommitPersonKeeps ==
    ASSUME PeopleInv, NEW w \in Workers, People!Commit(w)
    PROVE  /\ PeopleInv'
           /\ \A u \in Persons : account[u] # None => \A f \in {"name", "key", "state"} :
                account'[u][f] # account[u][f] =>
                  u = userReq[w].user /\ f \in DOMAIN change[w] /\ change[w][f] # session[w][f]
<1> DEFINE u == userReq[w].user
           new == People!After(w)
<1>1. /\ userPc[w] = "commit" /\ u \in Persons /\ nextKey' = nextKey
      /\ userPc' = [userPc EXCEPT ![w] = "idle"]
      /\ userReq' = [userReq EXCEPT ![w] = People!NoRequest]
      /\ session' = [session EXCEPT ![w] = None] /\ change' = [change EXCEPT ![w] = <<>>]
      /\ Making(w) \/ Changing(w)
  BY DEF PeopleInv, SessionsFit, People!Commit, People!CommitAs, People!Idle
<1>2. /\ new \in People!Rows
      /\ Making(w) => new = change[w] /\ change[w] \in NewRows /\ "password" \in DOMAIN change[w]
      /\ Changing(w) =>
           /\ \A f \in {"name", "key", "state"} :
                new[f] # account[u][f] => f \in DOMAIN change[w] /\ change[w][f] # session[w][f]
           /\ "password" \notin DOMAIN change[w] => new.password = account[u].password
           /\ "password" \in DOMAIN change[w] =>
                new.password = change[w].password /\ change[w].password \in Hashes
  <2>1. CASE Making(w)
    <3>1. session[w] = None /\ change[w] \in NewRows
      BY <2>1 DEF Making
    <3>2. ~ Changing(w)
      BY <2>1 DEF Making, Changing
    <3>3. NewRows \subseteq People!Rows
      BY DEF NewRows, People!Rows, Hashes
    <3> QED BY <3>1, <3>2, <3>3 DEF People!After, NewRows
  <2>2. CASE Changing(w)
    <3>1. session[w] # None /\ account[u] # None /\ ~ Making(w) /\ account[u] \in People!Rows
          /\ session[w] \in People!Rows
      BY <1>1, <2>2 DEF Changing, Making, PeopleInv, AccountsTyped
    <3>2. change[w] \in Settings
      <4>1. CASE userReq[w].kind = "login"
        <5>1. session[w].password.text \in Passwords
          BY <3>1 DEF People!Rows
        <5> QED BY <4>1, <5>1, <2>2, HashIsOne DEF Changing, Settings
      <4> QED BY <4>1, <2>2 DEF Changing
    <3>3. DOMAIN account[u] = {"name", "password", "key", "state"}
      BY <3>1 DEF People!Rows
    <3>4. new = [f \in {"name", "password", "key", "state"} |->
                   IF f \in People!Dirty(w) THEN change[w][f] ELSE account[u][f]]
      BY <3>1, <3>3 DEF People!After
    <3>5. \A f \in {"name", "key", "state"} :
             f \in People!Dirty(w) <=> f \in DOMAIN change[w] /\ change[w][f] # session[w][f]
      BY <3>1 DEF People!Dirty
    <3>6. "password" \in People!Dirty(w) <=> "password" \in DOMAIN change[w]
      BY DEF People!Dirty
    <3>7. "password" \in DOMAIN change[w] => change[w].password \in Hashes
      BY <3>2 DEF Settings
    <3>8. /\ "name" \in DOMAIN change[w] => change[w].name \in Names
          /\ "key" \in DOMAIN change[w] => change[w].key \in Nat
          /\ "state" \in DOMAIN change[w] => change[w].state \in {"active", "deleted"}
      BY <3>2 DEF Settings
    <3>9. new \in People!Rows
      <4>1. Hashes \subseteq [text : Passwords, old : BOOLEAN]
        BY DEF Hashes
      <4>2. new.name \in Names /\ new.key \in Nat /\ new.state \in {"active", "deleted"}
        BY <3>1, <3>4, <3>5, <3>8 DEF People!Rows
      <4>3. new.password \in [text : Passwords, old : BOOLEAN]
        BY <3>1, <3>4, <3>6, <3>7, <4>1 DEF People!Rows
      <4> QED BY <3>4, <4>2, <4>3 DEF People!Rows
    <3> QED BY <3>1, <3>4, <3>5, <3>6, <3>7, <3>9
  <2> QED BY <1>1, <2>1, <2>2
<1>3. CASE ~ People!NameIsFree(new.name, u)
  <2>1. UNCHANGED <<account, lastSet, userCrossed>>
    BY <1>3 DEF People!Commit, People!CommitAs
  <2>2. AccountsTyped' /\ PasswordsKept'
    BY <1>1, <2>1 DEF PeopleInv, AccountsTyped, PasswordsKept, People!NoRequest
  <2>3. SessionsFit'
    BY <1>1, <2>1 DEF PeopleInv, AccountsTyped, SessionsFit, Making, Changing
  <2> QED BY <2>1, <2>2, <2>3 DEF PeopleInv
<1>4. CASE People!NameIsFree(new.name, u)
  <2>1. /\ account' = [account EXCEPT ![u] = new]
        /\ lastSet' = IF userReq[w].kind # "login" /\ "password" \in DOMAIN change[w]
                      THEN [lastSet EXCEPT ![u] = new.password.text] ELSE lastSet
        /\ userCrossed' = IF userReq[w].kind = "login" /\ account[u].password # session[w].password
                          THEN userCrossed \cup {u}
                          ELSE IF "password" \in DOMAIN change[w] THEN userCrossed \ {u}
                          ELSE userCrossed
    BY <1>4 DEF People!Commit, People!CommitAs
  <2> HIDE DEF new
  <2>2. account'[u] = new /\ \A x \in Persons \ {u} : account'[x] = account[x]
    BY <1>1, <2>1 DEF PeopleInv, AccountsTyped
  <2>3. new.password.text \in Passwords
    BY <1>2 DEF People!Rows
  <2>4. AccountsTyped'
    <3>1. account' \in [Persons -> People!Rows \cup {None}]
      BY <1>1, <1>2, <2>1 DEF PeopleInv, AccountsTyped
    <3>2. lastSet' \in [Persons -> Passwords \cup {None}]
      BY <1>1, <2>1, <2>3 DEF PeopleInv, AccountsTyped
    <3> QED BY <1>1, <3>1, <3>2 DEF PeopleInv, AccountsTyped, People!NoRequest
  <2>5. ASSUME NEW v \in Workers, userPc'[v] = "commit"
        PROVE  userReq'[v].user \in Persons /\ (Making(v) \/ Changing(v))'
    <3>1. /\ v # w /\ userPc[v] = "commit" /\ userReq'[v] = userReq[v] /\ session'[v] = session[v]
          /\ change'[v] = change[v]
      BY <1>1, <2>5 DEF PeopleInv, AccountsTyped
    <3>2. userReq[v].user \in Persons /\ (Making(v) \/ Changing(v))
      BY <3>1 DEF PeopleInv, SessionsFit
    <3>3. CASE Making(v)
      <4>1. userReq[v].user # u
        BY <1>1, <3>1, <3>3 DEF Making
      <4>2. account'[userReq[v].user] = None
        BY <2>2, <3>2, <3>3, <4>1 DEF Making
      <4>3. \A x \in Workers \ {v} : userPc'[x] = "commit" => userReq'[x].user # userReq[v].user
        BY <1>1, <3>3 DEF Making, PeopleInv, AccountsTyped
      <4> QED BY <3>1, <3>2, <3>3, <4>2, <4>3 DEF Making
    <3>4. CASE Changing(v)
      <4>1. CASE userReq[v].user = u
        <5>1. account[u] # None /\ ~ Making(w)
          BY <3>4, <4>1 DEF Changing, Making
        <5>2. new # None
          BY <1>2, AccountsAssumption DEF People!Rows
        <5> QED BY <3>1, <3>2, <3>4, <4>1, <5>2, <2>2 DEF Changing
      <4> QED BY <3>1, <3>2, <3>4, <4>1, <2>2 DEF Changing
    <3> QED BY <3>2, <3>3, <3>4
  <2>6. SessionsFit'
    BY <2>5 DEF SessionsFit
  <2>7. ASSUME Making(w)
        PROVE  /\ new.password.text = lastSet'[u] /\ u \notin userCrossed'
               /\ account[u] = None
    BY <1>1, <1>2, <2>1, <2>7 DEF Making, PeopleInv, AccountsTyped
  <2>8. ASSUME Changing(w)
        PROVE  /\ u \notin userCrossed' => new.password.text = lastSet'[u]
               /\ u \in userCrossed' => ~ new.password.old
               /\ account[u] # None
    <3>1. /\ account[u] # None
          /\ u \notin userCrossed => account[u].password.text = lastSet[u]
          /\ u \in userCrossed => ~ account[u].password.old
      BY <1>1, <2>8 DEF Changing, PeopleInv, PasswordsKept
    <3>2. CASE userReq[w].kind = "login"
      <4>1. /\ session[w].password.old /\ "password" \in DOMAIN change[w]
            /\ change[w].password = People!Hash(session[w].password.text)
        BY <2>8, <3>2 DEF Changing
      <4>2. /\ new.password.text = session[w].password.text /\ ~ new.password.old
            /\ lastSet' = lastSet
        BY <1>2, <2>1, <2>8, <3>2, <4>1 DEF People!Hash
      <4>3. CASE account[u].password = session[w].password
        BY <2>1, <3>1, <3>2, <4>1, <4>2, <4>3
      <4>4. CASE account[u].password # session[w].password
        BY <2>1, <3>1, <3>2, <4>1, <4>2, <4>4
      <4> QED BY <4>3, <4>4
    <3>3. CASE userReq[w].kind # "login" /\ "password" \in DOMAIN change[w]
      BY <1>1, <2>1, <3>1, <3>3 DEF PeopleInv, AccountsTyped
    <3>4. CASE userReq[w].kind # "login" /\ "password" \notin DOMAIN change[w]
      BY <1>2, <2>1, <2>8, <3>1, <3>4
    <3> QED BY <3>1, <3>2, <3>3, <3>4
  <2>9. \A x \in Persons \ {u} :
          lastSet'[x] = lastSet[x] /\ (x \in userCrossed' <=> x \in userCrossed)
    BY <1>1, <2>1 DEF PeopleInv, AccountsTyped
  <2>10. PasswordsKept'
    BY <1>1, <2>2, <2>7, <2>8, <2>9 DEF PeopleInv, PasswordsKept
  <2>11. \A x \in Persons : account[x] # None => \A f \in {"name", "key", "state"} :
                account'[x][f] # account[x][f] =>
                  x = u /\ f \in DOMAIN change[w] /\ change[w][f] # session[w][f]
    BY <1>1, <1>2, <2>2, <2>7
  <2> QED BY <2>4, <2>6, <2>10, <2>11 DEF PeopleInv
<1> QED BY <1>3, <1>4

LEMMA PeopleStep == PeopleInv /\ [People!Next]_People!vars => PeopleInv'
<1> SUFFICES ASSUME PeopleInv, [People!Next]_People!vars PROVE PeopleInv'
  OBVIOUS
<1> USE DEF People!Existing
<1>1. nextKey \in Nat /\ nextKey + 1 \in Nat
  BY DEF PeopleInv, AccountsTyped
<1>2. ASSUME NEW w \in Workers, NEW u \in Persons, NEW p \in Passwords, NEW n \in Names,
             People!New(u), nextKey' = nextKey + 1,
             People!Start(w, u, "create", [name |-> n, password |-> People!Hash(p),
                                           key |-> nextKey, state |-> "active"])
      PROVE  PeopleInv'
  <2>1. [name |-> n, password |-> People!Hash(p), key |-> nextKey, state |-> "active"] \in NewRows
    BY <1>1, HashIsOne DEF NewRows
  <2> QED BY <1>1, <1>2, <2>1, StartKeeps
<1>3. ASSUME NEW w \in Workers, NEW u \in Persons, NEW p \in Passwords,
             People!GetSiteUser(w, u, p)
      PROVE  PeopleInv'
  BY <1>2, <1>3, AccountsAssumption DEF People!GetSiteUser
<1>4. ASSUME NEW w \in Workers, NEW u \in Persons, NEW p \in Passwords, NEW n \in Names,
             People!UserCreate(w, u, n, p)
      PROVE  PeopleInv'
  BY <1>2, <1>4 DEF People!UserCreate
<1>5. ASSUME NEW w \in Workers, NEW u \in Persons, NEW set \in People!UserUpdates,
             People!UserUpdate(w, u, set)
      PROVE  PeopleInv'
  <2>1. set \in Settings
    BY HashIsOne DEF People!UserUpdates, Settings
  <2> QED BY <1>1, <1>5, <2>1, StartKeeps DEF People!UserUpdate
<1>6. ASSUME NEW w \in Workers, NEW u \in Persons, People!UserGenerateApikey(w, u)
      PROVE  PeopleInv'
  <2>1. account[u] \in People!Rows
    BY <1>6 DEF People!UserGenerateApikey, PeopleInv, AccountsTyped
  <2>2. [name |-> account[u].name, state |-> account[u].state, key |-> nextKey] \in Settings
    BY <1>1, <2>1 DEF People!Rows, Settings
  <2> QED BY <1>1, <1>6, <2>2, StartKeeps DEF People!UserGenerateApikey
<1>7. ASSUME NEW w \in Workers, NEW u \in Persons, People!Login(w, u)
      PROVE  PeopleInv'
  <2>1. account[u] \in People!Rows
    BY <1>7 DEF People!Login, PeopleInv, AccountsTyped
  <2>2. [password |-> People!Hash(account[u].password.text)] \in Settings
    BY <2>1, HashIsOne DEF People!Rows, Settings
  <2> QED BY <1>1, <1>7, <2>2, StartKeeps DEF People!Login
<1>8. ASSUME NEW w \in Workers, People!Abort(w)
      PROVE  PeopleInv'
  <2>1. /\ userPc' = [userPc EXCEPT ![w] = "idle"]
        /\ userReq' = [userReq EXCEPT ![w] = People!NoRequest]
        /\ session' = [session EXCEPT ![w] = None] /\ change' = [change EXCEPT ![w] = <<>>]
        /\ UNCHANGED <<account, nextKey, lastSet, userCrossed>>
    BY <1>8 DEF People!Abort, People!Idle
  <2>2. AccountsTyped' /\ PasswordsKept'
    BY <2>1 DEF PeopleInv, AccountsTyped, PasswordsKept, People!NoRequest
  <2>3. SessionsFit'
    BY <2>1 DEF PeopleInv, AccountsTyped, SessionsFit, Making, Changing
  <2> QED BY <2>2, <2>3 DEF PeopleInv
<1>9. ASSUME NEW u \in Persons, People!UserDelete(u)
      PROVE  PeopleInv'
  <2>1. account[u] \in People!Rows /\ account[u] # None
    BY <1>9 DEF People!UserDelete, PeopleInv, AccountsTyped
  <2>2. PICK row \in People!Rows : row = [account[u] EXCEPT !.state = "deleted"]
    BY <2>1 DEF People!Rows
  <2>3. account' = [account EXCEPT ![u] = row] /\ row # None /\ row.password = account[u].password
    BY <1>9, <2>1, <2>2, AccountsAssumption DEF People!UserDelete, People!Rows
  <2>4. \A x \in Persons : /\ account'[x] = None <=> account[x] = None
                           /\ account[x] # None => account'[x].password = account[x].password
    BY <2>1, <2>3 DEF PeopleInv, AccountsTyped
  <2>5. UNCHANGED <<nextKey, userPc, userReq, session, change, lastSet, userCrossed>>
    BY <1>9 DEF People!UserDelete
  <2>6. AccountsTyped'
    BY <2>3, <2>5 DEF PeopleInv, AccountsTyped
  <2>7. SessionsFit'
    BY <2>4, <2>5 DEF PeopleInv, AccountsTyped, SessionsFit, Making, Changing
  <2>8. PasswordsKept'
    BY <2>4, <2>5 DEF PeopleInv, PasswordsKept
  <2> QED BY <2>6, <2>7, <2>8 DEF PeopleInv
<1>10. CASE UNCHANGED People!vars
  BY <1>10 DEF People!vars, PeopleInv, AccountsTyped, SessionsFit, Making, Changing, PasswordsKept
<1> QED BY <1>3, <1>4, <1>5, <1>6, <1>7, <1>8, <1>9, <1>10, CommitPersonKeeps DEF People!Next

\* An account accepts the password that was last chosen for it, whatever logins stored its
\* hash anew meanwhile, and a commit changes nothing that its request did not set: for any
\* accounts and requests (user_create, user_update, validate_password, the unit of work).
THEOREM AccountsStayAsSet == SiteSpec => AccountsHold
<1>1. PeopleInv => People!PasswordsAsSet
  BY DEF PeopleInv, PasswordsKept, People!PasswordsAsSet, People!Accepts, People!Existing
<1>2. PeopleInv => (\A w \in Workers : People!Commit(w) =>
         \A u \in People!Existing : \A f \in {"name", "key", "state"} :
           account'[u][f] # account[u][f] =>
             u = userReq[w].user /\ f \in DOMAIN change[w] /\ change[w][f] # session[w][f])
  BY CommitPersonKeeps DEF People!Existing
<1> QED BY <1>1, <1>2, PeopleInitially, PeopleStep, SiteRunsPeople, PTL
     DEF People!Spec, AccountsHold, People!OnlyWhatIsAsked

-----------------------------------------------------------------------------
(***************************************************************************)
(* Roles on objects.                                                       *)
(***************************************************************************)
LEMMA SiteRunsGiven == SiteSpec => Given!Spec
<1>1. SiteInit => Given!Init
  BY DEF SiteInit
<1>2. [SiteNext]_all => [Given!Next]_Given!vars
  BY DEF SiteNext, all, roleVars, Given!vars
<1> QED BY <1>1, <1>2, PTL DEF SiteSpec, Given!Spec

RoleUpdates == [user : RoleUsers, roles : SUBSET RoleNames]
RoleCounts == [RoleObjects -> [RoleUsers -> [RoleNames -> Nat]]]

RolesTyped ==
    /\ exists \in [RoleObjects -> {"no", "yes", "purged"}]
    /\ count \in RoleCounts
    /\ rolePc \in [Workers -> {"idle", "read", "add", "remove", "commit"}]
    /\ obj \in [Workers -> RoleObjects \cup {None}]
    /\ roles \in [Workers -> Seq(RoleUpdates)]
    /\ missing \in [Workers -> SUBSET RoleNames]
    /\ added \in [Workers -> SUBSET RoleNames]
    /\ unwanted \in [Workers -> SUBSET RoleNames]
    /\ roleCrossed \in [Workers -> BOOLEAN] /\ stale \in BOOLEAN

\* An update is about an object that was made; the account it is at has roles that are asked.
UserOf(w) == Head(roles[w]).user
AskedOf(w) == Head(roles[w]).roles
HadOf(w) == {r \in RoleNames : count[obj[w]][UserOf(w)][r] > 0}

Busy(w) == rolePc[w] # "idle"
Working(w) == rolePc[w] \in {"add", "remove", "commit"}

UpdatesFit ==
    \A w \in Workers : Busy(w) =>
      /\ obj[w] \in RoleObjects /\ exists[obj[w]] # "no" /\ roles[w] # <<>>
      /\ Working(w) =>
           /\ missing[w] \cup added[w] \subseteq AskedOf(w)
           /\ unwanted[w] \cap AskedOf(w) = {}
           /\ rolePc[w] # "add" => missing[w] = {}
           /\ rolePc[w] = "commit" => unwanted[w] = {}

\* Unless another commit crossed it, the account is what the update read, but for what it
\* has still to add or to remove.
UpdatesExact ==
    \A w \in Workers : Working(w) /\ ~ roleCrossed[w] =>
      /\ AskedOf(w) \ HadOf(w) = missing[w] \cup added[w]
      /\ HadOf(w) \ AskedOf(w) = unwanted[w]

OneRowEach ==
    ~ stale => \A o \in RoleObjects, u \in RoleUsers, r \in RoleNames : count[o][u][r] =< 1

RolesInv == RolesTyped /\ UpdatesFit /\ UpdatesExact /\ OneRowEach

LEMMA HeadOfUpdates ==
    ASSUME NEW s \in Seq(RoleUpdates), s # <<>>
    PROVE  /\ Head(s) \in RoleUpdates /\ Head(s).user \in RoleUsers
           /\ Head(s).roles \subseteq RoleNames /\ Tail(s) \in Seq(RoleUpdates)
           /\ Len(s) \in Nat /\ (Len(s) # 1 => Tail(s) # <<>>)
<1>1. Head(s) \in RoleUpdates /\ Tail(s) \in Seq(RoleUpdates) /\ Len(s) \in Nat
  OBVIOUS
<1>2. Len(s) # 0 /\ Len(Tail(s)) = Len(s) - 1
  OBVIOUS
<1>3. ASSUME Tail(s) = <<>> PROVE Len(s) = 1
  <2> DEFINE m == Len(s)
             n == Len(Tail(s))
  <2>1. Len(<<>>) = 0
    OBVIOUS
  <2>2. n = 0
    BY <1>3, <2>1, Zenon
  <2>3. m \in Nat /\ m # 0 /\ n = m - 1
    BY <1>1, <1>2
  <2> HIDE DEF m, n
  <2>4. m = 1
    BY <2>2, <2>3
  <2> QED BY <2>4 DEF m
<1> QED BY <1>1, <1>3 DEF RoleUpdates

LEMMA RolesInitially == Given!Init => RolesInv
<1> SUFFICES ASSUME Given!Init PROVE RolesInv
  OBVIOUS
<1>a. count \in RoleCounts
  BY DEF Given!Init, Given!NoRows, RoleCounts
<1>b. roles \in [Workers -> Seq(RoleUpdates)]
  BY DEF Given!Init
<1>1. RolesTyped
  BY <1>a, <1>b DEF Given!Init, RolesTyped
<1>2. UpdatesFit /\ UpdatesExact
  BY DEF Given!Init, UpdatesFit, UpdatesExact, Busy, Working
<1>3. OneRowEach
  BY DEF Given!Init, OneRowEach, Given!NoRows
<1> QED BY <1>1, <1>2, <1>3 DEF RolesInv

\* Objects that are made and purged: nobody is at work on those that were not there.
LEMMA SetupKeeps ==
    ASSUME RolesInv, NEW o \in RoleObjects, NEW creator,
           Given!SetupDefaultUserRoles(o, creator)
    PROVE  RolesInv'
<1> DEFINE new == [u \in RoleUsers |-> [r \in RoleNames |->
                   IF \/ u \in DOMAIN DefaultRoles /\ r \in DefaultRoles[u]
                      \/ u = creator /\ r = "admin"
                   THEN 1 ELSE 0]]
<1>1. /\ exists[o] = "no" /\ exists' = [exists EXCEPT ![o] = "yes"]
      /\ count' = [count EXCEPT ![o] = new]
      /\ UNCHANGED <<rolePc, obj, roles, missing, added, unwanted, roleCrossed, stale>>
  BY DEF Given!SetupDefaultUserRoles
<1>2. new \in [RoleUsers -> [RoleNames -> Nat]]
      /\ \A u \in RoleUsers, r \in RoleNames : new[u][r] =< 1
  OBVIOUS
<1> HIDE DEF new
<1>3. /\ count'[o] = new /\ \A x \in RoleObjects \ {o} : count'[x] = count[x]
      /\ \A x \in RoleObjects : exists'[x] = "no" => exists[x] = "no"
      /\ \A x \in RoleObjects \ {o} : exists'[x] = exists[x]
  BY <1>1 DEF RolesInv, RolesTyped, RoleCounts
<1>4. RolesTyped'
  BY <1>1, <1>2 DEF RolesInv, RolesTyped, RoleCounts
<1>5. UpdatesFit'
  BY <1>1, <1>3 DEF RolesInv, UpdatesFit, Busy, Working, UserOf, AskedOf
<1>6. \A w \in Workers : Working(w) => obj[w] \in RoleObjects \ {o}
  BY <1>1 DEF RolesInv, UpdatesFit, Busy, Working
<1>7. UpdatesExact'
  BY <1>1, <1>3, <1>6 DEF RolesInv, UpdatesExact, Working, UserOf, AskedOf, HadOf
<1>8. OneRowEach'
  BY <1>1, <1>2, <1>3 DEF RolesInv, OneRowEach
<1> QED BY <1>4, <1>5, <1>7, <1>8 DEF RolesInv

LEMMA PurgeObjectKeeps ==
    ASSUME RolesInv, NEW o \in RoleObjects, Given!Purge(o)
    PROVE  RolesInv'
<1>1. /\ exists' = [exists EXCEPT ![o] = "purged"]
      /\ count' = [count EXCEPT ![o] = Given!NoRows]
      /\ roleCrossed' = [v \in Workers |-> roleCrossed[v] \/ obj[v] = o]
      /\ UNCHANGED <<rolePc, obj, roles, missing, added, unwanted, stale>>
  BY DEF Given!Purge
<1>2. Given!NoRows \in [RoleUsers -> [RoleNames -> Nat]]
      /\ \A u \in RoleUsers, r \in RoleNames : Given!NoRows[u][r] =< 1
  BY DEF Given!NoRows
<1>3. /\ count'[o] = Given!NoRows /\ \A x \in RoleObjects \ {o} : count'[x] = count[x]
      /\ \A x \in RoleObjects : exists'[x] = "no" => exists[x] = "no"
      /\ \A w \in Workers : ~ roleCrossed'[w] => ~ roleCrossed[w] /\ obj[w] # o
  BY <1>1 DEF RolesInv, RolesTyped, RoleCounts
<1>4. RolesTyped'
  BY <1>1, <1>2 DEF RolesInv, RolesTyped, RoleCounts
<1>5. UpdatesFit'
  BY <1>1, <1>3 DEF RolesInv, UpdatesFit, Busy, Working, UserOf, AskedOf
<1>6. UpdatesExact'
  BY <1>1, <1>3 DEF RolesInv, UpdatesExact, UpdatesFit, Busy, Working, UserOf, AskedOf, HadOf
<1>7. OneRowEach'
  BY <1>1, <1>2, <1>3 DEF RolesInv, OneRowEach
<1> QED BY <1>4, <1>5, <1>6, <1>7 DEF RolesInv

LEMMA AskRolesKeeps ==
    ASSUME RolesInv, NEW w \in Workers, NEW o \in RoleObjects, NEW r \in RoleRequests,
           Given!Ask(w, o, r)
    PROVE  RolesInv'
<1>1. /\ exists[o] = "yes" /\ rolePc' = [rolePc EXCEPT ![w] = "read"]
      /\ obj' = [obj EXCEPT ![w] = o] /\ roles' = [roles EXCEPT ![w] = r]
      /\ UNCHANGED <<exists, count, missing, added, unwanted, roleCrossed, stale>>
  BY DEF Given!Ask
<1>2. r \in Seq(RoleUpdates) /\ r # <<>>
  BY RolesAssumption DEF RoleUpdates
<1>3. RolesTyped'
  BY <1>1, <1>2 DEF RolesInv, RolesTyped
<1>4. \A v \in Workers \ {w} : rolePc'[v] = rolePc[v] /\ obj'[v] = obj[v] /\ roles'[v] = roles[v]
  BY <1>1 DEF RolesInv, RolesTyped
<1>5. rolePc'[w] = "read" /\ obj'[w] = o /\ roles'[w] = r
  BY <1>1 DEF RolesInv, RolesTyped
<1>6. UpdatesFit'
  BY <1>1, <1>2, <1>4, <1>5 DEF RolesInv, UpdatesFit, Busy, Working, AskedOf
<1>7. UpdatesExact'
  BY <1>1, <1>4, <1>5 DEF RolesInv, UpdatesExact, Working, UserOf, AskedOf, HadOf
<1>8. OneRowEach'
  BY <1>1 DEF RolesInv, OneRowEach
<1> QED BY <1>3, <1>6, <1>7, <1>8 DEF RolesInv

LEMMA ReadRolesKeeps ==
    ASSUME RolesInv, NEW w \in Workers, Given!Read(w)
    PROVE  RolesInv'
<1>1. /\ rolePc[w] = "read" /\ rolePc' = [rolePc EXCEPT ![w] = "add"]
      /\ missing' = [missing EXCEPT ![w] = AskedOf(w) \ HadOf(w)]
      /\ unwanted' = [unwanted EXCEPT ![w] = HadOf(w) \ AskedOf(w)]
      /\ added' = [added EXCEPT ![w] = {}]
      /\ roleCrossed' = [roleCrossed EXCEPT ![w] = FALSE]
      /\ UNCHANGED <<exists, count, obj, roles, stale>>
  BY DEF Given!Read, Given!Unwanted, Given!RolesShow, AskedOf, HadOf, UserOf
<1>2. AskedOf(w) \subseteq RoleNames /\ HadOf(w) \subseteq RoleNames
  BY <1>1, HeadOfUpdates DEF RolesInv, RolesTyped, UpdatesFit, Busy, AskedOf, HadOf
<1>3. RolesTyped'
  BY <1>1, <1>2 DEF RolesInv, RolesTyped
<1>4. \A v \in Workers \ {w} :
        /\ rolePc'[v] = rolePc[v] /\ missing'[v] = missing[v] /\ unwanted'[v] = unwanted[v]
        /\ added'[v] = added[v] /\ roleCrossed'[v] = roleCrossed[v]
  BY <1>1 DEF RolesInv, RolesTyped
<1>5. /\ rolePc'[w] = "add" /\ missing'[w] = AskedOf(w) \ HadOf(w) /\ added'[w] = {}
      /\ unwanted'[w] = HadOf(w) \ AskedOf(w)
  BY <1>1 DEF RolesInv, RolesTyped
<1>6. \A v \in Workers : AskedOf(v)' = AskedOf(v) /\ HadOf(v)' = HadOf(v)
  BY <1>1 DEF AskedOf, HadOf, UserOf
<1>7. UpdatesFit'
  BY <1>1, <1>4, <1>5, <1>6 DEF RolesInv, UpdatesFit, Busy, Working
<1>8. UpdatesExact'
  BY <1>1, <1>4, <1>5, <1>6 DEF RolesInv, UpdatesExact, Working
<1>9. OneRowEach'
  BY <1>1 DEF RolesInv, OneRowEach
<1> QED BY <1>3, <1>7, <1>8, <1>9 DEF RolesInv

LEMMA AddRoleKeeps ==
    ASSUME RolesInv, NEW w \in Workers, Given!AddUserToRole(w)
    PROVE  RolesInv'
<1>1. /\ rolePc[w] = "add" /\ UNCHANGED <<exists, count, obj, roles, unwanted, roleCrossed, stale>>
      /\ Busy(w) /\ Working(w)
  BY DEF Given!AddUserToRole, Busy, Working
<1>2. \A v \in Workers : AskedOf(v)' = AskedOf(v) /\ HadOf(v)' = HadOf(v)
  BY <1>1 DEF AskedOf, HadOf, UserOf
<1>3. OneRowEach'
  BY <1>1 DEF RolesInv, OneRowEach
<1>4. CASE missing[w] = {}
  <2>1. /\ rolePc' = [rolePc EXCEPT ![w] = IF unwanted[w] = {} THEN "commit" ELSE "remove"]
        /\ UNCHANGED <<missing, added>>
    BY <1>4 DEF Given!AddUserToRole
  <2>2. rolePc'[w] = (IF unwanted[w] = {} THEN "commit" ELSE "remove")
        /\ \A v \in Workers \ {w} : rolePc'[v] = rolePc[v]
    BY <2>1 DEF RolesInv, RolesTyped
  <2>3. RolesTyped'
    BY <1>1, <2>1 DEF RolesInv, RolesTyped
  <2>4. UpdatesFit'
    BY <1>1, <1>2, <1>4, <2>1, <2>2 DEF RolesInv, UpdatesFit, Busy, Working
  <2>5. UpdatesExact'
    BY <1>1, <1>2, <2>1, <2>2 DEF RolesInv, UpdatesExact, Working
  <2> QED BY <1>3, <2>3, <2>4, <2>5 DEF RolesInv
<1>5. CASE missing[w] # {}
  <2>1. PICK r \in missing[w] :
          /\ missing' = [missing EXCEPT ![w] = @ \ {r}]
          /\ added' = IF Given!UserHasRole(UserOf(w), r, obj[w]) THEN added
                      ELSE [added EXCEPT ![w] = @ \cup {r}]
          /\ rolePc' = rolePc
    BY <1>5 DEF Given!AddUserToRole, UserOf
  <2>2. /\ missing'[w] = missing[w] \ {r}
        /\ added'[w] = (IF Given!UserHasRole(UserOf(w), r, obj[w]) THEN added[w]
                        ELSE added[w] \cup {r})
        /\ \A v \in Workers \ {w} : missing'[v] = missing[v] /\ added'[v] = added[v]
    BY <2>1 DEF RolesInv, RolesTyped
  <2>3. r \in RoleNames /\ r \in AskedOf(w)
    BY <1>1 DEF RolesInv, RolesTyped, UpdatesFit
  <2>4. RolesTyped'
    BY <1>1, <2>1, <2>3 DEF RolesInv, RolesTyped
  <2>5. UpdatesFit'
    BY <1>1, <1>2, <2>1, <2>2, <2>3 DEF RolesInv, UpdatesFit, Busy, Working
  <2>6. ASSUME ~ roleCrossed[w] PROVE missing'[w] \cup added'[w] = missing[w] \cup added[w]
    <3>1. r \notin HadOf(w)
      BY <1>1, <2>6 DEF RolesInv, UpdatesExact
    <3>2. ~ Given!UserHasRole(UserOf(w), r, obj[w])
      BY <2>3, <3>1 DEF HadOf, Given!UserHasRole
    <3> QED BY <2>2, <3>2
  <2>7. UpdatesExact'
    BY <1>1, <1>2, <2>1, <2>2, <2>6 DEF RolesInv, UpdatesExact, Working
  <2> QED BY <1>3, <2>4, <2>5, <2>7 DEF RolesInv
<1> QED BY <1>4, <1>5

\* What a commit of an update leaves: the account has what was added, and not what is gone.
LEMMA WrittenRoles ==
    ASSUME RolesInv, NEW w \in Workers, Working(w), NEW gone \in SUBSET unwanted[w],
           count' = Given!Written(w, gone)
    PROVE  /\ count' \in RoleCounts
           /\ \A o \in RoleObjects, u \in RoleUsers :
                o # obj[w] \/ u # UserOf(w) => count'[o][u] = count[o][u]
           /\ {r \in RoleNames : count'[obj[w]][UserOf(w)][r] > 0}
                = (HadOf(w) \cup added[w]) \ gone
           /\ ~ roleCrossed[w] => \A r \in RoleNames :
                count[obj[w]][UserOf(w)][r] =< 1 => count'[obj[w]][UserOf(w)][r] =< 1
<1> DEFINE o == obj[w]
           u == UserOf(w)
           old == count[o][u]
           new == [r \in RoleNames |-> IF r \in gone THEN 0
                                       ELSE old[r] + (IF r \in added[w] THEN 1 ELSE 0)]
<1>1. /\ o \in RoleObjects /\ u \in RoleUsers
      /\ added[w] \subseteq AskedOf(w) /\ unwanted[w] \cap AskedOf(w) = {}
      /\ added[w] \subseteq RoleNames /\ old \in [RoleNames -> Nat]
  BY HeadOfUpdates DEF RolesInv, RolesTyped, RoleCounts, UpdatesFit, Busy, Working, UserOf
<1>2. count' = [count EXCEPT ![o][u] = new]
  BY DEF Given!Written, UserOf
<1>3. new \in [RoleNames -> Nat]
  BY <1>1
<1>4. \A r \in RoleNames : new[r] > 0 <=> r \in (HadOf(w) \cup added[w]) \ gone
  BY <1>1 DEF HadOf
<1>5. ASSUME ~ roleCrossed[w], NEW r \in RoleNames, old[r] =< 1
      PROVE  new[r] =< 1
  <2>1. r \in added[w] => old[r] = 0
    BY <1>1, <1>5 DEF RolesInv, UpdatesExact, HadOf
  <2> QED BY <1>1, <1>5, <2>1
<1> HIDE DEF new
<1>6. count'[o][u] = new
  BY <1>1, <1>2 DEF RolesInv, RolesTyped, RoleCounts
<1>7. {r \in RoleNames : count'[o][u][r] > 0} = (HadOf(w) \cup added[w]) \ gone
  BY <1>1, <1>4, <1>6 DEF HadOf
<1>8. count' \in RoleCounts
  BY <1>1, <1>2, <1>3 DEF RolesInv, RolesTyped, RoleCounts
<1>9. \A x \in RoleObjects, y \in RoleUsers : x # o \/ y # u => count'[x][y] = count[x][y]
  BY <1>1, <1>2 DEF RolesInv, RolesTyped, RoleCounts
<1> QED BY <1>5, <1>6, <1>7, <1>8, <1>9

\* What a commit of w leaves to the others: those on the same object were crossed.
LEMMA OthersStay ==
    ASSUME RolesInv, NEW w \in Workers, Working(w), Given!Committed(w, obj[w]),
           \A o \in RoleObjects, u \in RoleUsers :
              o # obj[w] \/ u # UserOf(w) => count'[o][u] = count[o][u],
           NEW v \in Workers \ {w},
           rolePc'[v] = rolePc[v], obj'[v] = obj[v], roles'[v] = roles[v], missing'[v] = missing[v],
           added'[v] = added[v], unwanted'[v] = unwanted[v],
           Working(v)', ~ roleCrossed'[v]
    PROVE  /\ AskedOf(v)' \ HadOf(v)' = missing'[v] \cup added'[v]
           /\ HadOf(v)' \ AskedOf(v)' = unwanted'[v]
<1>1. Working(v) /\ ~ roleCrossed[v] /\ obj[v] # obj[w]
  BY DEF Working, Given!Committed, RolesInv, RolesTyped
<1>2. obj[v] \in RoleObjects /\ UserOf(v) \in RoleUsers
  BY <1>1, HeadOfUpdates DEF RolesInv, UpdatesFit, Busy, Working, UserOf, RolesTyped
<1>3. AskedOf(v)' = AskedOf(v) /\ HadOf(v)' = HadOf(v)
  BY <1>1, <1>2 DEF AskedOf, HadOf, UserOf
<1> QED BY <1>1, <1>3 DEF RolesInv, UpdatesExact

LEMMA RowsStayOne ==
    ASSUME RolesInv, NEW w \in Workers, Working(w), Given!Committed(w, obj[w]),
           \A o \in RoleObjects, u \in RoleUsers :
              o # obj[w] \/ u # UserOf(w) => count'[o][u] = count[o][u],
           ~ roleCrossed[w] => \A r \in RoleNames :
              count[obj[w]][UserOf(w)][r] =< 1 => count'[obj[w]][UserOf(w)][r] =< 1
    PROVE  OneRowEach'
<1> SUFFICES ASSUME ~ stale', NEW o \in RoleObjects, NEW u \in RoleUsers, NEW r \in RoleNames
             PROVE  count'[o][u][r] =< 1
  BY DEF OneRowEach
<1>1. ~ stale /\ ~ roleCrossed[w]
  BY DEF Given!Committed
<1>2. count[o][u][r] =< 1
  BY <1>1 DEF RolesInv, OneRowEach
<1> QED BY <1>1, <1>2

LEMMA RemoveRoleKeeps ==
    ASSUME RolesInv, NEW w \in Workers, Given!RemoveUserFromRole(w)
    PROVE  RolesInv'
<1>1. PICK r \in unwanted[w] :
        /\ count' = Given!Written(w, {r})
        /\ unwanted' = [unwanted EXCEPT ![w] = @ \ {r}]
        /\ added' = [added EXCEPT ![w] = {}]
        /\ rolePc' = [rolePc EXCEPT ![w] = IF unwanted'[w] = {} THEN "commit" ELSE "remove"]
  BY DEF Given!RemoveUserFromRole
<1>2. /\ rolePc[w] = "remove" /\ Working(w) /\ Busy(w) /\ Given!Committed(w, obj[w])
      /\ UNCHANGED <<exists, obj, roles, missing>>
  BY DEF Given!RemoveUserFromRole, Working, Busy
<1>3. /\ count' \in RoleCounts
      /\ \A o \in RoleObjects, u \in RoleUsers :
           o # obj[w] \/ u # UserOf(w) => count'[o][u] = count[o][u]
      /\ {x \in RoleNames : count'[obj[w]][UserOf(w)][x] > 0} = (HadOf(w) \cup added[w]) \ {r}
      /\ ~ roleCrossed[w] => \A x \in RoleNames :
           count[obj[w]][UserOf(w)][x] =< 1 => count'[obj[w]][UserOf(w)][x] =< 1
  BY <1>1, <1>2, WrittenRoles
<1>4. /\ unwanted'[w] = unwanted[w] \ {r} /\ added'[w] = {}
      /\ rolePc'[w] \in {"commit", "remove"} /\ (rolePc'[w] = "commit" => unwanted'[w] = {})
      /\ \A v \in Workers \ {w} :
           unwanted'[v] = unwanted[v] /\ added'[v] = added[v] /\ rolePc'[v] = rolePc[v]
      /\ roleCrossed'[w] => roleCrossed[w]
      /\ roleCrossed' \in [Workers -> BOOLEAN] /\ stale' \in BOOLEAN
      /\ ~ roleCrossed'[w] => ~ roleCrossed[w]
  BY <1>1, <1>2 DEF RolesInv, RolesTyped, Given!Committed
<1>5. RolesTyped'
  BY <1>1, <1>2, <1>3, <1>4 DEF RolesInv, RolesTyped
<1>6. \A v \in Workers : AskedOf(v)' = AskedOf(v)
  BY <1>2 DEF AskedOf
<1>7. UpdatesFit'
  BY <1>2, <1>4, <1>6 DEF RolesInv, UpdatesFit, Busy, Working
<1>8. HadOf(w)' = (HadOf(w) \cup added[w]) \ {r}
  BY <1>2, <1>3 DEF HadOf, UserOf
<1>9. ASSUME ~ roleCrossed[w]
      PROVE  /\ AskedOf(w) \ HadOf(w)' = missing'[w] \cup added'[w]
             /\ HadOf(w)' \ AskedOf(w) = unwanted'[w]
  BY <1>2, <1>4, <1>8, <1>9 DEF RolesInv, UpdatesFit, UpdatesExact
<1>10. UpdatesExact'
  BY <1>2, <1>3, <1>4, <1>6, <1>9, OthersStay DEF UpdatesExact
<1>11. OneRowEach'
  BY <1>2, <1>3, RowsStayOne
<1> QED BY <1>5, <1>7, <1>10, <1>11 DEF RolesInv

LEMMA CommitRolesKeeps ==
    ASSUME RolesInv, NEW w \in Workers, Given!Commit(w)
    PROVE  RolesInv'
<1>1. /\ rolePc[w] = "commit" /\ Working(w) /\ Busy(w) /\ Given!Committed(w, obj[w])
      /\ count' = Given!Written(w, {}) /\ exists' = exists
  BY DEF Given!Commit, Working, Busy
<1>2. /\ count' \in RoleCounts
      /\ \A o \in RoleObjects, u \in RoleUsers :
           o # obj[w] \/ u # UserOf(w) => count'[o][u] = count[o][u]
      /\ ~ roleCrossed[w] => \A x \in RoleNames :
           count[obj[w]][UserOf(w)][x] =< 1 => count'[obj[w]][UserOf(w)][x] =< 1
  BY <1>1, WrittenRoles
<1>3. roleCrossed' \in [Workers -> BOOLEAN] /\ stale' \in BOOLEAN
  BY <1>1 DEF RolesInv, RolesTyped, Given!Committed
<1>4. OneRowEach'
  BY <1>1, <1>2, RowsStayOne
<1>5. roles[w] # <<>> /\ roles[w] \in Seq(RoleUpdates)
  BY <1>1 DEF RolesInv, RolesTyped, UpdatesFit
<1>6. CASE Len(roles[w]) = 1
  <2>1. /\ rolePc' = [rolePc EXCEPT ![w] = "idle"]
        /\ obj' = [obj EXCEPT ![w] = None] /\ roles' = [roles EXCEPT ![w] = <<>>]
        /\ missing' = [missing EXCEPT ![w] = {}] /\ added' = [added EXCEPT ![w] = {}]
        /\ unwanted' = [unwanted EXCEPT ![w] = {}]
    BY <1>6 DEF Given!Commit, Given!End
  <2>2. /\ rolePc'[w] = "idle"
        /\ \A v \in Workers \ {w} :
             /\ rolePc'[v] = rolePc[v] /\ obj'[v] = obj[v] /\ roles'[v] = roles[v]
             /\ missing'[v] = missing[v] /\ added'[v] = added[v] /\ unwanted'[v] = unwanted[v]
    BY <2>1 DEF RolesInv, RolesTyped
  <2>3. RolesTyped'
    <3>1. <<>> \in Seq(RoleUpdates)
      OBVIOUS
    <3> QED BY <1>1, <1>2, <1>3, <2>1, <3>1 DEF RolesInv, RolesTyped
  <2>4. UpdatesFit'
    BY <1>1, <2>2 DEF RolesInv, UpdatesFit, Busy, Working, AskedOf
  <2>5. UpdatesExact'
    BY <1>1, <1>2, <2>2, OthersStay DEF UpdatesExact, Working
  <2> QED BY <1>4, <2>3, <2>4, <2>5 DEF RolesInv
<1>7. CASE Len(roles[w]) # 1
  <2>1. /\ rolePc' = [rolePc EXCEPT ![w] = "read"]
        /\ roles' = [roles EXCEPT ![w] = Tail(@)] /\ added' = [added EXCEPT ![w] = {}]
        /\ UNCHANGED <<obj, missing, unwanted>>
    BY <1>7 DEF Given!Commit
  <2>2. /\ rolePc'[w] = "read" /\ roles'[w] = Tail(roles[w])
        /\ \A v \in Workers \ {w} :
             rolePc'[v] = rolePc[v] /\ roles'[v] = roles[v] /\ added'[v] = added[v]
    BY <2>1 DEF RolesInv, RolesTyped
  <2>3. Tail(roles[w]) \in Seq(RoleUpdates) /\ Tail(roles[w]) # <<>>
    BY <1>5, <1>7, HeadOfUpdates
  <2>4. RolesTyped'
    BY <1>1, <1>2, <1>3, <2>1, <2>3 DEF RolesInv, RolesTyped
  <2>5. UpdatesFit'
    BY <1>1, <2>1, <2>2, <2>3 DEF RolesInv, UpdatesFit, Busy, Working, AskedOf
  <2>6. UpdatesExact'
    BY <1>1, <1>2, <2>1, <2>2, OthersStay DEF UpdatesExact, Working
  <2> QED BY <1>4, <2>4, <2>5, <2>6 DEF RolesInv
<1> QED BY <1>6, <1>7

LEMMA FailRolesKeeps ==
    ASSUME RolesInv, NEW w \in Workers, Given!Fail(w)
    PROVE  RolesInv'
<1>1. /\ rolePc' = [rolePc EXCEPT ![w] = "idle"]
      /\ obj' = [obj EXCEPT ![w] = None] /\ roles' = [roles EXCEPT ![w] = <<>>]
      /\ missing' = [missing EXCEPT ![w] = {}] /\ added' = [added EXCEPT ![w] = {}]
      /\ unwanted' = [unwanted EXCEPT ![w] = {}]
      /\ UNCHANGED <<exists, count, roleCrossed, stale>>
  BY DEF Given!Fail, Given!End
<1>2. /\ rolePc'[w] = "idle"
      /\ \A v \in Workers \ {w} :
           /\ rolePc'[v] = rolePc[v] /\ obj'[v] = obj[v] /\ roles'[v] = roles[v]
           /\ missing'[v] = missing[v] /\ added'[v] = added[v] /\ unwanted'[v] = unwanted[v]
  BY <1>1 DEF RolesInv, RolesTyped
<1>3. RolesTyped'
  <2>1. <<>> \in Seq(RoleUpdates)
    OBVIOUS
  <2> QED BY <1>1, <2>1 DEF RolesInv, RolesTyped
<1>4. UpdatesFit'
  BY <1>1, <1>2 DEF RolesInv, UpdatesFit, Busy, Working, AskedOf
<1>5. UpdatesExact'
  BY <1>1, <1>2 DEF RolesInv, UpdatesExact, Working, AskedOf, HadOf, UserOf
<1>6. OneRowEach'
  BY <1>1 DEF RolesInv, OneRowEach
<1> QED BY <1>3, <1>4, <1>5, <1>6 DEF RolesInv

LEMMA RolesStep == RolesInv /\ [Given!Next]_Given!vars => RolesInv'
<1> SUFFICES ASSUME RolesInv, [Given!Next]_Given!vars PROVE RolesInv'
  OBVIOUS
<1>1. CASE UNCHANGED Given!vars
  BY <1>1 DEF Given!vars, RolesInv, RolesTyped, UpdatesFit, UpdatesExact, OneRowEach, Busy,
     Working, AskedOf, HadOf, UserOf
<1> QED BY <1>1, SetupKeeps, PurgeObjectKeeps, AskRolesKeeps, ReadRolesKeeps, AddRoleKeeps,
     RemoveRoleKeeps, CommitRolesKeeps, FailRolesKeeps DEF Given!Next

\* The update of an account that nothing crossed leaves it the roles that were asked for, one
\* that was crossed takes and gives nothing that it was not asked to, and what is listed is
\* found until two updates cross: for any accounts, roles and orders of the commits of
\* user_role_update and user_role_bulk_update.
THEOREM RolesStayAsAsked == SiteSpec => RolesAsAsked
<1>1. ASSUME RolesInv, NEW w \in Workers, Given!Commit(w) \/ Given!RemoveUserFromRole(w)
      PROVE  LET u == Head(roles[w]).user
                 wanted == Head(roles[w]).roles
                 before == {r \in RoleNames : count[obj[w]][u][r] > 0}
                 after == {r \in RoleNames : count'[obj[w]][u][r] > 0}
             IN  /\ after \ before \subseteq wanted
                 /\ (before \ after) \cap wanted = {}
                 /\ rolePc[w] = "commit" /\ ~ roleCrossed[w] => after = wanted
  <2> DEFINE after == {r \in RoleNames : count'[obj[w]][UserOf(w)][r] > 0}
  <2>1. Working(w) /\ Busy(w)
    BY <1>1 DEF Given!Commit, Given!RemoveUserFromRole, Working, Busy
  <2>2. added[w] \subseteq AskedOf(w) /\ unwanted[w] \cap AskedOf(w) = {}
        /\ (rolePc[w] = "commit" => missing[w] = {} /\ unwanted[w] = {})
    BY <1>1, <2>1 DEF RolesInv, UpdatesFit
  <2>3. PICK gone \in SUBSET unwanted[w] :
          count' = Given!Written(w, gone) /\ (rolePc[w] = "commit" => gone = {})
    BY <1>1 DEF Given!Commit, Given!RemoveUserFromRole
  <2>4. after = (HadOf(w) \cup added[w]) \ gone
    BY <1>1, <2>1, <2>3, WrittenRoles
  <2> HIDE DEF after
  <2>5. after \ HadOf(w) \subseteq AskedOf(w) /\ (HadOf(w) \ after) \cap AskedOf(w) = {}
    BY <2>2, <2>3, <2>4
  <2>6. ASSUME rolePc[w] = "commit", ~ roleCrossed[w] PROVE after = AskedOf(w)
    <3>1. AskedOf(w) \ HadOf(w) = added[w] /\ HadOf(w) \subseteq AskedOf(w)
      BY <1>1, <2>1, <2>2, <2>6 DEF RolesInv, UpdatesExact
    <3> QED BY <2>2, <2>3, <2>4, <2>6, <3>1
  <2> QED BY <2>5, <2>6 DEF after, HadOf, UserOf, AskedOf
<1>2. RolesInv => Given!ShownAreHad
  BY DEF RolesInv, RolesTyped, RoleCounts, OneRowEach, Given!ShownAreHad, Given!RolesShow,
     Given!UserHasRole
<1>3. RolesInv => (\A w \in Workers : obj[w] # None /\ (Given!Commit(w) \/ Given!RemoveUserFromRole(w)) =>
         LET u == Head(roles[w]).user
             wanted == Head(roles[w]).roles
             before == {r \in RoleNames : count[obj[w]][u][r] > 0}
             after == {r \in RoleNames : count'[obj[w]][u][r] > 0}
         IN  /\ after \ before \subseteq wanted
             /\ (before \ after) \cap wanted = {}
             /\ rolePc[w] = "commit" /\ ~ roleCrossed[w] => after = wanted)
  BY <1>1
<1> QED BY <1>2, <1>3, RolesInitially, RolesStep, SiteRunsGiven, PTL
     DEF Given!Spec, RolesAsAsked, Given!RolesAsAsked

-----------------------------------------------------------------------------
(***************************************************************************)
(* Free tags.                                                              *)
(***************************************************************************)
LEMMA SiteRunsFree == SiteSpec => Free!Spec
<1>1. SiteInit => Free!Init
  BY DEF SiteInit
<1>2. [SiteNext]_all => [Free!Next]_Free!vars
  BY DEF SiteNext, all, tagVars, Free!vars
<1> QED BY <1>1, <1>2, PTL DEF SiteSpec, Free!Spec

TagsTyped ==
    /\ tagName \in [1 .. MaxTags -> TagNames \cup {None}]
    /\ tagRows \subseteq [package : Tagged, tag : 1 .. MaxTags, active : BOOLEAN]
    /\ \A r \in tagRows : tagName[r.tag] # None
    /\ tagPc \in [Workers -> {"idle", "commit"}] /\ DOMAIN tagReq = Workers

\* A row that was found has its name, until it is deleted, and a number that is to get one
\* has none.
TagFit(q) ==
    /\ DOMAIN q.found \subseteq TagNames
    /\ \A n \in DOMAIN q.found : q.found[n] \in 1 .. MaxTags /\ tagName[q.found[n]] \in {n, None}
    /\ \A i \in DOMAIN q.added : /\ i \in 1 .. MaxTags /\ tagName[i] = None
                                /\ q.added[i] \in TagNames \ DOMAIN q.found
    /\ \A i, j \in DOMAIN q.added : q.added[i] = q.added[j] => i = j
TagsFit == \A w \in Workers : TagFit(tagReq[w]) /\ (tagPc[w] = "commit" => tagReq[w].package \in Tagged)

\* No number is to be added twice, nor is one that another request, or the same, found: it
\* would take the name of a row that was deleted meanwhile.
NumbersApart ==
    \A v, w \in Workers : \A i \in DOMAIN tagReq[w].added :
      /\ \A n \in DOMAIN tagReq[v].found : tagReq[v].found[n] # i
      /\ v # w => i \notin DOMAIN tagReq[v].added

NamedOnce ==
    \A i, j \in 1 .. MaxTags :
      tagName[i] # None /\ tagName[i] = tagName[j] => i = j \/ tagName[i] \in crossed

TagsInv == TagsTyped /\ TagsFit /\ NumbersApart /\ NamedOnce

LEMMA NothingAsked ==
    /\ DOMAIN Free!NoRequest.found = {} /\ DOMAIN Free!NoRequest.added = {}
    /\ TagFit(Free!NoRequest)
<1>1. DOMAIN Free!NoRequest.found = {} /\ DOMAIN Free!NoRequest.added = {}
  BY DEF Free!NoRequest
<1> QED BY <1>1 DEF TagFit

LEMMA TagsInitially == Free!Init => TagsInv
<1> SUFFICES ASSUME Free!Init PROVE TagsInv
  OBVIOUS
<1>1. /\ tagName = [i \in 1 .. MaxTags |-> None] /\ tagRows = {} /\ crossed = {}
      /\ tagPc = [w \in Workers |-> "idle"] /\ tagReq = [w \in Workers |-> Free!NoRequest]
  BY DEF Free!Init, Free!Ids
<1>2. TagsTyped /\ NamedOnce
  BY <1>1 DEF TagsTyped, NamedOnce
<1>3. TagsFit /\ NumbersApart
  BY <1>1, NothingAsked DEF TagsFit, NumbersApart
<1> QED BY <1>2, <1>3 DEF TagsInv

\* What a request is given: rows of their names, and free numbers for the other names.
LEMMA ChoicesFit ==
    ASSUME NEW names \in SUBSET TagNames, NEW c \in Free!Choices(names)
    PROVE  /\ DOMAIN c.found \subseteq TagNames
           /\ \A n \in DOMAIN c.found : c.found[n] \in Free!Tags /\ tagName[c.found[n]] = n
           /\ DOMAIN c.added \subseteq Free!Free
           /\ \A i \in DOMAIN c.added : c.added[i] \in TagNames \ DOMAIN c.found
           /\ \A i, j \in DOMAIN c.added : c.added[i] = c.added[j] => i = j
<1> DEFINE known == {n \in names : Free!Named(n) # {}}
           first == {i \in Free!Free : Free!Cardinality({j \in Free!Free : j < i})
                                         < Free!Cardinality(names \ known)}
<1>1. /\ c.found \in {f \in [known -> Free!Tags] : \A n \in known : f[n] \in Free!Named(n)}
      /\ c.added \in Free!Bijection(first, names \ known)
  BY DEF Free!Choices
<1>2. first \subseteq Free!Free /\ known \subseteq names
  OBVIOUS
<1> HIDE DEF known, first
<1>3. c.added \in [first -> names \ known] /\ \A i, j \in first : c.added[i] = c.added[j] => i = j
  BY <1>1 DEF Free!Bijection, Free!Injection, Free!Surjection, Free!IsInjective
<1>4. DOMAIN c.found = known /\ \A n \in known : c.found[n] \in Free!Tags /\ tagName[c.found[n]] = n
  BY <1>1 DEF Free!Named
<1> QED BY <1>2, <1>3, <1>4

LEMMA SaveTagsKeeps ==
    ASSUME TagsInv, NEW w \in Workers, NEW p \in Tagged, NEW names \in SUBSET TagNames,
           Free!SaveTags(w, p, names)
    PROVE  TagsInv'
<1>1. PICK c \in Free!Choices(names) :
        tagReq' = [tagReq EXCEPT ![w] = [package |-> p, had |-> Free!ShownTags(p),
                                         found |-> c.found, added |-> c.added]]
  BY DEF Free!SaveTags
<1>2. tagPc' = [tagPc EXCEPT ![w] = "commit"] /\ UNCHANGED <<tagName, tagRows, deleted, crossed>>
  BY DEF Free!SaveTags
<1>3. /\ DOMAIN c.found \subseteq TagNames
      /\ \A n \in DOMAIN c.found : c.found[n] \in Free!Tags /\ tagName[c.found[n]] = n
      /\ DOMAIN c.added \subseteq Free!Free
      /\ \A i \in DOMAIN c.added : c.added[i] \in TagNames \ DOMAIN c.found
      /\ \A i, j \in DOMAIN c.added : c.added[i] = c.added[j] => i = j
  BY ChoicesFit
<1>4. /\ tagReq'[w].package = p /\ tagReq'[w].found = c.found /\ tagReq'[w].added = c.added
      /\ \A v \in Workers \ {w} : tagReq'[v] = tagReq[v]
  BY <1>1 DEF TagsInv, TagsTyped
<1>5. \A i \in Free!Free :
        /\ i \in 1 .. MaxTags /\ tagName[i] = None
        /\ \A v \in Workers : /\ i \notin DOMAIN tagReq[v].added
                              /\ \A n \in DOMAIN tagReq[v].found : tagReq[v].found[n] # i
  BY DEF Free!Free, Free!Tags, Free!Ids, Free!Found
<1>6. \A i \in Free!Tags : i \in 1 .. MaxTags /\ tagName[i] # None
  BY DEF Free!Tags, Free!Ids
<1>7. TagsTyped' /\ NamedOnce'
  BY <1>1, <1>2 DEF TagsInv, TagsTyped, NamedOnce
<1>8. TagsFit'
  <2>1. TagFit(tagReq[w])'
    BY <1>2, <1>3, <1>4, <1>5, <1>6 DEF TagFit
  <2>2. \A v \in Workers \ {w} : TagFit(tagReq[v])'
    BY <1>2, <1>4 DEF TagsInv, TagsFit, TagFit
  <2> QED BY <1>2, <1>4, <2>1, <2>2 DEF TagsInv, TagsTyped, TagsFit
<1>9. \A v \in Workers : \A i \in DOMAIN tagReq[v].added : i \in 1 .. MaxTags /\ tagName[i] = None
  BY DEF TagsInv, TagsFit, TagFit
<1>10. NumbersApart'
  <2> SUFFICES ASSUME NEW u \in Workers, NEW v \in Workers, NEW i \in DOMAIN tagReq'[v].added
               PROVE  /\ \A n \in DOMAIN tagReq'[u].found : tagReq'[u].found[n] # i
                      /\ u # v => i \notin DOMAIN tagReq'[u].added
    BY DEF NumbersApart
  <2>1. CASE v = w /\ u = w
    BY <1>3, <1>4, <1>5, <1>6, <2>1
  <2>2. CASE v = w /\ u # w
    BY <1>3, <1>4, <1>5, <2>2
  <2>3. CASE v # w /\ u = w
    BY <1>3, <1>4, <1>5, <1>6, <1>9, <2>3
  <2>4. CASE v # w /\ u # w
    BY <1>4, <2>4 DEF TagsInv, NumbersApart
  <2> QED BY <2>1, <2>2, <2>3, <2>4
<1> QED BY <1>7, <1>8, <1>10 DEF TagsInv

\* The names after a commit, and the rows of the dataset: those that were chosen are shown.
LEMMA CommitOfTags ==
    ASSUME TagsInv, NEW w \in Workers, Free!Commit(w)
    PROVE  LET q == tagReq[w] IN
           /\ q.package \in Tagged /\ TagFit(q)
           /\ \A i \in 1 .. MaxTags : tagName'[i] = IF i \in DOMAIN q.added THEN q.added[i] ELSE tagName[i]
           /\ tagName' = [i \in 1 .. MaxTags |-> tagName'[i]]
           /\ tagRows' \subseteq [package : Tagged, tag : 1 .. MaxTags, active : BOOLEAN]
           /\ \A r \in tagRows' : r.tag \in Free!Chosen(q) \/ tagName[r.tag] # None
           /\ \A p \in {q.package} : Free!ShownTags(p)' = Free!Chosen(q)
           /\ \A i \in Free!Chosen(q) : i \in 1 .. MaxTags /\ tagName'[i] \in TagNames
<1> DEFINE q == tagReq[w]
           names == [i \in Free!Ids |-> IF i \in DOMAIN q.added THEN q.added[i] ELSE tagName[i]]
           chosen == Free!Chosen(q)
<1>1. /\ tagPc[w] = "commit" /\ tagName' = names
      /\ tagRows' = Free!TagRows(q.package, chosen, names)
  BY DEF Free!Commit
<1>2. q.package \in Tagged /\ TagFit(q)
  BY <1>1 DEF TagsInv, TagsFit
<1>3. /\ \A i \in 1 .. MaxTags : tagName'[i] = IF i \in DOMAIN q.added THEN q.added[i] ELSE tagName[i]
      /\ tagName' = [i \in 1 .. MaxTags |-> tagName'[i]]
  BY <1>1 DEF Free!Ids
<1>4. \A i \in chosen : i \in 1 .. MaxTags /\ tagName'[i] \in TagNames
  BY <1>2, <1>3, TagsAssumption DEF TagFit, Free!Chosen, Free!Found, Free!Tags, Free!Ids, TagsInv, TagsTyped
<1> DEFINE other == {r \in tagRows : r.package # q.package}
           kept == {[r EXCEPT !.active = r.tag \in chosen] : r \in {s \in tagRows : s.package = q.package}}
           extra == {[package |-> q.package, tag |-> i, active |-> TRUE] :
                       i \in {j \in chosen : \A r \in tagRows : r.package # q.package \/ r.tag # j}}
<1>5. tagRows' = other \cup kept \cup extra
  BY <1>1 DEF Free!TagRows
<1> HIDE DEF names, chosen, q
<1>6. \A r \in tagRows : /\ r \in [package : Tagged, tag : 1 .. MaxTags, active : BOOLEAN]
                         /\ tagName[r.tag] # None
  BY DEF TagsInv, TagsTyped
<1>7. \A r \in tagRows : LET s == [r EXCEPT !.active = r.tag \in chosen] IN
        /\ s \in [package : Tagged, tag : 1 .. MaxTags, active : BOOLEAN]
        /\ s.package = r.package /\ s.tag = r.tag /\ (s.active <=> r.tag \in chosen)
  <2> SUFFICES ASSUME NEW r \in tagRows
               PROVE  LET s == [r EXCEPT !.active = r.tag \in chosen] IN
                      /\ s \in [package : Tagged, tag : 1 .. MaxTags, active : BOOLEAN]
                      /\ s.package = r.package /\ s.tag = r.tag /\ (s.active <=> r.tag \in chosen)
    OBVIOUS
  <2>1. \A b \in BOOLEAN : LET s == [r EXCEPT !.active = b] IN
          /\ s \in [package : Tagged, tag : 1 .. MaxTags, active : BOOLEAN]
          /\ s.package = r.package /\ s.tag = r.tag /\ s.active = b
    BY <1>6
  <2>2. (r.tag \in chosen) \in BOOLEAN
    OBVIOUS
  <2> QED BY <2>1, <2>2, Zenon
<1>8. \A i \in chosen : LET s == [package |-> q.package, tag |-> i, active |-> TRUE] IN
        /\ s \in [package : Tagged, tag : 1 .. MaxTags, active : BOOLEAN]
        /\ s.package = q.package /\ s.tag = i /\ s.active
  BY <1>2, <1>4
<1>9. tagRows' \subseteq [package : Tagged, tag : 1 .. MaxTags, active : BOOLEAN]
  <2>1. other \subseteq [package : Tagged, tag : 1 .. MaxTags, active : BOOLEAN]
    BY <1>6
  <2>2. kept \subseteq [package : Tagged, tag : 1 .. MaxTags, active : BOOLEAN]
    BY <1>7
  <2>3. extra \subseteq [package : Tagged, tag : 1 .. MaxTags, active : BOOLEAN]
    BY <1>8
  <2> QED BY <1>5, <2>1, <2>2, <2>3, Zenon
<1>10. \A r \in tagRows' : r.tag \in chosen \/ tagName[r.tag] # None
  BY <1>5, <1>6, <1>7, <1>8
<1>11. ASSUME NEW r \in tagRows', r.package = q.package, r.active PROVE r.tag \in chosen
  BY <1>5, <1>7, <1>8, <1>11
<1>12. ASSUME NEW i \in chosen PROVE \E r \in tagRows' : r.package = q.package /\ r.active /\ r.tag = i
  <2>1. CASE \E r \in tagRows : r.package = q.package /\ r.tag = i
    <3>1. PICK r \in tagRows : r.package = q.package /\ r.tag = i
      BY <2>1
    <3>2. [r EXCEPT !.active = r.tag \in chosen] \in kept
      BY <3>1
    <3> QED BY <1>5, <1>7, <1>12, <3>1, <3>2
  <2>2. CASE ~ \E r \in tagRows : r.package = q.package /\ r.tag = i
    <3>1. [package |-> q.package, tag |-> i, active |-> TRUE] \in extra
      BY <1>12, <2>2
    <3> QED BY <1>5, <1>8, <1>12, <3>1
  <2> QED BY <2>1, <2>2
<1> HIDE DEF other, kept, extra
<1>13. \A p \in {q.package} : Free!ShownTags(p)' = chosen
  BY <1>11, <1>12 DEF Free!ShownTags
<1> QED BY <1>2, <1>3, <1>4, <1>9, <1>10, <1>13 DEF q, chosen

\* A request that ends leaves the others what they had.
LEMMA RequestEnds ==
    ASSUME TagsInv, NEW w \in Workers, Free!Done(w)
    PROVE  /\ tagPc' \in [Workers -> {"idle", "commit"}] /\ DOMAIN tagReq' = Workers
           /\ tagReq'[w] = Free!NoRequest /\ tagPc'[w] = "idle"
           /\ \A v \in Workers \ {w} : tagReq'[v] = tagReq[v] /\ tagPc'[v] = tagPc[v]
           /\ NumbersApart'
<1>1. /\ tagReq' = [tagReq EXCEPT ![w] = Free!NoRequest] /\ tagPc' = [tagPc EXCEPT ![w] = "idle"]
  BY DEF Free!Done
<1>2. /\ tagReq'[w] = Free!NoRequest /\ tagPc'[w] = "idle"
      /\ \A v \in Workers \ {w} : tagReq'[v] = tagReq[v] /\ tagPc'[v] = tagPc[v]
      /\ tagPc' \in [Workers -> {"idle", "commit"}] /\ DOMAIN tagReq' = Workers
  BY <1>1 DEF TagsInv, TagsTyped
<1>3. NumbersApart'
  BY <1>2, NothingAsked DEF TagsInv, NumbersApart
<1> QED BY <1>2, <1>3

LEMMA CommitTagsKeeps ==
    ASSUME TagsInv, NEW w \in Workers, Free!Commit(w)
    PROVE  TagsInv'
<1> DEFINE q == tagReq[w]
<1>1. /\ q.package \in Tagged /\ TagFit(q)
      /\ \A i \in 1 .. MaxTags : tagName'[i] = IF i \in DOMAIN q.added THEN q.added[i] ELSE tagName[i]
      /\ tagName' = [i \in 1 .. MaxTags |-> tagName'[i]]
      /\ tagRows' \subseteq [package : Tagged, tag : 1 .. MaxTags, active : BOOLEAN]
      /\ \A r \in tagRows' : r.tag \in Free!Chosen(q) \/ tagName[r.tag] # None
      /\ \A i \in Free!Chosen(q) : i \in 1 .. MaxTags /\ tagName'[i] \in TagNames
  BY CommitOfTags
<1>2. /\ Free!Done(w)
      /\ crossed' = crossed \cup ({q.added[i] : i \in DOMAIN q.added}
                                   \cap {tagName[i] : i \in Free!Tags})
  BY DEF Free!Commit
<1>3. /\ \A i \in DOMAIN q.added : i \in 1 .. MaxTags /\ tagName[i] = None /\ q.added[i] \in TagNames
      /\ \A i, j \in DOMAIN q.added : q.added[i] = q.added[j] => i = j
  BY <1>1 DEF TagFit
<1>4. \A v \in Workers \ {w} :
        /\ \A n \in DOMAIN tagReq[v].found : tagReq[v].found[n] \notin DOMAIN q.added
        /\ \A i \in DOMAIN tagReq[v].added : i \notin DOMAIN q.added
  BY DEF TagsInv, NumbersApart
<1> HIDE DEF q
<1>5. /\ tagReq'[w] = Free!NoRequest /\ tagPc'[w] = "idle"
      /\ \A v \in Workers \ {w} : tagReq'[v] = tagReq[v] /\ tagPc'[v] = tagPc[v]
      /\ tagPc' \in [Workers -> {"idle", "commit"}] /\ DOMAIN tagReq' = Workers
      /\ NumbersApart'
  BY <1>2, RequestEnds
<1>6. \A i \in 1 .. MaxTags : tagName'[i] \in TagNames \cup {None}
  BY <1>1, <1>3 DEF TagsInv, TagsTyped
<1>7. \A r \in tagRows' : tagName'[r.tag] # None
  <2> SUFFICES ASSUME NEW r \in tagRows' PROVE tagName'[r.tag] # None
    OBVIOUS
  <2>1. r.tag \in 1 .. MaxTags
    BY <1>1
  <2>2. CASE r.tag \in Free!Chosen(q)
    BY <1>1, <2>2, TagsAssumption
  <2>3. CASE tagName[r.tag] # None
    BY <1>1, <1>3, <2>1, <2>3
  <2> QED BY <1>1, <2>2, <2>3
<1>8. TagsTyped'
  BY <1>1, <1>5, <1>6, <1>7 DEF TagsTyped
<1>9. TagsFit'
  <2>1. \A v \in Workers \ {w} : TagFit(tagReq[v])
    BY DEF TagsInv, TagsFit
  <2>2. ASSUME NEW v \in Workers \ {w} PROVE TagFit(tagReq[v])'
    <3>1. \A n \in DOMAIN tagReq[v].found : tagName'[tagReq[v].found[n]] = tagName[tagReq[v].found[n]]
      BY <1>1, <1>4, <2>1 DEF TagFit
    <3>2. \A i \in DOMAIN tagReq[v].added : tagName'[i] = tagName[i]
      BY <1>1, <1>4, <2>1 DEF TagFit
    <3> QED BY <1>5, <2>1, <3>1, <3>2 DEF TagFit
  <2>3. TagFit(tagReq[w])'
    BY <1>5, NothingAsked DEF TagFit
  <2>4. \A v \in Workers : tagPc'[v] = "commit" => tagReq'[v].package \in Tagged
    BY <1>5 DEF TagsInv, TagsFit
  <2> QED BY <2>2, <2>3, <2>4 DEF TagsFit
<1>10. NamedOnce'
  <2> SUFFICES ASSUME NEW i \in 1 .. MaxTags, NEW j \in 1 .. MaxTags,
                      tagName'[i] # None, tagName'[i] = tagName'[j], i # j
               PROVE  tagName'[i] \in crossed'
    BY DEF NamedOnce
  <2>1. ASSUME NEW k \in DOMAIN q.added, NEW l \in 1 .. MaxTags, l \notin DOMAIN q.added,
               tagName'[k] = tagName'[l]
        PROVE  tagName'[k] \in crossed'
    <3>1. tagName'[k] = q.added[k] /\ tagName'[l] = tagName[l] /\ tagName[l] # None
      BY <1>1, <1>3, <2>1, TagsAssumption
    <3>2. tagName[l] \in {tagName[m] : m \in Free!Tags} /\ q.added[k] \in {q.added[m] : m \in DOMAIN q.added}
      BY <2>1, <3>1 DEF Free!Tags, Free!Ids
    <3> QED BY <1>2, <2>1, <3>1, <3>2
  <2>2. CASE i \in DOMAIN q.added /\ j \in DOMAIN q.added
    BY <1>1, <1>3, <2>2
  <2>3. CASE i \in DOMAIN q.added /\ j \notin DOMAIN q.added
    BY <2>1, <2>3
  <2>4. CASE i \notin DOMAIN q.added /\ j \in DOMAIN q.added
    BY <2>1, <2>4
  <2>5. CASE i \notin DOMAIN q.added /\ j \notin DOMAIN q.added
    BY <1>1, <1>2, <2>5 DEF TagsInv, NamedOnce
  <2> QED BY <2>2, <2>3, <2>4, <2>5
<1> QED BY <1>5, <1>8, <1>9, <1>10 DEF TagsInv

LEMMA TagDeleteKeeps ==
    ASSUME TagsInv, NEW n \in TagNames, Free!TagDelete(n)
    PROVE  TagsInv'
<1>1. PICK i \in Free!Named(n) : /\ tagName' = [tagName EXCEPT ![i] = None]
                                /\ tagRows' = {r \in tagRows : r.tag # i}
  BY DEF Free!TagDelete
<1>2. UNCHANGED <<tagPc, tagReq, crossed>>
  BY DEF Free!TagDelete
<1>3. \A j \in 1 .. MaxTags : tagName'[j] = IF j = i THEN None ELSE tagName[j]
  BY <1>1 DEF TagsInv, TagsTyped
<1>4. TagsTyped'
  BY <1>1, <1>2, <1>3 DEF TagsInv, TagsTyped
<1>5. TagsFit'
  BY <1>2, <1>3 DEF TagsInv, TagsFit, TagFit
<1>6. NumbersApart' /\ NamedOnce'
  BY <1>2, <1>3 DEF TagsInv, NumbersApart, NamedOnce
<1> QED BY <1>4, <1>5, <1>6 DEF TagsInv

LEMMA TagsStep == TagsInv /\ [Free!Next]_Free!vars => TagsInv'
<1> SUFFICES ASSUME TagsInv, [Free!Next]_Free!vars PROVE TagsInv'
  OBVIOUS
<1>1. ASSUME NEW w \in Workers, Free!Abort(w) PROVE TagsInv'
  <2>1. Free!Done(w) /\ UNCHANGED <<tagName, tagRows, deleted, crossed>>
    BY <1>1 DEF Free!Abort
  <2>2. /\ tagReq'[w] = Free!NoRequest /\ tagPc'[w] = "idle"
        /\ \A v \in Workers \ {w} : tagReq'[v] = tagReq[v] /\ tagPc'[v] = tagPc[v]
        /\ tagPc' \in [Workers -> {"idle", "commit"}] /\ DOMAIN tagReq' = Workers
        /\ NumbersApart'
    BY <2>1, RequestEnds
  <2>3. TagsFit'
    BY <2>1, <2>2, NothingAsked DEF TagsInv, TagsFit, TagFit
  <2> QED BY <2>1, <2>2, <2>3 DEF TagsInv, TagsTyped, NamedOnce
<1>2. ASSUME UNCHANGED <<tagName, tagRows, tagPc, tagReq, crossed>> PROVE TagsInv'
  BY <1>2 DEF TagsInv, TagsTyped, TagsFit, TagFit, NumbersApart, NamedOnce
<1>3. ASSUME NEW p \in Tagged, Free!SetState(p) PROVE TagsInv'
  BY <1>2, <1>3 DEF Free!SetState
<1>4. CASE UNCHANGED Free!vars
  BY <1>2, <1>4 DEF Free!vars
<1> QED BY <1>1, <1>3, <1>4, SaveTagsKeeps, CommitTagsKeeps, TagDeleteKeeps DEF Free!Next

\* What is listed is found, and a name is listed once.
LEMMA ListedAreFound == TagsInv => Free!TagsAreFound
<1> SUFFICES ASSUME TagsInv PROVE Free!TagsAreFound
  OBVIOUS
<1>1. \A r \in tagRows : /\ r.package \in Tagged /\ r.tag \in Free!Tags
                         /\ tagName[r.tag] \in TagNames
  BY DEF TagsInv, TagsTyped, Free!Tags, Free!Ids
<1>2. \A i \in Free!TagList : i \in Free!Tags /\ tagName[i] \in TagNames
                              /\ \E r \in tagRows : r.tag = i
  BY <1>1 DEF Free!TagList
<1>3. ASSUME NEW i \in Free!TagListOf(None) PROVE i \in Free!TagListOf(tagName[i])
  <2>1. i \in Free!TagList /\ tagName[i] # None
    BY <1>2, <1>3, TagsAssumption DEF Free!TagListOf
  <2> QED BY <1>2, <2>1 DEF Free!TagListOf, Free!TagSearch, Free!Named
<1>4. ASSUME NEW n \in TagNames
      PROVE  Free!ShowPackages(n) = (UNION {Free!PackagesOfTag(i) : i \in Free!Named(n)}) \ deleted
  <2>1. ASSUME NEW p \in Free!ShowPackages(n)
        PROVE  p \notin deleted /\ \E i \in Free!Named(n) : p \in Free!PackagesOfTag(i)
    <3>1. PICK i \in Free!ShownTags(p) : tagName[i] = n
      BY DEF Free!ShowPackages
    <3>2. PICK r \in tagRows : r.package = p /\ r.active /\ r.tag = i
      BY DEF Free!ShownTags
    <3>3. i \in Free!Named(n) /\ p \in Free!PackagesOfTag(i)
      BY <1>1, <3>1, <3>2 DEF Free!Named, Free!PackagesOfTag
    <3> QED BY <3>3 DEF Free!ShowPackages
  <2>2. ASSUME NEW i \in Free!Named(n), NEW p \in Free!PackagesOfTag(i), p \notin deleted
        PROVE  p \in Free!ShowPackages(n)
    <3>1. PICK r \in tagRows : r.package = p /\ r.active /\ r.tag = i
      BY DEF Free!PackagesOfTag
    <3>2. p \in Tagged /\ i \in Free!ShownTags(p) /\ tagName[i] = n
      BY <1>1, <3>1 DEF Free!ShownTags, Free!Named
    <3> QED BY <2>2, <3>2 DEF Free!ShowPackages
  <2>3. \A p : p \in UNION {Free!PackagesOfTag(i) : i \in Free!Named(n)}
                <=> \E i \in Free!Named(n) : p \in Free!PackagesOfTag(i)
    OBVIOUS
  <2>4. \A p : p \in Free!ShowPackages(n)
                <=> p \notin deleted /\ \E i \in Free!Named(n) : p \in Free!PackagesOfTag(i)
    BY <2>1, <2>2
  <2> DEFINE A == Free!ShowPackages(n)
             U == UNION {Free!PackagesOfTag(i) : i \in Free!Named(n)}
  <2>5. \A p : p \in A <=> p \in U \ deleted
    <3> HIDE DEF A, U
    <3>1. \A p : p \in U <=> \E i \in Free!Named(n) : p \in Free!PackagesOfTag(i)
      BY <2>3 DEF U
    <3>2. \A p : p \in A <=> p \notin deleted /\ \E i \in Free!Named(n) : p \in Free!PackagesOfTag(i)
      BY <2>4 DEF A
    <3> QED BY <3>1, <3>2
  <2>6. A = U \ deleted
    <3> HIDE DEF A, U
    <3> QED BY <2>5
  <2> QED BY <2>6
<1>5. \A i, j \in Free!TagList : tagName[i] = tagName[j] => i = j \/ tagName[i] \in crossed
  BY <1>2 DEF TagsInv, NamedOnce, Free!Tags, Free!Ids
<1> QED BY <1>3, <1>4, <1>5 DEF Free!TagsAreFound

\* As many tags are chosen as names are given: each row has one of them, and no two the same.
LEMMA ChosenForGiven ==
    ASSUME TagsInv, NEW w \in Workers, Free!Commit(w)
    PROVE  LET q == tagReq[w]
               given == {n \in DOMAIN q.found : q.found[n] \in Free!Tags}
                          \cup {q.added[i] : i \in DOMAIN q.added}
           IN  /\ {tagName'[i] : i \in Free!Chosen(q)} = given
               /\ Free!Cardinality(Free!Chosen(q)) = Free!Cardinality(given)
<1> DEFINE q == tagReq[w]
           chosen == Free!Chosen(q)
           given == {n \in DOMAIN q.found : q.found[n] \in Free!Tags}
                      \cup {q.added[i] : i \in DOMAIN q.added}
           f == [i \in chosen |-> tagName'[i]]
<1>1. /\ TagFit(q)
      /\ \A i \in 1 .. MaxTags : tagName'[i] = IF i \in DOMAIN q.added THEN q.added[i] ELSE tagName[i]
      /\ \A i \in chosen : i \in 1 .. MaxTags
  BY CommitOfTags
<1>2. \A n \in DOMAIN q.found : q.found[n] \notin DOMAIN q.added
  BY DEF TagsInv, NumbersApart
<1>3. \A n \in DOMAIN q.found : q.found[n] \in Free!Tags =>
        q.found[n] \in chosen /\ tagName'[q.found[n]] = n
  BY <1>1, <1>2 DEF TagFit, Free!Chosen, Free!Found, Free!Tags, Free!Ids
<1>4. \A i \in DOMAIN q.added : i \in chosen /\ tagName'[i] = q.added[i]
  BY <1>1 DEF TagFit, Free!Chosen
<1>5. \A i \in chosen : i \in DOMAIN q.added
                        \/ \E n \in DOMAIN q.found : q.found[n] \in Free!Tags /\ q.found[n] = i
  BY DEF Free!Chosen, Free!Found
<1>6. \A i \in chosen : tagName'[i] \in given
  BY <1>3, <1>4, <1>5
<1>7. \A n \in given : \E i \in chosen : tagName'[i] = n
  BY <1>3, <1>4
<1>8. \A i, j \in chosen : tagName'[i] = tagName'[j] => i = j
  <2>1. \A i \in DOMAIN q.added : tagName'[i] \notin DOMAIN q.found
    BY <1>1, <1>4 DEF TagFit
  <2>2. \A i, j \in DOMAIN q.added : tagName'[i] = tagName'[j] => i = j
    BY <1>1, <1>4 DEF TagFit
  <2>3. \A i \in chosen : i \in DOMAIN q.added
                          \/ (tagName'[i] \in DOMAIN q.found /\ q.found[tagName'[i]] = i)
    BY <1>3, <1>5
  <2> QED BY <2>1, <2>2, <2>3
<1>9. IsFiniteSet(chosen)
  <2>1. IsFiniteSet(1 .. MaxTags)
    BY TagsAssumption, FS_Interval
  <2> QED BY <1>1, <2>1, FS_Subset
<1>10. \A S : Free!Cardinality(S) = Cardinality(S)
  BY DEF Free!Cardinality, Cardinality
<1> HIDE DEF q, chosen, given
<1>11. f \in Bijection(chosen, given)
  <2>1. f \in [chosen -> given]
    BY <1>6
  <2>2. \A i, j \in DOMAIN f : f[i] = f[j] => i = j
    BY <1>8
  <2>3. \A n \in given : \E i \in chosen : f[i] = n
    BY <1>7
  <2> QED BY <2>1, <2>2, <2>3 DEF Bijection, Injection, Surjection, IsInjective
<1>12. Cardinality(given) = Cardinality(chosen)
  BY <1>9, <1>11, FS_Bijection DEF ExistsBijection
<1> QED BY <1>6, <1>7, <1>10, <1>12 DEF given, chosen, q

\* A dataset has the names that it was given, each once, one that was deleted meanwhile left
\* out, and what is listed is found: for any datasets, names and requests (tag_list_save,
\* tag_delete, tag_list, tag_search, tag_show).
THEOREM TagsStayAsGiven == SiteSpec => FreeTagsHold
<1>1. ASSUME TagsInv, NEW w \in Workers, Free!Commit(w)
      PROVE  LET q == tagReq[w]
                 given == {n \in DOMAIN q.found : q.found[n] \in Free!Tags}
                            \cup {q.added[i] : i \in DOMAIN q.added}
             IN  \E p \in Tagged :
                   /\ p = q.package
                   /\ {tagName'[i] : i \in Free!ShownTags(p)'} = given
                   /\ Free!Cardinality(Free!ShownTags(p)') = Free!Cardinality(given)
  <2> DEFINE p == tagReq[w].package
  <2>1. p \in Tagged /\ \A x \in {p} : Free!ShownTags(x)' = Free!Chosen(tagReq[w])
    BY <1>1, CommitOfTags
  <2> QED BY <1>1, <2>1, ChosenForGiven
<1>2. ASSUME TagsInv, NEW n \in TagNames \ crossed, Free!TagDelete(n), NEW j \in Free!TagList'
      PROVE  tagName'[j] # n
  <2>1. PICK i \in Free!Named(n) : /\ tagName' = [tagName EXCEPT ![i] = None]
                                  /\ tagRows' = {r \in tagRows : r.tag # i}
    BY <1>2 DEF Free!TagDelete
  <2>2. PICK r \in tagRows : r.tag = j /\ j # i
    BY <1>2, <2>1 DEF Free!TagList
  <2>3. j \in 1 .. MaxTags /\ tagName[j] # None /\ tagName'[j] = tagName[j]
    BY <1>2, <2>1, <2>2 DEF TagsInv, TagsTyped
  <2>4. i \in 1 .. MaxTags /\ tagName[i] = n
    BY DEF Free!Named, Free!Tags, Free!Ids
  <2> QED BY <1>2, <2>2, <2>3, <2>4 DEF TagsInv, NamedOnce
<1>3. TagsInv => /\ \A w \in Workers : Free!Commit(w) =>
                      LET q == tagReq[w]
                          given == {n \in DOMAIN q.found : q.found[n] \in Free!Tags}
                                     \cup {q.added[i] : i \in DOMAIN q.added}
                      IN  \E p \in Tagged :
                            /\ p = q.package
                            /\ {tagName'[i] : i \in Free!ShownTags(p)'} = given
                            /\ Free!Cardinality(Free!ShownTags(p)') = Free!Cardinality(given)
                 /\ \A n \in TagNames \ crossed : Free!TagDelete(n) =>
                      \A i \in Free!TagList' : tagName'[i] # n
  BY <1>1, <1>2
<1> QED BY <1>3, TagsInitially, TagsStep, ListedAreFound, SiteRunsFree, PTL
     DEF Free!Spec, FreeTagsHold, Free!TagsAsGiven

-----------------------------------------------------------------------------
(***************************************************************************)
(* The history of a dataset.                                               *)
(***************************************************************************)
LEMMA SiteRunsPast == SiteSpec => Past!Spec
<1>1. SiteInit => Past!Init
  BY DEF SiteInit
<1>2. [SiteNext]_all => [Past!Next]_Past!vars
  BY DEF SiteNext, all, pastVars, Past!vars
<1> QED BY <1>1, <1>2, PTL DEF SiteSpec, Past!Spec

\* The rows of an object follow each other without a gap, from a first one on.
Chain(S) ==
    /\ IsFiniteSet(S)
    /\ \A s \in S : s.from = s.revision /\ s.from < s.until
    /\ \A s, t \in S : s.from = t.from => s = t
    /\ \A s, t \in S : s.from < t.from => s.until =< t.from
    /\ \A d \in Past!Times : (\E s \in S : s.from =< d) => \E s \in S : s.from =< d /\ d < s.until
    /\ S # {} => \E s \in S : \A t \in S : s.from =< t.from

PastTyped ==
    /\ now \in 0 .. MaxRevised /\ DOMAIN current = Past!Objects
    /\ rows \in [Past!Objects -> SUBSET Past!Row]
    /\ \A o \in Past!Objects : \A s \in rows[o] : s.revision =< now
    /\ savePc \in [Workers -> {"idle", "commit"}] /\ DOMAIN saveReq = Workers
    /\ \A w \in Workers : savePc[w] = "commit" =>
         /\ saveReq[w].revision \in Past!Times /\ saveReq[w].revision =< now
         /\ Dataset \in DOMAIN saveReq[w].change
         /\ \A o \in Past!Objects \cap DOMAIN saveReq[w].change : saveReq[w].change[o] \in Values

\* A revision is drawn for one request, and writes its rows once.
RevisionsApart ==
    \A w \in Workers : savePc[w] = "commit" =>
      /\ \A o \in Past!Objects : \A s \in rows[o] : s.revision # saveReq[w].revision
      /\ \A v \in Workers \ {w} :
           savePc[v] = "commit" => saveReq[v].revision # saveReq[w].revision

\* An object is what its row without an end says, and the package has a row for each
\* revision of a part.
Current(o) ==
    /\ current[o] = None <=> rows[o] = {}
    /\ \A s \in rows[o] :
         s.until = Past!Never => current[o] = [revision |-> s.revision, value |-> s.value]
WithPackage(o) == \A s \in rows[o] : \E t \in rows[Dataset] : t.revision = s.revision
PastChained ==
    Past!Ordered => \A o \in Past!Objects : Chain(rows[o]) /\ Current(o) /\ WithPackage(o)

PastInv == PastTyped /\ RevisionsApart /\ PastChained

LEMMA TimesOfPast ==
    /\ Past!Times = 1 .. MaxRevised /\ Past!Never = MaxRevised + 1 /\ MaxRevised \in Nat
    /\ \A s \in Past!Row : /\ s.from \in Past!Times /\ s.revision \in Past!Times /\ s.value \in Values
                           /\ s.until \in Past!Times \cup {Past!Never}
    /\ Dataset \in Past!Objects
BY RevisionsAssumption DEF Past!Times, Past!Never, Past!Row, Past!Objects

LEMMA PastInitially == Past!Init => PastInv
<1> SUFFICES ASSUME Past!Init PROVE PastInv
  OBVIOUS
<1>1. /\ now = 0 /\ \A o \in Past!Objects : current[o] = None /\ rows[o] = {}
      /\ DOMAIN current = Past!Objects /\ rows = [o \in Past!Objects |-> {}]
      /\ savePc = [w \in Workers |-> "idle"] /\ DOMAIN saveReq = Workers
  BY DEF Past!Init
<1>2. PastTyped
  BY <1>1, TimesOfPast DEF PastTyped
<1>3. Chain({})
  BY FS_EmptySet DEF Chain
<1>4. RevisionsApart /\ PastChained
  BY <1>1, <1>3 DEF RevisionsApart, PastChained, Current, WithPackage
<1> QED BY <1>2, <1>4 DEF PastInv

-----------------------------------------------------------------------------
\* A row is added to a chain after the rows it has ...
LEMMA RevisedRows ==
    ASSUME NEW S \in SUBSET Past!Row, NEW r \in Past!Times, NEW x \in Values
    PROVE  /\ Past!Revised(S, r, x) \subseteq Past!Row
           /\ \A s \in S : \E t \in Past!Revised(S, r, x) : t.revision = s.revision
           /\ \A t \in Past!Revised(S, r, x) :
                t.revision = r \/ \E s \in S : t.revision = s.revision
           /\ \E t \in Past!Revised(S, r, x) : t.revision = r
<1> DEFINE e(s) == [s EXCEPT !.until = IF @ = Past!Never THEN r ELSE @]
           l == [revision |-> r, value |-> x, from |-> r, until |-> Past!Never]
           T == Past!Revised(S, r, x)
<1>1. \A s \in S : /\ e(s) \in Past!Row /\ e(s).revision = s.revision /\ e(s).from = s.from
                   /\ e(s).value = s.value /\ e(s).until = IF s.until = Past!Never THEN r ELSE s.until
  BY DEF Past!Row
<1>2. l \in Past!Row /\ l.revision = r /\ l.value = x /\ l.from = r /\ l.until = Past!Never
  BY DEF Past!Row
<1>3. T = {e(s) : s \in S} \cup {l}
  BY DEF Past!Revised
<1> HIDE DEF e, l, T
<1>4. (\A t \in T : t = l \/ \E s \in S : t = e(s)) /\ l \in T /\ \A s \in S : e(s) \in T
  BY <1>3
<1>5. T \subseteq Past!Row
  BY <1>1, <1>2, <1>4
<1>6. /\ \A s \in S : \E t \in T : t.revision = s.revision
      /\ \A t \in T : t.revision = r \/ \E s \in S : t.revision = s.revision
      /\ \E t \in T : t.revision = r
  BY <1>1, <1>2, <1>4
<1> QED BY <1>5, <1>6 DEF T

LEMMA ChainGrows ==
    ASSUME NEW S \in SUBSET Past!Row, NEW r \in Past!Times, NEW x \in Values,
           Chain(S), \A s \in S : s.revision < r
    PROVE  /\ Chain(Past!Revised(S, r, x))
           /\ \A t \in Past!Revised(S, r, x) :
                t.until = Past!Never => t.revision = r /\ t.value = x
<1> DEFINE e(s) == [s EXCEPT !.until = IF @ = Past!Never THEN r ELSE @]
           l == [revision |-> r, value |-> x, from |-> r, until |-> Past!Never]
           T == Past!Revised(S, r, x)
<1>1. \A s \in S : /\ e(s) \in Past!Row /\ e(s).revision = s.revision /\ e(s).from = s.from
                   /\ e(s).value = s.value /\ e(s).until = IF s.until = Past!Never THEN r ELSE s.until
  BY DEF Past!Row
<1>2. l \in Past!Row /\ l.revision = r /\ l.value = x /\ l.from = r /\ l.until = Past!Never
  BY DEF Past!Row
<1>3. T = {e(s) : s \in S} \cup {l}
  BY DEF Past!Revised
<1> HIDE DEF e, l, T
<1>4. (\A t \in T : t = l \/ \E s \in S : t = e(s)) /\ l \in T /\ \A s \in S : e(s) \in T
  BY <1>3
<1>7. ASSUME Chain(S), \A s \in S : s.revision < r
      PROVE  Chain(T) /\ \A t \in T : t.until = Past!Never => t.revision = r /\ t.value = x
  <2>1. \A s \in S : /\ s.from < r /\ e(s).until =< r /\ e(s).from < e(s).until
                     /\ e(s).until = r \/ e(s).until = s.until
    <3> SUFFICES ASSUME NEW s \in S
                 PROVE  /\ s.from < r /\ e(s).until =< r /\ e(s).from < e(s).until
                        /\ e(s).until = r \/ e(s).until = s.until
      OBVIOUS
    <3>1. s.from < r /\ s.from < s.until
      BY <1>7 DEF Chain
    <3>2. s.until # Past!Never => s.until =< r
      <4> SUFFICES ASSUME s.until # Past!Never, ~ s.until =< r PROVE FALSE
        OBVIOUS
      <4>1. s.until \in Past!Times /\ s.until >= s.from
        BY <3>1, TimesOfPast
      <4>2. PICK t \in S : t.from =< s.until /\ s.until < t.until
        BY <1>7, <4>1 DEF Chain
      <4>3. t.from < r
        BY <1>7 DEF Chain
      <4>4. t.from \in Int /\ s.from \in Int /\ s.until \in Int /\ r \in Int
        BY TimesOfPast
      <4>5. ~ s.from = t.from
        BY <1>7, <4>2, <4>4, TimesOfPast DEF Chain
      <4>6. ~ s.from < t.from
        BY <1>7, <4>2, <4>3, <4>4 DEF Chain
      <4>7. t.from < s.from
        BY <4>4, <4>5, <4>6
      <4>8. t.until =< s.from
        BY <1>7, <4>7 DEF Chain
      <4> QED BY <4>2, <4>8, <3>1, <4>4, TimesOfPast
    <3> QED BY <1>1, <3>1, <3>2, TimesOfPast
  <2>2. IsFiniteSet(T)
    <3>1. IsFiniteSet({e(s) : s \in S})
      <4> DEFINE f == [s \in S |-> e(s)]
                 I == {e(s) : s \in S}
      <4>1. f \in Surjection(S, I)
        BY DEF Surjection
      <4> HIDE DEF f, I
      <4>2. IsFiniteSet(I)
        BY <1>7, <4>1, FS_Surjection DEF Chain
      <4> QED BY <4>2 DEF I
    <3> QED BY <1>3, <3>1, FS_AddElement
  <2>3. \A t \in T : t.from = t.revision /\ t.from < t.until
    BY <1>1, <1>2, <1>4, <1>7, <2>1, TimesOfPast DEF Chain
  <2>4. \A s, t \in T : s.from = t.from => s = t
    BY <1>1, <1>2, <1>4, <1>7, <2>1, TimesOfPast DEF Chain
  <2>5. \A s, t \in S : s.from < t.from => e(s).until =< t.from
    <3> SUFFICES ASSUME NEW s \in S, NEW t \in S, s.from < t.from PROVE e(s).until =< t.from
      OBVIOUS
    <3>1. s.until =< t.from
      BY <1>7 DEF Chain
    <3> QED BY <1>1, <3>1, TimesOfPast
  <2>6. \A s, t \in T : s.from < t.from => s.until =< t.from
    <3> SUFFICES ASSUME NEW s \in T, NEW t \in T, s.from < t.from PROVE s.until =< t.from
      OBVIOUS
    <3>1. CASE s = l
      BY <1>1, <1>2, <1>4, <2>1, <3>1, TimesOfPast
    <3>2. CASE t = l /\ s # l
      BY <1>1, <1>2, <1>4, <2>1, <3>2
    <3>3. CASE s # l /\ t # l
      BY <1>1, <1>4, <2>5, <3>3
    <3> QED BY <3>1, <3>2, <3>3
  <2>7. ASSUME NEW d \in Past!Times, NEW s \in T, s.from =< d
        PROVE  \E t \in T : t.from =< d /\ d < t.until
    <3>1. CASE r =< d
      BY <1>2, <1>4, <3>1, TimesOfPast
    <3>2. CASE d < r
      <4>1. PICK u \in S : u.from =< d
        BY <1>1, <1>2, <1>4, <2>7, <3>2, TimesOfPast
      <4>2. PICK t \in S : t.from =< d /\ d < t.until
        BY <1>7, <4>1 DEF Chain
      <4>3. e(t) \in T /\ e(t).from =< d /\ d < e(t).until
        BY <1>1, <1>4, <3>2, <4>2
      <4> QED BY <4>3
    <3> QED BY <3>1, <3>2, TimesOfPast
  <2>8. \E s \in T : \A t \in T : s.from =< t.from
    <3>1. CASE S = {}
      BY <1>2, <1>4, <3>1, TimesOfPast
    <3>2. CASE S # {}
      <4>1. PICK s \in S : \A t \in S : s.from =< t.from
        BY <1>7, <3>2 DEF Chain
      <4>2. e(s) \in T /\ \A t \in T : e(s).from =< t.from
        BY <1>1, <1>2, <1>4, <2>1, <4>1, TimesOfPast
      <4> QED BY <4>2
    <3> QED BY <3>1, <3>2
  <2>9. Chain(T)
    BY <2>2, <2>3, <2>4, <2>6, <2>7, <2>8 DEF Chain
  <2>10. \A t \in T : t.until = Past!Never => t.revision = r /\ t.value = x
    BY <1>1, <1>2, <1>4, <2>1, TimesOfPast
  <2> QED BY <2>9, <2>10
<1> QED BY <1>7 DEF T

\* The last row of a set of rows that have different dates.
LEMMA LastIsLatest ==
    ASSUME NEW S \in SUBSET Past!Row, \A s, t \in S : s.from = t.from => s = t,
           NEW l \in S, \A t \in S : t.from =< l.from
    PROVE  Past!Last(S) = l
<1>1. \A x \in S : (\A t \in S : t.from =< x.from) => x = l
  <2> SUFFICES ASSUME NEW x \in S, \A t \in S : t.from =< x.from PROVE x = l
    OBVIOUS
  <2>1. x.from =< l.from /\ l.from =< x.from
    OBVIOUS
  <2> QED BY <2>1, TimesOfPast
<1> QED BY <1>1 DEF Past!Last

\* A chain has a last row, which has no end, and no other has none ...
LEMMA ChainEnds ==
    ASSUME NEW S \in SUBSET Past!Row, Chain(S), S # {}
    PROVE  /\ Past!Last(S) \in S /\ Past!Last(S).until = Past!Never
           /\ \A t \in S : t.from =< Past!Last(S).from
           /\ \A t \in S : t.until = Past!Never => t = Past!Last(S)
<1>1. PICK s \in S : TRUE
  OBVIOUS
<1>2. MaxRevised \in Past!Times /\ s.from =< MaxRevised
  BY TimesOfPast
<1>3. PICK l \in S : l.from =< MaxRevised /\ MaxRevised < l.until
  BY <1>2 DEF Chain
<1>4. l.until = Past!Never
  BY <1>3, TimesOfPast
<1>5. \A t \in S : t.from =< l.from
  BY <1>4, TimesOfPast DEF Chain
<1>6. \A t \in S : t.until = Past!Never => t = l
  <2> SUFFICES ASSUME NEW t \in S, t.until = Past!Never PROVE t.from = l.from
    BY DEF Chain
  <2>1. l.from =< t.from
    BY TimesOfPast DEF Chain
  <2> QED BY <1>5, <2>1, TimesOfPast
<1>7. Past!Last(S) = l
  BY <1>5, LastIsLatest DEF Chain
<1> QED BY <1>4, <1>5, <1>6, <1>7

\* ... and the row before the last ends where the last begins.
LEMMA BeforeLast ==
    ASSUME NEW S \in SUBSET Past!Row, Chain(S), NEW l \in S, \A t \in S : t.from =< l.from,
           S \ {l} # {}
    PROVE  /\ Past!Last(S \ {l}) \in S \ {l} /\ Past!Last(S \ {l}).until = l.from
           /\ \A s \in S \ {l} : s.from =< Past!Last(S \ {l}).from
           /\ \A s \in S \ {l} : s.from < l.from /\ s.until =< l.from
<1>1. PICK u \in S \ {l} : TRUE
  OBVIOUS
<1>2. \A s \in S \ {l} : s.from < l.from /\ s.until =< l.from /\ s.from < s.until
  <2> SUFFICES ASSUME NEW s \in S \ {l} PROVE s.from < l.from /\ s.until =< l.from /\ s.from < s.until
    OBVIOUS
  <2>1. s.from # l.from /\ s.from =< l.from
    BY DEF Chain
  <2>2. s.from < l.from
    BY <2>1, TimesOfPast
  <2> QED BY <2>2 DEF Chain
<1>3. PICK p \in S : p.from =< l.from - 1 /\ l.from - 1 < p.until
  <2>1. l.from - 1 \in Past!Times /\ u.from =< l.from - 1
    BY <1>2, TimesOfPast
  <2> QED BY <2>1 DEF Chain
<1>4. p \in S \ {l} /\ p.until = l.from
  BY <1>2, <1>3, TimesOfPast
<1>5. \A s \in S \ {l} : s.from =< p.from
  <2> SUFFICES ASSUME NEW s \in S \ {l}, p.from < s.from PROVE FALSE
    BY TimesOfPast
  <2>1. p.until =< s.from
    BY DEF Chain
  <2> QED BY <1>2, <1>4, <2>1, TimesOfPast
<1>6. Past!Last(S \ {l}) = p
  BY <1>4, <1>5, LastIsLatest DEF Chain
<1> QED BY <1>2, <1>4, <1>5, <1>6

\* Without the last row, the row before it goes on.
LEMMA ChainBack ==
    ASSUME NEW S \in SUBSET Past!Row, Chain(S), NEW l \in S, \A t \in S : t.from =< l.from,
           S \ {l} # {}
    PROVE  LET t == Past!Last(S \ {l})
               T == {IF s = t THEN [s EXCEPT !.until = Past!Never] ELSE s : s \in S \ {l}}
           IN  /\ t \in S \ {l} /\ t.until = l.from /\ \A s \in S \ {l} : s.from =< t.from
               /\ T \subseteq Past!Row /\ Chain(T)
               /\ \A x \in T : \E s \in S \ {l} : /\ x.revision = s.revision /\ x.value = s.value
                                                 /\ x.from = s.from
                                                 /\ x.until = IF s = t THEN Past!Never ELSE s.until
               /\ \A s \in S \ {l} : \E x \in T : /\ x.revision = s.revision /\ x.value = s.value
                                                 /\ x.from = s.from
                                                 /\ x.until = IF s = t THEN Past!Never ELSE s.until
<1>1. PICK u \in S \ {l} : TRUE
  OBVIOUS
<1>2. \A s \in S \ {l} : s.from < l.from /\ s.until =< l.from
  BY BeforeLast
<1>3. PICK p \in S \ {l} : p = Past!Last(S \ {l})
  BY BeforeLast
<1>4. p.until = l.from
  BY <1>3, BeforeLast
<1>5. \A s \in S \ {l} : s.from =< p.from
  BY <1>3, BeforeLast
<1>6. Past!Last(S \ {l}) = p
  BY <1>3
<1> DEFINE e(s) == IF s = p THEN [s EXCEPT !.until = Past!Never] ELSE s
           T == {e(s) : s \in S \ {l}}
<1>7. \A s \in S : /\ e(s) \in Past!Row /\ e(s).revision = s.revision /\ e(s).value = s.value
                   /\ e(s).from = s.from /\ e(s).until = IF s = p THEN Past!Never ELSE s.until
  BY DEF Past!Row
<1> DEFINE m == Past!Last(S \ {l})
<1>8. T = {IF s = m THEN [s EXCEPT !.until = Past!Never] ELSE s : s \in S \ {l}}
  BY <1>6
<1>9. (\A x \in T : \E s \in S \ {l} : x = e(s)) /\ \A s \in S \ {l} : e(s) \in T
  OBVIOUS
<1>10. IsFiniteSet(T)
  <2> DEFINE f == [s \in S \ {l} |-> e(s)]
  <2>1. f \in Surjection(S \ {l}, T)
    BY DEF Surjection
  <2>2. IsFiniteSet(S \ {l})
    BY FS_RemoveElement DEF Chain
  <2> HIDE DEF f, T
  <2> QED BY <2>1, <2>2, FS_Surjection
<1> HIDE DEF e, T
<1>11. \A x \in T : x.from = x.revision /\ x.from < x.until
  <2> SUFFICES ASSUME NEW s \in S \ {l} PROVE e(s).from = e(s).revision /\ e(s).from < e(s).until
    BY <1>9
  <2>1. s.from = s.revision /\ s.from < s.until /\ s.from < Past!Never
    BY TimesOfPast DEF Chain
  <2> QED BY <1>7, <2>1
<1>12. \A x, y \in T : x.from = y.from => x = y
  BY <1>7, <1>9 DEF Chain
<1>13. \A x, y \in T : x.from < y.from => x.until =< y.from
  <2> SUFFICES ASSUME NEW a \in S \ {l}, NEW b \in S \ {l}, a.from < b.from
               PROVE  e(a).until =< b.from
    BY <1>7, <1>9
  <2>1. a # p
    BY <1>5, TimesOfPast
  <2> QED BY <1>7, <2>1 DEF Chain
<1>14. ASSUME NEW d \in Past!Times, NEW x \in T, x.from =< d
       PROVE  \E y \in T : y.from =< d /\ d < y.until
  <2>1. PICK a \in S \ {l} : a.from =< d
    BY <1>7, <1>9, <1>14
  <2>2. CASE p.from =< d
    <3>1. e(p) \in T /\ e(p).from =< d /\ d < e(p).until
      BY <1>4, <1>7, <1>9, <2>2, TimesOfPast
    <3> QED BY <3>1
  <2>3. CASE d < p.from
    <3>1. PICK b \in S : b.from =< d /\ d < b.until
      BY <2>1 DEF Chain
    <3>2. b # l /\ b # p
      BY <1>2, <1>4, <2>3, <3>1, TimesOfPast
    <3>3. e(b) \in T /\ e(b).from =< d /\ d < e(b).until
      BY <1>7, <1>9, <3>1, <3>2
    <3> QED BY <3>3
  <2> QED BY <2>2, <2>3, TimesOfPast
<1>15. \E x \in T : \A y \in T : x.from =< y.from
  <2>1. PICK s \in S : \A t \in S : s.from =< t.from
    BY DEF Chain
  <2>2. s # l
    BY <1>1, <1>2, <2>1, TimesOfPast
  <2>3. e(s) \in T /\ \A y \in T : e(s).from =< y.from
    BY <1>7, <1>9, <2>1, <2>2
  <2> QED BY <2>3
<1>16. Chain(T)
  BY <1>10, <1>11, <1>12, <1>13, <1>14, <1>15 DEF Chain
<1>17. T \subseteq Past!Row
  BY <1>7, <1>9
<1>18. /\ \A x \in T : \E s \in S \ {l} : /\ x.revision = s.revision /\ x.value = s.value
                                         /\ x.from = s.from
                                         /\ x.until = IF s = p THEN Past!Never ELSE s.until
       /\ \A s \in S \ {l} : \E x \in T : /\ x.revision = s.revision /\ x.value = s.value
                                         /\ x.from = s.from
                                         /\ x.until = IF s = p THEN Past!Never ELSE s.until
  BY <1>7, <1>9
<1>19. m = p
  BY <1>6
<1> HIDE DEF m
<1>20. /\ m \in S \ {l} /\ m.until = l.from /\ \A s \in S \ {l} : s.from =< m.from
       /\ \A x \in T : \E s \in S \ {l} : /\ x.revision = s.revision /\ x.value = s.value
                                         /\ x.from = s.from
                                         /\ x.until = IF s = m THEN Past!Never ELSE s.until
       /\ \A s \in S \ {l} : \E x \in T : /\ x.revision = s.revision /\ x.value = s.value
                                         /\ x.from = s.from
                                         /\ x.until = IF s = m THEN Past!Never ELSE s.until
  BY <1>4, <1>5, <1>18, <1>19
<1> QED BY <1>8, <1>16, <1>17, <1>20 DEF m

LEMMA StartSaveKeeps == ASSUME PastInv, NEW w \in Workers, Past!StartSave(w) PROVE PastInv'
<1>1. /\ savePc[w] = "idle" /\ now < MaxRevised /\ now' = now + 1
      /\ savePc' = [savePc EXCEPT ![w] = "commit"]
      /\ UNCHANGED <<revisions, current, rows, saveCrossed, holes>>
  BY DEF Past!StartSave
<1>2. PICK S \in SUBSET Parts : \E c \in [S \cup {Dataset} -> Values] :
        saveReq' = [saveReq EXCEPT ![w] = [revision |-> now', change |-> c, known |-> Past!Existing]]
  BY DEF Past!StartSave
<1>3. PICK c \in [S \cup {Dataset} -> Values] :
        saveReq' = [saveReq EXCEPT ![w] = [revision |-> now', change |-> c, known |-> Past!Existing]]
  BY <1>2
<1>4. /\ saveReq'[w].revision = now + 1 /\ saveReq'[w].change = c /\ DOMAIN saveReq' = Workers
      /\ \A v \in Workers \ {w} : saveReq'[v] = saveReq[v] /\ savePc'[v] = savePc[v]
      /\ savePc' \in [Workers -> {"idle", "commit"}]
  BY <1>1, <1>3 DEF PastInv, PastTyped
<1>5. now + 1 \in Past!Times /\ now \in Nat /\ now' \in 0 .. MaxRevised
  BY <1>1, TimesOfPast DEF PastInv, PastTyped
<1>6. PastTyped'
  <2>1. \A o \in Past!Objects : \A s \in rows[o] : s.revision =< now'
    BY <1>1, <1>5, TimesOfPast DEF PastInv, PastTyped
  <2>2. ASSUME NEW v \in Workers, savePc'[v] = "commit"
        PROVE  /\ saveReq'[v].revision \in Past!Times /\ saveReq'[v].revision =< now'
               /\ Dataset \in DOMAIN saveReq'[v].change
               /\ \A o \in Past!Objects \cap DOMAIN saveReq'[v].change : saveReq'[v].change[o] \in Values
    <3>1. CASE v = w
      BY <1>1, <1>4, <1>5, <3>1
    <3>2. CASE v # w
      BY <1>1, <1>4, <1>5, <2>2, <3>2, TimesOfPast DEF PastInv, PastTyped
    <3> QED BY <3>1, <3>2
  <2> QED BY <1>1, <1>4, <1>5, <2>1, <2>2 DEF PastInv, PastTyped
<1>7. RevisionsApart'
  <2>1. \A o \in Past!Objects : \A s \in rows[o] : s.revision # now + 1
    BY <1>5, TimesOfPast DEF PastInv, PastTyped
  <2>2. \A v \in Workers : savePc[v] = "commit" => saveReq[v].revision # now + 1
    BY <1>5, TimesOfPast DEF PastInv, PastTyped
  <2> QED BY <1>1, <1>4, <2>1, <2>2 DEF PastInv, RevisionsApart
<1>8. PastChained'
  BY <1>1 DEF PastInv, PastChained, Past!Ordered, Current, WithPackage
<1> QED BY <1>6, <1>7, <1>8 DEF PastInv

\* A worker that has ended no longer counts.
LEMMA DoneWith ==
    ASSUME PastInv, NEW w \in Workers, Past!Done(w)
    PROVE  /\ now' = now /\ savePc' \in [Workers -> {"idle", "commit"}] /\ DOMAIN saveReq' = Workers
           /\ \A v \in Workers : savePc'[v] = "commit" =>
                v # w /\ savePc[v] = "commit" /\ saveReq'[v] = saveReq[v]
<1>1. /\ now' = now /\ savePc' = [savePc EXCEPT ![w] = "idle"]
      /\ saveReq' = [saveReq EXCEPT ![w] = Past!NoRequest]
  BY DEF Past!Done
<1> QED BY <1>1 DEF PastInv, PastTyped

LEMMA AbortKeeps == ASSUME PastInv, NEW w \in Workers, Past!Abort(w) PROVE PastInv'
<1>1. Past!Done(w) /\ UNCHANGED <<revisions, current, rows, saveCrossed, holes>>
  BY DEF Past!Abort
<1>2. PastTyped'
  BY <1>1, DoneWith DEF PastInv, PastTyped
<1>3. RevisionsApart'
  BY <1>1, DoneWith DEF PastInv, RevisionsApart
<1>4. PastChained'
  BY <1>1 DEF PastInv, PastChained, Past!Ordered, Current, WithPackage
<1> QED BY <1>2, <1>3, <1>4 DEF PastInv

\* What a commit writes.
LEMMA CommitOfPast ==
    ASSUME PastInv, NEW w \in Workers, Past!Commit(w)
    PROVE  LET q == saveReq[w]
           IN  /\ savePc[w] = "commit" /\ Past!Done(w) /\ q.revision \in Past!Times
               /\ q.revision =< now /\ Dataset \in DOMAIN q.change
               /\ DOMAIN current' = Past!Objects /\ DOMAIN rows' = Past!Objects
               /\ rows' = [o \in Past!Objects |-> rows'[o]]
               /\ \A o \in Past!Objects \cap DOMAIN q.change :
                    /\ q.change[o] \in Values
                    /\ current'[o] = [revision |-> q.revision, value |-> q.change[o]]
                    /\ rows'[o] = Past!Revised(rows[o], q.revision, q.change[o])
               /\ \A o \in Past!Objects \ DOMAIN q.change :
                    current'[o] = current[o] /\ rows'[o] = rows[o]
               /\ saveCrossed' = (saveCrossed \/ \E o \in Past!Objects : \E s \in rows[o] :
                                                    s.revision > q.revision)
               /\ holes' = holes
<1> DEFINE q == saveReq[w]
<1>1. /\ savePc[w] = "commit" /\ Past!Done(w) /\ holes' = holes
      /\ current' = [o \in Past!Objects |->
                       IF o \in DOMAIN q.change
                       THEN [revision |-> q.revision, value |-> q.change[o]] ELSE current[o]]
      /\ rows' = Past!Recorded(q.revision, q.change)
      /\ saveCrossed' = (saveCrossed \/ \E o \in Past!Objects : \E s \in rows[o] :
                                           s.revision > q.revision)
  BY DEF Past!Commit
<1>2. rows' = [o \in Past!Objects |-> IF o \in DOMAIN q.change
                                      THEN Past!Revised(rows[o], q.revision, q.change[o])
                                      ELSE rows[o]]
  BY <1>1 DEF Past!Recorded
<1>3. /\ q.revision \in Past!Times /\ q.revision =< now /\ Dataset \in DOMAIN q.change
      /\ \A o \in Past!Objects \cap DOMAIN q.change : q.change[o] \in Values
  BY <1>1 DEF PastInv, PastTyped
<1> QED BY <1>1, <1>2, <1>3

LEMMA CommitOfPastKeeps == ASSUME PastInv, NEW w \in Workers, Past!Commit(w) PROVE PastInv'
<1> DEFINE q == saveReq[w]
<1>1. /\ savePc[w] = "commit" /\ Past!Done(w) /\ q.revision \in Past!Times
      /\ q.revision =< now /\ Dataset \in DOMAIN q.change
      /\ DOMAIN current' = Past!Objects /\ rows' = [o \in Past!Objects |-> rows'[o]]
      /\ \A o \in Past!Objects \cap DOMAIN q.change :
           /\ q.change[o] \in Values
           /\ current'[o] = [revision |-> q.revision, value |-> q.change[o]]
           /\ rows'[o] = Past!Revised(rows[o], q.revision, q.change[o])
      /\ \A o \in Past!Objects \ DOMAIN q.change :
           current'[o] = current[o] /\ rows'[o] = rows[o]
      /\ saveCrossed' = (saveCrossed \/ \E o \in Past!Objects : \E s \in rows[o] :
                                           s.revision > q.revision)
      /\ holes' = holes
  BY CommitOfPast
<1>2. \A o \in Past!Objects : rows[o] \in SUBSET Past!Row
  BY DEF PastInv, PastTyped
<1> HIDE DEF q
<1>3. \A o \in Past!Objects :
        /\ rows'[o] \subseteq Past!Row
        /\ \A s \in rows[o] : \E t \in rows'[o] : t.revision = s.revision
        /\ \A t \in rows'[o] : t.revision = q.revision \/ \E s \in rows[o] : t.revision = s.revision
        /\ o \in DOMAIN q.change => \E t \in rows'[o] : t.revision = q.revision
        /\ o \notin DOMAIN q.change => \A t \in rows'[o] : t \in rows[o]
  <2> SUFFICES ASSUME NEW o \in Past!Objects
               PROVE  /\ rows'[o] \subseteq Past!Row
                      /\ \A s \in rows[o] : \E t \in rows'[o] : t.revision = s.revision
                      /\ \A t \in rows'[o] :
                           t.revision = q.revision \/ \E s \in rows[o] : t.revision = s.revision
                      /\ o \in DOMAIN q.change => \E t \in rows'[o] : t.revision = q.revision
                      /\ o \notin DOMAIN q.change => \A t \in rows'[o] : t \in rows[o]
    OBVIOUS
  <2>1. CASE o \in DOMAIN q.change
    <3>1. rows'[o] = Past!Revised(rows[o], q.revision, q.change[o]) /\ q.change[o] \in Values
      BY <1>1, <2>1
    <3> DEFINE T == Past!Revised(rows[o], q.revision, q.change[o])
    <3>2. /\ T \subseteq Past!Row
          /\ \A s \in rows[o] : \E t \in T : t.revision = s.revision
          /\ \A t \in T : t.revision = q.revision \/ \E s \in rows[o] : t.revision = s.revision
          /\ \E t \in T : t.revision = q.revision
      BY <1>1, <1>2, <3>1, RevisedRows
    <3> HIDE DEF T
    <3> QED BY <2>1, <3>1, <3>2 DEF T
  <2>2. CASE o \notin DOMAIN q.change
    BY <1>1, <1>2, <2>2
  <2> QED BY <2>1, <2>2
<1>4. now' = now /\ \A o \in Past!Objects : \A s \in rows[o] : s.revision =< now
  BY <1>1, DoneWith DEF PastInv, PastTyped
<1>5. PastTyped'
  <2>1. rows' \in [Past!Objects -> SUBSET Past!Row]
    BY <1>1, <1>3
  <2>2. \A o \in Past!Objects : \A s \in rows'[o] : s.revision =< now
    BY <1>1, <1>3, <1>4
  <2> QED BY <1>1, <1>4, <2>1, <2>2, DoneWith DEF PastInv, PastTyped
<1>6. RevisionsApart'
  BY <1>1, <1>3, DoneWith DEF PastInv, RevisionsApart, q
<1>7. ASSUME Past!Ordered', NEW o \in Past!Objects
      PROVE  (Chain(rows[o]) /\ Current(o) /\ WithPackage(o))'
  <2>1. Past!Ordered /\ \A p \in Past!Objects : \A s \in rows[p] : ~ (s.revision > q.revision)
    BY <1>1, <1>7 DEF Past!Ordered
  <2>2. \A p \in Past!Objects : \A s \in rows[p] : s.revision < q.revision
    <3>1. \A p \in Past!Objects : \A s \in rows[p] : s.revision # q.revision
      BY <1>1 DEF PastInv, RevisionsApart, q
    <3> QED BY <1>1, <1>2, <2>1, <3>1, TimesOfPast
  <2>3. \A p \in Past!Objects : Chain(rows[p]) /\ Current(p) /\ WithPackage(p)
    BY <2>1 DEF PastInv, PastChained
  <2>4. Dataset \in Past!Objects
    BY TimesOfPast
  <2>5. WithPackage(o)'
    BY <1>1, <1>3, <2>3, <2>4 DEF WithPackage
  <2>6. CASE o \in DOMAIN q.change
    <3>1. /\ Chain(rows'[o])
          /\ \A t \in rows'[o] : t.until = Past!Never => t.revision = q.revision /\ t.value = q.change[o]
      BY <1>1, <1>2, <2>2, <2>3, <2>6, ChainGrows
    <3>2. rows'[o] # {} /\ current'[o] # None
      BY <1>1, <1>3, <2>6, RevisionsAssumption DEF Past!Times
    <3>3. Current(o)'
      BY <1>1, <2>6, <3>1, <3>2 DEF Current
    <3> QED BY <2>5, <3>1, <3>3
  <2>7. CASE o \notin DOMAIN q.change
    BY <1>1, <2>3, <2>5, <2>7 DEF Current
  <2> QED BY <2>6, <2>7
<1>8. PastChained'
  BY <1>7 DEF PastChained
<1> QED BY <1>5, <1>6, <1>8 DEF PastInv

\* What the purge of a revision does to an object when the revisions were committed in order
\* and it is the last one: the object is gone, goes back to the row before, or had no row of it.
Unmade(o, r) ==
    rows'[o] = {} /\ current'[o] = None /\ \A s \in rows[o] : s.revision = r
GoneBack(o, r) ==
    \E l \in rows[o] : \E t \in rows[o] \ {l} :
      /\ l.revision = r /\ l = Past!Last(rows[o]) /\ t = Past!Last(rows[o] \ {l})
      /\ rows'[o] = {IF s = t THEN [s EXCEPT !.until = Past!Never] ELSE s : s \in rows[o] \ {l}}
      /\ current'[o] = [revision |-> t.revision, value |-> t.value]
Untouched(o, r) ==
    rows'[o] = rows[o] /\ current'[o] = current[o] /\ \A s \in rows[o] : s.revision < r

LEMMA PurgeOfLast ==
    ASSUME PastInv, NEW r \in revisions, NEW leave \in BOOLEAN, Past!PurgeRevision(r, leave),
           Past!Ordered, \A s \in rows[Dataset] : ~ (s.revision > r)
    PROVE  /\ \/ \A o \in Past!Objects : Unmade(o, r)
              \/ /\ GoneBack(Dataset, r)
                 /\ \A o \in Past!Objects : Unmade(o, r) \/ GoneBack(o, r) \/ Untouched(o, r)
           /\ r \in Past!Times /\ \E t \in rows[Dataset] : t.revision = r
<1> DEFINE dead == IF Dataset \in Past!Only(r) THEN Past!Objects ELSE Past!Only(r)
<1>1. /\ \E o \in Past!Objects : Past!RowOf(o, r) # {}
      /\ current' = [o \in Past!Objects |->
                       IF o \in dead THEN None
                       ELSE IF o \in Past!Latest(r)
                            THEN [revision |-> Past!Second(o).revision, value |-> Past!Second(o).value]
                            ELSE current[o]]
      /\ rows' = [o \in Past!Objects |-> IF o \in dead THEN {} ELSE Past!Reverted(o, r)]
  BY DEF Past!PurgeRevision
<1> HIDE DEF dead
<1>2. /\ Dataset \in Past!Objects
      /\ \A o \in Past!Objects : /\ rows[o] \in SUBSET Past!Row /\ Chain(rows[o])
                                 /\ Current(o) /\ WithPackage(o)
  BY TimesOfPast DEF PastInv, PastTyped, PastChained
<1>3. PICK a \in Past!Objects : \E s \in rows[a] : s.revision = r
  BY <1>1 DEF Past!RowOf
<1>4. r \in Past!Times /\ \E t \in rows[Dataset] : t.revision = r
  BY <1>2, <1>3, TimesOfPast DEF WithPackage
<1>5. \A o \in Past!Objects : \A t \in rows[o] : t.revision =< r /\ t.revision = t.from
  <2> SUFFICES ASSUME NEW o \in Past!Objects, NEW t \in rows[o]
               PROVE  t.revision =< r /\ t.revision = t.from
    OBVIOUS
  <2>1. PICK u \in rows[Dataset] : u.revision = t.revision
    BY <1>2 DEF WithPackage
  <2>2. u.revision =< r
    BY <1>2, <1>4, TimesOfPast
  <2> QED BY <1>2, <2>1, <2>2 DEF Chain
<1>6. ASSUME NEW o \in Past!Objects, NEW t \in rows[o], t.revision = r
      PROVE  /\ t = Past!Last(rows[o]) /\ Past!RowOf(o, r) = {t} /\ o \in Past!Latest(r)
  <2>1. \A u \in rows[o] : u.from =< t.from
    BY <1>5, <1>6
  <2>2. t = Past!Last(rows[o])
    BY <1>2, <2>1, LastIsLatest DEF Chain
  <2>3. \A u \in rows[o] : u.revision = r => u = t
    BY <1>2, <1>5, <1>6 DEF Chain
  <2>4. Past!RowOf(o, r) = {t}
    BY <1>6, <2>3 DEF Past!RowOf
  <2>5. t.until = Past!Never
    BY <1>2, <2>2, ChainEnds
  <2>6. current[o] = [revision |-> r, value |-> t.value] /\ current[o] # None
    BY <1>2, <1>6, <2>5 DEF Current
  <2> QED BY <2>2, <2>4, <2>6 DEF Past!Latest, Past!Existing
<1>7. ASSUME NEW o \in Past!Latest(r)
      PROVE  o \in Past!Objects /\ \E t \in rows[o] : t.revision = r
  BY DEF Past!Latest, Past!Existing, Past!RowOf
<1>8. ASSUME NEW o \in Past!Latest(r)
      PROVE  o \in Past!Only(r) <=> \A u \in rows[o] : u.revision = r
  <2>1. PICK t \in rows[o] : t.revision = r
    BY <1>7
  <2>2. \A S : Past!Cardinality(S) = Cardinality(S)
    BY DEF Past!Cardinality, Cardinality
  <2>3. Cardinality(rows[o]) = 1 <=> \E x : rows[o] = {x}
    BY <1>2, <1>7, FS_Singleton DEF Chain
  <2>4. (\E x : rows[o] = {x}) <=> rows[o] = {t}
    OBVIOUS
  <2>5. rows[o] = {t} <=> \A u \in rows[o] : u.revision = r
    BY <1>2, <1>5, <1>7, <2>1 DEF Chain
  <2> QED BY <2>2, <2>3, <2>4, <2>5 DEF Past!Only
<1>9. ASSUME NEW o \in Past!Latest(r), o \notin Past!Only(r), Dataset \notin Past!Only(r)
      PROVE  GoneBack(o, r)
  <2>1. PICK l \in rows[o] : l.revision = r
    BY <1>7
  <2>2. l = Past!Last(rows[o]) /\ Past!RowOf(o, r) = {l} /\ o \in Past!Objects
    BY <1>6, <1>7, <2>1
  <2>3. rows[o] # {} /\ rows[o] \ {l} # {}
    BY <1>8, <1>9, <2>1
  <2>4. Past!Second(o) = Past!Last(rows[o] \ {l})
    BY <2>2 DEF Past!Second
  <2>5. o \notin dead
    BY <1>9 DEF dead
  <2>6. current'[o] = [revision |-> Past!Second(o).revision, value |-> Past!Second(o).value]
    BY <1>1, <2>2, <2>5
  <2>7. rows'[o] = {IF u = Past!Second(o) THEN [u EXCEPT !.until = Past!Never] ELSE u :
                      u \in rows[o] \ {l}}
    BY <1>1, <2>2, <2>5 DEF Past!Reverted
  <2>8. Past!Second(o) \in rows[o] \ {l}
    <3>1. \A u \in rows[o] : u.from =< l.from
      BY <1>5, <2>1, <2>2
    <3> QED BY <1>2, <2>2, <2>3, <2>4, <3>1, BeforeLast
  <2> DEFINE m == Past!Second(o)
  <2>9. /\ m \in rows[o] \ {l} /\ m = Past!Last(rows[o] \ {l})
        /\ rows'[o] = {IF u = m THEN [u EXCEPT !.until = Past!Never] ELSE u : u \in rows[o] \ {l}}
        /\ current'[o] = [revision |-> m.revision, value |-> m.value]
    BY <2>4, <2>6, <2>7, <2>8
  <2> HIDE DEF m
  <2> QED BY <2>1, <2>2, <2>9, Zenon DEF GoneBack
<1>10. ASSUME NEW o \in Past!Objects, o \notin Past!Latest(r), Dataset \notin Past!Only(r)
       PROVE  Untouched(o, r)
  <2>1. \A t \in rows[o] : t.revision # r
    BY <1>6, <1>10
  <2>2. Past!RowOf(o, r) = {}
    BY <2>1 DEF Past!RowOf
  <2>3. o \notin dead
    BY <1>10 DEF dead, Past!Only
  <2>4. rows'[o] = rows[o]
    BY <1>1, <1>10, <2>2, <2>3 DEF Past!Reverted
  <2>5. current'[o] = current[o]
    BY <1>1, <1>10, <2>3
  <2>6. \A t \in rows[o] : t.revision < r
    BY <1>2, <1>4, <1>5, <2>1, TimesOfPast
  <2> QED BY <2>4, <2>5, <2>6 DEF Untouched
<1>11. CASE Dataset \in Past!Only(r)
  <2>1. \A u \in rows[Dataset] : u.revision = r
    BY <1>8, <1>11 DEF Past!Only
  <2>2. \A o \in Past!Objects : rows'[o] = {} /\ current'[o] = None
    BY <1>1, <1>11 DEF dead
  <2>3. \A o \in Past!Objects : Unmade(o, r)
    BY <1>2, <2>1, <2>2 DEF Unmade, WithPackage
  <2> QED BY <1>4, <2>3
<1>12. CASE Dataset \notin Past!Only(r)
  <2>1. Dataset \in Past!Latest(r)
    BY <1>2, <1>4, <1>6
  <2>2. GoneBack(Dataset, r)
    BY <1>9, <1>12, <2>1
  <2>3. ASSUME NEW o \in Past!Only(r) PROVE Unmade(o, r)
    <3>1. o \in Past!Latest(r)
      BY DEF Past!Only
    <3>2. o \in Past!Objects /\ \A u \in rows[o] : u.revision = r
      BY <1>7, <1>8, <3>1
    <3>3. o \in dead
      BY <1>12 DEF dead
    <3> QED BY <1>1, <3>2, <3>3 DEF Unmade
  <2>4. ASSUME NEW o \in Past!Objects
        PROVE  Unmade(o, r) \/ GoneBack(o, r) \/ Untouched(o, r)
    BY <1>9, <1>10, <1>12, <2>3
  <2> QED BY <1>4, <2>2, <2>4
<1> QED BY <1>11, <1>12

\* What the rows of an object are after it went back from the row l to the row t.
BackFrom(o, r, l, t) ==
    /\ l.revision = r /\ l.from = r /\ t.until = r /\ t.from = t.revision
    /\ \A s \in rows[o] \ {l} : s.from < r /\ s.until =< r /\ s.from =< t.from
    /\ rows'[o] \subseteq Past!Row /\ Chain(rows'[o])
    /\ \A x \in rows'[o] : \E s \in rows[o] \ {l} :
         /\ x.revision = s.revision /\ x.value = s.value /\ x.from = s.from
         /\ x.until = IF s = t THEN Past!Never ELSE s.until
    /\ \A s \in rows[o] \ {l} : \E x \in rows'[o] :
         /\ x.revision = s.revision /\ x.value = s.value /\ x.from = s.from
         /\ x.until = IF s = t THEN Past!Never ELSE s.until
    /\ current'[o] = [revision |-> t.revision, value |-> t.value]

LEMMA BackRows ==
    ASSUME PastInv, Past!Ordered, NEW r \in Past!Times, NEW o \in Past!Objects, GoneBack(o, r)
    PROVE  \E l \in rows[o] : \E t \in rows[o] \ {l} : BackFrom(o, r, l, t)
<1>1. PICK l \in rows[o] : \E t \in rows[o] \ {l} :
        /\ l.revision = r /\ l = Past!Last(rows[o]) /\ t = Past!Last(rows[o] \ {l})
        /\ rows'[o] = {IF s = t THEN [s EXCEPT !.until = Past!Never] ELSE s : s \in rows[o] \ {l}}
        /\ current'[o] = [revision |-> t.revision, value |-> t.value]
  BY DEF GoneBack
<1>2. PICK t \in rows[o] \ {l} :
        /\ l.revision = r /\ l = Past!Last(rows[o]) /\ t = Past!Last(rows[o] \ {l})
        /\ rows'[o] = {IF s = t THEN [s EXCEPT !.until = Past!Never] ELSE s : s \in rows[o] \ {l}}
        /\ current'[o] = [revision |-> t.revision, value |-> t.value]
  BY <1>1
<1>3. rows[o] \in SUBSET Past!Row /\ Chain(rows[o])
  BY DEF PastInv, PastTyped, PastChained
<1>4. l.from = r /\ t.from = t.revision
  BY <1>2, <1>3 DEF Chain
<1>5. \A s \in rows[o] : s.from =< l.from
  BY <1>2, <1>3, ChainEnds
<1>6. /\ \A s \in rows[o] \ {l} : s.from < r /\ s.until =< r /\ s.from =< t.from
      /\ t.until = r
  BY <1>2, <1>3, <1>4, <1>5, BeforeLast
<1> DEFINE m == Past!Last(rows[o] \ {l})
           T == {IF s = m THEN [s EXCEPT !.until = Past!Never] ELSE s : s \in rows[o] \ {l}}
<1>7. /\ T \subseteq Past!Row /\ Chain(T)
      /\ \A x \in T : \E s \in rows[o] \ {l} :
           /\ x.revision = s.revision /\ x.value = s.value /\ x.from = s.from
           /\ x.until = IF s = m THEN Past!Never ELSE s.until
      /\ \A s \in rows[o] \ {l} : \E x \in T :
           /\ x.revision = s.revision /\ x.value = s.value /\ x.from = s.from
           /\ x.until = IF s = m THEN Past!Never ELSE s.until
  BY <1>3, <1>5, ChainBack
<1>8. m = t /\ rows'[o] = T
  BY <1>2
<1> HIDE DEF m, T
<1>9. /\ rows'[o] \subseteq Past!Row /\ Chain(rows'[o])
      /\ \A x \in rows'[o] : \E s \in rows[o] \ {l} :
           /\ x.revision = s.revision /\ x.value = s.value /\ x.from = s.from
           /\ x.until = IF s = t THEN Past!Never ELSE s.until
      /\ \A s \in rows[o] \ {l} : \E x \in rows'[o] :
           /\ x.revision = s.revision /\ x.value = s.value /\ x.from = s.from
           /\ x.until = IF s = t THEN Past!Never ELSE s.until
  BY <1>7, <1>8
<1>10. /\ l.revision = r /\ l.from = r /\ t.until = r /\ t.from = t.revision
       /\ \A s \in rows[o] \ {l} : s.from < r /\ s.until =< r /\ s.from =< t.from
       /\ current'[o] = [revision |-> t.revision, value |-> t.value]
  BY <1>2, <1>4, <1>6
<1>11. BackFrom(o, r, l, t)
  BY <1>9, <1>10, Zenon DEF BackFrom
<1> QED BY <1>11

LEMMA PurgeOfPastKeeps ==
    ASSUME PastInv, NEW r \in revisions, NEW leave \in BOOLEAN, Past!PurgeRevision(r, leave)
    PROVE  PastInv'
<1>1. /\ UNCHANGED <<now, savePc, saveReq, saveCrossed>>
      /\ holes' = IF \E s \in rows[Dataset] : s.revision > r THEN holes \cup {r} ELSE holes
      /\ rows' = [o \in Past!Objects |->
                    IF o \in (IF Dataset \in Past!Only(r) THEN Past!Objects ELSE Past!Only(r))
                    THEN {} ELSE Past!Reverted(o, r)]
      /\ DOMAIN current' = Past!Objects
  BY DEF Past!PurgeRevision
<1>2. \A o \in Past!Objects : Past!Reverted(o, r) \subseteq Past!Row
                              /\ \A x \in Past!Reverted(o, r) : \E s \in rows[o] : x.revision = s.revision
  <2> SUFFICES ASSUME NEW o \in Past!Objects, NEW x \in Past!Reverted(o, r)
               PROVE  x \in Past!Row /\ \E s \in rows[o] : x.revision = s.revision
    OBVIOUS
  <2>1. PICK s \in rows[o] : x = IF o \in Past!Latest(r) /\ s = Past!Second(o)
                                 THEN [s EXCEPT !.until = Past!Never] ELSE s
    BY DEF Past!Reverted
  <2>2. s \in Past!Row
    BY DEF PastInv, PastTyped
  <2> QED BY <2>1, <2>2 DEF Past!Row
<1>3. /\ rows' \in [Past!Objects -> SUBSET Past!Row]
      /\ \A o \in Past!Objects : \A x \in rows'[o] : \E s \in rows[o] : x.revision = s.revision
  BY <1>1, <1>2
<1>4. PastTyped'
  BY <1>1, <1>3 DEF PastInv, PastTyped
<1>5. RevisionsApart'
  BY <1>1, <1>3 DEF PastInv, RevisionsApart
<1>6. ASSUME Past!Ordered', NEW o \in Past!Objects
      PROVE  (Chain(rows[o]) /\ Current(o) /\ WithPackage(o))'
  <2>1. Past!Ordered /\ \A s \in rows[Dataset] : ~ (s.revision > r)
    BY <1>1, <1>6 DEF Past!Ordered
  <2>2. /\ \/ \A p \in Past!Objects : Unmade(p, r)
           \/ /\ GoneBack(Dataset, r)
              /\ \A p \in Past!Objects : Unmade(p, r) \/ GoneBack(p, r) \/ Untouched(p, r)
        /\ r \in Past!Times /\ Dataset \in Past!Objects
    BY <2>1, PurgeOfLast, TimesOfPast
  <2>3. \A p \in Past!Objects : Chain(rows[p]) /\ Current(p) /\ WithPackage(p)
    BY <2>1 DEF PastInv, PastChained
  <2>4. ASSUME Unmade(o, r) PROVE (Chain(rows[o]) /\ Current(o) /\ WithPackage(o))'
    <3>1. Chain({})
      BY FS_EmptySet DEF Chain
    <3> QED BY <2>4, <3>1 DEF Unmade, Current, WithPackage
  <2>5. ASSUME GoneBack(Dataset, r) PROVE WithPackage(o)' \/ Unmade(o, r)
    <3>1. PICK k \in rows[Dataset] : \E t \in rows[Dataset] \ {k} : BackFrom(Dataset, r, k, t)
      BY <2>1, <2>2, <2>5, BackRows
    <3>2. \A s \in rows[o] : s.revision # r => \E x \in rows'[Dataset] : x.revision = s.revision
      <4> SUFFICES ASSUME NEW s \in rows[o], s.revision # r
                   PROVE  \E x \in rows'[Dataset] : x.revision = s.revision
        OBVIOUS
      <4>1. PICK u \in rows[Dataset] : u.revision = s.revision
        BY <2>3 DEF WithPackage
      <4> QED BY <3>1, <4>1 DEF BackFrom
    <3>3. CASE GoneBack(o, r)
      <4>1. \A x \in rows'[o] : \E s \in rows[o] : x.revision = s.revision /\ s.revision # r
        <5>1. PICK l \in rows[o] : \E t \in rows[o] \ {l} : BackFrom(o, r, l, t)
          BY <2>1, <2>2, <3>3, BackRows
        <5>2. \A s \in rows[o] \ {l} : s.revision # r
          BY <2>3, <5>1 DEF Chain, BackFrom
        <5> QED BY <5>1, <5>2 DEF BackFrom
      <4> QED BY <3>2, <4>1 DEF WithPackage
    <3>4. CASE Untouched(o, r)
      <4>1. \A s \in rows[o] : s.revision # r
        BY <2>2, <3>4, TimesOfPast DEF Untouched, PastInv, PastTyped
      <4> QED BY <3>2, <3>4, <4>1 DEF WithPackage, Untouched
    <3> QED BY <2>2, <2>5, <3>3, <3>4
  <2>6. ASSUME GoneBack(o, r) PROVE Chain(rows[o])' /\ Current(o)'
    <3>1. PICK l \in rows[o] : \E t \in rows[o] \ {l} : BackFrom(o, r, l, t)
      BY <2>1, <2>2, <2>6, BackRows
    <3>2. PICK t \in rows[o] \ {l} : BackFrom(o, r, l, t)
      BY <3>1
    <3>3. \A s \in rows[o] \ {l} : s.until # Past!Never
      BY <2>2, <3>2, TimesOfPast DEF PastInv, PastTyped, BackFrom
    <3>4. \A x \in rows'[o] : x.until = Past!Never => x.revision = t.revision /\ x.value = t.value
      BY <3>2, <3>3 DEF BackFrom
    <3>5. current'[o] # None /\ rows'[o] # {}
      <4>1. t \in Past!Row
        BY DEF PastInv, PastTyped
      <4>2. [revision |-> t.revision, value |-> t.value] \in [revision : 1 .. MaxRevised, value : Values]
        BY <4>1, TimesOfPast
      <4> QED BY <3>2, <4>2, RevisionsAssumption DEF BackFrom
    <3> QED BY <3>2, <3>4, <3>5 DEF Current, BackFrom
  <2>7. ASSUME Untouched(o, r) PROVE Chain(rows[o])' /\ Current(o)'
    BY <2>3, <2>7 DEF Untouched, Current
  <2> QED BY <2>2, <2>4, <2>5, <2>6, <2>7
<1>7. PastChained'
  BY <1>6 DEF PastChained
<1> QED BY <1>4, <1>5, <1>7 DEF PastInv

LEMMA PurgePackageKeeps == ASSUME PastInv, Past!PurgePackage PROVE PastInv'
<1>1. /\ UNCHANGED <<now, savePc, saveReq, saveCrossed, holes>>
      /\ rows' = [o \in Past!Objects |-> {}] /\ current' = [o \in Past!Objects |-> None]
  BY DEF Past!PurgePackage
<1>2. Chain({})
  BY FS_EmptySet DEF Chain
<1>3. PastTyped'
  BY <1>1 DEF PastInv, PastTyped
<1>4. RevisionsApart' /\ PastChained'
  BY <1>1, <1>2 DEF PastInv, RevisionsApart, PastChained, Current, WithPackage
<1> QED BY <1>3, <1>4 DEF PastInv

LEMMA PastStep == PastInv /\ [Past!Next]_Past!vars => PastInv'
<1> SUFFICES ASSUME PastInv, [Past!Next]_Past!vars PROVE PastInv'
  OBVIOUS
<1>1. ASSUME UNCHANGED Past!vars PROVE PastInv'
  BY <1>1 DEF Past!vars, PastInv, PastTyped, RevisionsApart, PastChained, Past!Ordered, Current,
              WithPackage
<1>2. ASSUME NEW w \in Workers, Past!StartSave(w) \/ Past!Commit(w) \/ Past!Abort(w) PROVE PastInv'
  BY <1>2, StartSaveKeeps, CommitOfPastKeeps, AbortKeeps
<1>3. ASSUME NEW r \in revisions, NEW leave \in BOOLEAN, Past!PurgeRevision(r, leave) PROVE PastInv'
  BY <1>3, PurgeOfPastKeeps
<1>4. ASSUME Past!PurgePackage PROVE PastInv'
  BY <1>4, PurgePackageKeeps
<1> QED BY <1>1, <1>2, <1>3, <1>4 DEF Past!Next

-----------------------------------------------------------------------------
\* What is shown of the rows R at a date.
RowsAt(S, d) == {s \in S : s.from =< d /\ d < s.until}
Version(R, d) ==
    IF RowsAt(R[Dataset], d) = {} THEN [found |-> FALSE, objects |-> {}]
    ELSE [found |-> TRUE,
          objects |-> UNION {{<<o, s.value>> : s \in RowsAt(R[o], d)} : o \in Past!Objects}]

LEMMA VersionShown ==
    ASSUME NEW d
    PROVE  /\ Past!Dictized(d) = Version(rows, d) /\ Past!Dictized(d)' = Version(rows', d)
           /\ \A o : Past!At(o, d) = RowsAt(rows[o], d)
BY DEF Past!Dictized, Past!At, Version, RowsAt

\* The contents of an object in a set of rows.
ContentsIn(S) == {s.value : s \in S}

LEMMA SameVersion ==
    ASSUME NEW R, NEW Q, NEW d, NEW e, Dataset \in Past!Objects,
           \A o \in Past!Objects :
             ContentsIn(RowsAt(R[o], d)) = ContentsIn(RowsAt(Q[o], e))
    PROVE  Version(R, d) = Version(Q, e)
<1>1. RowsAt(R[Dataset], d) = {} <=> RowsAt(Q[Dataset], e) = {}
  <2> DEFINE A == RowsAt(R[Dataset], d)
             B == RowsAt(Q[Dataset], e)
  <2>1. ContentsIn(A) = ContentsIn(B)
    OBVIOUS
  <2> HIDE DEF A, B
  <2>2. ASSUME NEW S PROVE S = {} <=> ContentsIn(S) = {}
    <3>1. \A s \in S : s.value \in ContentsIn(S)
      BY DEF ContentsIn
    <3>2. \A v \in ContentsIn(S) : \E s \in S : v = s.value
      BY DEF ContentsIn
    <3> QED BY <3>1, <3>2
  <2> QED BY <2>1, <2>2 DEF A, B
<1>2. \A o \in Past!Objects :
        {<<o, s.value>> : s \in RowsAt(R[o], d)} = {<<o, s.value>> : s \in RowsAt(Q[o], e)}
  <2> SUFFICES ASSUME NEW o \in Past!Objects
               PROVE  {<<o, s.value>> : s \in RowsAt(R[o], d)} = {<<o, s.value>> : s \in RowsAt(Q[o], e)}
    OBVIOUS
  <2> DEFINE A == RowsAt(R[o], d)
             B == RowsAt(Q[o], e)
  <2>1. ContentsIn(A) = ContentsIn(B)
    OBVIOUS
  <2> HIDE DEF A, B
  <2>2. (\A s \in A : \E t \in B : t.value = s.value) /\ \A s \in B : \E t \in A : t.value = s.value
    <3>1. \A s \in A : s.value \in ContentsIn(B)
      BY <2>1 DEF ContentsIn
    <3>2. \A s \in B : s.value \in ContentsIn(A)
      BY <2>1 DEF ContentsIn
    <3> QED BY <3>1, <3>2 DEF ContentsIn
  <2>3. {<<o, s.value>> : s \in A} = {<<o, s.value>> : s \in B}
    BY <2>2
  <2> QED BY <2>3 DEF A, B
<1> DEFINE F(o) == {<<o, s.value>> : s \in RowsAt(R[o], d)}
           G(o) == {<<o, s.value>> : s \in RowsAt(Q[o], e)}
<1>3. UNION {F(o) : o \in Past!Objects} = UNION {G(o) : o \in Past!Objects}
  <2>1. \A o \in Past!Objects : F(o) = G(o)
    BY <1>2
  <2> HIDE DEF F, G
  <2> QED BY <2>1
<1> QED BY <1>1, <1>3 DEF Version

\* A commit leaves what is shown at a date before its revision.
LEMMA PastStaysStep ==
    ASSUME PastInv, NEW w \in Workers, Past!Commit(w), NEW d \in Past!Times,
           d < saveReq[w].revision
    PROVE  Past!Dictized(d)' = Past!Dictized(d)
<1> DEFINE q == saveReq[w]
<1>1. /\ q.revision \in Past!Times
      /\ \A o \in Past!Objects \cap DOMAIN q.change :
           rows'[o] = Past!Revised(rows[o], q.revision, q.change[o])
      /\ \A o \in Past!Objects \ DOMAIN q.change : rows'[o] = rows[o]
  BY CommitOfPast
<1>2. d < q.revision
  OBVIOUS
<1> HIDE DEF q
<1>3. \A o \in Past!Objects : ContentsIn(RowsAt(rows'[o], d)) = ContentsIn(RowsAt(rows[o], d))
  <2> SUFFICES ASSUME NEW o \in Past!Objects
               PROVE  ContentsIn(RowsAt(rows'[o], d)) = ContentsIn(RowsAt(rows[o], d))
    OBVIOUS
  <2>1. CASE o \in DOMAIN q.change
    <3> DEFINE S == rows[o]
               r == q.revision
               x == q.change[o]
               e(s) == [s EXCEPT !.until = IF @ = Past!Never THEN r ELSE @]
               l == [revision |-> r, value |-> x, from |-> r, until |-> Past!Never]
    <3>1. rows'[o] = {e(s) : s \in S} \cup {l}
      BY <1>1, <2>1 DEF Past!Revised
    <3>2. S \subseteq Past!Row /\ r \in Past!Times /\ d < r
      BY <1>1, <1>2 DEF PastInv, PastTyped
    <3>3. l.from = r
      OBVIOUS
    <3>4. \A s \in S : /\ e(s).from = s.from /\ e(s).value = s.value
                       /\ e(s).until = IF s.until = Past!Never THEN r ELSE s.until
      BY <3>2 DEF Past!Row
    <3> HIDE DEF S, r, x, e, l
    <3>5. \A s \in S : d < e(s).until <=> d < s.until
      BY <3>2, <3>4, TimesOfPast
    <3>6. \A s \in S : e(s) \in RowsAt(rows'[o], d) <=> s \in RowsAt(S, d)
      BY <3>1, <3>4, <3>5 DEF RowsAt
    <3>7. l \notin RowsAt(rows'[o], d)
      BY <3>2, <3>3, TimesOfPast DEF RowsAt
    <3>8. \A v : v \in ContentsIn(RowsAt(rows'[o], d)) <=> v \in ContentsIn(RowsAt(S, d))
      <4>1. \A s \in RowsAt(rows'[o], d) : \E u \in RowsAt(S, d) : u.value = s.value
        BY <3>1, <3>4, <3>6, <3>7 DEF RowsAt
      <4>2. \A u \in RowsAt(S, d) : \E s \in RowsAt(rows'[o], d) : u.value = s.value
        <5>1. \A u \in RowsAt(S, d) : u \in S
          BY DEF RowsAt
        <5> QED BY <3>4, <3>6, <5>1
      <4> QED BY <4>1, <4>2 DEF ContentsIn
    <3>9. ContentsIn(RowsAt(rows'[o], d)) = ContentsIn(RowsAt(S, d))
      BY <3>8
    <3> QED BY <3>9 DEF S
  <2>2. CASE o \notin DOMAIN q.change
    BY <1>1, <2>2
  <2> QED BY <2>1, <2>2
<1>4. Version(rows', d) = Version(rows, d)
  BY <1>3, SameVersion, TimesOfPast
<1> QED BY <1>4, VersionShown

\* The purge of the last revision shows the version before from now on, and leaves those before.
LEMMA PurgeGoesBackStep ==
    ASSUME PastInv, NEW r \in revisions, NEW leave \in BOOLEAN, Past!PurgeRevision(r, leave),
           Past!Ordered, r = Past!Last(rows[Dataset]).revision
    PROVE  /\ \A d \in 1 .. r - 1 : Past!Dictized(d)' = Past!Dictized(d)
           /\ Past!Dictized(MaxRevised)' = Past!Dictized(r - 1)
<1>1. Dataset \in Past!Objects /\ \A o \in Past!Objects : /\ rows[o] \in SUBSET Past!Row
                                   /\ Chain(rows[o]) /\ WithPackage(o)
  BY TimesOfPast DEF PastInv, PastTyped, PastChained
<1>2. rows[Dataset] # {}
  <2>1. PICK o \in Past!Objects : Past!RowOf(o, r) # {}
    BY DEF Past!PurgeRevision
  <2> QED BY <1>1, <2>1 DEF Past!RowOf, WithPackage
<1>3. \A s \in rows[Dataset] : ~ (s.revision > r)
  <2> DEFINE l == Past!Last(rows[Dataset])
  <2>1. l \in rows[Dataset] /\ \A s \in rows[Dataset] : s.from =< l.from
    BY <1>1, <1>2, ChainEnds
  <2>2. r = l.revision
    OBVIOUS
  <2> HIDE DEF l
  <2>3. \A s \in rows[Dataset] : s.revision =< r /\ r \in Int /\ s.revision \in Int
    BY <1>1, <2>1, <2>2, TimesOfPast DEF Chain
  <2> QED BY <2>3
<1>4. /\ \A o \in Past!Objects : Unmade(o, r) \/ GoneBack(o, r) \/ Untouched(o, r)
      /\ r \in Past!Times
  BY <1>3, PurgeOfLast
<1>5. ASSUME NEW o \in Past!Objects
      PROVE  /\ \A d \in 1 .. r - 1 : ContentsIn(RowsAt(rows'[o], d)) = ContentsIn(RowsAt(rows[o], d))
             /\ ContentsIn(RowsAt(rows'[o], MaxRevised)) = ContentsIn(RowsAt(rows[o], r - 1))
  <2>1. \A s \in rows[o] : /\ s.from \in Past!Times /\ s.until \in Past!Times \cup {Past!Never}
                           /\ s.from = s.revision /\ s.from < s.until
    BY <1>1, TimesOfPast DEF Chain
  <2>2. ASSUME Unmade(o, r)
        PROVE  /\ \A d \in 1 .. r - 1 : RowsAt(rows'[o], d) = {} /\ RowsAt(rows[o], d) = {}
               /\ RowsAt(rows'[o], MaxRevised) = {} /\ RowsAt(rows[o], r - 1) = {}
    BY <1>4, <2>1, <2>2, TimesOfPast DEF Unmade, RowsAt
  <2>3. ASSUME Untouched(o, r)
        PROVE  rows'[o] = rows[o] /\ RowsAt(rows[o], MaxRevised) = RowsAt(rows[o], r - 1)
    <3>1. rows'[o] = rows[o] /\ \A s \in rows[o] : s.from < r
      BY <2>1, <2>3 DEF Untouched
    <3>2. \A s \in rows[o] : s.until # Past!Never => s.until < r
      <4> SUFFICES ASSUME NEW s \in rows[o], s.until # Past!Never, ~ s.until < r PROVE FALSE
        OBVIOUS
      <4>1. s.until \in Past!Times /\ s.from =< s.until
        BY <2>1, TimesOfPast
      <4>2. PICK t \in rows[o] : t.from =< s.until /\ s.until < t.until
        BY <1>1, <4>1 DEF Chain
      <4>3. t.from < r /\ r =< s.until /\ s # t
        BY <1>4, <2>1, <3>1, <4>1, <4>2, TimesOfPast
      <4>4. s.from < t.from \/ t.from < s.from
        BY <1>1, <2>1, <4>3, TimesOfPast DEF Chain
      <4>5. s.until =< t.from \/ t.until =< s.from
        BY <1>1, <4>4 DEF Chain
      <4> QED BY <1>4, <2>1, <4>1, <4>2, <4>3, <4>5, TimesOfPast
    <3>3. \A s \in rows[o] : (s.from =< MaxRevised /\ MaxRevised < s.until)
                               <=> (s.from =< r - 1 /\ r - 1 < s.until)
      BY <1>4, <2>1, <3>1, <3>2, TimesOfPast
    <3> QED BY <3>1, <3>3 DEF RowsAt
  <2>4. ASSUME GoneBack(o, r)
        PROVE  /\ \A d \in 1 .. r - 1 : ContentsIn(RowsAt(rows'[o], d)) = ContentsIn(RowsAt(rows[o], d))
               /\ ContentsIn(RowsAt(rows'[o], MaxRevised)) = ContentsIn(RowsAt(rows[o], r - 1))
    <3>1. PICK l \in rows[o] : \E t \in rows[o] \ {l} : BackFrom(o, r, l, t)
      BY <1>4, <2>4, BackRows
    <3>2. PICK t \in rows[o] \ {l} : BackFrom(o, r, l, t)
      BY <3>1
    <3>3. \A d \in 1 .. r - 1, s \in rows[o] :
            s.from =< d /\ d < s.until <=>
              s # l /\ s.from =< d /\ d < (IF s = t THEN Past!Never ELSE s.until)
      BY <1>4, <2>1, <3>2, TimesOfPast DEF BackFrom
    <3>4. \A s \in rows[o] \ {l} :
            (s.from =< MaxRevised /\ MaxRevised < (IF s = t THEN Past!Never ELSE s.until)) <=> s = t
      BY <1>4, <2>1, <3>2, TimesOfPast DEF BackFrom
    <3>5. \A s \in rows[o] : (s.from =< r - 1 /\ r - 1 < s.until) <=> s = t
      <4> SUFFICES ASSUME NEW s \in rows[o] PROVE (s.from =< r - 1 /\ r - 1 < s.until) <=> s = t
        OBVIOUS
      <4>1. s # l /\ s # t => s.from < t.from
        BY <1>1, <2>1, <3>2, TimesOfPast DEF BackFrom, Chain
      <4>2. s # l /\ s # t => s.until =< t.from
        BY <1>1, <4>1 DEF Chain
      <4> QED BY <1>4, <2>1, <3>2, <4>2, TimesOfPast DEF BackFrom
    <3>6. \A d : ContentsIn(RowsAt(rows'[o], d)) =
                   {s.value : s \in {u \in rows[o] \ {l} :
                       u.from =< d /\ d < (IF u = t THEN Past!Never ELSE u.until)}}
      <4> SUFFICES ASSUME NEW d
                   PROVE  ContentsIn(RowsAt(rows'[o], d)) =
                            {s.value : s \in {u \in rows[o] \ {l} :
                                u.from =< d /\ d < (IF u = t THEN Past!Never ELSE u.until)}}
        OBVIOUS
      <4> DEFINE B == {u \in rows[o] \ {l} :
                          u.from =< d /\ d < (IF u = t THEN Past!Never ELSE u.until)}
      <4>1. \A x \in RowsAt(rows'[o], d) : \E s \in B : s.value = x.value
        BY <3>2 DEF RowsAt, BackFrom
      <4>2. \A s \in B : \E x \in RowsAt(rows'[o], d) : s.value = x.value
        BY <3>2 DEF RowsAt, BackFrom
      <4> HIDE DEF B
      <4>3. \A v : v \in ContentsIn(RowsAt(rows'[o], d)) <=> v \in {s.value : s \in B}
        BY <4>1, <4>2 DEF ContentsIn
      <4>4. ContentsIn(RowsAt(rows'[o], d)) = {s.value : s \in B}
        BY <4>3
      <4> QED BY <4>4 DEF B
    <3>7. ASSUME NEW d \in 1 .. r - 1
          PROVE  ContentsIn(RowsAt(rows'[o], d)) = ContentsIn(RowsAt(rows[o], d))
      <4> DEFINE A == {u \in rows[o] \ {l} : u.from =< d /\ d < (IF u = t THEN Past!Never ELSE u.until)}
                 B == RowsAt(rows[o], d)
      <4>1. A = B
        BY <3>3 DEF RowsAt
      <4>2. ContentsIn(RowsAt(rows'[o], d)) = {s.value : s \in A}
        BY <3>6
      <4> HIDE DEF A, B
      <4>3. ContentsIn(RowsAt(rows'[o], d)) = ContentsIn(B)
        BY <4>1, <4>2 DEF ContentsIn
      <4> QED BY <4>3 DEF B
    <3>8. ContentsIn(RowsAt(rows'[o], MaxRevised)) = ContentsIn(RowsAt(rows[o], r - 1))
      <4> DEFINE A == {u \in rows[o] \ {l} : u.from =< MaxRevised
                                             /\ MaxRevised < (IF u = t THEN Past!Never ELSE u.until)}
                 B == RowsAt(rows[o], r - 1)
      <4>1. A = {t}
        BY <3>4
      <4>2. B = {t}
        BY <3>5 DEF RowsAt
      <4>3. ContentsIn(RowsAt(rows'[o], MaxRevised)) = {s.value : s \in A}
        BY <3>6
      <4> HIDE DEF A, B
      <4>4. ContentsIn(RowsAt(rows'[o], MaxRevised)) = ContentsIn(B)
        BY <4>1, <4>2, <4>3 DEF ContentsIn
      <4> QED BY <4>4 DEF B
    <3> QED BY <3>7, <3>8
  <2> QED BY <1>4, <2>2, <2>3, <2>4
<1>6. ASSUME NEW d \in 1 .. r - 1 PROVE Past!Dictized(d)' = Past!Dictized(d)
  <2>1. Version(rows', d) = Version(rows, d)
    BY <1>1, <1>5, SameVersion
  <2> QED BY <2>1, VersionShown
<1>7. Past!Dictized(MaxRevised)' = Past!Dictized(r - 1)
  <2>1. Version(rows', MaxRevised) = Version(rows, r - 1)
    BY <1>1, <1>5, SameVersion
  <2> QED BY <2>1, VersionShown
<1> QED BY <1>6, <1>7

\* At a date an object has one row or none, one from its first date on, and that is the last
\* of the rows that are not younger.
LEMMA OneRowAt ==
    ASSUME NEW S \in SUBSET Past!Row, Chain(S), NEW d \in Past!Times
    PROVE  /\ \A s, t \in RowsAt(S, d) : s = t
           /\ RowsAt(S, d) = {} <=> {s \in S : s.revision =< d} = {}
           /\ \A s \in RowsAt(S, d) : Past!Last({t \in S : t.revision =< d}) = s
<1> DEFINE B == {s \in S : s.revision =< d}
<1>1. \A s \in S : /\ s.from \in Past!Times /\ s.until \in Past!Times \cup {Past!Never}
                   /\ s.revision = s.from
  BY TimesOfPast DEF Chain
<1>2. ASSUME NEW s \in RowsAt(S, d), NEW t \in B PROVE t.from =< s.from
  <2>1. s \in S /\ d < s.until /\ t \in S /\ t.from =< d
    BY <1>1 DEF RowsAt
  <2>2. ~ s.from < t.from
    <3>1. s.from < t.from => s.until =< t.from
      BY <2>1 DEF Chain
    <3> QED BY <1>1, <2>1, <3>1, TimesOfPast
  <2> QED BY <1>1, <2>1, <2>2, TimesOfPast
<1>3. RowsAt(S, d) \subseteq B
  BY <1>1 DEF RowsAt
<1>4. \A s, t \in RowsAt(S, d) : s = t
  <2> SUFFICES ASSUME NEW s \in RowsAt(S, d), NEW t \in RowsAt(S, d) PROVE s = t
    OBVIOUS
  <2>1. t.from =< s.from /\ s.from =< t.from /\ s \in S /\ t \in S
    BY <1>2, <1>3
  <2>2. s.from = t.from
    BY <1>1, <2>1, TimesOfPast
  <2> QED BY <2>1, <2>2 DEF Chain
<1>5. RowsAt(S, d) = {} <=> B = {}
  <2>1. ASSUME NEW s \in B PROVE \E t \in S : t.from =< d /\ d < t.until
    BY <1>1 DEF Chain
  <2> QED BY <1>3, <2>1 DEF RowsAt
<1>6. ASSUME NEW s \in RowsAt(S, d) PROVE Past!Last(B) = s
  <2>1. B \in SUBSET Past!Row /\ s \in B /\ \A t \in B : t.from =< s.from
    BY <1>2, <1>3
  <2>2. \A x, y \in B : x.from = y.from => x = y
    BY DEF Chain
  <2> HIDE DEF B
  <2> QED BY <2>1, <2>2, LastIsLatest
<1> QED BY <1>4, <1>5, <1>6

\* What a version of a dataset that is found has.
LEMMA VersionHas ==
    ASSUME NEW d, Past!Dictized(d).found
    PROVE  /\ \A o, v : <<o, v>> \in Past!Dictized(d).objects
                           <=> o \in Past!Objects /\ v \in ContentsIn(RowsAt(rows[o], d))
           /\ \A x \in Past!Dictized(d).objects :
                \E o \in Past!Objects : \E v \in ContentsIn(RowsAt(rows[o], d)) : x = <<o, v>>
<1>1. Past!Dictized(d) = Version(rows, d)
  BY VersionShown
<1>2. RowsAt(rows[Dataset], d) # {}
  BY <1>1 DEF Version
<1>3. Past!Dictized(d).objects
        = UNION {{<<o, s.value>> : s \in RowsAt(rows[o], d)} : o \in Past!Objects}
  BY <1>1, <1>2 DEF Version
<1> QED BY <1>3 DEF ContentsIn

LEMMA VersionsAreOne == PastInv => Past!OneVersion
<1> SUFFICES ASSUME PastInv, Past!Ordered, Dataset \in Past!Existing
             PROVE  /\ \A d \in Past!Created .. now : Past!Dictized(d).found
                    /\ \A d \in Past!Times, o \in Past!Objects : Past!Cardinality(Past!At(o, d)) =< 1
                    /\ Past!Dictized(MaxRevised).objects = {<<o, current[o].value>> : o \in Past!Existing}
                    /\ \A r \in Past!RevisionList : r =< current[Dataset].revision
                    /\ \A d, e \in Past!Created .. now : d < e =>
                         Past!Diff(d, e) = {o \in Past!Objects : \E v \in Values :
                           (<<o, v>> \in Past!Dictized(d).objects) # (<<o, v>> \in Past!Dictized(e).objects)}
  BY DEF Past!OneVersion
<1>1. Dataset \in Past!Objects /\ \A o \in Past!Objects : /\ rows[o] \in SUBSET Past!Row
                                   /\ Chain(rows[o]) /\ Current(o) /\ WithPackage(o)
  BY TimesOfPast DEF PastInv, PastTyped, PastChained
<1>2. rows[Dataset] # {} /\ now \in 0 .. MaxRevised
  BY <1>1 DEF Past!Existing, Current, PastInv, PastTyped
<1>3. PICK f \in rows[Dataset] : \A s \in rows[Dataset] : f.from =< s.from
  BY <1>1, <1>2 DEF Chain
<1>4. Past!Created = f.from /\ f.from \in Past!Times
  <2>1. f.from \in Past!Times
    BY <1>1, TimesOfPast
  <2>2. \A x \in Past!Times : (\E r \in rows[Dataset] : r.from = x /\ \A s \in rows[Dataset] : x =< s.from)
                                 <=> x = f.from
    <3> SUFFICES ASSUME NEW x \in Past!Times, NEW r \in rows[Dataset], r.from = x,
                        \A s \in rows[Dataset] : x =< s.from
                 PROVE  x = f.from
      BY <1>3
    <3>1. x =< f.from /\ f.from =< x
      BY <1>3
    <3> QED BY <2>1, <3>1, TimesOfPast
  <2> QED BY <2>1, <2>2 DEF Past!Created
<1>5. ASSUME NEW d \in Past!Times, f.from =< d PROVE Past!Dictized(d).found
  <2>1. \E s \in rows[Dataset] : s.from =< d /\ d < s.until
    BY <1>1, <1>5 DEF Chain
  <2>2. RowsAt(rows[Dataset], d) # {}
    BY <2>1 DEF RowsAt
  <2> QED BY <2>2, VersionShown DEF Version
<1>6. \A d \in Past!Created .. now : d \in Past!Times /\ f.from =< d /\ d =< MaxRevised
  BY <1>2, <1>4, TimesOfPast
<1>7. ASSUME NEW d \in Past!Times, NEW o \in Past!Objects
      PROVE  Past!Cardinality(Past!At(o, d)) =< 1
  <2>1. \A S : Past!Cardinality(S) = Cardinality(S)
    BY DEF Past!Cardinality, Cardinality
  <2>2. \A s, t \in Past!At(o, d) : s = t
    <3>1. \A s, t \in RowsAt(rows[o], d) : s = t
      BY <1>1, OneRowAt
    <3> QED BY <3>1, VersionShown
  <2>3. CASE Past!At(o, d) = {}
    BY <2>1, <2>3, FS_EmptySet
  <2>4. CASE Past!At(o, d) # {}
    <3>1. PICK s \in Past!At(o, d) : TRUE
      BY <2>4
    <3>2. Past!At(o, d) = {s}
      BY <2>2
    <3> QED BY <2>1, <3>2, FS_Singleton
  <2> QED BY <2>3, <2>4
<1>8. Past!Dictized(MaxRevised).objects = {<<o, current[o].value>> : o \in Past!Existing}
  <2>1. MaxRevised \in Past!Times /\ f.from =< MaxRevised
    BY <1>4, TimesOfPast
  <2>2. /\ \A o, v : <<o, v>> \in Past!Dictized(MaxRevised).objects
                       <=> o \in Past!Objects /\ v \in ContentsIn(RowsAt(rows[o], MaxRevised))
        /\ \A x \in Past!Dictized(MaxRevised).objects :
             \E o \in Past!Objects : \E v \in ContentsIn(RowsAt(rows[o], MaxRevised)) : x = <<o, v>>
    BY <1>5, <2>1, VersionHas
  <2>3. ASSUME NEW o \in Past!Objects
        PROVE  ContentsIn(RowsAt(rows[o], MaxRevised))
                 = IF o \in Past!Existing THEN {current[o].value} ELSE {}
    <3>1. CASE rows[o] = {}
      BY <1>1, <3>1 DEF RowsAt, ContentsIn, Current, Past!Existing
    <3>2. CASE rows[o] # {}
      <4> DEFINE l == Past!Last(rows[o])
      <4>1. l \in rows[o] /\ l.until = Past!Never /\ \A t \in rows[o] : t.until = Past!Never => t = l
        BY <1>1, <3>2, ChainEnds
      <4> HIDE DEF l
      <4>2. o \in Past!Existing /\ current[o].value = l.value
        <5>1. current[o] # None /\ current[o] = [revision |-> l.revision, value |-> l.value]
          BY <1>1, <3>2, <4>1 DEF Current
        <5> QED BY <5>1 DEF Past!Existing
      <4>3. RowsAt(rows[o], MaxRevised) = {l}
        <5>1. \A t \in rows[o] : t.from =< MaxRevised /\ (MaxRevised < t.until <=> t.until = Past!Never)
          BY <1>1, TimesOfPast
        <5> QED BY <4>1, <5>1 DEF RowsAt
      <4> QED BY <4>2, <4>3 DEF ContentsIn
    <3> QED BY <3>1, <3>2
  <2>4. Past!Existing \subseteq Past!Objects
    BY DEF Past!Existing
  <2>5. \A x \in Past!Dictized(MaxRevised).objects : \E o \in Past!Existing : x = <<o, current[o].value>>
    <3> SUFFICES ASSUME NEW x \in Past!Dictized(MaxRevised).objects
                 PROVE  \E o \in Past!Existing : x = <<o, current[o].value>>
      OBVIOUS
    <3>1. PICK o \in Past!Objects : \E v \in ContentsIn(RowsAt(rows[o], MaxRevised)) : x = <<o, v>>
      BY <2>2
    <3>2. o \in Past!Existing /\ \A v \in ContentsIn(RowsAt(rows[o], MaxRevised)) : v = current[o].value
      BY <2>3, <3>1
    <3> QED BY <3>1, <3>2
  <2>6. \A o \in Past!Existing : <<o, current[o].value>> \in Past!Dictized(MaxRevised).objects
    BY <2>2, <2>3, <2>4
  <2> QED BY <2>5, <2>6
<1>9. ASSUME NEW r \in Past!RevisionList PROVE r =< current[Dataset].revision
  <2>1. PICK o \in Past!Objects : Past!RowOf(o, r) # {}
    BY DEF Past!RevisionList, Past!RelatedTo
  <2>2. PICK s \in rows[Dataset] : s.revision = r
    BY <1>1, <2>1 DEF Past!RowOf, WithPackage
  <2> DEFINE l == Past!Last(rows[Dataset])
  <2>3. l \in rows[Dataset] /\ l.until = Past!Never /\ s.from =< l.from
    BY <1>1, <1>2, ChainEnds
  <2> HIDE DEF l
  <2>4. current[Dataset] = [revision |-> l.revision, value |-> l.value]
    BY <1>1, <2>3 DEF Current
  <2>5. l.from = l.revision /\ s.from = s.revision
    BY <1>1, <2>3 DEF Chain
  <2> QED BY <2>2, <2>3, <2>4, <2>5
<1>10. ASSUME NEW d \in Past!Times, NEW e \in Past!Times, f.from =< d, f.from =< e
       PROVE  Past!Diff(d, e) = {o \in Past!Objects : \E v \in Values :
                (<<o, v>> \in Past!Dictized(d).objects) # (<<o, v>> \in Past!Dictized(e).objects)}
  <2>1. ASSUME NEW o \in Past!Objects, NEW x \in Past!Times
        PROVE  \/ Past!LastRow(o, x) = None /\ ContentsIn(RowsAt(rows[o], x)) = {}
               \/ /\ Past!LastRow(o, x) \in Values
                  /\ ContentsIn(RowsAt(rows[o], x)) = {Past!LastRow(o, x)}
    <3> DEFINE before == {r \in rows[o] : r.revision =< x}
    <3>1. /\ \A s, t \in RowsAt(rows[o], x) : s = t
          /\ RowsAt(rows[o], x) = {} <=> before = {}
          /\ \A s \in RowsAt(rows[o], x) : Past!Last(before) = s
      BY <1>1, OneRowAt
    <3>2. Past!LastRow(o, x) = IF before = {} THEN None ELSE Past!Last(before).value
      BY DEF Past!LastRow
    <3> HIDE DEF before
    <3>3. CASE before = {}
      BY <3>1, <3>2, <3>3 DEF ContentsIn
    <3>4. CASE before # {}
      <4>1. PICK s \in RowsAt(rows[o], x) : TRUE
        BY <3>1, <3>4
      <4>2. Past!LastRow(o, x) = s.value /\ RowsAt(rows[o], x) = {s}
        BY <3>1, <3>2, <3>4
      <4>3. s.value \in Values
        BY <1>1, TimesOfPast DEF RowsAt
      <4>4. ContentsIn(RowsAt(rows[o], x)) = {s.value}
        BY <4>2 DEF ContentsIn
      <4> QED BY <4>2, <4>3, <4>4
    <3> QED BY <3>3, <3>4
  <2>2. None \notin Values
    BY RevisionsAssumption
  <2>3. \A o \in Past!Objects : \A v :
                                   /\ <<o, v>> \in Past!Dictized(d).objects
                                        <=> v \in ContentsIn(RowsAt(rows[o], d))
                                   /\ <<o, v>> \in Past!Dictized(e).objects
                                        <=> v \in ContentsIn(RowsAt(rows[o], e))
    BY <1>5, <1>10, VersionHas
  <2>4. ASSUME NEW o \in Past!Objects
        PROVE  Past!LastRow(o, d) # Past!LastRow(o, e) <=>
                 \E v \in Values :
                   (<<o, v>> \in Past!Dictized(d).objects) # (<<o, v>> \in Past!Dictized(e).objects)
    <3> DEFINE a == Past!LastRow(o, d)
               b == Past!LastRow(o, e)
               A == ContentsIn(RowsAt(rows[o], d))
               B == ContentsIn(RowsAt(rows[o], e))
    <3>1. (a = None /\ A = {}) \/ (a \in Values /\ A = {a})
      BY <2>1
    <3>2. (b = None /\ B = {}) \/ (b \in Values /\ B = {b})
      BY <2>1
    <3> HIDE DEF a, b, A, B
    <3>3. a # b <=> \E v \in Values : ~ (v \in A <=> v \in B)
      BY <2>2, <3>1, <3>2
    <3>4. \A v : /\ <<o, v>> \in Past!Dictized(d).objects <=> v \in A
                 /\ <<o, v>> \in Past!Dictized(e).objects <=> v \in B
      BY <2>3 DEF A, B
    <3>5. \A v : ((<<o, v>> \in Past!Dictized(d).objects) # (<<o, v>> \in Past!Dictized(e).objects))
                   <=> ~ (v \in A <=> v \in B)
      BY <3>4
    <3> QED BY <3>3, <3>5 DEF a, b
  <2> QED BY <2>4 DEF Past!Diff
<1> QED BY <1>4, <1>5, <1>6, <1>7, <1>8, <1>9, <1>10

\* From its creation on a dataset has one version for every date while revisions are committed
\* and purged in order, what it was at a date stays what it was once the requests that began
\* before have ended, and the purge of the last revision takes it one version back.
THEOREM HistoryStaysOne == SiteSpec => HistoryHolds
<1>1. PastInv => \A w \in Workers : Past!Commit(w) =>
        \A d \in Past!Times :
          (\A v \in Workers : savePc[v] = "commit" => d < saveReq[v].revision) =>
             Past!Dictized(d)' = Past!Dictized(d)
  <2> SUFFICES ASSUME PastInv, NEW w \in Workers, Past!Commit(w), NEW d \in Past!Times,
                      \A v \in Workers : savePc[v] = "commit" => d < saveReq[v].revision
               PROVE  Past!Dictized(d)' = Past!Dictized(d)
    OBVIOUS
  <2>1. savePc[w] = "commit"
    BY DEF Past!Commit
  <2> QED BY <2>1, PastStaysStep
<1>2. PastInv => \A r \in revisions, leave \in BOOLEAN :
        Past!PurgeRevision(r, leave) /\ Past!Ordered /\ r = Past!Last(rows[Dataset]).revision =>
          /\ \A d \in 1 .. r - 1 : Past!Dictized(d)' = Past!Dictized(d)
          /\ Past!Dictized(MaxRevised)' = Past!Dictized(r - 1)
  BY PurgeGoesBackStep
<1> QED BY <1>1, <1>2, PastInitially, PastStep, VersionsAreOne, SiteRunsPast, PTL
     DEF Past!Spec, HistoryHolds, Past!PastStays, Past!PurgeGoesBack

-----------------------------------------------------------------------------
(***************************************************************************)
(* Translations of terms.                                                  *)
(***************************************************************************)
LEMMA SiteRunsTerms == SiteSpec => Terms!Spec
<1>1. SiteInit => Terms!Init
  BY DEF SiteInit
<1>2. [SiteNext]_all => [Terms!Next]_Terms!vars
  BY DEF SiteNext, all, termVars, Terms!vars
<1> QED BY <1>1, <1>2, PTL DEF SiteSpec, Terms!Spec

TermEntry == [term : TermNames, lang : Langs, text : Texts]

TermsTyped ==
    /\ texts \in [Terms!Keys -> Seq(Texts)]
    /\ termPc \in [Workers -> {"idle", "update", "insert", "commit"}]
    /\ terms \in [Workers -> Seq(TermEntry)]
    /\ DOMAIN sets = Workers /\ DOMAIN adds = Workers /\ DOMAIN asked = Workers

\* The entries of s, of which the last for each term has the text that is asked for.
NamedIn(s, k) == \E i \in 1 .. Len(s) : Terms!Key(s[i]) = k
EndsAsAsked(s, wanted) ==
    \A i \in 1 .. Len(s) :
      /\ Terms!Key(s[i]) \in DOMAIN wanted
      /\ (\A j \in 1 .. Len(s) : Terms!Key(s[j]) = Terms!Key(s[i]) => j =< i) =>
           s[i].text = wanted[Terms!Key(s[i])]

\* A worker at a step, with the entries s to write, the updates u and the inserts n: the terms
\* that are not to be written any more have the last text asked for, and a term that has a row
\* was updated.
WorkerFits(step, s, wanted, u, n) ==
    /\ DOMAIN wanted \subseteq Terms!Keys /\ EndsAsAsked(s, wanted)
    /\ step \in {"update", "insert"} <=> s # <<>>
    /\ step = "idle" => DOMAIN wanted = {} /\ DOMAIN u = {} /\ DOMAIN n = {}
    /\ \A k \in DOMAIN u : k \in Terms!Keys /\ u[k].text \in Texts /\ u[k].count \in Nat
    /\ \A k \in DOMAIN n : k \in Terms!Keys /\ n[k] \in [1 .. 1 -> Texts]
    /\ step = "insert" => LET k == Terms!Key(Head(s))
                          IN  k \in DOMAIN u /\ k \notin DOMAIN n /\ u[k].text = Head(s).text
    /\ \A k \in DOMAIN wanted : ~ NamedIn(s, k) =>
         /\ k \in DOMAIN u /\ u[k].text = wanted[k]
         /\ k \in DOMAIN n => n[k][1] = wanted[k]
    /\ \A k \in DOMAIN u :
         k \in DOMAIN n \/ u[k].count # 0 \/ (step = "insert" /\ k = Terms!Key(Head(s)))
WorkersFit ==
    \A w \in Workers : WorkerFits(termPc[w], terms[w], asked[w], sets[w], adds[w])

\* Rows are never deleted, so that those that were updated are there.
RowsCounted == \A w \in Workers : \A k \in DOMAIN sets[w] : sets[w][k].count =< Len(texts[k])

\* A term whose first translations did not cross has a row, or will have one.
OneRowOrNone ==
    \A k \in Terms!Keys \ termCrossed :
      /\ Len(texts[k]) =< 1
      /\ \A w \in Workers : k \in DOMAIN adds[w] =>
           texts[k] = <<>> /\ \A v \in Workers \ {w} : k \notin DOMAIN adds[v]

\* The document has what the rows say until they change.
DocumentFits ==
    shown # None /\ fresh =>
      \E title \in [Langs -> Texts \cup {Title, None}] :
        /\ \A l \in Langs : title[l] \in Terms!TitleFields(l)
        /\ shown = [title |-> title, text |-> [l \in Langs |-> Terms!TextField(l)]]

TermsInv == TermsTyped /\ WorkersFit /\ RowsCounted /\ OneRowOrNone /\ DocumentFits

\* What fits the workers fits after a step of one of them that leaves it fitting.
LEMMA FitStays ==
    ASSUME WorkersFit, NEW w \in Workers,
           WorkerFits(termPc'[w], terms'[w], asked'[w], sets'[w], adds'[w]),
           \A v \in Workers \ {w} : /\ termPc'[v] = termPc[v] /\ terms'[v] = terms[v]
                                    /\ asked'[v] = asked[v]
                                    /\ sets'[v] = sets[v] /\ adds'[v] = adds[v]
    PROVE  WorkersFit'
<1> SUFFICES ASSUME NEW v \in Workers
             PROVE  WorkerFits(termPc'[v], terms'[v], asked'[v], sets'[v], adds'[v])
  BY DEF WorkersFit
<1>1. CASE v = w
  BY <1>1
<1>2. CASE v # w
  <2>1. WorkerFits(termPc[v], terms[v], asked[v], sets[v], adds[v])
    BY DEF WorkersFit
  <2> QED BY <1>2, <2>1
<1> QED BY <1>1, <1>2

LEMMA IdleFits == WorkerFits("idle", <<>>, <<>>, <<>>, <<>>)
<1>1. Len(<<>>) = 0 /\ DOMAIN <<>> = {}
  OBVIOUS
<1> QED BY <1>1 DEF WorkerFits, EndsAsAsked, NamedIn

LEMMA TermsInitially == Terms!Init => TermsInv
<1> SUFFICES ASSUME Terms!Init PROVE TermsInv
  OBVIOUS
<1>1. /\ texts = [k \in Terms!Keys |-> <<>>] /\ termPc = [w \in Workers |-> "idle"]
      /\ terms = [w \in Workers |-> <<>>] /\ sets = [w \in Workers |-> <<>>]
      /\ adds = [w \in Workers |-> <<>>] /\ asked = [w \in Workers |-> <<>>]
      /\ shown = None /\ termCrossed = {}
  BY DEF Terms!Init, Terms!Nothing
<1>2. TermsTyped
  BY <1>1 DEF TermsTyped
<1>3. WorkersFit
  BY <1>1, IdleFits DEF WorkersFit
<1>4. RowsCounted /\ OneRowOrNone /\ DocumentFits
  <2>1. \A w \in Workers : DOMAIN sets[w] = {} /\ DOMAIN adds[w] = {}
    BY <1>1
  <2>2. \A k \in Terms!Keys : Len(texts[k]) =< 1
    BY <1>1
  <2> QED BY <1>1, <2>1, <2>2 DEF RowsCounted, OneRowOrNone, DocumentFits
<1> QED BY <1>2, <1>3, <1>4 DEF TermsInv

LEMMA EntryFacts ==
    \A e \in TermEntry : Terms!Key(e) \in Terms!Keys /\ e.text \in Texts
BY DEF TermEntry, Terms!Key, Terms!Keys

\* What is left of the entries when the first is written.
LEMMA TailEnds ==
    ASSUME NEW s \in Seq(TermEntry), s # <<>>, NEW t, EndsAsAsked(s, t)
    PROVE  /\ Tail(s) \in Seq(TermEntry) /\ (Tail(s) = <<>> <=> Len(s) = 1) /\ Head(s) \in TermEntry
           /\ EndsAsAsked(Tail(s), t) /\ Terms!Key(Head(s)) \in DOMAIN t
           /\ \A k : NamedIn(s, k) => k = Terms!Key(Head(s)) \/ NamedIn(Tail(s), k)
           /\ ~ NamedIn(Tail(s), Terms!Key(Head(s))) => t[Terms!Key(Head(s))] = Head(s).text
<1> DEFINE r == Tail(s)
           h == Head(s)
           n == Len(s)
<1>1. /\ r \in Seq(TermEntry) /\ Len(r) = n - 1 /\ h \in TermEntry /\ h = s[1] /\ n \in Nat \ {0}
      /\ \A i \in 1 .. Len(r) : r[i] = s[i + 1]
  BY HeadTailProperties, EmptySeq
<1>2. r = <<>> <=> n = 1
  <2> HIDE DEF r, h, n
  <2>1. r = <<>> => Len(r) = 0
    BY EmptySeq
  <2>2. r # <<>> => Len(r) # 0
    BY <1>1, EmptySeq
  <2> QED BY <1>1, <2>1, <2>2
<1> HIDE DEF r, h
<1>3. \A i \in 1 .. n : i = 1 \/ (i - 1 \in 1 .. Len(r) /\ s[i] = r[i - 1])
  BY <1>1
<1>4. \A i \in 1 .. Len(r) : i + 1 \in 1 .. n
  BY <1>1
<1>5. \A i \in 1 .. n : /\ Terms!Key(s[i]) \in DOMAIN t
                        /\ (\A j \in 1 .. n : Terms!Key(s[j]) = Terms!Key(s[i]) => j =< i) =>
                             s[i].text = t[Terms!Key(s[i])]
  BY DEF EndsAsAsked
<1>6. 1 \in 1 .. n
  BY <1>1
<1> HIDE DEF n
<1>7. EndsAsAsked(r, t)
  <2> SUFFICES ASSUME NEW i \in 1 .. Len(r)
               PROVE  /\ Terms!Key(r[i]) \in DOMAIN t
                      /\ (\A j \in 1 .. Len(r) : Terms!Key(r[j]) = Terms!Key(r[i]) => j =< i) =>
                           r[i].text = t[Terms!Key(r[i])]
    BY DEF EndsAsAsked
  <2>1. i + 1 \in 1 .. n /\ r[i] = s[i + 1]
    BY <1>1, <1>4
  <2>2. ASSUME \A j \in 1 .. Len(r) : Terms!Key(r[j]) = Terms!Key(r[i]) => j =< i,
               NEW j \in 1 .. n, Terms!Key(s[j]) = Terms!Key(s[i + 1])
        PROVE  j =< i + 1
    BY <1>3, <2>1, <2>2
  <2> QED BY <1>5, <2>1, <2>2
<1>8. ASSUME NEW k, NamedIn(s, k) PROVE k = Terms!Key(h) \/ NamedIn(r, k)
  BY <1>1, <1>3, <1>8 DEF NamedIn, n
<1>9. ASSUME ~ NamedIn(r, Terms!Key(h)) PROVE t[Terms!Key(h)] = h.text
  <2>1. ASSUME NEW j \in 1 .. n, Terms!Key(s[j]) = Terms!Key(s[1]) PROVE j =< 1
    BY <1>1, <1>3, <1>9, <2>1 DEF NamedIn
  <2> QED BY <1>1, <1>5, <1>6, <2>1
<1>10. Terms!Key(h) \in DOMAIN t
  BY <1>1, <1>5, <1>6
<1> QED BY <1>1, <1>2, <1>7, <1>8, <1>9, <1>10 DEF r, h, n

LEMMA AskTermsKeeps ==
    ASSUME TermsInv, NEW w \in Workers, NEW r \in TermRequests, Terms!Ask(w, r)
    PROVE  TermsInv'
<1>1. /\ termPc[w] = "idle" /\ termPc' = [termPc EXCEPT ![w] = "update"]
      /\ terms' = [terms EXCEPT ![w] = r] /\ asked' = [asked EXCEPT ![w] = Terms!LastOf(r)]
      /\ UNCHANGED <<texts, sets, adds, shown, termCrossed, fresh>>
  BY DEF Terms!Ask
<1>2. r \in Seq(TermEntry) /\ r # <<>>
  BY TermsAssumption DEF TermEntry
<1> DEFINE a == Terms!LastOf(r)
<1>3. /\ DOMAIN r = 1 .. Len(r) /\ Len(r) \in Nat /\ \A i \in 1 .. Len(r) : r[i] \in TermEntry
  BY <1>2
<1>4. DOMAIN a = {Terms!Key(r[i]) : i \in DOMAIN r}
  BY DEF Terms!LastOf
<1>5. EndsAsAsked(r, a)
  <2> SUFFICES ASSUME NEW i \in 1 .. Len(r)
               PROVE  /\ Terms!Key(r[i]) \in DOMAIN a
                      /\ (\A j \in 1 .. Len(r) : Terms!Key(r[j]) = Terms!Key(r[i]) => j =< i) =>
                           r[i].text = a[Terms!Key(r[i])]
    BY DEF EndsAsAsked
  <2> DEFINE k == Terms!Key(r[i])
             P(x) == /\ Terms!Key(r[x]) = k
                     /\ \A j \in DOMAIN r : Terms!Key(r[j]) = k => j =< x
  <2>1. k \in DOMAIN a
    BY <1>3, <1>4
  <2>2. a[k] = r[CHOOSE x \in DOMAIN r : P(x)].text
    BY <2>1 DEF Terms!LastOf
  <2>3. ASSUME \A j \in 1 .. Len(r) : Terms!Key(r[j]) = Terms!Key(r[i]) => j =< i
        PROVE  (CHOOSE x \in DOMAIN r : P(x)) = i
    <3>1. P(i)
      BY <1>3, <2>3
    <3>2. \A x \in DOMAIN r : P(x) => x = i
      <4> SUFFICES ASSUME NEW x \in DOMAIN r, P(x) PROVE x = i
        OBVIOUS
      <4>1. x =< i /\ i =< x
        BY <1>3, <2>3
      <4> QED BY <1>3, <4>1
    <3> HIDE DEF P
    <3> QED BY <1>3, <3>1, <3>2
  <2> QED BY <2>1, <2>2, <2>3
<1>6. DOMAIN a \subseteq Terms!Keys
  BY <1>3, <1>4, EntryFacts
<1>7. \A k \in DOMAIN a : NamedIn(r, k)
  BY <1>3, <1>4 DEF NamedIn
<1> HIDE DEF a
<1>8. WorkerFits("update", r, a, sets[w], adds[w])
  <2>1. DOMAIN sets[w] = {} /\ DOMAIN adds[w] = {}
    BY <1>1 DEF TermsInv, WorkersFit, WorkerFits
  <2> QED BY <1>2, <1>5, <1>6, <1>7, <2>1 DEF WorkerFits
<1>9. /\ termPc'[w] = "update" /\ terms'[w] = r /\ asked'[w] = a
      /\ \A v \in Workers \ {w} : termPc'[v] = termPc[v] /\ terms'[v] = terms[v] /\ asked'[v] = asked[v]
  BY <1>1 DEF TermsInv, TermsTyped, a
<1>10. TermsTyped'
  BY <1>1, <1>2 DEF TermsInv, TermsTyped
<1>11. WorkersFit'
  <2>1. WorkersFit /\ sets' = sets /\ adds' = adds
    BY <1>1 DEF TermsInv
  <2>2. WorkerFits(termPc'[w], terms'[w], asked'[w], sets'[w], adds'[w])
    BY <1>8, <1>9, <2>1
  <2> QED BY <1>9, <2>1, <2>2, FitStays
<1>12. (RowsCounted /\ OneRowOrNone /\ DocumentFits)'
  BY <1>1 DEF TermsInv, RowsCounted, OneRowOrNone, DocumentFits, Terms!TitleFields, Terms!TextField,
              Terms!Translations, Terms!OrElse
<1> QED BY <1>10, <1>11, <1>12 DEF TermsInv

\* Where a request goes from its first entry.
LEMMA AfterFirst ==
    ASSUME TermsInv, NEW w \in Workers, termPc[w] \in {"update", "insert"}
    PROVE  LET s == terms[w]
               k == Terms!Key(Head(s))
           IN  /\ s \in Seq(TermEntry) /\ s # <<>> /\ Head(s).text \in Texts
               /\ k \in Terms!Keys /\ k \in DOMAIN asked[w]
               /\ Tail(s) \in Seq(TermEntry) /\ EndsAsAsked(Tail(s), asked[w])
               /\ Terms!After(w) = "commit" <=> Tail(s) = <<>>
               /\ Terms!After(w) \in {"commit", "update"}
               /\ \A x : NamedIn(s, x) => x = k \/ NamedIn(Tail(s), x)
               /\ ~ NamedIn(Tail(s), k) => asked[w][k] = Head(s).text
<1>1. WorkerFits(termPc[w], terms[w], asked[w], sets[w], adds[w]) /\ terms[w] \in Seq(TermEntry)
  BY DEF TermsInv, WorkersFit, TermsTyped
<1>2. terms[w] # <<>> /\ EndsAsAsked(terms[w], asked[w])
  BY <1>1 DEF WorkerFits
<1>3. Terms!After(w) = IF Len(terms[w]) = 1 THEN "commit" ELSE "update"
  BY DEF Terms!After
<1> QED BY <1>1, <1>2, <1>3, TailEnds, EntryFacts

LEMMA UpdateTermsKeeps == ASSUME TermsInv, NEW w \in Workers, Terms!Update(w) PROVE TermsInv'
<1> DEFINE s == terms[w]
           k == Terms!Key(Head(s))
           x == Head(s).text
           u == Terms!With(sets[w], k, [text |-> x, count |-> Len(texts[k])])
           n == IF k \in DOMAIN adds[w] THEN [adds[w] EXCEPT ![k] = [i \in DOMAIN @ |-> x]] ELSE adds[w]
<1>1. /\ termPc[w] = "update" /\ sets' = [sets EXCEPT ![w] = u]
      /\ adds' = IF k \in DOMAIN adds[w] THEN [adds EXCEPT ![w][k] = [i \in DOMAIN @ |-> x]] ELSE adds
      /\ IF Terms!Updated(w, k) > 0
         THEN termPc' = [termPc EXCEPT ![w] = Terms!After(w)] /\ terms' = [terms EXCEPT ![w] = Tail(@)]
         ELSE termPc' = [termPc EXCEPT ![w] = "insert"] /\ UNCHANGED terms
      /\ UNCHANGED <<texts, asked, shown, termCrossed, fresh>>
  BY DEF Terms!Update
<1>2. /\ s \in Seq(TermEntry) /\ s # <<>> /\ x \in Texts /\ k \in Terms!Keys /\ k \in DOMAIN asked[w]
      /\ Tail(s) \in Seq(TermEntry) /\ EndsAsAsked(Tail(s), asked[w])
      /\ Terms!After(w) = "commit" <=> Tail(s) = <<>>
      /\ Terms!After(w) \in {"commit", "update"}
      /\ \A z : NamedIn(s, z) => z = k \/ NamedIn(Tail(s), z)
      /\ ~ NamedIn(Tail(s), k) => asked[w][k] = x
  BY <1>1, AfterFirst
<1>3. /\ DOMAIN u = DOMAIN sets[w] \cup {k} /\ u[k] = [text |-> x, count |-> Len(texts[k])]
      /\ \A z \in DOMAIN sets[w] \ {k} : u[z] = sets[w][z]
  BY DEF Terms!With
<1>4. /\ DOMAIN n = DOMAIN adds[w]
      /\ k \in DOMAIN n => n[k] = [i \in DOMAIN adds[w][k] |-> x]
      /\ \A z \in DOMAIN adds[w] \ {k} : n[z] = adds[w][z]
  OBVIOUS
<1>5. /\ sets'[w] = u /\ adds'[w] = n /\ DOMAIN sets' = Workers /\ DOMAIN adds' = Workers
      /\ \A v \in Workers \ {w} : sets'[v] = sets[v] /\ adds'[v] = adds[v]
  <2>1. DOMAIN sets = Workers /\ DOMAIN adds = Workers
    BY DEF TermsInv, TermsTyped
  <2> HIDE DEF u, k, x
  <2> QED BY <1>1, <2>1
<1>6. texts[k] \in Seq(Texts) /\ Len(texts[k]) \in Nat
  BY <1>2 DEF TermsInv, TermsTyped
<1>a. Terms!Updated(w, k) = Len(texts[k]) + (IF k \in DOMAIN adds[w] THEN 1 ELSE 0)
  BY DEF Terms!Updated
<1>8. WorkerFits("update", s, asked[w], sets[w], adds[w])
  BY <1>1 DEF TermsInv, WorkersFit
<1> HIDE DEF s, k, x, u, n
<1>7. Terms!Updated(w, k) > 0 <=> k \in DOMAIN adds[w] \/ Len(texts[k]) # 0
  <2>1. CASE k \in DOMAIN adds[w]
    <3>1. Terms!Updated(w, k) = Len(texts[k]) + 1
      BY <1>a, <2>1
    <3> QED BY <1>6, <2>1, <3>1
  <2>2. CASE k \notin DOMAIN adds[w]
    <3>1. Terms!Updated(w, k) = Len(texts[k]) + 0
      BY <1>a, <2>2
    <3> QED BY <1>6, <2>2, <3>1
  <2> QED BY <2>1, <2>2
<1>9. k \in DOMAIN n => n[k] \in [1 .. 1 -> Texts] /\ n[k][1] = x
  BY <1>2, <1>4, <1>8 DEF WorkerFits
<1>10. /\ \A z \in DOMAIN u : z \in Terms!Keys /\ u[z].text \in Texts /\ u[z].count \in Nat
       /\ \A z \in DOMAIN n : z \in Terms!Keys /\ n[z] \in [1 .. 1 -> Texts]
  BY <1>2, <1>3, <1>4, <1>6, <1>8, <1>9 DEF WorkerFits
<1>11. \A z \in DOMAIN asked[w] \ {k} : ~ NamedIn(s, z) =>
         /\ z \in DOMAIN u /\ u[z].text = asked[w][z]
         /\ z \in DOMAIN n => n[z][1] = asked[w][z]
  BY <1>3, <1>4, <1>8 DEF WorkerFits
<1>12. \A z \in DOMAIN u \ {k} : z \in DOMAIN n \/ u[z].count # 0
  BY <1>3, <1>4, <1>8 DEF WorkerFits
<1>13. ASSUME Terms!Updated(w, k) > 0
       PROVE  /\ WorkerFits(termPc'[w], terms'[w], asked[w], u, n)
              /\ \A v \in Workers \ {w} : termPc'[v] = termPc[v] /\ terms'[v] = terms[v]
              /\ termPc' \in [Workers -> {"idle", "update", "insert", "commit"}]
              /\ terms' \in [Workers -> Seq(TermEntry)]
  <2>1. /\ termPc' = [termPc EXCEPT ![w] = Terms!After(w)] /\ terms' = [terms EXCEPT ![w] = Tail(@)]
    BY <1>1, <1>13
  <2>2. /\ termPc'[w] = Terms!After(w) /\ terms'[w] = Tail(s)
        /\ \A v \in Workers \ {w} : termPc'[v] = termPc[v] /\ terms'[v] = terms[v]
        /\ termPc' \in [Workers -> {"idle", "update", "insert", "commit"}]
        /\ terms' \in [Workers -> Seq(TermEntry)]
    BY <1>2, <2>1 DEF TermsInv, TermsTyped, s
  <2>3. k \in DOMAIN n \/ u[k].count # 0
    <3>1. k \in DOMAIN adds[w] \/ Len(texts[k]) # 0
      BY <1>7, <1>13
    <3>2. u[k].count = Len(texts[k])
      BY <1>3
    <3> QED BY <1>4, <3>1, <3>2
  <2>4. WorkerFits(Terms!After(w), Tail(s), asked[w], u, n)
    <3>1. \A z \in DOMAIN asked[w] : ~ NamedIn(Tail(s), z) =>
            /\ z \in DOMAIN u /\ u[z].text = asked[w][z]
            /\ z \in DOMAIN n => n[z][1] = asked[w][z]
      BY <1>2, <1>3, <1>9, <1>11
    <3>2. \A z \in DOMAIN u : z \in DOMAIN n \/ u[z].count # 0
      BY <1>12, <2>3
    <3>3. DOMAIN asked[w] \subseteq Terms!Keys
      BY <1>8 DEF WorkerFits
    <3>4. /\ EndsAsAsked(Tail(s), asked[w])
          /\ Terms!After(w) \in {"update", "insert"} <=> Tail(s) # <<>>
          /\ Terms!After(w) # "idle" /\ Terms!After(w) # "insert"
      BY <1>2
    <3> QED BY <1>10, <3>1, <3>2, <3>3, <3>4 DEF WorkerFits
  <2> QED BY <2>2, <2>4
<1>14. ASSUME ~ Terms!Updated(w, k) > 0
       PROVE  /\ WorkerFits(termPc'[w], terms'[w], asked[w], u, n)
              /\ \A v \in Workers \ {w} : termPc'[v] = termPc[v] /\ terms'[v] = terms[v]
              /\ termPc' \in [Workers -> {"idle", "update", "insert", "commit"}]
              /\ terms' \in [Workers -> Seq(TermEntry)]
  <2>1. termPc' = [termPc EXCEPT ![w] = "insert"] /\ terms' = terms
    BY <1>1, <1>14
  <2>2. /\ termPc'[w] = "insert" /\ terms'[w] = s
        /\ \A v \in Workers \ {w} : termPc'[v] = termPc[v] /\ terms'[v] = terms[v]
        /\ termPc' \in [Workers -> {"idle", "update", "insert", "commit"}]
        /\ terms' \in [Workers -> Seq(TermEntry)]
    BY <2>1 DEF TermsInv, TermsTyped, s
  <2>3. k \notin DOMAIN n
    BY <1>4, <1>7, <1>14
  <2>4. WorkerFits("insert", s, asked[w], u, n)
    <3>1. NamedIn(s, k)
      <4>1. 1 \in 1 .. Len(s) /\ s[1] = Head(s)
        BY <1>2, EmptySeq
      <4> QED BY <4>1 DEF NamedIn, k
    <3>2. EndsAsAsked(s, asked[w]) /\ DOMAIN asked[w] \subseteq Terms!Keys
      BY <1>8 DEF WorkerFits
    <3>3. k \in DOMAIN u /\ u[k].text = x
      BY <1>3
    <3>4. \A z \in DOMAIN asked[w] : ~ NamedIn(s, z) =>
            /\ z \in DOMAIN u /\ u[z].text = asked[w][z]
            /\ z \in DOMAIN n => n[z][1] = asked[w][z]
      BY <1>11, <3>1
    <3>5. k = Terms!Key(Head(s)) /\ x = Head(s).text
      BY DEF k, x, s
    <3> QED BY <1>2, <1>10, <1>12, <2>3, <3>2, <3>3, <3>4, <3>5 DEF WorkerFits
  <2> QED BY <2>2, <2>4
<1>15. /\ WorkerFits(termPc'[w], terms'[w], asked[w], u, n)
       /\ \A v \in Workers \ {w} : termPc'[v] = termPc[v] /\ terms'[v] = terms[v]
       /\ termPc' \in [Workers -> {"idle", "update", "insert", "commit"}]
       /\ terms' \in [Workers -> Seq(TermEntry)]
  BY <1>13, <1>14
<1>16. TermsTyped'
  BY <1>1, <1>5, <1>15 DEF TermsInv, TermsTyped
<1>17. WorkersFit'
  <2>1. WorkersFit /\ asked' = asked
    BY <1>1 DEF TermsInv
  <2>2. WorkerFits(termPc'[w], terms'[w], asked'[w], sets'[w], adds'[w])
    BY <1>5, <1>15, <2>1
  <2> QED BY <1>5, <1>15, <2>1, <2>2, FitStays
<1>18. RowsCounted'
  BY <1>1, <1>3, <1>5, <1>6 DEF TermsInv, RowsCounted
<1>19. OneRowOrNone'
  <2>1. \A v \in Workers : DOMAIN adds'[v] = DOMAIN adds[v]
    BY <1>4, <1>5
  <2> QED BY <1>1, <2>1 DEF TermsInv, OneRowOrNone
<1>20. DocumentFits'
  BY <1>1 DEF TermsInv, DocumentFits, Terms!TitleFields, Terms!TextField, Terms!Translations, Terms!OrElse
<1> QED BY <1>16, <1>17, <1>18, <1>19, <1>20 DEF TermsInv

LEMMA InsertTermsKeeps == ASSUME TermsInv, NEW w \in Workers, Terms!Insert(w) PROVE TermsInv'
<1> DEFINE s == terms[w]
           k == Terms!Key(Head(s))
           x == Head(s).text
           mine == IF k \in DOMAIN adds[w] THEN adds[w][k] ELSE <<>>
           n == Terms!With(adds[w], k, Append(mine, x))
<1>1. /\ termPc[w] = "insert" /\ adds' = [adds EXCEPT ![w] = n]
      /\ termPc' = [termPc EXCEPT ![w] = Terms!After(w)] /\ terms' = [terms EXCEPT ![w] = Tail(@)]
      /\ termCrossed' = IF texts[k] # <<>> \/ \E v \in Workers \ {w} : k \in DOMAIN adds[v]
                        THEN termCrossed \cup {k} ELSE termCrossed
      /\ UNCHANGED <<texts, sets, asked, shown, fresh>>
  BY DEF Terms!Insert
<1>2. /\ s \in Seq(TermEntry) /\ s # <<>> /\ x \in Texts /\ k \in Terms!Keys /\ k \in DOMAIN asked[w]
      /\ Tail(s) \in Seq(TermEntry) /\ EndsAsAsked(Tail(s), asked[w])
      /\ Terms!After(w) = "commit" <=> Tail(s) = <<>>
      /\ Terms!After(w) \in {"commit", "update"}
      /\ \A z : NamedIn(s, z) => z = k \/ NamedIn(Tail(s), z)
      /\ ~ NamedIn(Tail(s), k) => asked[w][k] = x
  BY <1>1, AfterFirst
<1>3. WorkerFits("insert", s, asked[w], sets[w], adds[w])
  BY <1>1 DEF TermsInv, WorkersFit
<1>4. k \in DOMAIN sets[w] /\ k \notin DOMAIN adds[w] /\ sets[w][k].text = x
  BY <1>3 DEF WorkerFits
<1>5. Append(mine, x) \in [1 .. 1 -> Texts] /\ Append(mine, x)[1] = x
  <2>1. mine = <<>>
    BY <1>4
  <2> HIDE DEF mine, x
  <2>2. Append(mine, x) = <<x>>
    BY <2>1
  <2> QED BY <1>2, <2>2
<1>6. /\ DOMAIN n = DOMAIN adds[w] \cup {k} /\ n[k] = Append(mine, x)
      /\ \A z \in DOMAIN adds[w] \ {k} : n[z] = adds[w][z]
  BY DEF Terms!With
<1>7. DOMAIN adds = Workers /\ DOMAIN terms = Workers /\ DOMAIN termPc = Workers
  BY DEF TermsInv, TermsTyped
<1> HIDE DEF s, k, x, mine, n
<1>8. /\ adds'[w] = n /\ terms'[w] = Tail(s) /\ termPc'[w] = Terms!After(w) /\ DOMAIN adds' = Workers
      /\ \A v \in Workers \ {w} : adds'[v] = adds[v] /\ terms'[v] = terms[v] /\ termPc'[v] = termPc[v]
  BY <1>1, <1>7 DEF s
<1>9. WorkerFits(Terms!After(w), Tail(s), asked[w], sets[w], n)
  <2>1. /\ \A z \in DOMAIN sets[w] : /\ z \in Terms!Keys /\ sets[w][z].text \in Texts
                                     /\ sets[w][z].count \in Nat
        /\ \A z \in DOMAIN n : z \in Terms!Keys /\ n[z] \in [1 .. 1 -> Texts]
    BY <1>2, <1>3, <1>5, <1>6 DEF WorkerFits
  <2>2. \A z \in DOMAIN asked[w] : ~ NamedIn(Tail(s), z) =>
          /\ z \in DOMAIN sets[w] /\ sets[w][z].text = asked[w][z]
          /\ z \in DOMAIN n => n[z][1] = asked[w][z]
    <3> SUFFICES ASSUME NEW z \in DOMAIN asked[w], ~ NamedIn(Tail(s), z)
                 PROVE  /\ z \in DOMAIN sets[w] /\ sets[w][z].text = asked[w][z]
                        /\ z \in DOMAIN n => n[z][1] = asked[w][z]
      OBVIOUS
    <3>1. CASE z = k
      BY <1>2, <1>4, <1>5, <1>6, <3>1
    <3>2. CASE z # k
      <4>1. ~ NamedIn(s, z)
        BY <1>2, <3>2
      <4> QED BY <1>3, <1>6, <3>2, <4>1 DEF WorkerFits
    <3> QED BY <3>1, <3>2
  <2>3. \A z \in DOMAIN sets[w] : z \in DOMAIN n \/ sets[w][z].count # 0
    BY <1>3, <1>6 DEF WorkerFits, k
  <2>4. DOMAIN asked[w] \subseteq Terms!Keys
    BY <1>3 DEF WorkerFits
  <2>5. /\ EndsAsAsked(Tail(s), asked[w])
        /\ Terms!After(w) \in {"update", "insert"} <=> Tail(s) # <<>>
        /\ Terms!After(w) # "idle" /\ Terms!After(w) # "insert"
    BY <1>2
  <2> QED BY <2>1, <2>2, <2>3, <2>4, <2>5 DEF WorkerFits
<1>10. TermsTyped'
  <2>1. /\ termPc' \in [Workers -> {"idle", "update", "insert", "commit"}]
        /\ terms' \in [Workers -> Seq(TermEntry)]
    BY <1>1, <1>2 DEF TermsInv, TermsTyped, s
  <2> QED BY <1>1, <1>8, <2>1 DEF TermsInv, TermsTyped
<1>11. WorkersFit'
  <2>1. WorkersFit /\ asked' = asked /\ sets' = sets
    BY <1>1 DEF TermsInv
  <2>2. WorkerFits(termPc'[w], terms'[w], asked'[w], sets'[w], adds'[w])
    BY <1>8, <1>9, <2>1
  <2> QED BY <1>8, <2>1, <2>2, FitStays
<1>12. OneRowOrNone'
  <2> SUFFICES ASSUME NEW z \in Terms!Keys \ termCrossed'
               PROVE  /\ Len(texts[z]) =< 1
                      /\ \A v \in Workers : z \in DOMAIN adds'[v] =>
                           texts[z] = <<>> /\ \A y \in Workers \ {v} : z \notin DOMAIN adds'[y]
    BY <1>1 DEF OneRowOrNone
  <2>1. z \notin termCrossed
    BY <1>1
  <2>2. /\ Len(texts[z]) =< 1
        /\ \A v \in Workers : z \in DOMAIN adds[v] =>
             texts[z] = <<>> /\ \A y \in Workers \ {v} : z \notin DOMAIN adds[y]
    BY <2>1 DEF TermsInv, OneRowOrNone
  <2>3. CASE z = k
    <3>1. texts[k] = <<>> /\ \A v \in Workers \ {w} : k \notin DOMAIN adds[v]
      BY <1>1, <2>3
    <3> QED BY <1>8, <2>2, <2>3, <3>1
  <2>4. CASE z # k
    <3>1. \A v \in Workers : z \in DOMAIN adds'[v] <=> z \in DOMAIN adds[v]
      BY <1>6, <1>8, <2>4
    <3> QED BY <2>2, <3>1
  <2> QED BY <2>3, <2>4
<1>13. (RowsCounted /\ DocumentFits)'
  BY <1>1 DEF TermsInv, RowsCounted, DocumentFits, Terms!TitleFields, Terms!TextField,
              Terms!Translations, Terms!OrElse
<1> QED BY <1>10, <1>11, <1>12, <1>13 DEF TermsInv

\* A worker that has ended.
LEMMA EndOfTerms ==
    ASSUME TermsInv, NEW w \in Workers, Terms!End(w)
    PROVE  /\ TermsTyped' \/ texts' # texts
           /\ WorkersFit'
           /\ termPc' \in [Workers -> {"idle", "update", "insert", "commit"}]
           /\ terms' \in [Workers -> Seq(TermEntry)]
           /\ DOMAIN sets' = Workers /\ DOMAIN adds' = Workers /\ DOMAIN asked' = Workers
           /\ DOMAIN sets'[w] = {} /\ DOMAIN adds'[w] = {}
           /\ \A v \in Workers \ {w} : sets'[v] = sets[v] /\ adds'[v] = adds[v]
<1>1. /\ termPc' = [termPc EXCEPT ![w] = "idle"] /\ terms' = [terms EXCEPT ![w] = <<>>]
      /\ sets' = [sets EXCEPT ![w] = <<>>] /\ adds' = [adds EXCEPT ![w] = <<>>]
      /\ asked' = [asked EXCEPT ![w] = <<>>]
  BY DEF Terms!End, Terms!Nothing
<1>2. /\ DOMAIN termPc = Workers /\ DOMAIN terms = Workers /\ DOMAIN sets = Workers
      /\ DOMAIN adds = Workers /\ DOMAIN asked = Workers
  BY DEF TermsInv, TermsTyped
<1>3. /\ termPc'[w] = "idle" /\ terms'[w] = <<>> /\ sets'[w] = <<>> /\ adds'[w] = <<>> /\ asked'[w] = <<>>
      /\ \A v \in Workers \ {w} : /\ termPc'[v] = termPc[v] /\ terms'[v] = terms[v]
                                  /\ sets'[v] = sets[v] /\ adds'[v] = adds[v] /\ asked'[v] = asked[v]
      /\ DOMAIN sets' = Workers /\ DOMAIN adds' = Workers /\ DOMAIN asked' = Workers
  BY <1>1, <1>2
<1>4. WorkersFit'
  <2>1. WorkerFits(termPc'[w], terms'[w], asked'[w], sets'[w], adds'[w])
    BY <1>3, IdleFits
  <2> QED BY <1>3, <2>1, FitStays DEF TermsInv
<1>5. /\ termPc' \in [Workers -> {"idle", "update", "insert", "commit"}]
      /\ terms' \in [Workers -> Seq(TermEntry)]
  BY <1>1 DEF TermsInv, TermsTyped
<1>6. TermsTyped' \/ texts' # texts
  BY <1>3, <1>5 DEF TermsInv, TermsTyped
<1> QED BY <1>3, <1>4, <1>5, <1>6

LEMMA RollbackKeeps == ASSUME TermsInv, NEW w \in Workers, Terms!Rollback(w) PROVE TermsInv'
<1>1. Terms!End(w) /\ UNCHANGED <<texts, shown, termCrossed, fresh>>
  BY DEF Terms!Rollback
<1>2. TermsTyped' /\ WorkersFit'
  BY <1>1, EndOfTerms
<1>3. RowsCounted' /\ OneRowOrNone'
  BY <1>1, EndOfTerms DEF TermsInv, RowsCounted, OneRowOrNone
<1>4. DocumentFits'
  BY <1>1 DEF TermsInv, DocumentFits, Terms!TitleFields, Terms!TextField, Terms!Translations,
              Terms!OrElse
<1> QED BY <1>2, <1>3, <1>4 DEF TermsInv

\* What a commit makes of the rows of a term.
LEMMA CommitOfTerms ==
    ASSUME TermsInv, NEW w \in Workers, Terms!Commit(w)
    PROVE  /\ termPc[w] = "commit" /\ Terms!End(w) /\ UNCHANGED <<shown, termCrossed>> /\ fresh' = FALSE
           /\ texts' \in [Terms!Keys -> Seq(Texts)]
           /\ \A k \in Terms!Keys :
                /\ k \notin DOMAIN adds[w] =>
                     /\ Len(texts'[k]) = Len(texts[k])
                     /\ \A i \in 1 .. Len(texts[k]) :
                          texts'[k][i] = IF k \in DOMAIN sets[w] /\ i =< sets[w][k].count
                                         THEN sets[w][k].text ELSE texts[k][i]
                /\ k \in DOMAIN adds[w] =>
                     /\ Len(texts'[k]) = Len(texts[k]) + 1
                     /\ texts[k] = <<>> => texts'[k] = adds[w][k]
<1> DEFINE o(k) == [i \in DOMAIN texts[k] |->
                      IF k \in DOMAIN sets[w] /\ i =< sets[w][k].count
                      THEN sets[w][k].text ELSE texts[k][i]]
           n(k) == IF k \in DOMAIN adds[w] THEN adds[w][k] ELSE <<>>
<1>1. /\ termPc[w] = "commit" /\ Terms!End(w) /\ UNCHANGED <<shown, termCrossed>> /\ fresh' = FALSE
      /\ texts' = [k \in Terms!Keys |-> o(k) \o n(k)]
  BY DEF Terms!Commit
<1>2. WorkerFits("commit", terms[w], asked[w], sets[w], adds[w])
  BY <1>1 DEF TermsInv, WorkersFit
<1>3. ASSUME NEW k \in Terms!Keys
      PROVE  /\ o(k) \in Seq(Texts) /\ Len(o(k)) = Len(texts[k])
             /\ texts[k] \in Seq(Texts) /\ Len(texts[k]) \in Nat
             /\ \A i \in 1 .. Len(texts[k]) :
                  o(k)[i] = IF k \in DOMAIN sets[w] /\ i =< sets[w][k].count
                            THEN sets[w][k].text ELSE texts[k][i]
  <2>1. /\ texts[k] \in Seq(Texts) /\ Len(texts[k]) \in Nat /\ DOMAIN texts[k] = 1 .. Len(texts[k])
        /\ \A i \in 1 .. Len(texts[k]) : texts[k][i] \in Texts
    BY DEF TermsInv, TermsTyped
  <2>2. k \in DOMAIN sets[w] => sets[w][k].text \in Texts
    BY <1>2 DEF WorkerFits
  <2>3. o(k) \in [1 .. Len(texts[k]) -> Texts]
    BY <2>1, <2>2
  <2>4. \A m \in Nat : \A f \in [1 .. m -> Texts] : f \in Seq(Texts) /\ Len(f) = m
    BY SeqDef
  <2>5. o(k) \in Seq(Texts) /\ Len(o(k)) = Len(texts[k])
    <3> HIDE DEF o
    <3> QED BY <2>1, <2>3, <2>4
  <2> QED BY <2>1, <2>5
<1>4. ASSUME NEW k \in Terms!Keys
      PROVE  /\ n(k) \in Seq(Texts)
             /\ k \in DOMAIN adds[w] => Len(n(k)) = 1
             /\ k \notin DOMAIN adds[w] => n(k) = <<>>
  <2>1. k \in DOMAIN adds[w] => n(k) \in [1 .. 1 -> Texts]
    BY <1>2 DEF WorkerFits
  <2>2. \A f \in [1 .. 1 -> Texts] : f \in Seq(Texts) /\ Len(f) = 1
    <3>1. \A m \in Nat : \A f \in [1 .. m -> Texts] : f \in Seq(Texts) /\ Len(f) = m
      BY SeqDef
    <3> QED BY <3>1
  <2>3. k \notin DOMAIN adds[w] => n(k) = <<>>
    OBVIOUS
  <2> HIDE DEF n
  <2> QED BY <2>1, <2>2, <2>3, EmptySeq
<1>5. \A k \in Terms!Keys : k \in DOMAIN adds[w] => n(k) = adds[w][k]
  OBVIOUS
<1> HIDE DEF o, n
<1>6. \A k \in Terms!Keys : texts'[k] = o(k) \o n(k) /\ texts'[k] \in Seq(Texts)
  BY <1>1, <1>3, <1>4
<1>7. texts' \in [Terms!Keys -> Seq(Texts)]
  BY <1>1, <1>6
<1>8. ASSUME NEW k \in Terms!Keys, k \notin DOMAIN adds[w]
      PROVE  texts'[k] = o(k)
  BY <1>3, <1>4, <1>6, <1>8, ConcatEmptySeq
<1>9. ASSUME NEW k \in Terms!Keys, k \in DOMAIN adds[w]
      PROVE  /\ Len(texts'[k]) = Len(texts[k]) + 1
             /\ texts[k] = <<>> => texts'[k] = adds[w][k]
  <2>1. Len(texts'[k]) = Len(texts[k]) + 1
    <3>1. o(k) \in Seq(Texts) /\ n(k) \in Seq(Texts) /\ Len(o(k)) = Len(texts[k]) /\ Len(n(k)) = 1
      BY <1>3, <1>4, <1>9
    <3>2. texts'[k] = o(k) \o n(k)
      BY <1>6
    <3>3. Len(o(k) \o n(k)) = Len(o(k)) + Len(n(k))
      BY <3>1, ConcatProperties
    <3> QED BY <3>1, <3>2, <3>3
  <2>2. ASSUME texts[k] = <<>> PROVE texts'[k] = n(k)
    <3>1. o(k) = <<>>
      BY <1>3, <2>2, EmptySeq
    <3> QED BY <1>4, <1>6, <3>1, ConcatEmptySeq
  <2> QED BY <1>5, <1>9, <2>1, <2>2
<1> QED BY <1>1, <1>3, <1>7, <1>8, <1>9

LEMMA CommitOfTermsKeeps == ASSUME TermsInv, NEW w \in Workers, Terms!Commit(w) PROVE TermsInv'
<1>1. /\ termPc[w] = "commit" /\ Terms!End(w) /\ UNCHANGED <<shown, termCrossed>> /\ fresh' = FALSE
      /\ texts' \in [Terms!Keys -> Seq(Texts)]
  BY CommitOfTerms
<1>2. ASSUME NEW k \in Terms!Keys
      PROVE  /\ Len(texts[k]) \in Nat /\ Len(texts[k]) =< Len(texts'[k])
             /\ k \notin DOMAIN adds[w] => Len(texts'[k]) = Len(texts[k])
             /\ k \in DOMAIN adds[w] => Len(texts'[k]) = Len(texts[k]) + 1
  <2>1. Len(texts[k]) \in Nat
    BY DEF TermsInv, TermsTyped
  <2>2. /\ k \notin DOMAIN adds[w] => Len(texts'[k]) = Len(texts[k])
        /\ k \in DOMAIN adds[w] => Len(texts'[k]) = Len(texts[k]) + 1
    BY CommitOfTerms
  <2> QED BY <2>1, <2>2
<1>3. TermsTyped' /\ WorkersFit'
  BY <1>1, EndOfTerms DEF TermsTyped
<1>4. /\ DOMAIN sets'[w] = {} /\ DOMAIN adds'[w] = {}
      /\ \A v \in Workers \ {w} : sets'[v] = sets[v] /\ adds'[v] = adds[v]
  BY <1>1, EndOfTerms
<1>5. RowsCounted'
  <2> SUFFICES ASSUME NEW v \in Workers, NEW k \in DOMAIN sets'[v]
               PROVE  sets'[v][k].count =< Len(texts'[k])
    BY DEF RowsCounted
  <2>1. v # w /\ sets'[v] = sets[v] /\ k \in DOMAIN sets[v]
    BY <1>4
  <2>2. sets[v][k].count =< Len(texts[k]) /\ k \in Terms!Keys /\ sets[v][k].count \in Nat
    BY <2>1 DEF TermsInv, RowsCounted, WorkersFit, WorkerFits
  <2>3. Len(texts'[k]) \in Nat
    BY <1>1, <2>2
  <2> QED BY <1>2, <2>1, <2>2, <2>3
<1>6. OneRowOrNone'
  <2> SUFFICES ASSUME NEW k \in Terms!Keys \ termCrossed
               PROVE  /\ Len(texts'[k]) =< 1
                      /\ \A v \in Workers : k \in DOMAIN adds'[v] =>
                           texts'[k] = <<>> /\ \A y \in Workers \ {v} : k \notin DOMAIN adds'[y]
    BY <1>1 DEF OneRowOrNone
  <2>1. /\ Len(texts[k]) =< 1
        /\ \A v \in Workers : k \in DOMAIN adds[v] =>
             texts[k] = <<>> /\ \A y \in Workers \ {v} : k \notin DOMAIN adds[y]
    BY DEF TermsInv, OneRowOrNone
  <2>2. CASE k \in DOMAIN adds[w]
    <3>1. texts[k] = <<>> /\ \A v \in Workers : k \notin DOMAIN adds'[v]
      BY <1>4, <2>1, <2>2
    <3>2. Len(texts'[k]) =< 1
      BY <1>2, <2>2, <3>1, EmptySeq
    <3> QED BY <3>1, <3>2
  <2>3. CASE k \notin DOMAIN adds[w]
    <3>1. Len(texts'[k]) =< 1 /\ Len(texts'[k]) = Len(texts[k])
      BY <1>2, <2>1, <2>3
    <3>2. texts[k] = <<>> => texts'[k] = <<>>
      <4>1. texts'[k] \in Seq(Texts)
        BY <1>1
      <4> QED BY <3>1, <4>1, EmptySeq
    <3>3. \A v \in Workers : k \in DOMAIN adds'[v] => k \in DOMAIN adds[v]
      BY <1>4
    <3> QED BY <2>1, <3>1, <3>2, <3>3
  <2> QED BY <2>2, <2>3
<1>7. DocumentFits'
  BY <1>1 DEF DocumentFits
<1> QED BY <1>3, <1>5, <1>6, <1>7 DEF TermsInv

LEMMA BeforeIndexKeeps == ASSUME TermsInv, Terms!BeforeIndex PROVE TermsInv'
<1>1. /\ shown' \in {[title |-> title, text |-> [l \in Langs |-> Terms!TextField(l)]] :
                       title \in {f \in [Langs -> Texts \cup {Title, None}] :
                                    \A l \in Langs : f[l] \in Terms!TitleFields(l)}}
      /\ UNCHANGED <<texts, termPc, terms, sets, adds, asked, termCrossed>>
  BY DEF Terms!BeforeIndex, Terms!requests
<1>2. PICK title \in [Langs -> Texts \cup {Title, None}] :
        /\ \A l \in Langs : title[l] \in Terms!TitleFields(l)
        /\ shown' = [title |-> title, text |-> [l \in Langs |-> Terms!TextField(l)]]
  BY <1>1
<1>3. \A l : Terms!TitleFields(l)' = Terms!TitleFields(l) /\ Terms!TextField(l)' = Terms!TextField(l)
  BY <1>1 DEF Terms!TitleFields, Terms!TextField, Terms!Translations, Terms!OrElse
<1>4. DocumentFits'
  <2>1. [l \in Langs |-> Terms!TextField(l)]' = [l \in Langs |-> Terms!TextField(l)]
    BY <1>3
  <2> QED BY <1>2, <1>3, <2>1 DEF DocumentFits
<1>5. (TermsTyped /\ WorkersFit /\ RowsCounted /\ OneRowOrNone)'
  BY <1>1 DEF TermsInv, TermsTyped, WorkersFit, RowsCounted, OneRowOrNone
<1> QED BY <1>4, <1>5 DEF TermsInv

LEMMA TermsStep == TermsInv /\ [Terms!Next]_Terms!vars => TermsInv'
<1> SUFFICES ASSUME TermsInv, [Terms!Next]_Terms!vars PROVE TermsInv'
  OBVIOUS
<1>1. ASSUME UNCHANGED Terms!vars PROVE TermsInv'
  BY <1>1 DEF Terms!vars, TermsInv, TermsTyped, WorkersFit, RowsCounted, OneRowOrNone, DocumentFits,
              Terms!TitleFields, Terms!TextField, Terms!Translations, Terms!OrElse
<1>2. ASSUME NEW w \in Workers, NEW r \in TermRequests, Terms!Ask(w, r) PROVE TermsInv'
  BY <1>2, AskTermsKeeps
<1>3. ASSUME NEW w \in Workers, Terms!Update(w) \/ Terms!Insert(w) PROVE TermsInv'
  BY <1>3, UpdateTermsKeeps, InsertTermsKeeps
<1>4. ASSUME NEW w \in Workers, Terms!Commit(w) \/ Terms!Rollback(w) PROVE TermsInv'
  BY <1>4, CommitOfTermsKeeps, RollbackKeeps
<1>5. ASSUME Terms!BeforeIndex PROVE TermsInv'
  BY <1>5, BeforeIndexKeeps
<1> QED BY <1>1, <1>2, <1>3, <1>4, <1>5 DEF Terms!Next

-----------------------------------------------------------------------------
\* A commit leaves in the rows of a term the last text asked for.
LEMMA TermsAsAsked ==
    ASSUME TermsInv, NEW w \in Workers, Terms!Commit(w), NEW k \in DOMAIN asked[w]
    PROVE  /\ k \notin termCrossed => texts'[k] = <<asked[w][k]>>
           /\ k \notin DOMAIN adds[w] /\ sets[w][k].count = Len(texts[k]) =>
                Terms!Range(texts'[k]) = {asked[w][k]}
<1> DEFINE x == asked[w][k]
<1>1. termPc[w] = "commit" /\ terms[w] \in Seq(TermEntry)
  BY DEF Terms!Commit, TermsInv, TermsTyped
<1>2. WorkerFits("commit", terms[w], asked[w], sets[w], adds[w])
  BY <1>1 DEF TermsInv, WorkersFit
<1>3. k \in Terms!Keys /\ ~ NamedIn(terms[w], k)
  BY <1>2, EmptySeq DEF WorkerFits, NamedIn
<1>4. /\ k \in DOMAIN sets[w] /\ sets[w][k].text = x /\ sets[w][k].count \in Nat
      /\ k \in DOMAIN adds[w] => adds[w][k] \in [1 .. 1 -> Texts] /\ adds[w][k][1] = x
      /\ k \in DOMAIN adds[w] \/ sets[w][k].count # 0
  BY <1>2, <1>3 DEF WorkerFits
<1>5. sets[w][k].count =< Len(texts[k])
  BY <1>4 DEF TermsInv, RowsCounted
<1>6. /\ k \notin DOMAIN adds[w] =>
           /\ Len(texts'[k]) = Len(texts[k])
           /\ \A i \in 1 .. Len(texts[k]) : texts'[k][i] = IF i =< sets[w][k].count THEN x ELSE texts[k][i]
      /\ k \in DOMAIN adds[w] => (texts[k] = <<>> => texts'[k] = adds[w][k])
      /\ texts'[k] \in Seq(Texts)
  BY <1>3, <1>4, CommitOfTerms
<1>7. Len(texts[k]) \in Nat /\ texts'[k] \in Seq(Texts) /\ DOMAIN texts'[k] = 1 .. Len(texts'[k])
  BY <1>3, <1>6 DEF TermsInv, TermsTyped
<1> HIDE DEF x
<1>8. ASSUME k \notin termCrossed PROVE texts'[k] = <<x>>
  <2>1. /\ Len(texts[k]) =< 1
        /\ k \in DOMAIN adds[w] => texts[k] = <<>>
    BY <1>3, <1>8 DEF TermsInv, OneRowOrNone
  <2>2. CASE k \in DOMAIN adds[w]
    <3>1. texts'[k] = adds[w][k] /\ texts'[k] \in [1 .. 1 -> Texts] /\ texts'[k][1] = x
      BY <1>4, <1>6, <2>1, <2>2
    <3> QED BY <3>1
  <2>3. CASE k \notin DOMAIN adds[w]
    <3>1. Len(texts[k]) = 1 /\ sets[w][k].count = 1
      <4>1. sets[w][k].count \in Nat /\ sets[w][k].count # 0 /\ Len(texts[k]) \in Nat
        BY <1>4, <1>7, <2>3
      <4>2. sets[w][k].count =< Len(texts[k]) /\ Len(texts[k]) =< 1
        BY <1>5, <2>1
      <4>3. \A c \in Nat, n \in Nat : c # 0 /\ c =< n /\ n =< 1 => n = 1 /\ c = 1
        OBVIOUS
      <4> QED BY <4>1, <4>2, <4>3
    <3>2. Len(texts'[k]) = 1 /\ texts'[k][1] = x
      BY <1>6, <2>3, <3>1
    <3> QED BY <1>7, <3>2
  <2> QED BY <2>2, <2>3
<1>9. ASSUME k \notin DOMAIN adds[w], sets[w][k].count = Len(texts[k])
      PROVE  Terms!Range(texts'[k]) = {x}
  <2>1. Len(texts[k]) # 0 /\ Len(texts'[k]) = Len(texts[k])
    BY <1>4, <1>6, <1>9
  <2>2. \A i \in DOMAIN texts'[k] : texts'[k][i] = x
    BY <1>6, <1>7, <1>9, <2>1
  <2>3. 1 \in DOMAIN texts'[k]
    BY <1>7, <2>1
  <2> QED BY <2>2, <2>3 DEF Terms!Range
<1> QED BY <1>8, <1>9 DEF x

\* A term whose first translations did not cross has one translation, or none.
LEMMA OneTranslation ==
    ASSUME TermsInv, termCrossed = {}, NEW t \in TermNames, NEW l \in Langs
    PROVE  Terms!Translations(t, l) = {} \/ \E x \in Texts : Terms!Translations(t, l) = {x}
<1> DEFINE s == texts[<<t, l>>]
<1>1. <<t, l>> \in Terms!Keys
  BY DEF Terms!Keys
<1>2. s \in Seq(Texts) /\ Len(s) =< 1 /\ Len(s) \in Nat /\ DOMAIN s = 1 .. Len(s)
  BY <1>1 DEF TermsInv, TermsTyped, OneRowOrNone
<1>3. Terms!Translations(t, l) = {s[i] : i \in DOMAIN s}
  BY DEF Terms!Translations, Terms!Range
<1> HIDE DEF s
<1>4. CASE Len(s) = 0
  BY <1>2, <1>3, <1>4
<1>5. CASE Len(s) = 1
  <2>1. DOMAIN s = {1} /\ s[1] \in Texts
    BY <1>2, <1>5
  <2> QED BY <1>3, <2>1
<1> QED BY <1>2, <1>4, <1>5

LEMMA FoundWhenFresh == TermsInv => Terms!FoundAsShown
<1> SUFFICES ASSUME TermsInv, shown # None, fresh, termCrossed = {}, NEW lang \in Langs
             PROVE  /\ Terms!Shown(Title, lang) \subseteq Terms!Range(shown.title)
                    /\ Terms!Shown(Notes, lang) \subseteq UNION Terms!Range(shown.text)
  BY DEF Terms!FoundAsShown
<1>1. PICK title \in [Langs -> Texts \cup {Title, None}] :
        /\ \A l \in Langs : title[l] \in Terms!TitleFields(l)
        /\ shown = [title |-> title, text |-> [l \in Langs |-> Terms!TextField(l)]]
  BY DEF TermsInv, DocumentFits
<1>2. Title \in TermNames /\ Notes \in TermNames /\ DefaultLang \in Langs
  BY TermsAssumption
<1>3. \A l \in Langs : title[l] \in Terms!Range(shown.title)
  BY <1>1 DEF Terms!Range
<1>4. ASSUME NEW l \in Langs, Terms!Translations(Title, l) # {}
      PROVE  Terms!Translations(Title, l) = {title[l]}
  <2>1. title[l] \in Terms!Translations(Title, l)
    BY <1>1, <1>4 DEF Terms!TitleFields, Terms!OrElse
  <2> QED BY <1>2, <2>1, OneTranslation
<1>5. Terms!Translations(Title, DefaultLang) = {} => title[DefaultLang] = Title
  BY <1>1, <1>2 DEF Terms!TitleFields, Terms!OrElse
<1>6. Terms!Shown(Title, lang) \subseteq Terms!Range(shown.title)
  <2>1. CASE Terms!Translations(Title, lang) # {}
    <3>1. Terms!Shown(Title, lang) = {title[lang]}
      BY <1>4, <2>1 DEF Terms!Shown, Terms!OrElse
    <3> QED BY <1>3, <3>1
  <2>2. CASE Terms!Translations(Title, lang) = {} /\ Terms!Translations(Title, DefaultLang) # {}
    <3>1. Terms!Shown(Title, lang) = {title[DefaultLang]}
      BY <1>2, <1>4, <2>2 DEF Terms!Shown, Terms!OrElse
    <3> QED BY <1>2, <1>3, <3>1
  <2>3. CASE Terms!Translations(Title, lang) = {} /\ Terms!Translations(Title, DefaultLang) = {}
    <3>1. Terms!Shown(Title, lang) = {title[DefaultLang]}
      BY <1>5, <2>3 DEF Terms!Shown, Terms!OrElse
    <3> QED BY <1>2, <1>3, <3>1
  <2> QED BY <2>1, <2>2, <2>3
<1>7. \A l \in Langs : Terms!TextField(l) \in Terms!Range(shown.text)
  <2>1. /\ DOMAIN shown.text = Langs /\ \A l \in Langs : shown.text[l] = Terms!TextField(l)
    BY <1>1
  <2> QED BY <2>1 DEF Terms!Range
<1>8. Terms!Shown(Notes, lang) \subseteq Terms!TextField(lang) \cup Terms!TextField(DefaultLang)
  BY DEF Terms!Shown, Terms!OrElse, Terms!TextField
<1>9. Terms!Shown(Notes, lang) \subseteq UNION Terms!Range(shown.text)
  <2> DEFINE A == Terms!TextField(lang)
             B == Terms!TextField(DefaultLang)
             R == Terms!Range(shown.text)
             S == Terms!Shown(Notes, lang)
  <2>1. A \in R /\ B \in R /\ S \subseteq A \cup B
    BY <1>2, <1>7, <1>8
  <2> HIDE DEF A, B, R, S
  <2>2. S \subseteq UNION R
    BY <2>1
  <2> QED BY <2>2 DEF S, R
<1> QED BY <1>6, <1>9

\* A request that commits leaves one row for each term it named, with the last text it gave,
\* as long as no first translations of the term crossed; an update makes the rows of a term the
\* same again; and what a reader is shown is what is searched, in any language.
THEOREM TranslationsStayAsAsked == SiteSpec => TranslationsAsAsked
<1>1. TermsInv => \A w \in Workers : Terms!Commit(w) =>
        \A k \in DOMAIN asked[w] \ termCrossed : texts'[k] = <<asked[w][k]>>
  BY TermsAsAsked
<1>2. TermsInv => \A w \in Workers : Terms!Commit(w) =>
        \A k \in DOMAIN asked[w] : k \notin DOMAIN adds[w] /\ sets[w][k].count = Len(texts[k]) =>
          Terms!Range(texts'[k]) = {asked[w][k]}
  BY TermsAsAsked
<1> QED BY <1>1, <1>2, TermsInitially, TermsStep, FoundWhenFresh, SiteRunsTerms, PTL
     DEF Terms!Spec, TranslationsAsAsked, Terms!EachHasItsRow, Terms!RowsAgreeAgain

=============================================================================
