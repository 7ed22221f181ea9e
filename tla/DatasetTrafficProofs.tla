------------------------ MODULE DatasetTrafficProofs ------------------------
(***************************************************************************)
(* What holds of the index, for any number of datasets and workers: three   *)
(* mixes of requests, and an invariant for each.                           *)
(*                                                                         *)
(* Nothing is lost: among the requests that neither create nor delete,     *)
(* every dataset that is not in the index has somebody who will put it      *)
(* there, and what is pending in Solr has somebody who will commit it.      *)
(*                                                                         *)
(* No ghosts: among edits, deletions and bulk deletions, a document of a    *)
(* deleted dataset has somebody to answer for it: a transaction that will   *)
(* commit the dataset as active, or a bulk deletion that has still to       *)
(* remove the document.                                                    *)
(*                                                                         *)
(* The index follows the database when every request indexes under the lock *)
(* of the row (the last section).                                          *)
(***************************************************************************)
EXTENDS DatasetIndexProofs

-----------------------------------------------------------------------------
(***************************************************************************)
(* Nothing is lost.                                                        *)
(***************************************************************************)

\* The kinds that neither create nor delete a dataset.
KeepingKinds == AllKinds \ {"create", "delete", "bulk_delete"}

ActiveDoc(d) == d # None => d.state = "active"

AllActive ==
    /\ \A p \in Packages : ActiveDoc(db[p]) /\ ActiveDoc(solr[p]) /\ ActiveDoc(pend[p])
    /\ \A w \in Workers : /\ kind[w] \in KeepingKinds
                          /\ ActiveDoc(buf[w])
                          /\ "state" \in DOMAIN tx[w] => tx[w]["state"] = "active"

\* A rebuild that has dropped what it wants to drop, and who will commit to Solr.
Rewriting(w) == kind[w] = "rebuild" /\ pc[w] \in {"next", "get", "get_related", "insert"}
Flushing(w) == pc[w] = "flush" \/ Rewriting(w)

\* The worker will add a document of p.
Restores(w, p) ==
    \/ pkg[w] = p /\ pc[w] = "insert"
    \/ pkg[w] = p /\ Rewriting(w) /\ pc[w] \in {"get", "get_related"}
    \/ p \in todo[w] /\ Rewriting(w)

Found(p) == solr[p] # None \/ pend[p] # None

Complete ==
    /\ \A p \in Packages : db[p] # None => Found(p) \/ \E w \in Workers : Restores(w, p)
    /\ \A p \in Packages : pend[p] # None => \E w \in Workers : Flushing(w)
    /\ \A w \in Workers, p \in Packages : pc[w] = "clear" /\ db[p] # None => p \in todo[w]

LEMMA InitComplete == Init => AllActive /\ Complete
<1> SUFFICES ASSUME Init PROVE AllActive /\ Complete
  OBVIOUS
<1>1. FirstRow.state = "active"
  BY DEF FirstRow
<1>2. AllActive
  BY <1>1 DEF Init, AllActive, ActiveDoc, KeepingKinds, AllKinds, EmptyTx
<1>3. Complete
  BY DEF Init, Complete, Found
<1> QED BY <1>2, <1>3

\* What a step of w leaves active, and what it owes to the index.
StaysActive(w) ==
    /\ \A p \in Packages : ActiveDoc(db[p])' /\ ActiveDoc(solr[p])' /\ ActiveDoc(pend[p])'
    /\ kind'[w] \in KeepingKinds
    /\ ActiveDoc(buf[w])'
    /\ "state" \in DOMAIN tx'[w] => tx'[w]["state"] = "active"

Owes(w) ==
    /\ \A p \in Packages : db'[p] # None => db[p] # None
    /\ \A p \in Packages :
         db[p] # None /\ (Found(p) \/ Restores(w, p)) => Found(p)' \/ Restores(w, p)'
    /\ \A p \in Packages : pend'[p] # None => Flushing(w)' \/ (pend[p] # None /\ ~ Flushing(w))
    /\ pc'[w] = "clear" => \A p \in Packages : db'[p] # None => p \in todo'[w]

LEMMA KeepsComplete ==
    ASSUME Typed, AllActive, Complete, NEW w \in Workers, Only(w), StaysActive(w), Owes(w)
    PROVE  AllActive' /\ Complete'
<1>1. ASSUME NEW v \in Workers \ {w}
      PROVE  /\ pc'[v] = pc[v] /\ kind'[v] = kind[v] /\ pkg'[v] = pkg[v]
             /\ todo'[v] = todo[v] /\ buf'[v] = buf[v] /\ tx'[v] = tx[v]
  BY DEF Only, Typed, TypeOK
<1>2. AllActive'
  <2>1. ASSUME NEW v \in Workers
        PROVE  /\ kind'[v] \in KeepingKinds
               /\ ActiveDoc(buf[v])'
               /\ "state" \in DOMAIN tx'[v] => tx'[v]["state"] = "active"
    BY <1>1 DEF StaysActive, AllActive, ActiveDoc
  <2> QED BY <2>1 DEF StaysActive, AllActive
<1>3. ASSUME NEW v \in Workers \ {w}, NEW p \in Packages
      PROVE  Restores(v, p)' = Restores(v, p) /\ Flushing(v)' = Flushing(v)
  BY <1>1 DEF Restores, Flushing, Rewriting
<1>4. ASSUME NEW p \in Packages, db'[p] # None
      PROVE  Found(p)' \/ \E v \in Workers : Restores(v, p)'
  <2>1. db[p] # None
    BY <1>4 DEF Owes
  <2>2. CASE Found(p) \/ Restores(w, p)
    BY <2>1, <2>2 DEF Owes
  <2>3. CASE \E v \in Workers \ {w} : Restores(v, p)
    BY <1>3, <2>3
  <2> QED BY <2>1, <2>2, <2>3 DEF Complete
<1>5. ASSUME NEW p \in Packages, pend'[p] # None
      PROVE  \E v \in Workers : Flushing(v)'
  <2>1. CASE Flushing(w)'
    BY <2>1
  <2>2. CASE pend[p] # None /\ ~ Flushing(w)
    <3>1. PICK v \in Workers \ {w} : Flushing(v)
      BY <2>2 DEF Complete
    <3> QED BY <1>3, <1>5, <3>1
  <2> QED BY <1>5, <2>1, <2>2 DEF Owes
<1>6. ASSUME NEW v \in Workers, NEW p \in Packages, pc'[v] = "clear", db'[p] # None
      PROVE  p \in todo'[v]
  <2>1. CASE v = w
    BY <1>6, <2>1 DEF Owes
  <2>2. CASE v # w
    BY <1>1, <1>6, <2>2 DEF Owes, Complete
  <2> QED BY <2>1, <2>2
<1> QED BY <1>2, <1>4, <1>5, <1>6 DEF Complete

\* A step that leaves rows and index alone.
LEMMA IndexLeft ==
    ASSUME Typed, AllActive, NEW w \in Workers, UNCHANGED <<db, solr, pend>>,
           kind'[w] \in KeepingKinds, ActiveDoc(buf[w])',
           "state" \in DOMAIN tx'[w] => tx'[w]["state"] = "active",
           pc'[w] # "clear", Flushing(w) => Flushing(w)',
           \A p \in Packages : Restores(w, p) => Restores(w, p)'
    PROVE  StaysActive(w) /\ Owes(w)
BY DEF StaysActive, Owes, AllActive, ActiveDoc, Found

LEMMA FinishLeft ==
    ASSUME Typed, AllActive, NEW w \in Workers, Finish(w), UNCHANGED <<db, solr, pend, pkg, todo>>,
           ~ Flushing(w), pc[w] # "insert"
    PROVE  Only(w) /\ StaysActive(w) /\ Owes(w)
<1>1. Only(w)
  BY FinishTyped
<1>2. pc'[w] = "idle" /\ kind'[w] = "show" /\ buf'[w] = None /\ tx'[w] = EmptyTx
  BY DEF Finish, Goto, Typed, TypeOK
<1>3. \A p \in Packages : ~ Restores(w, p)
  BY DEF Restores, Flushing
<1> QED BY <1>1, <1>2, <1>3, IndexLeft DEF ActiveDoc, KeepingKinds, AllKinds, EmptyTx

LEMMA ViewActive ==
    ASSUME Typed, AllActive, NEW w \in Workers, pc[w] \in {"index", "commit"}
    PROVE  /\ View(w) \in Rows /\ View(w).state = "active" /\ db[pkg[w]] # None
           /\ pkg[w] \in Packages
<1>1. /\ WorkerTypeOK(w) /\ Shape(w) /\ StoresTypeOK /\ kind[w] # "create"
  BY DEF Typed, TypeOK, AllActive, KeepingKinds
<1>2. db[pkg[w]] # None /\ pkg[w] \in Packages
  BY <1>1 DEF Shape, Existing, WorkerTypeOK
<1>3. View(w).state = IF "state" \in DOMAIN tx[w] THEN tx[w]["state"] ELSE db[pkg[w]].state
  BY DEF View, Overlay, Fields, RowFields
<1> QED BY <1>1, <1>2, <1>3, ViewRow DEF AllActive, ActiveDoc

\* Rows joined are active when the package row is.
LEMMA JoinActive ==
    ASSUME NEW r \in Rows, NEW r2 \in Rows, r.state = "active"
    PROVE  Join(r, r2) \in Rows /\ Join(r, r2).state = "active"
BY JoinRow DEF Join, Fields, RowFields

\* What a request writes of the state is what it read.
LEMMA WriteActive ==
    ASSUME Typed, AllActive, NEW w \in Workers, pc[w] = "write", NEW admin \in BOOLEAN,
           "state" \in DOMAIN Delta(w, admin)
    PROVE  Delta(w, admin)["state"] = "active"
<1>1. WorkerTypeOK(w) /\ Shape(w) /\ kind[w] \in KeepingKinds
  BY DEF Typed, TypeOK, AllActive
<1>2. CASE kind[w] \in {"update", "move"}
  <2>1. Saved(w, admin) = arg[w] /\ DOMAIN arg[w] = EditFields
    BY <1>1, <1>2, UpdatesAssumption DEF Saved, Shape
  <2>2. Delta(w, admin) = EditDelta(w, admin)
    BY <1>2 DEF Delta, EditKinds
  <2>3. "state" \notin DOMAIN EditDelta(w, admin)
    BY <2>1 DEF EditDelta, Written, EditFields
  <2> QED BY <2>2, <2>3
<1>3. CASE kind[w] = "patch"
  <2>1. buf[w] # None /\ buf[w].state = "active" /\ arg[w] \in Patches
    BY <1>1, <1>3 DEF Shape, Holding, AllActive, ActiveDoc
  <2>2. "state" \notin DOMAIN arg[w]
    BY <2>1, PatchesAssumption DEF EditFields
  <2>3. Saved(w, admin) = [f \in EditFields \cup (IF admin THEN {"state"} ELSE {}) |->
                             IF f \in DOMAIN arg[w] THEN arg[w][f] ELSE buf[w][f]]
    BY <1>3 DEF Saved
  <2>4. Delta(w, admin) = EditDelta(w, admin)
    BY <1>3 DEF Delta, EditKinds
  <2>5. "state" \in DOMAIN Saved(w, admin) => Saved(w, admin)["state"] = "active"
    BY <2>1, <2>2, <2>3 DEF EditFields
  <2> QED BY <2>4, <2>5 DEF EditDelta, Written
<1>4. CASE kind[w] \notin EditKinds
  <2>1. kind[w] \in {"bulk_private", "bulk_public", "member_create", "member_delete", "relate"}
    BY <1>1, <1>4 DEF Shape, KindOK, KeepingKinds, AllKinds, EditKinds, BulkKinds, MemberKinds,
       ScanKinds
  <2>2. Delta(w, admin) = PlainDelta(kind[w])
    BY <1>4 DEF Delta, EditKinds
  <2>3. "state" \notin DOMAIN PlainDelta(kind[w])
    BY <2>1 DEF PlainDelta, BulkKinds
  <2> QED BY <2>2, <2>3
<1> QED BY <1>1, <1>2, <1>3, <1>4 DEF KeepingKinds, EditKinds

-----------------------------------------------------------------------------

\* The steps that touch neither the rows nor the index.
LEMMA ReadsKeep ==
    ASSUME Kinds \subseteq KeepingKinds, Typed, AllActive, NEW w \in Workers,
           \/ Start(w) \/ ShowRow(w) \/ ShowDoc(w) \/ Reply(w) \/ Stamp(w)
           \/ Write(w) \/ CreateClash(w) \/ BulkFetch(w)
    PROVE  Only(w) /\ StaysActive(w) /\ Owes(w)
<1>1. /\ WorkerTypeOK(w) /\ Shape(w) /\ StoresTypeOK /\ kind[w] \in KeepingKinds
      /\ ActiveDoc(buf[w]) /\ ("state" \in DOMAIN tx[w] => tx[w]["state"] = "active")
      /\ \A p \in Packages : ActiveDoc(db[p]) /\ ActiveDoc(solr[p])
      /\ pkg[w] \in Packages
  BY DEF Typed, TypeOK, AllActive, WorkerTypeOK
<1>2. ASSUME pc[w] \notin {"flush", "next", "get", "get_related", "insert"}
      PROVE  ~ Flushing(w) /\ \A p \in Packages : ~ Restores(w, p)
  BY <1>2 DEF Flushing, Restores, Rewriting
<1>3. CASE Start(w)
  <2>1. PICK k \in Kinds, p \in Packages :
          /\ \E d \in Arguments(k) : arg' = [arg EXCEPT ![w] = d]
          /\ kind' = [kind EXCEPT ![w] = k]
          /\ pkg' = [pkg EXCEPT ![w] = p]
          /\ Goto(w, FirstStep(k))
    BY <1>3 DEF Start
  <2>2. kind'[w] = k /\ pc'[w] = FirstStep(k) /\ k \in KeepingKinds
    BY <2>1 DEF Goto, Typed, TypeOK
  <2>3. FirstStep(k) # "clear"
    BY DEF FirstStep
  <2>4. Only(w) /\ pc[w] = "idle" /\ UNCHANGED <<db, solr, pend, buf, tx>>
    BY <1>3 DEF Start, stores, Only, Goto, Typed, TypeOK
  <2> QED BY <1>1, <1>2, <2>2, <2>3, <2>4, IndexLeft DEF ActiveDoc
<1>4. CASE ShowRow(w)
  <2>1. CASE db[pkg[w]] = None
    BY <1>2, <1>4, <2>1, FinishLeft DEF ShowRow
  <2>2. CASE db[pkg[w]] # None
    <3>1. /\ Only(w) /\ pc'[w] = "show_doc" /\ pc[w] = "show_row" /\ buf'[w] = db[pkg[w]]
          /\ UNCHANGED <<db, solr, pend, kind, tx>>
      BY <1>4, <2>2 DEF ShowRow, Only, Goto, Typed, TypeOK
    <3> QED BY <1>1, <1>2, <3>1, IndexLeft DEF ActiveDoc
  <2> QED BY <2>1, <2>2
<1>5. CASE ShowDoc(w)
  <2>1. /\ Only(w) /\ pc'[w] = "shown" /\ pc[w] = "show_doc"
        /\ buf'[w] = solr[pkg[w]] \/ buf'[w] = Join(buf[w], db[pkg[w]])
        /\ UNCHANGED <<db, solr, pend, kind, tx>>
    BY <1>5 DEF ShowDoc, Only, Goto, stores, request, Typed, TypeOK
  <2>2. buf[w] # None
    BY <1>1, <2>1 DEF Shape, Holding
  <2>3. Join(buf[w], db[pkg[w]]).state = buf[w].state
    BY DEF Join, Fields, RowFields
  <2> QED BY <1>1, <1>2, <2>1, <2>2, <2>3, IndexLeft DEF ActiveDoc
<1>6. CASE Reply(w)
  <2>1. CASE kind[w] = "patch"
    <3>1. /\ Only(w) /\ pc'[w] = "stamp" /\ pc[w] = "shown"
          /\ UNCHANGED <<db, solr, pend, kind, buf, tx>>
      BY <1>6, <2>1 DEF Reply, Only, Goto, local, Typed, TypeOK
    <3> QED BY <1>1, <1>2, <3>1, IndexLeft DEF ActiveDoc
  <2>2. CASE kind[w] # "patch"
    BY <1>2, <1>6, <2>2, FinishLeft DEF Reply
  <2> QED BY <2>1, <2>2
<1>7. CASE Stamp(w)
  <2>1. /\ Only(w) /\ pc'[w] = "write" /\ pc[w] = "stamp"
        /\ UNCHANGED <<db, solr, pend, kind, buf, tx>>
    BY <1>7 DEF Stamp, Only, Goto, stores, request, Typed, TypeOK
  <2> QED BY <1>1, <1>2, <2>1, IndexLeft DEF ActiveDoc
<1>8. CASE Write(w)
  <2>1. PICK admin \in BOOLEAN : tx' = [tx EXCEPT ![w] = Delta(w, admin)]
    BY <1>8 DEF Write
  <2>2. /\ Only(w) /\ pc'[w] \in {"index", "commit"} /\ pc[w] = "write"
        /\ tx'[w] = Delta(w, admin) /\ UNCHANGED <<db, solr, pend, kind, buf>>
    BY <1>8, <2>1 DEF Write, Only, Goto, request, Typed, TypeOK
  <2>3. "state" \in DOMAIN tx'[w] => tx'[w]["state"] = "active"
    BY <2>2, WriteActive
  <2> QED BY <1>1, <1>2, <2>2, <2>3, IndexLeft DEF ActiveDoc
<1>9. CASE CreateClash(w)
  BY <1>1, <1>9 DEF CreateClash, KeepingKinds
<1>10. CASE BulkFetch(w)
  <2>1. /\ Only(w) /\ pc'[w] \in {"flush", "patch"} /\ pc[w] = "fetch"
        /\ buf'[w] = solr[pkg[w]] /\ UNCHANGED <<db, solr, pend, kind, tx>>
    BY <1>10 DEF BulkFetch, Only, Goto, stores, request, Typed, TypeOK
  <2> QED BY <1>1, <1>2, <2>1, IndexLeft DEF ActiveDoc
<1> QED BY <1>3, <1>4, <1>5, <1>6, <1>7, <1>8, <1>9, <1>10

\* The steps of a scan up to the document.
LEMMA ScansKeep ==
    ASSUME Typed, AllActive, NEW w \in Workers,
           RebuildList(w) \/ RebuildNext(w) \/ GetRow(w) \/ GetRelated(w)
    PROVE  Only(w) /\ StaysActive(w) /\ Owes(w)
<1>1. /\ WorkerTypeOK(w) /\ Shape(w) /\ StoresTypeOK /\ kind[w] \in KeepingKinds
      /\ ActiveDoc(buf[w]) /\ ("state" \in DOMAIN tx[w] => tx[w]["state"] = "active")
      /\ \A p \in Packages : ActiveDoc(db[p])
      /\ pkg[w] \in Packages
  BY DEF Typed, TypeOK, AllActive, WorkerTypeOK
<1>2. CASE RebuildList(w)
  <2>1. /\ Only(w) /\ pc[w] = "list" /\ pc'[w] \in {"clear", "next"}
        /\ UNCHANGED <<db, solr, pend, kind, buf, tx>>
    BY <1>2 DEF RebuildList, Only, Goto, stores, Typed, TypeOK
  <2>2. ASSUME NEW p \in Packages, pc'[w] = "clear", db[p] # None PROVE p \in todo'[w]
    <3>1. todo'[w] = {q \in Packages : db[q] # None /\ db[q].state # "deleted"}
      BY <1>2, <2>2 DEF RebuildList, Goto, Typed, TypeOK
    <3> QED BY <1>1, <2>2, <3>1 DEF ActiveDoc
  <2>3. ~ Flushing(w) /\ \A p \in Packages : ~ Restores(w, p)
    BY <2>1 DEF Flushing, Restores, Rewriting
  <2> QED BY <1>1, <2>1, <2>2, <2>3 DEF StaysActive, Owes, AllActive, ActiveDoc, Found
<1>3. CASE RebuildNext(w)
  <2>1. /\ Only(w) /\ pc[w] = "next" /\ UNCHANGED <<db, solr, pend, kind, buf, tx>>
        /\ kind[w] = "rebuild"
        /\ \/ todo[w] = {} /\ pc'[w] = "flush"
           \/ /\ pc'[w] = "get"
              /\ \E p \in todo[w] : pkg'[w] = p /\ todo'[w] = todo[w] \ {p}
    BY <1>1, <1>3 DEF RebuildNext, Only, Goto, stores, local, Shape, KindOK, Typed, TypeOK
  <2>2. Flushing(w)' /\ pc'[w] # "clear"
    BY <2>1 DEF Flushing, Rewriting
  <2>3. \A p \in Packages : Restores(w, p) => Restores(w, p)'
    BY <2>1 DEF Restores, Rewriting
  <2> QED BY <1>1, <2>1, <2>2, <2>3, IndexLeft DEF ActiveDoc
<1>4. CASE GetRow(w)
  <2>1. CASE kind[w] \in MemberKinds /\ db[pkg[w]].groups = PlainDelta(kind[w]).groups
    BY <1>4, <2>1, FinishLeft DEF GetRow, Flushing, Rewriting, MemberKinds
  <2>2. CASE ~ (kind[w] \in MemberKinds /\ db[pkg[w]].groups = PlainDelta(kind[w]).groups)
    <3>1. /\ Only(w) /\ pc[w] = "get" /\ buf'[w] = db[pkg[w]]
          /\ pc'[w] = IF kind[w] \in ScanKinds THEN "get_related" ELSE "write"
          /\ UNCHANGED <<db, solr, pend, kind, pkg, todo, tx>>
      BY <1>4, <2>2 DEF GetRow, Only, Goto, Typed, TypeOK
    <3>2. Flushing(w) => Flushing(w)'
      BY <3>1 DEF Flushing, Rewriting, ScanKinds
    <3>3. \A p \in Packages : Restores(w, p) => Restores(w, p)'
      BY <3>1 DEF Restores, Rewriting, ScanKinds
    <3> QED BY <1>1, <3>1, <3>2, <3>3, IndexLeft DEF ActiveDoc
  <2> QED BY <2>1, <2>2
<1>5. CASE GetRelated(w)
  <2>1. /\ Only(w) /\ pc[w] = "get_related" /\ buf'[w] = Join(buf[w], db[pkg[w]])
        /\ pc'[w] = IF kind[w] = "reindex" THEN "remove" ELSE "insert"
        /\ UNCHANGED <<db, solr, pend, kind, pkg, todo, tx>>
    BY <1>5 DEF GetRelated, Only, Goto, stores, request, Typed, TypeOK
  <2>2. buf[w] # None /\ Join(buf[w], db[pkg[w]]).state = buf[w].state
    BY <1>1, <2>1 DEF Shape, Holding, Join, Fields, RowFields
  <2>3. Flushing(w) => Flushing(w)'
    BY <2>1 DEF Flushing, Rewriting
  <2>4. \A p \in Packages : Restores(w, p) => Restores(w, p)'
    BY <2>1 DEF Restores, Rewriting
  <2> QED BY <1>1, <2>1, <2>2, <2>3, <2>4, IndexLeft DEF ActiveDoc
<1> QED BY <1>2, <1>3, <1>4, <1>5

\* The steps that index a dataset, or that empty the index.
LEMMA IndexesKeep ==
    ASSUME Typed, AllActive, Complete, NEW w \in Workers,
           \/ NotifyIndex(w) \/ IndexAgain(w) \/ BulkPatch(w) \/ CommitIndex(w)
           \/ RebuildClear(w) \/ Remove(w) \/ Insert(w)
    PROVE  Only(w) /\ StaysActive(w) /\ Owes(w)
<1>1. /\ WorkerTypeOK(w) /\ Shape(w) /\ StoresTypeOK /\ kind[w] \in KeepingKinds
      /\ ActiveDoc(buf[w]) /\ ("state" \in DOMAIN tx[w] => tx[w]["state"] = "active")
      /\ \A p \in Packages : ActiveDoc(db[p]) /\ ActiveDoc(solr[p]) /\ ActiveDoc(pend[p])
      /\ pkg[w] \in Packages
      /\ Existing(w) => db[pkg[w]] \in Rows
      /\ Holding(w) => buf[w] \in Rows /\ buf[w].state = "active"
  BY DEF Typed, TypeOK, StoresTypeOK, AllActive, WorkerTypeOK, Shape, ActiveDoc
<1>2. \A p \in Packages :
        ActiveDoc(Visible[p]) /\ (Visible[p] # None <=> Found(p))
  BY <1>1 DEF Visible, Found, ActiveDoc
<1>3. CASE NotifyIndex(w)
  <2> DEFINE doc == IF kind[w] \in MemberKinds THEN Join(buf[w], View(w)) ELSE View(w)
  <2>1. /\ Only(w) /\ pc[w] = "index" /\ pc'[w] = "commit" /\ IndexPackage(pkg[w], doc)
        /\ UNCHANGED <<db, kind, buf, tx>>
    BY <1>3 DEF NotifyIndex, Only, Goto, request, Typed, TypeOK
  <2>2. doc \in Rows /\ doc.state = "active"
    <3>1. View(w) \in Rows /\ View(w).state = "active"
      BY <2>1, ViewActive
    <3>2. kind[w] \in MemberKinds => buf[w] \in Rows /\ buf[w].state = "active"
      BY <1>1, <2>1 DEF Holding
    <3> QED BY <3>1, <3>2, JoinActive
  <2>3. ~ Flushing(w) /\ \A p \in Packages : ~ Restores(w, p)
    BY <2>1 DEF Flushing, Restores, Rewriting
  <2> HIDE DEF doc
  <2>4. \A p \in Packages : ActiveDoc(solr[p])' /\ pend'[p] = None /\ (Found(p) => Found(p)')
    <3>1. solr' = [Visible EXCEPT ![pkg[w]] = doc] /\ pend' = [p \in Packages |-> None]
      BY <2>1, <2>2 DEF IndexPackage
    <3>2. doc # None /\ solr'[pkg[w]] = doc /\ \A p \in Packages \ {pkg[w]} : solr'[p] = Visible[p]
      BY <1>1, <2>2, <3>1, NoneAssumption DEF Visible
    <3> QED BY <1>2, <2>2, <3>1, <3>2 DEF ActiveDoc, Found
  <2> QED BY <1>1, <2>1, <2>3, <2>4 DEF StaysActive, Owes, ActiveDoc
<1>4. CASE IndexAgain(w)
  <2> DEFINE doc == Join(buf[w], db[pkg[w]])
  <2>1. /\ Only(w) /\ pc[w] = "again" /\ pc'[w] = "idle" /\ IndexPackage(pkg[w], doc)
        /\ kind'[w] = "show" /\ buf'[w] = None /\ tx'[w] = EmptyTx
        /\ UNCHANGED db
    BY <1>4, FinishTyped DEF IndexAgain, Finish, Goto, Typed, TypeOK
  <2>2. doc \in Rows /\ doc.state = "active"
    <3>1. Holding(w) /\ Existing(w)
      BY <1>1, <2>1 DEF Holding, Existing, KeepingKinds
    <3> QED BY <1>1, <3>1, JoinActive
  <2>3. ~ Flushing(w) /\ \A p \in Packages : ~ Restores(w, p)
    BY <2>1 DEF Flushing, Restores, Rewriting
  <2> HIDE DEF doc
  <2>4. \A p \in Packages : ActiveDoc(solr[p])' /\ pend'[p] = None /\ (Found(p) => Found(p)')
    <3>1. solr' = [Visible EXCEPT ![pkg[w]] = doc] /\ pend' = [p \in Packages |-> None]
      BY <2>1, <2>2 DEF IndexPackage
    <3>2. doc # None /\ solr'[pkg[w]] = doc /\ \A p \in Packages \ {pkg[w]} : solr'[p] = Visible[p]
      BY <1>1, <2>2, <3>1, NoneAssumption DEF Visible
    <3> QED BY <1>2, <2>2, <3>1, <3>2 DEF ActiveDoc, Found
  <2> QED BY <1>1, <2>1, <2>3, <2>4
          DEF StaysActive, Owes, ActiveDoc, KeepingKinds, AllKinds, EmptyTx
<1>5. CASE BulkPatch(w)
  <2> DEFINE doc == Overlay(PlainDelta(kind[w]), buf[w])
  <2>1. /\ Only(w) /\ pc[w] = "patch" /\ pc'[w] = "flush" /\ IndexDeferred(pkg[w], doc)
        /\ UNCHANGED <<db, kind, buf, tx>>
    BY <1>5 DEF BulkPatch, Only, Goto, request, Typed, TypeOK
  <2>2. doc.state = "active" /\ doc # None
    <3>1. kind[w] \in {"bulk_private", "bulk_public"} /\ buf[w] \in Rows /\ buf[w].state = "active"
      BY <1>1, <2>1 DEF Shape, KindOK, BulkKinds, KeepingKinds, Holding
    <3>2. Partial(PlainDelta(kind[w])) /\ "state" \notin DOMAIN PlainDelta(kind[w])
      BY <3>1 DEF PlainDelta, Partial, BulkKinds, Fields, RowFields, RelatedFields
    <3>3. doc \in Rows
      BY <3>1, <3>2, OverlayRow
    <3> QED BY <3>1, <3>2, <3>3, NoneAssumption DEF Overlay, Fields, RowFields
  <2>3. pend' = [pend EXCEPT ![pkg[w]] = doc] /\ solr' = solr
    BY <2>1, <2>2 DEF IndexDeferred
  <2>4. ~ Flushing(w) /\ Flushing(w)' /\ \A p \in Packages : ~ Restores(w, p)
    BY <2>1 DEF Flushing, Restores, Rewriting
  <2> HIDE DEF doc
  <2>5. \A p \in Packages : ActiveDoc(pend[p])' /\ (Found(p) => Found(p)')
    BY <1>1, <2>2, <2>3 DEF StoresTypeOK, ActiveDoc, Found
  <2> QED BY <1>1, <2>1, <2>3, <2>4, <2>5 DEF StaysActive, Owes, ActiveDoc
<1>6. CASE CommitIndex(w)
  <2>1. /\ Only(w) /\ pc[w] = "flush" /\ pc'[w] = "idle"
        /\ kind'[w] = "show" /\ buf'[w] = None /\ tx'[w] = EmptyTx
        /\ solr' = Visible /\ pend' = [p \in Packages |-> None]
        /\ UNCHANGED db
    BY <1>6, FinishTyped DEF CommitIndex, Finish, Goto, Typed, TypeOK
  <2>2. \A p \in Packages : ~ Restores(w, p)
    BY <2>1 DEF Restores, Rewriting
  <2> QED BY <1>1, <1>2, <2>1, <2>2
          DEF StaysActive, Owes, ActiveDoc, Found, KeepingKinds, AllKinds, EmptyTx
<1>7. CASE RebuildClear(w)
  <2>1. /\ Only(w) /\ pc[w] = "clear" /\ pc'[w] = "next" /\ kind[w] = "rebuild"
        /\ solr' = [p \in Packages |-> None] /\ pend' = [p \in Packages |-> None]
        /\ UNCHANGED <<db, kind, todo, buf, tx>>
    BY <1>1, <1>7 DEF RebuildClear, Only, Goto, request, Shape, KindOK, Typed, TypeOK
  <2>2. \A p \in Packages : db[p] # None => Restores(w, p)'
    BY <2>1 DEF Complete, Restores, Rewriting
  <2> QED BY <1>1, <2>1, <2>2 DEF StaysActive, Owes, ActiveDoc
<1>8. CASE Remove(w)
  <2>1. /\ Only(w) /\ pc[w] = "remove" /\ pc'[w] = "insert"
        /\ solr' = [Visible EXCEPT ![pkg[w]] = None] /\ pend' = [p \in Packages |-> None]
        /\ UNCHANGED <<db, kind, pkg, todo, buf, tx>>
    BY <1>8 DEF Remove, Only, Goto, request, Typed, TypeOK
  <2>2. ~ Flushing(w) /\ \A p \in Packages : ~ Restores(w, p)
    BY <2>1 DEF Flushing, Restores, Rewriting
  <2>3. /\ solr'[pkg[w]] = None
        /\ \A p \in Packages \ {pkg[w]} : solr'[p] = Visible[p]
    BY <1>1, <2>1 DEF Visible
  <2>4. Restores(w, pkg[w])'
    BY <2>1 DEF Restores
  <2> QED BY <1>1, <1>2, <2>1, <2>2, <2>3, <2>4 DEF StaysActive, Owes, ActiveDoc, Found
<1>9. CASE Insert(w)
  <2>1. pc[w] = "insert" /\ buf[w] \in Rows /\ buf[w].state = "active" /\ UNCHANGED db
    BY <1>1, <1>9 DEF Insert, Holding
  <2>2. CASE kind[w] = "rebuild"
    <3>1. /\ Only(w) /\ pc'[w] = "next" /\ IndexDeferred(pkg[w], buf[w]) /\ buf'[w] = None
          /\ UNCHANGED <<kind, pkg, todo, tx>>
      BY <1>9, <2>2 DEF Insert, Only, Goto, Typed, TypeOK
    <3>2. pend' = [pend EXCEPT ![pkg[w]] = buf[w]] /\ solr' = solr /\ buf[w] # None
      BY <2>1, <3>1, NoneAssumption DEF IndexDeferred
    <3>3. /\ pend'[pkg[w]] = buf[w]
          /\ \A p \in Packages \ {pkg[w]} : pend'[p] = pend[p]
      BY <1>1, <3>2 DEF StoresTypeOK
    <3>4. Flushing(w)' /\ \A p \in Packages : Restores(w, p) => p = pkg[w] \/ Restores(w, p)'
      BY <2>1, <2>2, <3>1 DEF Flushing, Restores, Rewriting
    <3>5. \A p \in Packages : /\ ActiveDoc(pend[p])'
                              /\ Found(p) \/ Restores(w, p) => Found(p)' \/ Restores(w, p)'
      BY <1>1, <2>1, <3>2, <3>3, <3>4 DEF ActiveDoc, Found
    <3> QED BY <1>1, <2>1, <3>1, <3>2, <3>4, <3>5 DEF StaysActive, Owes, ActiveDoc
  <2>3. CASE kind[w] # "rebuild"
    <3>1. /\ Only(w) /\ pc'[w] = "idle" /\ IndexPackage(pkg[w], buf[w])
          /\ kind'[w] = "show" /\ buf'[w] = None /\ tx'[w] = EmptyTx
      BY <1>9, <2>3, FinishTyped DEF Insert, Finish, Goto, Typed, TypeOK
    <3>2. ~ Flushing(w) /\ \A p \in Packages : Restores(w, p) => p = pkg[w]
      BY <2>1, <2>3 DEF Flushing, Restores, Rewriting
    <3>3. /\ \A p \in Packages : ActiveDoc(solr[p])' /\ pend'[p] = None /\ (Found(p) => Found(p)')
          /\ solr'[pkg[w]] # None
      <4>1. solr' = [Visible EXCEPT ![pkg[w]] = buf[w]] /\ pend' = [p \in Packages |-> None]
        BY <2>1, <3>1 DEF IndexPackage
      <4>2. /\ buf[w] # None /\ solr'[pkg[w]] = buf[w]
            /\ \A p \in Packages \ {pkg[w]} : solr'[p] = Visible[p]
        BY <1>1, <2>1, <4>1, NoneAssumption DEF Visible
      <4> QED BY <1>2, <2>1, <4>1, <4>2 DEF ActiveDoc, Found
    <3> QED BY <1>1, <2>1, <3>1, <3>2, <3>3
            DEF StaysActive, Owes, ActiveDoc, Found, KeepingKinds, AllKinds, EmptyTx
  <2> QED BY <2>2, <2>3
<1> QED BY <1>3, <1>4, <1>5, <1>6, <1>7, <1>8, <1>9

\* The commit of the database.
LEMMA CommitKeeps ==
    ASSUME Typed, AllActive, NEW w \in Workers, Commit(w)
    PROVE  Only(w) /\ StaysActive(w) /\ Owes(w)
<1>1. /\ pc[w] = "commit" /\ db' = [db EXCEPT ![pkg[w]] = View(w)]
      /\ UNCHANGED <<solr, pend, pkg, todo>>
  BY DEF Commit
<1>2. /\ View(w) \in Rows /\ View(w).state = "active" /\ db[pkg[w]] # None
      /\ pkg[w] \in Packages /\ kind[w] \in KeepingKinds
  BY <1>1, ViewActive DEF AllActive
<1>3. /\ Only(w)
      /\ \/ pc'[w] = "idle" /\ kind'[w] = "show" /\ buf'[w] = None /\ tx'[w] = EmptyTx
         \/ /\ pc'[w] \in {"again", "fetch"} /\ kind'[w] = kind[w]
            /\ buf'[w] = View(w) /\ tx'[w] = EmptyTx
  <2>1. CASE kind[w] \in {"move"} \cup BulkKinds
    BY <1>1, <2>1 DEF Commit, Only, Goto, Typed, TypeOK
  <2>2. CASE kind[w] \notin {"move"} \cup BulkKinds
    <3>1. Finish(w)
      BY <2>2 DEF Commit
    <3> QED BY <1>1, <3>1, FinishTyped DEF Finish, Goto, Typed, TypeOK
  <2> QED BY <2>1, <2>2
<1>4. /\ db'[pkg[w]] = View(w)
      /\ \A p \in Packages \ {pkg[w]} : db'[p] = db[p]
  BY <1>1, <1>2 DEF Typed, TypeOK, StoresTypeOK
<1>5. ~ Flushing(w) /\ \A p \in Packages : ~ Restores(w, p)
  BY <1>1 DEF Flushing, Restores, Rewriting
<1>6. kind'[w] \in KeepingKinds /\ ActiveDoc(buf[w])' /\ DOMAIN tx'[w] = {}
  BY <1>2, <1>3 DEF ActiveDoc, KeepingKinds, AllKinds, EmptyTx
<1>7. \A p \in Packages : ActiveDoc(db[p])' /\ ActiveDoc(solr[p])' /\ ActiveDoc(pend[p])'
  BY <1>1, <1>2, <1>4 DEF AllActive, ActiveDoc
<1>8. pc'[w] # "clear"
  BY <1>3
<1> QED BY <1>1, <1>2, <1>3, <1>4, <1>5, <1>6, <1>7, <1>8 DEF StaysActive, Owes, Found

LEMMA StepComplete ==
    ASSUME Kinds \subseteq KeepingKinds, ~ Faults
    PROVE  Typed /\ AllActive /\ Complete /\ [Next]_vars => AllActive' /\ Complete'
<1> SUFFICES ASSUME Typed, AllActive, Complete, [Next]_vars
             PROVE  AllActive' /\ Complete'
  OBVIOUS
<1>1. ASSUME NEW w \in Workers, Start(w) \/ Write(w) \/ Step(w)
      PROVE  Only(w) /\ StaysActive(w) /\ Owes(w)
  BY <1>1, ReadsKeep, ScansKeep, IndexesKeep, CommitKeeps DEF Step
<1>2. CASE UNCHANGED vars
  BY <1>2 DEF vars, AllActive, ActiveDoc, Complete, Found, Restores, Rewriting, Flushing
<1> QED BY <1>1, <1>2, KeepsComplete DEF Next, Abort

\* Among requests that neither create nor delete a dataset, and that no store refuses,
\* every dataset is in the index in the end, and no document stays invisible, whatever
\* moves, bulk updates, member requests and scans interleave: DatasetIndex, IndexComplete.
THEOREM NothingIsLost ==
    ASSUME Kinds \subseteq KeepingKinds, ~ Faults
    PROVE  Spec => []IndexComplete
<1>1. Spec => [](Typed /\ AllActive /\ Complete)
  BY InitTyped, StepTyped, InitComplete, StepComplete, PTL DEF Spec
<1>2. Complete => IndexComplete
  BY DEF Complete, Found, Flushing, Restores, Rewriting, IndexComplete, Quiet
<1> QED BY <1>1, <1>2, PTL

-----------------------------------------------------------------------------
(***************************************************************************)
(* No ghosts.                                                              *)
(***************************************************************************)

\* The kinds that add a document only under the lock of the row.
DeletionKinds == {"show", "create", "update", "patch", "delete", "bulk_delete"}

\* A transaction has the lock of its row; if it will commit the dataset as deleted,
\* it has removed the document.
HolderOK(w) ==
    /\ kind[w] \in DeletionKinds
    /\ pc[w] \in {"index", "commit"} => lock[pkg[w]] = w
    /\ pc[w] = "commit" /\ Notified(kind[w]) /\ View(w).state = "deleted" => solr[pkg[w]] = None

NonePending == \A p \in Packages : pend[p] = None

Orderly == NonePending /\ \A w \in Workers : HolderOK(w)

Ghost(p) == db[p] # None /\ db[p].state = "deleted" /\ solr[p] # None

AnswersFor(w, p) ==
    /\ pkg[w] = p
    /\ \/ pc[w] = "commit" /\ Notified(kind[w]) /\ View(w).state = "active"
       \/ pc[w] \in {"fetch", "patch"}

GhostsAnswered == \A p \in Packages : Ghost(p) => \E w \in Workers : AnswersFor(w, p)

LEMMA InitOrderly == Init => Orderly /\ GhostsAnswered
<1> SUFFICES ASSUME Init PROVE Orderly /\ GhostsAnswered
  OBVIOUS
<1>1. FirstRow.state = "active"
  BY DEF FirstRow
<1>2. Orderly
  BY DEF Init, Orderly, NonePending, HolderOK, DeletionKinds
<1>3. GhostsAnswered
  BY <1>1 DEF Init, GhostsAnswered, Ghost
<1> QED BY <1>2, <1>3

\* The steps that change neither the rows nor the documents: they take no lock that is
\* held, and whoever answers for a document goes on doing so.
Beside(w) ==
    /\ Only(w)
    /\ UNCHANGED <<db, solr, pend>>
    /\ \A p \in Packages : lock[p] # None /\ lock[p] # w => lock'[p] = lock[p]
    /\ kind'[w] \in DeletionKinds
    /\ pc'[w] \in {"index", "commit"} => lock'[pkg'[w]] = w
    /\ pc'[w] = "commit" => ~ Notified(kind'[w])
    /\ \A p \in Packages : Ghost(p) /\ AnswersFor(w, p) => AnswersFor(w, p)'

LEMMA BesideOrderly ==
    ASSUME Typed, Orderly, GhostsAnswered, NEW w \in Workers, Beside(w)
    PROVE  Orderly' /\ GhostsAnswered'
<1>1. ASSUME NEW v \in Workers \ {w}
      PROVE  /\ pc'[v] = pc[v] /\ kind'[v] = kind[v] /\ pkg'[v] = pkg[v]
             /\ View(v)' = View(v) /\ pkg[v] \in Packages /\ v # None
  BY NoneAssumption DEF Beside, Only, Typed, TypeOK, WorkerTypeOK, View
<1>2. ASSUME NEW v \in Workers PROVE HolderOK(v)'
  <2>1. CASE v = w
    BY <2>1 DEF Beside, HolderOK
  <2>2. CASE v # w
    BY <1>1, <2>2 DEF Beside, Orderly, HolderOK
  <2> QED BY <2>1, <2>2
<1>3. ASSUME NEW p \in Packages, Ghost(p)' PROVE (\E v \in Workers : AnswersFor(v, p))'
  <2>1. Ghost(p)
    BY <1>3 DEF Beside, Ghost
  <2>2. PICK v \in Workers : AnswersFor(v, p)
    BY <2>1 DEF GhostsAnswered
  <2>3. CASE v = w
    BY <2>1, <2>2, <2>3 DEF Beside
  <2>4. CASE v # w
    <3>1. AnswersFor(v, p)'
      BY <1>1, <2>2, <2>4 DEF AnswersFor
    <3> QED BY <3>1
  <2> QED BY <2>3, <2>4
<1> QED BY <1>2, <1>3 DEF Beside, Orderly, NonePending, GhostsAnswered

LEMMA FinishBeside ==
    ASSUME Typed, NEW w \in Workers, Finish(w), UNCHANGED <<db, solr, pend, pkg, todo>>,
           \A p \in Packages : Ghost(p) => ~ AnswersFor(w, p)
    PROVE  Beside(w)
<1>1. Only(w)
  BY FinishTyped
<1>2. pc'[w] = "idle" /\ kind'[w] = "show"
  BY DEF Finish, Goto, Typed, TypeOK
<1> QED BY <1>1, <1>2 DEF Beside, Finish, Unlock, DeletionKinds

\* Without pending documents, a commit of Solr makes nothing visible.
LEMMA NothingHidden ==
    ASSUME Typed, Orderly PROVE Visible = solr /\ pend = [p \in Packages |-> None]
<1>1. solr = [p \in Packages |-> solr[p]] /\ pend = [p \in Packages |-> pend[p]]
  BY DEF Typed, TypeOK, StoresTypeOK
<1> QED BY <1>1 DEF Visible, Orderly, NonePending

LEMMA NotifyOrderly ==
    ASSUME Typed, Orderly, GhostsAnswered, NEW w \in Workers, NotifyIndex(w)
    PROVE  Orderly' /\ GhostsAnswered'
<1>1. /\ UNCHANGED <<db, lock, kind, pkg, tx>>
      /\ pc[w] = "index" /\ pc'[w] = "commit"
      /\ pkg[w] \in Packages /\ lock[pkg[w]] = w
      /\ IndexPackage(pkg[w], View(w)) /\ View(w) \in Rows
  <2>1. kind[w] \notin MemberKinds
    BY DEF Orderly, HolderOK, DeletionKinds, MemberKinds
  <2> QED BY <2>1, ViewRow DEF NotifyIndex, Goto, request, Typed, TypeOK, WorkerTypeOK, Orderly,
             HolderOK
<1>2. /\ solr' = [solr EXCEPT ![pkg[w]] = IF View(w).state = "deleted" THEN None ELSE View(w)]
      /\ NonePending'
  BY <1>1, NothingHidden DEF IndexPackage, NonePending
<1>3. /\ solr'[pkg[w]] = IF View(w).state = "deleted" THEN None ELSE View(w)
      /\ \A p \in Packages \ {pkg[w]} : solr'[p] = solr[p]
  BY <1>1, <1>2 DEF Typed, TypeOK, StoresTypeOK
<1>4. ASSUME NEW v \in Workers
      PROVE View(v)' = View(v) /\ pkg[v] \in Packages /\ (v # w => pc'[v] = pc[v])
  BY <1>1 DEF View, NotifyIndex, Goto, Typed, TypeOK, WorkerTypeOK
<1>5. ASSUME NEW v \in Workers PROVE HolderOK(v)'
  BY <1>1, <1>3, <1>4 DEF Orderly, HolderOK
<1>6. ASSUME NEW p \in Packages, Ghost(p)' PROVE (\E v \in Workers : AnswersFor(v, p))'
  <2>1. CASE p = pkg[w]
    <3>1. View(w).state = "active"
      BY <1>1, <1>3, <1>6, <2>1, RowElim DEF Ghost, States
    <3>2. Notified(kind[w])
      BY <1>1 DEF Typed, Shape, KindOK
    <3>3. AnswersFor(w, p)'
      BY <1>1, <1>4, <2>1, <3>1, <3>2 DEF AnswersFor, Notified
    <3> QED BY <3>3
  <2>2. CASE p # pkg[w]
    <3>1. Ghost(p)
      BY <1>1, <1>3, <1>6, <2>2 DEF Ghost
    <3>2. PICK v \in Workers : AnswersFor(v, p)
      BY <3>1 DEF GhostsAnswered
    <3>3. AnswersFor(v, p)'
      BY <1>1, <1>4, <2>2, <3>2 DEF AnswersFor, Notified
    <3> QED BY <3>3
  <2> QED BY <2>1, <2>2
<1> QED BY <1>2, <1>5, <1>6 DEF Orderly, GhostsAnswered

\* A bulk deletion goes on to the document; any other request has dealt with it.
LEMMA CommitOrderly ==
    ASSUME Typed, Orderly, GhostsAnswered, NEW w \in Workers, Commit(w)
    PROVE  Orderly' /\ GhostsAnswered'
<1>1. /\ db' = [db EXCEPT ![pkg[w]] = View(w)] /\ UNCHANGED <<solr, pend, pkg>>
      /\ pc[w] = "commit" /\ pkg[w] \in Packages /\ Unlock(w)
      /\ View(w) \in Rows /\ kind[w] \in DeletionKinds
      /\ Finish(w) \/ /\ kind[w] = "bulk_delete" /\ Goto(w, "fetch")
                      /\ tx' = [tx EXCEPT ![w] = EmptyTx] /\ UNCHANGED kind
      /\ kind[w] # "bulk_delete" => Finish(w)
  <2>1. kind[w] \in DeletionKinds
    BY DEF Orderly, HolderOK
  <2>2. kind[w] \in {"move"} \cup BulkKinds <=> kind[w] = "bulk_delete"
    BY <2>1 DEF DeletionKinds, BulkKinds
  <2> QED BY <2>1, <2>2, ViewRow DEF Commit, Finish, Typed, TypeOK, WorkerTypeOK
<1>2. lock[pkg[w]] = w
  BY <1>1 DEF Orderly, HolderOK
<1>3. /\ db'[pkg[w]] = View(w)
      /\ \A p \in Packages \ {pkg[w]} : db'[p] = db[p]
  BY <1>1 DEF Typed, TypeOK, StoresTypeOK
<1>4. /\ pc'[w] = IF kind[w] = "bulk_delete" THEN "fetch" ELSE "idle"
      /\ kind'[w] \in DeletionKinds
      /\ \A p \in Packages : lock[p] # w => lock'[p] = lock[p]
  BY <1>1 DEF Finish, Goto, Unlock, Commit, Typed, TypeOK, StoresTypeOK, DeletionKinds, BulkKinds
<1>5. ASSUME NEW v \in Workers \ {w}
      PROVE  /\ pc'[v] = pc[v] /\ kind'[v] = kind[v] /\ pkg[v] \in Packages
             /\ pc[v] \in {"index", "commit"} => pkg[v] # pkg[w] /\ View(v)' = View(v)
  <2>1. pc'[v] = pc[v] /\ kind'[v] = kind[v] /\ tx'[v] = tx[v] /\ pkg[v] \in Packages
    BY <1>1 DEF Finish, Goto, Typed, TypeOK, WorkerTypeOK
  <2>2. ASSUME pc[v] \in {"index", "commit"} PROVE pkg[v] # pkg[w]
    BY <1>2, <2>2 DEF Orderly, HolderOK
  <2> QED BY <1>1, <1>3, <2>1, <2>2 DEF View
<1>6. ASSUME NEW v \in Workers PROVE HolderOK(v)'
  <2>1. CASE v = w
    BY <1>4, <2>1 DEF HolderOK
  <2>2. CASE v # w
    BY <1>1, <1>4, <1>5, <2>2 DEF Orderly, HolderOK
  <2> QED BY <2>1, <2>2
<1>7. ASSUME NEW p \in Packages, Ghost(p)' PROVE (\E v \in Workers : AnswersFor(v, p))'
  <2>1. CASE p = pkg[w]
    <3>1. View(w).state = "deleted" /\ solr[p] # None
      BY <1>1, <1>3, <1>7, <2>1 DEF Ghost
    <3>2. ~ Notified(kind[w])
      BY <1>1, <2>1, <3>1 DEF Orderly, HolderOK
    <3>3. kind[w] = "bulk_delete"
      <4>1. kind[w] # "show"
        BY <1>1 DEF Typed, Shape, KindOK
      <4> QED BY <1>1, <3>2, <4>1 DEF DeletionKinds, Notified, EditKinds
    <3>4. AnswersFor(w, p)'
      BY <1>1, <1>4, <2>1, <3>3 DEF AnswersFor
    <3> QED BY <3>4
  <2>2. CASE p # pkg[w]
    <3>1. Ghost(p)
      BY <1>1, <1>3, <1>7, <2>2 DEF Ghost
    <3>2. PICK v \in Workers : AnswersFor(v, p)
      BY <3>1 DEF GhostsAnswered
    <3>3. v # w
      BY <2>2, <3>2 DEF AnswersFor
    <3>4. AnswersFor(v, p)'
      BY <1>1, <1>5, <3>2, <3>3 DEF AnswersFor, Notified
    <3> QED BY <3>4
  <2> QED BY <2>1, <2>2
<1> QED BY <1>1, <1>6, <1>7 DEF Orderly, NonePending, GhostsAnswered

\* The document that was found is removed with the new state.
LEMMA PatchOrderly ==
    ASSUME Typed, Orderly, GhostsAnswered, NEW w \in Workers, BulkPatch(w)
    PROVE  Orderly' /\ GhostsAnswered'
<1>1. /\ UNCHANGED <<db, lock, kind, pkg, tx>>
      /\ pc[w] = "patch" /\ pc'[w] = "flush" /\ pkg[w] \in Packages
      /\ kind[w] = "bulk_delete"
  <2>1. kind[w] \in BulkKinds /\ kind[w] \in DeletionKinds
    BY DEF BulkPatch, Typed, Shape, KindOK, Orderly, HolderOK
  <2> QED BY <2>1 DEF BulkPatch, Goto, request, Typed, TypeOK, WorkerTypeOK, BulkKinds,
             DeletionKinds
<1>2. Overlay(PlainDelta(kind[w]), buf[w]).state = "deleted"
  BY <1>1 DEF Overlay, PlainDelta, BulkKinds, Fields, RowFields, RelatedFields
<1>3. solr' = [solr EXCEPT ![pkg[w]] = None] /\ NonePending'
  BY <1>2, NothingHidden DEF BulkPatch, IndexDeferred, IndexPackage, NonePending
<1>4. /\ solr'[pkg[w]] = None
      /\ \A p \in Packages \ {pkg[w]} : solr'[p] = solr[p]
  BY <1>1, <1>3 DEF Typed, TypeOK, StoresTypeOK
<1>5. ASSUME NEW v \in Workers
      PROVE View(v)' = View(v) /\ pkg[v] \in Packages /\ (v # w => pc'[v] = pc[v])
  BY <1>1 DEF View, BulkPatch, Goto, Typed, TypeOK, WorkerTypeOK
<1>6. ASSUME NEW v \in Workers PROVE HolderOK(v)'
  BY <1>1, <1>4, <1>5 DEF Orderly, HolderOK
<1>7. ASSUME NEW p \in Packages, Ghost(p)' PROVE (\E v \in Workers : AnswersFor(v, p))'
  <2>1. p # pkg[w] /\ Ghost(p)
    BY <1>1, <1>4, <1>7 DEF Ghost
  <2>2. PICK v \in Workers : AnswersFor(v, p)
    BY <2>1 DEF GhostsAnswered
  <2>3. AnswersFor(v, p)'
    BY <1>1, <1>5, <2>1, <2>2 DEF AnswersFor, Notified
  <2> QED BY <2>3
<1> QED BY <1>3, <1>6, <1>7 DEF Orderly, GhostsAnswered

\* The other steps of the requests.
LEMMA OtherBeside ==
    ASSUME Kinds \subseteq DeletionKinds, ~ Faults, Typed, Orderly, NEW w \in Workers,
           Start(w) \/ Write(w) \/ Step(w) \/ Abort(w),
           ~ NotifyIndex(w), ~ Commit(w), ~ BulkPatch(w)
    PROVE  Beside(w)
<1>1. WorkerTypeOK(w) /\ Shape(w) /\ kind[w] \in DeletionKinds
  BY DEF Typed, TypeOK, Orderly, HolderOK
<1>2. CASE Start(w)
  <2>1. PICK k \in Kinds, p \in Packages :
          /\ \E d \in Arguments(k) : arg' = [arg EXCEPT ![w] = d]
          /\ kind' = [kind EXCEPT ![w] = k]
          /\ pkg' = [pkg EXCEPT ![w] = p]
          /\ Goto(w, FirstStep(k))
    BY <1>2 DEF Start
  <2>2. kind'[w] = k /\ pc'[w] = FirstStep(k) /\ k \in DeletionKinds
    BY <2>1 DEF Goto, Typed, TypeOK
  <2>3. FirstStep(k) \in {"stamp", "show_row", "write"}
    BY <2>2 DEF FirstStep, DeletionKinds, MemberKinds
  <2>4. Only(w)
    BY <1>2 DEF Start, Only, Goto, Typed, TypeOK
  <2> QED BY <1>2, <2>2, <2>3, <2>4 DEF Start, stores, Beside, AnswersFor
<1>3. CASE Write(w)
  <2>1. kind[w] \in LockKinds
    BY <1>1, <1>3 DEF Write, Shape, KindOK, DeletionKinds, LockKinds, EditKinds, BulkKinds
  <2>2. /\ Only(w) /\ UNCHANGED <<db, solr, pend, kind, pkg>>
        /\ pc'[w] = IF Notified(kind[w]) THEN "index" ELSE "commit"
        /\ pc[w] = "write"
        /\ lock' = [lock EXCEPT ![pkg[w]] = w] /\ lock[pkg[w]] = None
    BY <1>3, <2>1 DEF Write, Only, Goto, request, Typed, TypeOK
  <2> QED BY <1>1, <2>2 DEF Beside, AnswersFor, Typed, TypeOK, StoresTypeOK, WorkerTypeOK
<1>4. CASE ShowRow(w)
  <2>1. CASE db[pkg[w]] = None
    BY <1>4, <2>1, FinishBeside DEF ShowRow, AnswersFor
  <2>2. CASE db[pkg[w]] # None
    <3>1. /\ Only(w) /\ pc'[w] = "show_doc" /\ pc[w] = "show_row"
          /\ UNCHANGED <<db, solr, pend, lock, kind>>
      BY <1>4, <2>2 DEF ShowRow, Only, Goto, Typed, TypeOK
    <3> QED BY <1>1, <3>1 DEF Beside, AnswersFor
  <2> QED BY <1>4, <2>1, <2>2 DEF ShowRow
<1>5. CASE ShowDoc(w)
  <2>1. /\ Only(w) /\ pc'[w] = "shown" /\ pc[w] = "show_doc"
        /\ UNCHANGED <<db, solr, pend, lock, kind>>
    BY <1>5 DEF ShowDoc, Only, Goto, stores, request, Typed, TypeOK
  <2> QED BY <1>1, <2>1 DEF Beside, AnswersFor
<1>6. CASE Reply(w)
  <2>1. CASE kind[w] = "patch"
    <3>1. /\ Only(w) /\ pc'[w] = "stamp" /\ pc[w] = "shown"
          /\ UNCHANGED <<db, solr, pend, lock, kind>>
      BY <1>6, <2>1 DEF Reply, Only, Goto, local, Typed, TypeOK
    <3> QED BY <1>1, <3>1 DEF Beside, AnswersFor
  <2>2. CASE kind[w] # "patch"
    BY <1>6, <2>2, FinishBeside DEF Reply, AnswersFor
  <2> QED BY <1>6, <2>1, <2>2 DEF Reply
<1>7. CASE Stamp(w)
  <2>1. /\ Only(w) /\ pc'[w] = "write" /\ pc[w] = "stamp"
        /\ UNCHANGED <<db, solr, pend, lock, kind>>
    BY <1>7 DEF Stamp, Only, Goto, stores, request, Typed, TypeOK
  <2> QED BY <1>1, <2>1 DEF Beside, AnswersFor
<1>8. CASE CreateClash(w)
  BY <1>8, FinishBeside DEF CreateClash, AnswersFor
<1>9. CASE BulkFetch(w)
  <2>1. /\ Only(w) /\ pc[w] = "fetch"
        /\ pc'[w] = IF solr[pkg[w]] = None THEN "flush" ELSE "patch"
        /\ UNCHANGED <<db, solr, pend, lock, kind, pkg>>
    BY <1>9 DEF BulkFetch, Only, Goto, stores, request, Typed, TypeOK
  <2> QED BY <1>1, <2>1 DEF Beside, AnswersFor, Ghost
<1>10. CASE CommitIndex(w)
  <2>1. UNCHANGED <<solr, pend>>
    BY <1>10, NothingHidden DEF CommitIndex
  <2> QED BY <1>10, <2>1, FinishBeside DEF CommitIndex, AnswersFor
<1>11. pc[w] \notin {"again", "list", "clear", "next", "get", "get_related", "remove", "insert"}
  BY <1>1 DEF Shape, KindOK, DeletionKinds, BulkKinds, MemberKinds, ScanKinds
<1>12. /\ ~ IndexAgain(w)
       /\ ~ RebuildList(w) /\ ~ RebuildClear(w) /\ ~ RebuildNext(w)
       /\ ~ GetRow(w) /\ ~ GetRelated(w) /\ ~ Remove(w) /\ ~ Insert(w)
  BY <1>11 DEF IndexAgain, RebuildList, RebuildClear, RebuildNext, GetRow, GetRelated, Remove,
     Insert
<1>13. ~ Abort(w)
  BY DEF Abort
<1> QED BY <1>2, <1>3, <1>4, <1>5, <1>6, <1>7, <1>8, <1>9, <1>10, <1>12, <1>13 DEF Step

LEMMA StepOrderly ==
    ASSUME Kinds \subseteq DeletionKinds, ~ Faults
    PROVE  Typed /\ Orderly /\ GhostsAnswered /\ [Next]_vars => Orderly' /\ GhostsAnswered'
<1> SUFFICES ASSUME Typed, Orderly, GhostsAnswered, [Next]_vars
             PROVE  Orderly' /\ GhostsAnswered'
  OBVIOUS
<1>1. ASSUME NEW w \in Workers, Start(w) \/ Write(w) \/ Step(w) \/ Abort(w)
      PROVE  Orderly' /\ GhostsAnswered'
  <2>1. CASE NotifyIndex(w)
    BY <2>1, NotifyOrderly
  <2>2. CASE Commit(w)
    BY <2>2, CommitOrderly
  <2>3. CASE BulkPatch(w)
    BY <2>3, PatchOrderly
  <2>4. CASE ~ NotifyIndex(w) /\ ~ Commit(w) /\ ~ BulkPatch(w)
    BY <1>1, <2>4, OtherBeside, BesideOrderly
  <2> QED BY <2>1, <2>2, <2>3, <2>4
<1>2. CASE UNCHANGED vars
  BY <1>2 DEF vars, Orderly, NonePending, HolderOK, GhostsAnswered, Ghost, AnswersFor, View
<1> QED BY <1>1, <1>2 DEF Next

\* Among edits, deletions and bulk deletions that no store refuses, the index ends up
\* without the deleted datasets: DatasetIndex, NoGhosts.
THEOREM DeletedLeaveTheIndex ==
    ASSUME Kinds \subseteq DeletionKinds, ~ Faults
    PROVE  Spec => []NoGhosts
<1>1. Spec => [](Typed /\ Orderly /\ GhostsAnswered)
  BY InitTyped, StepTyped, InitOrderly, StepOrderly, PTL DEF Spec
<1>2. GhostsAnswered => NoGhosts
  BY DEF GhostsAnswered, Ghost, AnswersFor, NoGhosts, Quiet
<1> QED BY <1>1, <1>2, PTL

-----------------------------------------------------------------------------
(***************************************************************************)
(* The index follows the database: CommitIsIndexed and IndexSettled, for    *)
(* any number of datasets and workers, when every request that writes to    *)
(* the index does so between its UPDATE of the package row and its commit.  *)
(* The lock of the row then orders the writes to the index as it orders the *)
(* commits.  The runs that add another kind of request (a member request, a *)
(* bulk update, a rebuild) show that the assumption is needed.              *)
(***************************************************************************)

\* The kinds that index the dataset under the lock of its row, once.
SerialKinds == {"show", "create", "update", "patch", "delete"}

\* The document a row is to have.
DocOf(r) == IF r = None THEN None ELSE IF r.state = "deleted" THEN None ELSE r

\* The worker has the lock of the row; what it indexed is what it will commit.
LockedOK(w) ==
    /\ kind[w] \in SerialKinds
    /\ pc[w] \in {"index", "commit"} => lock[pkg[w]] = w
    /\ pc[w] = "commit" => solr[pkg[w]] = DocOf(View(w))

NoPending == \A p \in Packages : pend[p] = None

Serial == NoPending /\ \A w \in Workers : LockedOK(w)

\* A document differs from the row only while a transaction is between its two
\* commits.
Following == \A p \in Packages : solr[p] # DocOf(db[p]) =>
                 \E w \in Workers : pc[w] = "commit" /\ pkg[w] = p

LEMMA InitSerial == Init => Serial /\ Following
<1> SUFFICES ASSUME Init PROVE Serial /\ Following
  OBVIOUS
<1>1. FirstRow.state = "active"
  BY DEF FirstRow
<1>2. Serial
  BY DEF Init, Serial, NoPending, LockedOK, SerialKinds
<1>3. Following
  BY <1>1 DEF Init, Following, DocOf
<1> QED BY <1>2, <1>3

\* The steps of a request that are neither NotifyIndex nor Commit: they touch
\* neither the rows nor the index, and take no lock that is held.
Aside(w) ==
    /\ Only(w)
    /\ UNCHANGED <<db, solr, pend>>
    /\ \A p \in Packages : lock[p] # None /\ lock[p] # w => lock'[p] = lock[p]
    /\ kind'[w] \in SerialKinds
    /\ pc'[w] = "index" => lock'[pkg'[w]] = w
    /\ pc'[w] # "commit"

LEMMA AsideSerial ==
    ASSUME Typed, Serial, NEW w \in Workers, Aside(w)
    PROVE  /\ Serial'
           /\ Following /\ pc[w] # "commit" => Following'
<1>1. ASSUME NEW v \in Workers \ {w}
      PROVE  /\ pc'[v] = pc[v] /\ kind'[v] = kind[v] /\ pkg'[v] = pkg[v]
             /\ View(v)' = View(v) /\ pkg[v] \in Packages /\ v # None
  BY NoneAssumption DEF Aside, Only, Typed, TypeOK, WorkerTypeOK, View
<1>2. ASSUME NEW v \in Workers PROVE LockedOK(v)'
  <2>1. CASE v = w
    BY <2>1 DEF Aside, LockedOK
  <2>2. CASE v # w
    BY <1>1, <2>2 DEF Aside, Serial, LockedOK
  <2> QED BY <2>1, <2>2
<1>3. ASSUME Following, pc[w] # "commit" PROVE Following'
  BY <1>1, <1>3 DEF Aside, Following
<1> QED BY <1>2, <1>3 DEF Aside, Serial, NoPending

LEMMA FinishAside ==
    ASSUME Typed, NEW w \in Workers, Finish(w), UNCHANGED <<db, solr, pend, pkg, todo>>
    PROVE  Aside(w)
<1>1. Only(w)
  BY FinishTyped
<1>2. pc'[w] = "idle" /\ kind'[w] = "show"
  BY DEF Finish, Goto, Typed, TypeOK
<1> QED BY <1>1, <1>2 DEF Aside, Finish, Unlock, SerialKinds

LEMMA NotifySerial ==
    ASSUME Typed, Serial, NEW w \in Workers, NotifyIndex(w)
    PROVE  Serial' /\ (Following => Following')
<1>1. /\ UNCHANGED <<db, lock, kind, pkg, tx>>
      /\ pc[w] = "index" /\ pc'[w] = "commit"
      /\ pkg[w] \in Packages /\ lock[pkg[w]] = w /\ kind[w] \notin MemberKinds
      /\ IndexPackage(pkg[w], View(w)) /\ View(w) \in Rows
  <2>1. kind[w] \notin MemberKinds
    BY DEF Serial, LockedOK, SerialKinds, MemberKinds
  <2> QED BY <2>1, ViewRow DEF NotifyIndex, Goto, request, Typed, TypeOK, WorkerTypeOK, Serial,
             LockedOK
<1>2. Visible = solr
  <2>1. solr = [p \in Packages |-> solr[p]]
    BY DEF Typed, TypeOK, StoresTypeOK
  <2> QED BY <2>1 DEF Visible, Serial, NoPending
<1>3. /\ solr' = [solr EXCEPT ![pkg[w]] = DocOf(View(w))]
      /\ NoPending'
  BY <1>1, <1>2, NoneAssumption DEF IndexPackage, DocOf, NoPending
<1>4. /\ solr'[pkg[w]] = DocOf(View(w))
      /\ \A p \in Packages \ {pkg[w]} : solr'[p] = solr[p]
  BY <1>1, <1>3 DEF Typed, TypeOK, StoresTypeOK
<1>5. ASSUME NEW v \in Workers
      PROVE View(v)' = View(v) /\ pkg[v] \in Packages /\ (v # w => pc'[v] = pc[v])
  BY <1>1 DEF View, NotifyIndex, Goto, Typed, TypeOK, WorkerTypeOK
<1>6. ASSUME NEW v \in Workers PROVE LockedOK(v)'
  BY <1>1, <1>4, <1>5 DEF Serial, LockedOK
<1>7. ASSUME Following PROVE Following'
  BY <1>1, <1>4, <1>5, <1>7 DEF Following
<1> QED BY <1>3, <1>6, <1>7 DEF Serial

LEMMA CommitSerial ==
    ASSUME Typed, Serial, NEW w \in Workers, Commit(w)
    PROVE  /\ Serial' /\ (Following => Following')
           /\ solr[pkg[w]] = DocOf(db'[pkg[w]])
           /\ View(w) \in Rows /\ db'[pkg[w]] = View(w)
<1>1. /\ db' = [db EXCEPT ![pkg[w]] = View(w)] /\ UNCHANGED <<solr, pend, pkg>>
      /\ pc[w] = "commit" /\ pkg[w] \in Packages /\ Finish(w)
      /\ View(w) \in Rows
  <2>1. kind[w] \notin {"move"} \cup BulkKinds
    BY DEF Serial, LockedOK, SerialKinds, BulkKinds
  <2> QED BY <2>1, ViewRow DEF Commit, Typed, TypeOK, WorkerTypeOK
<1>2. lock[pkg[w]] = w /\ solr[pkg[w]] = DocOf(View(w))
  BY <1>1 DEF Serial, LockedOK
<1>3. /\ db'[pkg[w]] = View(w)
      /\ \A p \in Packages \ {pkg[w]} : db'[p] = db[p]
  BY <1>1 DEF Typed, TypeOK, StoresTypeOK
<1>4. /\ pc'[w] = "idle" /\ kind'[w] = "show"
      /\ \A p \in Packages : lock[p] # w => lock'[p] = lock[p]
  BY <1>1 DEF Finish, Goto, Unlock, Typed, TypeOK, StoresTypeOK
<1>5. ASSUME NEW v \in Workers \ {w}
      PROVE  /\ pc'[v] = pc[v] /\ kind'[v] = kind[v] /\ pkg[v] \in Packages
             /\ pc[v] \in {"index", "commit"} => pkg[v] # pkg[w] /\ View(v)' = View(v)
  <2>1. pc'[v] = pc[v] /\ kind'[v] = kind[v] /\ tx'[v] = tx[v] /\ pkg[v] \in Packages
    BY <1>1 DEF Finish, Goto, Typed, TypeOK, WorkerTypeOK
  <2>2. ASSUME pc[v] \in {"index", "commit"} PROVE pkg[v] # pkg[w]
    BY <1>2, <2>2 DEF Serial, LockedOK
  <2> QED BY <1>1, <1>3, <2>1, <2>2 DEF View
<1>6. ASSUME NEW v \in Workers PROVE LockedOK(v)'
  <2>1. CASE v = w
    BY <1>4, <2>1 DEF LockedOK, SerialKinds
  <2>2. CASE v # w
    BY <1>1, <1>4, <1>5, <2>2 DEF Serial, LockedOK
  <2> QED BY <2>1, <2>2
<1>7. ASSUME Following PROVE Following'
  BY <1>1, <1>2, <1>3, <1>5, <1>7 DEF Following
<1> QED BY <1>1, <1>2, <1>3, <1>6, <1>7 DEF Serial, NoPending

\* One lemma for the steps that are aside; the kinds of SerialKinds take none
\* of the steps of a bulk update, a scan or a second commit.
LEMMA OtherAside ==
    ASSUME Kinds \subseteq SerialKinds, Typed, Serial, NEW w \in Workers,
           Start(w) \/ Write(w) \/ Step(w) \/ Abort(w), ~ NotifyIndex(w), ~ Commit(w)
    PROVE  Aside(w) /\ (pc[w] # "commit" \/ Faults)
<1>1. WorkerTypeOK(w) /\ Shape(w) /\ kind[w] \in SerialKinds
  BY DEF Typed, TypeOK, Serial, LockedOK
<1>2. CASE Start(w)
  <2>1. PICK k \in Kinds, p \in Packages :
          /\ \E d \in Arguments(k) : arg' = [arg EXCEPT ![w] = d]
          /\ kind' = [kind EXCEPT ![w] = k]
          /\ pkg' = [pkg EXCEPT ![w] = p]
          /\ Goto(w, FirstStep(k))
    BY <1>2 DEF Start
  <2>2. kind'[w] = k /\ pc'[w] = FirstStep(k) /\ k \in SerialKinds
    BY <2>1 DEF Goto, Typed, TypeOK
  <2>3. FirstStep(k) \in {"stamp", "show_row", "write"}
    BY <2>2 DEF FirstStep, SerialKinds, MemberKinds
  <2>4. Only(w)
    BY <1>2 DEF Start, Only, Goto, Typed, TypeOK
  <2> QED BY <1>2, <2>2, <2>3, <2>4 DEF Start, stores, Aside
<1>3. CASE Write(w)
  <2>1. kind[w] \in LockKinds /\ Notified(kind[w])
    BY <1>1, <1>3 DEF Write, Shape, KindOK, SerialKinds, LockKinds, EditKinds, BulkKinds,
       Notified
  <2>2. /\ Only(w) /\ UNCHANGED <<db, solr, pend, kind, pkg>> /\ pc'[w] = "index"
        /\ pc[w] = "write"
        /\ lock' = [lock EXCEPT ![pkg[w]] = w] /\ lock[pkg[w]] = None
    BY <1>3, <2>1 DEF Write, Only, Goto, request, Typed, TypeOK
  <2> QED BY <1>1, <2>2 DEF Aside, Typed, TypeOK, StoresTypeOK, WorkerTypeOK
<1>4. CASE ShowRow(w)
  <2>1. CASE db[pkg[w]] = None
    BY <1>4, <2>1, FinishAside DEF ShowRow
  <2>2. CASE db[pkg[w]] # None
    <3>1. /\ Only(w) /\ pc'[w] = "show_doc" /\ pc[w] = "show_row"
          /\ UNCHANGED <<db, solr, pend, lock, kind>>
      BY <1>4, <2>2 DEF ShowRow, Only, Goto, Typed, TypeOK
    <3> QED BY <1>1, <3>1 DEF Aside
  <2> QED BY <1>4, <2>1, <2>2 DEF ShowRow
<1>5. CASE ShowDoc(w)
  <2>1. /\ Only(w) /\ pc'[w] = "shown" /\ pc[w] = "show_doc"
        /\ UNCHANGED <<db, solr, pend, lock, kind>>
    BY <1>5 DEF ShowDoc, Only, Goto, stores, request, Typed, TypeOK
  <2> QED BY <1>1, <2>1 DEF Aside
<1>6. CASE Reply(w)
  <2>1. CASE kind[w] = "patch"
    <3>1. /\ Only(w) /\ pc'[w] = "stamp" /\ UNCHANGED <<db, solr, pend, lock, kind>>
      BY <1>6, <2>1 DEF Reply, Only, Goto, local, Typed, TypeOK
    <3> QED BY <1>1, <1>6, <3>1 DEF Aside, Reply
  <2>2. CASE kind[w] # "patch"
    BY <1>6, <2>2, FinishAside DEF Reply
  <2> QED BY <1>6, <2>1, <2>2 DEF Reply
<1>7. CASE Stamp(w)
  <2>1. /\ Only(w) /\ pc'[w] = "write" /\ pc[w] = "stamp"
        /\ UNCHANGED <<db, solr, pend, lock, kind>>
    BY <1>7 DEF Stamp, Only, Goto, stores, request, Typed, TypeOK
  <2> QED BY <1>1, <2>1 DEF Aside
<1>8. CASE CreateClash(w)
  BY <1>8, FinishAside DEF CreateClash
<1>9. CASE Abort(w)
  BY <1>9, FinishAside DEF Abort
<1>10. /\ pc[w] \notin {"again", "fetch", "patch", "flush", "list", "clear", "next", "get",
                        "get_related", "remove", "insert"}
  BY <1>1 DEF Shape, KindOK, SerialKinds, BulkKinds, MemberKinds, ScanKinds
<1>11. /\ ~ IndexAgain(w) /\ ~ BulkFetch(w) /\ ~ BulkPatch(w) /\ ~ CommitIndex(w)
       /\ ~ RebuildList(w) /\ ~ RebuildClear(w) /\ ~ RebuildNext(w)
       /\ ~ GetRow(w) /\ ~ GetRelated(w) /\ ~ Remove(w) /\ ~ Insert(w)
  BY <1>10 DEF IndexAgain, BulkFetch, BulkPatch, CommitIndex, RebuildList, RebuildClear,
     RebuildNext, GetRow, GetRelated, Remove, Insert
<1>12. pc[w] # "commit" \/ Faults
  BY <1>11 DEF Start, Write, Step, Abort, ShowRow, ShowDoc, Reply, Stamp, CreateClash
<1> QED BY <1>2, <1>3, <1>4, <1>5, <1>6, <1>7, <1>8, <1>9, <1>11, <1>12 DEF Step

LEMMA StepSerial ==
    ASSUME Kinds \subseteq SerialKinds
    PROVE  /\ Typed /\ Serial /\ [Next]_vars => Serial'
           /\ ~ Faults /\ Typed /\ Serial /\ Following /\ [Next]_vars => Following'
<1> SUFFICES ASSUME Typed, Serial, [Next]_vars
             PROVE  Serial' /\ (~ Faults /\ Following => Following')
  OBVIOUS
<1>1. ASSUME NEW w \in Workers, Start(w) \/ Write(w) \/ Step(w) \/ Abort(w)
      PROVE  Serial' /\ (~ Faults /\ Following => Following')
  <2>1. CASE NotifyIndex(w)
    BY <2>1, NotifySerial
  <2>2. CASE Commit(w)
    BY <2>2, CommitSerial
  <2>3. CASE ~ NotifyIndex(w) /\ ~ Commit(w)
    BY <1>1, <2>3, OtherAside, AsideSerial
  <2> QED BY <2>1, <2>2, <2>3
<1>2. CASE UNCHANGED vars
  BY <1>2 DEF vars, Serial, NoPending, LockedOK, Following, View
<1> QED BY <1>1, <1>2 DEF Next

\* When every request indexes under the lock of the row, what a transaction
\* commits is what the index shows when it commits.
THEOREM CommitsAreIndexed ==
    ASSUME Kinds \subseteq SerialKinds
    PROVE  Spec => CommitIsIndexed
<1> DEFINE A == \A w \in Workers :
                  LET p == pkg[w] IN
                  Commit(w) /\ Notified(kind[w]) =>
                    solr[p] = IF db'[p].state = "deleted" THEN None ELSE db'[p]
<1>1. Spec => [](Typed /\ Serial)
  BY InitTyped, StepTyped, InitSerial, StepSerial, PTL DEF Spec
<1>2. Typed /\ Serial /\ [Next]_vars => [A]_vars
  <2>1. ASSUME Typed, Serial, NEW w \in Workers, Commit(w)
        PROVE  solr[pkg[w]] = IF db'[pkg[w]].state = "deleted" THEN None ELSE db'[pkg[w]]
    <3>1. /\ solr[pkg[w]] = DocOf(db'[pkg[w]])
          /\ View(w) \in Rows /\ db'[pkg[w]] = View(w)
      BY <2>1, CommitSerial
    <3> QED BY <3>1, NoneAssumption DEF DocOf
  <2> QED BY <2>1
<1>3. CommitIsIndexed <=> [][A]_vars
  BY DEF CommitIsIndexed
<1> HIDE DEF A
<1> QED BY <1>1, <1>2, <1>3, PTL DEF Spec

\* If moreover no store refuses a call, the index and the database agree
\* whenever no request is in progress.
THEOREM TheIndexSettles ==
    ASSUME Kinds \subseteq SerialKinds, ~ Faults
    PROVE  Spec => []IndexSettled
<1>1. Spec => [](Typed /\ Serial /\ Following)
  BY InitTyped, StepTyped, InitSerial, StepSerial, PTL DEF Spec
<1>2. Following => IndexSettled
  BY DEF Following, IndexSettled, Quiet, DocOf
<1> QED BY <1>1, <1>2, PTL
=============================================================================
