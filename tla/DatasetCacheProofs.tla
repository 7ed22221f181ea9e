------------------------- MODULE DatasetCacheProofs -------------------------
(***************************************************************************)
(* The document of the index may be served for the row: CacheHonest and     *)
(* ReplyHonest, for any number of datasets and workers, when every request  *)
(* that changes a dataset gives it a new metadata_modified.                 *)
(***************************************************************************)
EXTENDS DatasetIndexProofs

\* The kinds that do: the edits; and those that change no dataset.
StampedKinds == EditKinds \cup ScanKinds \cup {"show"}

\* A worker that has computed a metadata_modified and not committed it.
Writer(w) == kind[w] \in EditKinds /\ pc[w] \in {"write", "index", "commit"}

\* The steps at which the worker holds a row or a document it has read.
Carrying(w) == pc[w] \in {"show_doc", "shown", "again", "get_related", "remove", "insert"}

\* d carries the metadata_modified of a commit of p, and is the row when that
\* is the last one.
Current(p, d) == /\ d.mm \in used[p]
                 /\ d.mm = db[p].mm => d = db[p]

\* A document carries the metadata_modified of a writer only when that writer
\* indexed it and is about to commit it.
Attributed(p, d) ==
    \A w \in Workers : Writer(w) /\ d.mm = stamp[w] =>
                         pc[w] = "commit" /\ pkg[w] = p /\ d = View(w)

DocOK(p, d) ==
    d # None =>
      /\ d.mm \leq clock
      /\ db[p] # None /\ d.mm = db[p].mm => d = db[p]
      /\ Attributed(p, d)

\* Whether it is visible or waits for a commit.
DocsOK(p) == DocOK(p, solr[p]) /\ DocOK(p, pend[p])

UsedOK(p) == /\ \A t \in used[p] : t \leq clock
             /\ db[p] # None => db[p].mm \in used[p]

StampOK(w) ==
    Writer(w) => /\ stamp[w] \leq clock
                 /\ \A p \in Packages : stamp[w] \notin used[p]
                 /\ \A v \in Workers : Writer(v) /\ v # w => stamp[v] # stamp[w]

LockOK(w) ==
    pc[w] \in {"index", "commit"} => lock[pkg[w]] = w /\ View(w).mm = stamp[w]

CarryOK(w) == Carrying(w) => Current(pkg[w], buf[w])

\* The inductive invariant: CacheHonest alone says nothing of a document that
\* was indexed before its transaction commits, nor of one a request holds in
\* memory and indexes later.
Cached ==
    /\ \A w \in Workers : kind[w] \in StampedKinds
    /\ \A p \in Packages : DocsOK(p) /\ UsedOK(p)
    /\ \A w \in Workers : StampOK(w) /\ LockOK(w) /\ CarryOK(w)

-----------------------------------------------------------------------------
LEMMA InitCached == Init => Cached
<1> SUFFICES ASSUME Init PROVE Cached
  OBVIOUS
<1>1. FirstRow # None /\ FirstRow.mm = 0
  <2>1. FirstRow \in Rows /\ FirstRow.mm = 0
    BY DEF FirstRow, Rows, States
  <2> QED BY <2>1, NoneAssumption
<1>2. ASSUME NEW w \in Workers
      PROVE  kind[w] \in StampedKinds /\ StampOK(w) /\ LockOK(w) /\ CarryOK(w) /\ ~ Writer(w)
  BY DEF Init, StampedKinds, EditKinds, StampOK, LockOK, CarryOK, Writer, Carrying
<1>3. ASSUME NEW p \in Packages PROVE DocsOK(p) /\ UsedOK(p)
  BY <1>1, <1>2 DEF Init, DocsOK, DocOK, UsedOK, Attributed
<1> QED BY <1>2, <1>3 DEF Cached

\* A document that is current may be put in the index.
LEMMA CurrentAttributed ==
    ASSUME Cached, NEW p \in Packages, NEW d, Current(p, d)
    PROVE  d.mm \leq clock /\ Attributed(p, d)
  BY DEF Cached, UsedOK, StampOK, Current, Attributed

\* What a step puts in the index, or makes visible, was there or is current.
Harmless == \A p \in Packages :
    /\ solr'[p] \in {solr[p], pend[p], None} \/ Current(p, solr'[p])
    /\ pend'[p] \in {pend[p], None} \/ Current(p, pend'[p])

\* A step of w that commits nothing and computes no metadata_modified keeps
\* the invariant if what it puts in the index, or in memory, is current.
Gentle(w) ==
    /\ Only(w)
    /\ UNCHANGED <<db, used, clock>>
    /\ \A p \in Packages : lock[p] # None /\ lock[p] # w => lock'[p] = lock[p]
    /\ kind'[w] \in StampedKinds
    /\ Writer(w)' => /\ Writer(w) /\ pc'[w] = pc[w]
                     /\ stamp'[w] = stamp[w] /\ pkg'[w] = pkg[w] /\ tx'[w] = tx[w]
                     /\ lock' = lock
    /\ pc'[w] \in {"index", "commit"} => Writer(w)'
    /\ CarryOK(w)'
    /\ Harmless

LEMMA GentleCached ==
    ASSUME Typed, Cached, NEW w \in Workers, Gentle(w)
    PROVE  Cached'
<1>1. ASSUME NEW v \in Workers \ {w}
      PROVE  /\ pc'[v] = pc[v] /\ kind'[v] = kind[v] /\ pkg'[v] = pkg[v]
             /\ buf'[v] = buf[v] /\ stamp'[v] = stamp[v] /\ tx'[v] = tx[v]
             /\ pkg[v] \in Packages
  BY DEF Gentle, Only, Typed, TypeOK, WorkerTypeOK
<1>2. pkg[w] \in Packages
  BY DEF Typed, TypeOK, WorkerTypeOK
<1>3. ASSUME NEW v \in Workers
      PROVE  /\ Writer(v)' => /\ Writer(v) /\ stamp'[v] = stamp[v] /\ pkg'[v] = pkg[v]
                              /\ pc'[v] = pc[v] /\ View(v)' = View(v)
             /\ kind'[v] \in StampedKinds
  BY <1>1 DEF Gentle, Writer, View, Cached
<1>4. ASSUME NEW p \in Packages PROVE DocsOK(p)' /\ UsedOK(p)'
  <2>1. UsedOK(p)'
    BY DEF Gentle, Cached, UsedOK
  <2>2. ASSUME NEW d, DocOK(p, d) PROVE DocOK(p, d)'
    BY <1>3, <2>2 DEF Gentle, DocOK, Attributed
  <2>3. ASSUME NEW d, Current(p, d) PROVE DocOK(p, d)
    BY <2>3, CurrentAttributed DEF DocOK, Current
  <2>4. DocOK(p, solr'[p]) /\ DocOK(p, pend'[p])
    BY <2>3 DEF Gentle, Harmless, Cached, DocsOK, DocOK
  <2> QED BY <2>1, <2>2, <2>4 DEF DocsOK
<1>5. ASSUME NEW v \in Workers PROVE StampOK(v)'
  BY <1>3 DEF Gentle, Cached, StampOK
<1>6. ASSUME NEW v \in Workers PROVE LockOK(v)'
  <2>1. CASE v = w
    BY <1>3, <2>1 DEF Gentle, Cached, LockOK
  <2>2. CASE v # w
    <3>1. w # None /\ v # None
      BY NoneAssumption
    <3>2. View(v)' = View(v)
      BY <1>1, <2>2 DEF View, Gentle
    <3> QED BY <1>1, <2>2, <3>1, <3>2 DEF Gentle, Cached, LockOK
  <2> QED BY <2>1, <2>2
<1>7. ASSUME NEW v \in Workers PROVE CarryOK(v)'
  BY <1>1 DEF Gentle, Cached, CarryOK, Carrying, Current
<1> QED BY <1>3, <1>4, <1>5, <1>6, <1>7 DEF Cached

-----------------------------------------------------------------------------
(***************************************************************************)
(* The steps that compute a metadata_modified, send it to the database,    *)
(* index it and commit it.                                                 *)
(***************************************************************************)

LEMMA StampCached ==
    ASSUME Typed, Cached, NEW w \in Workers, Stamp(w)
    PROVE  Cached'
<1>1. /\ clock' = clock + 1 /\ clock \in Nat
      /\ UNCHANGED <<db, used, solr, lock, pend, kind, pkg, buf, tx>>
      /\ stamp'[w] = clock + 1 /\ pc'[w] = "write" /\ pc[w] = "stamp"
  BY DEF Stamp, Goto, stores, request, Typed, TypeOK, StoresTypeOK
<1>2. ASSUME NEW v \in Workers \ {w}
      PROVE  pc'[v] = pc[v] /\ stamp'[v] = stamp[v]
  BY DEF Stamp, Goto, Typed, TypeOK
<1>3. ASSUME NEW v \in Workers PROVE View(v)' = View(v)
  BY <1>1 DEF View
<1>4. ASSUME NEW p \in Packages PROVE DocsOK(p)' /\ UsedOK(p)'
  <2>1. solr[p] \in Rows \cup {None} /\ pend[p] \in Rows \cup {None} /\ used[p] \subseteq Nat
    BY DEF Typed, TypeOK, StoresTypeOK
  <2>2. UsedOK(p)'
    BY <1>1, <2>1 DEF Cached, UsedOK
  <2>3. ASSUME NEW d \in Rows \cup {None}, DocOK(p, d) PROVE DocOK(p, d)'
    <3>1. d # None => d.mm \in Nat
      BY RowElim
    <3>2. d # None => d.mm # clock + 1
      BY <1>1, <2>3, <3>1 DEF DocOK
    <3>3. d # None => Attributed(p, d)'
      BY <1>1, <1>2, <1>3, <2>3, <3>2 DEF DocOK, Attributed, Writer
    <3> QED BY <1>1, <2>3, <3>1, <3>3 DEF DocOK
  <2> QED BY <1>1, <2>1, <2>2, <2>3 DEF Cached, DocsOK
<1>5. ASSUME NEW v \in Workers PROVE StampOK(v)'
  <2>1. \A u \in Workers : stamp[u] \in Nat
    BY DEF Typed, TypeOK, WorkerTypeOK
  <2>2. \A p \in Packages : clock + 1 \notin used[p]
    BY <1>1 DEF Cached, UsedOK
  <2> QED BY <1>1, <1>2, <2>1, <2>2 DEF Cached, StampOK, Writer
<1>6. ASSUME NEW v \in Workers PROVE LockOK(v)' /\ CarryOK(v)'
  BY <1>1, <1>2, <1>3 DEF Cached, LockOK, CarryOK, Carrying, Current
<1> QED BY <1>1, <1>4, <1>5, <1>6 DEF Cached

LEMMA WriteCached ==
    ASSUME Typed, Cached, NEW w \in Workers, Write(w)
    PROVE  Cached'
<1>1. /\ UNCHANGED <<db, used, solr, pend, clock, kind, pkg, buf, stamp>>
      /\ pc'[w] \in {"index", "commit"} /\ pc[w] = "write" /\ kind[w] \in EditKinds
      /\ lock[pkg[w]] = None /\ lock' = [lock EXCEPT ![pkg[w]] = w]
      /\ pkg[w] \in Packages /\ lock'[pkg[w]] = w
      /\ pc'[w] = "index"
  <2>1. kind[w] \in EditKinds
    BY DEF Write, Cached, StampedKinds, Typed, Shape, KindOK
  <2> QED BY <2>1 DEF Write, Goto, request, Typed, TypeOK, StoresTypeOK, WorkerTypeOK,
             LockKinds, Notified
<1>2. ASSUME NEW v \in Workers \ {w}
      PROVE  pc'[v] = pc[v] /\ tx'[v] = tx[v] /\ View(v)' = View(v)
  BY <1>1 DEF Write, Goto, Typed, TypeOK, View
<1>3. View(w)'.mm = stamp[w]
  <2>1. PICK admin \in BOOLEAN : tx' = [tx EXCEPT ![w] = Delta(w, admin)]
    BY DEF Write
  <2>2. tx'[w] = Delta(w, admin)
    BY <2>1 DEF Typed, TypeOK
  <2>3. WorkerTypeOK(w) /\ Shape(w)
    BY DEF Typed, TypeOK
  <2>4. "mm" \in DOMAIN Delta(w, admin) /\ Delta(w, admin)["mm"] = stamp[w]
    <3>1. CASE kind[w] = "create"
      BY <3>1 DEF Delta, NewRow, Fields, RowFields, RelatedFields
    <3>2. CASE kind[w] # "create"
      <4>1. \/ kind[w] = "patch" /\ buf[w] \in Rows /\ arg[w] \in Patches
            \/ kind[w] # "patch" /\ arg[w] \in Updates
        BY <1>1, <2>3, <3>2 DEF Shape, Holding, WorkerTypeOK, EditKinds
      <4> QED BY <1>1, <2>3, <3>2, <4>1, EditDeltaPartial DEF Delta
    <3> QED BY <3>1, <3>2
  <2> QED BY <1>1, <2>2, <2>4 DEF View, Overlay, Fields, RowFields, RelatedFields
<1>4. ASSUME NEW p \in Packages PROVE DocsOK(p)' /\ UsedOK(p)'
  BY <1>1, <1>2 DEF Cached, DocsOK, DocOK, UsedOK, Attributed, Writer
<1>5. ASSUME NEW v \in Workers PROVE StampOK(v)' /\ CarryOK(v)'
  BY <1>1, <1>2 DEF Cached, StampOK, CarryOK, Carrying, Current, Writer
<1>6. ASSUME NEW v \in Workers PROVE LockOK(v)'
  <2>1. v # None
    BY NoneAssumption
  <2> QED BY <1>1, <1>2, <1>3, <2>1 DEF Cached, LockOK, Typed, TypeOK, StoresTypeOK
<1> QED BY <1>1, <1>4, <1>5, <1>6 DEF Cached

LEMMA NotifyIndexCached ==
    ASSUME Typed, Cached, NEW w \in Workers, NotifyIndex(w)
    PROVE  Cached'
<1>1. /\ UNCHANGED <<db, used, lock, clock, kind, pkg, buf, stamp, tx>>
      /\ pc'[w] = "commit" /\ pc[w] = "index" /\ kind[w] \in EditKinds
      /\ pkg[w] \in Packages /\ Writer(w)
      /\ IndexPackage(pkg[w], View(w))
  <2>1. kind[w] \in EditKinds
    BY DEF NotifyIndex, Cached, StampedKinds, Typed, Shape, KindOK, Notified, ScanKinds,
       MemberKinds
  <2> QED BY <2>1 DEF NotifyIndex, Goto, request, Typed, TypeOK, WorkerTypeOK, EditKinds,
             MemberKinds, Writer
<1>2. /\ View(w).mm = stamp[w] /\ stamp[w] \leq clock
      /\ \A p \in Packages : stamp[w] \notin used[p]
  BY <1>1 DEF Cached, LockOK, StampOK
<1>3. ASSUME NEW v \in Workers \ {w} PROVE pc'[v] = pc[v]
  BY DEF NotifyIndex, Goto, Typed, TypeOK
<1>4. ASSUME NEW v \in Workers PROVE View(v)' = View(v) /\ (Writer(v)' <=> Writer(v))
  BY <1>1, <1>3 DEF View, Writer
<1>5. ASSUME NEW p \in Packages PROVE DocsOK(p)' /\ UsedOK(p)'
  <2>1. UsedOK(p)'
    BY <1>1 DEF Cached, UsedOK
  <2>2. /\ \/ solr'[p] \in {solr[p], pend[p], None}
           \/ p = pkg[w] /\ solr'[p] = View(w)
        /\ pend'[p] = None
    BY <1>1 DEF IndexPackage, Visible, Typed, TypeOK, StoresTypeOK
  <2>3. ASSUME NEW d, DocOK(p, d) PROVE DocOK(p, d)'
    BY <1>1, <1>3, <1>4, <2>3 DEF DocOK, Attributed
  <2>4. ASSUME NEW d, d = View(w), p = pkg[w] PROVE DocOK(p, d)'
    <3>1. db[p] # None => d.mm # db[p].mm
      BY <1>2, <2>4 DEF Cached, UsedOK
    <3>2. Attributed(p, d)'
      BY <1>1, <1>2, <1>4, <2>4 DEF Cached, StampOK, Attributed
    <3> QED BY <1>1, <1>2, <2>4, <3>1, <3>2 DEF DocOK
  <2> QED BY <2>1, <2>2, <2>3, <2>4 DEF Cached, DocsOK, DocOK
<1>6. ASSUME NEW v \in Workers PROVE StampOK(v)' /\ CarryOK(v)' /\ LockOK(v)'
  BY <1>1, <1>3, <1>4 DEF Cached, StampOK, CarryOK, Carrying, Current, LockOK
<1> QED BY <1>1, <1>5, <1>6 DEF Cached

LEMMA CommitCached ==
    ASSUME Typed, Cached, NEW w \in Workers, Commit(w)
    PROVE  Cached'
<1>1. /\ db' = [db EXCEPT ![pkg[w]] = View(w)]
      /\ used' = [used EXCEPT ![pkg[w]] = @ \cup {View(w).mm}]
      /\ UNCHANGED <<solr, pend, clock, pkg>>
      /\ pkg[w] \in Packages /\ kind[w] \in EditKinds /\ pc[w] = "commit" /\ Writer(w)
      /\ View(w) \in Rows
  <2>1. kind[w] \in EditKinds
    BY DEF Commit, Cached, StampedKinds, Typed, Shape, KindOK
  <2>2. View(w) \in Rows
    BY ViewRow DEF Commit, Typed, TypeOK
  <2> QED BY <2>1, <2>2 DEF Commit, Typed, TypeOK, WorkerTypeOK, Writer
<1>2. /\ View(w).mm = stamp[w] /\ stamp[w] \leq clock /\ lock[pkg[w]] = w
      /\ \A p \in Packages : stamp[w] \notin used[p]
      /\ \A v \in Workers : Writer(v) /\ v # w => stamp[v] # stamp[w]
  BY <1>1 DEF Cached, LockOK, StampOK
<1>3. ASSUME NEW v \in Workers \ {w}
      PROVE  /\ pc'[v] = pc[v] /\ kind'[v] = kind[v] /\ buf'[v] = buf[v]
             /\ stamp'[v] = stamp[v] /\ tx'[v] = tx[v]
             /\ (Writer(v)' <=> Writer(v))
  BY DEF Commit, Finish, Goto, Typed, TypeOK, Writer
<1>4. /\ pc'[w] \in {"idle", "again"} /\ kind'[w] \in StampedKinds
      /\ pc'[w] = "again" => buf'[w] = View(w)
      /\ lock' = [p \in Packages |-> IF lock[p] = w THEN None ELSE lock[p]]
  BY <1>1 DEF Commit, Finish, Goto, Unlock, Typed, TypeOK, StampedKinds, EditKinds, BulkKinds
<1>5. /\ db'[pkg[w]] = View(w) /\ used'[pkg[w]] = used[pkg[w]] \cup {stamp[w]}
      /\ \A p \in Packages \ {pkg[w]} : db'[p] = db[p] /\ used'[p] = used[p]
  BY <1>1, <1>2 DEF Typed, TypeOK, StoresTypeOK
<1>6. ~ Writer(w)' /\ View(w) # None
  BY <1>1, <1>4, NoneAssumption DEF Writer
<1>7. ASSUME NEW v \in Workers \ {w}, pc[v] \in {"index", "commit"}
      PROVE  pkg[v] # pkg[w] /\ View(v)' = View(v)
  <2>1. pkg[v] # pkg[w]
    BY <1>2, <1>7 DEF Cached, LockOK
  <2>2. pkg[v] \in Packages
    BY DEF Typed, TypeOK, WorkerTypeOK
  <2> QED BY <1>1, <1>3, <1>5, <2>1, <2>2 DEF View
<1>8. ASSUME NEW p \in Packages PROVE DocsOK(p)' /\ UsedOK(p)'
  <2>1. UsedOK(p)'
    BY <1>1, <1>2, <1>5 DEF Cached, UsedOK
  <2>2. ASSUME NEW d, DocOK(p, d) PROVE DocOK(p, d)'
    <3>1. ASSUME d # None PROVE Attributed(p, d)'
      BY <1>1, <1>3, <1>6, <1>7, <2>2, <3>1 DEF DocOK, Attributed
    <3>2. ASSUME d # None, db'[p] # None, d.mm = db'[p].mm PROVE d = db'[p]
      <4>1. CASE p = pkg[w]
        BY <1>1, <1>2, <1>5, <2>2, <3>2, <4>1 DEF DocOK, Attributed
      <4>2. CASE p # pkg[w]
        BY <1>5, <2>2, <3>2, <4>2 DEF DocOK
      <4> QED BY <4>1, <4>2
    <3> QED BY <1>1, <2>2, <3>1, <3>2 DEF DocOK
  <2> QED BY <1>1, <2>1, <2>2 DEF Cached, DocsOK
<1>9. ASSUME NEW v \in Workers PROVE StampOK(v)'
  BY <1>1, <1>2, <1>3, <1>5, <1>6 DEF Cached, StampOK
<1>10. ASSUME NEW v \in Workers PROVE LockOK(v)'
  <2>1. CASE v = w
    BY <1>4, <2>1 DEF LockOK
  <2>2. CASE v # w
    <3>1. pkg[v] \in Packages
      BY DEF Typed, TypeOK, WorkerTypeOK
    <3> QED BY <1>1, <1>3, <1>4, <1>7, <2>2, <3>1 DEF Cached, LockOK
  <2> QED BY <2>1, <2>2
<1>11. ASSUME NEW v \in Workers PROVE CarryOK(v)'
  <2>1. CASE v = w
    BY <1>1, <1>2, <1>4, <1>5, <2>1 DEF CarryOK, Carrying, Current
  <2>2. CASE v # w
    <3>1. pkg[v] \in Packages
      BY DEF Typed, TypeOK, WorkerTypeOK
    <3> QED BY <1>1, <1>2, <1>3, <1>5, <2>2, <3>1 DEF Cached, CarryOK, Carrying, Current
  <2> QED BY <2>1, <2>2
<1>12. ASSUME NEW v \in Workers PROVE kind'[v] \in StampedKinds
  BY <1>3, <1>4 DEF Cached
<1> QED BY <1>8, <1>9, <1>10, <1>11, <1>12 DEF Cached

-----------------------------------------------------------------------------
(***************************************************************************)
(* The other steps are gentle.                                             *)
(***************************************************************************)

\* The end of a request, whatever it puts in the index before.
LEMMA FinishGentle ==
    ASSUME Typed, Cached, NEW w \in Workers, Finish(w),
           UNCHANGED <<db, used, clock, pkg, todo>>, Harmless
    PROVE  Gentle(w)
<1>1. Only(w)
  BY FinishTyped
<1>2. pc'[w] = "idle" /\ kind'[w] = "show"
  BY DEF Finish, Goto, Typed, TypeOK
<1>3. \A p \in Packages : lock[p] # None /\ lock[p] # w => lock'[p] = lock[p]
  BY DEF Finish, Unlock
<1> QED BY <1>1, <1>2, <1>3 DEF Gentle, StampedKinds, Writer, CarryOK, Carrying

\* A step that only moves the request on: it touches no store.
LEMMA ReadGentle ==
    ASSUME Typed, Cached, NEW w \in Workers, Only(w),
           UNCHANGED <<db, used, clock, pend, lock, solr, pkg>>,
           kind'[w] \in StampedKinds, pc'[w] \notin {"write", "index", "commit"},
           CarryOK(w)'
    PROVE  Gentle(w)
  BY DEF Gentle, Writer, Harmless

\* A document a request carries is current, joined to the related rows too.
LEMMA JoinCurrent ==
    ASSUME Typed, Cached, NEW w \in Workers, Carrying(w), Existing(w)
    PROVE  Current(pkg[w], Join(buf[w], db[pkg[w]]))
<1>1. WorkerTypeOK(w) /\ Shape(w) /\ StoresTypeOK /\ CarryOK(w)
  BY DEF Typed, TypeOK, Cached
<1>2. buf[w] \in Rows /\ db[pkg[w]] \in Rows
  BY <1>1 DEF Shape, Holding, Carrying, WorkerTypeOK, StoresTypeOK
<1> QED BY <1>1, <1>2, JoinRow DEF CarryOK, Current

\* A step that leaves the index alone, and the commit of a current document.
LEMMA QuietHarmless == UNCHANGED <<solr, pend>> => Harmless
  BY DEF Harmless

LEMMA IndexHarmless ==
    ASSUME StoresTypeOK, NEW p \in Packages, NEW d, Current(p, d),
           IndexPackage(p, d) \/ IndexDeferred(p, d)
    PROVE  Harmless
<1>1. CASE IndexPackage(p, d)
  BY <1>1 DEF IndexPackage, Visible, Harmless, StoresTypeOK
<1>2. CASE ~ IndexPackage(p, d)
  BY <1>2 DEF IndexDeferred, Harmless, StoresTypeOK
<1> QED BY <1>1, <1>2

LEMMA StepCached ==
    ASSUME Kinds \subseteq StampedKinds
    PROVE  Typed /\ Cached /\ [Next]_vars => Cached'
<1> SUFFICES ASSUME Typed, Cached, [Next]_vars PROVE Cached'
  OBVIOUS
<1>0. /\ Typed' /\ StoresTypeOK
      /\ \A w \in Workers : WorkerTypeOK(w) /\ Shape(w) /\ CarryOK(w)
                            /\ kind[w] \in StampedKinds
  BY StepTyped DEF Typed, TypeOK, Cached
<1>1. ASSUME NEW w \in Workers, Start(w) PROVE Cached'
  <2>1. PICK k \in Kinds, p \in Packages :
          /\ \E d \in Arguments(k) : arg' = [arg EXCEPT ![w] = d]
          /\ kind' = [kind EXCEPT ![w] = k]
          /\ pkg' = [pkg EXCEPT ![w] = p]
          /\ Goto(w, FirstStep(k))
    BY <1>1 DEF Start
  <2>2. kind'[w] = k /\ pc'[w] = FirstStep(k) /\ k \in StampedKinds
    BY <2>1 DEF Goto, Typed, TypeOK
  <2>3. FirstStep(k) \in {"stamp", "show_row", "get", "list"}
    BY <2>2 DEF FirstStep, StampedKinds, EditKinds, ScanKinds
  <2>4. Only(w)
    BY <1>1 DEF Start, Only, Goto, Typed, TypeOK
  <2>5. Gentle(w)
    BY <1>1, <2>2, <2>3, <2>4, QuietHarmless
    DEF Start, stores, Gentle, Writer, CarryOK, Carrying
  <2> QED BY <2>5, GentleCached
<1>2. ASSUME NEW w \in Workers, ShowRow(w) PROVE Cached'
  <2>1. CASE db[pkg[w]] = None
    BY <1>2, <2>1, QuietHarmless, FinishGentle, GentleCached DEF ShowRow
  <2>2. CASE db[pkg[w]] # None
    <3>1. /\ Only(w) /\ pc'[w] = "show_doc" /\ buf'[w] = db[pkg[w]]
          /\ UNCHANGED <<db, used, clock, pend, lock, solr, pkg, kind>>
      BY <1>2, <2>2 DEF ShowRow, Only, Goto, Typed, TypeOK
    <3>2. CarryOK(w)'
      BY <1>0, <2>2, <3>1 DEF CarryOK, Current, Cached, UsedOK, WorkerTypeOK
    <3> QED BY <1>0, <3>1, <3>2, ReadGentle, GentleCached
  <2> QED BY <2>1, <2>2
<1>3. ASSUME NEW w \in Workers, ShowDoc(w) PROVE Cached'
  <2>1. /\ Only(w) /\ pc'[w] = "shown" /\ pc[w] = "show_doc"
        /\ UNCHANGED <<db, used, clock, pend, lock, solr, pkg, kind>>
        /\ buf'[w] = IF CacheHit(solr[pkg[w]], buf[w]) THEN solr[pkg[w]]
                     ELSE Join(buf[w], db[pkg[w]])
    BY <1>3 DEF ShowDoc, Only, Goto, stores, request, Typed, TypeOK
  <2>2. Carrying(w) /\ Existing(w) /\ pkg[w] \in Packages
    BY <1>0, <2>1 DEF Carrying, Existing, Shape, KindOK, WorkerTypeOK
  <2>3. CASE CacheHit(solr[pkg[w]], buf[w])
    <3>1. Current(pkg[w], solr[pkg[w]])
      BY <1>0, <2>2, <2>3 DEF CacheHit, Cached, DocsOK, DocOK, CarryOK, Current, Existing, Shape
    <3> QED BY <1>0, <2>1, <2>3, <3>1, ReadGentle, GentleCached DEF CarryOK, Current
  <2>4. CASE ~ CacheHit(solr[pkg[w]], buf[w])
    BY <1>0, <2>1, <2>2, <2>4, JoinCurrent, ReadGentle, GentleCached DEF CarryOK, Current
  <2> QED BY <2>3, <2>4
<1>4. ASSUME NEW w \in Workers, Reply(w) PROVE Cached'
  <2>1. CASE kind[w] = "patch"
    <3>1. /\ Only(w) /\ pc'[w] = "stamp"
          /\ UNCHANGED <<db, used, clock, pend, lock, solr, pkg, kind>>
      BY <1>4, <2>1 DEF Reply, Only, Goto, local, Typed, TypeOK
    <3> QED BY <1>0, <3>1, ReadGentle, GentleCached DEF CarryOK, Carrying
  <2>2. CASE kind[w] # "patch"
    BY <1>4, <2>2, QuietHarmless, FinishGentle, GentleCached DEF Reply
  <2> QED BY <2>1, <2>2
<1>5. ASSUME NEW w \in Workers, CreateClash(w) PROVE Cached'
  BY <1>5, QuietHarmless, FinishGentle, GentleCached DEF CreateClash
<1>6. ASSUME NEW w \in Workers, IndexAgain(w) PROVE Cached'
  <2>1. Current(pkg[w], Join(buf[w], db[pkg[w]])) /\ pkg[w] \in Packages
    BY <1>0, <1>6, JoinCurrent DEF IndexAgain, Carrying, Existing, Shape, KindOK, WorkerTypeOK
  <2> QED BY <1>0, <1>6, <2>1, IndexHarmless, FinishGentle, GentleCached DEF IndexAgain
<1>7. ASSUME NEW w \in Workers, BulkFetch(w) \/ BulkPatch(w) PROVE Cached'
  BY <1>0, <1>7 DEF BulkFetch, BulkPatch, Shape, KindOK, StampedKinds, EditKinds, ScanKinds,
     BulkKinds
<1>17. ASSUME NEW w \in Workers, CommitIndex(w) PROVE Cached'
  <2>1. Harmless
    BY <1>0, <1>17 DEF CommitIndex, Visible, Harmless, StoresTypeOK
  <2> QED BY <1>17, <2>1, FinishGentle, GentleCached DEF CommitIndex
<1>8. ASSUME NEW w \in Workers, RebuildList(w) PROVE Cached'
  <2>1. /\ Only(w) /\ pc'[w] \in {"clear", "next"}
        /\ UNCHANGED <<db, used, clock, pend, lock, solr, pkg, kind>>
    BY <1>8 DEF RebuildList, Only, Goto, stores, Typed, TypeOK
  <2> QED BY <1>0, <2>1, ReadGentle, GentleCached DEF CarryOK, Carrying
<1>9. ASSUME NEW w \in Workers, RebuildClear(w) PROVE Cached'
  <2>1. /\ Only(w) /\ pc'[w] = "next"
        /\ UNCHANGED <<db, used, clock, lock, pkg, kind>>
    BY <1>9 DEF RebuildClear, Only, Goto, request, Typed, TypeOK
  <2>2. Harmless
    BY <1>9 DEF RebuildClear, Harmless
  <2>3. Gentle(w)
    BY <1>0, <2>1, <2>2 DEF Gentle, Writer, CarryOK, Carrying
  <2> QED BY <2>3, GentleCached
<1>10. ASSUME NEW w \in Workers, RebuildNext(w) PROVE Cached'
  <2>1. /\ Only(w) /\ pc'[w] \in {"flush", "get"}
        /\ UNCHANGED <<db, used, clock, pend, lock, solr, kind>>
    BY <1>10 DEF RebuildNext, Only, Goto, local, stores, Typed, TypeOK
  <2>2. Gentle(w)
    BY <1>0, <2>1, QuietHarmless DEF Gentle, Writer, CarryOK, Carrying
  <2> QED BY <2>2, GentleCached
<1>11. ASSUME NEW w \in Workers, GetRow(w) PROVE Cached'
  <2>1. kind[w] \in ScanKinds /\ kind[w] \notin MemberKinds
    BY <1>0, <1>11 DEF GetRow, Shape, KindOK, StampedKinds, EditKinds, ScanKinds, MemberKinds
  <2>2. /\ Only(w) /\ pc'[w] = "get_related" /\ buf'[w] = db[pkg[w]]
        /\ UNCHANGED <<db, used, clock, pend, lock, solr, pkg, kind>>
        /\ Existing(w) /\ pkg[w] \in Packages
    BY <1>0, <1>11, <2>1 DEF GetRow, Only, Goto, Typed, TypeOK, Existing, ScanKinds, WorkerTypeOK
  <2>3. CarryOK(w)'
    BY <1>0, <2>2 DEF CarryOK, Current, Cached, UsedOK, Shape
  <2> QED BY <1>0, <2>2, <2>3, ReadGentle, GentleCached
<1>12. ASSUME NEW w \in Workers, GetRelated(w) PROVE Cached'
  <2>1. /\ Only(w) /\ pc'[w] \in {"remove", "insert"} /\ pc[w] = "get_related"
        /\ buf'[w] = Join(buf[w], db[pkg[w]])
        /\ UNCHANGED <<db, used, clock, pend, lock, solr, pkg, kind>>
    BY <1>12 DEF GetRelated, Only, Goto, stores, request, Typed, TypeOK
  <2>2. Carrying(w) /\ Existing(w)
    BY <1>0, <2>1 DEF Carrying, Existing, Shape, KindOK, ScanKinds
  <2> QED BY <1>0, <2>1, <2>2, JoinCurrent, ReadGentle, GentleCached DEF CarryOK, Current
<1>13. ASSUME NEW w \in Workers, Remove(w) PROVE Cached'
  <2>1. /\ Only(w) /\ pc'[w] = "insert" /\ pc[w] = "remove" /\ buf'[w] = buf[w]
        /\ UNCHANGED <<db, used, clock, lock, pkg, kind>>
    BY <1>13 DEF Remove, Only, Goto, request, Typed, TypeOK
  <2>2. Harmless
    BY <1>0, <1>13 DEF Remove, Visible, Harmless, StoresTypeOK, WorkerTypeOK
  <2>3. CarryOK(w)'
    BY <1>0, <2>1 DEF CarryOK, Carrying, Current
  <2>4. Gentle(w)
    BY <1>0, <2>1, <2>2, <2>3 DEF Gentle, Writer
  <2> QED BY <2>4, GentleCached
<1>14. ASSUME NEW w \in Workers, Insert(w) PROVE Cached'
  <2>1. Current(pkg[w], buf[w]) /\ pkg[w] \in Packages
    BY <1>0, <1>14 DEF Insert, CarryOK, Carrying, WorkerTypeOK
  <2>2. Harmless
    BY <1>0, <1>14, <2>1, IndexHarmless DEF Insert
  <2>3. CASE kind[w] = "rebuild"
    <3>1. /\ Only(w) /\ pc'[w] = "next"
          /\ UNCHANGED <<db, used, clock, lock, pkg, kind>>
      BY <1>14, <2>3 DEF Insert, Only, Goto, Typed, TypeOK
    <3>2. Gentle(w)
      BY <1>0, <2>2, <3>1 DEF Gentle, Writer, CarryOK, Carrying
    <3> QED BY <3>2, GentleCached
  <2>4. CASE kind[w] # "rebuild"
    BY <1>14, <2>2, <2>4, FinishGentle, GentleCached DEF Insert
  <2> QED BY <2>3, <2>4
<1>15. ASSUME NEW w \in Workers, Abort(w) PROVE Cached'
  BY <1>15, QuietHarmless, FinishGentle, GentleCached DEF Abort
<1>16. CASE UNCHANGED vars
  BY <1>16 DEF vars, Cached, DocsOK, DocOK, UsedOK, StampOK, LockOK, CarryOK, Carrying, Current,
     Attributed, Writer, View
<1> QED
  BY <1>1, <1>2, <1>3, <1>4, <1>5, <1>6, <1>7, <1>8, <1>9, <1>10, <1>11, <1>12, <1>13,
     <1>14, <1>15, <1>16, <1>17, StampCached, WriteCached, NotifyIndexCached, CommitCached
  DEF Next, Step

\* When every request that changes a dataset gives it a new metadata_modified,
\* package_show never serves from the index a document that differs from the
\* row, whatever crashed or was indexed late.
THEOREM CacheIsHonest ==
    ASSUME Kinds \subseteq StampedKinds
    PROVE  Spec => []CacheHonest
<1>1. Spec => [](Typed /\ Cached)
  BY InitTyped, StepTyped, InitCached, StepCached, PTL DEF Spec
<1>2. Cached => CacheHonest
  BY DEF Cached, DocsOK, DocOK, CacheHonest, CacheHit
<1> QED BY <1>1, <1>2, PTL

\* Under the same assumption, a dictionary package_show returned with the
\* metadata_modified of the row is the row.
THEOREM RepliesAreHonest ==
    ASSUME Kinds \subseteq StampedKinds
    PROVE  Spec => []ReplyHonest
<1>1. Spec => [](Typed /\ Cached)
  BY InitTyped, StepTyped, InitCached, StepCached, PTL DEF Spec
<1>2. Cached => ReplyHonest
  BY DEF Cached, CarryOK, Carrying, Current, ReplyHonest
<1> QED BY <1>1, <1>2, PTL

-----------------------------------------------------------------------------
(***************************************************************************)
(* The two stores together implement a register of each dataset.           *)
(***************************************************************************)

LEMMA ServedIsRow == Typed /\ Cached => Served = db
<1> SUFFICES ASSUME Typed, Cached PROVE Served = db
  OBVIOUS
<1>1. db = [p \in Packages |-> db[p]]
  BY DEF Typed, TypeOK, StoresTypeOK
<1>2. ASSUME NEW p \in Packages, db[p] # None, CacheHit(solr[p], db[p]) PROVE solr[p] = db[p]
  BY <1>2 DEF CacheHit, Cached, DocsOK, DocOK
<1> QED BY <1>1, <1>2 DEF Served

\* Only Commit changes the rows and the history.
LEMMA OnlyCommits ==
    ASSUME NEW w \in Workers, Start(w) \/ Write(w) \/ Step(w) \/ Abort(w), ~ Commit(w)
    PROVE  UNCHANGED <<db, used>>
  BY DEF Start, Write, Step, Abort, ShowRow, ShowDoc, Reply, Stamp, CreateClash,
     NotifyIndex, IndexAgain, BulkFetch, BulkPatch, CommitIndex, RebuildList, RebuildClear,
     RebuildNext, GetRow, GetRelated, Remove, Insert, stores

LEMMA CommitPuts ==
    ASSUME Typed, Cached, NEW w \in Workers, Commit(w), Served = db, Served' = db'
    PROVE  Register!Put(pkg[w], (Served')[pkg[w]])
<1>1. /\ db' = [db EXCEPT ![pkg[w]] = View(w)]
      /\ used' = [used EXCEPT ![pkg[w]] = @ \cup {View(w).mm}]
      /\ pc[w] = "commit" /\ pkg[w] \in Packages /\ View(w) \in Rows
      /\ kind[w] \in EditKinds
  <2>1. kind[w] \in EditKinds
    BY DEF Commit, Cached, StampedKinds, Typed, Shape, KindOK
  <2> QED BY <2>1, ViewRow DEF Commit, Typed, TypeOK, WorkerTypeOK
<1>2. View(w).mm \notin used[pkg[w]]
  BY <1>1 DEF Cached, LockOK, StampOK, Writer
<1>3. db'[pkg[w]] = View(w)
  BY <1>1 DEF Typed, TypeOK, StoresTypeOK
<1> QED BY <1>1, <1>2, <1>3 DEF Register!Put

\* Under the assumption of CacheIsHonest, what package_show serves is a
\* register: one commit of the database is one change of it, and the writes to
\* the index change nothing a reader is served.
THEOREM ServesARegister ==
    ASSUME Kinds \subseteq StampedKinds
    PROVE  Spec => ImplementsRegister
<1>1. Spec => [](Typed /\ Cached)
  BY InitTyped, StepTyped, InitCached, StepCached, PTL DEF Spec
<1>2. Init => Register!Init
  <2> SUFFICES ASSUME Init PROVE Register!Init
    OBVIOUS
  <2>1. Served = db
    BY InitTyped, InitCached, ServedIsRow
  <2>2. db \in [Packages -> Rows \cup {None}]
    BY InitTyped DEF Typed, TypeOK, StoresTypeOK
  <2> QED BY <2>1, <2>2 DEF Init, Register!Init
<1>3. (Typed /\ Cached => Served = db)'
  BY ServedIsRow, PTL
<1>4. Typed /\ Cached /\ Typed' /\ Cached' /\ [Next]_vars => [Register!Next]_(Register!vars)
  <2> SUFFICES ASSUME Typed, Cached, Typed', Cached', [Next]_vars
               PROVE  [Register!Next]_(Register!vars)
    OBVIOUS
  <2>1. Served = db /\ Served' = db'
    BY ServedIsRow, <1>3
  <2>2. CASE UNCHANGED <<db, used>>
    BY <2>1, <2>2 DEF Register!vars
  <2>3. ASSUME NEW w \in Workers, Commit(w) PROVE Register!Next
    <3>1. pkg[w] \in Packages
      BY DEF Typed, TypeOK, WorkerTypeOK
    <3> QED BY <2>1, <2>3, <3>1, CommitPuts DEF Register!Next
  <2> QED BY <2>2, <2>3, OnlyCommits DEF Next, vars
<1> QED BY <1>1, <1>2, <1>4, PTL DEF Spec, ImplementsRegister, Register!Spec
=============================================================================
