------------------------- MODULE DatasetIndexProofs -------------------------
(***************************************************************************)
(* Proofs about DatasetIndex, for any number of datasets and workers.      *)
(***************************************************************************)
EXTENDS DatasetIndex, TLAPS

-----------------------------------------------------------------------------
(***************************************************************************)
(* The shape of a request: which kinds may be at which step, and what the  *)
(* worker holds there.                                                     *)
(***************************************************************************)

\* The kinds a request may have at each step.
KindOK(w) ==
    /\ pc[w] = "idle" => kind[w] = "show"
    /\ pc[w] \in {"show_row", "show_doc", "shown"} => kind[w] \in {"show", "patch"}
    /\ pc[w] = "stamp" => kind[w] \in EditKinds
    /\ pc[w] = "write" => kind[w] \notin ScanKinds \cup {"show"}
    /\ pc[w] = "index" => Notified(kind[w])
    /\ pc[w] = "commit" => kind[w] \notin ScanKinds \cup {"show"}
    /\ pc[w] = "again" => kind[w] = "move"
    /\ pc[w] \in {"fetch", "patch"} => kind[w] \in BulkKinds
    /\ pc[w] = "flush" => kind[w] \in BulkKinds \cup {"rebuild"}
    /\ pc[w] \in {"list", "clear", "next"} => kind[w] = "rebuild"
    /\ pc[w] = "get" => kind[w] \in MemberKinds \cup ScanKinds
    /\ pc[w] \in {"get_related", "insert"} => kind[w] \in ScanKinds
    /\ pc[w] = "remove" => kind[w] = "reindex"

\* The steps at which the worker holds a row or a document in memory.
Holding(w) ==
    \/ pc[w] \in {"show_doc", "shown", "get_related", "remove", "insert", "again", "patch"}
    \/ kind[w] = "patch" /\ pc[w] \in {"stamp", "write"}
    \/ kind[w] \in MemberKinds /\ pc[w] \in {"write", "index"}

\* The steps at which the dataset of the request is known to exist.
Existing(w) ==
    /\ pc[w] \notin {"idle", "show_row", "list", "clear", "next", "flush"}
    /\ kind[w] # "create"

Shape(w) ==
    /\ KindOK(w)
    /\ Holding(w) => buf[w] # None
    /\ pc[w] \in {"idle", "list", "clear", "next"} => buf[w] = None
    /\ Existing(w) => db[pkg[w]] # None
    /\ \A p \in todo[w] : db[p] # None
    /\ kind[w] \in {"create", "update", "move"} => arg[w] \in Updates
    /\ kind[w] = "patch" => arg[w] \in Patches
    /\ kind[w] = "create" /\ pc[w] \in {"index", "commit"} => DOMAIN tx[w] = Fields

Typed == TypeOK /\ \A w \in Workers : Shape(w)

-----------------------------------------------------------------------------
(***************************************************************************)
(* Rows built field by field.                                              *)
(***************************************************************************)

\* A function on the fields whose values are those of a row is a row.
LEMMA RowIntro ==
    ASSUME NEW g, g = [f \in Fields |-> g[f]],
           g["title"] \in Nat, g["private"] \in BOOLEAN, g["state"] \in States,
           g["mm"] \in Nat, g["body"] \in Nat, g["groups"] \in BOOLEAN,
           g["rels"] \in BOOLEAN
    PROVE  g \in Rows
  BY DEF Rows, Fields, RowFields, RelatedFields

LEMMA RowElim ==
    ASSUME NEW g \in Rows
    PROVE  /\ g["title"] \in Nat /\ g["private"] \in BOOLEAN /\ g["state"] \in States
           /\ g["mm"] \in Nat /\ g["body"] \in Nat /\ g["groups"] \in BOOLEAN
           /\ g["rels"] \in BOOLEAN
           /\ g = [f \in Fields |-> g[f]]
  BY DEF Rows, Fields, RowFields, RelatedFields

\* Fields written over a row make a row; so do all the fields over no row.
LEMMA OverlayRow ==
    ASSUME NEW d, Partial(d), NEW r, r \in Rows \/ DOMAIN d = Fields
    PROVE  Overlay(d, r) \in Rows
<1> DEFINE g == Overlay(d, r)
<1>1. g = [f \in Fields |-> g[f]]
  BY DEF Overlay
<1>2. ASSUME NEW f \in Fields
      PROVE  g[f] = IF f \in DOMAIN d THEN d[f] ELSE r[f]
  BY DEF Overlay
<1>3. /\ g["title"] \in Nat /\ g["private"] \in BOOLEAN /\ g["state"] \in States
      /\ g["mm"] \in Nat /\ g["body"] \in Nat /\ g["groups"] \in BOOLEAN
      /\ g["rels"] \in BOOLEAN
  <2> HIDE DEF g
  <2>1. /\ "title" \in Fields /\ "private" \in Fields /\ "state" \in Fields
        /\ "mm" \in Fields /\ "body" \in Fields /\ "groups" \in Fields
        /\ "rels" \in Fields
    BY DEF Fields, RowFields, RelatedFields
  <2>2. CASE r \in Rows
    BY <1>2, <2>1, <2>2, RowElim DEF Partial
  <2>3. CASE DOMAIN d = Fields
    BY <1>2, <2>1, <2>3 DEF Partial
  <2> QED BY <2>2, <2>3
<1> HIDE DEF g
<1>4. g \in Rows
  BY <1>1, <1>3, RowIntro
<1> QED BY <1>4 DEF g

LEMMA JoinRow ==
    ASSUME NEW r \in Rows, NEW r2 \in Rows
    PROVE  /\ Join(r, r2) \in Rows
           /\ Join(r, r2).mm = r.mm
           /\ r = r2 => Join(r, r2) = r
<1> DEFINE g == Join(r, r2)
<1>1. g = [f \in Fields |-> g[f]]
  BY DEF Join
<1>2. ASSUME NEW f \in Fields
      PROVE  g[f] = IF f \in RowFields THEN r[f] ELSE r2[f]
  BY DEF Join
<1> HIDE DEF g
<1>3. /\ "title" \in Fields /\ "private" \in Fields /\ "state" \in Fields
      /\ "mm" \in Fields /\ "body" \in Fields /\ "groups" \in Fields
      /\ "rels" \in Fields
  BY DEF Fields, RowFields, RelatedFields
<1>4. g \in Rows
  BY <1>1, <1>2, <1>3, RowElim, RowIntro
<1>5. g["mm"] = r["mm"]
  BY <1>2, <1>3 DEF RowFields
<1>6. ASSUME r = r2 PROVE g = r
  BY <1>1, <1>2, <1>6, RowElim
<1> QED BY <1>4, <1>5, <1>6 DEF g

-----------------------------------------------------------------------------
(***************************************************************************)
(* Type correctness.                                                       *)
(***************************************************************************)

LEMMA EmptyPartial == Partial(EmptyTx)
  BY DEF Partial, EmptyTx

LEMMA ArgumentsPartial ==
    ASSUME NEW k, NEW d \in Arguments(k)
    PROVE  Partial(d)
  BY EmptyPartial, UpdatesAssumption, PatchesAssumption DEF Arguments

LEMMA InitTyped == Init => Typed
<1> SUFFICES ASSUME Init PROVE Typed
  OBVIOUS
<1>1. FirstRow \in Rows /\ FirstRow.mm \in Nat
  BY DEF FirstRow, Rows, States
<1>2. StoresTypeOK
  BY <1>1 DEF Init, StoresTypeOK, Rows
<1>3. ASSUME NEW w \in Workers PROVE WorkerTypeOK(w) /\ Shape(w)
  BY EmptyPartial DEF Init, WorkerTypeOK, Labels, AllKinds, Shape, KindOK, Holding,
     Existing, EditKinds, BulkKinds, MemberKinds, ScanKinds
<1>4. TypeOK
  BY <1>2, <1>3 DEF TypeOK, Init
<1> QED BY <1>3, <1>4 DEF Typed

\* Nothing but the request of w changes.
Only(w) ==
    /\ pc' = [pc EXCEPT ![w] = pc'[w]]
    /\ kind' = [kind EXCEPT ![w] = kind'[w]]
    /\ pkg' = [pkg EXCEPT ![w] = pkg'[w]]
    /\ arg' = [arg EXCEPT ![w] = arg'[w]]
    /\ todo' = [todo EXCEPT ![w] = todo'[w]]
    /\ buf' = [buf EXCEPT ![w] = buf'[w]]
    /\ stamp' = [stamp EXCEPT ![w] = stamp'[w]]
    /\ tx' = [tx EXCEPT ![w] = tx'[w]]

\* No dataset is lost from the database.
Persists == \A p \in Packages : db[p] # None => db'[p] # None

LEMMA OnlyTyped ==
    ASSUME Typed, NEW w \in Workers, Only(w), Persists,
           StoresTypeOK', WorkerTypeOK(w)', Shape(w)'
    PROVE  Typed'
<1>1. /\ pc' = [v \in Workers |-> pc'[v]]
      /\ kind' = [v \in Workers |-> kind'[v]]
      /\ pkg' = [v \in Workers |-> pkg'[v]]
      /\ arg' = [v \in Workers |-> arg'[v]]
      /\ todo' = [v \in Workers |-> todo'[v]]
      /\ buf' = [v \in Workers |-> buf'[v]]
      /\ stamp' = [v \in Workers |-> stamp'[v]]
      /\ tx' = [v \in Workers |-> tx'[v]]
  BY DEF Only, Typed, TypeOK
<1>2. ASSUME NEW v \in Workers \ {w}
      PROVE  /\ pc'[v] = pc[v] /\ kind'[v] = kind[v] /\ pkg'[v] = pkg[v]
             /\ arg'[v] = arg[v] /\ todo'[v] = todo[v] /\ buf'[v] = buf[v]
             /\ stamp'[v] = stamp[v] /\ tx'[v] = tx[v]
  BY DEF Only, Typed, TypeOK
<1>3. ASSUME NEW v \in Workers \ {w} PROVE WorkerTypeOK(v)' /\ Shape(v)'
  <2>1. WorkerTypeOK(v) /\ Shape(v)
    BY DEF Typed, TypeOK
  <2>2. WorkerTypeOK(v)'
    BY <1>2, <2>1 DEF WorkerTypeOK
  <2>3. Shape(v)'
    BY <1>2, <2>1 DEF Shape, KindOK, Holding, Existing, WorkerTypeOK, Persists
  <2> QED BY <2>2, <2>3
<1> QED BY <1>1, <1>3 DEF Typed, TypeOK

\* The end of a request.
LEMMA FinishTyped ==
    ASSUME Typed, NEW w \in Workers, Finish(w), UNCHANGED <<pkg, todo>>
    PROVE  /\ Only(w)
           /\ WorkerTypeOK(w)'
           /\ Persists => Shape(w)'
           /\ lock' \in [Packages -> Workers \cup {None}]
<1>1. WorkerTypeOK(w) /\ Shape(w)
  BY DEF Typed, TypeOK
<1>2. Only(w)
  BY DEF Only, Finish, Goto, Typed, TypeOK
<1>3. /\ pc'[w] = "idle" /\ kind'[w] = "show" /\ buf'[w] = None /\ arg'[w] = EmptyTx
      /\ stamp'[w] = 0 /\ tx'[w] = EmptyTx /\ pkg'[w] = pkg[w] /\ todo'[w] = todo[w]
  BY DEF Finish, Goto, Typed, TypeOK
<1>4. WorkerTypeOK(w)'
  BY <1>1, <1>3, EmptyPartial DEF WorkerTypeOK, Labels, AllKinds
<1>5. ASSUME Persists PROVE Shape(w)'
  BY <1>1, <1>3, <1>5 DEF Shape, KindOK, Holding, Existing, MemberKinds, WorkerTypeOK,
     Persists
<1>6. lock' \in [Packages -> Workers \cup {None}]
  BY DEF Finish, Unlock, Typed, TypeOK, StoresTypeOK
<1> QED BY <1>2, <1>4, <1>5, <1>6

\* What a worker writes to the index is a whole document.
LEMMA VisibleTyped ==
    StoresTypeOK => Visible \in [Packages -> Rows \cup {None}]
  BY DEF StoresTypeOK, Visible

LEMMA IndexTyped ==
    ASSUME StoresTypeOK, NEW p \in Packages, NEW doc \in Rows, IndexPackage(p, doc)
    PROVE  /\ solr' \in [Packages -> Rows \cup {None}]
           /\ pend' \in [Packages -> Rows \cup {None}]
  BY VisibleTyped DEF IndexPackage

LEMMA DeferredTyped ==
    ASSUME StoresTypeOK, NEW p \in Packages, NEW doc \in Rows, IndexDeferred(p, doc)
    PROVE  /\ solr' \in [Packages -> Rows \cup {None}]
           /\ pend' \in [Packages -> Rows \cup {None}]
  BY IndexTyped DEF IndexDeferred, StoresTypeOK

\* So is what its transaction sees of the dataset, from the time it has sent its
\* statements to the commit.
LEMMA ViewRow ==
    ASSUME StoresTypeOK, NEW w \in Workers, WorkerTypeOK(w), Shape(w),
           pc[w] \in {"index", "commit"}
    PROVE  View(w) \in Rows
<1>1. Partial(tx[w])
  BY DEF WorkerTypeOK
<1>2. db[pkg[w]] \in Rows \/ DOMAIN tx[w] = Fields
  BY DEF Shape, Existing, StoresTypeOK, WorkerTypeOK
<1> QED BY <1>1, <1>2, OverlayRow DEF View

\* What Write puts in the transaction.
LEMMA PlainPartial ==
    ASSUME NEW k \in AllKinds, k \notin EditKinds \cup ScanKinds \cup {"show"}
    PROVE  Partial(PlainDelta(k))
<1>1. k \in BulkKinds \cup MemberKinds \cup {"delete", "relate"}
  BY DEF AllKinds
<1> QED BY <1>1 DEF PlainDelta, Partial, BulkKinds, MemberKinds, Fields, RowFields,
           RelatedFields, States

LEMMA NewRowPartial ==
    ASSUME NEW w \in Workers, WorkerTypeOK(w), arg[w] \in Updates
    PROVE  Partial(NewRow(w)) /\ DOMAIN NewRow(w) = Fields
<1>1. Partial(arg[w]) /\ DOMAIN arg[w] = EditFields
  BY UpdatesAssumption
<1> QED BY <1>1 DEF NewRow, Partial, WorkerTypeOK, Fields, RowFields, RelatedFields,
           EditFields, States

LEMMA EditDeltaPartial ==
    ASSUME NEW w \in Workers, WorkerTypeOK(w), NEW admin \in BOOLEAN,
           \/ kind[w] = "patch" /\ buf[w] \in Rows /\ arg[w] \in Patches
           \/ kind[w] # "patch" /\ arg[w] \in Updates
    PROVE  /\ Partial(EditDelta(w, admin))
           /\ "mm" \in DOMAIN EditDelta(w, admin)
           /\ EditDelta(w, admin)["mm"] = stamp[w]
<1> DEFINE d == Saved(w, admin)
<1>1. Partial(d)
  <2>1. CASE kind[w] = "patch"
    <3> DEFINE D == EditFields \cup (IF admin THEN {"state"} ELSE {})
    <3>1. d = [f \in D |-> IF f \in DOMAIN arg[w] THEN arg[w][f] ELSE buf[w][f]]
      BY <2>1 DEF Saved
    <3>2. Partial(arg[w]) /\ buf[w] \in Rows
      BY <2>1 DEF WorkerTypeOK
    <3>3. D \subseteq Fields
      BY DEF EditFields, Fields, RowFields, RelatedFields
    <3> HIDE DEF D, d
    <3> QED BY <3>1, <3>2, <3>3, RowElim DEF Partial
  <2>2. CASE kind[w] # "patch"
    BY <2>2, UpdatesAssumption DEF Saved
  <2> QED BY <2>1, <2>2
<1>2. /\ EditDelta(w, admin) = [f \in Written(d, db[pkg[w]]) \cup {"mm"} |->
                                  IF f = "mm" THEN stamp[w] ELSE d[f]]
      /\ Written(d, db[pkg[w]]) \subseteq DOMAIN d
  BY DEF EditDelta, Written
<1>3. stamp[w] \in Nat
  BY DEF WorkerTypeOK
<1> HIDE DEF d
<1> QED BY <1>1, <1>2, <1>3 DEF Partial, Fields, RowFields, RelatedFields

LEMMA StepTyped == Typed /\ [Next]_vars => Typed'
<1> SUFFICES ASSUME Typed, [Next]_vars PROVE Typed'
  OBVIOUS
<1>1. ASSUME NEW w \in Workers, Start(w) PROVE Typed'
  <2>1. WorkerTypeOK(w) /\ Shape(w) /\ StoresTypeOK
    BY DEF Typed, TypeOK
  <2>2. StoresTypeOK'
    BY <1>1, <2>1 DEF Start, Typed, TypeOK, StoresTypeOK, stores
  <2>3. Persists
    BY <1>1 DEF Start, Persists, stores
  <2>4. Only(w)
    BY <1>1 DEF Start, Only, Typed, TypeOK, Goto, request, local
  <2>5. WorkerTypeOK(w)'
    <3>1. PICK k \in Kinds, p \in Packages :
            /\ \E d \in Arguments(k) : arg' = [arg EXCEPT ![w] = d]
            /\ kind' = [kind EXCEPT ![w] = k]
            /\ pkg' = [pkg EXCEPT ![w] = p]
            /\ Goto(w, FirstStep(k))
      BY <1>1 DEF Start
    <3>2. /\ arg'[w] \in Arguments(k) /\ kind'[w] = k /\ pkg'[w] = p
          /\ pc'[w] = FirstStep(k)
          /\ todo'[w] = todo[w] /\ buf'[w] = buf[w] /\ stamp'[w] = stamp[w]
          /\ tx'[w] = tx[w]
      BY <1>1, <3>1 DEF Start, Goto, Typed, TypeOK
    <3>3. FirstStep(k) \in Labels
      BY DEF FirstStep, Labels
    <3> QED BY <2>1, <3>2, <3>3, ArgumentsPartial, KindsAssumption DEF WorkerTypeOK
  <2>6. Shape(w)'
    <3>1. PICK k \in Kinds, p \in Packages :
            /\ Nameable(k, p)
            /\ \E d \in Arguments(k) : arg' = [arg EXCEPT ![w] = d]
            /\ kind' = [kind EXCEPT ![w] = k]
            /\ pkg' = [pkg EXCEPT ![w] = p]
            /\ Goto(w, FirstStep(k))
      BY <1>1 DEF Start
    <3>2. /\ arg'[w] \in Arguments(k) /\ kind'[w] = k /\ pkg'[w] = p
          /\ pc'[w] = FirstStep(k)
          /\ todo'[w] = todo[w] /\ db' = db /\ buf'[w] = buf[w]
      BY <1>1, <3>1 DEF Start, Goto, Typed, TypeOK, stores
    <3>3. k \in AllKinds
      BY KindsAssumption
    <3>4. KindOK(w)'
      BY <3>2, <3>3 DEF KindOK, FirstStep, AllKinds, EditKinds, BulkKinds, MemberKinds,
         ScanKinds, Notified
    <3>5. ~ Holding(w)'
      BY <3>2, <3>3 DEF Holding, FirstStep, AllKinds, EditKinds, BulkKinds, MemberKinds,
         ScanKinds
    <3>6. Existing(w)' => db'[pkg'[w]] # None
      BY <3>1, <3>2, <3>3 DEF Existing, FirstStep, Nameable, MemberKinds, ScanKinds
    <3>7. /\ pc'[w] \in {"idle", "list", "clear", "next"} => buf'[w] = None
          /\ ~ (kind'[w] = "create" /\ pc'[w] \in {"index", "commit"})
      BY <1>1, <2>1, <3>2 DEF Start, Shape, FirstStep, MemberKinds
    <3>8. /\ kind'[w] \in {"create", "update", "move"} => arg'[w] \in Updates
          /\ kind'[w] = "patch" => arg'[w] \in Patches
      BY <3>2 DEF Arguments
    <3>9. \A q \in todo'[w] : db'[q] # None
      BY <2>1, <3>2 DEF Shape
    <3> QED BY <3>4, <3>5, <3>6, <3>7, <3>8, <3>9 DEF Shape
  <2> QED BY <2>2, <2>3, <2>4, <2>5, <2>6, OnlyTyped
<1>2. ASSUME NEW w \in Workers, ShowRow(w) PROVE Typed'
  <2>1. WorkerTypeOK(w) /\ Shape(w) /\ StoresTypeOK
    BY DEF Typed, TypeOK
  <2>2. StoresTypeOK'
    BY <1>2, <2>1, FinishTyped DEF ShowRow, Typed, TypeOK, StoresTypeOK, stores
  <2>3. Persists
    BY <1>2 DEF ShowRow, Persists, stores
  <2>4. Only(w)
    BY <1>2, FinishTyped DEF ShowRow, Only, Typed, TypeOK, Goto, request, local
  <2>5. WorkerTypeOK(w)'
    BY <1>2, <2>1, FinishTyped
    DEF ShowRow, WorkerTypeOK, StoresTypeOK, Labels, Goto, request, local, Typed, TypeOK
  <2>6. Shape(w)'
    BY <1>2, <2>1, <2>3, FinishTyped
    DEF ShowRow, Shape, KindOK, Holding, Existing, Persists, Goto, request, local,
        WorkerTypeOK, StoresTypeOK, Typed, TypeOK, EditKinds, BulkKinds, MemberKinds, ScanKinds, Notified
  <2> QED BY <2>2, <2>3, <2>4, <2>5, <2>6, OnlyTyped
<1>3. ASSUME NEW w \in Workers, ShowDoc(w) PROVE Typed'
  <2>1. WorkerTypeOK(w) /\ Shape(w) /\ StoresTypeOK
    BY DEF Typed, TypeOK
  <2>a. buf[w] \in Rows /\ db[pkg[w]] \in Rows
    BY <1>3, <2>1 DEF ShowDoc, Shape, Holding, Existing, KindOK, WorkerTypeOK, StoresTypeOK
  <2>b. buf'[w] \in Rows
    BY <1>3, <2>1, <2>a, JoinRow
    DEF ShowDoc, CacheHit, WorkerTypeOK, StoresTypeOK, Typed, TypeOK
  <2>c. buf'[w] # None
    BY <2>b, NoneAssumption
  <2>2. StoresTypeOK'
    BY <1>3, <2>1 DEF ShowDoc, Typed, TypeOK, StoresTypeOK, stores
  <2>3. Persists
    BY <1>3 DEF ShowDoc, Persists, stores
  <2>4. Only(w)
    BY <1>3 DEF ShowDoc, Only, Typed, TypeOK, Goto, request, local
  <2>5. WorkerTypeOK(w)'
    BY <1>3, <2>1, <2>b
    DEF ShowDoc, WorkerTypeOK, Labels, Goto, request, local, Typed, TypeOK
  <2>6. Shape(w)'
    BY <1>3, <2>1, <2>3, <2>c
    DEF ShowDoc, Shape, KindOK, Holding, Existing, Persists, Goto, request, stores,
        WorkerTypeOK, Typed, TypeOK
  <2> QED BY <2>2, <2>3, <2>4, <2>5, <2>6, OnlyTyped
<1>4. ASSUME NEW w \in Workers, Reply(w) PROVE Typed'
  <2>1. WorkerTypeOK(w) /\ Shape(w) /\ StoresTypeOK
    BY DEF Typed, TypeOK
  <2>2. StoresTypeOK'
    BY <1>4, <2>1, FinishTyped DEF Reply, Typed, TypeOK, StoresTypeOK, stores
  <2>3. Persists
    BY <1>4 DEF Reply, Persists, stores
  <2>4. Only(w)
    <3>1. CASE kind[w] = "patch"
      BY <1>4, <3>1 DEF Reply, Only, Typed, TypeOK, Goto, local
    <3>2. CASE ~ (kind[w] = "patch")
      BY <1>4, <3>2, FinishTyped DEF Reply, Only, Typed, TypeOK, Goto, request, local
    <3> QED BY <3>1, <3>2
  <2>5. WorkerTypeOK(w)'
    BY <1>4, <2>1, FinishTyped
    DEF Reply, WorkerTypeOK, StoresTypeOK, Labels, Goto, request, local, Typed, TypeOK
  <2>6. Shape(w)'
    BY <1>4, <2>1, <2>3, FinishTyped
    DEF Reply, Shape, KindOK, Holding, Existing, Persists, Goto, request, local,
        WorkerTypeOK, StoresTypeOK, Typed, TypeOK, EditKinds, BulkKinds, MemberKinds, ScanKinds, Notified
  <2> QED BY <2>2, <2>3, <2>4, <2>5, <2>6, OnlyTyped
<1>5. ASSUME NEW w \in Workers, Stamp(w) PROVE Typed'
  <2>1. WorkerTypeOK(w) /\ Shape(w) /\ StoresTypeOK
    BY DEF Typed, TypeOK
  <2>2. StoresTypeOK'
    BY <1>5, <2>1 DEF Stamp, Typed, TypeOK, StoresTypeOK, stores
  <2>3. Persists
    BY <1>5 DEF Stamp, Persists, stores
  <2>4. Only(w)
    BY <1>5 DEF Stamp, Only, Typed, TypeOK, Goto, request, local
  <2>5. WorkerTypeOK(w)'
    BY <1>5, <2>1
    DEF Stamp, WorkerTypeOK, StoresTypeOK, Labels, Goto, request, local, Typed, TypeOK
  <2>6. Shape(w)'
    BY <1>5, <2>1, <2>3
    DEF Stamp, Shape, KindOK, Holding, Existing, Persists, Goto, request, local,
        WorkerTypeOK, StoresTypeOK, Typed, TypeOK, EditKinds, BulkKinds, MemberKinds, ScanKinds, Notified
  <2> QED BY <2>2, <2>3, <2>4, <2>5, <2>6, OnlyTyped
<1>6. ASSUME NEW w \in Workers, Write(w) PROVE Typed'
  <2>1. WorkerTypeOK(w) /\ Shape(w) /\ StoresTypeOK
    BY DEF Typed, TypeOK
  <2>a. PICK admin \in BOOLEAN :
           tx' = [tx EXCEPT ![w] = Delta(w, admin)]
    BY <1>6 DEF Write
  <2>b. /\ kind[w] \notin ScanKinds \cup {"show"}
        /\ kind[w] = "patch" => buf[w] \in Rows /\ arg[w] \in Patches
        /\ kind[w] \in EditKinds \ {"patch"} => arg[w] \in Updates
    BY <1>6, <2>1 DEF Write, Shape, KindOK, Holding, EditKinds, WorkerTypeOK
  <2>c. Partial(tx'[w]) /\ (kind[w] = "create" => DOMAIN tx'[w] = Fields)
    <3>1. CASE kind[w] = "create"
      <4>1. tx'[w] = NewRow(w)
        BY <2>a, <3>1 DEF Typed, TypeOK, Delta
      <4> QED BY <2>1, <2>b, <3>1, <4>1, NewRowPartial DEF EditKinds
    <3>2. CASE kind[w] # "create" /\ kind[w] \in EditKinds
      <4>1. tx'[w] = EditDelta(w, admin)
        BY <2>a, <3>2 DEF Typed, TypeOK, Delta
      <4> QED BY <2>1, <2>b, <3>2, <4>1, EditDeltaPartial
    <3>3. CASE kind[w] \notin EditKinds
      <4>1. tx'[w] = PlainDelta(kind[w])
        BY <2>a, <3>3 DEF Typed, TypeOK, EditKinds, Delta
      <4> QED BY <2>1, <2>b, <3>3, <4>1, PlainPartial DEF WorkerTypeOK, EditKinds
    <3> QED BY <3>1, <3>2, <3>3
  <2>d. /\ pc'[w] = IF Notified(kind[w]) THEN "index" ELSE "commit"
        /\ kind' = kind /\ pkg' = pkg /\ arg' = arg /\ todo' = todo /\ buf' = buf
        /\ stamp' = stamp /\ db' = db
    BY <1>6 DEF Write, Goto, request, Typed, TypeOK
  <2>2. StoresTypeOK'
    BY <1>6, <2>1 DEF Write, Typed, TypeOK, StoresTypeOK, stores
  <2>3. Persists
    BY <1>6 DEF Write, Persists, stores
  <2>4. Only(w)
    BY <1>6 DEF Write, Only, Typed, TypeOK, Goto, request, local
  <2>5. WorkerTypeOK(w)'
    BY <2>1, <2>c, <2>d DEF WorkerTypeOK, Labels
  <2>6. Shape(w)'
    <3>1. KindOK(w)'
      BY <2>b, <2>d DEF KindOK
    <3>2. Holding(w)' => Holding(w)
      BY <1>6, <2>d DEF Holding, Write
    <3>3. Existing(w)' => Existing(w)
      BY <1>6, <2>d DEF Existing, Write
    <3> QED BY <2>1, <2>c, <2>d, <3>1, <3>2, <3>3 DEF Shape
  <2> QED BY <2>2, <2>3, <2>4, <2>5, <2>6, OnlyTyped
<1>7. ASSUME NEW w \in Workers, CreateClash(w) PROVE Typed'
  <2>1. WorkerTypeOK(w) /\ Shape(w) /\ StoresTypeOK
    BY DEF Typed, TypeOK
  <2>2. StoresTypeOK'
    BY <1>7, <2>1, FinishTyped DEF CreateClash, Typed, TypeOK, StoresTypeOK, stores
  <2>3. Persists
    BY <1>7 DEF CreateClash, Persists, stores
  <2>4. Only(w)
    BY <1>7, FinishTyped DEF CreateClash, Only, Typed, TypeOK, Goto, request, local
  <2>5. WorkerTypeOK(w)'
    BY <1>7, <2>1, FinishTyped
    DEF CreateClash, WorkerTypeOK, StoresTypeOK, Labels, Goto, request, local, Typed, TypeOK
  <2>6. Shape(w)'
    BY <1>7, <2>1, <2>3, FinishTyped
    DEF CreateClash, Shape, KindOK, Holding, Existing, Persists, Goto, request, local,
        WorkerTypeOK, StoresTypeOK, Typed, TypeOK, EditKinds, BulkKinds, MemberKinds, ScanKinds, Notified
  <2> QED BY <2>2, <2>3, <2>4, <2>5, <2>6, OnlyTyped
<1>8. ASSUME NEW w \in Workers, NotifyIndex(w) PROVE Typed'
  <2>1. WorkerTypeOK(w) /\ Shape(w) /\ StoresTypeOK
    BY DEF Typed, TypeOK
  <2>2. StoresTypeOK'
    <3>1. View(w) \in Rows
      BY <1>8, <2>1, ViewRow DEF NotifyIndex
    <3>2. kind[w] \in MemberKinds => Join(buf[w], View(w)) \in Rows
      BY <1>8, <2>1, <3>1, JoinRow DEF NotifyIndex, Shape, Holding, WorkerTypeOK
    <3>3. pkg[w] \in Packages
      BY <2>1 DEF WorkerTypeOK
    <3>4. /\ solr' \in [Packages -> Rows \cup {None}]
          /\ pend' \in [Packages -> Rows \cup {None}]
      BY <1>8, <2>1, <3>1, <3>2, <3>3, IndexTyped DEF NotifyIndex
    <3> QED BY <1>8, <2>1, <3>4 DEF NotifyIndex, StoresTypeOK
  <2>3. Persists
    BY <1>8 DEF NotifyIndex, Persists, stores
  <2>4. Only(w)
    BY <1>8 DEF NotifyIndex, Only, Typed, TypeOK, Goto, request, local
  <2>5. WorkerTypeOK(w)'
    BY <1>8, <2>1
    DEF NotifyIndex, WorkerTypeOK, StoresTypeOK, Labels, Goto, request, local, Typed, TypeOK
  <2>6. Shape(w)'
    BY <1>8, <2>1, <2>3
    DEF NotifyIndex, Shape, KindOK, Holding, Existing, Persists, Goto, request, local,
        WorkerTypeOK, StoresTypeOK, Typed, TypeOK, EditKinds, BulkKinds, MemberKinds, ScanKinds, Notified
  <2> QED BY <2>2, <2>3, <2>4, <2>5, <2>6, OnlyTyped
<1>9. ASSUME NEW w \in Workers, Commit(w) PROVE Typed'
  <2>1. WorkerTypeOK(w) /\ Shape(w) /\ StoresTypeOK
    BY DEF Typed, TypeOK
  <2>a. View(w) \in Rows /\ View(w).mm \in Nat /\ View(w) # None
    <3>1. View(w) \in Rows
      BY <1>9, <2>1, ViewRow DEF Commit
    <3> QED BY <3>1, RowElim, NoneAssumption
  <2>b. /\ db' = [db EXCEPT ![pkg[w]] = View(w)]
        /\ used' = [used EXCEPT ![pkg[w]] = @ \cup {View(w).mm}]
        /\ UNCHANGED <<solr, pend, clock, pkg, todo>>
        /\ pkg[w] \in Packages
    BY <1>9, <2>1 DEF Commit, WorkerTypeOK
  <2>c. (/\ kind[w] \in {"move"} \cup BulkKinds
            /\ pc' = [pc EXCEPT ![w] = IF kind[w] = "move" THEN "again" ELSE "fetch"]
            /\ buf' = [buf EXCEPT ![w] = View(w)]
            /\ tx' = [tx EXCEPT ![w] = EmptyTx]
            /\ Unlock(w)
            /\ UNCHANGED <<kind, arg, stamp>>) \/ Finish(w)
    BY <1>9 DEF Commit, Goto
  <2>2. StoresTypeOK'
    <3>1. lock' \in [Packages -> Workers \cup {None}]
      BY <2>1, <2>b, <2>c, FinishTyped DEF Unlock, StoresTypeOK
    <3> QED BY <2>1, <2>a, <2>b, <3>1 DEF StoresTypeOK
  <2>3. Persists
    BY <2>1, <2>a, <2>b DEF Persists, StoresTypeOK
  <2>4. Only(w)
    BY <2>b, <2>c, FinishTyped DEF Only, Typed, TypeOK
  <2>5. WorkerTypeOK(w)'
    <3>1. CASE Finish(w)
      BY <2>b, <3>1, FinishTyped
    <3>2. CASE ~ Finish(w)
      BY <2>1, <2>a, <2>b, <2>c, <3>2, EmptyPartial DEF WorkerTypeOK, Labels, Typed, TypeOK
    <3> QED BY <3>1, <3>2
  <2>6. Shape(w)'
    <3>1. CASE Finish(w)
      BY <2>3, <2>b, <3>1, FinishTyped
    <3>2. CASE ~ Finish(w)
      <4>1. /\ kind'[w] = kind[w] /\ kind[w] \in {"move"} \cup BulkKinds
            /\ pc'[w] = IF kind[w] = "move" THEN "again" ELSE "fetch"
            /\ buf'[w] = View(w) /\ arg'[w] = arg[w] /\ pkg'[w] = pkg[w]
            /\ todo'[w] = todo[w] /\ db'[pkg[w]] = View(w)
        BY <2>1, <2>b, <2>c, <3>2 DEF Typed, TypeOK, StoresTypeOK
      <4>2. \A p \in todo[w] : db'[p] # None
        BY <2>1, <2>3 DEF Shape, WorkerTypeOK, Persists
      <4> QED BY <2>1, <2>a, <4>1, <4>2 DEF Shape, KindOK, Holding, BulkKinds, MemberKinds
    <3> QED BY <3>1, <3>2
  <2> QED BY <2>2, <2>3, <2>4, <2>5, <2>6, OnlyTyped
<1>10. ASSUME NEW w \in Workers, IndexAgain(w) PROVE Typed'
  <2>1. WorkerTypeOK(w) /\ Shape(w) /\ StoresTypeOK
    BY DEF Typed, TypeOK
  <2>2. StoresTypeOK'
    <3>1. Join(buf[w], db[pkg[w]]) \in Rows /\ pkg[w] \in Packages
      BY <1>10, <2>1, JoinRow
      DEF IndexAgain, Shape, KindOK, Holding, Existing, WorkerTypeOK, StoresTypeOK
    <3>2. /\ solr' \in [Packages -> Rows \cup {None}]
          /\ pend' \in [Packages -> Rows \cup {None}]
      BY <1>10, <2>1, <3>1, IndexTyped DEF IndexAgain
    <3> QED BY <1>10, <2>1, <3>2, FinishTyped DEF IndexAgain, StoresTypeOK
  <2>3. Persists
    BY <1>10 DEF IndexAgain, Persists, stores
  <2>4. Only(w)
    BY <1>10, FinishTyped DEF IndexAgain, Only, Typed, TypeOK, Goto, request, local
  <2>5. WorkerTypeOK(w)'
    BY <1>10, <2>1, FinishTyped
    DEF IndexAgain, WorkerTypeOK, StoresTypeOK, Labels, Goto, request, local, Typed, TypeOK
  <2>6. Shape(w)'
    BY <1>10, <2>1, <2>3, FinishTyped
    DEF IndexAgain, Shape, KindOK, Holding, Existing, Persists, Goto, request, local,
        WorkerTypeOK, StoresTypeOK, Typed, TypeOK, EditKinds, BulkKinds, MemberKinds, ScanKinds, Notified
  <2> QED BY <2>2, <2>3, <2>4, <2>5, <2>6, OnlyTyped
<1>11. ASSUME NEW w \in Workers, BulkFetch(w) PROVE Typed'
  <2>1. WorkerTypeOK(w) /\ Shape(w) /\ StoresTypeOK
    BY DEF Typed, TypeOK
  <2>2. StoresTypeOK'
    BY <1>11, <2>1 DEF BulkFetch, Typed, TypeOK, StoresTypeOK, stores
  <2>3. Persists
    BY <1>11 DEF BulkFetch, Persists, stores
  <2>4. Only(w)
    BY <1>11 DEF BulkFetch, Only, Typed, TypeOK, Goto, request, local
  <2>5. WorkerTypeOK(w)'
    BY <1>11, <2>1
    DEF BulkFetch, WorkerTypeOK, StoresTypeOK, Labels, Goto, request, local, Typed, TypeOK
  <2>6. Shape(w)'
    BY <1>11, <2>1, <2>3
    DEF BulkFetch, Shape, KindOK, Holding, Existing, Persists, Goto, request, local,
        WorkerTypeOK, StoresTypeOK, Typed, TypeOK, EditKinds, BulkKinds, MemberKinds, ScanKinds, Notified
  <2> QED BY <2>2, <2>3, <2>4, <2>5, <2>6, OnlyTyped
<1>12. ASSUME NEW w \in Workers, BulkPatch(w) PROVE Typed'
  <2>1. WorkerTypeOK(w) /\ Shape(w) /\ StoresTypeOK
    BY DEF Typed, TypeOK
  <2>2. StoresTypeOK'
    <3>1. buf[w] \in Rows /\ kind[w] \in BulkKinds /\ pkg[w] \in Packages
      BY <1>12, <2>1 DEF BulkPatch, Shape, KindOK, Holding, WorkerTypeOK
    <3>2. Overlay(PlainDelta(kind[w]), buf[w]) \in Rows
      BY <2>1, <3>1, PlainPartial, OverlayRow
      DEF WorkerTypeOK, BulkKinds, EditKinds, ScanKinds
    <3>3. /\ solr' \in [Packages -> Rows \cup {None}]
          /\ pend' \in [Packages -> Rows \cup {None}]
      BY <1>12, <2>1, <3>1, <3>2, DeferredTyped DEF BulkPatch
    <3> QED BY <1>12, <2>1, <3>3 DEF BulkPatch, StoresTypeOK
  <2>3. Persists
    BY <1>12 DEF BulkPatch, Persists, stores
  <2>4. Only(w)
    BY <1>12 DEF BulkPatch, Only, Typed, TypeOK, Goto, request, local
  <2>5. WorkerTypeOK(w)'
    BY <1>12, <2>1
    DEF BulkPatch, WorkerTypeOK, StoresTypeOK, Labels, Goto, request, local, Typed, TypeOK
  <2>6. Shape(w)'
    BY <1>12, <2>1, <2>3
    DEF BulkPatch, Shape, KindOK, Holding, Existing, Persists, Goto, request, local,
        WorkerTypeOK, StoresTypeOK, Typed, TypeOK, EditKinds, BulkKinds, MemberKinds, ScanKinds, Notified
  <2> QED BY <2>2, <2>3, <2>4, <2>5, <2>6, OnlyTyped
<1>13. ASSUME NEW w \in Workers, CommitIndex(w) PROVE Typed'
  <2>1. WorkerTypeOK(w) /\ Shape(w) /\ StoresTypeOK
    BY DEF Typed, TypeOK
  <2>2. StoresTypeOK'
    BY <1>13, <2>1, FinishTyped, VisibleTyped DEF CommitIndex, StoresTypeOK
  <2>3. Persists
    BY <1>13 DEF CommitIndex, Persists, stores
  <2>4. Only(w)
    BY <1>13, FinishTyped DEF CommitIndex, Only, Typed, TypeOK, Goto, request, local
  <2>5. WorkerTypeOK(w)'
    BY <1>13, <2>1, FinishTyped
    DEF CommitIndex, WorkerTypeOK, StoresTypeOK, Labels, Goto, request, local, Typed, TypeOK
  <2>6. Shape(w)'
    BY <1>13, <2>1, <2>3, FinishTyped
    DEF CommitIndex, Shape, KindOK, Holding, Existing, Persists, Goto, request, local,
        WorkerTypeOK, StoresTypeOK, Typed, TypeOK, EditKinds, BulkKinds, MemberKinds, ScanKinds, Notified
  <2> QED BY <2>2, <2>3, <2>4, <2>5, <2>6, OnlyTyped
<1>14. ASSUME NEW w \in Workers, RebuildList(w) PROVE Typed'
  <2>1. WorkerTypeOK(w) /\ Shape(w) /\ StoresTypeOK
    BY DEF Typed, TypeOK
  <2>2. StoresTypeOK'
    BY <1>14, <2>1 DEF RebuildList, Typed, TypeOK, StoresTypeOK, stores
  <2>3. Persists
    BY <1>14 DEF RebuildList, Persists, stores
  <2>4. Only(w)
    BY <1>14 DEF RebuildList, Only, Typed, TypeOK, Goto, request, local
  <2>5. WorkerTypeOK(w)'
    BY <1>14, <2>1
    DEF RebuildList, WorkerTypeOK, StoresTypeOK, Labels, Goto, request, local, Typed, TypeOK
  <2>6. Shape(w)'
    BY <1>14, <2>1, <2>3
    DEF RebuildList, Shape, KindOK, Holding, Existing, Persists, Goto, request, local,
        WorkerTypeOK, StoresTypeOK, Typed, TypeOK, EditKinds, BulkKinds, MemberKinds, ScanKinds, Notified
  <2> QED BY <2>2, <2>3, <2>4, <2>5, <2>6, OnlyTyped
<1>15. ASSUME NEW w \in Workers, RebuildClear(w) PROVE Typed'
  <2>1. WorkerTypeOK(w) /\ Shape(w) /\ StoresTypeOK
    BY DEF Typed, TypeOK
  <2>2. StoresTypeOK'
    BY <1>15, <2>1 DEF RebuildClear, Typed, TypeOK, StoresTypeOK, stores
  <2>3. Persists
    BY <1>15 DEF RebuildClear, Persists, stores
  <2>4. Only(w)
    BY <1>15 DEF RebuildClear, Only, Typed, TypeOK, Goto, request, local
  <2>5. WorkerTypeOK(w)'
    BY <1>15, <2>1
    DEF RebuildClear, WorkerTypeOK, StoresTypeOK, Labels, Goto, request, local, Typed, TypeOK
  <2>6. Shape(w)'
    <3>1. /\ pc'[w] = "next" /\ kind'[w] = kind[w] /\ arg'[w] = arg[w]
          /\ todo'[w] = todo[w] /\ buf'[w] = buf[w] /\ db' = db
          /\ pc[w] = "clear"
      BY <1>15 DEF RebuildClear, Goto, request, Typed, TypeOK
    <3> QED BY <2>1, <3>1 DEF Shape, KindOK, Holding, Existing, MemberKinds
  <2> QED BY <2>2, <2>3, <2>4, <2>5, <2>6, OnlyTyped
<1>16. ASSUME NEW w \in Workers, RebuildNext(w) PROVE Typed'
  <2>1. WorkerTypeOK(w) /\ Shape(w) /\ StoresTypeOK
    BY DEF Typed, TypeOK
  <2>2. StoresTypeOK'
    BY <1>16, <2>1 DEF RebuildNext, StoresTypeOK, stores
  <2>3. Persists
    BY <1>16 DEF RebuildNext, Persists, stores
  <2>4. Only(w)
    BY <1>16 DEF RebuildNext, Only, Typed, TypeOK, Goto, local
  <2>a. /\ pc'[w] \in {"flush", "get"} /\ pc[w] = "next"
        /\ todo'[w] \subseteq todo[w] /\ pkg'[w] \in todo[w] \cup {pkg[w]}
        /\ pc'[w] = "get" => pkg'[w] \in todo[w]
        /\ kind'[w] = kind[w] /\ arg'[w] = arg[w] /\ buf'[w] = buf[w]
        /\ stamp'[w] = stamp[w] /\ tx'[w] = tx[w] /\ db' = db
    BY <1>16 DEF RebuildNext, Typed, TypeOK, Goto, local, stores
  <2>5. WorkerTypeOK(w)'
    BY <2>1, <2>a DEF WorkerTypeOK, Labels
  <2>6. Shape(w)'
    BY <2>1, <2>a DEF Shape, KindOK, Holding, Existing, MemberKinds, ScanKinds
  <2> QED BY <2>2, <2>3, <2>4, <2>5, <2>6, OnlyTyped
<1>17. ASSUME NEW w \in Workers, GetRow(w) PROVE Typed'
  <2>1. WorkerTypeOK(w) /\ Shape(w) /\ StoresTypeOK
    BY DEF Typed, TypeOK
  <2>2. StoresTypeOK'
    BY <1>17, <2>1, FinishTyped DEF GetRow, Typed, TypeOK, StoresTypeOK, stores
  <2>3. Persists
    BY <1>17 DEF GetRow, Persists, stores
  <2>4. Only(w)
    BY <1>17, FinishTyped DEF GetRow, Only, Typed, TypeOK, Goto, request, local
  <2>5. WorkerTypeOK(w)'
    BY <1>17, <2>1, FinishTyped
    DEF GetRow, WorkerTypeOK, StoresTypeOK, Labels, Goto, request, local, Typed, TypeOK
  <2>6. Shape(w)'
    BY <1>17, <2>1, <2>3, FinishTyped
    DEF GetRow, Shape, KindOK, Holding, Existing, Persists, Goto, request, local,
        WorkerTypeOK, StoresTypeOK, Typed, TypeOK, EditKinds, BulkKinds, MemberKinds, ScanKinds, Notified
  <2> QED BY <2>2, <2>3, <2>4, <2>5, <2>6, OnlyTyped
<1>18. ASSUME NEW w \in Workers, GetRelated(w) PROVE Typed'
  <2>1. WorkerTypeOK(w) /\ Shape(w) /\ StoresTypeOK
    BY DEF Typed, TypeOK
  <2>a. Join(buf[w], db[pkg[w]]) \in Rows
    BY <1>18, <2>1, JoinRow
    DEF GetRelated, Shape, KindOK, Holding, Existing, ScanKinds, WorkerTypeOK, StoresTypeOK
  <2>b. Join(buf[w], db[pkg[w]]) # None
    BY <2>a, NoneAssumption
  <2>2. StoresTypeOK'
    BY <1>18, <2>1 DEF GetRelated, Typed, TypeOK, StoresTypeOK, stores
  <2>3. Persists
    BY <1>18 DEF GetRelated, Persists, stores
  <2>4. Only(w)
    BY <1>18 DEF GetRelated, Only, Typed, TypeOK, Goto, request, local
  <2>5. WorkerTypeOK(w)'
    BY <1>18, <2>1, <2>a
    DEF GetRelated, WorkerTypeOK, Labels, Goto, request, local, Typed, TypeOK
  <2>6. Shape(w)'
    BY <1>18, <2>1, <2>3, <2>b
    DEF GetRelated, Shape, KindOK, Holding, Existing, Persists, Goto, request, stores,
        WorkerTypeOK, Typed, TypeOK, ScanKinds
  <2> QED BY <2>2, <2>3, <2>4, <2>5, <2>6, OnlyTyped
<1>19. ASSUME NEW w \in Workers, Remove(w) PROVE Typed'
  <2>1. WorkerTypeOK(w) /\ Shape(w) /\ StoresTypeOK
    BY DEF Typed, TypeOK
  <2>2. StoresTypeOK'
    BY <1>19, <2>1, VisibleTyped DEF Remove, StoresTypeOK, WorkerTypeOK
  <2>3. Persists
    BY <1>19 DEF Remove, Persists, stores
  <2>4. Only(w)
    BY <1>19 DEF Remove, Only, Typed, TypeOK, Goto, request, local
  <2>5. WorkerTypeOK(w)'
    BY <1>19, <2>1
    DEF Remove, WorkerTypeOK, StoresTypeOK, Labels, Goto, request, local, Typed, TypeOK
  <2>6. Shape(w)'
    BY <1>19, <2>1, <2>3
    DEF Remove, Shape, KindOK, Holding, Existing, Persists, Goto, request, local,
        WorkerTypeOK, StoresTypeOK, Typed, TypeOK, EditKinds, BulkKinds, MemberKinds, ScanKinds, Notified
  <2> QED BY <2>2, <2>3, <2>4, <2>5, <2>6, OnlyTyped
<1>20. ASSUME NEW w \in Workers, Insert(w) PROVE Typed'
  <2>1. WorkerTypeOK(w) /\ Shape(w) /\ StoresTypeOK
    BY DEF Typed, TypeOK
  <2>2. StoresTypeOK'
    <3>1. buf[w] \in Rows /\ pkg[w] \in Packages
      BY <1>20, <2>1 DEF Insert, Shape, Holding, WorkerTypeOK
    <3>2. /\ solr' \in [Packages -> Rows \cup {None}]
          /\ pend' \in [Packages -> Rows \cup {None}]
      BY <1>20, <2>1, <3>1, IndexTyped, DeferredTyped DEF Insert
    <3> QED BY <1>20, <2>1, <3>2, FinishTyped DEF Insert, StoresTypeOK
  <2>3. Persists
    BY <1>20 DEF Insert, Persists, stores
  <2>4. Only(w)
    <3>1. CASE kind[w] = "rebuild"
      BY <1>20, <3>1 DEF Insert, Only, Typed, TypeOK, Goto, local
    <3>2. CASE ~ (kind[w] = "rebuild")
      BY <1>20, <3>2, FinishTyped DEF Insert, Only, Typed, TypeOK, Goto, request, local
    <3> QED BY <3>1, <3>2
  <2>5. WorkerTypeOK(w)'
    BY <1>20, <2>1, FinishTyped
    DEF Insert, WorkerTypeOK, StoresTypeOK, Labels, Goto, request, local, Typed, TypeOK
  <2>6. Shape(w)'
    BY <1>20, <2>1, <2>3, FinishTyped
    DEF Insert, Shape, KindOK, Holding, Existing, Persists, Goto, request, local,
        WorkerTypeOK, StoresTypeOK, Typed, TypeOK, EditKinds, BulkKinds, MemberKinds, ScanKinds, Notified
  <2> QED BY <2>2, <2>3, <2>4, <2>5, <2>6, OnlyTyped
<1>21. ASSUME NEW w \in Workers, Abort(w) PROVE Typed'
  <2>1. WorkerTypeOK(w) /\ Shape(w) /\ StoresTypeOK
    BY DEF Typed, TypeOK
  <2>2. StoresTypeOK'
    BY <1>21, <2>1, FinishTyped DEF Abort, Typed, TypeOK, StoresTypeOK, stores
  <2>3. Persists
    BY <1>21 DEF Abort, Persists, stores
  <2>4. Only(w)
    BY <1>21, FinishTyped DEF Abort, Only, Typed, TypeOK, Goto, request, local
  <2>5. WorkerTypeOK(w)'
    BY <1>21, <2>1, FinishTyped
    DEF Abort, WorkerTypeOK, StoresTypeOK, Labels, Goto, request, local, Typed, TypeOK
  <2>6. Shape(w)'
    BY <1>21, <2>1, <2>3, FinishTyped
    DEF Abort, Shape, KindOK, Holding, Existing, Persists, Goto, request, local,
        WorkerTypeOK, StoresTypeOK, Typed, TypeOK, EditKinds, BulkKinds, MemberKinds, ScanKinds, Notified
  <2> QED BY <2>2, <2>3, <2>4, <2>5, <2>6, OnlyTyped
<1>22. CASE UNCHANGED vars
  <2>1. TypeOK'
    BY <1>22 DEF Typed, TypeOK, StoresTypeOK, WorkerTypeOK, vars
  <2>2. ASSUME NEW v \in Workers PROVE Shape(v)'
    BY <1>22 DEF Typed, Shape, KindOK, Holding, Existing, vars
  <2> QED BY <2>1, <2>2 DEF Typed
<1> QED
  BY <1>1, <1>2, <1>3, <1>4, <1>5, <1>6, <1>7, <1>8, <1>9, <1>10, <1>11, <1>12, <1>13, <1>14, <1>15, <1>16, <1>17, <1>18, <1>19, <1>20, <1>21, <1>22 DEF Next, Step

\* Every variable keeps its type: whatever the interleaving of the requests and
\* the failures, a document and a row are whole.
THEOREM TypeCorrect == Spec => []TypeOK
<1>1. Spec => []Typed
  BY InitTyped, StepTyped, PTL DEF Spec
<1> QED BY <1>1, PTL DEF Typed
=============================================================================
