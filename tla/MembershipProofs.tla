--------------------------- MODULE MembershipProofs ---------------------------
(***************************************************************************)
(* Proofs about Membership, for any datasets, users, groups and workers:   *)
(* types, the rows of a dataset, its organization, its groups, and the     *)
(* members of groups that come and go.                                     *)
(***************************************************************************)
EXTENDS Membership, FiniteSetTheorems, TLAPS

-----------------------------------------------------------------------------
(***************************************************************************)
(* Requests and the changes they compute.                                  *)
(***************************************************************************)
RequestOK(r) ==
    /\ r.kind \in Kinds
    /\ r.kind \in PackageKinds => r.pkg \in Packages
    /\ r.kind \in {"package_create", "package_update", "owner_org"} =>
         r.owner \in Orgs \cup {None}
    /\ r.kind \in {"package_create", "package_update"} =>
         /\ r.groups \subseteq Groups \ Orgs /\ r.readable \subseteq Groups
         /\ r.state \in PackageStates
    /\ r.kind \in MemberKinds => r.group \in Groups /\ r.object \in Objects
    /\ r.kind = "member_create" => r.capacity \in Capacities
    /\ r.kind \in GroupKinds => r.group \in Groups
    /\ r.kind = "group_create" => r.object \in Users
    /\ r.kind \in {"group_create", "group_update"} => r.list \in Lists /\ r.state \in States

IsRequest(r) == \E k \in Kinds : r \in Requests(k)

\* What a request names is of the kind it should be.
LEMMA RequestFacts ==
    ASSUME NEW r, IsRequest(r)
    PROVE  RequestOK(r)
<1>1. PICK k \in Kinds : r \in Requests(k)
  BY DEF IsRequest
<1>2. CASE k \in {"package_create", "package_update"}
  BY <1>1, <1>2 DEF Requests, RequestOK, PackageKinds, MemberKinds, GroupKinds
<1>3. CASE k \in {"owner_org", "package_delete"}
  BY <1>1, <1>3 DEF Requests, RequestOK, PackageKinds, MemberKinds, GroupKinds
<1>4. CASE k = "member_create"
  <2>1. \/ r \in [kind : {k}, group : Groups, object : Packages, capacity : {"public"}]
        \/ r \in [kind : {k}, group : Groups, object : Users, capacity : Roles]
    BY <1>1, <1>4 DEF Requests
  <2> QED
    BY <1>1, <1>4, <2>1 DEF RequestOK, PackageKinds, MemberKinds, GroupKinds, Objects, Capacities
<1>5. CASE k = "member_delete"
  BY <1>1, <1>5 DEF Requests, RequestOK, PackageKinds, MemberKinds, GroupKinds
<1>6. CASE k \in GroupKinds
  BY <1>1, <1>6 DEF Requests, RequestOK, PackageKinds, MemberKinds, GroupKinds, States
<1> QED
  BY <1>2, <1>3, <1>4, <1>5, <1>6, KindsAssumption DEF PackageKinds, MemberKinds

PlanOK(pl) ==
    /\ \A id \in DOMAIN pl.state : id \in RowIds /\ pl.state[id] \in States
    /\ \A id \in DOMAIN pl.capacity : id \in RowIds /\ pl.capacity[id] \in Capacities
    /\ \A pr \in DOMAIN pl.add : pr \in Pairs /\ pl.add[pr] \in Capacities

ColumnsOK(c) ==
    /\ \A p \in DOMAIN c.owner : c.owner[p] \in Orgs \cup {None}
    /\ \A p \in DOMAIN c.pstate : c.pstate[p] \in PackageStates
    /\ \A g \in DOMAIN c.gstate : c.gstate[g] \in States

LEMMA NoneOK == PlanOK(NoChanges) /\ ColumnsOK(NoColumns)
BY DEF PlanOK, NoChanges, Changes, ColumnsOK, NoColumns, Columns, Nothing

TablesOK ==
    /\ rows \in [Pairs -> [Slots -> Rows \cup {None}]]
    /\ owner \in [Packages -> Orgs \cup {None}]
    /\ pstate \in [Packages -> PackageStates \cup {None}]
    /\ gstate \in [Groups -> States \cup {None}]
    /\ \A g \in purged : g \in Groups /\ gstate[g] = None
    /\ \A g \in purged, o \in Objects : Present(g, o) = {}

\* The values a table takes when a plan is laid over it.
LEMMA OverlayType ==
    ASSUME NEW D, NEW V, NEW table \in [D -> V], NEW changes,
           \A x \in DOMAIN changes : changes[x] \in V
    PROVE  Overlay(changes, table) \in [D -> V]
BY DEF Overlay

LEMMA FlushedType ==
    ASSUME TablesOK, NEW pl, PlanOK(pl)
    PROVE  Flushed(pl) \in [Pairs -> [Slots -> Rows \cup {None}]]
<1>1. ASSUME NEW pr \in Pairs, NEW s \in Slots, rows[pr][s] # None
      PROVE  Updated(pl, pr[1], pr[2], s) \in Rows
  <2>1. pr = <<pr[1], pr[2]>>
    BY <1>1 DEF Pairs
  <2>2. rows[<<pr[1], pr[2]>>][s] \in Rows
    BY <1>1, <2>1 DEF TablesOK
  <2> QED
    BY <2>2 DEF Updated, Rows, PlanOK
<1>2. ASSUME NEW pr \in DOMAIN pl.add
      PROVE  [capacity |-> pl.add[pr], state |-> "active"] \in Rows
  BY <1>2 DEF PlanOK, Rows, States
<1> QED
  BY <1>1, <1>2 DEF Flushed

\* What a row is once a plan that fits is flushed.
LEMMA FlushedRow ==
    ASSUME NEW pl, NEW g \in Groups, NEW o \in Objects, NEW s \in Slots
    PROVE  Flushed(pl)[<<g, o>>][s] =
             IF rows[<<g, o>>][s] # None THEN Updated(pl, g, o, s)
             ELSE IF <<g, o>> \in DOMAIN pl.add /\ s = FreeSlot(g, o)
               THEN [capacity |-> pl.add[<<g, o>>], state |-> "active"]
               ELSE None
BY DEF Flushed, Pairs

\* A commit keeps the tables well-formed, in particular the rows of a group that
\* was purged gone.
LEMMA CommitTables ==
    ASSUME TablesOK, NEW pl, NEW c, PlanOK(pl), ColumnsOK(c), Fits(pl, c), CommitChanges(pl, c)
    PROVE  TablesOK'
<1>1. rows' \in [Pairs -> [Slots -> Rows \cup {None}]]
  BY FlushedType DEF CommitChanges
<1>2. owner' \in [Packages -> Orgs \cup {None}]
  BY OverlayType DEF CommitChanges, ColumnsOK, TablesOK
<1>3. pstate' \in [Packages -> PackageStates \cup {None}]
  BY OverlayType DEF CommitChanges, ColumnsOK, TablesOK
<1>4. gstate' \in [Groups -> States \cup {None}]
  BY OverlayType DEF CommitChanges, ColumnsOK, TablesOK
<1>5. \A g \in purged : gstate'[g] = None
  <2>1. SUFFICES ASSUME NEW g \in purged PROVE gstate'[g] = None
    OBVIOUS
  <2>2. g \in Groups /\ g \notin DOMAIN c.gstate /\ gstate[g] = None
    BY NoneAssumption DEF Fits, TablesOK
  <2> QED
    BY <2>2 DEF CommitChanges, Overlay, TablesOK
<1>6. \A g \in purged, o \in Objects : Present(g, o)' = {}
  <2>1. SUFFICES ASSUME NEW g \in purged, NEW o \in Objects, NEW s \in Slots
                 PROVE  rows'[<<g, o>>][s] = None
    BY DEF Present, CommitChanges
  <2>2. g \in Groups /\ g \notin DOMAIN c.gstate /\ gstate[g] = None
    BY NoneAssumption DEF Fits, TablesOK
  <2>3. rows[<<g, o>>][s] = None
    BY DEF TablesOK, Present
  <2>4. <<g, o>> \notin DOMAIN pl.add
    BY <2>2 DEF Fits, Exists
  <2> QED
    BY <2>2, <2>3, <2>4, FlushedRow DEF CommitChanges
<1> QED
  BY <1>1, <1>2, <1>3, <1>4, <1>5, <1>6 DEF TablesOK, CommitChanges

-----------------------------------------------------------------------------
(***************************************************************************)
(* What each request may compute.                                          *)
(***************************************************************************)
LEMMA RowFacts ==
    ASSUME TablesOK, NEW g \in Groups, NEW o \in Objects, NEW s \in Present(g, o)
    PROVE  /\ s \in Slots
           /\ rows[<<g, o>>][s] \in Rows
           /\ rows[<<g, o>>][s].capacity \in Capacities
           /\ rows[<<g, o>>][s].state \in States
           /\ <<g, o, s>> \in RowIds
<1>1. s \in Slots /\ rows[<<g, o>>][s] # None
  BY DEF Present
<1>2. rows[<<g, o>>] \in [Slots -> Rows \cup {None}]
  BY DEF TablesOK, Pairs
<1>3. rows[<<g, o>>][s] \in Rows
  BY <1>1, <1>2
<1> QED
  BY <1>1, <1>3 DEF Rows, RowIds

LEMMA JoinOK ==
    ASSUME NEW g \in Groups, NEW o \in Objects, NEW k \in Capacities, NEW pl \in JoinPlans(g, o, k)
    PROVE  PlanOK(pl)
<1>1. CASE pl = Changes(Nothing, Only(<<g, o>>, k))
  BY <1>1 DEF PlanOK, Changes, Nothing, Only, Pairs
<1>2. ASSUME NEW s \in Active(g, o),
             pl = [state |-> Nothing, capacity |-> Only(<<g, o, s>>, k), add |-> Nothing]
      PROVE  PlanOK(pl)
  BY <1>2 DEF PlanOK, Nothing, Only, RowIds, Active, Present
<1> QED
  BY <1>1, <1>2 DEF JoinPlans

LEMMA LeaveOK ==
    ASSUME NEW g \in Groups, NEW o \in Objects, NEW pl \in LeavePlans(g, o)
    PROVE  PlanOK(pl)
<1>1. PICK s \in Active(g, o) : pl = Changes(Only(<<g, o, s>>, "deleted"), Nothing)
  BY DEF LeavePlans
<1> QED
  BY <1>1 DEF PlanOK, Changes, Nothing, Only, RowIds, Active, Present, States

LEMMA ListOK ==
    ASSUME NEW p \in Packages, NEW groups \in SUBSET Groups, NEW readable,
           NEW pl \in ListPlans(p, groups, readable)
    PROVE  PlanOK(pl)
<1> DEFINE listed == {g \in groups : Exists(g)}
           known == {g \in Groups : Listed(g, p) # {}}
           wrong(g, s) == (rows[<<g, p>>][s].state = "active") # (g \in listed)
<1>1. PICK pick \in {f \in [known -> Slots] : \A g \in known : f[g] \in Listed(g, p)} :
        pl = Changes([id \in {x \in (known \cap readable) \X {p} \X Slots :
                                 x[3] = pick[x[1]] /\ wrong(x[1], x[3])} |->
                         IF id[1] \in listed THEN "active" ELSE "deleted"],
                      [pr \in ((listed \cap readable) \ known) \X {p} |-> "public"])
  BY DEF ListPlans
<1>2. /\ pl.state = [id \in {x \in (known \cap readable) \X {p} \X Slots :
                                x[3] = pick[x[1]] /\ wrong(x[1], x[3])} |->
                         IF id[1] \in listed THEN "active" ELSE "deleted"]
      /\ pl.capacity = Nothing
      /\ pl.add = [pr \in ((listed \cap readable) \ known) \X {p} |-> "public"]
  BY <1>1 DEF Changes
<1>3. p \in Objects /\ "public" \in Capacities
  BY DEF Objects, Capacities
<1> HIDE DEF wrong, listed
<1>4. \A id \in DOMAIN pl.state : id \in RowIds /\ pl.state[id] \in States
  BY <1>2, <1>3 DEF RowIds, States
<1>5. DOMAIN pl.capacity = {}
  BY <1>2 DEF Nothing
<1>6. \A pr \in DOMAIN pl.add : pr \in Pairs /\ pl.add[pr] \in Capacities
  <2>1. listed \subseteq Groups
    BY DEF listed
  <2> QED
    BY <1>2, <1>3, <2>1 DEF Pairs
<1> QED
  BY <1>4, <1>5, <1>6 DEF PlanOK

LEMMA MemberSaveOK ==
    ASSUME NEW g \in Groups, NEW list \in Lists, NEW objects \in SUBSET Objects,
           NEW pl \in MemberSavePlans(g, list, objects)
    PROVE  PlanOK(pl)
<1> DEFINE found == {k \in objects \X Capacities :
                        \E s \in Present(g, k[1]) : rows[<<g, k[1]>>][s].capacity = k[2]}
           wanted(k) == k[1] \in DOMAIN list /\ list[k[1]] = k[2]
           key(id) == <<id[2], rows[<<g, id[2]>>][id[3]].capacity>>
           wrong(id) == (rows[<<g, id[2]>>][id[3]].state = "active") # wanted(key(id))
<1>1. PICK pick \in {f \in [found -> Slots] : \A k \in found :
                        f[k] \in Present(g, k[1]) /\ rows[<<g, k[1]>>][f[k]].capacity = k[2]} :
        pl = Changes([id \in {x \in {g} \X objects \X Slots :
                                 /\ x[3] \in Present(g, x[2])
                                 /\ x[3] = pick[key(x)] /\ wrong(x)} |->
                         IF wanted(key(id)) THEN "active" ELSE "deleted"],
                      [pr \in {x \in {g} \X (DOMAIN list \cap objects) :
                                 <<x[2], list[x[2]]>> \notin found} |-> list[pr[2]]])
  BY DEF MemberSavePlans
<1> HIDE DEF wrong, wanted, key, found
<1>2. /\ pl.state = [id \in {x \in {g} \X objects \X Slots :
                                /\ x[3] \in Present(g, x[2])
                                /\ x[3] = pick[key(x)] /\ wrong(x)} |->
                          IF wanted(key(id)) THEN "active" ELSE "deleted"]
        /\ pl.capacity = Nothing
        /\ pl.add = [pr \in {x \in {g} \X (DOMAIN list \cap objects) :
                               <<x[2], list[x[2]]>> \notin found} |-> list[pr[2]]]
  BY <1>1 DEF Changes
<1>3. \A o \in DOMAIN list : o \in Objects /\ list[o] \in Capacities
  BY ListsAssumption DEF Capacities
<1>4. \A id \in DOMAIN pl.state : id \in RowIds /\ pl.state[id] \in States
  BY <1>2 DEF RowIds, States
<1>5. DOMAIN pl.capacity = {}
  BY <1>2 DEF Nothing
<1>6. \A pr \in DOMAIN pl.add : pr \in Pairs /\ pl.add[pr] \in Capacities
  BY <1>2, <1>3 DEF Pairs
<1> QED
  BY <1>4, <1>5, <1>6 DEF PlanOK

LEMMA MarkedOK ==
    ASSUME NEW g \in Groups, NEW byname
    PROVE  PlanOK(Changes(MarkedRows(g, byname), Nothing))
BY DEF PlanOK, Changes, MarkedRows, Nothing, RowIds, States

-----------------------------------------------------------------------------
(***************************************************************************)
(* The memory of the workers.                                              *)
(***************************************************************************)

\* The kinds a request may have at each step.
KindAt(label, k) ==
    /\ label = "lock" => k \in {"package_create", "package_update", "package_delete"}
    /\ label = "read" => k # "package_delete"
    /\ label = "save" => k \in {"package_create", "package_update", "owner_org"}
    /\ label = "admin" => k = "group_create"
    /\ label \in {"list", "delete"} => k = "organization_delete"
    /\ label = "write" => k \in MemberKinds \cup GroupKinds
    /\ label = "purge" => k = "purge"

WorkerOK(w) ==
    /\ pc[w] \in Labels
    /\ req[w] = NoRequest \/ IsRequest(req[w])
    /\ pc[w] # "idle" => IsRequest(req[w]) /\ KindAt(pc[w], req[w].kind)
    /\ PlanOK(plan[w])
    /\ ColumnsOK(cols[w])
    /\ left[w] \subseteq RowIds \cup Packages
    /\ pc[w] = "save" =>
         /\ move[w].join # None => move[w].join = req[w].owner /\ req[w].owner \in Orgs
         /\ \A id \in left[w] : id \in RowIds

MemoryOK ==
    /\ pc = [w \in Workers |-> pc[w]]
    /\ req = [w \in Workers |-> req[w]]
    /\ plan = [w \in Workers |-> plan[w]]
    /\ cols = [w \in Workers |-> cols[w]]
    /\ move = [w \in Workers |-> move[w]]
    /\ left = [w \in Workers |-> left[w]]

Typed ==
    /\ TablesOK
    /\ lock \in [Packages -> Workers \cup {None}]
    /\ MemoryOK
    /\ \A w \in Workers : WorkerOK(w)

\* A step of w leaves the memory of the other workers alone.
StepOf(w) ==
    /\ MemoryOK'
    /\ \A v \in Workers \ {w} :
         /\ pc'[v] = pc[v] /\ req'[v] = req[v] /\ plan'[v] = plan[v]
         /\ cols'[v] = cols[v] /\ move'[v] = move[v] /\ left'[v] = left[v]

LEMMA StepTyped ==
    ASSUME Typed, NEW w \in Workers, StepOf(w), TablesOK', WorkerOK(w)',
           lock' \in [Packages -> Workers \cup {None}]
    PROVE  Typed'
<1>1. ASSUME NEW v \in Workers, v # w
      PROVE  WorkerOK(v)'
  BY <1>1 DEF StepOf, Typed, WorkerOK
<1> QED
  BY <1>1 DEF Typed, StepOf

\* The end of a request leaves its worker with nothing.
LEMMA FinishOK ==
    ASSUME Typed, NEW w \in Workers, Finish(w)
    PROVE  /\ StepOf(w) /\ WorkerOK(w)'
           /\ lock' \in [Packages -> Workers \cup {None}]
<1>1. StepOf(w)
  BY DEF Typed, MemoryOK, StepOf, Finish, Goto
<1>2. /\ pc'[w] = "idle" /\ req'[w] = NoRequest /\ plan'[w] = NoChanges
      /\ cols'[w] = NoColumns /\ left'[w] = {}
  BY DEF Typed, MemoryOK, Finish, Goto
<1>3. WorkerOK(w)'
  BY <1>2, NoneOK DEF WorkerOK, Labels
<1> QED
  BY <1>1, <1>3 DEF Finish, Unlock, Typed

LEMMA TablesKept ==
    ASSUME TablesOK, UNCHANGED tables
    PROVE  TablesOK'
BY DEF TablesOK, tables, Present

LEMMA FailTyped ==
    ASSUME Typed, NEW w \in Workers, Fail(w)
    PROVE  Typed'
BY FinishOK, StepTyped, TablesKept DEF Fail, Typed

\* What a request computed is kept in the memory of its worker.
LEMMA PlanTyped ==
    ASSUME Typed, NEW w \in Workers, NEW pl, NEW c, NEW label \in {"write", "save"},
           PlanOK(pl), ColumnsOK(c), Plan(w, pl, c, label),
           pc[w] # "idle", KindAt(label, req[w].kind),
           move' = [move EXCEPT ![w] = move'[w]], left' = [left EXCEPT ![w] = left'[w]],
           left'[w] \subseteq RowIds \cup Packages,
           label = "save" => /\ move'[w].join # None =>
                                  move'[w].join = req[w].owner /\ req[w].owner \in Orgs
                             /\ \A id \in left'[w] : id \in RowIds
    PROVE  Typed'
<1>1. /\ pc' = [pc EXCEPT ![w] = label] /\ plan' = [plan EXCEPT ![w] = pl]
      /\ cols' = [cols EXCEPT ![w] = c] /\ req' = req /\ lock' = lock /\ UNCHANGED tables
  BY DEF Plan, Goto
<1>2. StepOf(w)
  BY <1>1 DEF Typed, MemoryOK, StepOf
<1>3. pc'[w] = label /\ plan'[w] = pl /\ cols'[w] = c
  BY <1>1 DEF Typed, MemoryOK
<1>4. WorkerOK(w)'
  BY <1>1, <1>3 DEF WorkerOK, Labels, Typed
<1> QED
  BY <1>1, <1>2, <1>4, StepTyped, TablesKept DEF Typed

-----------------------------------------------------------------------------
(***************************************************************************)
(* Every step keeps the tables and the memories well-formed.               *)
(***************************************************************************)
LEMMA InitTyped == Init => Typed
<1> SUFFICES ASSUME Init PROVE Typed
  OBVIOUS
<1>1. TablesOK
  BY DEF Init, TablesOK, States, PackageStates, Present, Pairs
<1>2. MemoryOK
  BY DEF Init, MemoryOK
<1>3. ASSUME NEW w \in Workers PROVE WorkerOK(w)
  BY <1>3, NoneOK DEF Init, WorkerOK, Labels
<1> QED
  BY <1>1, <1>2, <1>3 DEF Typed, Init

LEMMA StartTyped ==
    ASSUME Typed, NEW w \in Workers, Start(w)
    PROVE  Typed'
<1>1. PICK r : /\ IsRequest(r)
              /\ req' = [req EXCEPT ![w] = r]
              /\ pc' = [pc EXCEPT ![w] = FirstStep(r)]
  BY DEF Start, Begin, Goto, IsRequest
<1>2. UNCHANGED <<tables, lock, plan, cols, move, left>>
  BY DEF Start, Begin, memory
<1>3. StepOf(w)
  BY <1>1, <1>2 DEF Typed, MemoryOK, StepOf
<1>4. pc'[w] = FirstStep(r) /\ req'[w] = r
  BY <1>1 DEF Typed, MemoryOK
<1>5. FirstStep(r) \in {"lock", "list", "read"} /\ KindAt(FirstStep(r), r.kind)
  <2>1. RequestOK(r)
    BY <1>1, RequestFacts
  <2> QED
    BY <2>1 DEF FirstStep, KindAt, RequestOK
<1>6. WorkerOK(w)'
  BY <1>1, <1>2, <1>4, <1>5 DEF WorkerOK, Labels, Typed
<1> QED
  BY <1>2, <1>3, <1>6, StepTyped, TablesKept DEF Typed

LEMMA ReadMemberTyped ==
    ASSUME Typed, NEW w \in Workers, ReadMember(w)
    PROVE  Typed'
<1> DEFINE g == req[w].group
           o == req[w].object
<1>1. pc[w] \in {"read", "admin"} /\ (pc[w] = "read" => req[w].kind \in MemberKinds)
  BY DEF ReadMember
<1>2. RequestOK(req[w]) /\ KindAt(pc[w], req[w].kind)
  BY <1>1, RequestFacts DEF Typed, WorkerOK
<1>3. req[w].kind \in MemberKinds \cup {"group_create"}
  BY <1>1, <1>2 DEF KindAt
<1>4. g \in Groups /\ o \in Objects
  BY <1>2, <1>3 DEF RequestOK, GroupKinds, Objects
<1>5. CASE Fail(w)
  BY <1>5, FailTyped
<1>6. CASE \E pl : PlanOK(pl) /\ Plan(w, pl, NoColumns, "write") /\ UNCHANGED <<move, left>>
  <2>1. PICK pl : PlanOK(pl) /\ Plan(w, pl, NoColumns, "write") /\ UNCHANGED <<move, left>>
    BY <1>6
  <2>2. /\ move' = [move EXCEPT ![w] = move'[w]] /\ left' = [left EXCEPT ![w] = left'[w]]
        /\ left'[w] \subseteq RowIds \cup Packages
    BY <2>1 DEF Typed, MemoryOK, WorkerOK
  <2>3. KindAt("write", req[w].kind)
    BY <1>3 DEF KindAt, GroupKinds
  <2> QED
    BY <1>1, <2>1, <2>2, <2>3, NoneOK, PlanTyped
<1>7. "admin" \in Capacities
  BY RolesAssumption DEF Capacities
<1>8. CASE \E pl \in JoinPlans(g, o, "admin") :
             Plan(w, pl, NoColumns, "write") /\ UNCHANGED <<move, left>>
  BY <1>4, <1>6, <1>7, <1>8, JoinOK
<1>9. CASE /\ req[w].kind = "member_create"
           /\ \E pl \in JoinPlans(g, o, req[w].capacity) :
                Plan(w, pl, NoColumns, "write") /\ UNCHANGED <<move, left>>
  <2>1. req[w].capacity \in Capacities
    BY <1>2, <1>9 DEF RequestOK
  <2> QED
    BY <1>4, <1>6, <1>9, <2>1, JoinOK
<1>10. CASE \E pl \in LeavePlans(g, o) :
              Plan(w, pl, NoColumns, "write") /\ UNCHANGED <<move, left>>
  BY <1>4, <1>6, <1>10, LeaveOK
<1> QED
  BY <1>5, <1>8, <1>9, <1>10 DEF ReadMember

LEMMA LockPackageTyped ==
    ASSUME Typed, NEW w \in Workers, LockPackage(w)
    PROVE  Typed'
<1> DEFINE p == req[w].pkg
<1>1. /\ pc[w] = "lock" /\ RequestOK(req[w]) /\ KindAt("lock", req[w].kind)
      /\ IsRequest(req[w])
  BY RequestFacts DEF LockPackage, Typed, WorkerOK
<1>2. p \in Packages
  BY <1>1 DEF RequestOK, KindAt, PackageKinds
<1>3. CASE req[w].kind = "package_delete"
  <2>1. /\ pstate' = [pstate EXCEPT ![p] = "deleted"] /\ Finish(w)
        /\ UNCHANGED <<rows, owner, gstate, purged>>
    BY <1>3 DEF LockPackage
  <2>2. TablesOK'
    BY <1>2, <2>1 DEF TablesOK, Typed, States, PackageStates, Present
  <2> QED
    BY <2>1, <2>2, FinishOK, StepTyped
<1>4. CASE req[w].kind # "package_delete"
  <2>1. /\ lock' = [lock EXCEPT ![p] = w] /\ pc' = [pc EXCEPT ![w] = "read"]
        /\ UNCHANGED <<tables, req, plan, cols, move, left>>
    BY <1>4 DEF LockPackage, Goto, memory
  <2>2. StepOf(w) /\ pc'[w] = "read"
    BY <2>1 DEF Typed, MemoryOK, StepOf
  <2>3. KindAt("read", req[w].kind)
    BY <1>4 DEF KindAt
  <2>4. WorkerOK(w)'
    BY <1>1, <2>1, <2>2, <2>3 DEF WorkerOK, Labels, Typed
  <2> QED
    BY <2>1, <2>2, <2>4, StepTyped, TablesKept DEF Typed
<1> QED
  BY <1>3, <1>4

LEMMA ReadPackageTyped ==
    ASSUME Typed, NEW w \in Workers, ReadPackage(w)
    PROVE  Typed'
<1> DEFINE p == req[w].pkg
           org == req[w].owner
           direct == req[w].kind = "owner_org"
           plans == IF direct THEN {NoChanges}
                    ELSE ListPlans(p, req[w].groups, req[w].readable)
           c == Columns(OwnerColumn(p, org), IF direct THEN Nothing ELSE Only(p, req[w].state),
                        Nothing)
           others == {id \in (Groups \ {org}) \X {p} \X Slots : id[3] \in Owning(id[1], p)}
<1>1. /\ pc[w] = "read" /\ RequestOK(req[w])
      /\ req[w].kind \in {"package_create", "package_update", "owner_org"}
  BY RequestFacts DEF ReadPackage, Typed, WorkerOK
<1>2. p \in Packages /\ org \in Orgs \cup {None}
  BY <1>1 DEF RequestOK, PackageKinds
<1>3. CASE Fail(w)
  BY <1>3, FailTyped
<1>4. CASE /\ \E pl \in plans : Plan(w, pl, c, "save")
           /\ move' = [move EXCEPT ![w] = Moving(p, org)]
           /\ left' = [left EXCEPT ![w] = others]
  <2>1. PICK pl \in plans : Plan(w, pl, c, "save")
    BY <1>4
  <2>2. PlanOK(pl)
    <3>1. CASE direct
      BY <2>1, <3>1, NoneOK
    <3>2. CASE ~ direct
      BY <1>1, <1>2, <2>1, <3>2, ListOK DEF RequestOK
    <3> QED
      BY <3>1, <3>2
  <2>3. ColumnsOK(c)
    <3>1. ~ direct => req[w].state \in PackageStates
      BY <1>1 DEF RequestOK
    <3>2. \A x \in DOMAIN c.owner : c.owner[x] \in Orgs \cup {None}
      BY <1>2 DEF Columns, OwnerColumn, Only, Nothing
    <3>3. \A x \in DOMAIN c.pstate : c.pstate[x] \in PackageStates
      BY <3>1 DEF Columns, Only, Nothing
    <3>4. \A x \in DOMAIN c.gstate : c.gstate[x] \in States
      BY DEF Columns, Nothing
    <3> QED
      BY <3>2, <3>3, <3>4 DEF ColumnsOK
  <2>4. left'[w] = others /\ move'[w] = Moving(p, org)
    BY <1>4 DEF Typed, MemoryOK
  <2>5. /\ move' = [move EXCEPT ![w] = move'[w]] /\ left' = [left EXCEPT ![w] = left'[w]]
    BY <1>4, <2>4
  <2>6. \A id \in others : id \in RowIds
    BY <1>2 DEF RowIds, Objects
  <2>7. move'[w].join # None => move'[w].join = org /\ org \in Orgs
    BY <1>2, <2>4 DEF Moving
  <2>8. KindAt("save", req[w].kind)
    BY <1>1 DEF KindAt, MemberKinds, GroupKinds
  <2> HIDE DEF c, others
  <2> QED
    BY <1>1, <2>1, <2>2, <2>3, <2>4, <2>5, <2>6, <2>7, <2>8, PlanTyped
<1> QED
  BY <1>3, <1>4 DEF ReadPackage

LEMMA SavePlanOK ==
    ASSUME Typed, NEW w \in Workers, NEW id \in RowIds
    PROVE  PlanOK(SavePlan(w, id))
<1>1. PlanOK(plan[w])
  BY DEF Typed, WorkerOK
<1> QED
  BY <1>1 DEF SavePlan, PlanOK, Changes, Nothing, States

LEMMA AddPlanOK ==
    ASSUME Typed, NEW w \in Workers, pc[w] = "save"
    PROVE  PlanOK(AddPlan(w))
<1>1. PlanOK(plan[w])
  BY DEF Typed, WorkerOK
<1>2. req[w].pkg \in Packages
  BY RequestFacts DEF Typed, WorkerOK, RequestOK, KindAt, PackageKinds
<1>3. move[w].join # None => <<move[w].join, req[w].pkg>> \in Pairs
  BY <1>2, SetsAssumption DEF Typed, WorkerOK, Pairs, Objects
<1>4. "organization" \in Capacities
  BY DEF Capacities
<1> QED
  BY <1>1, <1>3, <1>4 DEF AddPlan, PlanOK, Changes, Nothing

LEMMA SaveMemberTyped ==
    ASSUME Typed, NEW w \in Workers, SaveMember(w)
    PROVE  Typed'
<1>1. PICK id \in left[w] : /\ Fits(SavePlan(w, id), cols[w])
                            /\ CommitChanges(SavePlan(w, id), cols[w])
                            /\ left' = [left EXCEPT ![w] = @ \ {id}]
  BY DEF SaveMember
<1>2. /\ pc[w] = "save" /\ plan' = [plan EXCEPT ![w] = NoChanges]
      /\ cols' = [cols EXCEPT ![w] = NoColumns] /\ Unlock(w) /\ UNCHANGED <<pc, req, move>>
  BY DEF SaveMember
<1>3. id \in RowIds
  BY <1>1, <1>2 DEF Typed, WorkerOK
<1>4. TablesOK'
  BY <1>1, <1>3, SavePlanOK, CommitTables DEF Typed, WorkerOK
<1>5. /\ StepOf(w) /\ plan'[w] = NoChanges /\ cols'[w] = NoColumns
      /\ left'[w] = left[w] \ {id}
  BY <1>1, <1>2 DEF Typed, MemoryOK, StepOf
<1>6. WorkerOK(w)'
  BY <1>2, <1>5, NoneOK DEF WorkerOK, Typed
<1>7. lock' \in [Packages -> Workers \cup {None}]
  BY <1>2 DEF Unlock, Typed
<1> QED
  BY <1>4, <1>5, <1>6, <1>7, StepTyped

LEMMA AddMemberTyped ==
    ASSUME Typed, NEW w \in Workers, AddMember(w)
    PROVE  Typed'
<1>1. TablesOK'
  BY AddPlanOK, CommitTables DEF AddMember, Typed, WorkerOK
<1> QED
  BY <1>1, FinishOK, StepTyped DEF AddMember

LEMMA ReadGroupTyped ==
    ASSUME Typed, NEW w \in Workers, ReadGroup(w)
    PROVE  Typed'
<1> DEFINE g == req[w].group
           k == req[w].kind
           objects == IF k = "group_update" /\ g \in Orgs THEN Users ELSE Objects
           plans == CASE k \in {"group_delete", "organization_delete"} ->
                             {Changes(MarkedRows(g, req[w].byname), Nothing)}
                      [] k = "purge" -> {Changes(MarkedRows(g, FALSE), Nothing)}
                      [] OTHER -> MemberSavePlans(g, req[w].list, objects)
           gcol == CASE k \in {"group_delete", "organization_delete"} -> Only(g, "deleted")
                     [] k = "purge" -> Nothing
                     [] OTHER -> Only(g, req[w].state)
           c == Columns(Nothing, Nothing, gcol)
<1>1. pc[w] = "read" /\ k \in GroupKinds /\ RequestOK(req[w])
  BY RequestFacts DEF ReadGroup, Typed, WorkerOK
<1>2. g \in Groups
  BY <1>1 DEF RequestOK
<1>3. CASE Fail(w)
  BY <1>3, FailTyped
<1>4. CASE \E pl \in plans : Plan(w, pl, c, "write") /\ UNCHANGED <<move, left>>
  <2>1. PICK pl \in plans : Plan(w, pl, c, "write") /\ UNCHANGED <<move, left>>
    BY <1>4
  <2>2. PlanOK(pl)
    <3>1. CASE k \in {"group_delete", "organization_delete", "purge"}
      BY <1>2, <2>1, <3>1, MarkedOK
    <3>2. CASE k \in {"group_create", "group_update"}
      <4>1. req[w].list \in Lists /\ objects \in SUBSET Objects
        BY <1>1, <3>2 DEF RequestOK, Objects
      <4>2. pl \in MemberSavePlans(g, req[w].list, objects)
        BY <2>1, <3>2
      <4> HIDE DEF objects
      <4> QED
        BY <1>2, <4>1, <4>2, MemberSaveOK
    <3> QED
      BY <1>1, <3>1, <3>2 DEF GroupKinds
  <2>3. ColumnsOK(c)
    <3>1. k \in {"group_create", "group_update"} => req[w].state \in States
      BY <1>1 DEF RequestOK
    <3>2. \A x \in DOMAIN gcol : gcol[x] \in States
      BY <1>1, <3>1 DEF Only, Nothing, States, GroupKinds
    <3>3. c.owner = Nothing /\ c.pstate = Nothing /\ c.gstate = gcol
      BY DEF Columns
    <3> HIDE DEF c, gcol
    <3> QED
      BY <3>2, <3>3 DEF ColumnsOK, Nothing
  <2>4. /\ move' = [move EXCEPT ![w] = move'[w]] /\ left' = [left EXCEPT ![w] = left'[w]]
        /\ left'[w] \subseteq RowIds \cup Packages
    BY <2>1 DEF Typed, MemoryOK, WorkerOK
  <2>5. KindAt("write", k)
    BY <1>1 DEF KindAt
  <2> HIDE DEF c
  <2> QED
    BY <1>1, <2>1, <2>2, <2>3, <2>4, <2>5, PlanTyped
<1> QED
  BY <1>3, <1>4 DEF ReadGroup

LEMMA WriteTyped ==
    ASSUME Typed, NEW w \in Workers, Write(w)
    PROVE  Typed'
<1> DEFINE creating == req[w].kind = "group_create" /\ DOMAIN cols[w].gstate # {}
<1>1. /\ pc[w] = "write" /\ Fits(plan[w], cols[w]) /\ CommitChanges(plan[w], cols[w])
  BY DEF Write
<1>2. TablesOK'
  BY <1>1, CommitTables DEF Typed, WorkerOK
<1>3. CASE Finish(w)
  BY <1>2, <1>3, FinishOK, StepTyped
<1>4. CASE /\ creating \/ req[w].kind = "purge"
           /\ Goto(w, IF creating THEN "admin" ELSE "purge")
           /\ plan' = [plan EXCEPT ![w] = NoChanges]
           /\ cols' = [cols EXCEPT ![w] = NoColumns]
           /\ UNCHANGED <<lock, req, move, left>>
  <2>1. StepOf(w)
    BY <1>4 DEF Typed, MemoryOK, StepOf, Goto
  <2>2. /\ pc'[w] = IF creating THEN "admin" ELSE "purge"
        /\ plan'[w] = NoChanges /\ cols'[w] = NoColumns
    BY <1>4 DEF Typed, MemoryOK, Goto
  <2>3. pc'[w] \in {"admin", "purge"} /\ KindAt(pc'[w], req[w].kind)
    BY <1>4, <2>2 DEF KindAt
  <2>4. WorkerOK(w)'
    BY <1>1, <1>4, <2>2, <2>3, NoneOK DEF WorkerOK, Labels, Typed
  <2> QED
    BY <1>2, <1>4, <2>1, <2>4, StepTyped DEF Typed
<1> QED
  BY <1>3, <1>4 DEF Write

LEMMA ListPackagesTyped ==
    ASSUME Typed, NEW w \in Workers, ListPackages(w)
    PROVE  Typed'
<1> DEFINE found == {p \in Packages : ShownBy(req[w].group, p)}
<1>1. CASE Fail(w)
  BY <1>1, FailTyped
<1>2. CASE /\ left' = [left EXCEPT ![w] = found] /\ Goto(w, "delete")
           /\ UNCHANGED <<tables, lock, req, plan, cols, move>>
  <2>1. StepOf(w) /\ pc'[w] = "delete" /\ left'[w] = found
    BY <1>2 DEF Typed, MemoryOK, StepOf, Goto
  <2>2. pc[w] = "list" /\ KindAt("delete", req[w].kind)
    BY DEF ListPackages, Typed, WorkerOK, KindAt
  <2>3. WorkerOK(w)'
    BY <1>2, <2>1, <2>2 DEF WorkerOK, Labels, Typed
  <2> QED
    BY <1>2, <2>1, <2>3, StepTyped, TablesKept DEF Typed
<1> QED
  BY <1>1, <1>2 DEF ListPackages

LEMMA DeletePackageTyped ==
    ASSUME Typed, NEW w \in Workers, DeletePackage(w)
    PROVE  Typed'
<1>1. /\ pc[w] = "delete" /\ UNCHANGED <<rows, owner, gstate, purged, lock, req, plan, cols, move>>
  BY DEF DeletePackage
<1>2. CASE \E p \in left[w] : /\ pstate' = [pstate EXCEPT ![p] = "deleted"]
                              /\ left' = [left EXCEPT ![w] = @ \ {p}]
                              /\ UNCHANGED <<pc>>
  <2>1. StepOf(w) /\ left'[w] \subseteq left[w]
    BY <1>1, <1>2 DEF Typed, MemoryOK, StepOf
  <2>2. pstate' \in [Packages -> PackageStates \cup {None}]
    <3>1. pstate \in [Packages -> PackageStates \cup {None}] /\ "deleted" \in PackageStates
      BY DEF Typed, TablesOK, States, PackageStates
    <3> QED
      BY <1>2, <3>1
  <2>3. TablesOK'
    BY <1>1, <2>2 DEF Typed, TablesOK, Present
  <2>4. WorkerOK(w)'
    BY <1>1, <1>2, <2>1 DEF WorkerOK, Typed
  <2> QED
    BY <1>1, <2>1, <2>3, <2>4, StepTyped DEF Typed
<1>3. CASE Goto(w, "read") /\ UNCHANGED <<pstate, left>>
  <2>1. StepOf(w) /\ pc'[w] = "read"
    BY <1>1, <1>3 DEF Typed, MemoryOK, StepOf, Goto
  <2>2. KindAt("read", req[w].kind)
    BY <1>1 DEF Typed, WorkerOK, KindAt
  <2>3. WorkerOK(w)'
    BY <1>1, <1>3, <2>1, <2>2 DEF WorkerOK, Typed, Labels
  <2> QED
    BY <1>1, <1>3, <2>1, <2>3, StepTyped, TablesKept DEF Typed, tables
<1> QED
  BY <1>2, <1>3 DEF DeletePackage

LEMMA PurgeTyped ==
    ASSUME Typed, NEW w \in Workers, Purge(w)
    PROVE  Typed'
<1> DEFINE g == req[w].group
<1>1. pc[w] = "purge" /\ Finish(w)
  BY DEF Purge
<1>2. g \in Groups
  BY <1>1, RequestFacts DEF Typed, WorkerOK, KindAt, RequestOK, GroupKinds
<1>3. CASE UNCHANGED tables
  BY <1>1, <1>3, FinishOK, StepTyped, TablesKept DEF Typed
<1>4. CASE /\ rows' = [pr \in Pairs |-> IF pr[1] = g THEN [s \in Slots |-> None] ELSE rows[pr]]
           /\ gstate' = [gstate EXCEPT ![g] = None]
           /\ purged' = purged \cup {g}
           /\ UNCHANGED <<owner, pstate>>
  <2>1. rows' \in [Pairs -> [Slots -> Rows \cup {None}]]
    BY <1>4 DEF Typed, TablesOK
  <2>2. \A h \in purged' : h \in Groups /\ gstate'[h] = None
    BY <1>2, <1>4 DEF Typed, TablesOK
  <2>3. \A h \in purged', o \in Objects : Present(h, o)' = {}
    BY <1>2, <1>4 DEF Typed, TablesOK, Present, Pairs
  <2>4. TablesOK'
    BY <1>2, <1>4, <2>1, <2>2, <2>3 DEF Typed, TablesOK
  <2> QED
    BY <1>1, <2>4, FinishOK, StepTyped
<1> QED
  BY <1>3, <1>4 DEF Purge

LEMMA NextTyped == Typed /\ [Next]_vars => Typed'
<1> SUFFICES ASSUME Typed, [Next]_vars PROVE Typed'
  OBVIOUS
<1>1. CASE UNCHANGED vars
  BY <1>1 DEF vars, Typed, TablesOK, MemoryOK, WorkerOK, Present
<1>2. ASSUME NEW w \in Workers,
             \/ Start(w) \/ Abort(w) \/ ReadMember(w) \/ LockPackage(w) \/ ReadPackage(w)
             \/ SaveMember(w) \/ AddMember(w) \/ ReadGroup(w) \/ Write(w) \/ FlushFails(w)
             \/ ListPackages(w) \/ DeletePackage(w) \/ Purge(w)
      PROVE  Typed'
  BY <1>2, FailTyped, StartTyped, ReadMemberTyped, LockPackageTyped, ReadPackageTyped,
     SaveMemberTyped, AddMemberTyped, ReadGroupTyped, WriteTyped, ListPackagesTyped,
     DeletePackageTyped, PurgeTyped
  DEF Abort, FlushFails
<1> QED
  BY <1>1, <1>2 DEF Next, Step

\* Whatever the requests and however they interleave, the tables hold the values
\* they should, and no row of a purged group comes back: a flush that would put
\* one back fails.
THEOREM TypeCorrect == Spec => []TypeOK
<1> DEFINE LateTyped == \A w \in Workers : late[w] \subseteq Packages
<1>1. Typed /\ LateTyped => TypeOK
  BY DEF Typed, TablesOK, WorkerOK, PlanOK, TypeOK, IsRequest
<1>2. Init => LateTyped
  BY DEF Init
<1>3. LateTyped /\ [Next]_vars => LateTyped'
  BY DEF Next, Watch, vars
<1> QED
  BY <1>1, <1>2, <1>3, InitTyped, NextTyped, PTL DEF Spec

-----------------------------------------------------------------------------
(***************************************************************************)
(* What the rows of a dataset are in the member table.                     *)
(*                                                                         *)
(* Requests that run one after the other leave a dataset with one active     *)
(* row of one organization, whatever they are and wherever they are killed.  *)
(* The commits of package_owner_org_update leave the table between two       *)
(* organizations.  What holds there is that every active row of another      *)
(* organization is one of those the request has still to mark deleted        *)
(* (Pending), so none is left when it inserts the last row; and that no       *)
(* other request gives a row the capacity 'organization' or makes such a row  *)
(* active again (Calm).                                                    *)
(*                                                                         *)
(* Updates of datasets that run at the same time leave a dataset with one    *)
(* row of each group.  A worker that is to insert such a row found none, and  *)
(* holds the lock of the dataset since before it looked (Locked).           *)
(***************************************************************************)

OwnsAt(g, p, s) ==
    /\ rows[<<g, p>>][s] # None
    /\ rows[<<g, p>>][s].capacity = "organization"
    /\ rows[<<g, p>>][s].state = "active"

LEMMA OwnsAtFacts ==
    ASSUME NEW g \in Groups, NEW p \in Packages, NEW s \in Slots
    PROVE  s \in Active(g, p) \cap Owning(g, p) <=> OwnsAt(g, p, s)
BY DEF Active, Owning, Listed, Present, OwnsAt

OneOwner ==
    \A p \in Packages, g, h \in Groups, s, t \in Slots :
      OwnsAt(g, p, s) /\ OwnsAt(h, p, t) => g = h /\ s = t

LEMMA OneOwnerFacts == OneOwner <=> OneOrganization
<1>1. \A p \in Packages, g \in Groups : Active(g, p) \cap Owning(g, p) \subseteq Slots
  BY DEF Active, Present
<1> QED
  BY <1>1, OwnsAtFacts DEF OneOwner, OneOrganization

\* No row becomes the one of an organization.
Calm(pl) ==
    /\ \A pr \in DOMAIN pl.add : pl.add[pr] # "organization"
    /\ \A id \in DOMAIN pl.capacity : pl.capacity[id] # "organization"
    /\ \A id \in DOMAIN pl.state : pl.state[id] = "active" =>
         rows[<<id[1], id[2]>>][id[3]].capacity # "organization"

\* What package_owner_org_update has still to do.
Pending(w) ==
    LET p == req[w].pkg
    IN  /\ \A g \in Groups \ {req[w].owner}, s \in Slots :
             OwnsAt(g, p, s) => <<g, p, s>> \in left[w] \ move[w].marked
        /\ move[w].join # None => \A s \in Slots : ~ OwnsAt(move[w].join, p, s)

OwnerInv ==
    /\ Typed
    /\ OneOwner
    /\ \A w \in Workers : /\ pc[w] \in {"write", "save"} => Calm(plan[w])
                          /\ pc[w] = "save" => Pending(w)

-----------------------------------------------------------------------------
(***************************************************************************)
(* The changes of the requests are calm.                                   *)
(***************************************************************************)
LEMMA NoChangesCalm == Calm(NoChanges)
BY DEF Calm, NoChanges, Changes, Nothing

LEMMA JoinCalm ==
    ASSUME NEW g, NEW o, NEW k, k # "organization", NEW pl \in JoinPlans(g, o, k)
    PROVE  Calm(pl)
<1>1. CASE pl = Changes(Nothing, Only(<<g, o>>, k))
  BY <1>1 DEF Calm, Changes, Nothing, Only
<1>2. ASSUME NEW s \in Active(g, o),
             pl = [state |-> Nothing, capacity |-> Only(<<g, o, s>>, k), add |-> Nothing]
      PROVE  Calm(pl)
  BY <1>2 DEF Calm, Nothing, Only
<1> QED
  BY <1>1, <1>2 DEF JoinPlans

LEMMA LeaveCalm ==
    ASSUME NEW g, NEW o, NEW pl \in LeavePlans(g, o)
    PROVE  Calm(pl)
<1>1. PICK s \in Active(g, o) : pl = Changes(Only(<<g, o, s>>, "deleted"), Nothing)
  BY DEF LeavePlans
<1> QED
  BY <1>1 DEF Calm, Changes, Nothing, Only

LEMMA MarkedCalm ==
    ASSUME NEW g, NEW byname
    PROVE  Calm(Changes(MarkedRows(g, byname), Nothing))
BY DEF Calm, Changes, MarkedRows, Nothing

LEMMA ListCalm ==
    ASSUME NEW p \in Packages, NEW groups, NEW readable, NEW pl \in ListPlans(p, groups, readable)
    PROVE  Calm(pl)
<1> DEFINE listed == {g \in groups : Exists(g)}
           known == {g \in Groups : Listed(g, p) # {}}
           wrong(g, s) == (rows[<<g, p>>][s].state = "active") # (g \in listed)
<1>1. PICK pick \in {f \in [known -> Slots] : \A g \in known : f[g] \in Listed(g, p)} :
        pl = Changes([id \in {x \in (known \cap readable) \X {p} \X Slots :
                                 x[3] = pick[x[1]] /\ wrong(x[1], x[3])} |->
                         IF id[1] \in listed THEN "active" ELSE "deleted"],
                      [pr \in ((listed \cap readable) \ known) \X {p} |-> "public"])
  BY DEF ListPlans
<1>2. /\ pl.state = [id \in {x \in (known \cap readable) \X {p} \X Slots :
                                x[3] = pick[x[1]] /\ wrong(x[1], x[3])} |->
                         IF id[1] \in listed THEN "active" ELSE "deleted"]
      /\ pl.capacity = Nothing
      /\ pl.add = [pr \in ((listed \cap readable) \ known) \X {p} |-> "public"]
  BY <1>1 DEF Changes
<1>3. \A g \in known : rows[<<g, p>>][pick[g]].capacity # "organization"
  BY <1>1 DEF Listed
<1> HIDE DEF wrong, listed, known
<1>4. \A id \in DOMAIN pl.state : id[2] = p /\ id[1] \in known /\ id[3] = pick[id[1]]
  BY <1>2
<1>5. \A id \in DOMAIN pl.state : rows[<<id[1], id[2]>>][id[3]].capacity # "organization"
  BY <1>3, <1>4
<1> QED
  BY <1>2, <1>5 DEF Calm, Nothing

LEMMA MemberSaveCalm ==
    ASSUME NEW g \in Groups, NEW list \in Lists, NEW objects \in SUBSET Objects,
           NEW pl \in MemberSavePlans(g, list, objects)
    PROVE  Calm(pl)
<1> DEFINE found == {k \in objects \X Capacities :
                        \E s \in Present(g, k[1]) : rows[<<g, k[1]>>][s].capacity = k[2]}
           wanted(k) == k[1] \in DOMAIN list /\ list[k[1]] = k[2]
           key(id) == <<id[2], rows[<<g, id[2]>>][id[3]].capacity>>
           wrong(id) == (rows[<<g, id[2]>>][id[3]].state = "active") # wanted(key(id))
<1>1. PICK pick \in {f \in [found -> Slots] : \A k \in found :
                        f[k] \in Present(g, k[1]) /\ rows[<<g, k[1]>>][f[k]].capacity = k[2]} :
        pl = Changes([id \in {x \in {g} \X objects \X Slots :
                                 /\ x[3] \in Present(g, x[2])
                                 /\ x[3] = pick[key(x)] /\ wrong(x)} |->
                         IF wanted(key(id)) THEN "active" ELSE "deleted"],
                      [pr \in {x \in {g} \X (DOMAIN list \cap objects) :
                                 <<x[2], list[x[2]]>> \notin found} |-> list[pr[2]]])
  BY DEF MemberSavePlans
<1>2. \A o \in DOMAIN list : list[o] # "organization"
  BY ListsAssumption, RolesAssumption
<1> HIDE DEF wrong, found
<1>3. /\ pl.state = [id \in {x \in {g} \X objects \X Slots :
                                /\ x[3] \in Present(g, x[2])
                                /\ x[3] = pick[key(x)] /\ wrong(x)} |->
                          IF wanted(key(id)) THEN "active" ELSE "deleted"]
      /\ pl.capacity = Nothing
      /\ pl.add = [pr \in {x \in {g} \X (DOMAIN list \cap objects) :
                               <<x[2], list[x[2]]>> \notin found} |-> list[pr[2]]]
  BY <1>1 DEF Changes
<1>4. \A pr \in DOMAIN pl.add : pl.add[pr] # "organization"
  BY <1>2, <1>3
<1>5. ASSUME NEW id \in DOMAIN pl.state, pl.state[id] = "active"
      PROVE  rows[<<id[1], id[2]>>][id[3]].capacity # "organization"
  <2>1. id \in {g} \X objects \X Slots
    BY <1>3
  <2>2. wanted(key(id))
    BY <1>3, <1>5
  <2>3. id[2] \in DOMAIN list /\ list[id[2]] = rows[<<g, id[2]>>][id[3]].capacity
    BY <2>2
  <2> QED
    BY <1>2, <2>1, <2>3
<1> QED
  BY <1>3, <1>4, <1>5 DEF Calm, Nothing

-----------------------------------------------------------------------------
(***************************************************************************)
(* What a commit does to the rows of organizations.                        *)
(***************************************************************************)

\* A commit of calm changes makes no row the one of an organization.
LEMMA CalmCommit ==
    ASSUME NEW pl, NEW c, Calm(pl), CommitChanges(pl, c),
           NEW g \in Groups, NEW p \in Packages, NEW s \in Slots, OwnsAt(g, p, s)'
    PROVE  /\ OwnsAt(g, p, s)
           /\ <<g, p, s>> \in DOMAIN pl.state => pl.state[<<g, p, s>>] = "active"
<1> DEFINE id == <<g, p, s>>
           r == rows[<<g, p>>][s]
<1>1. rows'[<<g, p>>][s] =
        IF r # None THEN Updated(pl, g, p, s)
        ELSE IF <<g, p>> \in DOMAIN pl.add /\ s = FreeSlot(g, p)
          THEN [capacity |-> pl.add[<<g, p>>], state |-> "active"]
          ELSE None
  BY FlushedRow DEF CommitChanges, Objects
<1>2. rows'[<<g, p>>][s] # None /\ rows'[<<g, p>>][s].capacity = "organization"
      /\ rows'[<<g, p>>][s].state = "active"
  BY DEF OwnsAt
<1>3. r # None
  BY <1>1, <1>2 DEF Calm
<1>4. /\ (IF id \in DOMAIN pl.capacity THEN pl.capacity[id] ELSE r.capacity) = "organization"
      /\ (IF id \in DOMAIN pl.state THEN pl.state[id] ELSE r.state) = "active"
  BY <1>1, <1>2, <1>3 DEF Updated
<1>5. r.capacity = "organization"
  BY <1>4 DEF Calm
<1>6. r.state = "active" /\ (id \in DOMAIN pl.state => pl.state[id] = "active")
  BY <1>4, <1>5 DEF Calm
<1> QED
  BY <1>3, <1>5, <1>6 DEF OwnsAt

LEMMA CalmKeepsOneOwner ==
    ASSUME OneOwner, NEW pl, NEW c, Calm(pl), CommitChanges(pl, c)
    PROVE  OneOwner'
<1> SUFFICES ASSUME NEW p \in Packages, NEW g \in Groups, NEW h \in Groups,
                    NEW s \in Slots, NEW t \in Slots, OwnsAt(g, p, s)', OwnsAt(h, p, t)'
             PROVE  g = h /\ s = t
  BY DEF OneOwner
<1>1. OwnsAt(g, p, s) /\ OwnsAt(h, p, t)
  BY CalmCommit
<1> QED
  BY <1>1 DEF OneOwner

LEMMA RowsKept ==
    ASSUME OneOwner, UNCHANGED rows
    PROVE  OneOwner'
BY DEF OneOwner, OwnsAt

\* A request that ended has nothing pending.
LEMMA FinishOwner ==
    ASSUME \A v, w \in Workers : v = w, OwnerInv, NEW w \in Workers, Finish(w), Typed', OneOwner'
    PROVE  OwnerInv'
<1>1. pc'[w] = "idle"
  BY DEF Finish, Goto, OwnerInv, Typed, MemoryOK
<1> QED
  BY <1>1 DEF OwnerInv

\* A request that computed calm changes to members or to a group.
LEMMA PlanOwner ==
    ASSUME \A v, w \in Workers : v = w, OwnerInv, NEW w \in Workers, Typed',
           NEW pl, NEW c, Calm(pl), Plan(w, pl, c, "write")
    PROVE  OwnerInv'
<1>1. pc'[w] = "write" /\ plan'[w] = pl /\ UNCHANGED rows
  BY DEF Plan, Goto, OwnerInv, Typed, MemoryOK, tables
<1>2. Calm(pl)'
  BY <1>1 DEF Calm
<1>3. Calm(plan[w])'
  BY <1>1, <1>2 DEF Calm
<1> QED
  BY <1>1, <1>3, RowsKept DEF OwnerInv

-----------------------------------------------------------------------------
(***************************************************************************)
(* The steps.                                                              *)
(***************************************************************************)
LEMMA ReadMemberOwner ==
    ASSUME \A v, w \in Workers : v = w, OwnerInv, NEW w \in Workers, Typed', ReadMember(w)
    PROVE  OwnerInv'
<1> DEFINE g == req[w].group
           o == req[w].object
           Planned(pl) == Plan(w, pl, NoColumns, "write")
<1>1. CASE Fail(w)
  BY <1>1, FinishOwner, RowsKept DEF Fail, tables, OwnerInv
<1>2. CASE \E pl \in JoinPlans(g, o, "admin") : Planned(pl)
  BY <1>2, JoinCalm, PlanOwner
<1>3. CASE req[w].kind = "member_create" /\ \E pl \in JoinPlans(g, o, req[w].capacity) : Planned(pl)
  <2>1. PICK k \in Kinds : req[w] \in Requests(k)
    BY DEF ReadMember, OwnerInv, Typed, WorkerOK, IsRequest
  <2>2. k = "member_create"
    BY <1>3, <2>1, KindsAssumption DEF Requests, PackageKinds, MemberKinds, GroupKinds
  <2>3. req[w].capacity # "organization"
    BY <2>1, <2>2, RolesAssumption DEF Requests
  <2> QED
    BY <1>3, <2>3, JoinCalm, PlanOwner
<1>4. CASE \E pl \in LeavePlans(g, o) : Planned(pl)
  BY <1>4, LeaveCalm, PlanOwner
<1> QED
  BY <1>1, <1>2, <1>3, <1>4 DEF ReadMember

LEMMA ReadGroupOwner ==
    ASSUME \A v, w \in Workers : v = w, OwnerInv, NEW w \in Workers, Typed', ReadGroup(w)
    PROVE  OwnerInv'
<1> DEFINE g == req[w].group
           k == req[w].kind
           objects == IF k = "group_update" /\ g \in Orgs THEN Users ELSE Objects
           Planned(pl) == \E c : Plan(w, pl, c, "write")
<1>1. pc[w] = "read" /\ k \in GroupKinds /\ RequestOK(req[w])
  BY RequestFacts DEF ReadGroup, OwnerInv, Typed, WorkerOK
<1>2. CASE Fail(w)
  BY <1>2, FinishOwner, RowsKept DEF Fail, tables, OwnerInv
<1>3. CASE \E pl : Calm(pl) /\ Planned(pl)
  BY <1>3, PlanOwner
<1>4. CASE Planned(Changes(MarkedRows(g, req[w].byname), Nothing))
  BY <1>3, <1>4, MarkedCalm
<1>5. CASE Planned(Changes(MarkedRows(g, FALSE), Nothing))
  BY <1>3, <1>5, MarkedCalm
<1>6. CASE /\ k \in {"group_create", "group_update"}
           /\ \E pl \in MemberSavePlans(g, req[w].list, objects) : Planned(pl)
  <2>1. g \in Groups /\ req[w].list \in Lists /\ objects \in SUBSET Objects
    BY <1>1, <1>6 DEF RequestOK, Objects
  <2> HIDE DEF objects, Planned
  <2> QED
    BY <1>3, <1>6, <2>1, MemberSaveCalm
<1> HIDE DEF objects
<1> QED
  BY <1>1, <1>2, <1>4, <1>5, <1>6 DEF ReadGroup, GroupKinds, objects

\* The rows of other organizations that are active are to be visited, and none
\* of them was found deleted.
LEMMA ReadPackageOwner ==
    ASSUME \A v, w \in Workers : v = w, OwnerInv, NEW w \in Workers, Typed', ReadPackage(w)
    PROVE  OwnerInv'
<1> DEFINE p == req[w].pkg
           org == req[w].owner
           others == {id \in (Groups \ {org}) \X {p} \X Slots : id[3] \in Owning(id[1], p)}
<1>1. /\ pc[w] = "read" /\ RequestOK(req[w])
      /\ req[w].kind \in {"package_create", "package_update", "owner_org"}
  BY RequestFacts DEF ReadPackage, OwnerInv, Typed, WorkerOK
<1>2. p \in Packages /\ org \in Orgs \cup {None}
  BY <1>1 DEF RequestOK, PackageKinds
<1>3. CASE Fail(w)
  BY <1>3, FinishOwner, RowsKept DEF Fail, tables, OwnerInv
<1>4. CASE ~ Fail(w)
  <2>1. PICK pl, c : /\ Plan(w, pl, c, "save")
                     /\ pl = NoChanges \/ pl \in ListPlans(p, req[w].groups, req[w].readable)
    BY <1>4 DEF ReadPackage
  <2>2. Calm(pl)
    BY <1>2, <2>1, NoChangesCalm, ListCalm
  <2>3. move' = [move EXCEPT ![w] = Moving(p, org)] /\ left' = [left EXCEPT ![w] = others]
    BY <1>4 DEF ReadPackage
  <2>4. /\ pc'[w] = "save" /\ plan'[w] = pl /\ move'[w] = Moving(p, org) /\ left'[w] = others
        /\ UNCHANGED <<rows, req>>
    BY <2>1, <2>3 DEF Plan, Goto, OwnerInv, Typed, MemoryOK, tables
  <2>5. Calm(plan[w])'
    BY <2>2, <2>4 DEF Calm
  <2>6. ASSUME NEW g \in Groups \ {org}, NEW s \in Slots, OwnsAt(g, p, s)
        PROVE  <<g, p, s>> \in others \ Moving(p, org).marked
    <3>1. s \in Owning(g, p) /\ rows[<<g, p>>][s].state # "deleted"
      BY <1>2, <2>6, OwnsAtFacts DEF OwnsAt
    <3> QED
      BY <2>6, <3>1 DEF Moving
  <2>7. ASSUME Moving(p, org).join # None, NEW s \in Slots
        PROVE  ~ OwnsAt(Moving(p, org).join, p, s)
    <3>1. Moving(p, org).join = org /\ Owning(org, p) = {} /\ org \in Groups
      BY <1>2, <2>7, SetsAssumption DEF Moving
    <3> QED
      BY <1>2, <3>1, OwnsAtFacts
  <2>8. Pending(w)'
    BY <2>4, <2>6, <2>7 DEF Pending, OwnsAt
  <2> QED
    BY <2>4, <2>5, <2>8, RowsKept DEF OwnerInv
<1> QED
  BY <1>3, <1>4

\* The visited row is marked deleted if it was not: the rows still to visit are
\* the active ones again.
LEMMA SaveMemberOwner ==
    ASSUME \A v, w \in Workers : v = w, OwnerInv, NEW w \in Workers, Typed', SaveMember(w)
    PROVE  OwnerInv'
<1> DEFINE p == req[w].pkg
<1>1. PICK id \in left[w] : /\ CommitChanges(SavePlan(w, id), cols[w])
                            /\ left' = [left EXCEPT ![w] = @ \ {id}]
  BY DEF SaveMember
<1>2. /\ pc[w] = "save" /\ plan' = [plan EXCEPT ![w] = NoChanges]
      /\ UNCHANGED <<pc, req, move>>
  BY DEF SaveMember
<1>3. /\ Calm(plan[w]) /\ Pending(w) /\ plan'[w] = NoChanges
      /\ left'[w] = left[w] \ {id}
  BY <1>1, <1>2 DEF OwnerInv, Typed, MemoryOK
<1>4. Calm(SavePlan(w, id))
  BY <1>3 DEF Calm, SavePlan, Changes, Nothing
<1>5. p \in Packages /\ id \in RowIds
  BY <1>1, <1>2, RequestFacts DEF OwnerInv, Typed, WorkerOK, RequestOK, KindAt, PackageKinds
<1>6. ASSUME NEW q \in Packages, q = p, NEW g \in Groups \ {req[w].owner}, NEW s \in Slots,
             OwnsAt(g, q, s)'
      PROVE  <<g, q, s>> \in left'[w] \ move'[w].marked
  <2>1. OwnsAt(g, q, s)
    BY <1>1, <1>4, <1>5, <1>6, CalmCommit
  <2>2. <<g, q, s>> \in left[w] \ move[w].marked
    BY <1>3, <1>6, <2>1 DEF Pending
  <2>3. <<g, q, s>> # id
    <3> SUFFICES ASSUME <<g, q, s>> = id PROVE FALSE
      OBVIOUS
    <3>1. id \in DOMAIN SavePlan(w, id).state /\ SavePlan(w, id).state[id] = "deleted"
      BY <2>2 DEF SavePlan, Changes
    <3> QED
      BY <1>1, <1>4, <1>5, <1>6, <3>1, CalmCommit
  <2> QED
    BY <1>2, <1>3, <2>2, <2>3
<1>7. ASSUME move[w].join # None, NEW s \in Slots
      PROVE  ~ OwnsAt(move[w].join, p, s)'
  <2>1. move[w].join \in Groups
    BY <1>2, <1>7, SetsAssumption DEF OwnerInv, Typed, WorkerOK
  <2>2. ~ OwnsAt(move[w].join, p, s)
    BY <1>3, <1>7 DEF Pending
  <2> QED
    BY <1>1, <1>2, <1>4, <1>5, <2>1, <2>2, CalmCommit DEF OwnsAt
<1>8. Pending(w)'
  <2>1. req'[w] = req[w] /\ move'[w] = move[w]
    BY <1>2
  <2>2. ASSUME NEW g \in Groups \ {req[w].owner}, NEW s \in Slots, OwnsAt(g, req[w].pkg, s)'
        PROVE  <<g, p, s>> \in left'[w] \ move'[w].marked
    <3>1. OwnsAt(g, req[w].pkg, s)' <=> /\ rows'[<<g, p>>][s] # None
                                       /\ rows'[<<g, p>>][s].capacity = "organization"
                                       /\ rows'[<<g, p>>][s].state = "active"
      BY <2>1 DEF OwnsAt
    <3> QED
      BY <1>5, <1>6, <2>2, <3>1 DEF OwnsAt
  <2> QED
    BY <1>7, <2>1, <2>2 DEF Pending, OwnsAt
<1>9. Calm(plan[w])'
  BY <1>3 DEF Calm, NoChanges, Changes, Nothing
<1>10. OneOwner'
  BY <1>1, <1>4, CalmKeepsOneOwner DEF OwnerInv
<1> QED
  BY <1>8, <1>9, <1>10 DEF OwnerInv

\* No other row is left when the last one is inserted.
LEMMA AddMemberOwner ==
    ASSUME \A v, w \in Workers : v = w, OwnerInv, NEW w \in Workers, Typed', AddMember(w)
    PROVE  OwnerInv'
<1> DEFINE p == req[w].pkg
           org == move[w].join
<1>1. /\ pc[w] = "save" /\ left[w] = {} /\ CommitChanges(AddPlan(w), cols[w]) /\ Finish(w)
      /\ Calm(plan[w]) /\ Pending(w)
  BY DEF AddMember, OwnerInv
<1>2. CASE org = None
  <2>1. Calm(AddPlan(w))
    BY <1>1, <1>2 DEF AddPlan, Calm, Changes, Nothing
  <2> QED
    BY <1>1, <2>1, CalmKeepsOneOwner, FinishOwner DEF OwnerInv
<1>3. CASE org # None
  <2>1. org \in Groups /\ org = req[w].owner
    BY <1>1, <1>3, SetsAssumption DEF OwnerInv, Typed, WorkerOK
  <2>2. p \in Packages
    BY <1>1, RequestFacts DEF OwnerInv, Typed, WorkerOK, RequestOK, KindAt, PackageKinds
  <2>3. ASSUME NEW g \in Groups, NEW s \in Slots
        PROVE  ~ OwnsAt(g, p, s)
    BY <1>1, <1>3, <2>1 DEF Pending
  <2>4. /\ AddPlan(w).state = plan[w].state /\ AddPlan(w).capacity = Nothing
        /\ \A pr \in DOMAIN AddPlan(w).add :
             pr # <<org, p>> => AddPlan(w).add[pr] # "organization"
    BY <1>1, <1>3 DEF AddPlan, Changes, Calm
  <2>5. ASSUME NEW q \in Packages, NEW g \in Groups, NEW s \in Slots, OwnsAt(g, q, s)'
        PROVE  \/ q # p /\ OwnsAt(g, q, s)
               \/ q = p /\ g = org /\ s = FreeSlot(org, p)
    <3> DEFINE r == rows[<<g, q>>][s]
               id == <<g, q, s>>
    <3>1. rows'[<<g, q>>][s] =
            IF r # None THEN Updated(AddPlan(w), g, q, s)
            ELSE IF <<g, q>> \in DOMAIN AddPlan(w).add /\ s = FreeSlot(g, q)
              THEN [capacity |-> AddPlan(w).add[<<g, q>>], state |-> "active"]
              ELSE None
      BY <1>1, FlushedRow DEF CommitChanges, Objects
    <3>2. rows'[<<g, q>>][s] # None /\ rows'[<<g, q>>][s].capacity = "organization"
          /\ rows'[<<g, q>>][s].state = "active"
      BY <2>5 DEF OwnsAt
    <3>3. CASE r # None
      <4>1. /\ r.capacity = "organization"
            /\ (IF id \in DOMAIN plan[w].state THEN plan[w].state[id] ELSE r.state) = "active"
        BY <2>4, <3>1, <3>2, <3>3 DEF Updated, Nothing
      <4>2. OwnsAt(g, q, s)
        BY <1>1, <3>3, <4>1 DEF Calm, OwnsAt
      <4> QED
        BY <2>3, <4>2
    <3>4. CASE r = None
      <4>1. /\ <<g, q>> \in DOMAIN AddPlan(w).add /\ s = FreeSlot(g, q)
            /\ AddPlan(w).add[<<g, q>>] = "organization"
        BY <3>1, <3>2, <3>4
      <4> QED
        BY <2>4, <4>1
    <3> QED
      BY <3>3, <3>4
  <2>6. OneOwner'
    BY <2>5 DEF OneOwner, OwnerInv
  <2> QED
    BY <1>1, <2>6, FinishOwner
<1> QED
  BY <1>2, <1>3

LEMMA InitOwner == Init => OwnerInv
<1>1. Init => OneOwner
  BY DEF Init, OneOwner, OwnsAt, Pairs, Objects
<1> QED
  BY <1>1, InitTyped DEF OwnerInv, Init

LEMMA NextOwner ==
    ASSUME \A v, w \in Workers : v = w, OwnerInv, [Next]_vars
    PROVE  OwnerInv'
<1>1. Typed'
  BY NextTyped DEF OwnerInv
<1>2. CASE UNCHANGED vars
  BY <1>1, <1>2, RowsKept DEF vars, OwnerInv, Calm, Pending, OwnsAt
<1>3. ASSUME NEW w \in Workers, Fail(w)
      PROVE  OwnerInv'
  BY <1>1, <1>3, FinishOwner, RowsKept DEF Fail, tables, OwnerInv
<1>4. ASSUME NEW w \in Workers, UNCHANGED rows, pc'[w] \notin {"write", "save"}
      PROVE  OwnerInv'
  BY <1>1, <1>4, RowsKept DEF OwnerInv
<1>5. ASSUME NEW w \in Workers, Start(w) PROVE OwnerInv'
  BY <1>4, <1>5 DEF Start, Begin, Goto, FirstStep, tables, OwnerInv, Typed, MemoryOK
<1>6. ASSUME NEW w \in Workers, LockPackage(w) PROVE OwnerInv'
  BY <1>4, <1>6 DEF LockPackage, Finish, Goto, tables, OwnerInv, Typed, MemoryOK
<1>7. ASSUME NEW w \in Workers, ListPackages(w) PROVE OwnerInv'
  BY <1>3, <1>4, <1>7 DEF ListPackages, Goto, tables, OwnerInv, Typed, MemoryOK
<1>8. ASSUME NEW w \in Workers, DeletePackage(w) PROVE OwnerInv'
  BY <1>4, <1>8 DEF DeletePackage, Goto, OwnerInv, Typed, MemoryOK
<1>9. ASSUME NEW w \in Workers, Write(w) PROVE OwnerInv'
  <2>1. OneOwner'
    BY <1>9, CalmKeepsOneOwner DEF Write, OwnerInv
  <2>2. pc'[w] \in {"idle", "admin", "purge"}
    BY <1>9 DEF Write, Finish, Goto, OwnerInv, Typed, MemoryOK
  <2> QED
    BY <1>1, <2>1, <2>2 DEF OwnerInv
<1>10. ASSUME NEW w \in Workers, Purge(w) PROVE OwnerInv'
  <2>1. \A g \in Groups, p \in Packages, s \in Slots : OwnsAt(g, p, s)' => OwnsAt(g, p, s)
    BY <1>10 DEF Purge, OwnsAt, Pairs, Objects, tables
  <2>2. OneOwner'
    BY <2>1 DEF OneOwner, OwnerInv
  <2> QED
    BY <1>1, <1>10, <2>2, FinishOwner DEF Purge
<1> QED
  BY <1>1, <1>2, <1>3, <1>5, <1>6, <1>7, <1>8, <1>9, <1>10, ReadMemberOwner, ReadPackageOwner,
     SaveMemberOwner, AddMemberOwner, ReadGroupOwner
  DEF Next, Step, Abort, FlushFails

\* Requests that run one after the other leave a dataset with at most one active
\* row of one organization, whatever they are, also when one is killed between
\* the commits of package_owner_org_update.
THEOREM SequentialOneOrganization ==
    ASSUME \A v, w \in Workers : v = w
    PROVE  Spec => []OneOrganization
<1>1. OwnerInv => OneOrganization
  BY OneOwnerFacts DEF OwnerInv
<1>2. OwnerInv /\ [Next]_vars => OwnerInv'
  BY NextOwner
<1> QED
  BY <1>1, <1>2, InitOwner, PTL DEF Spec

-----------------------------------------------------------------------------
(***************************************************************************)
(* Concurrent updates of datasets.                                         *)
(***************************************************************************)
ListsAt(g, p, s) ==
    /\ rows[<<g, p>>][s] # None
    /\ rows[<<g, p>>][s].capacity # "organization"

LEMMA ListsAtFacts ==
    ASSUME NEW g \in Groups, NEW p \in Packages
    PROVE  /\ Listed(g, p) \subseteq Slots
           /\ \A s \in Slots : s \in Listed(g, p) <=> ListsAt(g, p, s)
BY DEF Listed, Present, ListsAt

Unlisted(g, p) == \A s \in Slots : ~ ListsAt(g, p, s)

OneListed ==
    \A g \in Groups, p \in Packages, s, t \in Slots :
      ListsAt(g, p, s) /\ ListsAt(g, p, t) => s = t

LEMMA OneListedFacts == OneListed <=> OneRowPerGroup
BY ListsAtFacts DEF OneListed, OneRowPerGroup

\* The rows a worker is to insert are of its dataset; it holds the lock of the
\* dataset, and there is no such row yet.
Locked(w) ==
    LET p == req[w].pkg
    IN  /\ pc[w] = "read" /\ req[w].kind # "owner_org" => lock[p] = w
        /\ pc[w] = "save" =>
             /\ plan[w].capacity = Nothing
             /\ \A pr \in DOMAIN plan[w].add :
                  /\ pr[2] = p
                  /\ lock[p] = w
                  /\ Unlisted(pr[1], p)

RowInv ==
    /\ Typed
    /\ OneListed
    /\ \A w \in Workers : Locked(w)

\* Which rows a commit may add.
LEMMA ListedCommit ==
    ASSUME NEW pl, NEW c, pl.capacity = Nothing, CommitChanges(pl, c),
           NEW g \in Groups, NEW p \in Packages, NEW s \in Slots, ListsAt(g, p, s)'
    PROVE  \/ ListsAt(g, p, s)
           \/ /\ <<g, p>> \in DOMAIN pl.add /\ pl.add[<<g, p>>] # "organization"
              /\ s = FreeSlot(g, p)
<1> DEFINE r == rows[<<g, p>>][s]
<1>1. rows'[<<g, p>>][s] =
        IF r # None THEN Updated(pl, g, p, s)
        ELSE IF <<g, p>> \in DOMAIN pl.add /\ s = FreeSlot(g, p)
          THEN [capacity |-> pl.add[<<g, p>>], state |-> "active"]
          ELSE None
  BY FlushedRow DEF CommitChanges, Objects
<1>2. rows'[<<g, p>>][s] # None /\ rows'[<<g, p>>][s].capacity # "organization"
  BY DEF ListsAt
<1>3. CASE r # None
  BY <1>1, <1>2, <1>3 DEF Updated, Nothing, ListsAt
<1>4. CASE r = None
  BY <1>1, <1>2, <1>4
<1> QED
  BY <1>3, <1>4

\* A worker that holds what it needs to insert its rows may insert them: no
\* dataset gets a second row, and what the others are to insert stays missing.
LEMMA LockedCommit ==
    ASSUME RowInv, NEW w \in Workers, NEW pl, NEW c, pl.capacity = Nothing,
           CommitChanges(pl, c),
           \A pr \in DOMAIN pl.add : pl.add[pr] # "organization" =>
              /\ pr[2] = req[w].pkg /\ lock[req[w].pkg] = w /\ Unlisted(pr[1], req[w].pkg)
    PROVE  /\ OneListed'
           /\ \A v \in Workers \ {w}, g \in Groups, p \in Packages :
                lock[p] = v /\ Unlisted(g, p) => Unlisted(g, p)'
<1>1. OneListed'
  <2> SUFFICES ASSUME NEW g \in Groups, NEW p \in Packages, NEW s \in Slots, NEW t \in Slots,
                      ListsAt(g, p, s)', ListsAt(g, p, t)'
               PROVE  s = t
    BY DEF OneListed
  <2>1. CASE ListsAt(g, p, s) /\ ListsAt(g, p, t)
    BY <2>1 DEF RowInv, OneListed
  <2>2. CASE ~ (ListsAt(g, p, s) /\ ListsAt(g, p, t))
    <3>1. <<g, p>> \in DOMAIN pl.add /\ pl.add[<<g, p>>] # "organization"
      BY <2>2, ListedCommit
    <3>2. Unlisted(g, p)
      BY <3>1
    <3>3. ~ ListsAt(g, p, s) /\ ~ ListsAt(g, p, t)
      BY <3>2 DEF Unlisted
    <3>4. s = FreeSlot(g, p) /\ t = FreeSlot(g, p)
      BY <3>3, ListedCommit
    <3> QED
      BY <3>4
  <2> QED
    BY <2>1, <2>2
<1>2. ASSUME NEW v \in Workers \ {w}, NEW g \in Groups, NEW p \in Packages,
             lock[p] = v, Unlisted(g, p), NEW s \in Slots, ListsAt(g, p, s)'
      PROVE  FALSE
  <2>1. <<g, p>> \in DOMAIN pl.add /\ pl.add[<<g, p>>] # "organization"
    BY <1>2, ListedCommit DEF Unlisted
  <2> QED
    BY <1>2, <2>1
<1> QED
  BY <1>1, <1>2 DEF Unlisted

\* A step of w that leaves the other workers what they rely on.
Keeps(w) ==
    \A v \in Workers \ {w} :
      /\ pc'[v] = pc[v] /\ req'[v] = req[v] /\ plan'[v] = plan[v]
      /\ \A p \in Packages : lock[p] = v => lock'[p] = v

LEMMA OthersLocked ==
    ASSUME Kinds \subseteq PackageKinds, RowInv, NEW w \in Workers, Keeps(w),
           Typed', OneListed', Locked(w)',
           \A v \in Workers \ {w}, g \in Groups, p \in Packages :
             lock[p] = v /\ Unlisted(g, p) => Unlisted(g, p)'
    PROVE  RowInv'
<1> SUFFICES ASSUME NEW v \in Workers \ {w}, NEW q, q = req[v].pkg
             PROVE  Locked(v)'
  BY DEF RowInv
<1>1. /\ Locked(v) /\ pc'[v] = pc[v] /\ req'[v] = req[v] /\ plan'[v] = plan[v]
      /\ req'[v].pkg = q
  BY DEF RowInv, Keeps
<1>2. pc[v] # "idle" => q \in Packages
  BY RequestFacts DEF RowInv, Typed, WorkerOK, RequestOK
<1>3. pc[v] = "read" /\ req[v].kind # "owner_org" => lock'[q] = v
  BY <1>1, <1>2 DEF Locked, Keeps
<1>4. ASSUME pc[v] = "save", NEW pr \in DOMAIN plan[v].add
      PROVE  pr[2] = q /\ lock'[q] = v /\ Unlisted(pr[1], q)'
  <2>1. pr[2] = q /\ lock[q] = v /\ Unlisted(pr[1], q)
    BY <1>1, <1>4 DEF Locked
  <2>2. pr[1] \in Groups /\ q \in Packages
    BY <1>2, <1>4 DEF RowInv, Typed, WorkerOK, PlanOK, Pairs
  <2> QED
    BY <2>1, <2>2 DEF Keeps
<1>5. pc[v] = "save" => plan[v].capacity = Nothing
  BY <1>1 DEF Locked
<1> QED
  BY <1>1, <1>3, <1>4, <1>5 DEF Locked

LEMMA SameRows ==
    ASSUME OneListed, UNCHANGED rows
    PROVE  /\ OneListed'
           /\ \A g \in Groups, p \in Packages : Unlisted(g, p) => Unlisted(g, p)'
BY DEF OneListed, Unlisted, ListsAt

\* What the end of a request releases was its own.
LEMMA FinishKeeps ==
    ASSUME Typed, NEW w \in Workers, Finish(w)
    PROVE  Keeps(w) /\ Locked(w)'
<1>1. pc'[w] = "idle"
  BY DEF Finish, Goto, Typed, MemoryOK
<1> QED
  BY <1>1, NoneAssumption DEF Keeps, Finish, Goto, Unlock, Typed, MemoryOK, Locked

LEMMA FailRows ==
    ASSUME Kinds \subseteq PackageKinds, RowInv, NEW w \in Workers, Typed', Fail(w)
    PROVE  RowInv'
BY FinishKeeps, SameRows, OthersLocked DEF Fail, tables, RowInv

LEMMA StartRows ==
    ASSUME Kinds \subseteq PackageKinds, RowInv, NEW w \in Workers, Typed', Start(w)
    PROVE  RowInv'
<1>1. PICK r : /\ IsRequest(r)
              /\ req' = [req EXCEPT ![w] = r]
              /\ pc' = [pc EXCEPT ![w] = FirstStep(r)]
  BY DEF Start, Begin, Goto, IsRequest
<1>2. UNCHANGED <<rows, lock, plan>>
  BY DEF Start, Begin, memory, tables
<1>3. Keeps(w)
  BY <1>1, <1>2 DEF Keeps, RowInv, Typed, MemoryOK
<1>4. r.kind \in PackageKinds /\ req'[w] = r /\ pc'[w] = FirstStep(r)
  BY <1>1, RequestFacts DEF RequestOK, RowInv, Typed, MemoryOK
<1>5. FirstStep(r) # "save" /\ (FirstStep(r) = "read" => r.kind = "owner_org")
  <2>1. CASE r.kind = "owner_org"
    BY <2>1 DEF FirstStep
  <2>2. CASE r.kind # "owner_org"
    <3>1. r.kind \in {"package_create", "package_update", "package_delete"}
      BY <1>4, <2>2 DEF PackageKinds
    <3>2. FirstStep(r) = "lock"
      BY <3>1 DEF FirstStep
    <3> QED
      BY <3>2
  <2> QED
    BY <2>1, <2>2
<1>6. Locked(w)'
  BY <1>4, <1>5 DEF Locked
<1> QED
  BY <1>2, <1>3, <1>6, SameRows, OthersLocked DEF RowInv

LEMMA LockPackageRows ==
    ASSUME Kinds \subseteq PackageKinds, RowInv, NEW w \in Workers, Typed', LockPackage(w)
    PROVE  RowInv'
<1> DEFINE p == req[w].pkg
<1>1. pc[w] = "lock" /\ lock[p] = None
  BY DEF LockPackage
<1>2. p \in Packages
  BY <1>1, RequestFacts DEF RowInv, Typed, WorkerOK, RequestOK
<1>3. CASE Finish(w) /\ UNCHANGED rows
  BY <1>3, FinishKeeps, SameRows, OthersLocked DEF RowInv
<1>4. CASE /\ lock' = [lock EXCEPT ![p] = w] /\ pc' = [pc EXCEPT ![w] = "read"]
           /\ UNCHANGED <<rows, req, plan>>
  <2>1. pc'[w] = "read" /\ lock'[req'[w].pkg] = w
    BY <1>2, <1>4 DEF RowInv, Typed, MemoryOK
  <2>2. Locked(w)'
    BY <2>1 DEF Locked
  <2>3. Keeps(w)
    BY <1>1, <1>4, NoneAssumption DEF Keeps, RowInv, Typed, MemoryOK
  <2> QED
    BY <1>4, <2>2, <2>3, SameRows, OthersLocked DEF RowInv
<1> QED
  BY <1>3, <1>4 DEF LockPackage, Goto, tables, memory

\* A row is inserted for the groups in which the dataset has none.
Inserts(pl, p) ==
    /\ pl.capacity = Nothing
    /\ \A pr \in DOMAIN pl.add : pr[2] = p /\ Unlisted(pr[1], p)

LEMMA ListUnlisted ==
    ASSUME NEW p \in Packages, NEW groups \in SUBSET Groups, NEW readable,
           NEW pl \in ListPlans(p, groups, readable)
    PROVE  Inserts(pl, p)
<1> DEFINE listed == {g \in groups : Exists(g)}
           known == {g \in Groups : Listed(g, p) # {}}
           wrong(g, s) == (rows[<<g, p>>][s].state = "active") # (g \in listed)
<1>1. PICK pick \in {f \in [known -> Slots] : \A g \in known : f[g] \in Listed(g, p)} :
        pl = Changes([id \in {x \in (known \cap readable) \X {p} \X Slots :
                                 x[3] = pick[x[1]] /\ wrong(x[1], x[3])} |->
                         IF id[1] \in listed THEN "active" ELSE "deleted"],
                      [pr \in ((listed \cap readable) \ known) \X {p} |-> "public"])
  BY DEF ListPlans
<1> HIDE DEF wrong
<1>2. /\ pl.capacity = Nothing
      /\ pl.add = [pr \in ((listed \cap readable) \ known) \X {p} |-> "public"]
  BY <1>1 DEF Changes
<1>3. ASSUME NEW pr \in DOMAIN pl.add
      PROVE  pr[2] = p /\ Unlisted(pr[1], p)
  <2>1. pr[2] = p /\ pr[1] \in Groups /\ Listed(pr[1], p) = {}
    BY <1>2
  <2> QED
    BY <2>1, ListsAtFacts DEF Unlisted
<1> QED
  BY <1>2, <1>3 DEF Inserts

LEMMA ReadPackageRows ==
    ASSUME Kinds \subseteq PackageKinds, RowInv, NEW w \in Workers, Typed', ReadPackage(w)
    PROVE  RowInv'
<1> SUFFICES ASSUME NEW p, p = req[w].pkg PROVE RowInv'
  OBVIOUS
<1>1. /\ pc[w] = "read" /\ RequestOK(req[w])
      /\ req[w].kind \in {"package_create", "package_update", "owner_org"}
  BY RequestFacts DEF ReadPackage, RowInv, Typed, WorkerOK
<1>2. p \in Packages
  BY <1>1 DEF RequestOK
<1>3. CASE Fail(w)
  BY <1>3, FailRows
<1>4. CASE ~ Fail(w)
  <2>1. PICK pl, c : /\ Plan(w, pl, c, "save")
                     /\ \/ pl = NoChanges
                        \/ /\ pl \in ListPlans(p, req[w].groups, req[w].readable)
                           /\ req[w].kind # "owner_org"
    BY <1>4 DEF ReadPackage
  <2>2. /\ pc'[w] = "save" /\ plan'[w] = pl /\ UNCHANGED <<rows, req, lock>>
    BY <2>1 DEF Plan, Goto, RowInv, Typed, MemoryOK, tables
  <2>3. /\ pl.capacity = Nothing
        /\ \A pr \in DOMAIN pl.add : pr[2] = p /\ lock[p] = w /\ Unlisted(pr[1], p)
    <3>1. CASE pl = NoChanges
      BY <3>1 DEF NoChanges, Changes, Nothing
    <3>2. CASE /\ pl \in ListPlans(p, req[w].groups, req[w].readable)
               /\ req[w].kind # "owner_org"
      <4>1. req[w].groups \in SUBSET Groups
        BY <1>1, <3>2 DEF RequestOK
      <4>2. lock[p] = w
        BY <1>1, <3>2 DEF RowInv, Locked
      <4>3. Inserts(pl, p)
        BY <1>2, <3>2, <4>1, ListUnlisted
      <4> QED
        BY <4>2, <4>3 DEF Inserts
    <3> QED
      BY <2>1, <3>1, <3>2
  <2>4. Locked(w)'
    BY <2>2, <2>3 DEF Locked, Unlisted, ListsAt
  <2>5. Keeps(w)
    BY <2>1 DEF Plan, Goto, Keeps, RowInv, Typed, MemoryOK
  <2> QED
    BY <2>2, <2>4, <2>5, SameRows, OthersLocked DEF RowInv
<1> QED
  BY <1>3, <1>4

LEMMA SaveMemberRows ==
    ASSUME Kinds \subseteq PackageKinds, RowInv, NEW w \in Workers, Typed', SaveMember(w)
    PROVE  RowInv'
<1>1. PICK id \in left[w] : CommitChanges(SavePlan(w, id), cols[w])
  BY DEF SaveMember
<1>2. /\ pc[w] = "save" /\ plan' = [plan EXCEPT ![w] = NoChanges] /\ Unlock(w)
      /\ UNCHANGED <<pc, req>>
  BY DEF SaveMember
<1>3. /\ plan[w].capacity = Nothing
      /\ \A pr \in DOMAIN plan[w].add :
           /\ pr[2] = req[w].pkg /\ lock[req[w].pkg] = w /\ Unlisted(pr[1], req[w].pkg)
  BY <1>2 DEF RowInv, Locked
<1>4. SavePlan(w, id).capacity = Nothing /\ SavePlan(w, id).add = plan[w].add
  BY <1>3 DEF SavePlan, Changes
<1>5. /\ OneListed'
      /\ \A v \in Workers \ {w}, g \in Groups, p \in Packages :
           lock[p] = v /\ Unlisted(g, p) => Unlisted(g, p)'
  BY <1>1, <1>3, <1>4, LockedCommit
<1>6. pc'[w] = "save" /\ plan'[w] = NoChanges
  BY <1>2 DEF RowInv, Typed, MemoryOK
<1>7. Locked(w)'
  BY <1>6 DEF Locked, NoChanges, Changes, Nothing
<1>8. Keeps(w)
  BY <1>2, NoneAssumption DEF Keeps, Unlock, RowInv, Typed, MemoryOK
<1> QED
  BY <1>5, <1>7, <1>8, OthersLocked

LEMMA AddMemberRows ==
    ASSUME Kinds \subseteq PackageKinds, RowInv, NEW w \in Workers, Typed', AddMember(w)
    PROVE  RowInv'
<1>1. pc[w] = "save" /\ CommitChanges(AddPlan(w), cols[w]) /\ Finish(w)
  BY DEF AddMember
<1>2. \A pr \in DOMAIN plan[w].add :
        pr[2] = req[w].pkg /\ lock[req[w].pkg] = w /\ Unlisted(pr[1], req[w].pkg)
  BY <1>1 DEF RowInv, Locked
<1>3. /\ AddPlan(w).capacity = Nothing
      /\ \A pr \in DOMAIN AddPlan(w).add :
           AddPlan(w).add[pr] # "organization" => pr \in DOMAIN plan[w].add
  BY DEF AddPlan, Changes
<1>4. /\ OneListed'
      /\ \A v \in Workers \ {w}, g \in Groups, p \in Packages :
           lock[p] = v /\ Unlisted(g, p) => Unlisted(g, p)'
  BY <1>1, <1>2, <1>3, LockedCommit
<1> QED
  BY <1>1, <1>4, FinishKeeps, OthersLocked DEF RowInv

LEMMA InitRows == Init => RowInv
<1> SUFFICES ASSUME Init PROVE RowInv
  OBVIOUS
<1>1. OneListed
  BY DEF Init, OneListed, ListsAt, Pairs, Objects
<1>2. \A w \in Workers : Locked(w)
  BY DEF Init, Locked
<1> QED
  BY <1>1, <1>2, InitTyped DEF RowInv

LEMMA NextRows ==
    ASSUME Kinds \subseteq PackageKinds, RowInv, [Next]_vars
    PROVE  RowInv'
<1>1. Typed'
  BY NextTyped DEF RowInv
<1>2. CASE UNCHANGED vars
  BY <1>1, <1>2 DEF vars, RowInv, OneListed, ListsAt, Locked, Unlisted
<1>3. ASSUME NEW w \in Workers
      PROVE  ~ (ReadMember(w) \/ ReadGroup(w) \/ Write(w) \/ ListPackages(w)
                  \/ DeletePackage(w) \/ Purge(w))
  <2>1. pc[w] # "idle" => req[w].kind \in PackageKinds /\ KindAt(pc[w], req[w].kind)
    BY RequestFacts DEF RowInv, Typed, WorkerOK, RequestOK
  <2>2. pc[w] \notin {"admin", "write", "list", "delete", "purge"}
    BY <2>1 DEF KindAt, PackageKinds, MemberKinds, GroupKinds
  <2>3. pc[w] = "read" => req[w].kind \notin MemberKinds \cup GroupKinds
    BY <2>1 DEF PackageKinds, MemberKinds, GroupKinds
  <2> QED
    BY <2>2, <2>3 DEF ReadMember, ReadGroup, Write, ListPackages, DeletePackage, Purge
<1> QED
  BY <1>1, <1>2, <1>3, FailRows, StartRows, LockPackageRows, ReadPackageRows, SaveMemberRows,
     AddMemberRows
  DEF Next, Step, Abort, FlushFails

\* However many workers create, update and delete datasets at the same time, and
\* whenever they are killed, a dataset never gets a second row of a group: the
\* one that inserts a row has held the lock of the dataset since it looked.
THEOREM UpdatesKeepOneRow ==
    ASSUME Kinds \subseteq PackageKinds
    PROVE  Spec => []OneRowPerGroup
<1>1. RowInv => OneRowPerGroup
  BY OneListedFacts DEF RowInv
<1>2. RowInv /\ [Next]_vars => RowInv'
  BY NextRows
<1> QED
  BY <1>1, <1>2, InitRows, PTL DEF Spec

-----------------------------------------------------------------------------
(***************************************************************************)
(* The organization that the member table gives a dataset is the one of its *)
(* package row, for any datasets, users and groups, when the requests run   *)
(* one after the other and none is killed.                                 *)
(*                                                                         *)
(* package_owner_org_update writes the column with the first of its commits *)
(* and the rows with all of them, so between two commits the two disagree.  *)
(* They agree again because a request that has committed once gets to its   *)
(* end: the rows it has still to mark are there, and so is the organization *)
(* of the row it is to insert (Ready).                                     *)
(***************************************************************************)

RowsFollow == \A p \in Packages, g \in Groups, s \in Slots : OwnsAt(g, p, s) => owner[p] = g

\* A flush of the request cannot fail.
Ready(w) ==
    /\ \A id \in left[w] : rows[<<id[1], id[2]>>][id[3]] # None
    /\ move[w].join # None => Exists(move[w].join)

\* Between two commits of package_owner_org_update: the rows of other datasets follow
\* their columns; those of its own do until it has committed once, and then its column
\* is the one to follow.
Halfway(w) ==
    LET p == req[w].pkg
        org == req[w].owner
    IN  /\ \A q \in Packages \ {p}, g \in Groups, s \in Slots : OwnsAt(g, q, s) => owner[q] = g
        /\ cols[w].owner = OwnerColumn(p, org)
        /\ cols[w].gstate = Nothing
        /\ Ready(w)
        /\ RowsFollow \/ (plan[w] = NoChanges /\ owner[p] = org)

ColumnInv ==
    /\ OwnerInv
    /\ Workers = {} => RowsFollow
    /\ \A w \in Workers :
         /\ pc[w] = "save" => Halfway(w)
         /\ pc[w] = "write" => cols[w].owner = Nothing
         /\ pc[w] # "save" => RowsFollow

LEMMA FollowKept == RowsFollow /\ UNCHANGED <<rows, owner>> => RowsFollow'
BY DEF RowsFollow, OwnsAt

\* A step after which nothing is half done.
LEMMA SettledStep ==
    ASSUME \A v, w \in Workers : v = w, NEW w \in Workers, OwnerInv', RowsFollow',
           pc'[w] \notin {"save", "write"}
    PROVE  ColumnInv'
BY DEF ColumnInv

LEMMA FinishIdle ==
    ASSUME Typed, NEW w \in Workers, Finish(w)
    PROVE  pc'[w] = "idle"
BY DEF Finish, Goto, Typed, MemoryOK

LEMMA PlanColumn ==
    ASSUME \A v, w \in Workers : v = w, ColumnInv, NEW w \in Workers, OwnerInv', pc[w] # "save",
           NEW pl, NEW c, c.owner = Nothing, Plan(w, pl, c, "write")
    PROVE  ColumnInv'
<1>1. pc'[w] = "write" /\ cols'[w] = c /\ UNCHANGED <<rows, owner>>
  BY DEF Plan, Goto, ColumnInv, OwnerInv, Typed, MemoryOK, tables
<1>2. RowsFollow'
  BY <1>1, FollowKept DEF ColumnInv
<1> QED
  BY <1>1, <1>2 DEF ColumnInv

LEMMA ReadMemberColumn ==
    ASSUME \A v, w \in Workers : v = w, ColumnInv, NEW w \in Workers, OwnerInv', ReadMember(w)
    PROVE  ColumnInv'
<1>1. pc[w] \in {"read", "admin"} /\ RowsFollow
  BY DEF ReadMember, ColumnInv
<1>2. CASE Fail(w)
  <2>1. pc'[w] = "idle" /\ RowsFollow'
    BY <1>1, <1>2, FinishIdle, FollowKept DEF Fail, tables, ColumnInv, OwnerInv
  <2> QED
    BY <2>1, SettledStep
<1>3. CASE \E pl : Plan(w, pl, NoColumns, "write")
  <2>1. NoColumns.owner = Nothing
    BY DEF NoColumns, Columns
  <2> QED
    BY <1>1, <1>3, <2>1, PlanColumn
<1> QED
  BY <1>2, <1>3 DEF ReadMember

LEMMA ReadGroupColumn ==
    ASSUME \A v, w \in Workers : v = w, ColumnInv, NEW w \in Workers, OwnerInv', ReadGroup(w)
    PROVE  ColumnInv'
<1>1. pc[w] = "read" /\ RowsFollow
  BY DEF ReadGroup, ColumnInv
<1>2. CASE Fail(w)
  <2>1. pc'[w] = "idle" /\ RowsFollow'
    BY <1>1, <1>2, FinishIdle, FollowKept DEF Fail, tables, ColumnInv, OwnerInv
  <2> QED
    BY <2>1, SettledStep
<1>3. CASE \E pl, gcol : Plan(w, pl, Columns(Nothing, Nothing, gcol), "write")
  <2>1. \A gcol : Columns(Nothing, Nothing, gcol).owner = Nothing
    BY DEF Columns
  <2> QED
    BY <1>1, <1>3, <2>1, PlanColumn
<1> QED
  BY <1>2, <1>3 DEF ReadGroup

\* The rows that were found are there, and the organization is.
LEMMA ReadPackageColumn ==
    ASSUME \A v, w \in Workers : v = w, ColumnInv, NEW w \in Workers, OwnerInv', ReadPackage(w)
    PROVE  ColumnInv'
<1> DEFINE p == req[w].pkg
           org == req[w].owner
           others == {id \in (Groups \ {org}) \X {p} \X Slots : id[3] \in Owning(id[1], p)}
<1>1. pc[w] = "read" /\ RowsFollow
  BY DEF ReadPackage, ColumnInv
<1>2. CASE Fail(w)
  <2>1. pc'[w] = "idle" /\ RowsFollow'
    BY <1>1, <1>2, FinishIdle, FollowKept DEF Fail, tables, ColumnInv, OwnerInv
  <2> QED
    BY <2>1, SettledStep
<1>3. CASE ~ Fail(w)
  <2>1. PICK pl, pcol : Plan(w, pl, Columns(OwnerColumn(p, org), pcol, Nothing), "save")
    BY <1>3 DEF ReadPackage
  <2>2. /\ move' = [move EXCEPT ![w] = Moving(p, org)] /\ left' = [left EXCEPT ![w] = others]
        /\ org = None \/ Exists(org)
    BY <1>3 DEF ReadPackage
  <2>3. /\ pc'[w] = "save" /\ move'[w] = Moving(p, org) /\ left'[w] = others
        /\ cols'[w] = Columns(OwnerColumn(p, org), pcol, Nothing)
        /\ UNCHANGED <<rows, owner, gstate, req>>
    BY <2>1, <2>2 DEF Plan, Goto, ColumnInv, OwnerInv, Typed, MemoryOK, tables
  <2>4. cols'[w].owner = OwnerColumn(p, org) /\ cols'[w].gstate = Nothing
    BY <2>3 DEF Columns
  <2>5. Ready(w)'
    <3>1. \A id \in others : rows[<<id[1], id[2]>>][id[3]] # None
      BY DEF Owning, Present
    <3>2. Moving(p, org).join # None => Exists(Moving(p, org).join)
      BY <2>2 DEF Moving
    <3> QED
      BY <2>3, <3>1, <3>2 DEF Ready, Exists
  <2>6. RowsFollow'
    BY <1>1, <2>3, FollowKept
  <2>7. Halfway(w)'
    BY <2>3, <2>4, <2>5, <2>6 DEF Halfway, RowsFollow, OwnerColumn
  <2> QED
    BY <2>3, <2>7 DEF ColumnInv
<1> QED
  BY <1>2, <1>3

-----------------------------------------------------------------------------
(***************************************************************************)
(* The commits of a move.                                                  *)
(***************************************************************************)

\* A row that is there stays there.
LEMMA RowsStay ==
    ASSUME TablesOK, NEW pl, NEW c, PlanOK(pl), CommitChanges(pl, c),
           NEW g \in Groups, NEW o \in Objects, NEW s \in Slots, rows[<<g, o>>][s] # None
    PROVE  rows'[<<g, o>>][s] # None
<1>1. rows'[<<g, o>>][s] = Updated(pl, g, o, s)
  BY FlushedRow DEF CommitChanges
<1>2. rows[<<g, o>>][s] \in Rows
  BY DEF TablesOK, Pairs
<1>3. Updated(pl, g, o, s) \in Rows
  BY <1>2 DEF Updated, Rows, PlanOK
<1> QED
  BY <1>1, <1>3, NoneAssumption

\* The first commit writes the column, the others leave it.
LEMMA ColumnCommit ==
    ASSUME TablesOK, NEW pl, NEW c, CommitChanges(pl, c), NEW p \in Packages,
           NEW org \in Orgs \cup {None}, c.owner = OwnerColumn(p, org)
    PROVE  owner'[p] = org /\ \A q \in Packages \ {p} : owner'[q] = owner[q]
<1>1. owner' = Overlay(c.owner, owner)
  BY DEF CommitChanges
<1>2. CASE owner[p] = org
  <2>1. c.owner = Nothing
    BY <1>2 DEF OwnerColumn
  <2> QED
    BY <1>1, <1>2, <2>1 DEF Overlay, Nothing, TablesOK
<1>3. CASE owner[p] # org
  <2>1. c.owner = Only(p, org)
    BY <1>3 DEF OwnerColumn
  <2> QED
    BY <1>1, <2>1 DEF Overlay, Only, TablesOK
<1> QED
  BY <1>2, <1>3

\* What is common to the commits of a move.
LEMMA HalfwayFacts ==
    ASSUME ColumnInv, NEW w \in Workers, pc[w] = "save"
    PROVE  /\ Halfway(w) /\ Calm(plan[w]) /\ Pending(w) /\ TablesOK /\ MemoryOK
           /\ req[w].pkg \in Packages /\ req[w].owner \in Orgs \cup {None}
           /\ \A id \in left[w] : id \in RowIds
           /\ move[w].join # None => move[w].join = req[w].owner /\ req[w].owner \in Groups
<1>1. RequestOK(req[w]) /\ req[w].kind \in {"package_create", "package_update", "owner_org"}
  BY RequestFacts DEF ColumnInv, OwnerInv, Typed, WorkerOK, KindAt
<1>2. req[w].pkg \in Packages /\ req[w].owner \in Orgs \cup {None}
  BY <1>1 DEF RequestOK, PackageKinds
<1> QED
  BY <1>2, SetsAssumption DEF ColumnInv, OwnerInv, Typed, WorkerOK

LEMMA SaveMemberColumn ==
    ASSUME \A v, w \in Workers : v = w, ColumnInv, NEW w \in Workers, OwnerInv', SaveMember(w)
    PROVE  ColumnInv'
<1> DEFINE p == req[w].pkg
           org == req[w].owner
<1>1. PICK id \in left[w] : /\ CommitChanges(SavePlan(w, id), cols[w])
                            /\ left' = [left EXCEPT ![w] = @ \ {id}]
  BY DEF SaveMember
<1>2. /\ pc[w] = "save" /\ plan' = [plan EXCEPT ![w] = NoChanges]
      /\ cols' = [cols EXCEPT ![w] = NoColumns]
      /\ UNCHANGED <<pc, req, move>>
  BY DEF SaveMember
<1>3. /\ Halfway(w) /\ Calm(plan[w]) /\ TablesOK
      /\ p \in Packages /\ org \in Orgs \cup {None}
      /\ \A x \in left[w] : x \in RowIds
      /\ plan'[w] = NoChanges /\ cols'[w] = NoColumns /\ left'[w] = left[w] \ {id}
  BY <1>1, <1>2, HalfwayFacts DEF MemoryOK
<1>4. Calm(SavePlan(w, id)) /\ PlanOK(SavePlan(w, id))
  <2>1. Calm(SavePlan(w, id))
    BY <1>3 DEF Calm, SavePlan, Changes, Nothing
  <2> QED
    BY <1>3, <2>1, SavePlanOK DEF ColumnInv, OwnerInv
<1>5. owner'[p] = org /\ \A q \in Packages \ {p} : owner'[q] = owner[q]
  BY <1>1, <1>3, ColumnCommit DEF Halfway
<1>6. ASSUME NEW q \in Packages \ {p}, NEW g \in Groups, NEW s \in Slots, OwnsAt(g, q, s)'
      PROVE  owner'[q] = g
  <2>1. OwnsAt(g, q, s)
    BY <1>1, <1>4, <1>6, CalmCommit
  <2> QED
    BY <1>3, <1>5, <2>1 DEF Halfway
<1>7. Ready(w)'
  <2>1. ASSUME NEW x \in left'[w] PROVE rows'[<<x[1], x[2]>>][x[3]] # None
    <3>1. /\ x[1] \in Groups /\ x[2] \in Objects /\ x[3] \in Slots
          /\ rows[<<x[1], x[2]>>][x[3]] # None
      BY <1>3 DEF RowIds, Halfway, Ready
    <3> QED
      BY <1>1, <1>3, <1>4, <3>1, RowsStay
  <2>2. gstate' = gstate
    BY <1>1, <1>3 DEF CommitChanges, Halfway, Overlay, Nothing, TablesOK
  <2> QED
    BY <1>2, <1>3, <2>1, <2>2 DEF Ready, Halfway, Exists
<1>8. OwnerColumn(p, org)' = Nothing /\ NoColumns.owner = Nothing /\ NoColumns.gstate = Nothing
  BY <1>2, <1>5 DEF OwnerColumn, NoColumns, Columns
<1>9. Halfway(w)'
  BY <1>2, <1>3, <1>5, <1>6, <1>7, <1>8 DEF Halfway
<1> QED
  BY <1>2, <1>9 DEF ColumnInv

\* When the last row is inserted, all rows of the dataset are of its new organization.
LEMMA AddMemberColumn ==
    ASSUME \A v, w \in Workers : v = w, ColumnInv, NEW w \in Workers, OwnerInv', AddMember(w)
    PROVE  ColumnInv'
<1> DEFINE p == req[w].pkg
           org == req[w].owner
           pl == AddPlan(w)
<1>1. pc[w] = "save" /\ left[w] = {} /\ CommitChanges(pl, cols[w]) /\ Finish(w)
  BY DEF AddMember
<1>2. /\ Halfway(w) /\ Calm(plan[w]) /\ Pending(w) /\ TablesOK
      /\ p \in Packages /\ org \in Orgs \cup {None}
      /\ move[w].join # None => move[w].join = org /\ org \in Groups
  BY <1>1, HalfwayFacts
<1>3. owner'[p] = org /\ \A q \in Packages \ {p} : owner'[q] = owner[q]
  BY <1>1, <1>2, ColumnCommit DEF Halfway
<1>4. /\ pl.state = plan[w].state /\ pl.capacity = Nothing
      /\ \A pr \in DOMAIN pl.add : pl.add[pr] = "organization" => pr = <<org, p>>
  BY <1>2 DEF AddPlan, Changes, Calm
<1>5. ASSUME NEW q \in Packages, NEW g \in Groups, NEW s \in Slots, OwnsAt(g, q, s)'
      PROVE  OwnsAt(g, q, s) \/ (q = p /\ g = org)
  <2> DEFINE r == rows[<<g, q>>][s]
             id == <<g, q, s>>
  <2>1. rows'[<<g, q>>][s] =
          IF r # None THEN Updated(pl, g, q, s)
          ELSE IF <<g, q>> \in DOMAIN pl.add /\ s = FreeSlot(g, q)
            THEN [capacity |-> pl.add[<<g, q>>], state |-> "active"]
            ELSE None
    BY <1>1, FlushedRow DEF CommitChanges, Objects
  <2>2. rows'[<<g, q>>][s] # None /\ rows'[<<g, q>>][s].capacity = "organization"
        /\ rows'[<<g, q>>][s].state = "active"
    BY <1>5 DEF OwnsAt
  <2>3. CASE r # None
    <3>1. /\ r.capacity = "organization"
          /\ (IF id \in DOMAIN plan[w].state THEN plan[w].state[id] ELSE r.state) = "active"
      BY <1>4, <2>1, <2>2, <2>3 DEF Updated, Nothing
    <3> QED
      BY <1>2, <2>3, <3>1 DEF Calm, OwnsAt
  <2>4. CASE r = None
    BY <1>4, <2>1, <2>2, <2>4
  <2> QED
    BY <2>3, <2>4
<1>6. RowsFollow'
  <2>1. ASSUME NEW q \in Packages, NEW g \in Groups, NEW s \in Slots, OwnsAt(g, q, s)'
        PROVE  owner'[q] = g
    <3>1. CASE q = p
      BY <1>1, <1>2, <1>3, <1>5, <2>1, <3>1 DEF Pending
    <3>2. CASE q # p
      BY <1>2, <1>3, <1>5, <2>1, <3>2 DEF Halfway
    <3> QED
      BY <3>1, <3>2
  <2> QED
    BY <2>1 DEF RowsFollow
<1>7. pc'[w] = "idle"
  BY <1>1, FinishIdle DEF ColumnInv, OwnerInv
<1> QED
  BY <1>6, <1>7, SettledStep

\* A flush fails before the first commit of a move, or not at all.
LEMMA FlushFailsColumn ==
    ASSUME \A v, w \in Workers : v = w, ColumnInv, NEW w \in Workers, OwnerInv', FlushFails(w)
    PROVE  ColumnInv'
<1>1. RowsFollow
  <2>1. CASE pc[w] # "save"
    BY <2>1 DEF ColumnInv
  <2>2. CASE pc[w] = "save" /\ ~ RowsFollow
    <3>1. /\ Halfway(w) /\ plan[w] = NoChanges /\ cols[w].gstate = Nothing
          /\ \A id \in left[w] : id \in RowIds
      BY <2>2, HalfwayFacts DEF Halfway
    <3>2. Fits(AddPlan(w), cols[w])
      <4>1. /\ DOMAIN AddPlan(w).state = {} /\ AddPlan(w).capacity = Nothing
            /\ \A pr \in DOMAIN AddPlan(w).add : move[w].join # None /\ pr[1] = move[w].join
        BY <3>1 DEF AddPlan, Changes, NoChanges, Nothing
      <4> QED
        BY <3>1, <4>1 DEF Fits, Halfway, Ready, Nothing
    <3>3. ASSUME NEW id \in left[w] PROVE Fits(SavePlan(w, id), cols[w])
      <4>1. /\ DOMAIN SavePlan(w, id).state \subseteq {id} /\ SavePlan(w, id).capacity = Nothing
            /\ SavePlan(w, id).add = Nothing
        BY <3>1 DEF SavePlan, Changes, NoChanges, Nothing
      <4> QED
        BY <3>1, <3>3, <4>1 DEF Fits, Halfway, Ready, Nothing
    <3> QED
      BY <2>2, <3>2, <3>3 DEF FlushFails
  <2> QED
    BY <2>1, <2>2
<1>2. pc'[w] = "idle" /\ RowsFollow'
  BY <1>1, FinishIdle, FollowKept DEF FlushFails, Fail, tables, ColumnInv, OwnerInv
<1> QED
  BY <1>2, SettledStep

-----------------------------------------------------------------------------
LEMMA InitColumn == Init => ColumnInv
<1>1. Init => RowsFollow
  BY DEF Init, RowsFollow, OwnsAt, Pairs, Objects
<1> QED
  BY <1>1, InitOwner DEF ColumnInv, Init

LEMMA NextColumn ==
    ASSUME \A v, w \in Workers : v = w, ~ Faults, ColumnInv, [Next]_vars
    PROVE  ColumnInv'
<1>1. OwnerInv'
  BY NextOwner DEF ColumnInv
<1>2. CASE UNCHANGED vars
  BY <1>1, <1>2 DEF vars, ColumnInv, RowsFollow, Halfway, Ready, Exists, OwnerColumn, OwnsAt
<1>3. ASSUME NEW w \in Workers, pc[w] # "save", UNCHANGED <<rows, owner>>,
             pc'[w] \notin {"write", "save"}
      PROVE  ColumnInv'
  <2>1. RowsFollow'
    BY <1>3, FollowKept DEF ColumnInv
  <2> QED
    BY <1>1, <1>3, <2>1, SettledStep
<1>4. ASSUME NEW w \in Workers, Start(w) PROVE ColumnInv'
  BY <1>3, <1>4 DEF Start, Begin, Goto, FirstStep, tables, ColumnInv, OwnerInv, Typed, MemoryOK
<1>5. ASSUME NEW w \in Workers, LockPackage(w) PROVE ColumnInv'
  BY <1>3, <1>5 DEF LockPackage, Finish, Goto, tables, ColumnInv, OwnerInv, Typed, MemoryOK
<1>6. ASSUME NEW w \in Workers, ListPackages(w) PROVE ColumnInv'
  BY <1>3, <1>6 DEF ListPackages, Fail, Finish, Goto, tables, ColumnInv, OwnerInv, Typed,
     MemoryOK
<1>7. ASSUME NEW w \in Workers, DeletePackage(w) PROVE ColumnInv'
  BY <1>3, <1>7 DEF DeletePackage, Goto, ColumnInv, OwnerInv, Typed, MemoryOK
<1>8. ASSUME NEW w \in Workers, Write(w) PROVE ColumnInv'
  <2>1. /\ pc[w] = "write" /\ Calm(plan[w]) /\ cols[w].owner = Nothing /\ RowsFollow
        /\ CommitChanges(plan[w], cols[w]) /\ TablesOK
    BY <1>8 DEF Write, ColumnInv, OwnerInv, Typed
  <2>2. owner' = owner
    BY <2>1 DEF CommitChanges, Overlay, Nothing, TablesOK
  <2>3. RowsFollow'
    BY <2>1, <2>2, CalmCommit DEF RowsFollow
  <2>4. pc'[w] \in {"idle", "admin", "purge"}
    BY <1>8 DEF Write, Finish, Goto, ColumnInv, OwnerInv, Typed, MemoryOK
  <2> QED
    BY <1>1, <2>3, <2>4, SettledStep
<1>9. ASSUME NEW w \in Workers, Purge(w) PROVE ColumnInv'
  <2>1. RowsFollow /\ owner' = owner
    BY <1>9 DEF Purge, ColumnInv, tables
  <2>2. \A g \in Groups, p \in Packages, s \in Slots : OwnsAt(g, p, s)' => OwnsAt(g, p, s)
    BY <1>9 DEF Purge, OwnsAt, Pairs, Objects, tables
  <2>3. RowsFollow'
    BY <2>1, <2>2 DEF RowsFollow
  <2>4. pc'[w] = "idle"
    BY <1>9, FinishIdle DEF Purge, ColumnInv, OwnerInv
  <2> QED
    BY <1>1, <2>3, <2>4, SettledStep
<1>10. ASSUME NEW w \in Workers PROVE ~ Abort(w)
  BY DEF Abort
<1> QED
  BY <1>1, <1>2, <1>4, <1>5, <1>6, <1>7, <1>8, <1>9, <1>10, ReadMemberColumn, ReadPackageColumn,
     SaveMemberColumn, AddMemberColumn, ReadGroupColumn, FlushFailsColumn
  DEF Next, Step

\* Requests that run one after the other and are not killed leave each dataset without
\* a row of an organization that is not the owner_org of its package row: Membership,
\* OrganizationIsOwner.
THEOREM SequentialOrganizationIsOwner ==
    ASSUME \A v, w \in Workers : v = w, ~ Faults
    PROVE  Spec => []OrganizationIsOwner
<1>1. ColumnInv => OrganizationIsOwner
  <2> SUFFICES ASSUME ColumnInv, Quiet, NEW p \in Packages, NEW g \in Groups, OwnedBy(g, p)
               PROVE  owner[p] = g
    BY DEF OrganizationIsOwner
  <2>1. PICK s \in Slots : OwnsAt(g, p, s)
    BY OwnsAtFacts DEF OwnedBy, Active, Present
  <2>2. RowsFollow
    BY DEF ColumnInv, Quiet
  <2> QED
    BY <2>1, <2>2 DEF RowsFollow
<1>2. ColumnInv /\ [Next]_vars => ColumnInv'
  BY NextColumn
<1> QED
  BY <1>1, <1>2, InitColumn, PTL DEF Spec

-----------------------------------------------------------------------------
(***************************************************************************)
(* The groups of a dataset are those of the last update.                   *)
(*                                                                         *)
(* What an update computed under the lock of the dataset still holds when   *)
(* it commits, for nobody else writes the rows of its groups; and there is  *)
(* a slot for each row that a request under way may insert.                 *)
(***************************************************************************)
OwnerRow(g, p, s) ==
    rows[<<g, p>>][s] # None /\ rows[<<g, p>>][s].capacity = "organization"

\* Plan pl leaves p in group g if and only if it is to be in it.
Planned(pl, g, p, member) ==
    /\ \A s \in Slots : ListsAt(g, p, s) =>
         ((IF <<g, p, s>> \in DOMAIN pl.state THEN pl.state[<<g, p, s>>]
           ELSE rows[<<g, p>>][s].state) = "active" <=> member)
    /\ Unlisted(g, p) => (<<g, p>> \in DOMAIN pl.add <=> member)

\* What a worker that is to commit has planned.
Listing(w) ==
    LET p == req[w].pkg
    IN  pc[w] = "save" =>
          /\ cols[w].gstate = Nothing
          /\ \A pr \in DOMAIN plan[w].add : pr[1] \notin Orgs /\ plan[w].add[pr] = "public"
          /\ \A id \in left[w] : id[2] = p /\ OwnerRow(id[1], p, id[3])
          /\ \A id \in DOMAIN plan[w].state : id[2] = p /\ lock[p] = w
          /\ DOMAIN cols[w].pstate # {} =>
               /\ req[w].kind # "owner_org" /\ lock[p] = w
               /\ \A g \in req[w].readable :
                    Exists(g) => Planned(plan[w], g, p, g \in req[w].groups)

\* Worker w may still insert a row of p in g.
Inserting(w, g, p) ==
    \/ pc[w] \in {"lock", "read"} /\ req[w].kind # "package_delete" /\ req[w].pkg = p
    \/ pc[w] = "save" /\ (<<g, p>> \in DOMAIN plan[w].add \/ (move[w].join = g /\ req[w].pkg = p))

Waiting(g, p) == {w \in Workers : Inserting(w, g, p)}
Bare(g, p) == {s \in Slots : rows[<<g, p>>][s] = None}
RoomLeft == \A g \in Groups, p \in Packages : Cardinality(Waiting(g, p)) =< Cardinality(Bare(g, p))

ListInv == RowInv /\ RoomLeft /\ \A w \in Workers : Listing(w)

-----------------------------------------------------------------------------
(***************************************************************************)
(* Slots.                                                                  *)
(***************************************************************************)
LEMMA BareFinite ==
    ASSUME NEW g, NEW p
    PROVE  /\ IsFiniteSet(Waiting(g, p)) /\ Cardinality(Waiting(g, p)) \in Nat
           /\ IsFiniteSet(Bare(g, p)) /\ Cardinality(Bare(g, p)) \in Nat
<1>1. Waiting(g, p) \subseteq Workers /\ Bare(g, p) \subseteq Slots
  BY DEF Waiting, Bare
<1> QED BY <1>1, SlotsAssumption, FS_Subset, FS_CardinalityType

\* Who may insert a row finds a slot for it.
LEMMA SlotThere ==
    ASSUME RoomLeft, NEW w \in Workers, NEW g \in Groups, NEW p \in Packages, Inserting(w, g, p)
    PROVE  FreeSlot(g, p) \in Slots /\ rows[<<g, p>>][FreeSlot(g, p)] = None
<1>1. Waiting(g, p) # {} /\ Cardinality(Waiting(g, p)) =< Cardinality(Bare(g, p))
  BY DEF RoomLeft, Waiting
<1>2. Cardinality(Bare(g, p)) # 0
  BY <1>1, BareFinite, FS_EmptySet
<1>3. Bare(g, p) # {}
  BY <1>2, FS_EmptySet
<1> QED BY <1>3 DEF FreeSlot, Bare

LEMMA RoomStays ==
    ASSUME RoomLeft, UNCHANGED rows,
           \A v \in Workers, g \in Groups, p \in Packages : Inserting(v, g, p)' => Inserting(v, g, p)
    PROVE  RoomLeft'
<1> SUFFICES ASSUME NEW g \in Groups, NEW p \in Packages
             PROVE  Cardinality(Waiting(g, p)') =< Cardinality(Bare(g, p)')
  BY DEF RoomLeft
<1>1. Bare(g, p)' = Bare(g, p)
  BY DEF Bare
<1>2. Waiting(g, p)' \in SUBSET Waiting(g, p)
  BY DEF Waiting
<1>3. Cardinality(Waiting(g, p)') =< Cardinality(Waiting(g, p)) /\ Cardinality(Waiting(g, p)') \in Nat
  BY <1>2, BareFinite, FS_Subset, FS_CardinalityType
<1>4. Cardinality(Waiting(g, p)) =< Cardinality(Bare(g, p))
  BY DEF RoomLeft
<1> QED BY <1>1, <1>3, <1>4, BareFinite

\* A commit takes one slot for each row it inserts.
LEMMA RoomAfterCommit ==
    ASSUME RoomLeft, NEW w \in Workers, NEW pl, NEW c, CommitChanges(pl, c),
           \A v \in Workers, g \in Groups, p \in Packages : Inserting(v, g, p)' => Inserting(v, g, p),
           \A g \in Groups, p \in Packages :
             <<g, p>> \in DOMAIN pl.add => Inserting(w, g, p) /\ ~ Inserting(w, g, p)'
    PROVE  RoomLeft'
<1> SUFFICES ASSUME NEW g \in Groups, NEW p \in Packages
             PROVE  Cardinality(Waiting(g, p)') =< Cardinality(Bare(g, p)')
  BY DEF RoomLeft
<1> DEFINE W == Waiting(g, p)
           V == Waiting(g, p)'
           B == Bare(g, p)
           C == Bare(g, p)'
           s == FreeSlot(g, p)
<1>1. /\ IsFiniteSet(W) /\ Cardinality(W) \in Nat /\ IsFiniteSet(B) /\ Cardinality(B) \in Nat
      /\ Cardinality(W) =< Cardinality(B)
  BY BareFinite DEF RoomLeft
<1>2. V \subseteq W
  BY DEF Waiting
<1>3. C \subseteq Slots
  BY DEF Bare
<1>4. IsFiniteSet(C) /\ Cardinality(C) \in Nat
  BY <1>3, SlotsAssumption, FS_Subset, FS_CardinalityType
<1>5. \A t \in B : t \in C \/ (<<g, p>> \in DOMAIN pl.add /\ t = s)
  BY FlushedRow DEF CommitChanges, Bare, Objects
<1>6. CASE <<g, p>> \notin DOMAIN pl.add
  <2>1. B \in SUBSET C
    BY <1>5, <1>6
  <2>2. Cardinality(B) =< Cardinality(C)
    BY <1>4, <2>1, FS_Subset
  <2>3. Cardinality(V) =< Cardinality(W) /\ Cardinality(V) \in Nat
    BY <1>1, <1>2, FS_Subset, FS_CardinalityType
  <2> QED BY <1>1, <1>4, <2>2, <2>3
<1>7. CASE <<g, p>> \in DOMAIN pl.add
  <2>1. B \ {s} \in SUBSET C
    BY <1>5
  <2>2. s \in B
    BY <1>7, SlotThere DEF Bare
  <2>3. w \in W /\ w \notin V
    BY <1>7 DEF Waiting
  <2>4. V \in SUBSET (W \ {w})
    BY <1>2, <2>3
  <2>5. IsFiniteSet(W \ {w}) /\ Cardinality(W \ {w}) = Cardinality(W) - 1
    BY <1>1, <2>3, FS_RemoveElement
  <2>6. Cardinality(B \ {s}) = Cardinality(B) - 1
    BY <1>1, <2>2, FS_RemoveElement
  <2>7. Cardinality(V) =< Cardinality(W) - 1 /\ Cardinality(V) \in Nat
    BY <2>4, <2>5, FS_Subset, FS_CardinalityType
  <2>8. Cardinality(B) - 1 =< Cardinality(C)
    BY <1>4, <2>1, <2>6, FS_Subset
  <2> QED BY <1>1, <1>4, <2>7, <2>8
<1> QED BY <1>6, <1>7

-----------------------------------------------------------------------------
(***************************************************************************)
(* Rows after a commit.                                                    *)
(***************************************************************************)
LEMMA RowAfter ==
    ASSUME NEW pl, NEW c, pl.capacity = Nothing, CommitChanges(pl, c),
           NEW g \in Groups, NEW p \in Packages, NEW s \in Slots, rows[<<g, p>>][s] # None
    PROVE  rows'[<<g, p>>][s] =
             [capacity |-> rows[<<g, p>>][s].capacity,
              state |-> IF <<g, p, s>> \in DOMAIN pl.state THEN pl.state[<<g, p, s>>]
                        ELSE rows[<<g, p>>][s].state]
<1>1. \A id : id \notin DOMAIN pl.capacity
  BY DEF Nothing
<1>2. rows'[<<g, p>>][s] = Updated(pl, g, p, s)
  BY FlushedRow DEF CommitChanges, Objects
<1> QED BY <1>1, <1>2 DEF Updated

\* Rows stay, with their capacity.
LEMMA CapacityStays ==
    ASSUME TablesOK, NEW pl, NEW c, PlanOK(pl), pl.capacity = Nothing, CommitChanges(pl, c),
           NEW g \in Groups, NEW p \in Packages, NEW s \in Slots, rows[<<g, p>>][s] # None
    PROVE  /\ rows'[<<g, p>>][s] # None
           /\ rows'[<<g, p>>][s].capacity = rows[<<g, p>>][s].capacity
           /\ rows'[<<g, p>>][s].state =
                IF <<g, p, s>> \in DOMAIN pl.state THEN pl.state[<<g, p, s>>]
                ELSE rows[<<g, p>>][s].state
           /\ ListsAt(g, p, s) => ListsAt(g, p, s)'
           /\ OwnerRow(g, p, s) => OwnerRow(g, p, s)'
<1>1. rows'[<<g, p>>][s] # None
  BY RowsStay DEF Objects
<1> DEFINE state == IF <<g, p, s>> \in DOMAIN pl.state THEN pl.state[<<g, p, s>>]
                    ELSE rows[<<g, p>>][s].state
<1>5. rows'[<<g, p>>][s] = [capacity |-> rows[<<g, p>>][s].capacity, state |-> state]
  BY RowAfter
<1> HIDE DEF state
<1>2. /\ rows'[<<g, p>>][s].capacity = rows[<<g, p>>][s].capacity
      /\ rows'[<<g, p>>][s].state = state
  BY <1>5
<1>3. ListsAt(g, p, s) => ListsAt(g, p, s)'
  BY <1>1, <1>2 DEF ListsAt
<1>4. OwnerRow(g, p, s) => OwnerRow(g, p, s)'
  BY <1>1, <1>2 DEF OwnerRow
<1> QED BY <1>1, <1>2, <1>3, <1>4 DEF state

\* A plan that leaves the rows of a dataset in its groups as they are.
Avoids(pl, g, p) ==
    /\ \A s \in Slots : ListsAt(g, p, s) => <<g, p, s>> \notin DOMAIN pl.state
    /\ <<g, p>> \in DOMAIN pl.add => pl.add[<<g, p>>] = "organization"

LEMMA AvoidedStay ==
    ASSUME TablesOK, NEW pl, NEW c, PlanOK(pl), pl.capacity = Nothing, CommitChanges(pl, c),
           NEW g \in Groups, NEW p \in Packages, Avoids(pl, g, p)
    PROVE  /\ \A s \in Slots : ListsAt(g, p, s)' <=> ListsAt(g, p, s)
           /\ \A s \in Slots : ListsAt(g, p, s) => rows'[<<g, p>>][s].state = rows[<<g, p>>][s].state
<1>1. ASSUME NEW s \in Slots, ListsAt(g, p, s)' PROVE ListsAt(g, p, s)
  BY <1>1, ListedCommit DEF Avoids
<1>2. ASSUME NEW s \in Slots, ListsAt(g, p, s)
      PROVE  ListsAt(g, p, s)' /\ rows'[<<g, p>>][s].state = rows[<<g, p>>][s].state
  <2>1. rows[<<g, p>>][s] # None /\ <<g, p, s>> \notin DOMAIN pl.state
    BY <1>2 DEF ListsAt, Avoids
  <2> QED BY <1>2, <2>1, CapacityStays
<1> QED BY <1>1, <1>2

-----------------------------------------------------------------------------
(***************************************************************************)
(* The steps.                                                              *)
(***************************************************************************)
LEMMA SaveFacts ==
    ASSUME Typed, NEW w \in Workers, pc[w] = "save"
    PROVE  /\ req[w].pkg \in Packages
           /\ req[w].kind \in {"package_create", "package_update", "owner_org"}
           /\ req[w].kind # "owner_org" =>
                req[w].groups \subseteq Groups \ Orgs /\ req[w].readable \subseteq Groups
           /\ \A id \in left[w] : id \in Groups \X Objects \X Slots
           /\ \A id \in DOMAIN plan[w].state : id \in Groups \X Objects \X Slots
           /\ \A pr \in DOMAIN plan[w].add : pr \in Groups \X Objects
           /\ move[w].join # None => move[w].join \in Orgs
<1>1. RequestOK(req[w]) /\ req[w].kind \in {"package_create", "package_update", "owner_org"}
  BY RequestFacts DEF Typed, WorkerOK, KindAt
<1>2. /\ req[w].pkg \in Packages
      /\ req[w].kind # "owner_org" =>
           req[w].groups \subseteq Groups \ Orgs /\ req[w].readable \subseteq Groups
  BY <1>1 DEF RequestOK, PackageKinds
<1>3. /\ \A id \in left[w] : id \in RowIds
      /\ \A id \in DOMAIN plan[w].state : id \in RowIds
      /\ \A pr \in DOMAIN plan[w].add : pr \in Pairs
      /\ move[w].join # None => move[w].join \in Orgs
  BY DEF Typed, WorkerOK, PlanOK
<1> QED BY <1>1, <1>2, <1>3 DEF RowIds, Pairs

\* What a step of w leaves the others.
Spares(w) ==
    /\ \A v \in Workers \ {w}, p \in Packages : lock[p] = v => lock'[p] = v
    /\ \A g \in Groups : Exists(g)' <=> Exists(g)
    /\ \A g \in Groups, p \in Packages, s \in Slots : OwnerRow(g, p, s) => OwnerRow(g, p, s)'
    /\ \A g \in Groups, p \in Packages : lock[p] \in Workers \ {w} =>
         \A s \in Slots :
           /\ ListsAt(g, p, s)' <=> ListsAt(g, p, s)
           /\ ListsAt(g, p, s) => rows'[<<g, p>>][s].state = rows[<<g, p>>][s].state

LEMMA OthersListing ==
    ASSUME ListInv, NEW w \in Workers, StepOf(w), Spares(w), RowInv', RoomLeft', Listing(w)'
    PROVE  ListInv'
<1> SUFFICES ASSUME NEW v \in Workers \ {w}, pc[v] = "save", NEW p, p = req[v].pkg
             PROVE  /\ cols[v].gstate = Nothing
                    /\ \A pr \in DOMAIN plan[v].add : pr[1] \notin Orgs /\ plan[v].add[pr] = "public"
                    /\ \A id \in left[v] : id[2] = p /\ OwnerRow(id[1], p, id[3])'
                    /\ \A id \in DOMAIN plan[v].state : id[2] = p /\ lock'[p] = v
                    /\ DOMAIN cols[v].pstate # {} =>
                         /\ req[v].kind # "owner_org" /\ lock'[p] = v
                         /\ \A g \in req[v].readable :
                              Exists(g)' => Planned(plan[v], g, p, g \in req[v].groups)'
  <2>1. \A v \in Workers \ {w} :
          /\ pc'[v] = pc[v] /\ req'[v] = req[v] /\ plan'[v] = plan[v]
          /\ cols'[v] = cols[v] /\ move'[v] = move[v] /\ left'[v] = left[v]
    BY DEF StepOf
  <2> QED BY <2>1 DEF ListInv, Listing, Planned
<1>1. /\ Listing(v) /\ p \in Packages
      /\ req[v].kind # "owner_org" => req[v].readable \subseteq Groups
      /\ \A id \in left[v] : id \in Groups \X Objects \X Slots
  BY SaveFacts DEF ListInv, RowInv
<1>2. /\ cols[v].gstate = Nothing
      /\ \A pr \in DOMAIN plan[v].add : pr[1] \notin Orgs /\ plan[v].add[pr] = "public"
      /\ \A id \in left[v] : id[2] = p /\ OwnerRow(id[1], p, id[3])
      /\ \A id \in DOMAIN plan[v].state : id[2] = p /\ lock[p] = v
      /\ DOMAIN cols[v].pstate # {} =>
           /\ req[v].kind # "owner_org" /\ lock[p] = v
           /\ \A g \in req[v].readable :
                Exists(g) => Planned(plan[v], g, p, g \in req[v].groups)
  BY <1>1 DEF Listing
<1>3. \A id \in left[v] : OwnerRow(id[1], p, id[3])'
  BY <1>1, <1>2 DEF Spares
<1>4. lock[p] = v => lock'[p] = v
  BY <1>1 DEF Spares
<1>5. ASSUME DOMAIN cols[v].pstate # {}, NEW g \in req[v].readable, Exists(g)'
      PROVE  Planned(plan[v], g, p, g \in req[v].groups)'
  <2>1. g \in Groups /\ Exists(g) /\ lock[p] = v
    BY <1>1, <1>2, <1>5 DEF Spares
  <2>2. Planned(plan[v], g, p, g \in req[v].groups)
    BY <1>2, <1>5, <2>1
  <2>3. \A s \in Slots :
          /\ ListsAt(g, p, s)' <=> ListsAt(g, p, s)
          /\ ListsAt(g, p, s) => rows'[<<g, p>>][s].state = rows[<<g, p>>][s].state
    BY <1>1, <2>1 DEF Spares
  <2>4. /\ plan'[v] = plan[v] /\ req'[v] = req[v]
        /\ Unlisted(g, p)' <=> Unlisted(g, p)
    BY <2>3 DEF StepOf, Unlisted
  <2> QED BY <2>2, <2>3, <2>4 DEF Planned
<1> QED BY <1>2, <1>3, <1>4, <1>5

\* A step that changes neither the rows nor the groups.
LEMMA SparesAll ==
    ASSUME NEW w \in Workers, UNCHANGED <<rows, gstate>>,
           \A v \in Workers \ {w}, p \in Packages : lock[p] = v => lock'[p] = v
    PROVE  Spares(w)
BY DEF Spares, Exists, OwnerRow, ListsAt

LEMMA FinishListing ==
    ASSUME ListInv, NEW w \in Workers, Finish(w)
    PROVE  /\ StepOf(w) /\ Listing(w)' /\ pc'[w] = "idle"
           /\ \A v \in Workers \ {w}, p \in Packages : lock[p] = v => lock'[p] = v
           /\ \A v \in Workers, g \in Groups, p \in Packages :
                Inserting(v, g, p)' => Inserting(v, g, p) /\ v # w
<1>1. StepOf(w) /\ Typed
  BY FinishOK DEF ListInv, RowInv
<1>2. pc'[w] = "idle"
  BY <1>1 DEF Finish, Goto, Typed, MemoryOK
<1>3. Listing(w)'
  BY <1>2 DEF Listing
<1>4. \A v \in Workers \ {w}, p \in Packages : lock[p] = v => lock'[p] = v
  BY FinishKeeps, <1>1 DEF Keeps
<1>5. ASSUME NEW v \in Workers, NEW g \in Groups, NEW p \in Packages, Inserting(v, g, p)'
      PROVE  Inserting(v, g, p) /\ v # w
  <2>1. v # w
    BY <1>2, <1>5 DEF Inserting
  <2>2. pc'[v] = pc[v] /\ req'[v] = req[v] /\ plan'[v] = plan[v] /\ move'[v] = move[v]
    BY <1>1, <2>1 DEF StepOf
  <2> QED BY <1>5, <2>1, <2>2 DEF Inserting
<1> QED BY <1>1, <1>2, <1>3, <1>4, <1>5

LEMMA FailListing ==
    ASSUME ListInv, RowInv', NEW w \in Workers, Fail(w)
    PROVE  ListInv'
<1>1. Finish(w) /\ UNCHANGED <<rows, gstate>>
  BY DEF Fail, tables
<1>2. RoomLeft'
  BY <1>1, FinishListing, RoomStays DEF ListInv
<1> QED BY <1>1, <1>2, FinishListing, SparesAll, OthersListing

LEMMA StartListing ==
    ASSUME Kinds \subseteq PackageKinds, ListInv, RowInv', NEW w \in Workers, Start(w)
    PROVE  ListInv'
<1>1. PICK r : IsRequest(r) /\ Begin(w, r)
  BY DEF Start, IsRequest
<1>2. /\ pc[w] = "idle" /\ Room(r) /\ IsRequest(r) /\ Typed
      /\ req' = [req EXCEPT ![w] = r] /\ pc' = [pc EXCEPT ![w] = FirstStep(r)]
      /\ UNCHANGED <<rows, gstate, lock, plan, cols, move, left>>
  BY <1>1 DEF Begin, Goto, tables, memory, ListInv, RowInv
<1>3. StepOf(w) /\ pc'[w] = FirstStep(r) /\ req'[w] = r
  BY <1>2 DEF Typed, MemoryOK, StepOf
<1>4. FirstStep(r) # "save"
  BY DEF FirstStep
<1>5. Listing(w)'
  BY <1>3, <1>4 DEF Listing
<1>6. Spares(w)
  BY <1>2, SparesAll
<1>7. RoomLeft'
  <2> SUFFICES ASSUME NEW g \in Groups, NEW p \in Packages
               PROVE  Cardinality(Waiting(g, p)') =< Cardinality(Bare(g, p)')
    BY DEF RoomLeft
  <2> DEFINE busy == {v \in Workers : pc[v] # "idle"}
  <2>1. Bare(g, p)' = Bare(g, p) /\ Cardinality(Waiting(g, p)) =< Cardinality(Bare(g, p))
    BY <1>2 DEF Bare, ListInv, RoomLeft
  <2>2. \A v \in Workers \ {w} : Inserting(v, g, p)' <=> Inserting(v, g, p)
    BY <1>3 DEF StepOf, Inserting
  <2>3. CASE ~ Inserting(w, g, p)'
    <3>1. Waiting(g, p)' \in SUBSET Waiting(g, p)
      BY <2>2, <2>3 DEF Waiting
    <3>2. Cardinality(Waiting(g, p)') =< Cardinality(Waiting(g, p)) /\ Cardinality(Waiting(g, p)') \in Nat
      BY <3>1, BareFinite, FS_Subset, FS_CardinalityType
    <3> QED BY <2>1, <3>2, BareFinite
  <2>4. CASE Inserting(w, g, p)'
    <3>1. r.kind \in PackageKinds \ {"package_delete"} /\ r.pkg = p
      BY <1>2, <1>3, <1>4, <2>4, RequestFacts DEF Inserting, RequestOK
    <3>2. r.kind \in {"package_create", "package_update", "owner_org"}
      BY <3>1 DEF PackageKinds
    <3>3. <<g, p>> \in Groups \X {r.pkg}
      BY <3>1
    <3>4. Cardinality(Slots \ Present(g, p)) > Cardinality(busy)
      BY <1>2, <3>2, <3>3 DEF Room
    <3>5. Slots \ Present(g, p) = Bare(g, p)
      BY DEF Present, Bare
    <3>6. Waiting(g, p)' \in SUBSET (busy \cup {w})
      BY <2>2 DEF Waiting, Inserting
    <3>7. IsFiniteSet(busy) /\ Cardinality(busy) \in Nat
      BY SlotsAssumption, FS_Subset, FS_CardinalityType
    <3>8. IsFiniteSet(busy \cup {w}) /\ Cardinality(busy \cup {w}) = Cardinality(busy) + 1
      BY <1>2, <3>7, FS_AddElement
    <3>9. Cardinality(Waiting(g, p)') =< Cardinality(busy) + 1 /\ Cardinality(Waiting(g, p)') \in Nat
      BY <3>6, <3>8, FS_Subset, FS_CardinalityType
    <3> QED BY <2>1, <3>4, <3>5, <3>7, <3>9, BareFinite
  <2> QED BY <2>3, <2>4
<1> QED BY <1>3, <1>5, <1>6, <1>7, OthersListing

LEMMA LockPackageListing ==
    ASSUME Kinds \subseteq PackageKinds, ListInv, RowInv', NEW w \in Workers, LockPackage(w)
    PROVE  ListInv'
<1> DEFINE p == req[w].pkg
<1>1. pc[w] = "lock" /\ lock[p] = None /\ Typed
  BY DEF LockPackage, ListInv, RowInv
<1>2. CASE Finish(w) /\ UNCHANGED <<rows, gstate>>
  <2>1. RoomLeft'
    BY <1>2, FinishListing, RoomStays DEF ListInv
  <2> QED BY <1>2, <2>1, FinishListing, SparesAll, OthersListing
<1>3. CASE /\ lock' = [lock EXCEPT ![p] = w] /\ pc' = [pc EXCEPT ![w] = "read"]
           /\ req[w].kind # "package_delete"
           /\ UNCHANGED <<rows, gstate, req, plan, cols, move, left>>
  <2>1. StepOf(w) /\ pc'[w] = "read"
    BY <1>1, <1>3 DEF Typed, MemoryOK, StepOf
  <2>2. Listing(w)'
    BY <2>1 DEF Listing
  <2>3. \A v \in Workers \ {w}, q \in Packages : lock[q] = v => lock'[q] = v
    BY <1>1, <1>3, NoneAssumption DEF Typed
  <2>4. Spares(w)
    BY <1>3, <2>3, SparesAll
  <2>5. ASSUME NEW v \in Workers, NEW g \in Groups, NEW q \in Packages, Inserting(v, g, q)'
        PROVE  Inserting(v, g, q)
    <3>1. CASE v = w
      BY <1>1, <1>3, <2>1, <2>5, <3>1 DEF Inserting
    <3>2. CASE v # w
      BY <2>1, <2>5, <3>2 DEF Inserting, StepOf
    <3> QED BY <3>1, <3>2
  <2>6. RoomLeft'
    BY <1>3, <2>5, RoomStays DEF ListInv
  <2> QED BY <2>1, <2>2, <2>4, <2>6, OthersListing
<1> QED BY <1>2, <1>3 DEF LockPackage, Goto, tables, memory

\* package_membership_list_save plans what it was asked for.
LEMMA ListPlanned ==
    ASSUME OneListed, NEW p \in Packages, NEW groups \in SUBSET (Groups \ Orgs),
           NEW readable \in SUBSET Groups, NEW pl \in ListPlans(p, groups, readable)
    PROVE  /\ \A pr \in DOMAIN pl.add : pr[1] \notin Orgs /\ pl.add[pr] = "public"
           /\ \A id \in DOMAIN pl.state : id[2] = p
           /\ \A g \in readable : Exists(g) => Planned(pl, g, p, g \in groups)
<1> DEFINE listed == {g \in groups : Exists(g)}
           known == {g \in Groups : Listed(g, p) # {}}
           wrong(g, s) == (rows[<<g, p>>][s].state = "active") # (g \in listed)
<1>1. PICK pick \in {f \in [known -> Slots] : \A g \in known : f[g] \in Listed(g, p)} :
        pl = Changes([id \in {x \in (known \cap readable) \X {p} \X Slots :
                                 x[3] = pick[x[1]] /\ wrong(x[1], x[3])} |->
                         IF id[1] \in listed THEN "active" ELSE "deleted"],
                      [pr \in ((listed \cap readable) \ known) \X {p} |-> "public"])
  BY DEF ListPlans
<1>2. \A g \in Groups, s \in Slots : wrong(g, s) <=> ~ (rows[<<g, p>>][s].state = "active" <=> g \in listed)
  OBVIOUS
<1> HIDE DEF wrong
<1>3. /\ pl.add = [pr \in ((listed \cap readable) \ known) \X {p} |-> "public"]
      /\ pl.state = [id \in {x \in (known \cap readable) \X {p} \X Slots :
                                 x[3] = pick[x[1]] /\ wrong(x[1], x[3])} |->
                         IF id[1] \in listed THEN "active" ELSE "deleted"]
  BY <1>1 DEF Changes
<1>4. ASSUME NEW g \in readable, Exists(g), NEW s \in Slots, ListsAt(g, p, s)
      PROVE  (IF <<g, p, s>> \in DOMAIN pl.state THEN pl.state[<<g, p, s>>]
              ELSE rows[<<g, p>>][s].state) = "active" <=> g \in groups
  <2>1. s \in Listed(g, p) /\ g \in known /\ g \in Groups
    BY <1>4, ListsAtFacts
  <2>2. pick[g] \in Listed(g, p) /\ pick[g] \in Slots /\ ListsAt(g, p, pick[g])
    BY <1>1, <2>1, ListsAtFacts
  <2>3. pick[g] = s
    BY <1>4, <2>1, <2>2 DEF OneListed
  <2>4. g \in listed <=> g \in groups
    BY <1>4
  <2>5. <<g, p, s>> \in DOMAIN pl.state <=> wrong(g, s)
    BY <1>3, <1>4, <2>1, <2>3
  <2>6. CASE wrong(g, s)
    <3>1. pl.state[<<g, p, s>>] = IF g \in listed THEN "active" ELSE "deleted"
      BY <1>3, <2>5, <2>6
    <3> HIDE DEF listed
    <3> QED BY <2>4, <2>5, <2>6, <3>1
  <2>7. CASE ~ wrong(g, s)
    BY <1>2, <2>1, <2>4, <2>5, <2>7
  <2> QED BY <2>6, <2>7
<1>5. ASSUME NEW g \in readable, Exists(g), Unlisted(g, p)
      PROVE  <<g, p>> \in DOMAIN pl.add <=> g \in groups
  <2>1. g \notin known
    BY <1>5, ListsAtFacts DEF Unlisted
  <2> QED BY <1>3, <1>5, <2>1
<1>6. \A pr \in DOMAIN pl.add : pr[1] \notin Orgs /\ pl.add[pr] = "public"
  BY <1>3
<1>7. \A id \in DOMAIN pl.state : id[2] = p
  BY <1>3
<1> QED BY <1>4, <1>5, <1>6, <1>7 DEF Planned

LEMMA ReadPackageListing ==
    ASSUME Kinds \subseteq PackageKinds, ListInv, RowInv', NEW w \in Workers, ReadPackage(w)
    PROVE  ListInv'
<1> SUFFICES ASSUME NEW p, p = req[w].pkg, NEW org, org = req[w].owner, ~ Fail(w) PROVE ListInv'
  BY FailListing
<1>1. /\ pc[w] = "read" /\ Typed /\ RequestOK(req[w])
      /\ req[w].kind \in {"package_create", "package_update", "owner_org"}
  BY RequestFacts DEF ReadPackage, ListInv, RowInv, Typed, WorkerOK
<1>2. /\ p \in Packages
      /\ req[w].kind # "owner_org" =>
           req[w].groups \in SUBSET (Groups \ Orgs) /\ req[w].readable \in SUBSET Groups
  BY <1>1 DEF RequestOK, PackageKinds
<1> DEFINE others == {id \in (Groups \ {org}) \X {p} \X Slots : id[3] \in Owning(id[1], p)}
<1>3. PICK pl, c : /\ Plan(w, pl, c, "save") /\ c.gstate = Nothing
                   /\ move' = [move EXCEPT ![w] = Moving(p, org)]
                   /\ left' = [left EXCEPT ![w] = others]
                   /\ \/ pl = NoChanges /\ c.pstate = Nothing
                      \/ /\ pl \in ListPlans(p, req[w].groups, req[w].readable)
                         /\ req[w].kind # "owner_org"
  BY DEF ReadPackage, Columns
<1>4. /\ StepOf(w) /\ pc'[w] = "save" /\ plan'[w] = pl /\ cols'[w] = c
      /\ left'[w] = others /\ move'[w] = Moving(p, org)
      /\ UNCHANGED <<rows, gstate, lock, req>>
  BY <1>1, <1>3 DEF Plan, Goto, Typed, MemoryOK, StepOf, tables
<1>5. \A id \in others : id[2] = p /\ OwnerRow(id[1], p, id[3])
  BY <1>2 DEF Owning, Listed, Present, OwnerRow
<1>6. /\ \A pr \in DOMAIN pl.add : pr[1] \notin Orgs /\ pl.add[pr] = "public"
      /\ \A id \in DOMAIN pl.state : id[2] = p /\ lock[p] = w
      /\ DOMAIN c.pstate # {} =>
           /\ req[w].kind # "owner_org" /\ lock[p] = w
           /\ \A g \in req[w].readable :
                Exists(g) => Planned(pl, g, p, g \in req[w].groups)
  <2>1. CASE pl = NoChanges /\ c.pstate = Nothing
    BY <2>1 DEF NoChanges, Changes, Nothing
  <2>2. CASE pl \in ListPlans(p, req[w].groups, req[w].readable) /\ req[w].kind # "owner_org"
    <3>1. lock[p] = w /\ OneListed
      BY <1>1, <2>2 DEF ListInv, RowInv, Locked
    <3>2. /\ \A pr \in DOMAIN pl.add : pr[1] \notin Orgs /\ pl.add[pr] = "public"
          /\ \A id \in DOMAIN pl.state : id[2] = p
          /\ \A g \in req[w].readable : Exists(g) => Planned(pl, g, p, g \in req[w].groups)
      BY <1>2, <2>2, <3>1, ListPlanned
    <3> QED BY <2>2, <3>1, <3>2
  <2> QED BY <1>3, <2>1, <2>2
<1> HIDE DEF others
<1>7. Listing(w)'
  <2>1. /\ \A id \in others : OwnerRow(id[1], p, id[3])'
        /\ \A g \in req[w].readable : Exists(g)' => Exists(g)
        /\ \A g \in req[w].readable, m \in BOOLEAN : Planned(pl, g, p, m)' <=> Planned(pl, g, p, m)
    BY <1>4, <1>5 DEF OwnerRow, Exists, Planned, ListsAt, Unlisted
  <2> QED BY <1>3, <1>4, <1>5, <1>6, <2>1 DEF Listing, Planned, Exists, ListsAt, Unlisted
<1>8. \A v \in Workers \ {w}, q \in Packages : lock[q] = v => lock'[q] = v
  BY <1>4
<1>9. ASSUME NEW v \in Workers, NEW g \in Groups, NEW q \in Packages, Inserting(v, g, q)'
      PROVE  Inserting(v, g, q)
  <2>1. CASE v # w
    BY <1>4, <1>9, <2>1 DEF Inserting, StepOf
  <2>2. CASE v = w
    <3>1. <<g, q>> \in DOMAIN pl.add \/ p = q
      BY <1>4, <1>9, <2>2 DEF Inserting
    <3>2. <<g, q>> \in DOMAIN pl.add => q = p
      <4>1. \A pr \in DOMAIN plan'[w].add : pr[2] = req'[w].pkg
        BY <1>4 DEF RowInv, Locked
      <4> QED BY <1>4, <4>1
    <3> QED BY <1>1, <2>2, <3>1, <3>2 DEF Inserting
  <2> QED BY <2>1, <2>2
<1>10. RoomLeft'
  BY <1>4, <1>9, RoomStays DEF ListInv
<1> QED BY <1>4, <1>7, <1>8, <1>10, SparesAll, OthersListing

\* What a commit of package_owner_org_update adds to the plan of its request: a row of
\* another organization, or one of its own.
Extends(w, pl) ==
    /\ pl.capacity = Nothing
    /\ \A id \in DOMAIN plan[w].state :
         id \in DOMAIN pl.state /\ (id \notin left[w] => pl.state[id] = plan[w].state[id])
    /\ \A id \in DOMAIN pl.state : id \in DOMAIN plan[w].state \/ id \in left[w]
    /\ \A pr \in DOMAIN plan[w].add :
         pr \in DOMAIN pl.add /\ (pr[1] \notin Orgs => pl.add[pr] = plan[w].add[pr])
    /\ \A pr \in DOMAIN pl.add :
         \/ pr \in DOMAIN plan[w].add
         \/ pl.add[pr] = "organization" /\ pr = <<move[w].join, req[w].pkg>> /\ pr[1] \in Orgs

LEMMA SaveExtends ==
    ASSUME ListInv, NEW w \in Workers, pc[w] = "save", NEW id \in left[w]
    PROVE  /\ PlanOK(SavePlan(w, id)) /\ Extends(w, SavePlan(w, id))
           /\ SavePlan(w, id).add = plan[w].add
<1>1. id \in RowIds /\ plan[w].capacity = Nothing /\ Typed
  BY DEF ListInv, RowInv, Typed, WorkerOK, Locked
<1>2. PlanOK(SavePlan(w, id))
  BY <1>1, SavePlanOK
<1>3. CASE id \in move[w].marked
  <2>1. SavePlan(w, id) = plan[w]
    BY <1>3 DEF SavePlan
  <2> QED BY <1>1, <1>2, <2>1 DEF Extends
<1>4. CASE id \notin move[w].marked
  <2> DEFINE old == plan[w].state
  <2>1. SavePlan(w, id) =
          Changes([x \in DOMAIN old \cup {id} |-> IF x = id THEN "deleted" ELSE old[x]], plan[w].add)
    BY <1>4 DEF SavePlan
  <2>2. /\ SavePlan(w, id).capacity = Nothing /\ SavePlan(w, id).add = plan[w].add
        /\ SavePlan(w, id).state = [x \in DOMAIN old \cup {id} |-> IF x = id THEN "deleted" ELSE old[x]]
    BY <2>1 DEF Changes
  <2> QED BY <1>2, <2>2 DEF Extends
<1> QED BY <1>3, <1>4

LEMMA AddExtends ==
    ASSUME ListInv, NEW w \in Workers, pc[w] = "save"
    PROVE  PlanOK(AddPlan(w)) /\ Extends(w, AddPlan(w))
<1>1. Typed
  BY DEF ListInv, RowInv
<1>2. PlanOK(AddPlan(w))
  BY <1>1, AddPlanOK
<1> DEFINE old == plan[w].add
           new == IF move[w].join = None THEN {} ELSE {<<move[w].join, req[w].pkg>>}
<1>3. /\ AddPlan(w).state = plan[w].state /\ AddPlan(w).capacity = Nothing
      /\ AddPlan(w).add = [pr \in DOMAIN old \cup new |-> IF pr \in new THEN "organization" ELSE old[pr]]
  BY DEF AddPlan, Changes
<1>4. \A pr \in new : pr = <<move[w].join, req[w].pkg>> /\ pr[1] \in Orgs
  BY <1>1, SaveFacts
<1> HIDE DEF new
<1> QED BY <1>2, <1>3, <1>4 DEF Extends

\* A commit leaves the rows of the datasets alone whose lock its worker does not hold.
LEMMA CommitSpares ==
    ASSUME ListInv, NEW w \in Workers, pc[w] = "save", NEW pl, PlanOK(pl), Extends(w, pl),
           CommitChanges(pl, cols[w]),
           \A v \in Workers \ {w}, p \in Packages : lock[p] = v => lock'[p] = v
    PROVE  Spares(w)
<1>1. /\ Typed /\ TablesOK /\ Listing(w) /\ Locked(w) /\ pl.capacity = Nothing
  BY DEF ListInv, RowInv, Typed, Extends
<1>2. \A g \in Groups : Exists(g)' <=> Exists(g)
  BY <1>1 DEF CommitChanges, Overlay, Listing, Nothing, Exists, TablesOK
<1>3. ASSUME NEW g \in Groups, NEW p \in Packages, NEW s \in Slots, OwnerRow(g, p, s)
      PROVE  OwnerRow(g, p, s)'
  BY <1>1, <1>3, CapacityStays DEF OwnerRow
<1>4. ASSUME NEW g \in Groups, NEW p \in Packages, lock[p] # w
      PROVE  Avoids(pl, g, p)
  <2>1. ASSUME NEW s \in Slots, ListsAt(g, p, s), <<g, p, s>> \in DOMAIN pl.state
        PROVE  FALSE
    <3>1. CASE <<g, p, s>> \in DOMAIN plan[w].state
      BY <1>1, <1>4, <3>1 DEF Listing
    <3>2. CASE <<g, p, s>> \in left[w]
      <4>1. OwnerRow(g, p, s)
        BY <1>1, <3>2 DEF Listing
      <4> QED BY <2>1, <4>1 DEF OwnerRow, ListsAt
    <3> QED BY <2>1, <3>1, <3>2 DEF Extends
  <2>2. ASSUME <<g, p>> \in DOMAIN pl.add PROVE pl.add[<<g, p>>] = "organization"
    <3>1. <<g, p>> \notin DOMAIN plan[w].add
      BY <1>1, <1>4 DEF Locked
    <3> QED BY <2>2, <3>1 DEF Extends
  <2> QED BY <2>1, <2>2 DEF Avoids
<1>5. ASSUME NEW g \in Groups, NEW p \in Packages, lock[p] \in Workers \ {w}, NEW s \in Slots
      PROVE  /\ ListsAt(g, p, s)' <=> ListsAt(g, p, s)
             /\ ListsAt(g, p, s) => rows'[<<g, p>>][s].state = rows[<<g, p>>][s].state
  BY <1>1, <1>4, <1>5, AvoidedStay
<1> QED BY <1>2, <1>3, <1>5 DEF Spares

LEMMA SaveMemberListing ==
    ASSUME Kinds \subseteq PackageKinds, ListInv, RowInv', NEW w \in Workers, SaveMember(w)
    PROVE  ListInv'
<1>1. PICK id \in left[w] : /\ CommitChanges(SavePlan(w, id), cols[w])
                            /\ left' = [left EXCEPT ![w] = @ \ {id}]
  BY DEF SaveMember
<1>2. /\ pc[w] = "save" /\ plan' = [plan EXCEPT ![w] = NoChanges]
      /\ cols' = [cols EXCEPT ![w] = NoColumns] /\ Unlock(w) /\ UNCHANGED <<pc, req, move>> /\ Typed
  BY DEF SaveMember, ListInv, RowInv
<1>3. /\ StepOf(w) /\ plan'[w] = NoChanges /\ cols'[w] = NoColumns
      /\ left'[w] = left[w] \ {id} /\ pc'[w] = "save"
  BY <1>1, <1>2 DEF Typed, MemoryOK, StepOf
<1>4. \A v \in Workers \ {w}, p \in Packages : lock[p] = v => lock'[p] = v
  BY <1>2, NoneAssumption DEF Unlock, Typed
<1>5. /\ PlanOK(SavePlan(w, id)) /\ Extends(w, SavePlan(w, id)) /\ SavePlan(w, id).add = plan[w].add
  BY <1>2, SaveExtends
<1>6. Spares(w)
  BY <1>1, <1>2, <1>4, <1>5, CommitSpares
<1>7. Listing(w) /\ Locked(w) /\ req[w].pkg \in Packages
      /\ \A x \in left[w] : x \in Groups \X Objects \X Slots
  BY <1>2, SaveFacts DEF ListInv, RowInv
<1>8. Listing(w)'
  <2>1. \A x \in left'[w] : x[2] = req[w].pkg /\ OwnerRow(x[1], req[w].pkg, x[3])'
    BY <1>2, <1>3, <1>6, <1>7 DEF Listing, Spares
  <2>2. /\ cols'[w].gstate = Nothing /\ cols'[w].pstate = Nothing
        /\ plan'[w].add = Nothing /\ plan'[w].state = Nothing
    BY <1>3 DEF NoColumns, Columns, NoChanges, Changes
  <2>3. req'[w].pkg = req[w].pkg
    BY <1>2
  <2> QED BY <2>1, <2>2, <2>3 DEF Listing, Nothing
<1>9. ASSUME NEW v \in Workers, NEW g \in Groups, NEW p \in Packages, Inserting(v, g, p)'
      PROVE  Inserting(v, g, p) /\ (v = w => <<g, p>> \notin DOMAIN plan[w].add)
  <2>1. CASE v # w
    BY <1>3, <1>9, <2>1 DEF Inserting, StepOf
  <2>2. CASE v = w
    <3>1. move[w].join = g /\ req[w].pkg = p
      BY <1>2, <1>3, <1>9, <2>2 DEF Inserting, NoChanges, Changes, Nothing
    <3>2. g \in Orgs
      BY <1>2, <3>1, SaveFacts, NoneAssumption
    <3> QED BY <1>2, <1>7, <2>2, <3>1, <3>2 DEF Inserting, Listing
  <2> QED BY <2>1, <2>2
<1>10. \A g \in Groups, p \in Packages : <<g, p>> \in DOMAIN plan[w].add => Inserting(w, g, p)
  BY <1>2 DEF Inserting
<1>11. RoomLeft'
  BY <1>1, <1>5, <1>9, <1>10, RoomAfterCommit DEF ListInv
<1> QED BY <1>3, <1>6, <1>8, <1>11, OthersListing

LEMMA AddMemberListing ==
    ASSUME Kinds \subseteq PackageKinds, ListInv, RowInv', NEW w \in Workers, AddMember(w)
    PROVE  ListInv'
<1>1. pc[w] = "save" /\ CommitChanges(AddPlan(w), cols[w]) /\ Finish(w)
  BY DEF AddMember
<1>2. PlanOK(AddPlan(w)) /\ Extends(w, AddPlan(w))
  BY <1>1, AddExtends
<1>3. Spares(w)
  BY <1>1, <1>2, FinishListing, CommitSpares
<1>4. \A g \in Groups, p \in Packages : <<g, p>> \in DOMAIN AddPlan(w).add => Inserting(w, g, p)
  BY <1>1, <1>2 DEF Inserting, Extends
<1>5. \A g \in Groups, p \in Packages : ~ Inserting(w, g, p)'
  BY <1>1, FinishListing
<1>6. RoomLeft'
  BY <1>1, <1>4, <1>5, FinishListing, RoomAfterCommit DEF ListInv
<1> QED BY <1>1, <1>3, <1>6, FinishListing, OthersListing

LEMMA InitListing == Init => ListInv
<1> SUFFICES ASSUME Init PROVE ListInv
  OBVIOUS
<1>1. \A w \in Workers : Listing(w)
  BY DEF Init, Listing
<1>2. RoomLeft
  <2> SUFFICES ASSUME NEW g \in Groups, NEW p \in Packages
               PROVE  Cardinality(Waiting(g, p)) =< Cardinality(Bare(g, p))
    BY DEF RoomLeft
  <2>1. Waiting(g, p) = {}
    BY DEF Init, Waiting, Inserting
  <2> QED BY <2>1, BareFinite, FS_EmptySet
<1> QED BY <1>1, <1>2, InitRows DEF ListInv

LEMMA NextListing ==
    ASSUME Kinds \subseteq PackageKinds, ListInv, [Next]_vars
    PROVE  ListInv'
<1>1. RowInv'
  BY NextRows DEF ListInv
<1>2. CASE UNCHANGED vars
  <2>1. \A v \in Workers, g \in Groups, p \in Packages : Inserting(v, g, p)' => Inserting(v, g, p)
    BY <1>2 DEF vars, Inserting
  <2>2. RoomLeft'
    BY <1>2, <2>1, RoomStays DEF vars, ListInv
  <2>3. \A w \in Workers : Listing(w)'
    BY <1>2 DEF vars, ListInv, Listing, OwnerRow, Planned, Exists, ListsAt, Unlisted
  <2> QED BY <1>1, <2>2, <2>3 DEF ListInv
<1>3. ASSUME NEW w \in Workers
      PROVE  ~ (ReadMember(w) \/ ReadGroup(w) \/ Write(w) \/ ListPackages(w)
                  \/ DeletePackage(w) \/ Purge(w))
  <2>1. pc[w] # "idle" => req[w].kind \in PackageKinds /\ KindAt(pc[w], req[w].kind)
    BY RequestFacts DEF ListInv, RowInv, Typed, WorkerOK, RequestOK
  <2>2. pc[w] \notin {"admin", "write", "list", "delete", "purge"}
    BY <2>1 DEF KindAt, PackageKinds, MemberKinds, GroupKinds
  <2>3. pc[w] = "read" => req[w].kind \notin MemberKinds \cup GroupKinds
    BY <2>1 DEF PackageKinds, MemberKinds, GroupKinds
  <2> QED
    BY <2>2, <2>3 DEF ReadMember, ReadGroup, Write, ListPackages, DeletePackage, Purge
<1> QED
  BY <1>1, <1>2, <1>3, FailListing, StartListing, LockPackageListing, ReadPackageListing,
     SaveMemberListing, AddMemberListing
  DEF Next, Step, Abort, FlushFails

\* The first commit of an update leaves the dataset in the groups it was given.
LEMMA GroupsCommitted ==
    ASSUME ListInv, RowInv', NEW w \in Workers, SaveMember(w) \/ AddMember(w),
           DOMAIN cols[w].pstate # {}, NEW p \in {req[w].pkg}, NEW g \in req[w].readable, Exists(g)
    PROVE  InGroup(g, p)' <=> g \in req[w].groups
<1>1. pc[w] = "save" /\ Typed /\ TablesOK /\ Listing(w) /\ Locked(w)
  BY DEF SaveMember, AddMember, ListInv, RowInv, Typed
<1>2. PICK pl : PlanOK(pl) /\ Extends(w, pl) /\ CommitChanges(pl, cols[w])
  BY <1>1, SaveExtends, AddExtends DEF SaveMember, AddMember
<1>3. /\ p \in Packages /\ g \in Groups /\ Planned(plan[w], g, p, g \in req[w].groups)
      /\ req[w].groups \subseteq Groups \ Orgs /\ pl.capacity = Nothing
  BY <1>1, <1>2, SaveFacts DEF Listing, Extends
<1>4. InGroup(g, p)' <=> \E s \in Slots : ListsAt(g, p, s)' /\ rows'[<<g, p>>][s].state = "active"
  BY DEF InGroup, Active, Listed, Present, ListsAt
<1>5. CASE \E s \in Slots : ListsAt(g, p, s)
  <2>1. PICK s \in Slots : ListsAt(g, p, s)
    BY <1>5
  <2>2. <<g, p, s>> \notin left[w]
    <3>1. ~ OwnerRow(g, p, s)
      BY <2>1 DEF OwnerRow, ListsAt
    <3> QED BY <1>1, <3>1 DEF Listing
  <2>3. /\ ListsAt(g, p, s)'
        /\ rows'[<<g, p>>][s].state =
             IF <<g, p, s>> \in DOMAIN pl.state THEN pl.state[<<g, p, s>>]
             ELSE rows[<<g, p>>][s].state
    BY <1>1, <1>2, <1>3, <2>1, CapacityStays DEF ListsAt
  <2>4. rows'[<<g, p>>][s].state = "active" <=> g \in req[w].groups
    <3>1. (IF <<g, p, s>> \in DOMAIN plan[w].state THEN plan[w].state[<<g, p, s>>]
           ELSE rows[<<g, p>>][s].state) = "active" <=> g \in req[w].groups
      BY <1>3, <2>1 DEF Planned
    <3>2. CASE <<g, p, s>> \in DOMAIN plan[w].state
      BY <1>2, <2>2, <2>3, <3>1, <3>2 DEF Extends
    <3>3. CASE <<g, p, s>> \notin DOMAIN plan[w].state
      BY <1>2, <2>2, <2>3, <3>1, <3>3 DEF Extends
    <3> QED BY <3>2, <3>3
  <2>5. \A t \in Slots : ListsAt(g, p, t)' => t = s
    BY <1>3, <2>3 DEF RowInv, OneListed
  <2> QED BY <1>4, <2>3, <2>4, <2>5
<1>6. CASE Unlisted(g, p)
  <2>1. <<g, p>> \in DOMAIN plan[w].add <=> g \in req[w].groups
    BY <1>3, <1>6 DEF Planned
  <2>2. CASE g \in req[w].groups
    <3>1. <<g, p>> \in DOMAIN pl.add /\ pl.add[<<g, p>>] = "public"
      BY <1>1, <1>2, <1>3, <2>1, <2>2 DEF Extends, Listing
    <3>2. Inserting(w, g, p)
      BY <1>1, <2>1, <2>2 DEF Inserting
    <3>3. PICK f \in Slots : f = FreeSlot(g, p) /\ rows[<<g, p>>][f] = None
      BY <1>3, <3>2, SlotThere DEF ListInv
    <3>4. rows'[<<g, p>>][f] = [capacity |-> "public", state |-> "active"]
      BY <1>2, <1>3, <3>1, <3>3, FlushedRow DEF CommitChanges, Objects
    <3>5. [capacity |-> "public", state |-> "active"] \in Rows
      BY DEF Rows, Capacities, States
    <3>6. ListsAt(g, p, f)' /\ rows'[<<g, p>>][f].state = "active"
      BY <3>4, <3>5, NoneAssumption DEF ListsAt
    <3> QED BY <1>4, <2>2, <3>3, <3>6
  <2>3. CASE g \notin req[w].groups
    <3>1. \A s \in Slots : ~ ListsAt(g, p, s)'
      <4> SUFFICES ASSUME NEW s \in Slots, ListsAt(g, p, s)' PROVE FALSE
        OBVIOUS
      <4>1. <<g, p>> \in DOMAIN pl.add /\ pl.add[<<g, p>>] # "organization"
        BY <1>2, <1>3, <1>6, ListedCommit DEF Unlisted
      <4> QED BY <1>2, <2>1, <2>3, <4>1 DEF Extends
    <3> QED BY <1>4, <2>3, <3>1
  <2> QED BY <2>2, <2>3
<1> QED BY <1>5, <1>6 DEF Unlisted

\* However many workers create, update and delete datasets at the same time, and
\* whenever they are killed: when an update commits, the dataset is in the groups of
\* its list and in no others, among those its user may read.
THEOREM GroupsStayAsListed ==
    ASSUME Kinds \subseteq PackageKinds
    PROVE  Spec => GroupsAsListed
<1>1. ListInv /\ [Next]_vars => ListInv'
  BY NextListing
<1>2. ListInv /\ [Next]_vars =>
        \A w \in Workers :
          (SaveMember(w) \/ AddMember(w)) /\ DOMAIN cols[w].pstate # {} =>
            \A p \in {req[w].pkg}, g \in req[w].readable :
              Exists(g) => (InGroup(g, p)' <=> g \in req[w].groups)
  BY <1>1, GroupsCommitted DEF ListInv
<1> QED
  BY <1>1, <1>2, InitListing, PTL DEF Spec, GroupsAsListed

-----------------------------------------------------------------------------
(***************************************************************************)
(* The datasets of an organization are deleted before it is.               *)
(*                                                                         *)
(* While organization_delete works through what it listed, a dataset that    *)
(* the organization shows is still on the list, or came since.  Only the     *)
(* deletion itself takes one from the list, and that dataset is deleted;     *)
(* whatever makes the organization show another one is noted in late.        *)
(***************************************************************************)
Emptied(w) ==
    Deleting(w) => \A p \in Packages : ShownBy(req[w].group, p) =>
                      p \in late[w] \/ (pc[w] = "delete" /\ p \in left[w])

\* A deletion that goes on, and what it has still to visit.
GoesOn(w) == /\ Deleting(w) /\ UNCHANGED req
             /\ pc[w] = "delete" => pc'[w] = "delete" /\ left[w] \subseteq left'[w]

\* A step of w is none of another worker's deletion.
LEMMA OthersGoOn ==
    ASSUME Typed, NEW w \in Workers, StepOf(w), NEW v \in Workers, v # w, Deleting(v)'
    PROVE  /\ Deleting(v) /\ req'[v] = req[v]
           /\ pc[v] = "delete" => pc'[v] = "delete" /\ left[v] \subseteq left'[v]
BY DEF StepOf, Deleting

\* Every step is one of a worker.
LEMMA StepsAreOf ==
    ASSUME Typed, NEW w \in Workers, Start(w) \/ Abort(w) \/ Step(w)
    PROVE  StepOf(w)
<1>1. CASE Fail(w) \/ Finish(w)
  BY <1>1, FinishOK DEF Fail
<1>2. CASE Start(w)
  BY <1>2 DEF Start, Begin, Goto, memory, Typed, MemoryOK, StepOf
<1>3. CASE ~ Fail(w) /\ ReadMember(w)
  <2>1. PICK pl, c, label : Plan(w, pl, c, label) /\ UNCHANGED <<move, left>>
    BY <1>3 DEF ReadMember
  <2> QED
    BY <2>1 DEF Plan, Goto, Typed, MemoryOK, StepOf
<1>4. CASE ~ Finish(w) /\ LockPackage(w)
  BY <1>4 DEF LockPackage, Goto, memory, Typed, MemoryOK, StepOf
<1>5. CASE ~ Fail(w) /\ ReadPackage(w)
  <2>1. PICK pl, c, label, mv, lf :
          Plan(w, pl, c, label) /\ move' = [move EXCEPT ![w] = mv] /\ left' = [left EXCEPT ![w] = lf]
    BY <1>5 DEF ReadPackage
  <2> QED
    BY <2>1 DEF Plan, Goto, Typed, MemoryOK, StepOf
<1>6. CASE SaveMember(w)
  BY <1>6 DEF SaveMember, Typed, MemoryOK, StepOf
<1>7. CASE AddMember(w)
  BY <1>1, <1>7 DEF AddMember
<1>8. CASE ~ Fail(w) /\ ReadGroup(w)
  <2>1. PICK pl, c, label : Plan(w, pl, c, label) /\ UNCHANGED <<move, left>>
    BY <1>8 DEF ReadGroup
  <2> QED
    BY <2>1 DEF Plan, Goto, Typed, MemoryOK, StepOf
<1>9. CASE ~ Finish(w) /\ Write(w)
  BY <1>9 DEF Write, Goto, Typed, MemoryOK, StepOf
<1>10. CASE ~ Fail(w) /\ ListPackages(w)
  BY <1>10 DEF ListPackages, Goto, Typed, MemoryOK, StepOf
<1>11. CASE DeletePackage(w)
  BY <1>11 DEF DeletePackage, Goto, Typed, MemoryOK, StepOf
<1>12. CASE Purge(w)
  BY <1>1, <1>12 DEF Purge
<1>13. CASE FlushFails(w) \/ Abort(w)
  BY <1>1, <1>13 DEF FlushFails, Abort
<1> QED
  BY <1>1, <1>2, <1>3, <1>4, <1>5, <1>6, <1>7, <1>8, <1>9, <1>10, <1>11, <1>12, <1>13 DEF Step

\* What a deletion does itself: it lists, takes datasets from the list, or goes on.
LEMMA DeletionGoesOn ==
    ASSUME Typed, NEW w \in Workers, Start(w) \/ Abort(w) \/ Step(w), Deleting(w)'
    PROVE  \/ Deleting(w) /\ UNCHANGED <<req, left>> /\ pc[w] # "delete"
           \/ /\ pc'[w] = "delete" /\ UNCHANGED <<req, rows, pstate>>
              /\ left'[w] = {p \in Packages : ShownBy(req[w].group, p)}
           \/ DeletePackage(w)
<1>1. pc'[w] # "idle" /\ pc'[w] \in {"delete", "read", "write"}
  BY DEF Deleting
<1>2. ~ Finish(w) /\ ~ Fail(w)
  BY <1>1 DEF Fail, Finish, Goto, Typed, MemoryOK
<1>3. req'[w].kind = "organization_delete"
  BY DEF Deleting
<1>4. ~ Start(w)
  <2> SUFFICES ASSUME Start(w) PROVE FALSE
    OBVIOUS
  <2>1. PICK r : req' = [req EXCEPT ![w] = r] /\ pc' = [pc EXCEPT ![w] = FirstStep(r)]
    BY DEF Start, Begin, Goto
  <2>2. req'[w] = r /\ pc'[w] = FirstStep(r)
    BY <2>1 DEF Typed, MemoryOK
  <2> QED
    BY <1>1, <1>3, <2>2 DEF FirstStep
<1>5. ~ Abort(w) /\ ~ FlushFails(w) /\ ~ AddMember(w) /\ ~ Purge(w)
  BY <1>2 DEF Abort, FlushFails, AddMember, Purge
<1>6. WorkerOK(w) /\ (pc[w] # "idle" => KindAt(pc[w], req[w].kind))
  BY DEF Typed, WorkerOK
<1>7. ~ LockPackage(w)
  <2> SUFFICES ASSUME LockPackage(w) PROVE FALSE
    OBVIOUS
  <2>1. pc[w] = "lock" /\ UNCHANGED req
    BY <1>2 DEF LockPackage
  <2> QED
    BY <1>3, <1>6, <2>1 DEF KindAt
<1>8. ~ ReadPackage(w) /\ ~ SaveMember(w) /\ ~ Write(w)
  <2>1. ASSUME ReadPackage(w) PROVE FALSE
    BY <1>2, <1>3, <2>1 DEF ReadPackage, Plan
  <2>2. ASSUME SaveMember(w) PROVE FALSE
    BY <1>1, <2>2 DEF SaveMember
  <2>3. ASSUME Write(w) PROVE FALSE
    BY <1>1, <1>2, <2>3 DEF Write, Goto, Typed, MemoryOK
  <2> QED
    BY <2>1, <2>2, <2>3
<1>9. CASE ReadMember(w)
  <2>1. UNCHANGED req /\ pc[w] \in {"read", "admin"} /\ (pc[w] = "read" => req[w].kind \in MemberKinds)
    BY <1>2, <1>9 DEF ReadMember, Plan
  <2> QED
    BY <1>3, <1>6, <2>1 DEF KindAt, MemberKinds
<1>10. CASE ReadGroup(w)
  <2>1. UNCHANGED <<req, left>> /\ pc[w] = "read"
    BY <1>2, <1>10 DEF ReadGroup, Plan
  <2> QED
    BY <1>3, <2>1 DEF Deleting
<1>11. CASE ListPackages(w)
  <2>1. /\ left' = [left EXCEPT ![w] = {p \in Packages : ShownBy(req[w].group, p)}]
        /\ Goto(w, "delete") /\ UNCHANGED <<req, rows, pstate>>
    BY <1>2, <1>11 DEF ListPackages, tables
  <2>2. pc'[w] = "delete" /\ left'[w] = {p \in Packages : ShownBy(req[w].group, p)}
    BY <2>1 DEF Goto, Typed, MemoryOK
  <2> QED
    BY <2>1, <2>2
<1> QED
  BY <1>4, <1>5, <1>7, <1>8, <1>9, <1>10, <1>11 DEF Step

\* The dataset that leaves the list is deleted.
LEMMA LeavesDeleted ==
    ASSUME Typed, NEW w \in Workers, DeletePackage(w), NEW p \in Packages, p \in left[w],
           ~ (pc'[w] = "delete" /\ p \in left'[w])
    PROVE  pstate'[p] = "deleted"
<1>1. DOMAIN pstate = Packages
  BY DEF Typed, TablesOK
<1>2. CASE \E q \in left[w] : /\ pstate' = [pstate EXCEPT ![q] = "deleted"]
                              /\ left' = [left EXCEPT ![w] = @ \ {q}] /\ UNCHANGED pc
  <2>1. PICK q \in left[w] : /\ pstate' = [pstate EXCEPT ![q] = "deleted"]
                             /\ left' = [left EXCEPT ![w] = @ \ {q}] /\ UNCHANGED pc
    BY <1>2
  <2>2. left'[w] = left[w] \ {q} /\ pc'[w] = "delete"
    BY <2>1 DEF DeletePackage, Typed, MemoryOK
  <2>3. p = q
    BY <2>2
  <2> QED
    BY <1>1, <2>1, <2>3
<1> QED
  BY <1>2 DEF DeletePackage

LEMMA EmptiedStays ==
    ASSUME Typed, Typed', \A v \in Workers : Emptied(v), [Next]_vars, NEW v \in Workers
    PROVE  Emptied(v)'
<1>1. CASE UNCHANGED vars
  <2>1. Emptied(v)
    OBVIOUS
  <2> QED
    BY <1>1, <2>1 DEF vars, Emptied, Deleting, ShownBy, Belongs, Active, Present
<1>2. CASE Next
  <2> SUFFICES ASSUME Deleting(v)', NEW p \in Packages, ShownBy(req[v].group, p)'
               PROVE  p \in late'[v] \/ (pc'[v] = "delete" /\ p \in left'[v])
    BY DEF Emptied
  <2>1. PICK w \in Workers : Start(w) \/ Abort(w) \/ Step(w)
    BY <1>2 DEF Next
  <2>2. StepOf(w)
    BY <2>1, StepsAreOf
  <2>3. Watch
    BY <1>2 DEF Next
  <2>4. CASE ~ UNCHANGED (req[v])
    <3>1. v = w
      BY <2>2, <2>4 DEF StepOf
    <3> QED
      BY <2>1, <2>4, <3>1, DeletionGoesOn DEF DeletePackage
  <2>5. CASE UNCHANGED (req[v])
    <3>1. late'[v] = late[v] \cup {x \in Packages : /\ ShownBy(req[v].group, x)'
                                                     /\ ~ ShownBy(req[v].group, x)}
      BY <2>3 DEF Watch
    <3>2. CASE ~ ShownBy(req[v].group, p)
      BY <3>1, <3>2
    <3>3. CASE ShownBy(req[v].group, p) /\ Deleting(v)
      <4>1. p \in late[v] \/ (pc[v] = "delete" /\ p \in left[v])
        BY <3>3 DEF Emptied
      <4>2. CASE p \in late[v]
        BY <3>1, <4>2
      <4>3. CASE pc[v] = "delete" /\ p \in left[v] /\ v # w
        BY <2>2, <4>3, OthersGoOn
      <4>4. CASE pc[v] = "delete" /\ p \in left[v] /\ v = w
        <5>1. CASE DeletePackage(v)
          BY <4>4, <5>1, LeavesDeleted DEF ShownBy
        <5>2. CASE /\ pc'[v] = "delete" /\ UNCHANGED <<req, rows, pstate>>
                   /\ left'[v] = {x \in Packages : ShownBy(req[v].group, x)}
          BY <3>3, <5>2
        <5> QED
          BY <2>1, <4>4, <5>1, <5>2, DeletionGoesOn
      <4> QED
        BY <4>1, <4>2, <4>3, <4>4
    <3>4. CASE ShownBy(req[v].group, p) /\ ~ Deleting(v)
      <4>1. v = w
        BY <2>2, <3>4, OthersGoOn
      <4> QED
        BY <2>1, <3>4, <4>1, DeletionGoesOn DEF DeletePackage, Deleting, Typed, WorkerOK, KindAt
    <3> QED
      BY <3>2, <3>3, <3>4
  <2> QED
    BY <2>4, <2>5
<1> QED
  BY <1>1, <1>2

\* Whatever runs beside a deletion, and wherever requests are killed: each public dataset that
\* an organization shows when organization_delete commits came after the datasets were listed:
\* Membership, DatasetsGoWithOrganization.
THEOREM DatasetsGo == Spec => DatasetsGoWithOrganization
<1> DEFINE Inv == Typed /\ \A w \in Workers : Emptied(w)
<1>1. Init => Inv
  BY InitTyped DEF Init, Emptied, Deleting
<1>2. Inv /\ [Next]_vars => Inv'
  BY NextTyped, EmptiedStays
<1>3. Inv => \A w \in Workers :
        Write(w) /\ req[w].kind = "organization_delete" =>
          \A p \in Packages : ShownBy(req[w].group, p) => p \in late[w]
  BY DEF Write, Emptied, Deleting
<1> QED
  BY <1>1, <1>2, <1>3, PTL DEF Spec, DatasetsGoWithOrganization

-----------------------------------------------------------------------------
(***************************************************************************)
(* Whoever creates a group administers it.                                 *)
(*                                                                         *)
(* A group that does not exist has no rows, so that the first commit of its  *)
(* creation leaves its user with an active row or with none, and the plan of *)
(* the second one, which follows from it, fits.                             *)
(***************************************************************************)
BareOf(g, o) == \A s \in Slots : rows[<<g, o>>][s] = None
ActiveAt(g, o, s) == rows[<<g, o>>][s] # None /\ rows[<<g, o>>][s].state = "active"

\* A group that does not exist has no rows.
RowsOfGroups == \A g \in Groups, o \in Objects : ~ Exists(g) => BareOf(g, o)

\* The plan that makes an object with a row, or with none, an administrator.
Promotes(pl, g, o) ==
    \/ BareOf(g, o) /\ pl = Changes(Nothing, Only(<<g, o>>, "admin"))
    \/ \E s \in Slots : /\ ActiveAt(g, o, s)
                        /\ pl = [state |-> Nothing, capacity |-> Only(<<g, o, s>>, "admin"),
                                 add |-> Nothing]

\* The creation of a group, by its steps: the first commit has the column of the group.
Creating(w) ==
    LET g == req[w].group
        u == req[w].object
    IN  req[w].kind = "group_create" =>
          /\ pc[w] # "idle" /\ Slots # {}
          /\ pc[w] = "read" => ~ Exists(g)
          /\ pc[w] = "write" =>
               \/ g \in DOMAIN cols[w].gstate /\ ~ Exists(g)
               \/ cols[w] = NoColumns /\ Exists(g) /\ Promotes(plan[w], g, u)
          /\ pc[w] = "admin" =>
               Exists(g) /\ (BareOf(g, u) \/ \E s \in Slots : ActiveAt(g, u, s))

CreatorInv == Typed /\ RowsOfGroups /\ \A w \in Workers : Creating(w)

-----------------------------------------------------------------------------
\* A commit inserts no row of a group that does not exist.
LEMMA GroupRowsCommit ==
    ASSUME TablesOK, RowsOfGroups, NEW pl, NEW c, ColumnsOK(c), Fits(pl, c), CommitChanges(pl, c)
    PROVE  RowsOfGroups'
<1> SUFFICES ASSUME NEW g \in Groups, NEW o \in Objects, gstate'[g] = None, NEW s \in Slots
             PROVE  rows'[<<g, o>>][s] = None
  BY DEF RowsOfGroups, BareOf, Exists
<1>1. gstate'[g] = IF g \in DOMAIN c.gstate THEN c.gstate[g] ELSE gstate[g]
  BY DEF CommitChanges, Overlay, TablesOK
<1>2. g \notin DOMAIN c.gstate
  <2>1. g \in DOMAIN c.gstate => c.gstate[g] \in States
    BY DEF ColumnsOK
  <2> QED
    BY <1>1, <2>1, NoneAssumption DEF PackageStates
<1>3. ~ Exists(g)
  BY <1>1, <1>2 DEF Exists
<1>4. rows[<<g, o>>][s] = None
  BY <1>3 DEF RowsOfGroups, BareOf
<1>5. <<g, o>> \notin DOMAIN pl.add
  BY <1>2, <1>3 DEF Fits
<1> QED
  BY <1>4, <1>5, FlushedRow DEF CommitChanges

\* Of an object without rows, a commit inserts an active row or none.
LEMMA BareCommit ==
    ASSUME NEW pl, NEW c, CommitChanges(pl, c), NEW g \in Groups, NEW o \in Objects,
           BareOf(g, o), Slots # {}
    PROVE  IF <<g, o>> \in DOMAIN pl.add
             THEN \E s \in Slots : /\ rows'[<<g, o>>][s] = [capacity |-> pl.add[<<g, o>>],
                                                             state |-> "active"]
             ELSE BareOf(g, o)'
<1>1. PICK f : f = FreeSlot(g, o)
  OBVIOUS
<1>2. f \in Slots
  <2>1. \E s \in Slots : rows[<<g, o>>][s] = None
    BY DEF BareOf
  <2> QED
    BY <1>1, <2>1 DEF FreeSlot
<1>3. \A s \in Slots :
        rows'[<<g, o>>][s] = IF <<g, o>> \in DOMAIN pl.add /\ s = f
                               THEN [capacity |-> pl.add[<<g, o>>], state |-> "active"]
                               ELSE None
  BY <1>1, FlushedRow DEF CommitChanges, BareOf
<1>4. CASE <<g, o>> \in DOMAIN pl.add
  BY <1>2, <1>3, <1>4
<1>5. CASE <<g, o>> \notin DOMAIN pl.add
  BY <1>3, <1>5 DEF BareOf
<1> QED
  BY <1>4, <1>5

\* The promotion of a user fits, and leaves an administrator.
LEMMA PromotionFits ==
    ASSUME NEW pl, NEW g \in Groups, NEW o \in Objects, Promotes(pl, g, o), Exists(g)
    PROVE  Fits(pl, NoColumns)
<1>1. CASE pl = Changes(Nothing, Only(<<g, o>>, "admin"))
  BY <1>1 DEF Fits, Changes, Only, Nothing, NoColumns, Columns
<1>2. CASE \E s \in Slots :
             /\ ActiveAt(g, o, s)
             /\ pl = [state |-> Nothing, capacity |-> Only(<<g, o, s>>, "admin"), add |-> Nothing]
  <2>1. PICK s \in Slots :
             /\ ActiveAt(g, o, s)
             /\ pl = [state |-> Nothing, capacity |-> Only(<<g, o, s>>, "admin"), add |-> Nothing]
    BY <1>2
  <2>2. DOMAIN pl.capacity = {<<g, o, s>>} /\ DOMAIN pl.state = {} /\ DOMAIN pl.add = {}
    BY <2>1 DEF Only, Nothing
  <2>3. DOMAIN NoColumns.gstate = {}
    BY DEF NoColumns, Columns, Nothing
  <2> QED
    BY <2>1, <2>2, <2>3 DEF Fits, ActiveAt
<1> QED
  BY <1>1, <1>2 DEF Promotes

LEMMA Promoted ==
    ASSUME NEW pl, NEW c, CommitChanges(pl, c), NEW g \in Groups, NEW o \in Objects,
           Promotes(pl, g, o), Slots # {}
    PROVE  \E s \in Slots : /\ rows'[<<g, o>>][s] # None
                            /\ rows'[<<g, o>>][s].state = "active"
                            /\ rows'[<<g, o>>][s].capacity = "admin"
<1>1. [capacity |-> "admin", state |-> "active"] # None
  BY RolesAssumption, NoneAssumption DEF Rows, Capacities, States
<1>2. CASE BareOf(g, o) /\ pl = Changes(Nothing, Only(<<g, o>>, "admin"))
  <2>1. <<g, o>> \in DOMAIN pl.add /\ pl.add[<<g, o>>] = "admin"
    BY <1>2 DEF Changes, Only
  <2>2. PICK s \in Slots : rows'[<<g, o>>][s] = [capacity |-> "admin", state |-> "active"]
    BY <1>2, <2>1, BareCommit
  <2> QED
    BY <1>1, <2>2
<1>3. CASE \E s \in Slots :
             /\ ActiveAt(g, o, s)
             /\ pl = [state |-> Nothing, capacity |-> Only(<<g, o, s>>, "admin"), add |-> Nothing]
  <2>1. PICK s \in Slots :
             /\ ActiveAt(g, o, s)
             /\ pl = [state |-> Nothing, capacity |-> Only(<<g, o, s>>, "admin"), add |-> Nothing]
    BY <1>3
  <2>2. /\ <<g, o, s>> \in DOMAIN pl.capacity /\ pl.capacity[<<g, o, s>>] = "admin"
        /\ DOMAIN pl.state = {}
    BY <2>1 DEF Only, Nothing
  <2>3. Updated(pl, g, o, s) = [capacity |-> "admin", state |-> "active"]
    BY <2>1, <2>2 DEF Updated, ActiveAt
  <2>4. rows'[<<g, o>>][s] = Updated(pl, g, o, s)
    BY <2>1, FlushedRow DEF CommitChanges, ActiveAt
  <2> QED
    BY <1>1, <2>3, <2>4
<1> QED
  BY <1>2, <1>3 DEF Promotes

-----------------------------------------------------------------------------
\* A step of a request that creates no group.
LEMMA OtherCreating ==
    ASSUME \A v, w \in Workers : v = w, Typed', RowsOfGroups', NEW w \in Workers,
           req'[w].kind # "group_create"
    PROVE  CreatorInv'
BY DEF CreatorInv, Creating

LEMMA FinishCreating ==
    ASSUME \A v, w \in Workers : v = w, Typed, Typed', RowsOfGroups', NEW w \in Workers, Finish(w)
    PROVE  CreatorInv'
<1>1. req'[w].kind # "group_create"
  BY DEF Finish, Typed, MemoryOK, NoRequest
<1> QED
  BY <1>1, OtherCreating

LEMMA GroupRowsSame == RowsOfGroups /\ UNCHANGED tables => RowsOfGroups'
BY DEF RowsOfGroups, BareOf, Exists, tables

LEMMA InitCreating == Init => CreatorInv
<1> SUFFICES ASSUME Init PROVE CreatorInv
  OBVIOUS
<1>1. RowsOfGroups
  BY DEF Init, RowsOfGroups, BareOf, Pairs
<1>2. \A w \in Workers : Creating(w)
  BY DEF Init, Creating, NoRequest
<1> QED
  BY <1>1, <1>2, InitTyped DEF CreatorInv

LEMMA StartCreating ==
    ASSUME \A v, w \in Workers : v = w, CreatorInv, Typed', NEW w \in Workers, Start(w)
    PROVE  CreatorInv'
<1>1. PICK r : /\ IsRequest(r) /\ Nameable(r) /\ Room(r)
              /\ req' = [req EXCEPT ![w] = r]
              /\ pc' = [pc EXCEPT ![w] = FirstStep(r)]
              /\ UNCHANGED tables
  BY DEF Start, Begin, Goto, IsRequest
<1>2. RequestOK(r)
  BY <1>1, RequestFacts
<1>3. pc'[w] = FirstStep(r) /\ req'[w] = r
  BY <1>1 DEF CreatorInv, Typed, MemoryOK
<1>4. RowsOfGroups'
  BY <1>1, GroupRowsSame DEF CreatorInv
<1>5. ASSUME r.kind = "group_create"
      PROVE  Slots # {} /\ ~ Exists(r.group) /\ FirstStep(r) = "read"
  <2>1. r.group \in Groups /\ r.object \in Objects
    BY <1>2, <1>5 DEF RequestOK, GroupKinds, Objects
  <2>2. ~ Exists(r.group) /\ FirstStep(r) = "read"
    BY <1>1, <1>5 DEF Nameable, FirstStep
  <2> DEFINE busy == {v \in Workers : pc[v] # "idle"}
             free == Slots \ Present(r.group, r.object)
  <2>3. Cardinality(free) > Cardinality(busy)
    <3> DEFINE inserts == CASE r.kind \in {"package_create", "package_update", "owner_org"} ->
                                 Groups \X {r.pkg}
                            [] r.kind = "member_create" -> {<<r.group, r.object>>}
                            [] r.kind \in {"group_create", "group_update"} -> {r.group} \X Objects
                            [] OTHER -> {}
    <3>1. <<r.group, r.object>> \in inserts
      BY <1>5, <2>1
    <3>2. \A pr \in inserts : Cardinality(Slots \ Present(pr[1], pr[2])) > Cardinality(busy)
      BY <1>1 DEF Room
    <3> HIDE DEF inserts, busy
    <3> QED
      BY <3>1, <3>2
  <2>4. Cardinality(busy) \in Nat
    BY SlotsAssumption, FS_Subset, FS_CardinalityType
  <2>5. Slots = {} => Cardinality(free) = 0
    BY FS_EmptySet
  <2> HIDE DEF busy, free
  <2> QED
    BY <2>2, <2>3, <2>4, <2>5
<1>6. Creating(w)'
  BY <1>1, <1>3, <1>5 DEF Creating, Exists, tables
<1> QED
  BY <1>4, <1>6 DEF CreatorInv

LEMMA ReadMemberCreating ==
    ASSUME \A v, w \in Workers : v = w, CreatorInv, Typed', NEW w \in Workers, ReadMember(w)
    PROVE  /\ CreatorInv'
           /\ req[w].kind = "group_create" => pc'[w] # "idle"
<1> DEFINE g == req[w].group
           o == req[w].object
<1>1. /\ pc[w] \in {"read", "admin"} /\ RequestOK(req[w])
      /\ req[w].kind \in MemberKinds \/ (pc[w] = "admin" /\ req[w].kind = "group_create")
  BY RequestFacts DEF ReadMember, CreatorInv, Typed, WorkerOK, KindAt
<1>2. UNCHANGED tables
  BY DEF ReadMember, Fail, Plan
<1>3. RowsOfGroups'
  BY <1>2, GroupRowsSame DEF CreatorInv
<1>4. CASE req[w].kind # "group_create"
  <2>1. req'[w].kind # "group_create"
    BY <1>4 DEF ReadMember, Fail, Finish, Plan, NoRequest, CreatorInv, Typed, MemoryOK
  <2> QED
    BY <1>3, <1>4, <2>1, OtherCreating
<1>5. CASE req[w].kind = "group_create"
  <2>1. /\ pc[w] = "admin" /\ Exists(g) /\ Slots # {}
        /\ BareOf(g, o) \/ \E s \in Slots : ActiveAt(g, o, s)
    BY <1>1, <1>5 DEF CreatorInv, Creating, MemberKinds
  <2>2. PICK pl \in JoinPlans(g, o, "admin") : Plan(w, pl, NoColumns, "write")
    <3>1. JoinPlans(g, o, "admin") # {}
      BY DEF JoinPlans
    <3> QED
      BY <2>1, <3>1 DEF ReadMember
  <2>3. Promotes(pl, g, o)
    <3>1. CASE Active(g, o) = {}
      <4>1. pl = Changes(Nothing, Only(<<g, o>>, "admin"))
        BY <2>2, <3>1 DEF JoinPlans
      <4>2. \A s \in Slots : ~ ActiveAt(g, o, s)
        BY <3>1 DEF Active, Present, ActiveAt
      <4> QED
        BY <2>1, <4>1, <4>2 DEF Promotes
    <3>2. CASE Active(g, o) # {}
      <4>1. PICK s \in Active(g, o) :
              pl = [state |-> Nothing, capacity |-> Only(<<g, o, s>>, "admin"), add |-> Nothing]
        BY <2>2, <3>2 DEF JoinPlans
      <4>2. s \in Slots /\ ActiveAt(g, o, s)
        BY DEF Active, Present, ActiveAt
      <4> QED
        BY <4>1, <4>2 DEF Promotes
    <3> QED
      BY <3>1, <3>2
  <2>4. /\ pc'[w] = "write" /\ plan'[w] = pl /\ cols'[w] = NoColumns /\ UNCHANGED req
    BY <2>2 DEF Plan, Goto, CreatorInv, Typed, MemoryOK
  <2>5. Promotes(plan[w], g, o)'
    BY <1>2, <2>3, <2>4 DEF Promotes, BareOf, ActiveAt, tables
  <2>6. Creating(w)'
    BY <1>2, <2>1, <2>4, <2>5 DEF Creating, Exists, tables
  <2> QED
    BY <1>3, <2>4, <2>6 DEF CreatorInv
<1> QED
  BY <1>4, <1>5

LEMMA ReadGroupCreating ==
    ASSUME \A v, w \in Workers : v = w, CreatorInv, Typed', NEW w \in Workers, ReadGroup(w)
    PROVE  /\ CreatorInv'
           /\ req[w].kind = "group_create" => pc'[w] # "idle"
<1>1. UNCHANGED tables
  BY DEF ReadGroup, Fail, Plan
<1>2. RowsOfGroups'
  BY <1>1, GroupRowsSame DEF CreatorInv
<1>3. CASE req[w].kind # "group_create"
  <2>1. req'[w].kind # "group_create"
    <3>1. CASE Fail(w)
      BY <3>1 DEF Fail, Finish, NoRequest, CreatorInv, Typed, MemoryOK
    <3>2. CASE ~ Fail(w)
      BY <1>3, <3>2 DEF ReadGroup, Plan
    <3> QED
      BY <3>1, <3>2
  <2> QED
    BY <1>2, <1>3, <2>1, OtherCreating
<1>4. CASE req[w].kind = "group_create"
  <2>1. pc[w] = "read" /\ Slots # {} /\ ~ Exists(req[w].group)
    BY <1>4 DEF ReadGroup, CreatorInv, Creating
  <2>2. PICK pl : Plan(w, pl, Columns(Nothing, Nothing, Only(req[w].group, req[w].state)), "write")
    BY <1>4 DEF ReadGroup
  <2>3. pc'[w] = "write" /\ UNCHANGED req /\ req[w].group \in DOMAIN cols'[w].gstate
    <3>1. cols'[w] = Columns(Nothing, Nothing, Only(req[w].group, req[w].state))
      BY <2>2 DEF Plan, CreatorInv, Typed, MemoryOK
    <3> QED
      BY <2>2, <3>1 DEF Plan, Goto, CreatorInv, Typed, MemoryOK, Columns, Only
  <2>4. Creating(w)'
    BY <1>1, <2>1, <2>3 DEF Creating, Exists, tables
  <2> QED
    BY <1>2, <2>3, <2>4 DEF CreatorInv
<1> QED
  BY <1>3, <1>4

\* The property of the last commit of a group_create.
Administered(g, o) ==
    \E s \in Slots : /\ rows[<<g, o>>][s] # None
                     /\ rows[<<g, o>>][s].state = "active"
                     /\ rows[<<g, o>>][s].capacity = "admin"

LEMMA WriteCreating ==
    ASSUME \A v, w \in Workers : v = w, CreatorInv, Typed', NEW w \in Workers, Write(w)
    PROVE  /\ CreatorInv'
           /\ req[w].kind = "group_create" /\ pc'[w] = "idle" =>
                \A g \in {req[w].group}, u \in {req[w].object} : Administered(g, u)'
<1>1. /\ pc[w] = "write" /\ Fits(plan[w], cols[w]) /\ CommitChanges(plan[w], cols[w])
      /\ TablesOK /\ ColumnsOK(cols[w]) /\ RequestOK(req[w])
  BY RequestFacts DEF Write, CreatorInv, Typed, WorkerOK
<1>2. RowsOfGroups'
  BY <1>1, GroupRowsCommit DEF CreatorInv
<1>3. CASE req[w].kind # "group_create"
  <2>1. req'[w].kind # "group_create"
    BY <1>3 DEF Write, Finish, NoRequest, CreatorInv, Typed, MemoryOK
  <2> QED
    BY <1>2, <1>3, <2>1, OtherCreating
<1>4. CASE req[w].kind = "group_create"
  <2> DEFINE g == req[w].group
             u == req[w].object
  <2>1. g \in Groups /\ u \in Objects /\ Slots # {}
    BY <1>1, <1>4 DEF RequestOK, GroupKinds, Objects, CreatorInv, Creating
  <2>2. CASE g \in DOMAIN cols[w].gstate /\ ~ Exists(g)
    <3>1. pc'[w] = "admin" /\ UNCHANGED req
      BY <1>4, <2>2 DEF Write, Goto, CreatorInv, Typed, MemoryOK
    <3>2. Exists(g)'
      <4>1. gstate'[g] \in States
        BY <1>1, <2>1, <2>2 DEF CommitChanges, Overlay, TablesOK, ColumnsOK
      <4> QED
        BY <3>1, <4>1, NoneAssumption DEF Exists, PackageStates
    <3>3. BareOf(g, u)
      BY <2>1, <2>2 DEF CreatorInv, RowsOfGroups
    <3>4. (BareOf(g, u) \/ \E s \in Slots : ActiveAt(g, u, s))'
      <4>1. CASE <<g, u>> \in DOMAIN plan[w].add
        <5>1. PICK s \in Slots : rows'[<<g, u>>][s] = [capacity |-> plan[w].add[<<g, u>>],
                                                        state |-> "active"]
          BY <1>1, <2>1, <3>3, <4>1, BareCommit
        <5>2. [capacity |-> plan[w].add[<<g, u>>], state |-> "active"] \in Rows
          BY <4>1 DEF CreatorInv, Typed, WorkerOK, PlanOK, Rows, States
        <5> QED
          BY <3>1, <5>1, <5>2, NoneAssumption DEF ActiveAt
      <4>2. CASE <<g, u>> \notin DOMAIN plan[w].add
        <5>1. \A s \in Slots : rows'[<<g, u>>][s] = None
          BY <1>1, <2>1, <3>3, <4>2, BareCommit DEF BareOf
        <5> QED
          BY <3>1, <5>1 DEF BareOf
      <4> QED
        BY <4>1, <4>2
    <3>5. Creating(w)'
      BY <2>1, <3>1, <3>2, <3>4 DEF Creating
    <3> QED
      BY <1>2, <3>1, <3>5 DEF CreatorInv
  <2>3. CASE cols[w] = NoColumns /\ Exists(g) /\ Promotes(plan[w], g, u)
    <3>1. Finish(w)
      BY <1>4, <2>3 DEF Write, NoColumns, Columns, Nothing
    <3>2. \E s \in Slots : /\ rows'[<<g, u>>][s] # None
                           /\ rows'[<<g, u>>][s].state = "active"
                           /\ rows'[<<g, u>>][s].capacity = "admin"
      BY <1>1, <2>1, <2>3, Promoted
    <3>3. CreatorInv'
      BY <1>2, <3>1, FinishCreating DEF CreatorInv
    <3>4. \A h \in {req[w].group}, x \in {req[w].object} : Administered(h, x)'
      BY <3>2 DEF Administered
    <3> QED
      BY <3>3, <3>4
  <2> QED
    BY <1>1, <1>4, <2>2, <2>3 DEF CreatorInv, Creating
<1> QED
  BY <1>3, <1>4

\* The promotion does not fail, and the group of a creation that fails does not exist.
LEMMA FlushFailsCreating ==
    ASSUME \A v, w \in Workers : v = w, CreatorInv, Typed', NEW w \in Workers, FlushFails(w)
    PROVE  /\ CreatorInv'
           /\ req[w].kind = "group_create" =>
                \A g \in {req[w].group} : gstate'[g] = None
<1>1. Fail(w)
  BY DEF FlushFails
<1>2. CreatorInv'
  BY <1>1, GroupRowsSame, FinishCreating DEF Fail, CreatorInv
<1>3. ASSUME req[w].kind = "group_create" PROVE ~ Exists(req[w].group)
  <2>1. pc[w] = "write" /\ ~ Fits(plan[w], cols[w]) /\ RequestOK(req[w])
    BY <1>3, RequestFacts DEF FlushFails, CreatorInv, Typed, WorkerOK, KindAt
  <2>2. req[w].group \in Groups /\ req[w].object \in Objects
    BY <1>3, <2>1 DEF RequestOK, GroupKinds, Objects
  <2> QED
    BY <1>3, <2>1, <2>2, PromotionFits DEF CreatorInv, Creating
<1> QED
  BY <1>1, <1>2, <1>3 DEF Fail, tables, Exists

\* The steps that no group_create takes.
LEMMA OthersCreating ==
    ASSUME \A v, w \in Workers : v = w, CreatorInv, Typed', NEW w \in Workers,
           \/ LockPackage(w) \/ ReadPackage(w) \/ SaveMember(w) \/ AddMember(w)
           \/ ListPackages(w) \/ DeletePackage(w) \/ Purge(w)
    PROVE  CreatorInv' /\ req[w].kind # "group_create"
<1>1. pc[w] \in {"lock", "save", "list", "delete", "purge"} \/ ReadPackage(w)
  BY DEF LockPackage, SaveMember, AddMember, ListPackages, DeletePackage, Purge
<1>2. req[w].kind # "group_create"
  <2>1. CASE ReadPackage(w)
    BY <2>1 DEF ReadPackage
  <2>2. CASE pc[w] \in {"lock", "save", "list", "delete", "purge"}
    BY <2>2 DEF CreatorInv, Typed, WorkerOK, KindAt
  <2> QED
    BY <1>1, <2>1, <2>2
<1>3. req'[w].kind # "group_create"
  BY <1>2 DEF LockPackage, ReadPackage, SaveMember, AddMember, ListPackages, DeletePackage, Purge,
              Fail, Finish, Plan, NoRequest, CreatorInv, Typed, MemoryOK
<1>4. TablesOK /\ RowsOfGroups /\ ColumnsOK(cols[w])
  BY DEF CreatorInv, Typed, WorkerOK
<1>5. RowsOfGroups'
  <2>1. CASE LockPackage(w)
    BY <1>4, <2>1 DEF LockPackage, tables, RowsOfGroups, BareOf, Exists
  <2>2. CASE ReadPackage(w)
    BY <1>4, <2>2, GroupRowsSame DEF ReadPackage, Fail, Plan
  <2>3. CASE SaveMember(w)
    BY <1>4, <2>3, GroupRowsCommit DEF SaveMember
  <2>4. CASE AddMember(w)
    BY <1>4, <2>4, GroupRowsCommit DEF AddMember
  <2>5. CASE ListPackages(w)
    BY <1>4, <2>5, GroupRowsSame DEF ListPackages, Fail
  <2>6. CASE DeletePackage(w)
    BY <1>4, <2>6 DEF DeletePackage, RowsOfGroups, BareOf, Exists
  <2>7. CASE Purge(w)
    <3>1. \A h \in Groups, o \in Objects, s \in Slots :
            /\ rows'[<<h, o>>][s] # None => rows[<<h, o>>][s] # None
            /\ h = req[w].group => rows'[<<h, o>>][s] = None \/ UNCHANGED tables
      BY <2>7 DEF Purge, Pairs, tables
    <3>2. \A h \in Groups : h # req[w].group => gstate'[h] = gstate[h]
      BY <1>4, <2>7 DEF Purge, TablesOK, tables
    <3> QED
      BY <1>4, <3>1, <3>2 DEF RowsOfGroups, BareOf, Exists, tables
  <2> QED
    BY <2>1, <2>2, <2>3, <2>4, <2>5, <2>6, <2>7
<1> QED
  BY <1>2, <1>3, <1>5, OtherCreating

LEMMA NextCreating ==
    ASSUME \A v, w \in Workers : v = w, CreatorInv, [Next]_vars
    PROVE  CreatorInv'
<1>1. Typed'
  BY NextTyped DEF CreatorInv
<1>2. CASE UNCHANGED vars
  BY <1>1, <1>2 DEF vars, CreatorInv, Creating, RowsOfGroups, BareOf, Exists, Promotes, ActiveAt
<1>3. ASSUME NEW w \in Workers, Abort(w)
      PROVE  CreatorInv'
  BY <1>1, <1>3, GroupRowsSame, FinishCreating DEF Abort, Fail, CreatorInv
<1> QED
  BY <1>1, <1>2, <1>3, StartCreating, ReadMemberCreating, ReadGroupCreating, WriteCreating,
     FlushFailsCreating, OthersCreating
  DEF Next, Step

\* Requests that run one after the other and are not killed: whoever creates a group is
\* an administrator of it when the request ends, also when the list of members gave that
\* user another capacity: Membership, CreatorIsAdmin.
THEOREM SequentialCreatorIsAdmin ==
    ASSUME \A v, w \in Workers : v = w, ~ Faults
    PROVE  Spec => CreatorIsAdmin
<1> DEFINE Body ==
        \A w \in Workers :
          req[w].kind = "group_create" /\ pc'[w] = "idle" =>
            \A g \in {req[w].group}, u \in {req[w].object} : Exists(g)' =>
              \E s \in Active(g, u)' : rows'[<<g, u>>][s].capacity = "admin"
<1>1. CreatorInv /\ [Next]_vars => CreatorInv'
  BY NextCreating
<1>2. CreatorInv /\ Next => Body
  <2> SUFFICES ASSUME CreatorInv, Next, NEW w \in Workers,
                      req[w].kind = "group_create", pc'[w] = "idle",
                      NEW g \in {req[w].group}, NEW u \in {req[w].object}, gstate'[g] # None
               PROVE  \E s \in Slots : /\ rows'[<<g, u>>][s] # None
                                       /\ rows'[<<g, u>>][s].state = "active"
                                       /\ rows'[<<g, u>>][s].capacity = "admin"
    BY DEF Exists, Active, Present
  <2>1. Typed'
    BY NextTyped DEF CreatorInv
  <2>2. Start(w) \/ Step(w)
    BY DEF Next, Abort
  <2>3. ~ Start(w)
    BY DEF Start, Begin, CreatorInv, Creating
  <2>4. Write(w) \/ FlushFails(w)
    BY <2>1, <2>2, <2>3, ReadMemberCreating, ReadGroupCreating, OthersCreating DEF Step
  <2>5. CASE Write(w)
    BY <2>1, <2>5, WriteCreating DEF Administered
  <2>6. CASE FlushFails(w)
    BY <2>1, <2>6, FlushFailsCreating
  <2> QED
    BY <2>4, <2>5, <2>6
<1> QED
  BY <1>1, <1>2, InitCreating, PTL DEF Spec, CreatorIsAdmin

-----------------------------------------------------------------------------
(***************************************************************************)
(* Who was removed from a group is out of it.                              *)
(*                                                                         *)
(* member_delete marks one active row deleted.  As long as no list of        *)
(* members is saved for a group that exists, there is one at most: a plan    *)
(* inserts a row where none is active, and makes no row active.             *)
(***************************************************************************)
RosterKinds == MemberKinds \cup {"group_create", "group_delete", "purge"}

OneActive ==
    \A g \in Groups, o \in Objects, s, t \in Slots : ActiveAt(g, o, s) /\ ActiveAt(g, o, t) => s = t

Roster(pl) ==
    /\ \A id \in DOMAIN pl.state : pl.state[id] = "deleted"
    /\ \A pr \in DOMAIN pl.add, s \in Slots : ~ ActiveAt(pr[1], pr[2], s)

\* What a request that removes a member has planned.
Removing(w) ==
    req[w].kind = "member_delete" =>
      \E s \in Slots :
        /\ ActiveAt(req[w].group, req[w].object, s)
        /\ plan[w] = Changes(Only(<<req[w].group, req[w].object, s>>, "deleted"), Nothing)

RosterInv ==
    /\ CreatorInv /\ OneActive
    /\ \A w \in Workers : pc[w] = "write" => Roster(plan[w]) /\ Removing(w)

LEMMA RosterCommit ==
    ASSUME NEW pl, NEW c, Roster(pl), CommitChanges(pl, c),
           NEW g \in Groups, NEW o \in Objects, NEW s \in Slots, ActiveAt(g, o, s)'
    PROVE  \/ ActiveAt(g, o, s) /\ <<g, o, s>> \notin DOMAIN pl.state
           \/ <<g, o>> \in DOMAIN pl.add /\ s = FreeSlot(g, o)
<1> DEFINE id == <<g, o, s>>
           r == rows[<<g, o>>][s]
<1>1. rows'[<<g, o>>][s] =
        IF r # None THEN Updated(pl, g, o, s)
        ELSE IF <<g, o>> \in DOMAIN pl.add /\ s = FreeSlot(g, o)
          THEN [capacity |-> pl.add[<<g, o>>], state |-> "active"]
          ELSE None
  BY FlushedRow DEF CommitChanges
<1>2. CASE r # None
  <2>1. (IF id \in DOMAIN pl.state THEN pl.state[id] ELSE r.state) = "active"
    BY <1>1, <1>2 DEF Updated, ActiveAt
  <2> QED
    BY <1>2, <2>1 DEF Roster, ActiveAt
<1>3. CASE r = None
  BY <1>1, <1>3 DEF ActiveAt
<1> QED
  BY <1>2, <1>3

LEMMA OneActiveCommit ==
    ASSUME OneActive, NEW pl, NEW c, Roster(pl), CommitChanges(pl, c)
    PROVE  OneActive'
<1> SUFFICES ASSUME NEW g \in Groups, NEW o \in Objects, NEW s \in Slots, NEW t \in Slots,
                    ActiveAt(g, o, s)', ActiveAt(g, o, t)'
             PROVE  s = t
  BY DEF OneActive
<1>1. <<g, o>> \in DOMAIN pl.add => ~ ActiveAt(g, o, s) /\ ~ ActiveAt(g, o, t)
  BY DEF Roster
<1> QED
  BY <1>1, RosterCommit DEF OneActive

LEMMA OneActiveSame == OneActive /\ UNCHANGED rows => OneActive'
BY DEF OneActive, ActiveAt

\* A step that commits nothing and leaves no plan to write.
LEMMA NoWriteRoster ==
    ASSUME \A v, w \in Workers : v = w, RosterInv, CreatorInv', NEW w \in Workers,
           UNCHANGED rows, pc'[w] # "write"
    PROVE  RosterInv'
BY OneActiveSame DEF RosterInv

LEMMA FailRoster ==
    ASSUME \A v, w \in Workers : v = w, RosterInv, CreatorInv', NEW w \in Workers, Fail(w)
    PROVE  RosterInv'
BY NoWriteRoster DEF Fail, Finish, Goto, tables, RosterInv, CreatorInv, Typed, MemoryOK

\* A request that computed its plan.
LEMMA PlanRoster ==
    ASSUME \A v, w \in Workers : v = w, RosterInv, CreatorInv', NEW w \in Workers,
           NEW pl, NEW c, Plan(w, pl, c, "write"), Roster(pl),
           req[w].kind = "member_delete" =>
             \E s \in Slots :
               /\ ActiveAt(req[w].group, req[w].object, s)
               /\ pl = Changes(Only(<<req[w].group, req[w].object, s>>, "deleted"), Nothing)
    PROVE  RosterInv'
<1>1. plan'[w] = pl /\ UNCHANGED <<rows, req>>
  BY DEF Plan, tables, RosterInv, CreatorInv, Typed, MemoryOK
<1>2. Roster(plan[w])'
  BY <1>1 DEF Roster, ActiveAt
<1>3. Removing(w)'
  BY <1>1 DEF Removing, ActiveAt
<1> QED
  BY <1>1, <1>2, <1>3, OneActiveSame DEF RosterInv

LEMMA ReadMemberRoster ==
    ASSUME \A v, w \in Workers : v = w, RosterInv, CreatorInv', NEW w \in Workers, ReadMember(w)
    PROVE  RosterInv'
<1> DEFINE g == req[w].group
           o == req[w].object
<1>1. /\ pc[w] \in {"read", "admin"} /\ RequestOK(req[w])
      /\ IF pc[w] = "admin" THEN req[w].kind = "group_create" ELSE req[w].kind \in MemberKinds
  BY RequestFacts DEF ReadMember, RosterInv, CreatorInv, Typed, WorkerOK, KindAt
<1>2. CASE Fail(w)
  BY <1>2, FailRoster
<1>3. CASE req[w].kind # "member_delete" /\ \E k, pl : pl \in JoinPlans(g, o, k) /\ Plan(w, pl, NoColumns, "write")
  <2>1. PICK k, pl : pl \in JoinPlans(g, o, k) /\ Plan(w, pl, NoColumns, "write")
    BY <1>3
  <2>2. Roster(pl)
    <3>1. CASE Active(g, o) = {}
      <4>1. \A s \in Slots : ~ ActiveAt(g, o, s)
        BY <3>1 DEF Active, Present, ActiveAt
      <4>2. pl = Changes(Nothing, Only(<<g, o>>, k))
        BY <2>1, <3>1 DEF JoinPlans
      <4>3. DOMAIN pl.state = {} /\ DOMAIN pl.add = {<<g, o>>}
        BY <4>2 DEF Changes, Nothing, Only
      <4> QED
        BY <4>1, <4>3 DEF Roster
    <3>2. CASE Active(g, o) # {}
      <4>1. DOMAIN pl.state = {} /\ DOMAIN pl.add = {}
        <5>1. \E id : pl = [state |-> Nothing, capacity |-> Only(id, k), add |-> Nothing]
          BY <2>1, <3>2 DEF JoinPlans
        <5> QED
          BY <5>1 DEF Nothing
      <4> QED
        BY <4>1 DEF Roster
    <3> QED
      BY <3>1, <3>2
  <2> QED
    BY <1>3, <2>1, <2>2, PlanRoster
<1>4. CASE \E pl \in LeavePlans(g, o) : Plan(w, pl, NoColumns, "write")
  <2>1. PICK s \in Active(g, o) :
          Plan(w, Changes(Only(<<g, o, s>>, "deleted"), Nothing), NoColumns, "write")
    BY <1>4 DEF LeavePlans
  <2>2. s \in Slots /\ ActiveAt(g, o, s)
    BY DEF Active, Present, ActiveAt
  <2>3. Roster(Changes(Only(<<g, o, s>>, "deleted"), Nothing))
    BY DEF Roster, Changes, Only, Nothing
  <2> QED
    BY <2>1, <2>2, <2>3, PlanRoster
<1>5. CASE ~ Fail(w)
  <2>1. CASE req[w].kind = "member_delete"
    <3>1. pc[w] = "read"
      BY <1>1, <2>1
    <3>2. \E pl \in LeavePlans(g, o) : Plan(w, pl, NoColumns, "write")
      BY <1>5, <2>1, <3>1 DEF ReadMember
    <3> QED
      BY <1>4, <3>2
  <2>2. CASE req[w].kind # "member_delete"
    <3>1. \E k, pl : pl \in JoinPlans(g, o, k) /\ Plan(w, pl, NoColumns, "write")
      BY <1>1, <1>5, <2>2 DEF ReadMember, MemberKinds
    <3> QED
      BY <1>3, <2>2, <3>1
  <2> QED
    BY <2>1, <2>2
<1> QED
  BY <1>2, <1>5

\* What a list of members inserts and changes.
LEMMA MemberSaveFacts ==
    ASSUME NEW g, NEW list, NEW objects, NEW pl \in MemberSavePlans(g, list, objects)
    PROVE  /\ \A pr \in DOMAIN pl.add : pr[1] = g /\ pr[2] \in DOMAIN list
           /\ \A id \in DOMAIN pl.state : /\ id[1] = g /\ id[2] \in objects
                                          /\ id[3] \in Present(g, id[2])
<1> DEFINE found == {k \in objects \X Capacities :
                        \E s \in Present(g, k[1]) : rows[<<g, k[1]>>][s].capacity = k[2]}
           wanted(k) == k[1] \in DOMAIN list /\ list[k[1]] = k[2]
           key(id) == <<id[2], rows[<<g, id[2]>>][id[3]].capacity>>
           wrong(id) == (rows[<<g, id[2]>>][id[3]].state = "active") # wanted(key(id))
<1>1. PICK pick \in {f \in [found -> Slots] : \A k \in found :
                        f[k] \in Present(g, k[1]) /\ rows[<<g, k[1]>>][f[k]].capacity = k[2]} :
        pl = Changes([id \in {x \in {g} \X objects \X Slots :
                                 /\ x[3] \in Present(g, x[2])
                                 /\ x[3] = pick[key(x)] /\ wrong(x)} |->
                         IF wanted(key(id)) THEN "active" ELSE "deleted"],
                      [pr \in {x \in {g} \X (DOMAIN list \cap objects) :
                                 <<x[2], list[x[2]]>> \notin found} |-> list[pr[2]]])
  BY DEF MemberSavePlans
<1> HIDE DEF found, wanted, key, wrong
<1>2. /\ DOMAIN pl.add = {x \in {g} \X (DOMAIN list \cap objects) :
                            <<x[2], list[x[2]]>> \notin found}
      /\ DOMAIN pl.state = {x \in {g} \X objects \X Slots :
                              /\ x[3] \in Present(g, x[2])
                              /\ x[3] = pick[key(x)] /\ wrong(x)}
  BY <1>1 DEF Changes
<1>3. \A pr \in DOMAIN pl.add : pr[1] = g /\ pr[2] \in DOMAIN list
  BY <1>2
<1>4. \A id \in DOMAIN pl.state : /\ id[1] = g /\ id[2] \in objects
                                 /\ id[3] \in Present(g, id[2])
  BY <1>2
<1> QED
  BY <1>3, <1>4

LEMMA ReadGroupRoster ==
    ASSUME \A v, w \in Workers : v = w, Kinds \subseteq RosterKinds, RosterInv, CreatorInv',
           NEW w \in Workers, ReadGroup(w)
    PROVE  RosterInv'
<1> DEFINE g == req[w].group
           k == req[w].kind
<1>1. /\ pc[w] = "read" /\ RequestOK(req[w]) /\ k \in {"group_create", "group_delete", "purge"}
  BY RequestFacts DEF ReadGroup, RosterInv, CreatorInv, Typed, WorkerOK, RequestOK, GroupKinds,
                      RosterKinds, MemberKinds
<1>2. CASE Fail(w)
  BY <1>2, FailRoster
<1>3. CASE ~ Fail(w)
  <2>1. PICK pl, c : /\ Plan(w, pl, c, "write")
                     /\ \/ \E b : pl = Changes(MarkedRows(g, b), Nothing)
                        \/ /\ k = "group_create"
                           /\ pl \in MemberSavePlans(g, req[w].list, Objects)
    BY <1>1, <1>3 DEF ReadGroup, GroupKinds
  <2>2. Roster(pl)
    <3>1. CASE \E b : pl = Changes(MarkedRows(g, b), Nothing)
      BY <3>1 DEF Roster, Changes, Nothing, MarkedRows
    <3>2. CASE k = "group_create" /\ pl \in MemberSavePlans(g, req[w].list, Objects)
      <4>1. g \in Groups /\ req[w].list \in Lists
        BY <1>1, <3>2 DEF RequestOK, GroupKinds
      <4>2. PlanOK(pl)
        BY <3>2, <4>1, MemberSaveOK
      <4>3. \A x \in Objects : BareOf(g, x)
        <5>1. Creating(w) /\ RowsOfGroups
          BY DEF RosterInv, CreatorInv
        <5> QED
          BY <1>1, <3>2, <4>1, <5>1 DEF Creating, RowsOfGroups
      <4>4. \A pr \in DOMAIN pl.add, s \in Slots : ~ ActiveAt(pr[1], pr[2], s)
        <5>1. \A pr \in DOMAIN pl.add : pr[1] = g /\ pr[2] \in Objects
          BY <3>2, <4>2, MemberSaveFacts DEF PlanOK, Pairs
        <5> QED
          BY <4>3, <5>1 DEF BareOf, ActiveAt
      <4>5. \A id \in DOMAIN pl.state : id[1] = g /\ id[2] \in Objects /\ id[3] \in Present(g, id[2])
        BY <3>2, MemberSaveFacts
      <4>6. DOMAIN pl.state = {}
        BY <4>3, <4>5 DEF BareOf, Present
      <4> QED
        BY <4>4, <4>6 DEF Roster
    <3> QED
      BY <2>1, <3>1, <3>2
  <2> QED
    BY <1>1, <2>1, <2>2, PlanRoster
<1> QED
  BY <1>2, <1>3

\* The commit of a removal leaves nobody behind.
LEMMA WriteRoster ==
    ASSUME \A v, w \in Workers : v = w, RosterInv, CreatorInv', NEW w \in Workers, Write(w)
    PROVE  /\ RosterInv'
           /\ req[w].kind = "member_delete" =>
                \A g \in {req[w].group}, o \in {req[w].object}, t \in Slots : ~ ActiveAt(g, o, t)'
<1>1. pc[w] = "write" /\ CommitChanges(plan[w], cols[w]) /\ Roster(plan[w]) /\ Removing(w)
  BY DEF Write, RosterInv
<1>2. OneActive'
  BY <1>1, OneActiveCommit DEF RosterInv
<1>3. pc'[w] \in {"idle", "admin", "purge"}
  BY DEF Write, Finish, Goto, RosterInv, CreatorInv, Typed, MemoryOK
<1>4. ASSUME req[w].kind = "member_delete", NEW g \in Groups, NEW o \in Objects,
             g = req[w].group, o = req[w].object, NEW t \in Slots, ActiveAt(g, o, t)'
      PROVE  FALSE
  <2>1. PICK s \in Slots : /\ ActiveAt(g, o, s)
                           /\ plan[w] = Changes(Only(<<g, o, s>>, "deleted"), Nothing)
    BY <1>1, <1>4 DEF Removing
  <2>2. DOMAIN plan[w].state = {<<g, o, s>>} /\ DOMAIN plan[w].add = {}
    BY <2>1 DEF Changes, Only, Nothing
  <2>3. ActiveAt(g, o, t) /\ t # s
    BY <1>1, <1>4, <2>2, RosterCommit
  <2> QED
    BY <2>1, <2>3 DEF RosterInv, OneActive
<1>5. req[w].kind = "member_delete" => req[w].group \in Groups /\ req[w].object \in Objects
  BY <1>1, RequestFacts DEF RosterInv, CreatorInv, Typed, WorkerOK, RequestOK, MemberKinds
<1> QED
  BY <1>2, <1>3, <1>4, <1>5 DEF RosterInv

\* No other step plans, or commits what was planned.
LEMMA OthersRoster ==
    ASSUME \A v, w \in Workers : v = w, Kinds \subseteq RosterKinds, RosterInv, CreatorInv',
           NEW w \in Workers,
           \/ Start(w) \/ Abort(w) \/ FlushFails(w) \/ LockPackage(w) \/ ReadPackage(w)
           \/ SaveMember(w) \/ AddMember(w) \/ ListPackages(w) \/ DeletePackage(w) \/ Purge(w)
    PROVE  RosterInv'
<1>1. CASE Start(w)
  <2>1. PICK r : pc' = [pc EXCEPT ![w] = FirstStep(r)] /\ UNCHANGED rows
    BY <1>1 DEF Start, Begin, Goto, tables
  <2>2. pc'[w] # "write"
    BY <2>1 DEF FirstStep, RosterInv, CreatorInv, Typed, MemoryOK
  <2> QED
    BY <2>1, <2>2, NoWriteRoster
<1>2. CASE Abort(w) \/ FlushFails(w)
  BY <1>2, FailRoster DEF Abort, FlushFails
<1>3. CASE LockPackage(w) \/ ReadPackage(w) \/ SaveMember(w) \/ AddMember(w)
  <2>1. pc[w] \in {"lock", "read", "save"}
    BY <1>3 DEF LockPackage, ReadPackage, SaveMember, AddMember
  <2>2. req[w].kind \in Kinds /\ KindAt(pc[w], req[w].kind)
    BY <2>1, RequestFacts DEF RosterInv, CreatorInv, Typed, WorkerOK, RequestOK
  <2>3. FALSE
    BY <1>3, <2>2 DEF LockPackage, ReadPackage, SaveMember, AddMember, KindAt, RosterKinds, MemberKinds
  <2> QED
    BY <2>3
<1>4. CASE ListPackages(w)
  <2>1. UNCHANGED rows /\ pc'[w] # "write"
    BY <1>4 DEF ListPackages, Fail, Finish, Goto, tables, RosterInv, CreatorInv, Typed, MemoryOK
  <2> QED
    BY <2>1, NoWriteRoster
<1>5. CASE DeletePackage(w)
  <2>1. UNCHANGED rows /\ pc'[w] # "write"
    BY <1>5 DEF DeletePackage, Goto, RosterInv, CreatorInv, Typed, MemoryOK
  <2> QED
    BY <2>1, NoWriteRoster
<1>6. CASE Purge(w)
  <2>1. \A h \in Groups, o \in Objects, s \in Slots : ActiveAt(h, o, s)' => ActiveAt(h, o, s)
    BY <1>6 DEF Purge, Pairs, tables, ActiveAt
  <2>2. pc'[w] = "idle"
    BY <1>6 DEF Purge, Finish, Goto, RosterInv, CreatorInv, Typed, MemoryOK
  <2>3. OneActive'
    BY <2>1 DEF OneActive, RosterInv
  <2> QED
    BY <2>2, <2>3 DEF RosterInv
<1> QED
  BY <1>1, <1>2, <1>3, <1>4, <1>5, <1>6

LEMMA NextRoster ==
    ASSUME \A v, w \in Workers : v = w, Kinds \subseteq RosterKinds, RosterInv, [Next]_vars
    PROVE  RosterInv'
<1>1. CreatorInv'
  BY NextCreating DEF RosterInv
<1>2. CASE UNCHANGED vars
  BY <1>1, <1>2 DEF vars, RosterInv, OneActive, Roster, Removing, ActiveAt
<1> QED
  BY <1>1, <1>2, ReadMemberRoster, ReadGroupRoster, WriteRoster, OthersRoster DEF Next, Step

\* Requests that run one after the other, of which none saves a list of members for a
\* group that exists, wherever they are killed: who was removed from a group is not in it
\* (RemovedAreOut of MCMembershipMixes).
THEOREM SequentialRemovedAreOut ==
    ASSUME \A v, w \in Workers : v = w, Kinds \subseteq RosterKinds
    PROVE  Spec => [][\A w \in Workers :
                       Write(w) /\ req[w].kind = "member_delete" =>
                         \A g \in {req[w].group}, o \in {req[w].object} : ~ Belongs(g, o)']_vars
<1>1. RosterInv /\ [Next]_vars => RosterInv'
  BY NextRoster
<1>2. RosterInv /\ Next =>
        \A w \in Workers :
          Write(w) /\ req[w].kind = "member_delete" =>
            \A g \in {req[w].group}, o \in {req[w].object} : ~ Belongs(g, o)'
  <2> SUFFICES ASSUME RosterInv, Next, NEW w \in Workers, Write(w), req[w].kind = "member_delete",
                      NEW g \in {req[w].group}, NEW o \in {req[w].object}
               PROVE  \A s \in Slots : ~ (rows'[<<g, o>>][s] # None
                                          /\ rows'[<<g, o>>][s].state = "active")
    BY DEF Belongs, Active, Present
  <2>1. CreatorInv'
    BY NextCreating DEF RosterInv
  <2> QED
    BY <2>1, WriteRoster DEF ActiveAt
<1>3. Init => RosterInv
  <2>1. Init => OneActive
    BY DEF Init, OneActive, ActiveAt, Pairs
  <2>2. ASSUME Init, NEW w \in Workers PROVE pc[w] # "write"
    BY <2>2 DEF Init
  <2> QED
    BY <2>1, <2>2, InitCreating DEF RosterInv
<1> QED
  BY <1>1, <1>2, <1>3, PTL DEF Spec

=============================================================================
