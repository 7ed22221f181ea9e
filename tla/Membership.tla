------------------------------ MODULE Membership ------------------------------
(***************************************************************************)
(* The member table: which datasets and which users belong to which groups  *)
(* and organizations, and the requests that change it.                      *)
(*                                                                         *)
(* A row of the table links an object (table_id) to a group (group_id) with *)
(* a capacity and a state; nothing in the schema keeps two rows of the same  *)
(* group and object from existing.  The organization of a dataset is kept    *)
(* twice: in the column owner_org of its package row and as a row of the     *)
(* member table with the capacity 'organization'.  Rows are not deleted but  *)
(* marked 'deleted', except when a group is purged.                          *)
(*                                                                         *)
(* Every request reads the rows it is about, computes what to change and     *)
(* commits; between the two other requests may commit.  Only an update of    *)
(* a dataset holds a lock meanwhile, the one of its package row, and it      *)
(* loses it at the first of its commits: package_owner_org_update commits    *)
(* once for each row of another organization it finds.                       *)
(*                                                                         *)
(* Abstractions: the hierarchy of groups (rows that link a group to a group) *)
(* is not modelled here; whether a dataset is private does not change; who   *)
(* may run a request is not modelled, except for the permission that         *)
(* package_membership_list_save asks for each group; a request names groups  *)
(* and objects that exist when it starts.                                    *)
(***************************************************************************)
EXTENDS Naturals, FiniteSets

CONSTANTS
    Packages,   \* datasets, by id
    Private,    \* those that are private
    Users,      \* users, by id
    Groups,     \* groups and organizations, by id
    Orgs,       \* those with is_organization
    Roles,      \* the capacities of users
    Lists,      \* the lists of members clients send to group_create and group_update
    Slots,      \* the rows of the table for one group and one object
    Workers,    \* web workers
    None,       \* no row, no group, no organization
    Kinds,      \* the kinds of requests the workers run
    Faults      \* TRUE: a worker may be killed

Objects == Packages \cup Users
Pairs == Groups \X Objects

\* The capacities of a dataset are the default and the one of its owner.
Capacities == Roles \cup {"public", "organization"}
States == {"active", "deleted"}
PackageStates == States \cup {"draft"}
Rows == [capacity : Capacities, state : States]

PackageKinds == {"package_create", "package_update", "owner_org", "package_delete"}
MemberKinds == {"member_create", "member_delete"}
GroupKinds == {"group_create", "group_update", "group_delete", "organization_delete", "purge"}

ASSUME RolesAssumption == Roles \subseteq {"admin", "editor", "member"} /\ "admin" \in Roles
ASSUME SetsAssumption == Private \subseteq Packages /\ Orgs \subseteq Groups
ASSUME DisjointAssumption == Packages \cap Users = {}
ASSUME NoneAssumption ==
    None \notin Rows \cup Groups \cup Packages \cup Users \cup Workers \cup PackageStates
ASSUME ListsAssumption ==
    \A l \in Lists : /\ DOMAIN l \subseteq Objects
                     /\ \A o \in DOMAIN l : IF o \in Packages THEN l[o] = "public"
                                            ELSE l[o] \in Roles
ASSUME KindsAssumption == Kinds \subseteq PackageKinds \cup MemberKinds \cup GroupKinds
ASSUME SlotsAssumption == IsFiniteSet(Slots) /\ IsFiniteSet(Workers)

VARIABLES
    rows,     \* the member table, by group and object
    owner,    \* the column owner_org of each dataset
    pstate,   \* the state of each dataset, None before it is created
    gstate,   \* the state of each group, None before it is created
    purged,   \* the groups that were purged
    lock,     \* the worker whose open transaction updated the package row
    pc,       \* the step each worker is at, "idle" between requests
    req,      \* the request it runs
    plan,     \* the changes to rows it has in memory, for its next commit
    cols,     \* those to the columns of its dataset or of its group
    move,     \* what package_owner_org_update has still to do after that commit
    left,     \* the rows, or the datasets, it has still to visit
    late      \* the datasets that came since a worker listed those of a group (a history)

tables == <<rows, owner, pstate, gstate, purged>>
memory == <<plan, cols, move, left>>
vars == <<rows, owner, pstate, gstate, purged, lock, pc, req, plan, cols, move, left, late>>

-----------------------------------------------------------------------------
(***************************************************************************)
(* Reading the member table.                                               *)
(***************************************************************************)
Present(g, o) == {s \in Slots : rows[<<g, o>>][s] # None}
Active(g, o) == {s \in Present(g, o) : rows[<<g, o>>][s].state = "active"}
Belongs(g, o) == Active(g, o) # {}

\* The rows that make a dataset a member of a group, and of its organization.
Listed(g, p) == {s \in Present(g, p) : rows[<<g, p>>][s].capacity # "organization"}
Owning(g, p) == Present(g, p) \ Listed(g, p)

\* Group.get: None before the group is created and once it is purged.
Exists(g) == gstate[g] # None

(***************************************************************************)
(* The changes a session flushes when it commits: the states and the        *)
(* capacities of rows, by group, object and slot, the rows it inserts, by    *)
(* group and object with their capacity, and the columns of the dataset and  *)
(* of the group.                                                             *)
(***************************************************************************)
Nothing == [x \in {} |-> None]
Only(x, v) == [y \in {x} |-> v]
Changes(state, add) == [state |-> state, capacity |-> Nothing, add |-> add]
NoChanges == Changes(Nothing, Nothing)
Columns(o, p, g) == [owner |-> o, pstate |-> p, gstate |-> g]
NoColumns == Columns(Nothing, Nothing, Nothing)

\* The organization package_owner_org_update has still to insert a row of, and
\* the rows it found deleted already.
NoMove == [join |-> None, marked |-> {}]

\* The values changes give, over those of a table.
Overlay(changes, table) ==
    [x \in DOMAIN table |-> IF x \in DOMAIN changes THEN changes[x] ELSE table[x]]

\* The row after the UPDATE of the columns that changed.
Updated(pl, g, o, s) ==
    LET r == rows[<<g, o>>][s]
        id == <<g, o, s>>
    IN  [capacity |-> IF id \in DOMAIN pl.capacity THEN pl.capacity[id] ELSE r.capacity,
         state |-> IF id \in DOMAIN pl.state THEN pl.state[id] ELSE r.state]

FreeSlot(g, o) == CHOOSE s \in Slots : rows[<<g, o>>][s] = None

Flushed(pl) ==
    [pr \in Pairs |-> [s \in Slots |->
        IF rows[pr][s] # None THEN Updated(pl, pr[1], pr[2], s)
        ELSE IF pr \in DOMAIN pl.add /\ s = FreeSlot(pr[1], pr[2])
          THEN [capacity |-> pl.add[pr], state |-> "active"]
          ELSE None]]

\* Mutant of Fits: the foreign key of group_id is missing.
FitsNoForeignKey(pl, c) ==
    /\ \A id \in DOMAIN pl.state \cup DOMAIN pl.capacity : rows[<<id[1], id[2]>>][id[3]] # None
    /\ \A g \in DOMAIN c.gstate : g \notin purged

\* A flush fails when a row to update was purged, of the member table or of the
\* group (StaleDataError), and when the group of a row to insert does not exist
\* (the foreign key of group_id).
Fits(pl, c) ==
    /\ \A id \in DOMAIN pl.state \cup DOMAIN pl.capacity : rows[<<id[1], id[2]>>][id[3]] # None
    /\ \A g \in DOMAIN c.gstate : g \notin purged
    /\ \A pr \in DOMAIN pl.add : Exists(pr[1]) \/ pr[1] \in DOMAIN c.gstate

CommitChanges(pl, c) ==
    /\ rows' = Flushed(pl)
    /\ owner' = Overlay(c.owner, owner)
    /\ pstate' = Overlay(c.pstate, pstate)
    /\ gstate' = Overlay(c.gstate, gstate)
    /\ UNCHANGED purged

Goto(w, label) == pc' = [pc EXCEPT ![w] = label]
Unlock(w) == lock' = [p \in Packages |-> IF lock[p] = w THEN None ELSE lock[p]]

NoRequest == [kind |-> "none"]

\* The end of a request: what was not committed is rolled back.
Finish(w) ==
    /\ Goto(w, "idle")
    /\ Unlock(w)
    /\ req' = [req EXCEPT ![w] = NoRequest]
    /\ plan' = [plan EXCEPT ![w] = NoChanges]
    /\ cols' = [cols EXCEPT ![w] = NoColumns]
    /\ move' = [move EXCEPT ![w] = NoMove]
    /\ left' = [left EXCEPT ![w] = {}]

Fail(w) == Finish(w) /\ UNCHANGED tables

-----------------------------------------------------------------------------
(***************************************************************************)
(* The requests, with what they are given: the groups a dataset is put in    *)
(* are not organizations; readable are the groups its user may read.         *)
(***************************************************************************)
Requests(k) ==
    CASE k \in {"package_create", "package_update"} ->
           [kind : {k}, pkg : Packages, owner : Orgs \cup {None},
            groups : SUBSET (Groups \ Orgs), readable : SUBSET Groups, state : PackageStates]
      [] k = "owner_org" -> [kind : {k}, pkg : Packages, owner : Orgs \cup {None}]
      [] k = "package_delete" -> [kind : {k}, pkg : Packages]
      [] k = "member_create" ->
           [kind : {k}, group : Groups, object : Packages, capacity : {"public"}]
           \cup [kind : {k}, group : Groups, object : Users, capacity : Roles]
      [] k = "member_delete" -> [kind : {k}, group : Groups, object : Objects]
      [] k = "group_create" ->
           [kind : {k}, group : Groups, object : Users, list : Lists, state : {"active"}]
      [] k = "group_update" -> [kind : {k}, group : Groups, list : Lists, state : States]
      [] k \in {"group_delete", "organization_delete"} ->
           [kind : {k}, group : Groups, byname : BOOLEAN]
      [] OTHER -> [kind : {k}, group : Groups]

\* What a request names exists, or is free for the one that creates it: the id
\* of a new dataset or group is a new one.
Nameable(r) ==
    CASE r.kind = "package_create" ->
           /\ pstate[r.pkg] = None
           /\ \A v \in Workers : req[v].kind = "package_create" => req[v].pkg # r.pkg
      [] r.kind \in {"package_update", "package_delete", "owner_org"} -> pstate[r.pkg] # None
      [] r.kind = "group_create" ->
           /\ ~ Exists(r.group) /\ r.group \notin purged
           /\ \A v \in Workers : req[v].kind = "group_create" => req[v].group # r.group
      [] OTHER -> Exists(r.group)

\* The datasets it names exist.  A private dataset is created in an organization; an update
\* may take the last one from it, and package_owner_org_update asks nothing.
Sensible(r) ==
    /\ r.kind = "package_create" => (r.pkg \in Private => r.owner # None)
    /\ r.kind = "package_update" =>
         (r.pkg \in Private => r.owner # None \/ owner[r.pkg] # None)
    /\ r.kind \in MemberKinds => (r.object \in Packages => pstate[r.object] # None)
    /\ r.kind \in {"group_create", "group_update"} =>
         \A o \in DOMAIN r.list : (o \in Packages => pstate[o] # None)

\* The bound on the rows of a group and an object: each request in progress
\* may insert one.
Room(r) ==
    LET busy == {w \in Workers : pc[w] # "idle"}
        inserts == CASE r.kind \in {"package_create", "package_update", "owner_org"} ->
                          Groups \X {r.pkg}
                     [] r.kind = "member_create" -> {<<r.group, r.object>>}
                     [] r.kind \in {"group_create", "group_update"} -> {r.group} \X Objects
                     [] OTHER -> {}
    IN  \A pr \in inserts : Cardinality(Slots \ Present(pr[1], pr[2])) > Cardinality(busy)

FirstStep(r) ==
    CASE r.kind \in {"package_create", "package_update", "package_delete"} -> "lock"
      [] r.kind = "organization_delete" -> "list"
      [] OTHER -> "read"

Begin(w, r) ==
    /\ pc[w] = "idle"
    /\ Nameable(r) /\ Sensible(r) /\ Room(r)
    /\ req' = [req EXCEPT ![w] = r]
    /\ Goto(w, FirstStep(r))
    /\ UNCHANGED <<tables, lock, memory>>

Start(w) == \E k \in Kinds : \E r \in Requests(k) : Begin(w, r)

\* The request computed what to change.
Plan(w, pl, c, label) ==
    /\ plan' = [plan EXCEPT ![w] = pl]
    /\ cols' = [cols EXCEPT ![w] = c]
    /\ Goto(w, label)
    /\ UNCHANGED <<tables, lock, req>>

-----------------------------------------------------------------------------
(***************************************************************************)
(* member_create and member_delete, of a user or of a dataset.             *)
(***************************************************************************)

\* Mutant of JoinPlans: the rows are not looked up.
JoinPlansBlind(g, o, c) == {Changes(Nothing, Only(<<g, o>>, c))}

\* The active row gets the capacity; without one a row is inserted.
JoinPlans(g, o, c) ==
    IF Active(g, o) = {}
      THEN {Changes(Nothing, Only(<<g, o>>, c))}
      ELSE {[state |-> Nothing, capacity |-> Only(<<g, o, s>>, c), add |-> Nothing] :
              s \in Active(g, o)}

\* One active row is marked deleted; without one there is nothing to do.
LeavePlans(g, o) == {Changes(Only(<<g, o, s>>, "deleted"), Nothing) : s \in Active(g, o)}

\* group_create ends with a member_create of its user as an administrator.
ReadMember(w) ==
    LET g == req[w].group
        o == req[w].object
        plans == IF ~ Exists(g) THEN {}
                 ELSE IF pc[w] = "admin" THEN JoinPlans(g, o, "admin")
                 ELSE IF req[w].kind = "member_create" THEN JoinPlans(g, o, req[w].capacity)
                 ELSE LeavePlans(g, o)
    IN  /\ pc[w] \in {"read", "admin"}
        /\ pc[w] = "read" => req[w].kind \in MemberKinds
        /\ \/ plans = {} /\ Fail(w)
           \/ \E pl \in plans : /\ Plan(w, pl, NoColumns, "write")
                                /\ UNCHANGED <<move, left>>

-----------------------------------------------------------------------------
(***************************************************************************)
(* package_create, package_update and package_owner_org_update.            *)
(***************************************************************************)

\* Mutant of LockPackage: the row is not locked.
LockPackageNot(w) ==
    /\ pc[w] = "lock"
    /\ req[w].kind # "package_delete"
    /\ Goto(w, "read")
    /\ UNCHANGED <<tables, lock, req, memory>>

\* The UPDATE of metadata_modified, or the INSERT of a new dataset; deleting a
\* dataset ends here.
LockPackage(w) ==
    LET p == req[w].pkg
    IN  /\ pc[w] = "lock"
        /\ lock[p] = None
        /\ IF req[w].kind = "package_delete"
             THEN /\ pstate' = [pstate EXCEPT ![p] = "deleted"]
                  /\ Finish(w)
                  /\ UNCHANGED <<rows, owner, gstate, purged>>
             ELSE /\ lock' = [lock EXCEPT ![p] = w]
                  /\ Goto(w, "read")
                  /\ UNCHANGED <<tables, req, memory>>

\* Mutant of ListPlans: a row that was marked deleted is not used again.
ListPlansOfActive(p, groups, readable) ==
    LET known == {g \in Groups : Active(g, p) \cap Listed(g, p) # {}}
    IN  {Changes([id \in {x \in (known \ groups) \X {p} \X Slots :
                            x[1] \in readable /\ x[3] \in Listed(x[1], p)} |-> "deleted"],
                 [pr \in {g \in (groups \cap readable) \ known : Exists(g)} \X {p} |-> "public"])}

\* package_membership_list_save: the rows of the groups the user may read are
\* marked deleted, or active, or inserted.  The code keeps one row by group in
\* a dictionary: which one, when there are several, is the database's choice.
ListPlans(p, groups, readable) ==
    LET listed == {g \in groups : Exists(g)}
        known == {g \in Groups : Listed(g, p) # {}}
        wrong(g, s) == (rows[<<g, p>>][s].state = "active") # (g \in listed)
    IN  {Changes([id \in {x \in (known \cap readable) \X {p} \X Slots :
                            x[3] = pick[x[1]] /\ wrong(x[1], x[3])} |->
                    IF id[1] \in listed THEN "active" ELSE "deleted"],
                 [pr \in ((listed \cap readable) \ known) \X {p} |-> "public"]) :
          pick \in {f \in [known -> Slots] : \A g \in known : f[g] \in Listed(g, p)}}

\* Mutant of Moving: the row of the new organization is inserted even if there
\* is one.
MovingAlwaysJoins(p, org) == [join |-> org, marked |-> {}]

\* package_owner_org_update: need_update is that join is not None.
Moving(p, org) ==
    [join |-> IF org = None \/ Owning(org, p) # {} THEN None ELSE org,
     marked |-> {id \in (Groups \ {org}) \X {p} \X Slots :
                   /\ id[3] \in Owning(id[1], p)
                   /\ rows[<<id[1], p>>][id[3]].state = "deleted"}]

\* Mutant of OwnerColumn: the column owner_org is not written.
OwnerColumnNot(p, org) == Nothing

\* Only a change is written.
OwnerColumn(p, org) == IF owner[p] = org THEN Nothing ELSE Only(p, org)

ReadPackage(w) ==
    LET p == req[w].pkg
        org == req[w].owner
        direct == req[w].kind = "owner_org"
        plans == IF direct THEN {NoChanges} ELSE ListPlans(p, req[w].groups, req[w].readable)
    IN  /\ pc[w] = "read"
        /\ req[w].kind \in {"package_create", "package_update", "owner_org"}
        /\ IF org # None /\ ~ Exists(org)
             THEN Fail(w)
             ELSE /\ \E pl \in plans :
                       Plan(w, pl, Columns(OwnerColumn(p, org),
                                           IF direct THEN Nothing ELSE Only(p, req[w].state),
                                           Nothing), "save")
                  /\ move' = [move EXCEPT ![w] = Moving(p, org)]
                  /\ left' = [left EXCEPT ![w] = {id \in (Groups \ {org}) \X {p} \X Slots :
                                                   id[3] \in Owning(id[1], p)}]

\* Only an UPDATE of the package row waits for its lock.
MayFlush(w) ==
    \A p \in DOMAIN cols[w].owner \cup DOMAIN cols[w].pstate : lock[p] \in {None, w}

\* What member_obj.save() of a row of another organization commits: everything
\* the session holds.
SavePlan(w, id) ==
    LET old == plan[w].state
    IN  IF id \in move[w].marked THEN plan[w]
        ELSE Changes([x \in DOMAIN old \cup {id} |-> IF x = id THEN "deleted" ELSE old[x]],
                     plan[w].add)

\* The lock of the package row is released.
SaveMember(w) ==
    /\ pc[w] = "save"
    /\ MayFlush(w)
    /\ \E id \in left[w] :
         /\ Fits(SavePlan(w, id), cols[w])
         /\ CommitChanges(SavePlan(w, id), cols[w])
         /\ left' = [left EXCEPT ![w] = @ \ {id}]
    /\ plan' = [plan EXCEPT ![w] = NoChanges]
    /\ cols' = [cols EXCEPT ![w] = NoColumns]
    /\ Unlock(w)
    /\ UNCHANGED <<pc, req, move>>

\* The last commit, with the row of the new organization.
AddPlan(w) ==
    LET old == plan[w].add
        new == IF move[w].join = None THEN {} ELSE {<<move[w].join, req[w].pkg>>}
    IN  Changes(plan[w].state,
                [pr \in DOMAIN old \cup new |-> IF pr \in new THEN "organization" ELSE old[pr]])

AddMember(w) ==
    /\ pc[w] = "save"
    /\ left[w] = {}
    /\ MayFlush(w)
    /\ Fits(AddPlan(w), cols[w])
    /\ CommitChanges(AddPlan(w), cols[w])
    /\ Finish(w)

-----------------------------------------------------------------------------
(***************************************************************************)
(* Groups and organizations.                                               *)
(***************************************************************************)

\* group_member_save: the list replaces the rows that are not in it, compared
\* by object and capacity.  The code keeps one row by object and capacity in a
\* dictionary: which one, when there are several, is the database's choice.
\* An update of an organization leaves its datasets alone.
MemberSavePlans(g, list, objects) ==
    LET found == {k \in objects \X Capacities :
                     \E s \in Present(g, k[1]) : rows[<<g, k[1]>>][s].capacity = k[2]}
        wanted(k) == k[1] \in DOMAIN list /\ list[k[1]] = k[2]
        key(id) == <<id[2], rows[<<g, id[2]>>][id[3]].capacity>>
        wrong(id) == (rows[<<g, id[2]>>][id[3]].state = "active") # wanted(key(id))
    IN  {Changes([id \in {x \in {g} \X objects \X Slots :
                            /\ x[3] \in Present(g, x[2])
                            /\ x[3] = pick[key(x)] /\ wrong(x)} |->
                    IF wanted(key(id)) THEN "active" ELSE "deleted"],
                 [pr \in {x \in {g} \X (DOMAIN list \cap objects) :
                            <<x[2], list[x[2]]>> \notin found} |-> list[pr[2]]]) :
          pick \in {f \in [found -> Slots] : \A k \in found :
                      f[k] \in Present(g, k[1]) /\ rows[<<g, k[1]>>][f[k]].capacity = k[2]}}

\* The filter of _group_or_org_delete compares with the id of the request, which
\* may be a name; a purge takes all the rows of the group.
MarkedRows(g, byname) ==
    [id \in {x \in {g} \X Objects \X Slots : ~ byname /\ x[3] \in Active(g, x[2])} |->
       "deleted"]

ReadGroup(w) ==
    LET g == req[w].group
        objects == IF req[w].kind = "group_update" /\ g \in Orgs THEN Users ELSE Objects
        plans == CASE req[w].kind \in {"group_delete", "organization_delete"} ->
                        {Changes(MarkedRows(g, req[w].byname), Nothing)}
                   [] req[w].kind = "purge" -> {Changes(MarkedRows(g, FALSE), Nothing)}
                   [] OTHER -> MemberSavePlans(g, req[w].list, objects)
        gcol == CASE req[w].kind \in {"group_delete", "organization_delete"} ->
                       Only(g, "deleted")
                  [] req[w].kind = "purge" -> Nothing
                  [] OTHER -> Only(g, req[w].state)
    IN  /\ pc[w] = "read"
        /\ req[w].kind \in GroupKinds
        /\ IF req[w].kind # "group_create" /\ ~ Exists(g)
             THEN Fail(w)
             ELSE \E pl \in plans : /\ Plan(w, pl, Columns(Nothing, Nothing, gcol), "write")
                                   /\ UNCHANGED <<move, left>>

\* model.repo.commit() of a request on members or on a group.  A group_create
\* goes on with the membership of its creator, a purge with the group itself.
Write(w) ==
    LET creating == req[w].kind = "group_create" /\ DOMAIN cols[w].gstate # {}
    IN  /\ pc[w] = "write"
        /\ Fits(plan[w], cols[w])
        /\ CommitChanges(plan[w], cols[w])
        /\ IF creating \/ req[w].kind = "purge"
             THEN /\ Goto(w, IF creating THEN "admin" ELSE "purge")
                  /\ plan' = [plan EXCEPT ![w] = NoChanges]
                  /\ cols' = [cols EXCEPT ![w] = NoColumns]
                  /\ UNCHANGED <<lock, req, move, left>>
             ELSE Finish(w)

\* A row to change is gone, or the group of a row to insert.
FlushFails(w) ==
    /\ \/ pc[w] = "write" /\ ~ Fits(plan[w], cols[w])
       \/ pc[w] = "save" /\ left[w] = {} /\ ~ Fits(AddPlan(w), cols[w])
       \/ pc[w] = "save" /\ \E id \in left[w] : ~ Fits(SavePlan(w, id), cols[w])
    /\ Fail(w)

\* The active public datasets with an active row of any capacity.
ShownBy(g, p) == p \notin Private /\ pstate[p] = "active" /\ Belongs(g, p)

\* Mutant of ListPackages: the rows of the owner are left out.
ListPackagesListed(w) ==
    /\ pc[w] = "list"
    /\ left' = [left EXCEPT ![w] = {p \in Packages \ Private :
                   Exists(req[w].group) /\ pstate[p] = "active"
                     /\ Active(req[w].group, p) \cap Listed(req[w].group, p) # {}}]
    /\ Goto(w, "delete")
    /\ UNCHANGED <<tables, lock, req, plan, cols, move>>

\* organization_delete, and not group_delete, goes through the datasets, of any group:
\* group.packages(with_private=True), which never uses that argument.
ListPackages(w) ==
    LET g == req[w].group
    IN  /\ pc[w] = "list"
        /\ IF ~ Exists(g)
             THEN Fail(w)
             ELSE /\ left' = [left EXCEPT ![w] = {p \in Packages : ShownBy(g, p)}]
                  /\ Goto(w, "delete")
                  /\ UNCHANGED <<tables, lock, req, plan, cols, move>>

\* One package_delete, with a commit of its own.
DeletePackage(w) ==
    /\ pc[w] = "delete"
    /\ \/ \E p \in left[w] :
            /\ lock[p] = None
            /\ pstate' = [pstate EXCEPT ![p] = "deleted"]
            /\ left' = [left EXCEPT ![w] = @ \ {p}]
            /\ UNCHANGED <<pc>>
       \/ /\ left[w] = {}
          /\ Goto(w, "read")
          /\ UNCHANGED <<pstate, left>>
    /\ UNCHANGED <<rows, owner, gstate, purged, lock, req, plan, cols, move>>

\* group.purge(): the rows of the group go with it, the owner_org of datasets
\* and the rows of other groups do not.
Purge(w) ==
    LET g == req[w].group
    IN  /\ pc[w] = "purge"
        /\ IF Exists(g)
             THEN /\ rows' = [pr \in Pairs |-> IF pr[1] = g THEN [s \in Slots |-> None]
                                               ELSE rows[pr]]
                  /\ gstate' = [gstate EXCEPT ![g] = None]
                  /\ purged' = purged \cup {g}
                  /\ UNCHANGED <<owner, pstate>>
             ELSE UNCHANGED tables
        /\ Finish(w)

-----------------------------------------------------------------------------
\* The worker is killed, or the database refuses: its transaction is rolled
\* back, what it committed before stays.
Abort(w) ==
    /\ Faults
    /\ pc[w] # "idle"
    /\ Fail(w)

Step(w) ==
    \/ ReadMember(w)
    \/ LockPackage(w) \/ ReadPackage(w) \/ SaveMember(w) \/ AddMember(w)
    \/ ReadGroup(w) \/ Write(w) \/ FlushFails(w) \/ ListPackages(w) \/ DeletePackage(w) \/ Purge(w)

\* A deletion that listed the datasets of its organization and has not ended.
Deleting(w) ==
    req[w].kind = "organization_delete" /\ pc[w] \in {"delete", "read", "write"}

\* History: what every step adds to the datasets that an organization being deleted shows.
Watch ==
    late' = [w \in Workers |->
               IF Deleting(w)'
                 THEN late[w] \cup {p \in Packages : /\ ShownBy(req[w].group, p)'
                                                     /\ ~ ShownBy(req[w].group, p)}
                 ELSE {}]

Next == (\E w \in Workers : Start(w) \/ Abort(w) \/ Step(w)) /\ Watch

\* Some of the datasets and groups exist, none is linked to another.
Init ==
    /\ rows = [pr \in Pairs |-> [s \in Slots |-> None]]
    /\ owner = [p \in Packages |-> None]
    /\ pstate \in [Packages -> {"active", None}]
    /\ \A p \in Private : pstate[p] = None
    /\ gstate \in [Groups -> {"active", None}]
    /\ purged = {}
    /\ lock = [p \in Packages |-> None]
    /\ pc = [w \in Workers |-> "idle"]
    /\ req = [w \in Workers |-> NoRequest]
    /\ plan = [w \in Workers |-> NoChanges]
    /\ cols = [w \in Workers |-> NoColumns]
    /\ move = [w \in Workers |-> NoMove]
    /\ left = [w \in Workers |-> {}]
    /\ late = [w \in Workers |-> {}]

Spec == Init /\ [][Next]_vars
-----------------------------------------------------------------------------
(***************************************************************************)
(* Properties.                                                             *)
(***************************************************************************)
Labels == {"idle", "lock", "read", "admin", "save", "list", "delete", "write", "purge"}
RowIds == Groups \X Objects \X Slots

\* The values of the tables: every row has a capacity and a state, and the rows
\* of a group go when it is purged.
TypeOK ==
    /\ rows \in [Pairs -> [Slots -> Rows \cup {None}]]
    /\ owner \in [Packages -> Orgs \cup {None}]
    /\ pstate \in [Packages -> PackageStates \cup {None}]
    /\ gstate \in [Groups -> States \cup {None}]
    /\ \A g \in purged, o \in Objects : Present(g, o) = {}
    /\ lock \in [Packages -> Workers \cup {None}]
    /\ \A w \in Workers :
         /\ pc[w] \in Labels
         /\ req[w] = NoRequest \/ \E k \in Kinds : req[w] \in Requests(k)
         /\ DOMAIN plan[w].state \cup DOMAIN plan[w].capacity \subseteq RowIds
         /\ DOMAIN plan[w].add \subseteq Pairs
         /\ left[w] \subseteq RowIds \cup Packages

Quiet == \A w \in Workers : pc[w] = "idle"

\* A dataset has at most one row of each group it is in, whatever updates of it
\* run at the same time: they read and write its rows under the lock of its row.
OneRowPerGroup ==
    \A g \in Groups, p \in Packages : \A s, t \in Listed(g, p) : s = t

InGroup(g, p) == Active(g, p) \cap Listed(g, p) # {}

\* When an update of a dataset commits the groups it was given, the dataset is
\* in exactly those, among the groups the user may read: what another update
\* did meanwhile is neither mixed with it nor lost under it.
GroupsAsListed ==
    [][\A w \in Workers :
         (SaveMember(w) \/ AddMember(w)) /\ DOMAIN cols[w].pstate # {} =>
           \A p \in {req[w].pkg}, g \in req[w].readable :
             Exists(g) => (InGroup(g, p)' <=> g \in req[w].groups)]_vars

OwnedBy(g, p) == Active(g, p) \cap Owning(g, p) # {}

\* A dataset has one active row of one organization, also when a request is
\* killed between the commits of package_owner_org_update.
OneOrganization ==
    \A p \in Packages, g, h \in Groups :
      \A s \in Active(g, p) \cap Owning(g, p), t \in Active(h, p) \cap Owning(h, p) :
        g = h /\ s = t

\* Between requests, the organization that the member table gives a dataset is
\* the one of its package row.
OrganizationIsOwner ==
    Quiet => \A p \in Packages, g \in Groups : OwnedBy(g, p) => owner[p] = g

\* The other direction: the owner of a dataset has it in its member table.
OwnerIsOrganization ==
    Quiet => \A p \in Packages : owner[p] # None => OwnedBy(owner[p], p)

\* When organization_delete commits the end of an organization, each public dataset that
\* is active and still has an active row of it came after the datasets were listed: a request
\* that made it a member or active in between.  Drafts and private datasets stay.
DatasetsGoWithOrganization ==
    [][\A w \in Workers :
         Write(w) /\ req[w].kind = "organization_delete" =>
           \A p \in Packages : ShownBy(req[w].group, p) => p \in late[w]]_vars

\* A request that created a group leaves its user an administrator of it.
CreatorIsAdmin ==
    [][\A w \in Workers :
         req[w].kind = "group_create" /\ pc'[w] = "idle" =>
           \A g \in {req[w].group}, u \in {req[w].object} : Exists(g)' =>
             \E s \in Active(g, u)' : rows'[<<g, u>>][s].capacity = "admin"]_vars
=============================================================================
