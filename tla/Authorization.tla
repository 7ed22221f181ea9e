---------------------------- MODULE Authorization ----------------------------
(***************************************************************************)
(* Who may do what: roles in groups and organizations, the hierarchy they  *)
(* cascade through, and the decisions of ckan/authz.py and                 *)
(* ckan/logic/auth/ on datasets and groups (ckan/model/group.py holds the  *)
(* recursive queries).                                                     *)
(*                                                                         *)
(* A request is one step: the check, the validators and what is written.   *)
(* What interleaves inside of a request is the subject of Membership, and  *)
(* so are the rows of datasets in groups: which datasets organization_delete *)
(* takes with a group is any choice here.                                  *)
(***************************************************************************)
EXTENDS Integers, FiniteSets

CONSTANTS
    Users,        \* accounts
    Sysadmins,    \* the accounts with the sysadmin flag
    Groups,       \* groups and organizations
    TypeOf,       \* the type of each of them
    Packages,     \* datasets
    Configs,      \* settings of ckan.auth.*
    MaxRecurses,  \* the bound of the recursive queries
    Members,      \* bound: the accounts that found groups, join and leave them
    MaxSize,      \* bound: links between groups, datasets and deleted accounts
    References,   \* how a request to delete names its group: "id" or "name"
    None          \* no user, no group, no role

ASSUME AuthorizationAssumption ==
    /\ Sysadmins \subseteq Users
    /\ IsFiniteSet(Groups)
    /\ TypeOf \in [Groups -> {"group", "organization"}]
    /\ MaxRecurses \in Nat /\ MaxSize \in Nat
    /\ Members \subseteq Users
    /\ References \subseteq {"id", "name"}
    /\ None \notin Users \cup Groups

ConfigPermissions == {"anon_create_dataset", "create_dataset_if_not_in_organization",
                      "create_unowned_dataset", "user_create_groups",
                      "user_create_organizations", "user_delete_groups",
                      "user_delete_organizations"}

ASSUME NoneIsNoRole == None \notin {"admin", "editor", "member"}

\* ROLE_PERMISSIONS.
Permissions == [
    admin  |-> {"admin"},
    editor |-> {"read", "delete_dataset", "create_dataset", "update_dataset", "manage_group"},
    member |-> {"read", "manage_group"}]

Roles == DOMAIN Permissions

ASSUME ConfigsAssumption ==
    Configs \subseteq [on: SUBSET ConfigPermissions, cascade: SUBSET {"admin", "editor", "member"}]

VARIABLES
    config,    \* the settings of this portal
    role,      \* active rows of users in the member table
    parents,   \* active rows of groups in the member table: the parents of a group
    gstate,    \* state of a group
    ustate,    \* state of an account
    pkg        \* owner_org, private and state of a dataset

vars == <<config, role, parents, gstate, ustate, pkg>>

Actors == Users \cup {None}
GroupStates == {"none", "active", "deleted"}
PackageRecords ==
    [owner: Groups \cup {None}, private: BOOLEAN, state: {"none", "draft", "active", "deleted"}]
NoPackage == [owner |-> None, private |-> FALSE, state |-> "none"]

\* Types, and only groups there are have rows.
TypeOK ==
    /\ config \in Configs
    /\ role \in [Groups -> [Users -> Roles \cup {None}]]
    /\ parents \in [Groups -> SUBSET Groups]
    /\ gstate \in [Groups -> GroupStates]
    /\ ustate \in [Users -> {"active", "deleted"}]
    /\ pkg \in [Packages -> PackageRecords]
    /\ \A g \in Groups : gstate[g] = "none" =>
           /\ parents[g] = {}
           /\ \A u \in Users : role[g][u] = None

Init ==
    /\ config \in Configs
    /\ role = [g \in Groups |-> [u \in Users |-> None]]
    /\ parents = [g \in Groups |-> {}]
    /\ gstate = [g \in Groups |-> "none"]
    /\ ustate = [u \in Users |-> "active"]
    /\ pkg = [p \in Packages |-> NoPackage]

-----------------------------------------------------------------------------
(***************************************************************************)
(* The hierarchy.  Both queries follow the active rows between groups,     *)
(* whatever the state of the groups, and keep the active groups of one     *)
(* type at the end.                                                        *)
(***************************************************************************)
ChildrenOf(gs) == {c \in Groups : parents[c] \cap gs # {}}
ParentsOf(gs) == UNION {parents[g] : g \in gs}

ActiveOfType(gs, type) == {g \in gs : gstate[g] = "active" /\ TypeOf[g] = type}

\* get_children_group_hierarchy: depth counts from 0, the recursive term runs
\* while the depth of the row it extends is below MAX_RECURSES.
ChildrenGroups(g, type) ==
    LET depth[n \in 0 .. MaxRecurses] ==
          IF n = 0 THEN ChildrenOf({g}) ELSE ChildrenOf(depth[n - 1])
    IN  ActiveOfType(UNION {depth[n] : n \in 0 .. MaxRecurses}, type)

\* Mutant of ParentGroups: one level only.
ParentGroupsOneLevel(g, type) == ActiveOfType(ParentsOf({g}), type)

ParentGroups(g, type) ==
    LET depth[n \in 0 .. MaxRecurses] ==
          IF n = 0 THEN ParentsOf({g}) ELSE ParentsOf(depth[n - 1])
    IN  ActiveOfType(UNION {depth[n] : n \in 0 .. MaxRecurses}, type)

AllowedParents(g) ==
    ActiveOfType(Groups, TypeOf[g]) \ (ChildrenGroups(g, TypeOf[g]) \cup {g})

\* navl hands the validators the flattened dictionary, whose keys are tuples:
\* 'id' is never one of them.
IdInData == FALSE

\* no_loops_in_hierarchy returns early for what it takes to be a new group.
NoLoopsInHierarchy(g, ps) == IdInData => ps \subseteq AllowedParents(g)

-----------------------------------------------------------------------------
(***************************************************************************)
(* Permissions.                                                            *)
(***************************************************************************)
RolesWith(permission) ==
    {r \in Roles : permission \in Permissions[r] \/ "admin" \in Permissions[r]}

On(permissions) == permissions \subseteq config.on

\* Mutant of HasPermission: every role cascades.
HasPermissionAllCascade(u, g, permission) ==
    /\ u # None /\ g # None
    /\ gstate[g] # "none"
    /\ \/ u \in Sysadmins
       \/ role[g][u] \in RolesWith(permission)
       \/ \E h \in ParentGroups(g, TypeOf[g]) : role[h][u] \in RolesWith(permission)

\* has_user_permission_for_group_or_org.
HasPermission(u, g, permission) ==
    /\ u # None /\ g # None
    /\ gstate[g] # "none"
    /\ \/ u \in Sysadmins
       \/ role[g][u] \in RolesWith(permission)
       \/ \E h \in ParentGroups(g, TypeOf[g]) :
            role[h][u] \in RolesWith(permission) \cap config.cascade

HasPermissionForSomeOrg(u, permission) ==
    /\ u # None
    /\ \E g \in ActiveOfType(Groups, "organization") : role[g][u] \in RolesWith(permission)

\* is_authorized: a deleted account is never authorized, a sysadmin always, and
\* nobody is asked to do what needs an account without one.
Authorized(a, anonymous, allowed) ==
    /\ a # None => ustate[a] # "deleted"
    /\ \/ a \in Sysadmins
       \/ (a # None \/ anonymous) /\ allowed

Unowned(a) ==
    \/ On({"create_dataset_if_not_in_organization", "create_unowned_dataset"})
       /\ (a = None => On({"anon_create_dataset"}))
    \/ HasPermissionForSomeOrg(a, "create_dataset")

MayCreatePackage(a, org) ==
    Authorized(a, TRUE, Unowned(a) /\ (org # None => HasPermission(a, org, "create_dataset")))

\* Mutant of MayUpdatePackage: whoever may add datasets to some organization may
\* edit those of any.
MayUpdatePackageOfAnyOrg(a, p) == Authorized(a, TRUE, Unowned(a))

MayUpdatePackage(a, p) ==
    Authorized(a, TRUE, IF pkg[p].owner # None
                          THEN HasPermission(a, pkg[p].owner, "update_dataset")
                          ELSE Unowned(a))

MayShowPackage(a, p) ==
    Authorized(a, TRUE,
        \/ pkg[p].state = "draft" /\ MayUpdatePackage(a, p)
        \/ pkg[p].state = "active" /\ (pkg[p].owner = None \/ ~ pkg[p].private)
        \/ pkg[p].state # "draft" /\ HasPermission(a, pkg[p].owner, "read"))

\* The validator of owner_org.
ValidOwner(a, org) ==
    IF org = None THEN On({"create_unowned_dataset"})
    ELSE /\ gstate[org] # "none"
         /\ a \in Sysadmins \/ HasPermission(a, org, "create_dataset")

\* The setting is the one of the action, whatever the type of the group it is given.
ConfigFor(verb, kind) ==
    On({CASE verb = "create" /\ kind = "group" -> "user_create_groups"
          [] verb = "create" /\ kind = "organization" -> "user_create_organizations"
          [] verb = "delete" /\ kind = "group" -> "user_delete_groups"
          [] verb = "delete" /\ kind = "organization" -> "user_delete_organizations"})

MayUpdateGroup(a, g) == Authorized(a, FALSE, HasPermission(a, g, "update"))
MayDeleteGroup(a, g, kind) ==
    Authorized(a, FALSE, ConfigFor("delete", kind) /\ HasPermission(a, g, "delete"))
MayAddMember(a, g) == Authorized(a, FALSE, HasPermission(a, g, "membership"))

\* organization_list_for_user.
OrganizationsFor(u, permission) ==
    LET listed == {g \in Groups : role[g][u] \in RolesWith(permission)}
        cascading == {g \in listed : role[g][u] \in config.cascade}
    IN  ActiveOfType(listed \cup UNION {ChildrenGroups(g, "organization") : g \in cascading},
                     "organization")

-----------------------------------------------------------------------------
(***************************************************************************)
(* Requests.                                                               *)
(***************************************************************************)
Size(links, datasets, accounts) ==
    Cardinality({l \in Groups \X Groups : l[2] \in links[l[1]]})
         + Cardinality({p \in Packages : datasets[p].state # "none"})
         + Cardinality({u \in Users : accounts[u] = "deleted"})

SetParents(g, ps) ==
    /\ NoLoopsInHierarchy(g, ps)
    /\ parents' = [parents EXCEPT ![g] = ps]

\* The creator becomes an administrator.
GroupCreate(a, g, ps) ==
    /\ gstate[g] = "none"
    /\ a \in Members /\ Authorized(a, FALSE, ConfigFor("create", TypeOf[g]))
    /\ SetParents(g, ps)
    /\ gstate' = [gstate EXCEPT ![g] = "active"]
    /\ role' = [role EXCEPT ![g][a] = "admin"]
    /\ UNCHANGED <<config, ustate, pkg>>

\* group_update with the users of the group as they are.  The state is kept from
\* an administrator of the group (ignore_not_group_admin).
GroupUpdate(a, g, ps, state) ==
    /\ gstate[g] # "none"
    /\ MayUpdateGroup(a, g)
    /\ SetParents(g, ps)
    /\ gstate' = [gstate EXCEPT ![g] = state]
    /\ UNCHANGED <<config, role, ustate, pkg>>

\* The rows are matched with the identifier of the request, so a name matches none.
EndGroup(g, reference) ==
    /\ gstate' = [gstate EXCEPT ![g] = "deleted"]
    /\ IF reference = "id"
         THEN /\ role' = [role EXCEPT ![g] = [u \in Users |-> None]]
              /\ parents' = [h \in Groups |-> IF h = g THEN {} ELSE parents[h] \ {g}]
         ELSE UNCHANGED <<role, parents>>
    /\ UNCHANGED <<config, ustate>>

\* group_delete, which leaves the datasets.
GroupDelete(a, g, reference) ==
    /\ gstate[g] # "none"
    /\ MayDeleteGroup(a, g, "group")
    /\ EndGroup(g, reference)
    /\ UNCHANGED pkg

\* organization_delete, with the datasets the group shows.
OrganizationDelete(a, g, reference, shown) ==
    /\ gstate[g] # "none"
    /\ MayDeleteGroup(a, g, "organization")
    /\ \A p \in shown : pkg[p].state = "active" /\ ~ pkg[p].private
    /\ EndGroup(g, reference)
    /\ pkg' = [p \in Packages |-> IF p \in shown THEN [pkg[p] EXCEPT !.state = "deleted"]
                                  ELSE pkg[p]]

GroupMemberCreate(a, g, u, r) ==
    /\ gstate[g] # "none"
    /\ MayAddMember(a, g) /\ MayUpdateGroup(a, g)
    /\ role' = [role EXCEPT ![g][u] = r]
    /\ UNCHANGED <<config, parents, gstate, ustate, pkg>>

GroupMemberDelete(a, g, u) ==
    /\ role[g][u] # None
    /\ MayUpdateGroup(a, g)
    /\ role' = [role EXCEPT ![g][u] = None]
    /\ UNCHANGED <<config, parents, gstate, ustate, pkg>>

SavePackage(p, org, private, state) ==
    /\ pkg' = [pkg EXCEPT ![p] = [owner |-> org, private |-> private, state |-> state]]
    /\ UNCHANGED <<config, role, parents, gstate, ustate>>

PackageCreate(a, p, org, private, state) ==
    /\ pkg[p].state = "none"
    /\ MayCreatePackage(a, org) /\ ValidOwner(a, org)
    /\ private => org # None
    /\ SavePackage(p, org, private, state)

\* What an update omits stays, unseen by the validators.  A dataset that it makes private
\* needs an owner, a new one or the one it has: so it may take the owner of a private dataset.
PackageUpdate(a, p, org, private, state) ==
    /\ pkg[p].state # "none"
    /\ MayUpdatePackage(a, p)
    /\ org = pkg[p].owner \/ ValidOwner(a, org)
    /\ private => pkg[p].private \/ org # None \/ pkg[p].owner # None
    /\ SavePackage(p, org, private, state)

\* package_delete is authorized as an update.
PackageDelete(a, p) ==
    /\ pkg[p].state # "none"
    /\ MayUpdatePackage(a, p)
    /\ pkg' = [pkg EXCEPT ![p].state = "deleted"]
    /\ UNCHANGED <<config, role, parents, gstate, ustate>>

UserDelete(a, u) ==
    /\ Authorized(a, FALSE, FALSE)
    /\ ustate' = [ustate EXCEPT ![u] = "deleted"]
    /\ UNCHANGED <<config, role, parents, gstate, pkg>>

Organizations == {g \in Groups : TypeOf[g] = "organization"}

Request(a) ==
    \/ \E g \in Groups :
         \/ \E ps \in SUBSET ActiveOfType(Groups, TypeOf[g]) :
              \/ GroupCreate(a, g, ps)
              \/ \E s \in {"active", "deleted"} : GroupUpdate(a, g, ps, s)
         \/ \E ref \in References :
              \/ GroupDelete(a, g, ref)
              \/ \E shown \in SUBSET Packages : OrganizationDelete(a, g, ref, shown)
         \/ \E u \in Members :
              \/ \E r \in Roles : GroupMemberCreate(a, g, u, r)
              \/ GroupMemberDelete(a, g, u)
    \/ \E p \in Packages :
         \/ \E org \in Organizations \cup {None}, private \in BOOLEAN :
              \/ \E s \in {"draft", "active"} : PackageCreate(a, p, org, private, s)
              \/ \E s \in {"draft", "active", "deleted"} : PackageUpdate(a, p, org, private, s)
         \/ PackageDelete(a, p)
    \/ \E u \in Members : UserDelete(a, u)

Next ==
    /\ \E a \in Actors : Request(a)
    /\ Size(parents', pkg', ustate') =< MaxSize

Spec == Init /\ [][Next]_vars

-----------------------------------------------------------------------------
(***************************************************************************)
(* Properties.                                                             *)
(***************************************************************************)

Permitted(u, permission) ==
    {g \in ActiveOfType(Groups, "organization") : HasPermission(u, g, permission)}

\* One of each kind: what every role may do, what editors may, what only
\* administrators may.
AllPermissions == {"read", "create_dataset", "update"}

\* A group that is deleted and still has rows.
Remains(g) ==
    /\ gstate[g] = "deleted"
    /\ parents[g] # {} \/ (\E u \in Users : role[g][u] # None)

\* organization_list_for_user, which looks down from the roles of a user, offers every
\* organization that has_user_permission_for_group_or_org, which looks up from the
\* organization, would accept; and no other, as long as no deleted group has kept its
\* rows.
ListedArePermitted ==
    \A u \in Users \ Sysadmins, permission \in AllPermissions :
        /\ Permitted(u, permission) \subseteq OrganizationsFor(u, permission)
        /\ (~ \E g \in Groups : Remains(g)) =>
             OrganizationsFor(u, permission) \subseteq Permitted(u, permission)

\* Whoever may edit a dataset may see it: package_update shows the dataset it
\* has saved.  The one exception is a deleted dataset without an owner.
EditorsSee ==
    \A a \in Actors, p \in Packages :
        /\ pkg[p].state # "none"
        /\ MayUpdatePackage(a, p)
        /\ pkg[p].state = "deleted" => pkg[p].owner # None
        => MayShowPackage(a, p)

\* A permission outside of one's own roles comes from a role that cascades, on
\* an active group above: the bounded recursion finds what an unbounded walk
\* over the links would find.
Above(g) ==
    LET walk[n \in 0 .. Cardinality(Groups)] ==
          IF n = 0 THEN {} ELSE ParentsOf({g} \cup walk[n - 1])
    IN  walk[Cardinality(Groups)]

PermissionsComeFromAbove ==
    \A u \in Users \ Sysadmins, g \in Groups, permission \in AllPermissions :
        gstate[g] # "none" =>
        (HasPermission(u, g, permission) <=>
           \E h \in Groups :
               /\ role[h][u] \in RolesWith(permission)
               /\ \/ h = g
                  \/ /\ h \in Above(g) /\ role[h][u] \in config.cascade
                     /\ gstate[h] = "active" /\ TypeOf[h] = TypeOf[g])

\* no_loops_in_hierarchy "Checks that the parent groups specified in the data
\* would not cause a loop in the group hierarchy".
NoLoops == \A g \in Groups : g \notin Above(g)
=============================================================================
