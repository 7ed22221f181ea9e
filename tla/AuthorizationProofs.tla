-------------------------- MODULE AuthorizationProofs --------------------------
(***************************************************************************)
(* Proofs about Authorization: the tables are well-formed, and whoever may  *)
(* edit a dataset may see it, for any accounts, groups, hierarchies,        *)
(* configurations and bounds of the recursive queries.                      *)
(***************************************************************************)
EXTENDS Authorization, FiniteSetTheorems, WellFoundedInduction, TLAPS

-----------------------------------------------------------------------------
(***************************************************************************)
(* Typing.                                                                 *)
(***************************************************************************)
LEMMA InitType == Init => TypeOK
<1> SUFFICES ASSUME Init PROVE TypeOK
  OBVIOUS
<1>1. pkg \in [Packages -> PackageRecords]
  BY DEF Init, NoPackage, PackageRecords
<1> QED BY <1>1 DEF Init, TypeOK, NoPackage, GroupStates

LEMMA TypeStutters == TypeOK /\ UNCHANGED vars => TypeOK'
BY DEF TypeOK, vars

\* A group gets the parents it is given, which are groups, when it is there.
LEMMA SetParentsType ==
    ASSUME TypeOK, NEW g \in Groups, NEW ps \in SUBSET Groups, SetParents(g, ps)
    PROVE  /\ parents' \in [Groups -> SUBSET Groups]
           /\ \A h \in Groups : h # g => parents'[h] = parents[h]
BY DEF TypeOK, SetParents

LEMMA ActiveAreGroups ==
    ASSUME NEW type PROVE ActiveOfType(Groups, type) \subseteq Groups
BY DEF ActiveOfType

LEMMA GroupCreateType ==
    ASSUME TypeOK, NEW a \in Actors, NEW g \in Groups, NEW ps \in SUBSET Groups,
           GroupCreate(a, g, ps)
    PROVE  TypeOK'
<1>1. a \in Users
  BY AuthorizationAssumption DEF GroupCreate
<1>2. "admin" \in Roles
  BY DEF Roles, Permissions
<1>3. role' \in [Groups -> [Users -> Roles \cup {None}]]
  BY <1>1, <1>2 DEF GroupCreate, TypeOK
<1>4. /\ parents' \in [Groups -> SUBSET Groups]
      /\ \A h \in Groups : h # g => parents'[h] = parents[h]
  BY SetParentsType DEF GroupCreate
<1>5. gstate' \in [Groups -> GroupStates] /\ gstate'[g] = "active"
  BY DEF GroupCreate, TypeOK, GroupStates
<1>6. \A h \in Groups : h # g => role'[h] = role[h] /\ gstate'[h] = gstate[h]
  BY DEF GroupCreate, TypeOK
<1> QED BY <1>3, <1>4, <1>5, <1>6 DEF TypeOK, GroupCreate

LEMMA GroupUpdateType ==
    ASSUME TypeOK, NEW a \in Actors, NEW g \in Groups, NEW ps \in SUBSET Groups,
           NEW s \in {"active", "deleted"}, GroupUpdate(a, g, ps, s)
    PROVE  TypeOK'
<1>1. /\ parents' \in [Groups -> SUBSET Groups]
      /\ \A h \in Groups : h # g => parents'[h] = parents[h]
  BY SetParentsType DEF GroupUpdate
<1>2. gstate' \in [Groups -> GroupStates] /\ gstate'[g] # "none"
  BY DEF GroupUpdate, TypeOK, GroupStates
<1>3. \A h \in Groups : h # g => gstate'[h] = gstate[h]
  BY DEF GroupUpdate, TypeOK
<1> QED BY <1>1, <1>2, <1>3 DEF TypeOK, GroupUpdate

LEMMA EndGroupType ==
    ASSUME TypeOK, NEW g \in Groups, gstate[g] # "none", NEW ref, EndGroup(g, ref),
           pkg' \in [Packages -> PackageRecords]
    PROVE  TypeOK'
<1>1. /\ gstate' \in [Groups -> GroupStates] /\ gstate'[g] # "none"
      /\ \A h \in Groups : h # g => gstate'[h] = gstate[h]
  BY DEF EndGroup, TypeOK, GroupStates
<1>2. /\ role' \in [Groups -> [Users -> Roles \cup {None}]]
      /\ \A h \in Groups : h # g => role'[h] = role[h]
  BY DEF EndGroup, TypeOK
<1>3. /\ parents' \in [Groups -> SUBSET Groups]
      /\ \A h \in Groups : parents'[h] \subseteq parents[h]
  <2>1. parents \in [Groups -> SUBSET Groups]
    BY DEF TypeOK
  <2>2. parents' = parents \/ parents' = [h \in Groups |-> IF h = g THEN {} ELSE parents[h] \ {g}]
    BY DEF EndGroup
  <2>3. \A h \in Groups : parents'[h] \subseteq parents[h]
    BY <2>1, <2>2
  <2>4. DOMAIN parents' = Groups /\ \A h \in Groups : parents'[h] \subseteq Groups
    BY <2>1, <2>2
  <2> QED BY <2>1, <2>2, <2>3, <2>4
<1>4. ASSUME NEW h \in Groups, gstate'[h] = "none"
      PROVE  parents'[h] = {} /\ \A u \in Users : role'[h][u] = None
  BY <1>1, <1>2, <1>3, <1>4 DEF TypeOK
<1> QED BY <1>1, <1>2, <1>3, <1>4 DEF TypeOK, EndGroup

LEMMA GroupDeleteType ==
    ASSUME TypeOK, NEW a \in Actors, NEW g \in Groups, NEW ref,
           \/ GroupDelete(a, g, ref)
           \/ \E shown \in SUBSET Packages : OrganizationDelete(a, g, ref, shown)
    PROVE  TypeOK'
<1>1. pkg' \in [Packages -> PackageRecords]
  <2>1. pkg \in [Packages -> PackageRecords]
    BY DEF TypeOK
  <2>2. CASE UNCHANGED pkg
    BY <2>1, <2>2
  <2>3. ASSUME NEW shown \in SUBSET Packages, OrganizationDelete(a, g, ref, shown)
        PROVE  pkg' \in [Packages -> PackageRecords]
    <3>1. \A p \in Packages : [pkg[p] EXCEPT !.state = "deleted"] \in PackageRecords
      BY <2>1 DEF PackageRecords
    <3> QED BY <2>1, <2>3, <3>1 DEF OrganizationDelete
  <2> QED BY <2>2, <2>3 DEF GroupDelete
<1>2. gstate[g] # "none" /\ EndGroup(g, ref)
  BY DEF GroupDelete, OrganizationDelete
<1> QED BY <1>1, <1>2, EndGroupType

LEMMA MembersType ==
    ASSUME TypeOK, NEW a \in Actors, NEW g \in Groups, NEW u \in Members,
           \/ \E r \in Roles : GroupMemberCreate(a, g, u, r)
           \/ GroupMemberDelete(a, g, u)
    PROVE  TypeOK'
<1>1. u \in Users
  BY AuthorizationAssumption
<1>2. PICK r \in Roles \cup {None} : role' = [role EXCEPT ![g][u] = r]
  BY DEF GroupMemberCreate, GroupMemberDelete
<1>3. role' \in [Groups -> [Users -> Roles \cup {None}]]
  BY <1>1, <1>2 DEF TypeOK
<1>4. gstate[g] # "none"
  BY <1>1 DEF GroupMemberCreate, GroupMemberDelete, TypeOK
<1>5. \A h \in Groups : h # g => role'[h] = role[h]
  BY <1>2 DEF TypeOK
<1> QED BY <1>3, <1>4, <1>5 DEF TypeOK, GroupMemberCreate, GroupMemberDelete

LEMMA SavePackageType ==
    ASSUME TypeOK, NEW p \in Packages, NEW org \in Groups \cup {None}, NEW private \in BOOLEAN,
           NEW state \in {"draft", "active", "deleted"}, SavePackage(p, org, private, state)
    PROVE  TypeOK'
<1>1. [owner |-> org, private |-> private, state |-> state] \in PackageRecords
  BY DEF PackageRecords
<1>2. pkg' \in [Packages -> PackageRecords]
  BY <1>1 DEF SavePackage, TypeOK
<1> QED BY <1>2 DEF TypeOK, SavePackage

LEMMA PackageDeleteType ==
    ASSUME TypeOK, NEW a \in Actors, NEW p \in Packages, PackageDelete(a, p)
    PROVE  TypeOK'
<1>1. pkg' \in [Packages -> PackageRecords]
  BY DEF PackageDelete, TypeOK, PackageRecords
<1> QED BY <1>1 DEF TypeOK, PackageDelete

LEMMA UserDeleteType ==
    ASSUME TypeOK, NEW a \in Actors, NEW u \in Members, UserDelete(a, u)
    PROVE  TypeOK'
BY DEF TypeOK, UserDelete

LEMMA NextType == TypeOK /\ Next => TypeOK'
<1> SUFFICES ASSUME TypeOK, NEW a \in Actors, Request(a) PROVE TypeOK'
  BY DEF Next
<1>1. CASE \E g \in Groups : \E ps \in SUBSET ActiveOfType(Groups, TypeOf[g]) :
             GroupCreate(a, g, ps)
  BY <1>1, GroupCreateType, ActiveAreGroups
<1>2. CASE \E g \in Groups : \E ps \in SUBSET ActiveOfType(Groups, TypeOf[g]) :
             \E s \in {"active", "deleted"} : GroupUpdate(a, g, ps, s)
  BY <1>2, GroupUpdateType, ActiveAreGroups
<1>3. CASE \E g \in Groups : \E ref \in References :
             \/ GroupDelete(a, g, ref)
             \/ \E shown \in SUBSET Packages : OrganizationDelete(a, g, ref, shown)
  BY <1>3, GroupDeleteType
<1>4. CASE \E g \in Groups, u \in Members :
             (\E r \in Roles : GroupMemberCreate(a, g, u, r)) \/ GroupMemberDelete(a, g, u)
  BY <1>4, MembersType
<1>5. CASE \E p \in Packages, org \in Organizations \cup {None},
              private \in BOOLEAN, s \in {"draft", "active", "deleted"} :
             SavePackage(p, org, private, s)
  BY <1>5, SavePackageType DEF Organizations
<1>6. CASE \E p \in Packages : PackageDelete(a, p)
  BY <1>6, PackageDeleteType
<1>7. CASE \E u \in Members : UserDelete(a, u)
  BY <1>7, UserDeleteType
<1> QED BY <1>1, <1>2, <1>3, <1>4, <1>5, <1>6, <1>7 DEF Request, PackageCreate, PackageUpdate

\* The tables hold the values they should, and rows of accounts and of groups are of groups
\* that were created, also of those that were deleted by their name: Authorization, TypeOK.
THEOREM TypeCorrect == Spec => []TypeOK
<1> QED BY InitType, TypeStutters, NextType, PTL DEF Spec

-----------------------------------------------------------------------------
(***************************************************************************)
(* Editing and seeing.                                                     *)
(***************************************************************************)

\* Every role with the permission update_dataset has the permission read.
LEMMA UpdatersRead == RolesWith("update_dataset") \subseteq RolesWith("read")
BY DEF RolesWith, Permissions, Roles

\* So it is in every group, by the rows of the group and by those above it.
LEMMA UpdateIsRead ==
    ASSUME NEW u, NEW g, HasPermission(u, g, "update_dataset")
    PROVE  HasPermission(u, g, "read")
BY UpdatersRead DEF HasPermission

LEMMA EditorsSeeNow == TypeOK => EditorsSee
<1> SUFFICES ASSUME TypeOK, NEW a \in Actors, NEW p \in Packages,
                    pkg[p].state # "none", MayUpdatePackage(a, p),
                    pkg[p].state = "deleted" => pkg[p].owner # None
             PROVE  MayShowPackage(a, p)
  BY DEF EditorsSee
<1>1. pkg[p].state \in {"draft", "active", "deleted"}
      /\ pkg[p].private \in BOOLEAN
  BY DEF TypeOK, PackageRecords
\* What is left to show is that one of the grounds of package_show applies.
<1>2. SUFFICES \/ a \in Sysadmins
               \/ pkg[p].state = "draft"
               \/ pkg[p].state = "active" /\ (pkg[p].owner = None \/ ~ pkg[p].private)
               \/ pkg[p].state # "draft" /\ HasPermission(a, pkg[p].owner, "read")
  BY DEF MayShowPackage, MayUpdatePackage, Authorized
<1>3. CASE pkg[p].owner = None
  BY <1>1, <1>3
<1>4. CASE pkg[p].owner # None /\ a \notin Sysadmins
  <2>1. HasPermission(a, pkg[p].owner, "update_dataset")
    BY <1>4 DEF MayUpdatePackage, Authorized
  <2> QED BY <2>1, UpdateIsRead
<1> QED BY <1>3, <1>4

\* Whoever may edit a dataset may see it, whatever becomes of its organization, of the roles
\* and of the hierarchy: Authorization, EditorsSee.
THEOREM WhoEditsMaySee == Spec => []EditorsSee
<1> QED BY TypeCorrect, EditorsSeeNow, PTL

-----------------------------------------------------------------------------
(***************************************************************************)
(* The hierarchy.  What is proved of each level of a recursive query is     *)
(* proved by its least counterexample.                                      *)
(***************************************************************************)

\* A set of numbers has a least one: its initial intervals have a smallest one.
LEMMA LeastNumber ==
    ASSUME NEW T \in SUBSET Nat, T # {}
    PROVE  \E m \in T : \A k \in T : m =< k
<1> DEFINE Down == {0 .. k : k \in T}
<1>1. IsWellFoundedOn(StrictSubsetOrdering(Nat), FiniteSubsetsOf(Nat))
  BY FS_StrictSubsetOrderingWellFounded
<1>2. Down \subseteq FiniteSubsetsOf(Nat)
  <2> SUFFICES ASSUME NEW k \in T PROVE 0 .. k \in FiniteSubsetsOf(Nat)
    OBVIOUS
  <2>1. IsFiniteSet(0 .. k)
    BY FS_Interval
  <2> QED BY <2>1 DEF FiniteSubsetsOf
<1>3. Down # {}
  OBVIOUS
<1>4. PICK s \in Down : \A r \in Down : ~ (<<r, s>> \in StrictSubsetOrdering(Nat))
  BY <1>1, <1>2, <1>3, WFMin
<1>5. PICK m \in T : s = 0 .. m
  OBVIOUS
<1>6. ASSUME NEW k \in T, k < m PROVE FALSE
  <2>1. 0 .. k \in Down
    OBVIOUS
  <2>2. 0 .. k \subseteq 0 .. m /\ m \in 0 .. m /\ m \notin 0 .. k
    BY <1>6
  <2>3. <<0 .. k, s>> \in StrictSubsetOrdering(Nat)
    BY <1>5, <2>2 DEF StrictSubsetOrdering
  <2> QED BY <1>4, <2>1, <2>3
<1>7. m \in Nat /\ \A k \in T : k \in Nat
  OBVIOUS
<1> QED BY <1>6, <1>7

LEMMA AgainstLeast ==
    ASSUME NEW m \in Nat, NEW T \in SUBSET (0 .. m), 0 \in T,
           \A n \in 0 .. m - 1 : n \in T => n + 1 \in T
    PROVE  T = 0 .. m
<1> SUFFICES ASSUME (0 .. m) \ T # {} PROVE FALSE
  OBVIOUS
<1>1. (0 .. m) \ T \in SUBSET Nat
  OBVIOUS
<1>2. PICK k \in (0 .. m) \ T : \A n \in (0 .. m) \ T : k =< n
  BY <1>1, LeastNumber
<1>3. k # 0 /\ k \in Nat /\ k - 1 \in 0 .. m - 1
  BY <1>2
<1>4. k - 1 \in T
  BY <1>2, <1>3
<1> QED BY <1>2, <1>3, <1>4

\* There are as many levels as one likes, each from the one before it.
Levels(S, first, step, m) ==
    {d \in [0 .. m -> S] : d[0] = first /\ \A n \in 1 .. m : d[n] = step[d[n - 1]]}

LEMMA OneMoreLevel ==
    ASSUME NEW S, NEW first \in S, NEW step \in [S -> S], NEW m \in Nat,
           NEW d \in Levels(S, first, step, m)
    PROVE  Levels(S, first, step, m + 1) # {}
<1> DEFINE e == [n \in 0 .. m + 1 |-> IF n = m + 1 THEN step[d[m]] ELSE d[n]]
<1>1. \A n \in 0 .. m : n \in 0 .. m + 1 /\ e[n] = d[n]
  OBVIOUS
<1>2. e[m + 1] = step[d[m]]
  OBVIOUS
<1>3. d \in [0 .. m -> S] /\ d[0] = first /\ \A n \in 1 .. m : d[n] = step[d[n - 1]]
  BY DEF Levels
<1>4. e \in [0 .. m + 1 -> S]
  BY <1>3
<1> HIDE DEF e
<1>5. ASSUME NEW n \in 1 .. m + 1
      PROVE  e[n] = step[e[n - 1]]
  <2>1. n - 1 \in 0 .. m
    OBVIOUS
  <2>2. CASE n = m + 1
    BY <1>1, <1>2, <2>1, <2>2
  <2>3. CASE n # m + 1
    <3>1. n \in 1 .. m /\ n \in 0 .. m
      BY <2>3
    <3> QED BY <1>1, <1>3, <2>1, <3>1
  <2> QED BY <2>2, <2>3
<1>6. e[0] = first
  BY <1>1, <1>3
<1>7. e \in Levels(S, first, step, m + 1)
  BY <1>4, <1>5, <1>6 DEF Levels
<1> QED BY <1>7

LEMMA LevelsExist ==
    ASSUME NEW S, NEW first \in S, NEW step \in [S -> S], NEW m \in Nat
    PROVE  Levels(S, first, step, m) # {}
<1> DEFINE T == {k \in 0 .. m : Levels(S, first, step, k) # {}}
<1>1. 0 \in T
  <2>1. [n \in 0 .. 0 |-> first] \in Levels(S, first, step, 0)
    BY DEF Levels
  <2> QED BY <2>1
<1>2. ASSUME NEW n \in 0 .. m - 1, n \in T
      PROVE  n + 1 \in T
  <2>1. n \in Nat /\ n + 1 \in 0 .. m
    OBVIOUS
  <2> QED BY <1>2, <2>1, OneMoreLevel
<1>3. T \in SUBSET (0 .. m)
  OBVIOUS
<1> HIDE DEF T
<1>4. m \in T
  BY <1>1, <1>2, <1>3, AgainstLeast
<1> QED BY <1>4 DEF T

\* The levels of the query that looks up, of the one that looks down and of the walk.
UpFrom(g) ==
    CHOOSE depth : depth = [n \in 0 .. MaxRecurses |->
        IF n = 0 THEN ParentsOf({g}) ELSE ParentsOf(depth[n - 1])]

DownFrom(g) ==
    CHOOSE depth : depth = [n \in 0 .. MaxRecurses |->
        IF n = 0 THEN ChildrenOf({g}) ELSE ChildrenOf(depth[n - 1])]

LEMMA UpIs ==
    ASSUME NEW g, NEW type
    PROVE  ParentGroups(g, type) =
             ActiveOfType(UNION {UpFrom(g)[n] : n \in 0 .. MaxRecurses}, type)
BY DEF ParentGroups, UpFrom

LEMMA DownIs ==
    ASSUME NEW g, NEW type
    PROVE  ChildrenGroups(g, type) =
             ActiveOfType(UNION {DownFrom(g)[n] : n \in 0 .. MaxRecurses}, type)
BY DEF ChildrenGroups, DownFrom

LEMMA UpLevels ==
    ASSUME TypeOK, NEW g \in Groups
    PROVE  /\ UpFrom(g) \in [0 .. MaxRecurses -> SUBSET Groups]
           /\ UpFrom(g)[0] = ParentsOf({g})
           /\ \A n \in 1 .. MaxRecurses : UpFrom(g)[n] = ParentsOf(UpFrom(g)[n - 1])
<1> DEFINE step == [gs \in SUBSET Groups |-> ParentsOf(gs)]
           first == ParentsOf({g})
           up == UpFrom(g)
           T == {n \in 0 .. MaxRecurses : up[n] \in SUBSET Groups}
<1>1. MaxRecurses \in Nat
  BY AuthorizationAssumption
<1>2. \A gs \in SUBSET Groups : ParentsOf(gs) \in SUBSET Groups
  BY DEF ParentsOf, TypeOK
<1>3. step \in [SUBSET Groups -> SUBSET Groups] /\ first \in SUBSET Groups
  BY <1>2
<1>4. \A gs \in SUBSET Groups : step[gs] = ParentsOf(gs)
  OBVIOUS
<1> HIDE DEF step
<1>5. up = [n \in 0 .. MaxRecurses |-> IF n = 0 THEN ParentsOf({g}) ELSE ParentsOf(up[n - 1])]
  <2> HIDE DEF first
  <2>1. PICK d \in Levels(SUBSET Groups, first, step, MaxRecurses) : TRUE
    BY <1>1, <1>3, LevelsExist
  <2>2. \A n \in 0 .. MaxRecurses : d[n] = IF n = 0 THEN ParentsOf({g}) ELSE ParentsOf(d[n - 1])
    BY <1>1, <1>4, <2>1 DEF first, Levels
  <2>3. d = [n \in 0 .. MaxRecurses |-> IF n = 0 THEN ParentsOf({g}) ELSE ParentsOf(d[n - 1])]
    BY <2>1, <2>2 DEF Levels
  <2> QED BY <2>3 DEF UpFrom
<1> HIDE DEF up
<1>6. \A n \in 0 .. MaxRecurses : up[n] = IF n = 0 THEN ParentsOf({g}) ELSE ParentsOf(up[n - 1])
  BY <1>5
<1>7. T = 0 .. MaxRecurses
  <2>1. 0 \in T
    <3>1. 0 \in 0 .. MaxRecurses
      BY <1>1
    <3> QED BY <1>3, <1>6, <3>1
  <2>2. ASSUME NEW n \in 0 .. MaxRecurses - 1, n \in T
        PROVE  n + 1 \in T
    <3>1. up[n + 1] = ParentsOf(up[n])
      BY <1>1, <1>6
    <3> QED BY <1>1, <1>2, <2>2, <3>1
  <2>3. T \in SUBSET (0 .. MaxRecurses)
    OBVIOUS
  <2> HIDE DEF T
  <2> QED BY <1>1, <2>1, <2>2, <2>3, AgainstLeast
<1>8. up \in [0 .. MaxRecurses -> SUBSET Groups]
  BY <1>5, <1>7
<1> QED BY <1>1, <1>6, <1>8 DEF up

LEMMA DownLevels ==
    ASSUME TypeOK, NEW g \in Groups
    PROVE  /\ DownFrom(g) \in [0 .. MaxRecurses -> SUBSET Groups]
           /\ DownFrom(g)[0] = ChildrenOf({g})
           /\ \A n \in 1 .. MaxRecurses : DownFrom(g)[n] = ChildrenOf(DownFrom(g)[n - 1])
<1> DEFINE step == [gs \in SUBSET Groups |-> ChildrenOf(gs)]
           first == ChildrenOf({g})
           up == DownFrom(g)
           T == {n \in 0 .. MaxRecurses : up[n] \in SUBSET Groups}
<1>1. MaxRecurses \in Nat
  BY AuthorizationAssumption
<1>2. \A gs \in SUBSET Groups : ChildrenOf(gs) \in SUBSET Groups
  BY DEF ChildrenOf, TypeOK
<1>3. step \in [SUBSET Groups -> SUBSET Groups] /\ first \in SUBSET Groups
  BY <1>2
<1>4. \A gs \in SUBSET Groups : step[gs] = ChildrenOf(gs)
  OBVIOUS
<1> HIDE DEF step
<1>5. up = [n \in 0 .. MaxRecurses |-> IF n = 0 THEN ChildrenOf({g}) ELSE ChildrenOf(up[n - 1])]
  <2> HIDE DEF first
  <2>1. PICK d \in Levels(SUBSET Groups, first, step, MaxRecurses) : TRUE
    BY <1>1, <1>3, LevelsExist
  <2>2. \A n \in 0 .. MaxRecurses : d[n] = IF n = 0 THEN ChildrenOf({g}) ELSE ChildrenOf(d[n - 1])
    BY <1>1, <1>4, <2>1 DEF first, Levels
  <2>3. d = [n \in 0 .. MaxRecurses |-> IF n = 0 THEN ChildrenOf({g}) ELSE ChildrenOf(d[n - 1])]
    BY <2>1, <2>2 DEF Levels
  <2> QED BY <2>3 DEF DownFrom
<1> HIDE DEF up
<1>6. \A n \in 0 .. MaxRecurses : up[n] = IF n = 0 THEN ChildrenOf({g}) ELSE ChildrenOf(up[n - 1])
  BY <1>5
<1>7. T = 0 .. MaxRecurses
  <2>1. 0 \in T
    <3>1. 0 \in 0 .. MaxRecurses
      BY <1>1
    <3> QED BY <1>3, <1>6, <3>1
  <2>2. ASSUME NEW n \in 0 .. MaxRecurses - 1, n \in T
        PROVE  n + 1 \in T
    <3>1. up[n + 1] = ChildrenOf(up[n])
      BY <1>1, <1>6
    <3> QED BY <1>1, <1>2, <2>2, <3>1
  <2>3. T \in SUBSET (0 .. MaxRecurses)
    OBVIOUS
  <2> HIDE DEF T
  <2> QED BY <1>1, <2>1, <2>2, <2>3, AgainstLeast
<1>8. up \in [0 .. MaxRecurses -> SUBSET Groups]
  BY <1>5, <1>7
<1> QED BY <1>1, <1>6, <1>8 DEF up

LEMMA OverLinks ==
    ASSUME NEW gs, NEW h
    PROVE  /\ h \in ParentsOf(gs) <=> \E k \in gs : h \in parents[k]
           /\ h \in Groups => (h \in ChildrenOf(gs) <=> \E k \in gs : k \in parents[h])
BY DEF ParentsOf, ChildrenOf

\* What is above a group is a parent of it, or above one of them.
AboveParents(n) ==
    \A g, h \in Groups :
        h \in UpFrom(g)[n + 1] <=> \E k \in parents[g] : h \in UpFrom(k)[n]

LEMMA UpByParents ==
    ASSUME TypeOK
    PROVE  \A n \in 0 .. MaxRecurses - 1 : AboveParents(n)
<1> DEFINE T == {n \in 0 .. MaxRecurses : n < MaxRecurses => AboveParents(n)}
<1>1. MaxRecurses \in Nat /\ \A g \in Groups : parents[g] \subseteq Groups
  BY AuthorizationAssumption DEF TypeOK
<1>2. ASSUME NEW n \in 0 .. MaxRecurses, NEW g \in Groups, NEW h
      PROVE  /\ n = 0 => (h \in UpFrom(g)[n] <=> h \in parents[g])
             /\ n # 0 => (h \in UpFrom(g)[n] <=> \E j \in UpFrom(g)[n - 1] : h \in parents[j])
  <2>1. n = 0 => UpFrom(g)[n] = ParentsOf({g})
    BY UpLevels
  <2>2. n # 0 => UpFrom(g)[n] = ParentsOf(UpFrom(g)[n - 1])
    <3>1. \A m \in 1 .. MaxRecurses : UpFrom(g)[m] = ParentsOf(UpFrom(g)[m - 1])
      BY UpLevels
    <3> QED BY <1>1, <3>1
  <2>3. h \in ParentsOf({g}) <=> h \in parents[g]
    BY DEF ParentsOf
  <2>4. h \in ParentsOf(UpFrom(g)[n - 1]) <=> \E j \in UpFrom(g)[n - 1] : h \in parents[j]
    BY OverLinks
  <2> QED BY <2>1, <2>2, <2>3, <2>4
<1>3. \A n \in 0 .. MaxRecurses, g \in Groups : UpFrom(g)[n] \subseteq Groups
  BY <1>1, UpLevels
<1>4. 0 \in T
  <2> SUFFICES ASSUME 0 < MaxRecurses, NEW g \in Groups, NEW h \in Groups
               PROVE  h \in UpFrom(g)[0 + 1] <=> \E k \in parents[g] : h \in UpFrom(k)[0]
    BY <1>1 DEF AboveParents
  <2>1. 0 \in 0 .. MaxRecurses /\ 1 \in 0 .. MaxRecurses /\ 0 + 1 = 1 /\ 1 - 1 = 0
    BY <1>1
  <2>2. h \in UpFrom(g)[1] <=> \E j \in UpFrom(g)[0] : h \in parents[j]
    BY <1>2, <2>1
  <2>3. \A j : j \in UpFrom(g)[0] <=> j \in parents[g]
    BY <1>2, <2>1
  <2>4. \A k \in parents[g] : h \in UpFrom(k)[0] <=> h \in parents[k]
    BY <1>1, <1>2, <2>1
  <2> QED BY <2>1, <2>2, <2>3, <2>4
<1>5. ASSUME NEW n \in 0 .. MaxRecurses - 1, n \in T
      PROVE  n + 1 \in T
  <2> SUFFICES ASSUME n + 1 < MaxRecurses, NEW g \in Groups, NEW h \in Groups
               PROVE  h \in UpFrom(g)[n + 1 + 1] <=> \E k \in parents[g] : h \in UpFrom(k)[n + 1]
    BY <1>1 DEF AboveParents
  <2>1. /\ n \in 0 .. MaxRecurses /\ n + 1 \in 0 .. MaxRecurses /\ n + 2 \in 0 .. MaxRecurses
        /\ n + 1 + 1 = n + 2 /\ n + 2 - 1 = n + 1 /\ n + 1 - 1 = n /\ n + 1 # 0 /\ n + 2 # 0
    BY <1>1
  <2>2. AboveParents(n)
    BY <1>1, <1>5, <2>1
  <2>3. h \in UpFrom(g)[n + 2] <=> \E j \in UpFrom(g)[n + 1] : h \in parents[j]
    BY <1>2, <2>1
  <2>4. \A j \in Groups : j \in UpFrom(g)[n + 1] <=> \E k \in parents[g] : j \in UpFrom(k)[n]
    BY <2>2 DEF AboveParents
  <2>5. \A k \in parents[g] : h \in UpFrom(k)[n + 1] <=> \E j \in UpFrom(k)[n] : h \in parents[j]
    BY <1>1, <1>2, <2>1
  <2>6. UpFrom(g)[n + 1] \subseteq Groups /\ \A k \in parents[g] : UpFrom(k)[n] \subseteq Groups
    BY <1>1, <1>3, <2>1
  <2> QED BY <2>1, <2>3, <2>4, <2>5, <2>6
<1>6. T \in SUBSET (0 .. MaxRecurses)
  OBVIOUS
<1> HIDE DEF T
<1>7. T = 0 .. MaxRecurses
  BY <1>1, <1>4, <1>5, <1>6, AgainstLeast
<1> QED BY <1>1, <1>7 DEF T

\* Looking down finds a group where looking up from it finds where one looks from, level
\* by level.
LEMMA DownMirrorsUp ==
    ASSUME TypeOK
    PROVE  \A n \in 0 .. MaxRecurses : \A g, h \in Groups :
               h \in UpFrom(g)[n] <=> g \in DownFrom(h)[n]
<1> DEFINE Mirrored(n) == \A g, h \in Groups : h \in UpFrom(g)[n] <=> g \in DownFrom(h)[n]
           T == {n \in 0 .. MaxRecurses : Mirrored(n)}
<1>1. MaxRecurses \in Nat /\ \A g \in Groups : parents[g] \subseteq Groups
  BY AuthorizationAssumption DEF TypeOK
<1>2. 0 \in T
  <2> SUFFICES ASSUME NEW g \in Groups, NEW h \in Groups
               PROVE  h \in UpFrom(g)[0] <=> g \in DownFrom(h)[0]
    BY <1>1
  <2>1. UpFrom(g)[0] = ParentsOf({g}) /\ DownFrom(h)[0] = ChildrenOf({h})
    BY UpLevels, DownLevels
  <2> QED BY <2>1, OverLinks
<1>3. ASSUME NEW n \in 0 .. MaxRecurses - 1, n \in T
      PROVE  n + 1 \in T
  <2>1. n + 1 \in 1 .. MaxRecurses /\ n + 1 - 1 = n /\ n + 1 \in 0 .. MaxRecurses
    BY <1>1
  <2> SUFFICES ASSUME NEW g \in Groups, NEW h \in Groups
               PROVE  h \in UpFrom(g)[n + 1] <=> g \in DownFrom(h)[n + 1]
    BY <2>1
  <2>2. h \in UpFrom(g)[n + 1] <=> \E k \in parents[g] : h \in UpFrom(k)[n]
    BY UpByParents DEF AboveParents
  <2>3. \A k \in Groups : h \in UpFrom(k)[n] <=> k \in DownFrom(h)[n]
    BY <1>3
  <2>4. DownFrom(h)[n + 1] = ChildrenOf(DownFrom(h)[n])
    <3>1. \A m \in 1 .. MaxRecurses : DownFrom(h)[m] = ChildrenOf(DownFrom(h)[m - 1])
      BY DownLevels
    <3> QED BY <2>1, <3>1
  <2>5. g \in DownFrom(h)[n + 1] <=> \E k \in DownFrom(h)[n] : k \in parents[g]
    BY <2>4, OverLinks
  <2> QED BY <1>1, <2>2, <2>3, <2>5
<1>4. T \in SUBSET (0 .. MaxRecurses)
  OBVIOUS
<1> HIDE DEF T
<1>5. T = 0 .. MaxRecurses
  BY <1>1, <1>2, <1>3, <1>4, AgainstLeast
<1> QED BY <1>5 DEF T

LEMMA SameHierarchy ==
    ASSUME TypeOK, NEW g \in Groups, NEW h \in Groups, NEW type,
           gstate[g] = "active", gstate[h] = "active", TypeOf[g] = type, TypeOf[h] = type
    PROVE  h \in ParentGroups(g, type) <=> g \in ChildrenGroups(h, type)
<1>1. h \in ParentGroups(g, type) <=> \E n \in 0 .. MaxRecurses : h \in UpFrom(g)[n]
  BY UpIs DEF ActiveOfType
<1>2. g \in ChildrenGroups(h, type) <=> \E n \in 0 .. MaxRecurses : g \in DownFrom(h)[n]
  BY DownIs DEF ActiveOfType
<1> QED BY <1>1, <1>2, DownMirrorsUp

-----------------------------------------------------------------------------
(***************************************************************************)
(* What is offered and what is permitted.                                  *)
(***************************************************************************)

\* Links are between groups of one type: group_parent_exists.
ParentsAlike == \A g \in Groups : \A h \in parents[g] : TypeOf[h] = TypeOf[g]

LEMMA AlikeInitially == Init => ParentsAlike
BY DEF Init, ParentsAlike

LEMMA AlikeStep == TypeOK /\ ParentsAlike /\ [Next]_vars => ParentsAlike'
<1> SUFFICES ASSUME TypeOK, ParentsAlike, [Next]_vars
             PROVE  ParentsAlike'
  OBVIOUS
<1>1. ASSUME NEW g \in Groups, NEW ps \in SUBSET ActiveOfType(Groups, TypeOf[g]), SetParents(g, ps)
      PROVE  ParentsAlike'
  BY <1>1 DEF SetParents, ActiveOfType, ParentsAlike, TypeOK
<1>2. ASSUME NEW g \in Groups, NEW ref, EndGroup(g, ref)
      PROVE  ParentsAlike'
  BY <1>2 DEF EndGroup, ParentsAlike, TypeOK
<1>3. ASSUME UNCHANGED parents
      PROVE  ParentsAlike'
  BY <1>3 DEF ParentsAlike
<1>4. CASE UNCHANGED vars
  BY <1>3, <1>4 DEF vars
<1>5. ASSUME NEW a \in Actors, Request(a)
      PROVE  ParentsAlike'
  BY <1>1, <1>2, <1>3, <1>5 DEF Request, GroupCreate, GroupUpdate, GroupDelete,
     OrganizationDelete, GroupMemberCreate, GroupMemberDelete, PackageCreate, PackageUpdate, SavePackage, PackageDelete, UserDelete
<1> QED BY <1>4, <1>5 DEF Next

\* So is all that is above.
LEMMA AlikeAbove ==
    ASSUME TypeOK, ParentsAlike
    PROVE  \A n \in 0 .. MaxRecurses : \A g, h \in Groups :
               h \in UpFrom(g)[n] => TypeOf[h] = TypeOf[g]
<1> DEFINE T == {n \in 0 .. MaxRecurses : \A g, h \in Groups :
                     h \in UpFrom(g)[n] => TypeOf[h] = TypeOf[g]}
<1>1. MaxRecurses \in Nat /\ \A g \in Groups : parents[g] \subseteq Groups
  BY AuthorizationAssumption DEF TypeOK
<1>2. 0 \in T
  <2>1. \A g \in Groups : UpFrom(g)[0] = ParentsOf({g})
    BY UpLevels
  <2>2. \A g, h : h \in ParentsOf({g}) => h \in parents[g]
    BY DEF ParentsOf
  <2>3. \A g, h \in Groups : h \in UpFrom(g)[0] => TypeOf[h] = TypeOf[g]
    BY <2>1, <2>2 DEF ParentsAlike
  <2> QED BY <1>1, <2>3
<1>3. ASSUME NEW n \in 0 .. MaxRecurses - 1, n \in T
      PROVE  n + 1 \in T
  <2> SUFFICES ASSUME NEW g \in Groups, NEW h \in Groups, h \in UpFrom(g)[n + 1]
               PROVE  TypeOf[h] = TypeOf[g]
    BY <1>1
  <2>1. PICK k \in parents[g] : h \in UpFrom(k)[n]
    BY UpByParents DEF AboveParents
  <2> QED BY <1>1, <1>3, <2>1 DEF ParentsAlike
<1>4. T \in SUBSET (0 .. MaxRecurses)
  OBVIOUS
<1> HIDE DEF T
<1>5. T = 0 .. MaxRecurses
  BY <1>1, <1>2, <1>3, <1>4, AgainstLeast
<1> QED BY <1>5 DEF T

LEMMA ListedArePermittedNow == TypeOK /\ ParentsAlike => ListedArePermitted
<1> SUFFICES ASSUME TypeOK, ParentsAlike, NEW u \in Users \ Sysadmins, NEW permission \in AllPermissions
             PROVE  /\ Permitted(u, permission) \subseteq OrganizationsFor(u, permission)
                    /\ (~ \E g \in Groups : Remains(g)) =>
                         OrganizationsFor(u, permission) \subseteq Permitted(u, permission)
  BY DEF ListedArePermitted
<1> DEFINE Can(g) == role[g][u] \in RolesWith(permission)
           Cascades(g) == role[g][u] \in config.cascade
           Org(g) == g \in Groups /\ gstate[g] = "active" /\ TypeOf[g] = "organization"
           Ranks == {"admin", "editor", "member"}
<1>1. \A g : g \in Permitted(u, permission) <=>
               Org(g) /\ \/ Can(g)
                         \/ \E h \in ParentGroups(g, "organization") : Can(h) /\ Cascades(h)
  BY AuthorizationAssumption DEF Permitted, HasPermission, ActiveOfType
<1>2. \A g : g \in OrganizationsFor(u, permission) <=>
               Org(g) /\ \/ Can(g)
                         \/ \E h \in Groups : /\ Can(h) /\ Cascades(h)
                                              /\ g \in ChildrenGroups(h, "organization")
  <2>1. \A h \in Groups : ChildrenGroups(h, "organization") \subseteq Groups
    <3>1. \A h \in Groups : \A n \in 0 .. MaxRecurses : DownFrom(h)[n] \subseteq Groups
      BY DownLevels
    <3> QED BY <3>1, DownIs DEF ActiveOfType
  <2> DEFINE listed == {g \in Groups : Can(g)}
             below == UNION {ChildrenGroups(h, "organization") : h \in {g \in listed : Cascades(g)}}
  <2>2. OrganizationsFor(u, permission) = ActiveOfType(listed \cup below, "organization")
    BY DEF OrganizationsFor
  <2>3. \A g : g \in below <=> \E h \in Groups : /\ Can(h) /\ Cascades(h)
                                                 /\ g \in ChildrenGroups(h, "organization")
    OBVIOUS
  <2>4. \A g : g \in listed <=> g \in Groups /\ Can(g)
    OBVIOUS
  <2>5. \A g : g \in below => g \in Groups
    BY <2>1, <2>3
  <2> HIDE DEF Can, Cascades, listed, below
  <2> QED BY <2>2, <2>3, <2>4, <2>5 DEF ActiveOfType
<1>3. \A g, h : h \in ParentGroups(g, "organization") /\ g \in Groups => Org(h)
  <2>1. \A g \in Groups : \A n \in 0 .. MaxRecurses : UpFrom(g)[n] \subseteq Groups
    BY UpLevels
  <2> QED BY <2>1, UpIs DEF ActiveOfType
<1>4. Permitted(u, permission) \subseteq OrganizationsFor(u, permission)
  <2> HIDE DEF Can, Cascades
  <2> QED BY <1>1, <1>2, <1>3, SameHierarchy
<1>5. ASSUME ~ \E g \in Groups : Remains(g), NEW g, NEW h \in Groups, Org(g), Can(h),
             g \in ChildrenGroups(h, "organization")
      PROVE  Org(h)
  <2>1. \E n \in 0 .. MaxRecurses : g \in DownFrom(h)[n]
    BY <1>5, DownIs DEF ActiveOfType
  <2>2. TypeOf[h] = "organization"
    BY <1>5, <2>1, DownMirrorsUp, AlikeAbove
  <2>3. role[h][u] # None
    BY <1>5, NoneIsNoRole DEF RolesWith, Roles, Permissions
  <2>4. gstate[h] # "none" /\ gstate[h] # "deleted"
    BY <1>5, <2>3 DEF TypeOK, Remains
  <2> QED BY <2>2, <2>4 DEF TypeOK, GroupStates
<1>6. ASSUME ~ \E g \in Groups : Remains(g)
      PROVE  OrganizationsFor(u, permission) \subseteq Permitted(u, permission)
  <2> SUFFICES ASSUME NEW g \in OrganizationsFor(u, permission)
               PROVE  g \in Permitted(u, permission)
    OBVIOUS
  <2> HIDE DEF Can, Cascades
  <2>1. Org(g)
    BY <1>2
  <2>2. CASE Can(g)
    BY <1>1, <2>1, <2>2
  <2>3. CASE \E h \in Groups : /\ Can(h) /\ Cascades(h)
                               /\ g \in ChildrenGroups(h, "organization")
    <3>1. PICK h \in Groups : Can(h) /\ Cascades(h) /\ g \in ChildrenGroups(h, "organization")
      BY <2>3
    <3>2. Org(h)
      BY <1>5, <1>6, <2>1, <3>1
    <3>3. h \in ParentGroups(g, "organization")
      BY <2>1, <3>1, <3>2, SameHierarchy
    <3> QED BY <1>1, <2>1, <3>1, <3>3
  <2> QED BY <1>2, <2>2, <2>3
<1> QED BY <1>4, <1>6

\* The organizations offered to a user, looking down from the roles the user has, are those
\* where the check, looking up, accepts: for any hierarchy, deeper than the queries go or
\* with loops; but for what deleted groups that kept their rows give.
THEOREM OfferedArePermitted == Spec => []ListedArePermitted
<1> QED BY TypeCorrect, AlikeInitially, AlikeStep, ListedArePermittedNow, PTL DEF Spec

-----------------------------------------------------------------------------
(***************************************************************************)
(* The bounded recursion and the unbounded walk.                           *)
(***************************************************************************)

\* Walks from a group, of up to m links.
Walks(g, m) == Levels(SUBSET Groups, {}, [gs \in SUBSET Groups |-> ParentsOf({g} \cup gs)], m)

LEMMA WalksExist ==
    ASSUME TypeOK, NEW g \in Groups, NEW m \in Nat
    PROVE  \E w \in Walks(g, m) : TRUE
<1> DEFINE step == [gs \in SUBSET Groups |-> ParentsOf({g} \cup gs)]
<1>1. \A gs \in SUBSET Groups : ParentsOf({g} \cup gs) \in SUBSET Groups
  BY DEF ParentsOf, TypeOK
<1>2. step \in [SUBSET Groups -> SUBSET Groups] /\ {} \in SUBSET Groups
  BY <1>1
<1> HIDE DEF step
<1>3. Levels(SUBSET Groups, {}, step, m) # {}
  BY <1>2, LevelsExist
<1> QED BY <1>3 DEF Walks, step

LEMMA WalkLevels ==
    ASSUME NEW g \in Groups, NEW m \in Nat, NEW w \in Walks(g, m)
    PROVE  /\ w \in [0 .. m -> SUBSET Groups]
           /\ w[0] = {}
           /\ \A n \in 1 .. m : w[n] = ParentsOf({g} \cup w[n - 1])
           /\ \A n \in 0 .. m - 1 : w[n + 1] = ParentsOf({g} \cup w[n])
<1>1. /\ w \in [0 .. m -> SUBSET Groups]
      /\ w[0] = {}
      /\ \A n \in 1 .. m : w[n] = [gs \in SUBSET Groups |-> ParentsOf({g} \cup gs)][w[n - 1]]
  BY DEF Walks, Levels
<1>2. ASSUME NEW n \in 1 .. m
      PROVE  w[n] = ParentsOf({g} \cup w[n - 1])
  <2>1. w[n - 1] \in SUBSET Groups
    BY <1>1
  <2> QED BY <1>1, <2>1
<1>3. ASSUME NEW n \in 0 .. m - 1
      PROVE  w[n + 1] = ParentsOf({g} \cup w[n])
  <2>1. n + 1 \in 1 .. m /\ n + 1 - 1 = n
    OBVIOUS
  <2> QED BY <1>2, <2>1
<1> QED BY <1>1, <1>2, <1>3

LEMMA ParentsGrow ==
    ASSUME NEW g, NEW hs, NEW gs, hs \subseteq gs
    PROVE  ParentsOf({g} \cup hs) \subseteq ParentsOf({g} \cup gs)
BY DEF ParentsOf

LEMMA WalkGrows ==
    ASSUME NEW g \in Groups, NEW m \in Nat, NEW w \in Walks(g, m)
    PROVE  \A n \in 0 .. m - 1 : w[n] \subseteq w[n + 1]
<1> DEFINE T == {n \in 0 .. m : n < m => w[n] \subseteq w[n + 1]}
<1>1. w[0] = {} /\ \A n \in 0 .. m - 1 : w[n + 1] = ParentsOf({g} \cup w[n])
  BY WalkLevels
<1>2. 0 \in T
  BY <1>1
<1>3. ASSUME NEW n \in 0 .. m - 1, n \in T
      PROVE  n + 1 \in T
  <2> SUFFICES ASSUME n + 1 < m PROVE w[n + 1] \subseteq w[n + 1 + 1]
    OBVIOUS
  <2>1. w[n] \subseteq w[n + 1]
    BY <1>3
  <2>2. n + 1 \in 0 .. m - 1
    OBVIOUS
  <2>3. w[n + 1] = ParentsOf({g} \cup w[n]) /\ w[n + 1 + 1] = ParentsOf({g} \cup w[n + 1])
    BY <1>1, <2>2
  <2>4. ParentsOf({g} \cup w[n]) \subseteq ParentsOf({g} \cup w[n + 1])
    BY <2>1, ParentsGrow
  <2> QED BY <2>3, <2>4
<1>4. T \in SUBSET (0 .. m)
  OBVIOUS
<1> HIDE DEF T
<1>5. \A n \in 0 .. m : n \in T
  BY <1>2, <1>3, <1>4, AgainstLeast
<1> QED BY <1>5 DEF T

\* A step that finds nothing more is the last to find any.
LEMMA WalkEnds ==
    ASSUME NEW g \in Groups, NEW m \in Nat, NEW w \in Walks(g, m),
           NEW i \in 0 .. m - 1, w[i + 1] = w[i]
    PROVE  \A n \in 0 .. m : w[n] \subseteq w[i]
<1> DEFINE T == {n \in 0 .. m : w[n] \subseteq w[i]}
<1>1. w[0] = {} /\ \A n \in 0 .. m - 1 : w[n + 1] = ParentsOf({g} \cup w[n])
  BY WalkLevels
<1>2. 0 \in T
  BY <1>1
<1>3. ASSUME NEW n \in 0 .. m - 1, n \in T
      PROVE  n + 1 \in T
  <2>1. w[n + 1] = ParentsOf({g} \cup w[n]) /\ w[i] = ParentsOf({g} \cup w[i])
    BY <1>1
  <2>2. ParentsOf({g} \cup w[n]) \subseteq ParentsOf({g} \cup w[i])
    BY <1>3, ParentsGrow
  <2>3. w[n + 1] \subseteq w[i] /\ n + 1 \in 0 .. m
    BY <2>1, <2>2
  <2> QED BY <2>3
<1>4. T \in SUBSET (0 .. m)
  OBVIOUS
<1> HIDE DEF T
<1>5. \A n \in 0 .. m : n \in T
  BY <1>2, <1>3, <1>4, AgainstLeast
<1> QED BY <1>5 DEF T

\* Until then every step finds a group.
LEMMA WalkFinds ==
    ASSUME NEW g \in Groups, NEW m \in Nat, NEW w \in Walks(g, m)
    PROVE  \A n \in 0 .. m - 1 : w[n + 1] = w[n] \/ Cardinality(w[n + 1]) >= n + 1
<1> DEFINE T == {n \in 0 .. m : n < m => w[n + 1] = w[n] \/ Cardinality(w[n + 1]) >= n + 1}
<1>1. /\ w \in [0 .. m -> SUBSET Groups]
      /\ w[0] = {}
      /\ \A n \in 0 .. m - 1 : w[n + 1] = ParentsOf({g} \cup w[n])
  BY WalkLevels
<1>2. ASSUME NEW n \in 0 .. m - 1, w[n + 1] # w[n]
      PROVE  /\ Cardinality(w[n]) \in Nat /\ Cardinality(w[n + 1]) \in Nat
             /\ Cardinality(w[n + 1]) > Cardinality(w[n])
  <2>1. w[n] \subseteq w[n + 1] /\ w[n + 1] \in SUBSET Groups
    BY <1>1, WalkGrows
  <2>2. IsFiniteSet(w[n + 1])
    BY <2>1, AuthorizationAssumption, FS_Subset
  <2>3. /\ IsFiniteSet(w[n]) /\ Cardinality(w[n]) =< Cardinality(w[n + 1])
        /\ Cardinality(w[n + 1]) # Cardinality(w[n])
    BY <1>2, <2>1, <2>2, FS_Subset
  <2> QED BY <2>2, <2>3, FS_CardinalityType
<1>3. 0 \in T
  <2> SUFFICES ASSUME 0 < m, w[0 + 1] # w[0] PROVE Cardinality(w[0 + 1]) >= 0 + 1
    OBVIOUS
  <2> QED BY <1>2
<1>4. ASSUME NEW n \in 0 .. m - 1, n \in T
      PROVE  n + 1 \in T
  <2> SUFFICES ASSUME n + 1 < m, w[n + 1 + 1] # w[n + 1]
               PROVE  Cardinality(w[n + 1 + 1]) >= n + 1 + 1
    OBVIOUS
  <2>1. n + 1 \in 0 .. m - 1
    OBVIOUS
  <2>2. w[n + 1] # w[n]
    BY <1>1, <2>1
  <2>3. Cardinality(w[n + 1]) >= n + 1
    BY <1>4, <2>2
  <2> QED BY <1>2, <2>1, <2>3
<1>5. T \in SUBSET (0 .. m)
  OBVIOUS
<1> HIDE DEF T
<1>6. \A n \in 0 .. m : n \in T
  BY <1>3, <1>4, <1>5, AgainstLeast
<1>7. \A n \in 0 .. m - 1 : n \in T /\ n < m
  BY <1>6
<1> QED BY <1>7 DEF T

\* The walk of Above is the one of as many links as there are groups.
WalkOf(g) ==
    CHOOSE walk : walk = [n \in 0 .. Cardinality(Groups) |->
        IF n = 0 THEN {} ELSE ParentsOf({g} \cup walk[n - 1])]

LEMMA AboveIs ==
    ASSUME NEW g
    PROVE  Above(g) = WalkOf(g)[Cardinality(Groups)]
BY DEF Above, WalkOf

LEMMA WalkOfIs ==
    ASSUME TypeOK, NEW g \in Groups, NEW m \in Nat, Cardinality(Groups) =< m, NEW w \in Walks(g, m)
    PROVE  Above(g) = w[Cardinality(Groups)]
<1> DEFINE c == Cardinality(Groups)
           walk == WalkOf(g)
           T == {n \in 0 .. c : walk[n] = w[n]}
<1>1. c \in Nat
  BY AuthorizationAssumption, FS_CardinalityType
<1>2. PICK v \in Walks(g, c) : TRUE
  BY <1>1, WalksExist
<1>3. v \in [0 .. c -> SUBSET Groups] /\ v[0] = {} /\ \A n \in 1 .. c : v[n] = ParentsOf({g} \cup v[n - 1])
  BY <1>1, <1>2, WalkLevels
<1> HIDE DEF c, walk
<1>4. v = [n \in 0 .. c |-> IF n = 0 THEN {} ELSE ParentsOf({g} \cup v[n - 1])]
  <2>1. \A n \in 0 .. c : v[n] = IF n = 0 THEN {} ELSE ParentsOf({g} \cup v[n - 1])
    BY <1>1, <1>3
  <2> QED BY <1>3, <2>1
<1>5. walk = [n \in 0 .. c |-> IF n = 0 THEN {} ELSE ParentsOf({g} \cup walk[n - 1])]
  BY <1>4 DEF WalkOf, walk, c
<1>6. walk[0] = {} /\ \A n \in 0 .. c - 1 : walk[n + 1] = ParentsOf({g} \cup walk[n])
  <2>1. \A n \in 0 .. c : walk[n] = IF n = 0 THEN {} ELSE ParentsOf({g} \cup walk[n - 1])
    BY <1>5
  <2>2. 0 \in 0 .. c
    BY <1>1
  <2>3. ASSUME NEW n \in 0 .. c - 1
        PROVE  walk[n + 1] = ParentsOf({g} \cup walk[n])
    <3>1. n + 1 \in 0 .. c /\ n + 1 # 0 /\ n + 1 - 1 = n
      BY <1>1
    <3> QED BY <2>1, <3>1
  <2> QED BY <2>1, <2>2, <2>3
<1>7. w[0] = {} /\ \A n \in 0 .. m - 1 : w[n + 1] = ParentsOf({g} \cup w[n])
  BY WalkLevels
<1>8. 0 \in T
  BY <1>1, <1>6, <1>7
<1>9. ASSUME NEW n \in 0 .. c - 1, n \in T
      PROVE  n + 1 \in T
  <2>1. n \in 0 .. m - 1 /\ n + 1 \in 0 .. c
    BY <1>1 DEF c
  <2> QED BY <1>6, <1>7, <1>9, <2>1
<1>10. T \in SUBSET (0 .. c)
  OBVIOUS
<1> HIDE DEF T
<1>11. c \in T
  BY <1>1, <1>8, <1>9, <1>10, AgainstLeast
<1> QED BY <1>11, AboveIs DEF T, c, walk

\* The levels of the query that looks up are what a walk finds step by step.
LEMMA WalkIsUp ==
    ASSUME TypeOK, NEW g \in Groups, NEW m \in Nat, MaxRecurses < m, NEW w \in Walks(g, m)
    PROVE  \A h : h \in w[MaxRecurses + 1] <=> \E i \in 0 .. MaxRecurses : h \in UpFrom(g)[i]
<1> DEFINE up == UpFrom(g)
           Found(n) == \A h : h \in w[n + 1] <=> \E i \in 0 .. n : h \in up[i]
           T == {n \in 0 .. MaxRecurses : Found(n)}
<1>1. MaxRecurses \in Nat
  BY AuthorizationAssumption
<1>2. up[0] = ParentsOf({g}) /\ \A n \in 1 .. MaxRecurses : up[n] = ParentsOf(up[n - 1])
  BY UpLevels
<1> HIDE DEF up
<1>3. w[0] = {} /\ \A n \in 0 .. m - 1 : w[n + 1] = ParentsOf({g} \cup w[n])
  BY WalkLevels
<1>4. 0 \in T
  <2>1. w[0 + 1] = ParentsOf({g})
    BY <1>1, <1>3
  <2>2. \A i : i \in 0 .. 0 <=> i = 0
    OBVIOUS
  <2>3. Found(0)
    BY <1>2, <2>1, <2>2
  <2> QED BY <1>1, <2>3
<1>5. ASSUME NEW n \in 0 .. MaxRecurses - 1, n \in T
      PROVE  n + 1 \in T
  <2>1. w[n + 1 + 1] = ParentsOf({g} \cup w[n + 1])
    <3>1. n + 1 \in 0 .. m - 1
      BY <1>1
    <3> QED BY <1>3, <3>1
  <2>2. Found(n)
    BY <1>5
  <2>3. \A h : h \in w[n + 1 + 1] <=> h \in up[0] \/ \E k \in w[n + 1] : h \in parents[k]
    BY <1>2, <2>1 DEF ParentsOf
  <2>4. \A i \in 0 .. n : \A h : h \in up[i + 1] <=> \E k \in up[i] : h \in parents[k]
    <3> SUFFICES ASSUME NEW i \in 0 .. n
                 PROVE  \A h : h \in up[i + 1] <=> \E k \in up[i] : h \in parents[k]
      OBVIOUS
    <3>1. i + 1 \in 1 .. MaxRecurses /\ i + 1 - 1 = i
      BY <1>1
    <3>2. up[i + 1] = ParentsOf(up[i])
      BY <1>2, <3>1
    <3> QED BY <3>2 DEF ParentsOf
  <2>5. \A h : (\E k \in w[n + 1] : h \in parents[k]) <=> \E i \in 0 .. n : h \in up[i + 1]
    BY <2>2, <2>4
  <2>6. \A i : i \in 0 .. n + 1 <=> i = 0 \/ \E j \in 0 .. n : i = j + 1
    <3> SUFFICES ASSUME NEW i \in 0 .. n + 1, i # 0
                 PROVE  \E j \in 0 .. n : i = j + 1
      OBVIOUS
    <3>1. i - 1 \in 0 .. n /\ i = i - 1 + 1
      OBVIOUS
    <3> QED BY <3>1
  <2>7. Found(n + 1)
    BY <2>3, <2>5, <2>6
  <2> QED BY <1>1, <2>7
<1>6. T \in SUBSET (0 .. MaxRecurses)
  OBVIOUS
<1> HIDE DEF T
<1>7. MaxRecurses \in T
  BY <1>1, <1>4, <1>5, <1>6, AgainstLeast
<1> QED BY <1>7 DEF T, up

Links == {l \in Groups \X Groups : l[2] \in parents[l[1]]}

\* There are no more links between groups than one recursion follows after another.
FewLinks == Cardinality(Links) =< MaxRecurses + 1

LEMMA LinksAreFinite == IsFiniteSet(Links) /\ Cardinality(Links) \in Nat
<1>1. IsFiniteSet(Groups \X Groups)
  BY AuthorizationAssumption, FS_Product
<1>2. Links \subseteq Groups \X Groups
  BY DEF Links
<1> QED BY <1>1, <1>2, FS_Subset, FS_CardinalityType

\* A link leads to each group that is found, and to no other.
LEMMA FoundByLinks ==
    ASSUME TypeOK, NEW gs \in SUBSET Groups
    PROVE  /\ IsFiniteSet(ParentsOf(gs))
           /\ Cardinality(ParentsOf(gs)) \in Nat
           /\ Cardinality(ParentsOf(gs)) =< Cardinality(Links)
<1> DEFINE f == [h \in ParentsOf(gs) |-> <<CHOOSE k \in gs : h \in parents[k], h>>]
<1>1. \A h \in ParentsOf(gs) : \E k \in gs : h \in parents[k]
  BY DEF ParentsOf
<1>2. ASSUME NEW h \in ParentsOf(gs)
      PROVE  f[h] \in Links /\ f[h][2] = h
  <2>1. PICK k \in gs : k = CHOOSE j \in gs : h \in parents[j]
    BY <1>1
  <2>2. h \in parents[k] /\ f[h] = <<k, h>>
    BY <1>1, <2>1
  <2>3. h \in Groups
    BY <2>2 DEF TypeOK
  <2> QED BY <2>2, <2>3 DEF Links
<1>3. f \in [ParentsOf(gs) -> Links]
  BY <1>2
<1>4. f \in Injection(ParentsOf(gs), Links)
  BY <1>2, <1>3 DEF Injection, IsInjective
<1> HIDE DEF f
<1>5. IsFiniteSet(ParentsOf(gs)) /\ Cardinality(ParentsOf(gs)) =< Cardinality(Links)
  BY <1>4, LinksAreFinite, FS_Injection
<1> QED BY <1>5, FS_CardinalityType

\* A walk of as many links as there are groups finds all that is above, and so do the levels
\* of the recursion when the links are few.
LEMMA AllIsFound ==
    ASSUME TypeOK, FewLinks, NEW g \in Groups
    PROVE  \A h : h \in Above(g) <=> \E i \in 0 .. MaxRecurses : h \in UpFrom(g)[i]
<1> DEFINE c == Cardinality(Groups)
           r == MaxRecurses + 1
           m == c + r + 2
<1>1. c \in Nat /\ r \in Nat /\ m \in Nat
  BY AuthorizationAssumption, FS_CardinalityType
<1>2. PICK w \in Walks(g, m) : TRUE
  BY <1>1, WalksExist
<1>3. /\ w \in [0 .. m -> SUBSET Groups]
      /\ \A n \in 0 .. m - 1 : w[n + 1] = ParentsOf({g} \cup w[n])
      /\ w[0] = {}
  BY <1>1, WalkLevels
<1>4. \A n \in 0 .. m - 1 : w[n] \subseteq w[n + 1]
  BY <1>1, WalkGrows
<1>5. \A n \in 0 .. m - 1 : w[n + 1] = w[n] \/ Cardinality(w[n + 1]) >= n + 1
  BY <1>1, WalkFinds
<1>6. \A i \in 0 .. m - 1 : w[i + 1] = w[i] => \A n \in 0 .. m : w[n] \subseteq w[i]
  BY <1>1, WalkEnds
<1>7. w[c + 1] = w[c]
  <2>1. CASE c = 0
    <3>1. Groups = {}
      BY <2>1, AuthorizationAssumption, FS_EmptySet
    <3> QED BY <3>1
  <2>2. CASE c # 0 /\ w[c + 1] # w[c]
    <3>1. c \in 0 .. m - 1
      BY <1>1
    <3>2. w[c + 1] \in SUBSET Groups /\ w[c] \subseteq w[c + 1]
      BY <1>1, <1>3, <1>4, <3>1
    <3>3. Cardinality(w[c + 1]) >= c + 1
      BY <1>5, <2>2, <3>1
    <3>4. Cardinality(w[c + 1]) =< c
      BY <3>2, AuthorizationAssumption, FS_Subset
    <3>5. Cardinality(w[c + 1]) \in Nat
      BY <3>2, AuthorizationAssumption, FS_Subset, FS_CardinalityType
    <3> QED BY <1>1, <3>3, <3>4, <3>5
  <2> QED BY <2>1, <2>2
<1>8. w[r + 1] = w[r]
  <2> SUFFICES ASSUME w[r + 1] # w[r] PROVE FALSE
    OBVIOUS
  <2>1. r \in 0 .. m - 1
    BY <1>1
  <2>2. Cardinality(w[r + 1]) >= r + 1
    BY <1>5, <2>1
  <2>3. w[r] \in SUBSET Groups
    BY <1>1, <1>3, <2>1
  <2>4. {g} \cup w[r] \in SUBSET Groups /\ w[r + 1] = ParentsOf({g} \cup w[r])
    BY <1>3, <2>1, <2>3
  <2>5. Cardinality(w[r + 1]) \in Nat /\ Cardinality(w[r + 1]) =< Cardinality(Links)
    BY <2>4, FoundByLinks
  <2> QED BY <1>1, <2>2, <2>5, LinksAreFinite DEF FewLinks
<1>9. w[c] = w[r]
  <2>1. c \in 0 .. m - 1 /\ r \in 0 .. m - 1 /\ c \in 0 .. m /\ r \in 0 .. m
    BY <1>1
  <2>2. w[r] \subseteq w[c] /\ w[c] \subseteq w[r]
    BY <1>6, <1>7, <1>8, <2>1
  <2> QED BY <2>2
<1>10. Above(g) = w[c]
  BY <1>1, WalkOfIs
<1>11. MaxRecurses < m
  BY <1>1, AuthorizationAssumption
<1>12. \A h : h \in w[MaxRecurses + 1] <=> \E i \in 0 .. MaxRecurses : h \in UpFrom(g)[i]
  BY <1>1, <1>11, WalkIsUp
<1> QED BY <1>9, <1>10, <1>12

LEMMA FromAboveNow == TypeOK /\ FewLinks => PermissionsComeFromAbove
<1> SUFFICES ASSUME TypeOK, FewLinks, NEW u \in Users \ Sysadmins, NEW g \in Groups,
                    NEW permission \in AllPermissions, gstate[g] # "none"
             PROVE  HasPermission(u, g, permission) <=>
                      \E h \in Groups :
                        /\ role[h][u] \in RolesWith(permission)
                        /\ \/ h = g
                           \/ /\ h \in Above(g) /\ role[h][u] \in config.cascade
                              /\ gstate[h] = "active" /\ TypeOf[h] = TypeOf[g]
  BY DEF PermissionsComeFromAbove
<1>1. \A h : h \in ParentGroups(g, TypeOf[g]) <=>
               h \in Above(g) /\ gstate[h] = "active" /\ TypeOf[h] = TypeOf[g]
  <2>1. \A h : h \in ParentGroups(g, TypeOf[g]) <=>
                 /\ \E i \in 0 .. MaxRecurses : h \in UpFrom(g)[i]
                 /\ gstate[h] = "active" /\ TypeOf[h] = TypeOf[g]
    BY UpIs DEF ActiveOfType
  <2> QED BY <2>1, AllIsFound
<1>2. HasPermission(u, g, permission) <=>
        \/ role[g][u] \in RolesWith(permission)
        \/ \E h \in ParentGroups(g, TypeOf[g]) :
             role[h][u] \in RolesWith(permission) /\ role[h][u] \in config.cascade
  BY AuthorizationAssumption DEF HasPermission
<1>3. \A h \in Above(g) : h \in Groups
  <2>1. \A i \in 0 .. MaxRecurses : UpFrom(g)[i] \subseteq Groups
    BY UpLevels
  <2> QED BY <2>1, AllIsFound
<1> QED BY <1>1, <1>2, <1>3

\* As long as there are no more links between groups than the recursion goes deep, a user may
\* do in a group what a role of the user there allows, or one that cascades from an active
\* group above, however far: the bounded queries miss none and find no other.
THEOREM PermissionsStayFromAbove == Spec => [](FewLinks => PermissionsComeFromAbove)
<1> QED BY TypeCorrect, FromAboveNow, PTL
=============================================================================
