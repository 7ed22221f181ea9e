----------------------------- MODULE MCMembership -----------------------------
(***************************************************************************)
(* Instances of Membership for TLC.                                        *)
(***************************************************************************)
EXTENDS Membership, TLC

CONSTANTS
    p1, p2,     \* datasets
    u1,         \* a user
    g1,         \* a group
    o1, o2, o3, \* organizations
    s1, s2, s3, \* rows of one group and one object
    w1, w2      \* workers

MoveKinds == {"package_update"}

AllKinds == PackageKinds \cup MemberKinds \cup GroupKinds

NoLists == {}
AllLists == {Nothing, [x \in {p1} |-> "public"],
             [u \in {u1} |-> "admin"], [u \in {u1} |-> "member"]}

\* The workers are interchangeable; the rows are not, for FreeSlot chooses one.
SameWorkers == Permutations({w1, w2})
=============================================================================
