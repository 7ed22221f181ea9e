--------------------------- MODULE MCAuthorization ---------------------------
(***************************************************************************)
(* Instances of Authorization for TLC.                                     *)
(***************************************************************************)
EXTENDS Authorization, TLC

CONSTANTS
    ann, root,  \* an account and a sysadmin
    o1, o2, o3, \* organizations
    p1          \* a dataset

ThreeOrgs == [o \in {o1, o2, o3} |-> "organization"]

Shipped == [on |-> ConfigPermissions \ {"anon_create_dataset"}, cascade |-> {"admin"}]
Closed == [on |-> {"user_create_organizations"}, cascade |-> {"editor", "member"}]
Portals == {Shipped, Closed}

\* The organizations are interchangeable.
SameOrgs == Permutations({o1, o2, o3})
=============================================================================
