-------------------------------- MODULE Roles --------------------------------
(***************************************************************************)
(* Roles of accounts on datasets and groups: the table user_object_role.    *)
(*                                                                         *)
(* A dataset or a group is created with the roles the portal gives by       *)
(* default, which user_role_update changes afterwards.  The update reads    *)
(* the roles of the account, adds those that are missing to its session,    *)
(* and removes the others one by one; every removal commits the session, so *)
(* that an update is as many transactions as it removes roles.              *)
(*                                                                         *)
(* Abstractions: an object is a dataset or a group; for the portal itself   *)
(* user_role_update fails before it changes anything.                      *)
(***************************************************************************)
EXTENDS Naturals, Sequences, FiniteSets

CONSTANTS
    Objects,
    Users,          \* accounts, the pseudo accounts of visitors and of those logged in among them
    Creators,       \* the accounts that create objects
    RoleNames,
    DefaultRoles,   \* ckan.default_roles: the roles of each pseudo account, which creates nothing
    Requests,       \* sequences of [user, roles]; more than one: user_role_bulk_update
    Workers,
    MaxRequests,    \* bound on the updates
    None

VARIABLES
    exists,     \* of each object, whether it was created and purged
    count,      \* rows of an object, an account and a role
    pc,         \* of each worker: idle, read, add, remove or commit
    obj,        \* the object of its request
    todo,       \* the accounts it has still to update
    missing,    \* the roles to add, those it added to its session, those to remove
    added,
    unwanted,
    crossed,    \* history: of each worker, another one committed since it read the roles
    stale,      \* history: a worker committed what it made of roles read before such a commit
    started

vars == <<exists, count, pc, obj, todo, missing, added, unwanted, crossed, stale, started>>

TypeOK ==
    /\ exists \in [Objects -> {"no", "yes", "purged"}]
    /\ count \in [Objects -> [Users -> [RoleNames -> Nat]]]
    /\ \A o \in Objects, u \in Users, r \in RoleNames : exists[o] # "yes" => count[o][u][r] = 0
    /\ pc \in [Workers -> {"idle", "read", "add", "remove", "commit"}]
    /\ \A w \in Workers : missing[w] \cup added[w] \cup unwanted[w] \subseteq RoleNames

NoRows == [u \in Users |-> [r \in RoleNames |-> 0]]

Init ==
    /\ exists = [o \in Objects |-> "no"]
    /\ count = [o \in Objects |-> NoRows]
    /\ pc = [w \in Workers |-> "idle"]
    /\ obj = [w \in Workers |-> None]
    /\ todo = [w \in Workers |-> <<>>]
    /\ missing = [w \in Workers |-> {}]
    /\ added = [w \in Workers |-> {}]
    /\ unwanted = [w \in Workers |-> {}]
    /\ crossed = [w \in Workers |-> FALSE]
    /\ stale = FALSE /\ started = 0

-----------------------------------------------------------------------------
\* roles_show: an account has a role when there is a row.
RolesShow(u, o) == {r \in RoleNames : count[o][u][r] > 0}

\* UserObjectRole.user_has_role: when there is exactly one.
UserHasRole(u, r, o) == count[o][u][r] = 1

\* A commit of a worker changes what the others have read of the object.
Committed(w, o) ==
    /\ crossed' = [v \in Workers |-> crossed[v] \/ (v # w /\ obj[v] = o)]
    /\ stale' = (stale \/ crossed[w])

(***************************************************************************)
(* Objects come with setup_default_user_roles, in the transaction of        *)
(* package_create or group_create, and take their roles with them.          *)
(***************************************************************************)
SetupDefaultUserRoles(o, creator) ==
    /\ exists[o] = "no"
    /\ exists' = [exists EXCEPT ![o] = "yes"]
    /\ count' = [count EXCEPT ![o] = [u \in Users |-> [r \in RoleNames |->
                   IF \/ u \in DOMAIN DefaultRoles /\ r \in DefaultRoles[u]
                      \/ u = creator /\ r = "admin"
                   THEN 1 ELSE 0]]]
    /\ UNCHANGED <<pc, obj, todo, missing, added, unwanted, crossed, stale, started>>

Purge(o) ==
    /\ exists[o] = "yes"
    /\ exists' = [exists EXCEPT ![o] = "purged"]
    /\ count' = [count EXCEPT ![o] = NoRows]
    /\ crossed' = [v \in Workers |-> crossed[v] \/ obj[v] = o]
    /\ UNCHANGED <<pc, obj, todo, missing, added, unwanted, stale, started>>

(***************************************************************************)
(* user_role_update and user_role_bulk_update.                             *)
(***************************************************************************)
Ask(w, o, r) ==
    /\ pc[w] = "idle" /\ exists[o] = "yes" /\ started < MaxRequests
    /\ pc' = [pc EXCEPT ![w] = "read"]
    /\ obj' = [obj EXCEPT ![w] = o]
    /\ todo' = [todo EXCEPT ![w] = r]
    /\ started' = started + 1
    /\ UNCHANGED <<exists, count, missing, added, unwanted, crossed, stale>>

\* Mutant of Unwanted: all the roles the account has.
UnwantedAll(w, current) == current

Unwanted(w, current) == current \ Head(todo[w]).roles

Read(w) ==
    LET current == RolesShow(Head(todo[w]).user, obj[w])
    IN  /\ pc[w] = "read"
        /\ missing' = [missing EXCEPT ![w] = Head(todo[w]).roles \ current]
        /\ unwanted' = [unwanted EXCEPT ![w] = Unwanted(w, current)]
        /\ added' = [added EXCEPT ![w] = {}]
        /\ pc' = [pc EXCEPT ![w] = "add"]
        /\ crossed' = [crossed EXCEPT ![w] = FALSE]
        /\ UNCHANGED <<exists, count, obj, todo, stale, started>>

\* add_user_to_role looks for the row again, before the transaction that may add it commits.
AddUserToRole(w) ==
    /\ pc[w] = "add"
    /\ IF missing[w] = {}
       THEN /\ pc' = [pc EXCEPT ![w] = IF unwanted[w] = {} THEN "commit" ELSE "remove"]
            /\ UNCHANGED <<missing, added>>
       ELSE \E r \in missing[w] :
            /\ missing' = [missing EXCEPT ![w] = @ \ {r}]
            /\ added' = IF UserHasRole(Head(todo[w]).user, r, obj[w]) THEN added
                        ELSE [added EXCEPT ![w] = @ \cup {r}]
            /\ UNCHANGED pc
    /\ UNCHANGED <<exists, count, obj, todo, unwanted, crossed, stale, started>>

\* The rows of the account after a commit of the worker that deletes those of some roles.
Written(w, gone) ==
    [count EXCEPT ![obj[w]][Head(todo[w]).user] =
       [r \in RoleNames |-> IF r \in gone THEN 0
                            ELSE @[r] + (IF r \in added[w] THEN 1 ELSE 0)]]

\* remove_user_from_role deletes the rows and commits, with what was added before.
RemoveUserFromRole(w) ==
    /\ pc[w] = "remove" /\ exists[obj[w]] = "yes"
    /\ \E r \in unwanted[w] :
         /\ count' = Written(w, {r})
         /\ unwanted' = [unwanted EXCEPT ![w] = @ \ {r}]
         /\ added' = [added EXCEPT ![w] = {}]
         /\ pc' = [pc EXCEPT ![w] = IF unwanted'[w] = {} THEN "commit" ELSE "remove"]
    /\ Committed(w, obj[w])
    /\ UNCHANGED <<exists, obj, todo, missing, started>>

End(w) ==
    /\ pc' = [pc EXCEPT ![w] = "idle"]
    /\ obj' = [obj EXCEPT ![w] = None]
    /\ todo' = [todo EXCEPT ![w] = <<>>]
    /\ missing' = [missing EXCEPT ![w] = {}]
    /\ added' = [added EXCEPT ![w] = {}]
    /\ unwanted' = [unwanted EXCEPT ![w] = {}]

\* The update of one account is done; a bulk update goes on to the next.
Commit(w) ==
    /\ pc[w] = "commit" /\ (added[w] # {} => exists[obj[w]] = "yes")
    /\ count' = Written(w, {})
    /\ Committed(w, obj[w])
    /\ IF Len(todo[w]) = 1 THEN End(w)
       ELSE /\ pc' = [pc EXCEPT ![w] = "read"]
            /\ todo' = [todo EXCEPT ![w] = Tail(@)]
            /\ added' = [added EXCEPT ![w] = {}]
            /\ UNCHANGED <<obj, missing, unwanted>>
    /\ UNCHANGED <<exists, started>>

\* The worker dies, or the object was purged and its rows cannot be written.
Fail(w) ==
    /\ pc[w] # "idle"
    /\ End(w)
    /\ UNCHANGED <<exists, count, crossed, stale, started>>

Next ==
    \/ \E o \in Objects :
         \/ \E creator \in Creators \cup {None} : SetupDefaultUserRoles(o, creator)
         \/ Purge(o)
    \/ \E w \in Workers :
         \/ \E o \in Objects, r \in Requests : Ask(w, o, r)
         \/ Read(w)
         \/ AddUserToRole(w)
         \/ RemoveUserFromRole(w)
         \/ Commit(w)
         \/ Fail(w)

Spec == Init /\ [][Next]_vars

-----------------------------------------------------------------------------
(***************************************************************************)
(* Properties.                                                             *)
(***************************************************************************)

\* The update of an account that no other commit crossed leaves it the roles that were
\* asked for, each once; one that was crossed or killed never takes a role away that it
\* was asked to leave, nor gives one that it was not asked for.
RolesAsAsked ==
    [][\A w \in Workers : obj[w] # None /\ (Commit(w) \/ RemoveUserFromRole(w)) =>
         LET u == Head(todo[w]).user
             asked == Head(todo[w]).roles
             before == {r \in RoleNames : count[obj[w]][u][r] > 0}
             after == {r \in RoleNames : count'[obj[w]][u][r] > 0}
         IN  /\ after \ before \subseteq asked
             /\ (before \ after) \cap asked = {}
             /\ pc[w] = "commit" /\ ~ crossed[w] => after = asked]_vars

\* What roles_show lists is what user_has_role finds, until two updates of the account
\* cross: then a role may have two rows, and user_has_role does not find it any more.
ShownAreHad ==
    ~ stale =>
      \A o \in Objects, u \in Users, r \in RoleNames :
        r \in RolesShow(u, o) => UserHasRole(u, r, o)
=============================================================================
