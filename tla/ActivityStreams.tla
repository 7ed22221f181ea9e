---------------------------- MODULE ActivityStreams ----------------------------
(***************************************************************************)
(* Activities, the streams that are read from them, followers and the       *)
(* dashboard.                                                               *)
(*                                                                         *)
(* A request computes its activities at the end, in the before_commit hook  *)
(* of the session for datasets and in the action for groups and users, and  *)
(* commits them with its changes.  An activity carries the time it was      *)
(* computed at, so that one transaction may become visible before another   *)
(* one that is older.                                                       *)
(*                                                                         *)
(* Abstractions: a request is one transaction and names one object; no two  *)
(* activities have the same timestamp, which has microseconds; the datasets *)
(* of a group do not change (the module Membership); a limit is at least 1. *)
(***************************************************************************)
EXTENDS Naturals, FiniteSets

CONSTANTS
    Users, Packages, Groups,
    Followers,    \* the users that follow something and look at their dashboard
    Hidden,       \* ckan.hide_activity_from_users
    PackagesOf,   \* the datasets of each group
    Edits,        \* what an edit may change next to the package row: sets of details
    Workers,
    Crossing,     \* TRUE: one user may mark the dashboard in two requests at once
    MaxTime,      \* bound on the clock
    None

Objects == Users \cup Packages \cup Groups

ASSUME ObjectsAssumption ==
    /\ Users \cap Packages = {} /\ Users \cap Groups = {} /\ Packages \cap Groups = {}
    /\ Followers \subseteq Users /\ Hidden \subseteq Users
    /\ PackagesOf \in [Groups -> SUBSET Packages]
ASSUME BoundAssumption == MaxTime \in Nat /\ Crossing \in BOOLEAN
ASSUME NoneAssumption == None \notin Nat \cup {"active", "deleted"}

Kinds == {"new", "changed", "deleted"}
\* The rows of a dataset that a session reports as new, changed or deleted.
Details == [part : {"package", "resource", "extra", "tag"}, kind : Kinds]
ASSUME EditsAssumption == Edits \subseteq SUBSET {d \in Details : d.part # "package"}
Activities == [time : Nat, user : Users, object : Objects, kind : Kinds,
               details : SUBSET Details]

VARIABLES
    clock,      \* datetime.now()
    acts,       \* the committed activities with their details
    state,      \* of each object: None, active or deleted
    private,    \* of each dataset
    follows,    \* rows of the three user_following tables
    viewed,     \* activity_stream_last_viewed, None without a dashboard row
    pc,         \* of each worker: idle, or at its commit
    req,        \* the request of the worker
    pend        \* what it will commit

tables == <<acts, state, private, follows, viewed>>
vars == <<clock, acts, state, private, follows, viewed, pc, req, pend>>

NoRequest == [kind |-> "none"]
NoChange == [acts |-> {}, state |-> None, private |-> FALSE, viewed |-> 0]

TypeOK ==
    /\ clock \in 0 .. MaxTime
    /\ acts \subseteq Activities
    /\ \A a, b \in acts : a.time = b.time => a = b
    /\ \A a \in acts : a.time < clock /\ state[a.object] # None
    /\ state \in [Objects -> {None, "active", "deleted"}]
    /\ private \in [Packages -> BOOLEAN]
    /\ follows \subseteq Followers \X Objects
    /\ \A f \in follows : state[f[2]] # None /\ f[1] # f[2]
    /\ viewed \in [Users -> 0 .. MaxTime \cup {None}]
    /\ pc \in [Workers -> {"idle", "commit"}]
    /\ \A w \in Workers : /\ pend[w].acts \subseteq Activities
                          /\ Cardinality(pend[w].acts) =< 1

Init ==
    /\ clock = 0
    /\ acts = {}
    /\ state = [o \in Objects |-> IF o \in Packages THEN None ELSE "active"]
    /\ private = [p \in Packages |-> FALSE]
    /\ follows = {}
    /\ viewed = [u \in Users |-> None]
    /\ pc = [w \in Workers |-> "idle"]
    /\ req = [w \in Workers |-> NoRequest]
    /\ pend = [w \in Workers |-> NoChange]

-----------------------------------------------------------------------------
(***************************************************************************)
(* Streams.  A query for the first n activities asks each of the queries it *)
(* is the union of for its first n.                                         *)
(***************************************************************************)
Newer(a, S) == {b \in S : b.time > a.time}

\* _activities_limit, newest first.
Limited(S, limit, offset) ==
    {a \in S : LET rank == Cardinality(Newer(a, S)) IN offset =< rank /\ rank < offset + limit}
First(S, n) == Limited(S, n, 0)

About(o) == {a \in acts : a.object = o}
From(u) == {a \in acts : a.user = u}
UserStream(u, n) == First(From(u), n) \cup First(About(u), n)
PackageStream(p) == About(p)

\* Group.packages: those that are active, and not private unless asked for.
Shown(g) == {p \in PackagesOf[g] : state[p] = "active" /\ ~ private[p]}
GroupStream(g) ==
    IF state[g] = None THEN {} ELSE About(g) \cup UNION {About(p) : p \in Shown(g)}

\* followee_list: neither the follower nor the object is deleted.
Followees(u, class) ==
    {o \in class : <<u, o>> \in follows /\ state[u] # "deleted" /\ state[o] # "deleted"}

FollowedUsers(u, n) == UNION {UserStream(v, n) : v \in Followees(u, Users)}
FollowedPackages(u, n) == UNION {First(PackageStream(p), n) : p \in Followees(u, Packages)}
FollowedGroups(u, n) == UNION {First(GroupStream(g), n) : g \in Followees(u, Groups)}
Followed(u, n) == FollowedUsers(u, n) \cup FollowedPackages(u, n) \cup FollowedGroups(u, n)

DashboardQuery(u, n) == UserStream(u, n) \cup Followed(u, n)

\* _filter_activity_by_user takes the hidden users out of the page that was read.
Filtered(S) == {a \in S : a.user \notin Hidden}

\* user_activity_list, package_activity_list, group_activity_list and its twin for
\* organizations, recently_changed_packages_activity_list.
UserActivities(u, limit, offset) ==
    Filtered(Limited(UserStream(u, limit + offset), limit, offset))
PackageActivityList(p, limit, offset) == Filtered(Limited(PackageStream(p), limit, offset))
GroupActivities(g, limit, offset) == Filtered(Limited(GroupStream(g), limit, offset))
RecentlyChanged(limit, offset) ==
    Filtered(Limited({a \in acts : a.object \in Packages}, limit, offset))

\* Mutant of Page: the sub-queries are asked for one page.
PageOfOne(u, limit, offset) == Limited(DashboardQuery(u, limit), limit, offset)

Page(u, limit, offset) == Limited(DashboardQuery(u, limit + offset), limit, offset)

Dashboard(u, limit, offset) == Filtered(Page(u, limit, offset))

IsNew(a, u) == a.user # u /\ a.time > viewed[u]

\* dashboard_new_activities_count counts in the first page.
NewCount(u, limit) == Cardinality({a \in Dashboard(u, limit, 0) : IsNew(a, u)})

\* follower_list; followee_list joins the lists of users, datasets, groups and
\* organizations.  The counts do the same queries.
FollowersOf(o) ==
    {u \in Followers : <<u, o>> \in follows /\ state[u] # "deleted" /\ state[o] # "deleted"}
FollowerCount(o) == Cardinality(FollowersOf(o))
FolloweeList(u) == Followees(u, Users) \cup Followees(u, Packages) \cup Followees(u, Groups)
FolloweeCount(u) ==
    Cardinality(Followees(u, Users)) + Cardinality(Followees(u, Packages))
      + Cardinality(Followees(u, Groups))

-----------------------------------------------------------------------------
(***************************************************************************)
(* Requests: they compute what they will commit, and commit.               *)
(***************************************************************************)
Start(w, r, change) ==
    /\ pc[w] = "idle"
    /\ pc' = [pc EXCEPT ![w] = "commit"]
    /\ req' = [req EXCEPT ![w] = r]
    /\ pend' = [pend EXCEPT ![w] = change]
    /\ UNCHANGED tables

Tick == clock < MaxTime /\ clock' = clock + 1

\* Two updates of one row wait for each other; a new object is its creator's.
Free(o) == \A w \in Workers : pc[w] = "commit" => ~ (req[w].kind = "save" /\ req[w].object = o)

Activity(u, o, kind, details) ==
    [time |-> clock, user |-> u, object |-> o, kind |-> kind, details |-> details]

\* activity_stream_item makes a deletion of the change of a row that is deleted.
\* No activity has the type it looks for to find an earlier one.
ItemKind(kind, s) == IF kind = "changed" /\ s = "deleted" THEN "deleted" ELSE kind

\* Mutant of PackageActivities: a private dataset is logged when it is new.
PackageActivitiesOfNew(u, p, kind, s, hidden, details) ==
    IF hidden /\ kind # "new" THEN {}
    ELSE {Activity(u, p, ItemKind(kind, s),
                   details \cup {[part |-> "package", kind |-> ItemKind(kind, s)]})}

\* DatasetActivitySessionExtension: one activity for the dataset, whatever rows of
\* it the session holds, with one detail each; none when it is private.
PackageActivities(u, p, kind, s, hidden, details) ==
    IF hidden THEN {}
    ELSE {Activity(u, p, ItemKind(kind, s),
                   details \cup {[part |-> "package", kind |-> ItemKind(kind, s)]})}

\* package_create, package_update, package_delete: details are the other rows.
SavePackage(w, u, p, s, hidden, details) ==
    LET kind == IF state[p] = None THEN "new" ELSE "changed"
    IN  /\ Free(p)
        /\ kind = "new" => s = "active" /\ \A d \in details : d.kind = "new"
        /\ Start(w, [kind |-> "save", user |-> u, object |-> p, details |-> details],
                 [acts |-> PackageActivities(u, p, kind, s, hidden, details),
                  state |-> s, private |-> hidden, viewed |-> 0])
        /\ Tick

\* group_update and user_update call activity_create.
SaveOther(w, u, o, s) ==
    /\ Free(o)
    /\ Start(w, [kind |-> "save", user |-> u, object |-> o],
             [acts |-> {Activity(u, o, ItemKind("changed", s), {})},
              state |-> s, private |-> FALSE, viewed |-> 0])
    /\ Tick

Follows(u, o) == o \in Followees(u, Objects)

\* follow_user, follow_dataset, follow_group.
Follow(w, u, o) ==
    /\ state[o] # None /\ u # o /\ ~ Follows(u, o)
    /\ Start(w, [kind |-> "follow", user |-> u, object |-> o], NoChange)
    /\ UNCHANGED clock

Unfollow(w, u, o) ==
    /\ Follows(u, o)
    /\ Start(w, [kind |-> "unfollow", user |-> u, object |-> o], NoChange)
    /\ UNCHANGED clock

\* dashboard_mark_activities_old.
MarkOld(w, u) ==
    /\ viewed[u] # None
    /\ ~ Crossing => \A v \in Workers : req[v].kind = "mark" => req[v].user # u
    /\ Start(w, [kind |-> "mark", user |-> u, object |-> u], [NoChange EXCEPT !.viewed = clock])
    /\ Tick

\* Dashboard.get, when there is no row.
OpenDashboard(w, u) ==
    /\ viewed[u] = None
    /\ Start(w, [kind |-> "open", user |-> u, object |-> u], [NoChange EXCEPT !.viewed = clock])
    /\ Tick

Done(w) ==
    /\ pc' = [pc EXCEPT ![w] = "idle"]
    /\ req' = [req EXCEPT ![w] = NoRequest]
    /\ pend' = [pend EXCEPT ![w] = NoChange]
    /\ UNCHANGED clock

CommitSave(w) ==
    /\ req[w].kind = "save"
    /\ acts' = acts \cup pend[w].acts
    /\ state' = [state EXCEPT ![req[w].object] = pend[w].state]
    /\ private' = [p \in Packages |-> IF p = req[w].object THEN pend[w].private ELSE private[p]]
    /\ UNCHANGED <<follows, viewed>>

\* Following what one follows already, or followed when it was deleted, fails
\* on the primary key; unfollowing deletes the row if it is still there.
CommitFollow(w) ==
    LET row == <<req[w].user, req[w].object>>
    IN  /\ \/ req[w].kind = "follow" /\ row \notin follows /\ follows' = follows \cup {row}
           \/ req[w].kind = "unfollow" /\ row \in follows /\ follows' = follows \ {row}
        /\ UNCHANGED <<acts, state, private, viewed>>

\* Mutant of CommitViewed: a second row of the dashboard replaces the first.
CommitViewedAgain(w) ==
    /\ req[w].kind \in {"mark", "open"}
    /\ viewed' = [viewed EXCEPT ![req[w].user] = pend[w].viewed]
    /\ UNCHANGED <<acts, state, private, follows>>

\* The user of a dashboard row is its primary key.
CommitViewed(w) ==
    /\ \/ req[w].kind = "mark"
       \/ req[w].kind = "open" /\ viewed[req[w].user] = None
    /\ viewed' = [viewed EXCEPT ![req[w].user] = pend[w].viewed]
    /\ UNCHANGED <<acts, state, private, follows>>

Commit(w) ==
    /\ pc[w] = "commit"
    /\ CommitSave(w) \/ CommitFollow(w) \/ CommitViewed(w)
    /\ Done(w)

\* A commit that fails, and a worker that is killed, leave nothing.
Abort(w) ==
    /\ pc[w] = "commit"
    /\ Done(w)
    /\ UNCHANGED tables

Next ==
    \E w \in Workers :
      \/ \E u \in Users, p \in Packages, s \in {"active", "deleted"}, hidden \in BOOLEAN,
            details \in Edits :
           SavePackage(w, u, p, s, hidden, details)
      \/ \E u \in Users, o \in Groups, s \in {"active", "deleted"} : SaveOther(w, u, o, s)
      \/ \E u \in Users : SaveOther(w, u, u, "active")
      \/ \E u \in Followers :
           \/ \E o \in Objects : Follow(w, u, o) \/ Unfollow(w, u, o)
           \/ MarkOld(w, u)
           \/ OpenDashboard(w, u)
      \/ Commit(w)
      \/ Abort(w)

Spec == Init /\ [][Next]_vars

-----------------------------------------------------------------------------
(***************************************************************************)
(* Properties.                                                             *)
(***************************************************************************)

\* What the dashboard is about, without limits.
Stream(u) ==
    LET users == {u} \cup Followees(u, Users)
        packages == Followees(u, Packages) \cup UNION {Shown(g) : g \in Followees(u, Groups)}
    IN  {a \in acts : \/ a.user \in users
                      \/ a.object \in users \cup packages \cup Followees(u, Groups)}

\* A page of a stream is the slice of the whole stream it should be, though every
\* sub-query was cut off: nothing is skipped, nothing shown twice.
PagesAreSlices ==
    \A limit, offset \in 1 .. 2 :
      /\ \A u \in Followers :
           Dashboard(u, limit, offset) = Filtered(Limited(Stream(u), limit, offset))
      /\ \A u \in Users :
           UserActivities(u, limit, offset) =
             Filtered(Limited(From(u) \cup About(u), limit, offset))

\* Two pages in a row are the page of twice the length.
PagesAddUp ==
    \A g \in Groups, p \in Packages :
      /\ GroupActivities(g, 1, 0) \cup GroupActivities(g, 1, 1) = GroupActivities(g, 2, 0)
      /\ PackageActivityList(p, 1, 0) \cup PackageActivityList(p, 1, 1)
           = PackageActivityList(p, 2, 0)
      /\ RecentlyChanged(1, 0) \cup RecentlyChanged(1, 1) = RecentlyChanged(2, 0)

\* The followers of what one follows include oneself, and the counts are those of the
\* lists; a dashboard that has room for all counts all that is new.
FollowersMatch ==
    \A u \in Followers :
      /\ \A o \in Objects :
           /\ o \in FolloweeList(u) <=> u \in FollowersOf(o)
           /\ FollowerCount(o) = Cardinality({v \in Followers : o \in FolloweeList(v)})
      /\ FolloweeCount(u) = Cardinality(FolloweeList(u))
      /\ viewed[u] # None =>
           NewCount(u, MaxTime) = Cardinality({a \in Filtered(Stream(u)) : IsNew(a, u)})

\* What a user has been shown as old does not come back as new.
OldStaysOld ==
    [][\A u \in Users, a \in acts :
         viewed[u] # None /\ ~ IsNew(a, u) => ~ IsNew(a, u)']_vars

\* The history of an object begins with the activity that says it is new, if there is
\* one, and ends with what it is: the last activity of a public dataset says it is
\* deleted exactly when it is.
FirstAndLast ==
    \A o \in Objects : \A a \in About(o) :
        /\ \A b \in About(o) : b.kind = "new" => b.time =< a.time
        /\ Newer(a, About(o)) = {} /\ (o \in Packages => ~ private[o])
             => (a.kind = "deleted" <=> state[o] = "deleted")

\* What is read of the activities and of who follows whom, for one property of a run.
StreamsAreWhole == PagesAreSlices /\ PagesAddUp /\ FollowersMatch /\ FirstAndLast

\* An edit of a dataset that leaves it public adds one activity, with a detail for
\* each row that it changed; one that leaves it private adds none.
EditsAreLogged ==
    [][\A w \in Workers : req[w].kind = "save" /\ CommitSave(w) =>
         \A p \in Packages \cap {req[w].object} :
           LET new == acts' \ acts
           IN  IF private'[p] THEN new = {}
               ELSE \E a \in new : /\ new = {a} /\ a.object = p /\ a.user = req[w].user
                                   /\ {d \in a.details : d.part # "package"} = req[w].details]_vars
=============================================================================
