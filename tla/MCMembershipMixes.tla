--------------------------- MODULE MCMembershipMixes ---------------------------
(***************************************************************************)
(* One instance of Membership for several mixes of requests.               *)
(*                                                                         *)
(* A mix is a choice of requests, of what they name and of the workers;    *)
(* each behaviour of MixSpec keeps to one of them.                         *)
(***************************************************************************)
EXTENDS MCMembership

VARIABLE mix

NamesOf(r) ==
    LET has(f) == f \in DOMAIN r
    IN  {r[f] : f \in DOMAIN r \cap {"pkg", "group", "object", "owner"}}
          \cup (IF has("groups") THEN r.groups \cup r.readable ELSE {})
          \cup (IF has("list") THEN DOMAIN r.list ELSE {})

Mix(kinds, names, states, workers) ==
    [requests |-> {r \in UNION {Requests(k) : k \in kinds} :
                     /\ NamesOf(r) \subseteq names \cup {None}
                     /\ "state" \in DOMAIN r => r.state \in states},
     names |-> names, workers |-> workers]

\* Moves: every request on a dataset and its organizations, one after the other.
\* Roster: users join and leave groups that come and go.  Purges: against updates that
\* delete nothing, in two workers.  Deletions: of an organization, against requests that
\* bring it datasets, in two workers.
Mixes ==
    [moves     |-> Mix(AllKinds, {p1, o1, o2}, PackageStates, {w1}),
     roster    |-> Mix(MemberKinds \cup {"group_create", "group_delete", "purge"},
                       {u1, g1, o1}, States, {w1}),
     purges    |-> Mix({"package_update", "group_update", "purge"}, {p1, g1, o1},
                       {"active"}, {w1, w2}),
     deletions |-> Mix({"package_update", "member_create", "organization_delete"}, {p1, o1}, PackageStates,
                       {w1, w2})]

MixInit ==
    /\ Init
    /\ mix \in DOMAIN Mixes
    /\ \A g \in Groups \ Mixes[mix].names : ~ Exists(g)

\* Start, of a request of the mix.
MixStart(w) == \E r \in Mixes[mix].requests : Begin(w, r)

MixNext ==
    /\ \E w \in Mixes[mix].workers : MixStart(w) \/ Step(w) \/ Abort(w)
    /\ Watch
    /\ UNCHANGED mix

MixSpec == MixInit /\ [][MixNext]_<<vars, mix>>

\* Who was removed from a group is not in it, as long as no list of members is
\* saved: a list may leave two active rows (group_member_save).  Whoever creates a
\* group administers it.
RemovedAreOut ==
    [][\A w \in Workers :
         mix = "roster" /\ Write(w) /\ req[w].kind = "member_delete" =>
           \A g \in {req[w].group}, o \in {req[w].object} : ~ Belongs(g, o)']_vars
RosterHolds == RemovedAreOut /\ CreatorIsAdmin
=============================================================================
