------------------------------ MODULE DatasetLists ------------------------------
(***************************************************************************)
(* The lists of a dataset: its resources in order, its extras and its tags, *)
(* and how package_update and the actions on single resources bring the     *)
(* rows in line with the lists they are given.                             *)
(*                                                                         *)
(* package_update locks the row of the package, reads the other rows, works *)
(* out what to change and commits that: a row that is not listed any more   *)
(* is marked deleted, one that is listed again becomes active again, and    *)
(* only the columns that differ from what the session has loaded are        *)
(* written.  The actions on single resources first read the dataset, change *)
(* one entry of the list and update with the rest; the row of the resource  *)
(* they were called for stays in the session as they first loaded it.       *)
(*                                                                         *)
(* Abstractions: one dataset; a tag is its name; the fields of a resource   *)
(* other than its place in the list are left out; the request lists a       *)
(* resource at most once.                                                  *)
(***************************************************************************)
EXTENDS Naturals, FiniteSets, SequencesExt, Functions

CONSTANTS
    ResourceIds,
    Keys, Values,
    Tags,
    Asks,        \* what package_update may be asked for: records [resources, extras, tags],
                 \* a list of identifiers, a partial function, a set
    Workers,
    MaxRequests, \* bound on the requests
    None

VARIABLES
    resources,   \* the row of each identifier, or None
    extras,      \* rows of package_extra
    tags,        \* rows of package_tag
    pc, req,     \* of each worker: its place, what it is to save and what it will write
    clean,       \* workers whose session holds no row that another has changed since
    started      \* the requests so far

rows == <<resources, extras, tags>>
vars == <<resources, extras, tags, pc, req, clean, started>>

Rank == 0 .. Cardinality(ResourceIds)
States == {"active", "deleted"}
NoRequest == [kind |-> "none"]

\* Types; one row for each key and for each tag, which no constraint of the database
\* enforces.
TypeOK ==
    /\ \A i \in ResourceIds : resources[i] # None =>
         resources[i].state \in States /\ resources[i].position \in Rank
    /\ \A n \in DOMAIN extras :
         extras[n].key \in Keys /\ extras[n].value \in Values /\ extras[n].state \in States
    /\ \A n \in DOMAIN tags : tags[n].tag \in Tags /\ tags[n].state \in States
    /\ \A n, m \in DOMAIN extras : extras[n].key = extras[m].key => n = m
    /\ \A n, m \in DOMAIN tags : tags[n].tag = tags[m].tag => n = m
    /\ pc \in [Workers -> {"idle", "save", "commit"}]
    /\ clean \subseteq Workers /\ started \in 0 .. MaxRequests

Init ==
    /\ resources = [i \in ResourceIds |-> None]
    /\ extras = <<>>
    /\ tags = <<>>
    /\ pc = [w \in Workers |-> "idle"]
    /\ req = [w \in Workers |-> NoRequest]
    /\ clean = {}
    /\ started = 0

Known == {i \in ResourceIds : resources[i] # None}
Active(i) == resources[i] # None /\ resources[i].state = "active"
Indexes(seq, test(_)) == {n \in DOMAIN seq : test(seq[n])}

\* The members of S by place, those of one place in some order.
Sorted(S, place) ==
    CHOOSE s \in SetToSeqs(S) : \A m, n \in DOMAIN s : m < n => place[s[m]] =< place[s[n]]

\* package_show: the active rows; resources by position.
ShownResources ==
    LET shown == {i \in Known : Active(i)}
    IN  Sorted(shown, [i \in shown |-> resources[i].position])
ShownExtras == {[key |-> extras[n].key, value |-> extras[n].value] :
                  n \in Indexes(extras, LAMBDA row : row.state = "active")}
ShownTags == {tags[n].tag : n \in Indexes(tags, LAMBDA row : row.state = "active")}
Shown == [resources |-> ShownResources,
          extras |-> [k \in {e.key : e \in ShownExtras} |->
                        (CHOOSE e \in ShownExtras : e.key = k).value],
          tags |-> ShownTags]

-----------------------------------------------------------------------------
(***************************************************************************)
(* What a request writes.                                                  *)
(***************************************************************************)
Place(list, i) == (CHOOSE n \in DOMAIN list : list[n] = i) - 1

\* The list without those of gone.
Without(list, gone) ==
    LET left == ToSet(list) \ gone IN Sorted(left, [i \in left |-> Place(list, i)])

\* Mutant of ResourceRow: what is left over keeps its state.
ResourceRowKept(list, i) ==
    IF i \in ToSet(list) THEN [state |-> "active", position |-> Place(list, i)] ELSE resources[i]

\* package_resource_list_save: those listed are active and in order, the others of
\* the dataset are deleted.
ResourceRow(list, i) ==
    IF i \in ToSet(list) THEN [state |-> "active", position |-> Place(list, i)]
    ELSE IF resources[i] = None THEN None
    ELSE [resources[i] EXCEPT !.state = "deleted"]

\* package_extras_save.
ExtraRow(asked, n) ==
    LET row == extras[n]
    IN  IF row.key \notin DOMAIN asked THEN [row EXCEPT !.state = "deleted"]
        ELSE [row EXCEPT !.value = asked[row.key], !.state = "active"]
NewExtras(asked) ==
    LET keys == DOMAIN asked \ {extras[n].key : n \in DOMAIN extras}
    IN  [n \in 1 .. Cardinality(keys) |->
           LET k == SetToSeq(keys)[n] IN [key |-> k, value |-> asked[k], state |-> "active"]]

\* package_tag_list_save.
TagRow(asked, n) ==
    [tags[n] EXCEPT !.state = IF tags[n].tag \in asked THEN "active" ELSE "deleted"]
NewTags(asked) ==
    LET new == SetToSeq(asked \ {tags[n].tag : n \in DOMAIN tags})
    IN  [n \in DOMAIN new |-> [tag |-> new[n], state |-> "active"]]

\* The columns of a row that a request writes: those that differ from what it read.
Differs(old, new) ==
    IF new = None THEN <<>>
    ELSE [c \in {d \in DOMAIN new : old = None \/ old[d] # new[d]} |-> new[c]]
Written(row, columns) ==
    IF columns = <<>> THEN row
    ELSE IF row = None THEN columns
    ELSE [c \in DOMAIN row |-> IF c \in DOMAIN columns THEN columns[c] ELSE row[c]]

\* held are the rows that the session loaded before: they are not read again.
Changes(ask, held) ==
    [resources |-> [i \in ResourceIds |->
                      Differs(IF i \in DOMAIN held THEN held[i] ELSE resources[i],
                              ResourceRow(ask.resources, i))],
     extras |-> [n \in DOMAIN extras |-> Differs(extras[n], ExtraRow(ask.extras, n))],
     tags |-> [n \in DOMAIN tags |-> Differs(tags[n], TagRow(ask.tags, n))],
     newExtras |-> NewExtras(ask.extras),
     newTags |-> NewTags(ask.tags)]

-----------------------------------------------------------------------------
(***************************************************************************)
(* Requests.                                                               *)
(***************************************************************************)
Goto(w, step, q) ==
    /\ pc' = [pc EXCEPT ![w] = step]
    /\ req' = [req EXCEPT ![w] = q]

\* A row that is not committed is nobody else's.
Fresh(i) == resources[i] = None /\ \A w \in Workers : pc[w] # "idle" => i \notin ToSet(req[w].ask.resources)

Begin(w) ==
    /\ pc[w] = "idle"
    /\ started < MaxRequests /\ started' = started + 1

Ask(w, ask, held) ==
    /\ Begin(w)
    /\ Goto(w, "save", [kind |-> "save", ask |-> ask, held |-> held])
    /\ clean' = clean \cup {w}
    /\ UNCHANGED <<resources, extras, tags>>

Held(i) == [j \in {i} |-> resources[i]]

\* resource_create, resource_delete, package_resource_reorder; resource_update leaves
\* the list as it was read.
ResourceCreate(w, i) ==
    Fresh(i) /\ Ask(w, [Shown EXCEPT !.resources = Append(@, i)], <<>>)
ResourceDelete(w, i) ==
    Active(i) /\ Ask(w, [Shown EXCEPT !.resources = Without(@, {i})], Held(i))
ResourceUpdate(w, i) == Active(i) /\ Ask(w, Shown, Held(i))
Reorder(w, order) ==
    /\ ToSet(order) \subseteq ToSet(ShownResources)
    /\ Ask(w, [Shown EXCEPT !.resources = order \o Without(@, ToSet(order))], <<>>)

\* package_update has the lock of the package row from here to its commit;
\* package_dict_save reads the rows and changes them.
Save(w, ask, held) ==
    /\ \A v \in Workers : pc[v] # "commit"
    /\ Goto(w, "commit", [kind |-> "commit", ask |-> ask, changes |-> Changes(ask, held)])
    /\ clean' = IF held = <<>> THEN clean \cup {w} ELSE clean
    /\ UNCHANGED <<resources, extras, tags>>

\* package_update; new resources have new identifiers.
Update(w, ask) ==
    /\ Begin(w)
    /\ \A i \in ToSet(ask.resources) : resources[i] # None \/ Fresh(i)
    /\ Save(w, ask, <<>>)
UpdateAsRead(w) == pc[w] = "save" /\ Save(w, req[w].ask, req[w].held) /\ UNCHANGED started

Commit(w) ==
    LET c == req[w].changes
    IN  /\ pc[w] = "commit"
        /\ resources' = [i \in ResourceIds |-> Written(resources[i], c.resources[i])]
        /\ extras' = [n \in DOMAIN extras |->
                        IF n \in DOMAIN c.extras THEN Written(extras[n], c.extras[n])
                        ELSE extras[n]] \o c.newExtras
        /\ tags' = [n \in DOMAIN tags |->
                      IF n \in DOMAIN c.tags THEN Written(tags[n], c.tags[n]) ELSE tags[n]]
                   \o c.newTags
        /\ clean' = {}
        /\ Goto(w, "idle", NoRequest)
        /\ UNCHANGED started

\* A validation that fails, a rollback, the death of a worker.
Fail(w) ==
    /\ pc[w] # "idle"
    /\ Goto(w, "idle", NoRequest)
    /\ clean' = clean \ {w}
    /\ UNCHANGED <<resources, extras, tags, started>>

Next ==
    \E w \in Workers :
      \/ \E ask \in Asks : Update(w, ask)
      \/ \E i \in ResourceIds : ResourceCreate(w, i) \/ ResourceDelete(w, i) \/ ResourceUpdate(w, i)
      \/ \E i \in ResourceIds : Reorder(w, <<i>>)
      \/ UpdateAsRead(w)
      \/ Commit(w)
      \/ Fail(w)

Spec == Init /\ [][Next]_vars

-----------------------------------------------------------------------------
(***************************************************************************)
(* Properties.                                                             *)
(***************************************************************************)
\* After an update the dataset shows the lists it was asked for, in order, whatever
\* had been deleted, restored or left in disorder before, unless it was made for a
\* resource whose row another request changed after it was loaded.
ListsAsAsked ==
    [][\A w \in clean : Commit(w) =>
         /\ ShownResources' = req[w].ask.resources
         /\ ShownTags' = req[w].ask.tags
         /\ ShownExtras' = {[key |-> k, value |-> req[w].ask.extras[k]] :
                              k \in DOMAIN req[w].ask.extras}]_vars
=================================================================================
