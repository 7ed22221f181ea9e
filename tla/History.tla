--------------------------------- MODULE History ---------------------------------
(***************************************************************************)
(* The history of a dataset: a row for each object and revision, with the   *)
(* time from which and the time until which it is what the dataset was.     *)
(*                                                                         *)
(* A request draws the timestamp of its revision when it begins to save,    *)
(* and writes the rows of the history in the hook before its commit, under  *)
(* the lock of the row of the package.                                      *)
(*                                                                         *)
(* Abstractions: an object is its content; the tables are those of one     *)
(* dataset; every update touches the package itself (its modification time *)
(* changes); no two revisions have the same timestamp.                     *)
(***************************************************************************)
EXTENDS Naturals, FiniteSets

CONSTANTS
    Package,        \* the dataset
    Parts,          \* its resources, extras and rows of package_tag
    Values,
    Workers,
    MaxTime,        \* bound on the clock
    None

VARIABLES
    clock,          \* revisions are numbered by their timestamps
    revisions,      \* the rows of revision
    current,        \* of each object: its revision and content, or None
    rows,           \* of each object: the rows of its revision table
    pc,             \* of each worker: idle, or at its commit
    req,            \* its revision, and the contents it is to save
    crossed,        \* history: TRUE once a revision was committed after a later one
    holes           \* history: revisions purged that were not the last

vars == <<clock, revisions, current, rows, pc, req, crossed, holes>>

Objects == {Package} \cup Parts
Times == 1 .. MaxTime
Never == MaxTime + 1        \* 9999-12-31
Row == [revision : Times, value : Values, from : Times, until : Times \cup {Never}]
NoRequest == [revision |-> 0, change |-> <<>>, known |-> {}]

Existing == {o \in Objects : current[o] # None}

TypeOK ==
    /\ clock \in 0 .. MaxTime /\ revisions \subseteq 1 .. clock
    /\ \A o \in Objects : rows[o] \subseteq Row /\ \A r \in rows[o] : r.revision \in revisions
    /\ \A o \in Existing : current[o] \in [revision : Times, value : Values]
    /\ Existing # {} => Package \in Existing

Init ==
    /\ clock = 0 /\ revisions = {} /\ holes = {} /\ crossed = FALSE
    /\ current = [o \in Objects |-> None]
    /\ rows = [o \in Objects |-> {}]
    /\ pc = [w \in Workers |-> "idle"]
    /\ req = [w \in Workers |-> NoRequest]

-----------------------------------------------------------------------------
\* new_revision, and the saving of what is to change: the package, and some parts.
StartSave(w) ==
    /\ pc[w] = "idle" /\ clock < MaxTime
    /\ Package \in Existing \/ \A v \in Workers : pc[v] = "idle"
    /\ clock' = clock + 1
    /\ pc' = [pc EXCEPT ![w] = "commit"]
    /\ \E S \in SUBSET Parts : \E change \in [S \cup {Package} -> Values] :
         req' = [req EXCEPT ![w] = [revision |-> clock', change |-> change, known |-> Existing]]
    /\ UNCHANGED <<revisions, current, rows, crossed, holes>>

\* The hook: the new row begins with the timestamp of the revision, where every other
\* row that has not ended ends.
Revised(S, r, value) ==
    {[s EXCEPT !.until = IF @ = Never THEN r ELSE @] : s \in S}
    \cup {[revision |-> r, value |-> value, from |-> r, until |-> Never]}

\* Mutant of Recorded: the row that has not ended is written over.
RecordedInPlace(r, change) ==
    [o \in Objects |->
       IF o \notin DOMAIN change THEN rows[o]
       ELSE IF rows[o] = {} THEN Revised({}, r, change[o])
       ELSE {[s EXCEPT !.value = IF s.until = Never THEN change[o] ELSE @] : s \in rows[o]}]

Recorded(r, change) ==
    [o \in Objects |-> IF o \in DOMAIN change THEN Revised(rows[o], r, change[o]) ELSE rows[o]]

Done(w) ==
    /\ pc' = [pc EXCEPT ![w] = "idle"]
    /\ req' = [req EXCEPT ![w] = NoRequest]
    /\ UNCHANGED clock

\* An UPDATE finds no row when the object was purged since it was loaded.
Commit(w) ==
    LET q == req[w]
    IN  /\ pc[w] = "commit"
        /\ q.known \cap DOMAIN q.change \subseteq Existing
        /\ \A o \in DOMAIN q.change \ q.known : current[o] = None
        /\ revisions' = revisions \cup {q.revision}
        /\ current' = [o \in Objects |->
                         IF o \in DOMAIN q.change
                         THEN [revision |-> q.revision, value |-> q.change[o]] ELSE current[o]]
        /\ rows' = Recorded(q.revision, q.change)
        /\ crossed' = (crossed \/ \E o \in Objects : \E r \in rows[o] : r.revision > q.revision)
        /\ Done(w)
        /\ UNCHANGED holes

Abort(w) == pc[w] = "commit" /\ Done(w) /\ UNCHANGED <<revisions, current, rows, crossed, holes>>

-----------------------------------------------------------------------------
(***************************************************************************)
(* Purging a revision.                                                     *)
(***************************************************************************)
Last(S) == CHOOSE r \in S : \A s \in S : s.from =< r.from
RowOf(o, r) == {s \in rows[o] : s.revision = r}

\* The objects whose content is that of the revision, and the one row they have.
Latest(r) == {o \in Existing : current[o].revision = r /\ RowOf(o, r) # {}}
Only(r) == {o \in Latest(r) : Cardinality(rows[o]) = 1}
Second(o) == Last(rows[o] \ {Last(rows[o])})

\* The row before the last is current again, and the row of the revision goes.
Reverted(o, r) ==
    {IF o \in Latest(r) /\ s = Second(o) THEN [s EXCEPT !.until = Never] ELSE s :
       s \in rows[o] \ RowOf(o, r)}

\* purge_revision.  An object that has no other row is deleted, and a dataset with all
\* that hangs on it.  The record of the revision may be left.
PurgeRevision(r, leave) ==
    LET dead == IF Package \in Only(r) THEN Objects ELSE Only(r)
    IN  /\ r \in revisions
        /\ \E o \in Objects : RowOf(o, r) # {}
        /\ current' = [o \in Objects |->
                         IF o \in dead THEN None
                         ELSE IF o \in Latest(r)
                              THEN [revision |-> Second(o).revision, value |-> Second(o).value]
                              ELSE current[o]]
        /\ rows' = [o \in Objects |-> IF o \in dead THEN {} ELSE Reverted(o, r)]
        /\ revisions' = IF leave THEN revisions ELSE revisions \ {r}
        /\ holes' = IF \E s \in rows[Package] : s.revision > r THEN holes \cup {r} ELSE holes
        /\ UNCHANGED <<clock, pc, req, crossed>>

\* Package.purge: the dataset and all its rows.
PurgePackage ==
    /\ Package \in Existing
    /\ current' = [o \in Objects |-> None]
    /\ rows' = [o \in Objects |-> {}]
    /\ UNCHANGED <<clock, revisions, pc, req, crossed, holes>>

Next ==
    \/ \E w \in Workers : StartSave(w) \/ Commit(w) \/ Abort(w)
    \/ \E r \in revisions, leave \in BOOLEAN : PurgeRevision(r, leave)
    \/ PurgePackage

Spec == Init /\ [][Next]_vars

-----------------------------------------------------------------------------
(***************************************************************************)
(* What is read.                                                           *)
(***************************************************************************)
\* _execute_with_revision.
At(o, date) == {r \in rows[o] : r.from =< date /\ date < r.until}

\* package_dictize at a revision or a date: not found, or each object with its rows.
Dictized(date) ==
    IF At(Package, date) = {} THEN [found |-> FALSE, objects |-> {}]
    ELSE [found |-> TRUE,
          objects |-> UNION {{<<o, r.value>> : r \in At(o, date)} : o \in Objects}]

\* Package.all_related_revisions, which package_revision_list lists: the objects that
\* have a row of a revision.
RelatedTo(r) == {o \in Objects : RowOf(o, r) # {}}
RevisionList == {r \in Times : RelatedTo(r) # {}}

\* Package.diff: the objects that are not the same in the last rows of the two dates.
LastRow(o, date) ==
    LET before == {r \in rows[o] : r.revision =< date}
    IN  IF before = {} THEN None ELSE Last(before).value
Diff(from, to) == {o \in Objects : LastRow(o, from) # LastRow(o, to)}

\* Package.metadata_created.
Created == CHOOSE d \in Times : \E r \in rows[Package] : r.from = d /\
                                   \A s \in rows[Package] : d =< s.from

-----------------------------------------------------------------------------
(***************************************************************************)
(* Properties.                                                             *)
(***************************************************************************)
Ordered == ~ crossed /\ holes = {}

\* From its creation on there is one version of the dataset for every date, with no
\* object twice; the last one is the dataset as it is, and the difference of two dates is
\* that of their versions.
OneVersion ==
    Ordered /\ Package \in Existing =>
      /\ \A d \in Created .. clock : Dictized(d).found
      /\ \A d \in Times, o \in Objects : Cardinality(At(o, d)) =< 1
      /\ Dictized(MaxTime).objects = {<<o, current[o].value>> : o \in Existing}
      /\ \A r \in RevisionList : r =< current[Package].revision
      /\ \A d, e \in Created .. clock : d < e =>
           Diff(d, e) = {o \in Objects : \E v \in Values :
                           (<<o, v>> \in Dictized(d).objects) # (<<o, v>> \in Dictized(e).objects)}

\* What the dataset was at a date stays what it was, once every request that began
\* before has ended; only a purge changes it.
PastStays ==
    [][\A w \in Workers : Commit(w) =>
         \A d \in Times : (\A v \in Workers : pc[v] = "commit" => d < req[v].revision) =>
           Dictized(d)' = Dictized(d)]_vars

\* A purge of the last revision makes the dataset what it was before, and leaves the
\* versions before as they were.
PurgeGoesBack ==
    [][\A r \in revisions, leave \in BOOLEAN :
         PurgeRevision(r, leave) /\ Ordered /\ r = Last(rows[Package]).revision =>
           /\ \A d \in 1 .. r - 1 : Dictized(d)' = Dictized(d)
           /\ Dictized(MaxTime)' = Dictized(r - 1)]_vars
=============================================================================
