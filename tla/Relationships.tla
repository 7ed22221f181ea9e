------------------------------ MODULE Relationships ------------------------------
(***************************************************************************)
(* Relationships between datasets: a row has a subject, an object and a     *)
(* type, and says the same as the reverse type from object to subject.      *)
(* Requests may use either; only forward types are stored.                  *)
(*                                                                         *)
(* A request looks up the rows and then commits what it changes.  A deleted *)
(* relationship keeps its row, which a create looks for to make it active.  *)
(*                                                                         *)
(* Abstractions: one pair of types; the datasets are there all the time.    *)
(***************************************************************************)
EXTENDS Naturals, FiniteSets

CONSTANTS
    Packages,
    Types,       \* that requests may name: of Forward and Reverse
    Comments,
    Workers,
    MaxRows,     \* bound on the rows
    None

\* The two types of a pair, such as depends_on and dependency_of.
Forward == "depends_on"
Reverse == "dependency_of"

VARIABLES
    row,         \* [subject, object, type, comment, state] of each number, None without a row
    pc, req,     \* of each worker: idle or commit, and what it changes
    clean        \* workers since whose start nothing was committed

vars == <<row, pc, req, clean>>

NoRequest == [kind |-> "none"]
Rows == {i \in 1 .. MaxRows : row[i] # None}

TypeOK ==
    /\ \A i \in Rows : /\ {row[i].subject, row[i].object} \subseteq Packages
                       /\ row[i].subject # row[i].object /\ row[i].type = Forward
                       /\ row[i].comment \in Comments /\ row[i].state \in {"active", "deleted"}
                       /\ i > 1 => i - 1 \in Rows
    /\ pc \in [Workers -> {"idle", "commit"}]
    /\ clean \subseteq Workers

Init ==
    /\ row = [i \in 1 .. MaxRows |-> None]
    /\ pc = [w \in Workers |-> "idle"]
    /\ req = [w \in Workers |-> NoRequest]
    /\ clean = {}

-----------------------------------------------------------------------------
(***************************************************************************)
(* Package.get_relationships and add_relationship.                         *)
(***************************************************************************)
Joins(p, q, type, i) ==
    IF type = Forward THEN row[i].subject = p /\ row[i].object = q
    ELSE row[i].subject = q /\ row[i].object = p

\* Mutant of RelationshipsWith: deleted rows count.
RelationshipsWithDeleted(p, q, type) == {i \in Rows : Joins(p, q, type, i)}

\* The active rows that say that p has the relationship to q.
RelationshipsWith(p, q, type) ==
    {i \in Rows : Joins(p, q, type, i) /\ row[i].state = "active"}

\* Where add_relationship looks for a row, deleted ones included: from p to q by the
\* forward type, also when p is to be the object.
Existing(p, q) == {i \in Rows : Joins(p, q, Forward, i)}

\* as_dict: a row from the point of view of one of its datasets.
AsDict(i, p) ==
    IF row[i].object = p
    THEN [subject |-> p, type |-> Reverse, object |-> row[i].subject, comment |-> row[i].comment]
    ELSE [subject |-> row[i].subject, type |-> Forward, object |-> row[i].object,
          comment |-> row[i].comment]

\* package_relationships_list: those of the types, between the two datasets.
PackageRelationshipsList(p, q, types) ==
    {AsDict(i, p) : i \in UNION {RelationshipsWith(p, q, type) : type \in types}}

NewRow(p, q, type, comment) ==
    [subject |-> IF type = Forward THEN p ELSE q, object |-> IF type = Forward THEN q ELSE p,
     type |-> Forward, comment |-> comment, state |-> "active"]

-----------------------------------------------------------------------------
(***************************************************************************)
(* Requests.  A change names a row by its number, 0 a new one, and says     *)
(* what the row is to be.                                                  *)
(***************************************************************************)
Ask(w, kind, p, q, type, i, to) ==
    /\ pc[w] = "idle"
    /\ pc' = [pc EXCEPT ![w] = "commit"]
    /\ req' = [req EXCEPT ![w] =
          [kind |-> kind, p |-> p, q |-> q, type |-> type, at |-> i, to |-> to,
           was |-> IF i = 0 THEN to ELSE row[i]]]
    /\ clean' = clean \cup {w}
    /\ UNCHANGED row

\* No comment is an empty one for an active row, and no change for a row found again.
Commented(i, comment) == [row[i] EXCEPT !.comment = comment]

Restored(i, comment) ==
    [row[i] EXCEPT !.state = "active", !.comment = IF comment = "" THEN @ ELSE comment]

RelationshipCreate(w, p, q, type, comment) ==
    \/ \E i \in RelationshipsWith(p, q, type) :
         Ask(w, "create", p, q, type, i, Commented(i, comment))
    \/ /\ RelationshipsWith(p, q, type) = {}
       /\ \E i \in Existing(p, q) : Ask(w, "create", p, q, type, i, Restored(i, comment))
    \/ /\ RelationshipsWith(p, q, type) = {} /\ Existing(p, q) = {}
       /\ Ask(w, "create", p, q, type, 0, NewRow(p, q, type, comment))

RelationshipUpdate(w, p, q, type, comment) ==
    \E i \in RelationshipsWith(p, q, type) :
        Ask(w, "update", p, q, type, i, Commented(i, comment))

RelationshipDelete(w, p, q, type) ==
    \E i \in RelationshipsWith(p, q, type) :
        Ask(w, "delete", p, q, type, i, [row[i] EXCEPT !.state = "deleted"])

\* Only the columns that the request changed are written.
Commit(w) ==
    LET r == req[w]
        at == IF r.at = 0 THEN Cardinality(Rows) + 1 ELSE r.at
        Written(old) == [c \in DOMAIN r.to |-> IF r.to[c] = r.was[c] THEN old[c] ELSE r.to[c]]
    IN  /\ pc[w] = "commit"
        /\ at =< MaxRows
        /\ row' = [row EXCEPT ![at] = IF r.at = 0 THEN r.to ELSE Written(@)]
        /\ clean' = {}
        /\ pc' = [pc EXCEPT ![w] = "idle"] /\ req' = [req EXCEPT ![w] = NoRequest]

Fail(w) ==
    /\ pc[w] = "commit"
    /\ clean' = clean \ {w}
    /\ pc' = [pc EXCEPT ![w] = "idle"] /\ req' = [req EXCEPT ![w] = NoRequest]
    /\ UNCHANGED row

Next ==
    \E w \in Workers :
      \/ \E p, q \in Packages, type \in Types :
           /\ p # q
           /\ \/ \E comment \in Comments :
                   RelationshipCreate(w, p, q, type, comment) \/ RelationshipUpdate(w, p, q, type, comment)
              \/ RelationshipDelete(w, p, q, type)
      \/ Commit(w)
      \/ Fail(w)

Spec == Init /\ [][Next]_vars

-----------------------------------------------------------------------------
(***************************************************************************)
(* Properties.                                                             *)
(***************************************************************************)

\* "Create a relationship between two datasets" (package_relationship_create): after a
\* create that no other commit came across, the subject has the relationship.
CreatedIsThere ==
    [][\A w \in clean : req[w].kind = "create" /\ Commit(w) =>
         \A r \in {req[w]} : (RelationshipsWith(r.p, r.q, r.type) # {})']_vars

\* After a create by the forward type the subject lists the relationship with its
\* comment, and the object the reverse; after a delete neither lists it, unless the
\* relationship had two rows.
ForwardAsAsked ==
    [][\A w \in clean : Commit(w) => \A r \in {req[w]} :
         /\ r.kind = "create" /\ r.type = Forward =>
              LET dict == [subject |-> r.p, type |-> Forward, object |-> r.q,
                           comment |-> r.to.comment]
              IN  /\ dict \in PackageRelationshipsList(r.p, r.q, {Forward})'
                  /\ [dict EXCEPT !.subject = r.q, !.object = r.p, !.type = Reverse]
                       \in PackageRelationshipsList(r.q, r.p, {Forward, Reverse})'
         /\ r.kind = "delete" /\ Cardinality(RelationshipsWith(r.p, r.q, r.type)) = 1 =>
              \A dict \in PackageRelationshipsList(r.q, r.p, {Forward, Reverse})' : dict.type = r.type]_vars
=============================================================================
