-------------------------------- MODULE DataStore --------------------------------
(***************************************************************************)
(* The DataStore extension: a table in a second database for each resource  *)
(* that has data, views of it as aliases, and the privilege of the          *)
(* read-only user, which follows the dataset being private.                *)
(*                                                                         *)
(* An action of the API first checks against both databases, then changes   *)
(* the table in one transaction.  The session of the catalogue grants and   *)
(* revokes before it commits, through a connection of its own.             *)
(*                                                                         *)
(* Abstractions: the resources are those of one dataset; the types of the   *)
(* columns, the text of the queries and the full-text column are left out;  *)
(* the database itself keeps a unique index and the names of its relations  *)
(* unique.                                                                 *)
(***************************************************************************)
EXTENDS Naturals, FiniteSets, SequencesExt, Functions

CONSTANTS
    Resources,
    Fields, Values,      \* None stands for null
    Aliases,
    Creates,      \* what datastore_create may be asked for: records [fields,
                  \* records, indexes, key, aliases], None where it is not given
    Inputs,       \* the lists of records datastore_upsert may be given
    Filters,      \* the filters datastore_delete may be given: partial functions, None
    Workers,
    MaxRows,      \* bound on the rows of a table
    None

VARIABLES
    private,      \* of the dataset, committed
    table,        \* the table of each resource, or None
    pc, req,      \* the request of each worker
    skew          \* TRUE once privileges and dataset have been changed apart, until the
                  \* dataset is saved

vars == <<private, table, pc, req, skew>>

\* A record is a partial function from fields to values; a row is total.
Rows == [Fields -> Values \cup {None}]
PartialRows == UNION {[part -> Values \cup {None}] : part \in SUBSET Fields}
NoRequest == [op |-> "none"]

Tables == {r \in Resources : table[r] # None}
Columns(t) == ToSet(t.fields)

TypeOK ==
    /\ private \in BOOLEAN /\ skew \in BOOLEAN
    /\ pc \in [Workers -> {"idle", "run", "commit"}]
    /\ \A r \in Tables :
         LET t == table[r]
         IN  /\ IsInjective(t.fields) /\ Columns(t) \subseteq Fields
             /\ \A row \in Range(t.rows) :
                  row \in Rows /\ \A f \in Fields \ Columns(t) : row[f] = None
             /\ t.key \cup UNION t.indexes \subseteq Columns(t)
             /\ t.aliases \subseteq Aliases /\ t.open \in BOOLEAN

Init ==
    /\ private \in BOOLEAN
    /\ table = [r \in Resources |-> None]
    /\ pc = [w \in Workers |-> "idle"]
    /\ req = [w \in Workers |-> NoRequest]
    /\ skew = FALSE

-----------------------------------------------------------------------------
(***************************************************************************)
(* Columns and rows.                                                       *)
(***************************************************************************)
EmptyTable == [fields |-> <<>>, rows |-> <<>>, key |-> {}, indexes |-> {}, aliases |-> {},
               open |-> TRUE]

\* The fields of the first record that are not among those supplied.
Extra(supplied, records) ==
    IF records = <<>> THEN <<>>
    ELSE SetToSeq(DOMAIN records[1] \ ToSet(supplied))

\* What create_table and alter_table make of the columns.  Fields supplied have to
\* begin with the columns there are; a column that is added twice is an error.
CanAlter(t, supplied, records) ==
    LET all == IF supplied = <<>> THEN t.fields ELSE supplied
        new == SubSeq(all, Len(t.fields) + 1, Len(all)) \o Extra(all, records)
    IN  /\ IsPrefix(all, t.fields) \/ IsPrefix(t.fields, all)
        /\ IsInjective(t.fields \o new)

AlterTable(t, supplied, records) ==
    LET all == IF supplied = <<>> THEN t.fields ELSE supplied
        new == SubSeq(all, Len(t.fields) + 1, Len(all)) \o Extra(all, records)
    IN  [t EXCEPT !.fields = @ \o new]

RowOf(record) == [f \in Fields |-> IF f \in DOMAIN record THEN record[f] ELSE None]
KeyOf(row, key) == [f \in key |-> row[f]]

\* The unique index: rows with a null are distinct.
Unique(rows, key) ==
    key # {} => \A i, j \in DOMAIN rows :
                  i # j /\ KeyOf(rows[i], key) = KeyOf(rows[j], key)
                     => \E f \in key : rows[i][f] = None

CanInsert(t, records) ==
    /\ \A i \in DOMAIN records : DOMAIN records[i] \subseteq Columns(t)
    /\ Unique(t.rows \o [i \in DOMAIN records |-> RowOf(records[i])], t.key)
Insert(t, records) == [t EXCEPT !.rows = @ \o [i \in DOMAIN records |-> RowOf(records[i])]]

\* A comparison with null is never true.
HasNull(record, key) == \E f \in key : record[f] = None
Matches(row, record, key) == ~ HasNull(record, key) /\ \A f \in key : row[f] = record[f]
Merge(row, record) == [f \in Fields |-> IF f \in DOMAIN record THEN record[f] ELSE row[f]]

\* Mutant of UpsertOne: the fields that the record lacks become null.
UpsertOneWhole(rows, record, key) ==
    IF \E i \in DOMAIN rows : Matches(rows[i], record, key)
    THEN [i \in DOMAIN rows |-> IF Matches(rows[i], record, key) THEN RowOf(record) ELSE rows[i]]
    ELSE Append(rows, RowOf(record))

\* UPDATE what the key matches, INSERT when nothing does; only the fields that the
\* record has are set.
UpsertOne(rows, record, key) ==
    IF \E i \in DOMAIN rows : Matches(rows[i], record, key)
    THEN [i \in DOMAIN rows |-> IF Matches(rows[i], record, key) THEN Merge(rows[i], record)
                                ELSE rows[i]]
    ELSE Append(rows, RowOf(record))

CanUpsert(t, records) ==
    /\ t.key # {}
    /\ \A i \in DOMAIN records : t.key \subseteq DOMAIN records[i]
                                 /\ DOMAIN records[i] \subseteq Columns(t)
\* One record after the other.
Upserts(rows, records, key) ==
    LET After[n \in 0 .. Len(records)] ==
          IF n = 0 THEN rows ELSE UpsertOne(After[n - 1], records[n], key)
    IN  After[Len(records)]
Upsert(t, records) == [t EXCEPT !.rows = Upserts(@, records, t.key)]

\* An update has to find one row for every record; it updates that row.
CanUpdate(t, records) ==
    /\ CanUpsert(t, records)
    /\ \A i \in DOMAIN records : \E j \in DOMAIN t.rows : Matches(t.rows[j], records[i], t.key)

\* validate: what the extension leaves of the filters, the fields and the sort is
\* not a column, and an error.
Unknown(t, filter, fields, sort) == (DOMAIN filter \cup ToSet(fields) \cup ToSet(sort)) \ Columns(t)
Valid(t, filter, fields, sort) == Unknown(t, filter, fields, sort) = {}

\* The rows at these places, in order.
RowsAt(rows, places) ==
    [n \in 1 .. Cardinality(places) |->
       rows[CHOOSE i \in places : Cardinality({j \in places : j < i}) = n - 1]]

\* What the filters match; nothing equals null.
Matching(rows, filter) ==
    {i \in DOMAIN rows : \A f \in DOMAIN filter : filter[f] # None /\ rows[i][f] = filter[f]}
Filtered(t, filter) == [t EXCEPT !.rows = RowsAt(@, DOMAIN @ \ Matching(@, filter))]

\* The indexes asked for replace those there are, but an index is not created when
\* one of its name is left; the name of an index stands for its fields.
Indexed(t, indexes, key) ==
    LET plain == IF indexes = None THEN t.indexes ELSE indexes
        old == IF key = None THEN t.key ELSE {}
        new == IF key = None \/ key \in plain THEN old ELSE key
    IN  [t EXCEPT !.indexes = plain \ {old}, !.key = new]
CanIndex(t, indexes, key) ==
    /\ indexes # None => UNION indexes \subseteq Columns(t)
    /\ key # None => key \subseteq Columns(t)
    /\ indexes # None /\ key # None => key \notin indexes
    /\ Unique(t.rows, Indexed(t, indexes, key).key)

\* The aliases asked for replace those of the table; the names of the others are taken.
CanAlias(r, aliases) ==
    aliases # None => \A s \in Tables \ {r} : aliases \cap table[s].aliases = {}
Aliased(t, aliases) == IF aliases = None THEN t ELSE [t EXCEPT !.aliases = aliases]

-----------------------------------------------------------------------------
(***************************************************************************)
(* Requests of the API.                                                    *)
(***************************************************************************)
Start(w, q) ==
    /\ pc[w] = "idle"
    /\ pc' = [pc EXCEPT ![w] = "run"]
    /\ req' = [req EXCEPT ![w] = q]
    /\ UNCHANGED <<private, table, skew>>

\* datastore_create reads whether the dataset is private.
AskCreate(w, r, create) ==
    Start(w, [op |-> "create", res |-> r, ask |-> create, private |-> private])

\* datastore_upsert and datastore_delete want a table.
AskUpsert(w, r, method, records) ==
    /\ r \in Tables
    /\ Start(w, [op |-> method, res |-> r, records |-> records])
AskDelete(w, r, filter) ==
    /\ r \in Tables
    /\ Start(w, [op |-> "delete", res |-> r, filter |-> filter])

Idle(w) ==
    /\ pc' = [pc EXCEPT ![w] = "idle"]
    /\ req' = [req EXCEPT ![w] = NoRequest]

\* Any error is a total failure.
Fail(w) == pc[w] = "run" /\ Idle(w) /\ UNCHANGED <<private, table, skew>>

\* Mutant of Opened: a table is created open, the dataset notifies later.
OpenedAlways(t, isPrivate) == t

\* A table starts with the default privileges; only a revoke changes them here.
Opened(t, isPrivate) == IF isPrivate THEN [t EXCEPT !.open = FALSE] ELSE t

Create(w) ==
    LET r == req[w].res
        q == req[w].ask
        old == IF r \in Tables THEN table[r] ELSE EmptyTable
        wide == AlterTable(old, q.fields, q.records)
        full == Insert(wide, q.records)
    IN  /\ pc[w] = "run" /\ req[w].op = "create"
        /\ CanAlter(old, q.fields, q.records)
        /\ CanInsert(wide, q.records) /\ Len(full.rows) =< MaxRows
        /\ CanIndex(full, q.indexes, q.key)
        /\ CanAlias(r, q.aliases)
        /\ table' = [table EXCEPT ![r] =
                       Opened(Aliased(Indexed(full, q.indexes, q.key), q.aliases), req[w].private)]
        /\ skew' = \/ skew \/ req[w].private # private
                   \/ \E v \in Workers : req[v].op = "package" /\ req[v].private # req[w].private
        /\ Idle(w)
        /\ UNCHANGED private

\* db.upsert; the table may have changed or gone since it was checked.
Change(w) ==
    LET q == req[w]
        t == table[q.res]
    IN  /\ pc[w] = "run" /\ q.op \in {"insert", "upsert", "update"}
        /\ q.res \in Tables
        /\ \/ /\ q.op = "insert" /\ CanInsert(t, q.records)
              /\ table' = [table EXCEPT ![q.res] = Insert(t, q.records)]
           \/ /\ q.op = "upsert" /\ CanUpsert(t, q.records)
              /\ table' = [table EXCEPT ![q.res] = Upsert(t, q.records)]
           \/ /\ q.op = "update" /\ CanUpdate(t, q.records)
              /\ table' = [table EXCEPT ![q.res] = Upsert(t, q.records)]
        /\ Len(table'[q.res].rows) =< MaxRows
        /\ Idle(w)
        /\ UNCHANGED <<private, skew>>

\* Without filters, or with none in them, the table goes with its views.
IsWhole(filter) == filter = None \/ DOMAIN filter = {}

Delete(w) ==
    LET q == req[w]
    IN  /\ pc[w] = "run" /\ q.op = "delete"
        /\ q.res \in Tables
        /\ ~ IsWhole(q.filter) => Valid(table[q.res], q.filter, <<>>, <<>>)
        /\ table' = [table EXCEPT ![q.res] =
                       IF IsWhole(q.filter) THEN None ELSE Filtered(@, q.filter)]
        /\ Idle(w)
        /\ UNCHANGED <<private, skew>>

-----------------------------------------------------------------------------
(***************************************************************************)
(* The dataset.                                                            *)
(***************************************************************************)

\* datastore_make_private and datastore_make_public.
Privilege(t, isPrivate) == [t EXCEPT !.open = ~ isPrivate]

\* A session that is about to commit the dataset, whose row it has locked, notifies the
\* extension, which changes the privilege of the table of each of its resources.
Notify(w, isPrivate) ==
    /\ \A v \in Workers : req[v].op # "package"
    /\ pc[w] = "idle"
    /\ pc' = [pc EXCEPT ![w] = "commit"]
    /\ req' = [req EXCEPT ![w] = [op |-> "package", private |-> isPrivate]]
    /\ table' = [r \in Resources |-> IF r \in Tables THEN Privilege(table[r], isPrivate) ELSE None]
    /\ skew' = FALSE
    /\ UNCHANGED private

CommitPackage(w) ==
    /\ pc[w] = "commit"
    /\ private' = req[w].private
    /\ Idle(w)
    /\ UNCHANGED <<table, skew>>

\* The commit fails: the privileges stay as they were changed.
Rollback(w) ==
    /\ pc[w] = "commit"
    /\ skew' = (skew \/ req[w].private # private)
    /\ Idle(w)
    /\ UNCHANGED <<private, table>>

\* bulk_update_private and bulk_update_public wait for the row and update it with a
\* query of their own, of which no extension hears.
BulkUpdate(isPrivate) ==
    /\ \A w \in Workers : req[w].op # "package"
    /\ private' = isPrivate
    /\ skew' = (skew \/ isPrivate # private)
    /\ UNCHANGED <<table, pc, req>>

Next ==
  \/ \E isPrivate \in BOOLEAN : BulkUpdate(isPrivate)
  \/ \E w \in Workers :
      \/ \E r \in Resources :
           \/ \E create \in Creates : AskCreate(w, r, create)
           \/ \E method \in {"insert", "upsert", "update"}, records \in Inputs :
                AskUpsert(w, r, method, records)
           \/ \E filter \in Filters : AskDelete(w, r, filter)
      \/ Create(w)
      \/ Change(w)
      \/ Delete(w)
      \/ Fail(w)
      \/ \E isPrivate \in BOOLEAN : Notify(w, isPrivate)
      \/ CommitPackage(w)
      \/ Rollback(w)

Spec == Init /\ [][Next]_vars

-----------------------------------------------------------------------------
(***************************************************************************)
(* Searches: filters, some of the fields, a sort, a limit and an offset.    *)
(***************************************************************************)
Selected(t, filter) == RowsAt(t.rows, Matching(t.rows, filter))

\* Ascending by the fields in turn, nulls last.
Below(v, u) == v # None /\ (u = None \/ v < u)
Before(row, other, sort) ==
    \E i \in DOMAIN sort : /\ Below(row[sort[i]], other[sort[i]])
                           /\ \A j \in 1 .. i - 1 : row[sort[j]] = other[sort[j]]

\* The orders the database may give the rows in: any, where the sort leaves it open.
Orders(rows, sort) ==
    LET n == Len(rows)
        places == {p \in [1 .. n -> 1 .. n] : IsInjective(p)}
    IN  {[i \in 1 .. n |-> rows[p[i]]] :
           p \in {q \in places : \A i, j \in 1 .. n :
                    i < j => ~ Before(rows[q[j]], rows[q[i]], sort)}}

Projected(rows, fields) == [i \in DOMAIN rows |-> [f \in ToSet(fields) |-> rows[i][f]]]

\* search_data: LIMIT and OFFSET of the rows that match, as far as there are any.
Search(t, filter, fields, sort, limit, offset) ==
    {Projected(SubSeq(rows, offset + 1, IF offset + limit < Len(rows) THEN offset + limit
                                        ELSE Len(rows)), fields) :
       rows \in Orders(Selected(t, filter), sort)}

\* datastore_search: the resource that is searched by its id or an alias, None when
\* there is none or its dataset may not be read.
DatastoreSearch(name, reads) ==
    LET named == {r \in Tables : r = name \/ name \in table[r].aliases}
    IN  IF named = {} \/ ~ (reads \/ ~ private) THEN None ELSE CHOOSE r \in named : TRUE

\* search_sql of a table or a view: what the read-only user was granted.  An alias is a
\* view, which has the default privileges and reads its table as its owner does; only
\* those of the table are ever changed.
SearchSql(name) ==
    LET found == {r \in Tables : (r = name /\ table[r].open) \/ name \in table[r].aliases}
    IN  IF found = {} THEN None ELSE CHOOSE r \in found : TRUE

\* format_results: the total comes with the rows of the page.
Total(t, filter, page) == IF page = <<>> THEN None ELSE Len(Selected(t, filter))

\* _insert_links.
NextOffset(limit, offset) == offset + limit
PrevOffset(limit, offset) == IF offset > limit THEN offset - limit ELSE None

-----------------------------------------------------------------------------
(***************************************************************************)
(* Properties.                                                             *)
(***************************************************************************)

\* Queries with SQL read, by the id of their resource, the tables that anyone may search,
\* and whoever may read the dataset finds them by their aliases too.  Since the dataset
\* was last saved, no table has been created across a change of the dataset, no change of
\* it been rolled back after the extension was notified, and no bulk update changed it.
PrivilegesFollow ==
    ~ skew /\ (\A w \in Workers : pc[w] # "commit") =>
        \A r \in Tables :
          /\ SearchSql(r) = DatastoreSearch(r, FALSE)
          /\ \A name \in {r} \cup table[r].aliases : DatastoreSearch(name, TRUE) = r

\* "A header items values can not be changed after it has been defined nor can the
\* ordering of them be changed. They can be extended though" (db.create).
ColumnsStay ==
    [][\A r \in Tables : table'[r] # None => IsPrefix(table[r].fields, table'[r].fields)]_vars

\* Pages sorted by the key, followed by their links, have every row that matches, once
\* and in order, and each page says how many there are.
PagesCover ==
    \A r \in Tables : \A filter \in Filters \ {None} :
      LET t == table[r]
          sort == SetToSeq(t.key)
          rows == Selected(t, filter)
          Page(offset) == Search(t, filter, t.fields, sort, 1, offset)
          From[offset \in 0 .. MaxRows] ==
            UNION {{page \o rest : rest \in IF page = <<>> \/ offset = MaxRows THEN {<<>>}
                                            ELSE From[NextOffset(1, offset)]} :
                     page \in Page(offset)}
      IN  t.key # {} /\ Valid(t, filter, t.fields, sort) /\ (\A i \in DOMAIN rows : \A f \in t.key : rows[i][f] # None) =>
            /\ From[0] = {Projected(s, t.fields) : s \in Orders(rows, sort)}
            /\ Cardinality(From[0]) = 1
            /\ \A page \in Page(1) : Total(t, filter, page) \in {None, Len(rows)}
            /\ \A offset \in 1 .. MaxRows : PrevOffset(1, NextOffset(1, offset)) = offset

\* A deletion with filters takes the rows that a search with the same filters finds, and no other.
DeletedAreFound ==
    [][\A w \in Workers : req[w].op = "delete" /\ ~ IsWhole(req[w].filter) /\ Delete(w) =>
         LET r == req[w].res
             q == req[w].filter
         IN  /\ Len(table'[r].rows) + Len(Selected(table[r], q)) = Len(table[r].rows)
             /\ \E t \in {table'[r]} : Selected(t, q) = <<>>]_vars

\* The value of a field in the row with a key after an upsert: that of the last
\* record that sets it, else what it was.
Upserted(rows, records, key, k, f) ==
    LET sets == {i \in DOMAIN records : KeyOf(records[i], key) = k /\ f \in DOMAIN records[i]}
        was == {rows[i][f] : i \in {j \in DOMAIN rows : KeyOf(rows[j], key) = k}}
    IN  IF sets # {} THEN records[CHOOSE i \in sets : \A j \in sets : j =< i][f]
        ELSE IF was # {} THEN CHOOSE v \in was : TRUE ELSE None

\* An upsert leaves one row for every key it names, with what the records say and
\* otherwise what the row said before; rows with other keys stay as they are, and a record
\* with a null in its key is a row more, each time.
UpsertMerges ==
    [][\A w \in Workers : req[w].op = "upsert" /\ Change(w) =>
         LET r == req[w].res
             records == req[w].records
             key == table[r].key
             nulls == {i \in DOMAIN records : HasNull(records[i], key)}
             named == {KeyOf(records[i], key) : i \in DOMAIN records \ nulls}
             Others(rows) ==
               RowsAt(rows, {i \in DOMAIN rows : KeyOf(rows[i], key) \notin named})
         IN  /\ Others(table'[r].rows) =
                  Others(table[r].rows) \o RowsAt([i \in DOMAIN records |-> RowOf(records[i])], nulls)
             /\ \A k \in named :
                  \E i \in DOMAIN table'[r].rows :
                     /\ table'[r].rows[i] =
                          [f \in Fields |-> Upserted(table[r].rows, records, key, k, f)]
                     /\ \A j \in DOMAIN table'[r].rows :
                          KeyOf(table'[r].rows[j], key) = k => j = i]_vars
=============================================================================
