----------------------------- MODULE ServicesProofs -----------------------------
(***************************************************************************)
(* Proofs about Services, for any resources, datasets, users and workers: a  *)
(* behaviour of Services is one of each of its components, so that what is  *)
(* proved of a component holds of it.                                       *)
(***************************************************************************)
EXTENDS Services, Sequences, FiniteSetTheorems, SequenceTheorems, TLAPS

-----------------------------------------------------------------------------
(***************************************************************************)
(* The DataStore.                                                          *)
(***************************************************************************)
LEMMA ServicesRunStore == ServicesSpec => Store!Spec
<1>1. ServicesInit => Store!Init
  BY DEF ServicesInit
<1>2. [ServicesNext]_all => [Store!Next]_Store!vars
  BY DEF ServicesNext, all, storeVars, Store!vars
<1> QED BY <1>1, <1>2, PTL DEF ServicesSpec, Store!Spec

\* What a change of a table leaves: its aliases and its privilege.
Same(t, s) == DOMAIN s = DOMAIN t /\ s.aliases = t.aliases /\ s.open = t.open
Columned == {"fields", "rows", "key", "indexes", "aliases", "open"}

Rowed(t, x) == [t EXCEPT !.rows = x]
Fielded(t, x) == [t EXCEPT !.fields = x]
Keyed(t, x, y) == [t EXCEPT !.indexes = x, !.key = y]

LEMMA TableChanges ==
    ASSUME NEW t, DOMAIN t = Columned
    PROVE  /\ \A records : Same(t, Store!Insert(t, records))
           /\ \A records : Same(t, Store!Upsert(t, records))
           /\ \A supplied, records : Same(t, Store!AlterTable(t, supplied, records))
           /\ \A filter : Same(t, Store!Filtered(t, filter))
           /\ \A indexes, key : Same(t, Store!Indexed(t, indexes, key))
<1>1. \A x : Same(t, Rowed(t, x)) /\ Same(t, Fielded(t, x))
  BY DEF Same, Columned, Rowed, Fielded
<1>2. \A x, y : Same(t, Keyed(t, x, y))
  BY DEF Same, Columned, Keyed
<1>3. \A records : \E x : Store!Insert(t, records) = Rowed(t, x)
  BY DEF Store!Insert, Rowed
<1>4. \A records : \E x : Store!Upsert(t, records) = Rowed(t, x)
  BY DEF Store!Upsert, Rowed
<1>5. \A supplied, records : \E x : Store!AlterTable(t, supplied, records) = Fielded(t, x)
  BY DEF Store!AlterTable, Fielded
<1>6. \A filter : \E x : Store!Filtered(t, filter) = Rowed(t, x)
  BY DEF Store!Filtered, Rowed
<1>7. \A indexes, key : \E x, y : Store!Indexed(t, indexes, key) = Keyed(t, x, y)
  BY DEF Store!Indexed, Keyed
<1>8. \A records : Same(t, Store!Insert(t, records)) /\ Same(t, Store!Upsert(t, records))
  BY <1>1, <1>3, <1>4, Zenon
<1>9. \A supplied, records : Same(t, Store!AlterTable(t, supplied, records))
  BY <1>1, <1>5, Zenon
<1>10. \A filter : Same(t, Store!Filtered(t, filter))
  BY <1>1, <1>6, Zenon
<1>11. \A indexes, key : Same(t, Store!Indexed(t, indexes, key))
  BY <1>2, <1>7, Zenon
<1> QED BY <1>8, <1>9, <1>10, <1>11

\* The dataset, the tables and the requests have their types.
StoreTyped ==
    /\ private \in BOOLEAN
    /\ skew \in BOOLEAN
    /\ storePc \in [Workers -> {"idle", "run", "commit"}]
    /\ storeReq = [w \in Workers |-> storeReq[w]]

TablesTyped ==
    /\ table = [r \in Resources |-> table[r]]
    /\ \A r \in Store!Tables :
         /\ DOMAIN table[r] = Columned
         /\ table[r].open \in BOOLEAN
         /\ table[r].aliases \subseteq Aliases

AsksTyped ==
    \A w \in Workers :
       /\ storePc[w] = "commit" <=> storeReq[w].op = "package"
       /\ storePc[w] = "commit" => storeReq[w].private \in BOOLEAN
       /\ storePc[w] = "run" /\ storeReq[w].op = "create" =>
            /\ storeReq[w].res \in Resources
            /\ storeReq[w].ask \in Creates
            /\ storeReq[w].private \in BOOLEAN

\* One session at a time is about to commit the dataset.
OneCommit == \A v, w \in Workers : storePc[v] = "commit" /\ storePc[w] = "commit" => v = w

\* The names of aliases are unique.
AliasesApart ==
    \A r, s \in Store!Tables : r # s => table[r].aliases \cap table[s].aliases = {}

\* The privilege of every table is that of the dataset, as the session that is about to
\* commit has it, if there is one.
OpenAsCommitted ==
    ~ skew => \A r \in Store!Tables :
      /\ (\A w \in Workers : storePc[w] # "commit") => (table[r].open <=> ~ private)
      /\ \A w \in Workers :
           storePc[w] = "commit" => (table[r].open <=> ~ storeReq[w].private)

StoreInv ==
    StoreTyped /\ TablesTyped /\ AsksTyped /\ OneCommit /\ AliasesApart /\ OpenAsCommitted

LEMMA StoreInitially == Store!Init => StoreInv
<1> SUFFICES ASSUME Store!Init
             PROVE  StoreInv
  OBVIOUS
<1>1. Store!Tables = {}
  BY DEF Store!Init, Store!Tables
<1>2. StoreTyped /\ AsksTyped /\ OneCommit
  BY DEF Store!Init, StoreTyped, AsksTyped, OneCommit, Store!NoRequest
<1>3. TablesTyped
  BY <1>1 DEF Store!Init, TablesTyped
<1>4. AliasesApart /\ OpenAsCommitted
  BY <1>1 DEF AliasesApart, OpenAsCommitted
<1> QED BY <1>2, <1>3, <1>4 DEF StoreInv

\* A worker whose request is over.
LEMMA StoreEnds ==
    ASSUME StoreInv, NEW w \in Workers, Store!Idle(w)
    PROVE  /\ storePc' \in [Workers -> {"idle", "run", "commit"}]
           /\ storeReq' = [v \in Workers |-> storeReq'[v]]
           /\ storePc'[w] = "idle" /\ storeReq'[w].op = "none"
           /\ \A v \in Workers \ {w} : storePc'[v] = storePc[v] /\ storeReq'[v] = storeReq[v]
  BY DEF StoreInv, StoreTyped, Store!Idle, Store!NoRequest

\* A worker that starts with a request.
LEMMA StoreStarts ==
    ASSUME StoreInv, NEW w \in Workers, NEW phase \in {"run", "commit"}, NEW q,
           storePc' = [storePc EXCEPT ![w] = phase], storeReq' = [storeReq EXCEPT ![w] = q]
    PROVE  /\ storePc' \in [Workers -> {"idle", "run", "commit"}]
           /\ storeReq' = [v \in Workers |-> storeReq'[v]]
           /\ storePc'[w] = phase /\ storeReq'[w] = q
           /\ \A v \in Workers \ {w} : storePc'[v] = storePc[v] /\ storeReq'[v] = storeReq[v]
  BY DEF StoreInv, StoreTyped

LEMMA AskKeeps ==
    ASSUME StoreInv, NEW w \in Workers, NEW q, Store!Start(w, q), q.op # "package",
           q.op = "create" =>
             q.res \in Resources /\ q.ask \in Creates /\ q.private \in BOOLEAN
    PROVE  StoreInv'
<1>1. /\ storePc' \in [Workers -> {"idle", "run", "commit"}]
      /\ storeReq' = [v \in Workers |-> storeReq'[v]]
      /\ storePc'[w] = "run" /\ storeReq'[w] = q /\ storePc[w] = "idle"
      /\ \A v \in Workers \ {w} : storePc'[v] = storePc[v] /\ storeReq'[v] = storeReq[v]
  BY StoreStarts DEF Store!Start
<1>2. private' = private /\ table' = table /\ skew' = skew /\ Store!Tables' = Store!Tables
  BY DEF Store!Start, Store!Tables
<1>3. StoreTyped' BY <1>1, <1>2 DEF StoreInv, StoreTyped
<1>4. TablesTyped' BY <1>2 DEF StoreInv, TablesTyped
<1>5. AsksTyped' BY <1>1 DEF StoreInv, AsksTyped
<1>6. OneCommit' BY <1>1 DEF StoreInv, OneCommit
<1>7. AliasesApart' BY <1>2 DEF StoreInv, AliasesApart
<1>8. OpenAsCommitted' BY <1>1, <1>2 DEF StoreInv, OpenAsCommitted
<1> QED BY <1>3, <1>4, <1>5, <1>6, <1>7, <1>8 DEF StoreInv

\* A change of one table that leaves its aliases and its privilege.
LEMMA ChangeKeeps ==
    ASSUME StoreInv, NEW w \in Workers, storePc[w] # "commit", Store!Idle(w),
           NEW r \in Store!Tables, NEW t, t = None \/ Same(table[r], t),
           table' = [table EXCEPT ![r] = t], UNCHANGED <<private, skew>>
    PROVE  StoreInv'
<1>1. /\ storePc' \in [Workers -> {"idle", "run", "commit"}]
      /\ storeReq' = [v \in Workers |-> storeReq'[v]]
      /\ storePc'[w] = "idle" /\ storeReq'[w].op = "none"
      /\ \A v \in Workers \ {w} : storePc'[v] = storePc[v] /\ storeReq'[v] = storeReq[v]
  BY StoreEnds
<1>2. /\ table' = [s \in Resources |-> table'[s]]
      /\ \A s \in Resources \ {r} : table'[s] = table[s]
      /\ table'[r] = t /\ r \in Resources
  BY DEF StoreInv, TablesTyped, Store!Tables
<1>3. \A s \in Store!Tables' : s \in Store!Tables /\ Same(table[s], table'[s])
  BY <1>2 DEF Store!Tables, Same
<1>4. StoreTyped' BY <1>1 DEF StoreInv, StoreTyped
<1>5. TablesTyped' BY <1>2, <1>3 DEF StoreInv, TablesTyped, Same
<1>6. AsksTyped' BY <1>1 DEF StoreInv, AsksTyped
<1>7. OneCommit' BY <1>1 DEF StoreInv, OneCommit
<1>8. AliasesApart' BY <1>3 DEF StoreInv, AliasesApart, Same
<1>9. OpenAsCommitted' BY <1>1, <1>3 DEF StoreInv, OpenAsCommitted, Same
<1> QED BY <1>4, <1>5, <1>6, <1>7, <1>8, <1>9 DEF StoreInv

\* What datastore_create makes of a table, or of an empty one, with its columns and rows.
Made(full, indexes, key, aliases, isPrivate) ==
    Store!Opened(Store!Aliased(Store!Indexed(full, indexes, key), aliases), isPrivate)

LEMMA MadeTable ==
    ASSUME NEW t, DOMAIN t = Columned, t.open \in BOOLEAN,
           NEW indexes, NEW key, NEW aliases, NEW isPrivate \in BOOLEAN,
           NEW full, Same(t, full)
    PROVE  /\ DOMAIN Made(full, indexes, key, aliases, isPrivate) = Columned
           /\ aliases = None => Made(full, indexes, key, aliases, isPrivate).aliases = t.aliases
           /\ aliases # None => Made(full, indexes, key, aliases, isPrivate).aliases = aliases
           /\ Made(full, indexes, key, aliases, isPrivate).open \in BOOLEAN
           /\ Made(full, indexes, key, aliases, isPrivate).open <=> t.open /\ ~ isPrivate
<1> DEFINE indexed == Store!Indexed(full, indexes, key)
           aliased == Store!Aliased(indexed, aliases)
<1>1. DOMAIN full = Columned /\ full.aliases = t.aliases /\ full.open = t.open
  BY DEF Same
<1>2. DOMAIN indexed = Columned /\ indexed.aliases = t.aliases /\ indexed.open = t.open
  <2>1. Same(full, indexed)
    BY <1>1, TableChanges
  <2> QED BY <1>1, <2>1 DEF Same
<1> HIDE DEF indexed
<1>3. /\ DOMAIN aliased = Columned
      /\ aliased.aliases = IF aliases = None THEN t.aliases ELSE aliases
      /\ aliased.open = t.open
  <2>1. CASE aliases = None
    <3>1. aliased = indexed
      BY <2>1 DEF Store!Aliased
    <3> QED BY <2>1, <3>1, <1>2
  <2>2. CASE aliases # None
    <3>1. aliased = [indexed EXCEPT !.aliases = aliases]
      BY <2>2 DEF Store!Aliased
    <3> QED BY <2>2, <3>1, <1>2 DEF Columned
  <2> QED BY <2>1, <2>2
<1> HIDE DEF aliased
<1>4. CASE isPrivate
  <2>1. Made(full, indexes, key, aliases, isPrivate) = [aliased EXCEPT !.open = FALSE]
    BY <1>4 DEF Made, Store!Opened, aliased, indexed
  <2> QED BY <1>3, <1>4, <2>1 DEF Columned
<1>5. CASE ~ isPrivate
  <2>1. Made(full, indexes, key, aliases, isPrivate) = aliased
    BY <1>5 DEF Made, Store!Opened, aliased, indexed
  <2> QED BY <1>3, <1>5, <2>1
<1> QED BY <1>4, <1>5

LEMMA CreateKeeps ==
    ASSUME StoreInv, NEW w \in Workers, Store!Create(w)
    PROVE  StoreInv'
<1> DEFINE r == storeReq[w].res
           q == storeReq[w].ask
           old == IF r \in Store!Tables THEN table[r] ELSE Store!EmptyTable
           full == Store!Insert(Store!AlterTable(old, q.fields, q.records), q.records)
           new == Made(full, q.indexes, q.key, q.aliases, storeReq[w].private)
<1>1. /\ r \in Resources /\ q \in Creates /\ storeReq[w].private \in BOOLEAN
      /\ storePc[w] = "run"
  BY DEF StoreInv, AsksTyped, Store!Create
<1>2. /\ DOMAIN old = Columned
      /\ old.open \in BOOLEAN /\ old.aliases \subseteq Aliases
      /\ r \notin Store!Tables => old.open /\ old.aliases = {}
  <2>1. CASE r \in Store!Tables
    BY <2>1 DEF StoreInv, TablesTyped
  <2>2. CASE r \notin Store!Tables
    BY <2>2 DEF Store!EmptyTable, Columned
  <2> QED BY <2>1, <2>2
<1>3. Same(old, full)
  <2>1. Same(old, Store!AlterTable(old, q.fields, q.records))
    BY <1>2, TableChanges
  <2>2. Same(Store!AlterTable(old, q.fields, q.records), full)
    BY <1>2, <2>1, TableChanges DEF Same
  <2> QED BY <2>1, <2>2 DEF Same
<1> HIDE DEF full
<1>4. /\ DOMAIN new = Columned
      /\ q.aliases = None => new.aliases = old.aliases
      /\ q.aliases # None => new.aliases = q.aliases
      /\ new.open \in BOOLEAN
      /\ new.open <=> old.open /\ ~ storeReq[w].private
  <2> HIDE DEF old, r, q
  <2> QED BY <1>1, <1>2, <1>3, MadeTable
<1>5. /\ table' = [table EXCEPT ![r] = new]
      /\ Store!CanAlias(r, q.aliases)
      /\ private' = private
      /\ Store!Idle(w)
      /\ ~ skew' => /\ ~ skew /\ storeReq[w].private = private
                    /\ \A v \in Workers : storeReq[v].op = "package" =>
                                            storeReq[v].private = storeReq[w].private
      /\ skew' \in BOOLEAN
  BY DEF Store!Create, full, Made, StoreInv, StoreTyped
<1> HIDE DEF new
<1>6. /\ table' = [s \in Resources |-> table'[s]]
      /\ \A s \in Resources \ {r} : table'[s] = table[s]
      /\ table'[r] = new
  BY <1>1, <1>5 DEF StoreInv, TablesTyped
<1>7. \A s \in Store!Tables' \ {r} : s \in Store!Tables /\ table'[s] = table[s]
  BY <1>6 DEF Store!Tables
<1>8. new.aliases \subseteq Aliases
  BY <1>1, <1>2, <1>4, StoreAssumption
<1>9. \A s \in Store!Tables \ {r} : new.aliases \cap table[s].aliases = {}
  <2>1. CASE q.aliases = None /\ r \in Store!Tables
    BY <1>4, <2>1 DEF StoreInv, AliasesApart
  <2>2. CASE q.aliases = None /\ r \notin Store!Tables
    BY <1>2, <1>4, <2>2
  <2>3. CASE q.aliases # None
    BY <1>4, <1>5, <2>3 DEF Store!CanAlias
  <2> QED BY <2>1, <2>2, <2>3
<1>10. /\ storePc' \in [Workers -> {"idle", "run", "commit"}]
       /\ storeReq' = [v \in Workers |-> storeReq'[v]]
       /\ storePc'[w] = "idle" /\ storeReq'[w].op = "none"
       /\ \A v \in Workers \ {w} : storePc'[v] = storePc[v] /\ storeReq'[v] = storeReq[v]
  BY <1>5, StoreEnds
<1>11. StoreTyped' BY <1>5, <1>10 DEF StoreInv, StoreTyped
<1>12. TablesTyped'
  <2>1. new.open \in BOOLEAN
    BY <1>2, <1>4
  <2> QED BY <1>4, <1>6, <1>7, <1>8, <2>1 DEF StoreInv, TablesTyped
<1>13. AsksTyped' BY <1>10 DEF StoreInv, AsksTyped
<1>14. OneCommit' BY <1>10 DEF StoreInv, OneCommit
<1>15. AliasesApart'
  <2> SUFFICES ASSUME NEW s \in Store!Tables', NEW u \in Store!Tables', s # u
               PROVE  table'[s].aliases \cap table'[u].aliases = {}
    BY DEF AliasesApart
  <2>1. CASE s = r
    BY <2>1, <1>6, <1>7, <1>9
  <2>2. CASE u = r
    BY <2>2, <1>6, <1>7, <1>9
  <2>3. CASE s # r /\ u # r
    BY <2>3, <1>7 DEF StoreInv, AliasesApart
  <2> QED BY <2>1, <2>2, <2>3
<1>16. OpenAsCommitted'
  <2> SUFFICES ASSUME ~ skew', NEW s \in Store!Tables'
               PROVE  /\ (\A v \in Workers : storePc'[v] # "commit") =>
                           (table'[s].open <=> ~ private')
                      /\ \A v \in Workers :
                           storePc'[v] = "commit" => (table'[s].open <=> ~ storeReq'[v].private)
    BY DEF OpenAsCommitted
  <2>1. \A v \in Workers : storePc'[v] = "commit" =>
            v # w /\ storePc[v] = "commit" /\ storeReq'[v] = storeReq[v]
    BY <1>10
  <2>2. \A v \in Workers : storePc[v] = "commit" =>
            v # w /\ storePc'[v] = "commit" /\ storeReq[v].private = private
    BY <1>1, <1>5, <1>10 DEF StoreInv, AsksTyped
  <2>3. CASE s # r
    BY <2>1, <2>2, <2>3, <1>5, <1>7 DEF StoreInv, OpenAsCommitted
  <2>4. CASE s = r
    <3>1. new.open <=> ~ private
      <4>1. CASE r \in Store!Tables
        <5>1. table[r].open <=> ~ private
          BY <2>2, <4>1, <1>5 DEF StoreInv, OpenAsCommitted
        <5> QED BY <4>1, <5>1, <1>4, <1>5
      <4>2. CASE r \notin Store!Tables
        BY <4>2, <1>2, <1>4, <1>5
      <4> QED BY <4>1, <4>2
    <3> QED BY <2>1, <2>2, <2>4, <3>1, <1>5, <1>6
  <2> QED BY <2>3, <2>4
<1> QED BY <1>11, <1>12, <1>13, <1>14, <1>15, <1>16 DEF StoreInv

LEMMA NotifyKeeps ==
    ASSUME StoreInv, NEW w \in Workers, NEW isPrivate \in BOOLEAN, Store!Notify(w, isPrivate)
    PROVE  StoreInv'
<1> DEFINE q == [op |-> "package", private |-> isPrivate]
<1>1. /\ \A v \in Workers : storePc[v] # "commit"
      /\ storePc[w] = "idle"
      /\ private' = private /\ private \in BOOLEAN /\ skew' = FALSE
  BY DEF StoreInv, StoreTyped, AsksTyped, Store!Notify
<1>2. /\ storePc' \in [Workers -> {"idle", "run", "commit"}]
      /\ storeReq' = [v \in Workers |-> storeReq'[v]]
      /\ storePc'[w] = "commit" /\ storeReq'[w] = q
      /\ \A v \in Workers \ {w} : storePc'[v] = storePc[v] /\ storeReq'[v] = storeReq[v]
  <2> HIDE DEF q
  <2>1. storePc' = [storePc EXCEPT ![w] = "commit"] /\ storeReq' = [storeReq EXCEPT ![w] = q]
    BY DEF Store!Notify, q
  <2> QED BY <2>1, StoreStarts
<1>3. q.op = "package" /\ q.private = isPrivate
  OBVIOUS
<1> HIDE DEF q
<1>4. /\ table' = [r \in Resources |-> table'[r]]
      /\ \A r \in Resources :
           table'[r] = IF r \in Store!Tables THEN Store!Privilege(table[r], isPrivate) ELSE None
  BY DEF Store!Notify
<1>5. \A r \in Store!Tables' :
         /\ r \in Store!Tables
         /\ DOMAIN table'[r] = Columned
         /\ table'[r].aliases = table[r].aliases
         /\ table'[r].open = ~ isPrivate
  <2> SUFFICES ASSUME NEW r \in Store!Tables'
               PROVE  /\ r \in Store!Tables
                      /\ DOMAIN table'[r] = Columned
                      /\ table'[r].aliases = table[r].aliases
                      /\ table'[r].open = ~ isPrivate
    OBVIOUS
  <2>1. r \in Store!Tables /\ r \in Resources
    BY <1>4 DEF Store!Tables
  <2>2. table'[r] = [table[r] EXCEPT !.open = ~ isPrivate]
    BY <2>1, <1>4 DEF Store!Privilege
  <2>3. DOMAIN table[r] = Columned
    BY <2>1 DEF StoreInv, TablesTyped
  <2> QED BY <2>1, <2>2, <2>3 DEF Columned
<1>6. StoreTyped' BY <1>1, <1>2 DEF StoreTyped
<1>7. TablesTyped' BY <1>4, <1>5 DEF StoreInv, TablesTyped
<1>8. AsksTyped' BY <1>2, <1>3 DEF StoreInv, AsksTyped
<1>9. OneCommit' BY <1>1, <1>2 DEF OneCommit
<1>10. AliasesApart' BY <1>5 DEF StoreInv, AliasesApart
<1>11. OpenAsCommitted' BY <1>1, <1>2, <1>3, <1>5 DEF OpenAsCommitted
<1> QED BY <1>6, <1>7, <1>8, <1>9, <1>10, <1>11 DEF StoreInv

\* The session that was about to commit, committed or rolled back.
LEMMA PackageKeeps ==
    ASSUME StoreInv, NEW w \in Workers, Store!CommitPackage(w) \/ Store!Rollback(w)
    PROVE  StoreInv'
<1>1. /\ storePc[w] = "commit" /\ storeReq[w].private \in BOOLEAN
      /\ Store!Idle(w)
      /\ table' = table /\ Store!Tables' = Store!Tables
      /\ skew' \in BOOLEAN /\ private' \in BOOLEAN
      /\ ~ skew' => ~ skew /\ private' = storeReq[w].private
  BY DEF StoreInv, StoreTyped, AsksTyped, Store!CommitPackage, Store!Rollback, Store!Tables
<1>2. /\ storePc' \in [Workers -> {"idle", "run", "commit"}]
      /\ storeReq' = [v \in Workers |-> storeReq'[v]]
      /\ storePc'[w] = "idle" /\ storeReq'[w].op = "none"
      /\ \A v \in Workers \ {w} : storePc'[v] = storePc[v] /\ storeReq'[v] = storeReq[v]
  BY <1>1, StoreEnds
<1>3. \A v \in Workers : storePc'[v] # "commit"
  BY <1>1, <1>2 DEF StoreInv, OneCommit
<1>4. StoreTyped' BY <1>1, <1>2 DEF StoreTyped
<1>5. TablesTyped' BY <1>1 DEF StoreInv, TablesTyped
<1>6. AsksTyped' BY <1>2 DEF StoreInv, AsksTyped
<1>7. OneCommit' BY <1>3 DEF OneCommit
<1>8. AliasesApart' BY <1>1 DEF StoreInv, AliasesApart
<1>9. OpenAsCommitted' BY <1>1, <1>3 DEF StoreInv, OpenAsCommitted
<1> QED BY <1>4, <1>5, <1>6, <1>7, <1>8, <1>9 DEF StoreInv

\* A bulk update changes the dataset, and nothing else.
LEMMA BulkKeeps ==
    ASSUME StoreInv, NEW isPrivate \in BOOLEAN, Store!BulkUpdate(isPrivate)
    PROVE  StoreInv'
<1>1. /\ \A w \in Workers : storePc[w] # "commit"
      /\ private' = isPrivate /\ skew' \in BOOLEAN
      /\ table' = table /\ storePc' = storePc /\ storeReq' = storeReq
      /\ Store!Tables' = Store!Tables
      /\ ~ skew' => ~ skew /\ private' = private
  BY DEF StoreInv, StoreTyped, AsksTyped, Store!BulkUpdate, Store!Tables
<1>2. StoreTyped' /\ TablesTyped' /\ AsksTyped' /\ OneCommit' /\ AliasesApart'
  BY <1>1 DEF StoreInv, StoreTyped, TablesTyped, AsksTyped, OneCommit, AliasesApart
<1>3. OpenAsCommitted'
  BY <1>1 DEF StoreInv, OpenAsCommitted
<1> QED BY <1>2, <1>3 DEF StoreInv

LEMMA StoreStep == StoreInv /\ [Store!Next]_Store!vars => StoreInv'
<1> SUFFICES ASSUME StoreInv, [Store!Next]_Store!vars
             PROVE  StoreInv'
  OBVIOUS
<1>1. CASE UNCHANGED Store!vars
  BY <1>1 DEF Store!vars, StoreInv, StoreTyped, TablesTyped, AsksTyped, OneCommit, AliasesApart,
              OpenAsCommitted, Store!Tables
<1>2. ASSUME NEW w \in Workers, NEW r \in Resources, NEW create \in Creates,
             Store!AskCreate(w, r, create)
      PROVE  StoreInv'
  <2> DEFINE q == [op |-> "create", res |-> r, ask |-> create, private |-> private]
  <2>1. Store!Start(w, q)
    BY <1>2 DEF Store!AskCreate
  <2>2. q.op = "create" /\ q.res = r /\ q.ask = create /\ q.private = private
    OBVIOUS
  <2>3. private \in BOOLEAN
    BY DEF StoreInv, StoreTyped
  <2> HIDE DEF q
  <2> QED BY <2>1, <2>2, <2>3, AskKeeps
<1>3. ASSUME NEW w \in Workers, NEW r \in Resources, NEW method \in {"insert", "upsert", "update"},
             NEW records, Store!AskUpsert(w, r, method, records)
      PROVE  StoreInv'
  <2> DEFINE q == [op |-> method, res |-> r, records |-> records]
  <2>1. Store!Start(w, q)
    BY <1>3 DEF Store!AskUpsert
  <2>2. q.op # "create" /\ q.op # "package"
    OBVIOUS
  <2> HIDE DEF q
  <2> QED BY <2>1, <2>2, AskKeeps
<1>4. ASSUME NEW w \in Workers, NEW r \in Resources, NEW filter, Store!AskDelete(w, r, filter)
      PROVE  StoreInv'
  <2> DEFINE q == [op |-> "delete", res |-> r, filter |-> filter]
  <2>1. Store!Start(w, q)
    BY <1>4 DEF Store!AskDelete
  <2>2. q.op # "create" /\ q.op # "package"
    OBVIOUS
  <2> HIDE DEF q
  <2> QED BY <2>1, <2>2, AskKeeps
<1>5. ASSUME NEW w \in Workers, Store!Create(w)
      PROVE  StoreInv'
  BY <1>5, CreateKeeps
<1>6. ASSUME NEW w \in Workers, Store!Change(w)
      PROVE  StoreInv'
  <2> DEFINE r == storeReq[w].res
             records == storeReq[w].records
  <2>1. /\ storePc[w] # "commit" /\ Store!Idle(w) /\ r \in Store!Tables
        /\ UNCHANGED <<private, skew>>
        /\ \E t \in {Store!Insert(table[r], records), Store!Upsert(table[r], records)} :
             table' = [table EXCEPT ![r] = t]
    BY <1>6 DEF Store!Change
  <2>2. PICK t \in {Store!Insert(table[r], records), Store!Upsert(table[r], records)} :
               table' = [table EXCEPT ![r] = t]
    BY <2>1
  <2>3. Same(table[r], t)
    BY <2>1, TableChanges DEF StoreInv, TablesTyped
  <2> HIDE DEF r, records
  <2> QED BY <2>1, <2>2, <2>3, ChangeKeeps
<1>7. ASSUME NEW w \in Workers, Store!Delete(w)
      PROVE  StoreInv'
  <2> DEFINE r == storeReq[w].res
             t == IF Store!IsWhole(storeReq[w].filter) THEN None
                  ELSE Store!Filtered(table[r], storeReq[w].filter)
  <2>1. /\ storePc[w] # "commit" /\ Store!Idle(w) /\ r \in Store!Tables
        /\ UNCHANGED <<private, skew>>
        /\ table' = [table EXCEPT ![r] = t]
    BY <1>7 DEF Store!Delete
  <2>2. t = None \/ Same(table[r], t)
    BY <2>1, TableChanges DEF StoreInv, TablesTyped
  <2> HIDE DEF r, t
  <2> QED BY <2>1, <2>2, ChangeKeeps
<1>8. ASSUME NEW w \in Workers, Store!Fail(w)
      PROVE  StoreInv'
  <2>1. /\ storePc[w] = "run"
        /\ storePc' \in [Workers -> {"idle", "run", "commit"}]
        /\ storeReq' = [v \in Workers |-> storeReq'[v]]
        /\ storePc'[w] = "idle" /\ storeReq'[w].op = "none"
        /\ \A v \in Workers \ {w} : storePc'[v] = storePc[v] /\ storeReq'[v] = storeReq[v]
    BY <1>8, StoreEnds DEF Store!Fail
  <2>2. private' = private /\ table' = table /\ skew' = skew /\ Store!Tables' = Store!Tables
    BY <1>8 DEF Store!Fail, Store!Tables
  <2>3. StoreTyped' /\ AsksTyped' /\ OneCommit'
    BY <2>1, <2>2 DEF StoreInv, StoreTyped, AsksTyped, OneCommit
  <2>4. TablesTyped' /\ AliasesApart'
    BY <2>2 DEF StoreInv, TablesTyped, AliasesApart
  <2>5. OpenAsCommitted'
    BY <2>1, <2>2 DEF StoreInv, OpenAsCommitted
  <2> QED BY <2>3, <2>4, <2>5 DEF StoreInv
<1>9. ASSUME NEW w \in Workers, NEW isPrivate \in BOOLEAN, Store!Notify(w, isPrivate)
      PROVE  StoreInv'
  BY <1>9, NotifyKeeps
<1>10. ASSUME NEW w \in Workers, Store!CommitPackage(w) \/ Store!Rollback(w)
       PROVE  StoreInv'
  BY <1>10, PackageKeeps
<1>11. ASSUME NEW isPrivate \in BOOLEAN, Store!BulkUpdate(isPrivate)
       PROVE  StoreInv'
  BY <1>11, BulkKeeps
<1> QED BY <1>1, <1>2, <1>3, <1>4, <1>5, <1>6, <1>7, <1>8, <1>9, <1>10, <1>11 DEF Store!Next

LEMMA StoreInvGives == StoreInv => PrivilegesFollow
<1> SUFFICES ASSUME StoreInv, ~ skew, \A w \in Workers : storePc[w] # "commit",
                    NEW r \in Store!Tables
             PROVE  /\ Store!SearchSql(r) = Store!DatastoreSearch(r, FALSE)
                    /\ \A n \in {r} \cup table[r].aliases : Store!DatastoreSearch(n, TRUE) = r
  BY DEF PrivilegesFollow, Store!PrivilegesFollow
<1>1. ASSUME NEW n \in {r} \cup table[r].aliases
      PROVE  {s \in Store!Tables : s = n \/ n \in table[s].aliases} = {r}
  <2>1. r \in Resources /\ table[r].aliases \subseteq Aliases
    BY DEF StoreInv, TablesTyped, Store!Tables
  <2>2. ASSUME NEW s \in Store!Tables, s = n \/ n \in table[s].aliases, s # r
        PROVE  FALSE
    <3>1. s \in Resources /\ table[s].aliases \subseteq Aliases
      BY DEF StoreInv, TablesTyped, Store!Tables
    <3>2. table[r].aliases \cap table[s].aliases = {}
      BY <2>2 DEF StoreInv, AliasesApart
    <3> QED BY <2>1, <2>2, <3>1, <3>2, StoreAssumption
  <2> QED BY <2>2
<1>2. table[r].open <=> ~ private
  BY DEF StoreInv, OpenAsCommitted
<1>3. \A n \in {r} \cup table[r].aliases : Store!DatastoreSearch(n, TRUE) = r
  <2> SUFFICES ASSUME NEW n \in {r} \cup table[r].aliases PROVE Store!DatastoreSearch(n, TRUE) = r
    OBVIOUS
  <2> DEFINE named == {s \in Store!Tables : s = n \/ n \in table[s].aliases}
  <2>1. named = {r}
    BY <1>1
  <2>2. (CHOOSE s \in named : TRUE) = r
    BY <2>1
  <2> QED BY <2>1, <2>2 DEF Store!DatastoreSearch
<1>4. Store!DatastoreSearch(r, FALSE) = IF private THEN None ELSE r
  <2> DEFINE named == {s \in Store!Tables : s = r \/ r \in table[s].aliases}
  <2>1. named = {r}
    BY <1>1
  <2>2. (CHOOSE s \in named : TRUE) = r
    BY <2>1
  <2> QED BY <2>1, <2>2 DEF Store!DatastoreSearch
<1>5. Store!SearchSql(r) = IF private THEN None ELSE r
  <2> DEFINE found == {s \in Store!Tables : (s = r /\ table[s].open) \/ r \in table[s].aliases}
  <2>1. found = IF private THEN {} ELSE {r}
    <3>1. \A s \in Store!Tables : r \notin table[s].aliases
      BY StoreAssumption DEF StoreInv, TablesTyped, Store!Tables
    <3> QED BY <1>2, <3>1
  <2>2. ~ private => (CHOOSE s \in found : TRUE) = r
    BY <2>1
  <2> QED BY <2>1, <2>2 DEF Store!SearchSql
<1> QED BY <1>3, <1>4, <1>5

\* The read-only user may read the tables of public datasets, and those only, by the id of
\* their resource, and the names of a table lead to it, whatever is created, changed and
\* deleted while the privacy of the dataset changes, as long as nothing changed one without
\* the other since the dataset was last saved: datastore_create, DatastorePlugin.notify,
\* bulk_update_private.  What an alias lets read is not said: its view is granted to all.
THEOREM PrivilegesStayRight == ServicesSpec => []PrivilegesFollow
<1>1. StoreInv /\ [Store!Next]_Store!vars => StoreInv'
  BY StoreStep
<1> QED BY <1>1, ServicesRunStore, StoreInitially, StoreInvGives, PTL DEF Store!Spec

\* The list of a set has each of its members.
ListsAll(sort, key) ==
    /\ sort \in Seq(key)
    /\ \A f \in key : \E n \in DOMAIN sort : sort[n] = f

LEMMA ListOf ==
    ASSUME NEW S, IsFiniteSet(S)
    PROVE  ListsAll(Store!SetToSeq(S), S)
<1> DEFINE N == Cardinality(S)
           s == Store!SetToSeq(S)
<1>1. N \in Nat /\ ExistsBijection(1 .. N, S)
  BY FS_CardinalityType
<1>2. PICK f : f \in Bijection(1 .. N, S)
  BY <1>1 DEF ExistsBijection
<1>3. \A T : Store!Cardinality(T) = Cardinality(T)
  BY DEF Store!Cardinality, Cardinality
<1>4. s = CHOOSE g \in [1 .. N -> S] : \A a, b \in DOMAIN g : g[a] = g[b] => a = b
  BY <1>3 DEF Store!SetToSeq, Store!IsInjective
<1>5. f \in [1 .. N -> S] /\ \A a, b \in DOMAIN f : f[a] = f[b] => a = b
  BY <1>2 DEF Bijection, Injection, IsInjective
<1>6. s \in [1 .. N -> S] /\ \A a, b \in DOMAIN s : s[a] = s[b] => a = b
  BY <1>4, <1>5
<1> HIDE DEF s
<1>7. s \in Injection(1 .. N, S)
  BY <1>6 DEF Injection, IsInjective
<1>8. Cardinality(1 .. N) = N
  BY <1>1, FS_Interval
<1>9. s \in Surjection(1 .. N, S)
  BY <1>7, <1>8, FS_Injection
<1>10. \A x \in S : \E n \in 1 .. N : s[n] = x
  BY <1>9 DEF Surjection
<1>11. s \in Seq(S) /\ DOMAIN s = 1 .. N
  BY <1>1, <1>6
<1> QED BY <1>10, <1>11 DEF ListsAll, s

\* What create_table and alter_table add to the columns of a table.
LEMMA AlteredFields ==
    ASSUME NEW t, DOMAIN t = Columned, t.fields \in Seq(Fields), NEW create \in Creates
    PROVE  \E new \in Seq(Fields) :
             Store!AlterTable(t, create.fields, create.records) = Fielded(t, t.fields \o new)
<1> DEFINE supplied == create.fields
           records == create.records
           columns == IF supplied = <<>> THEN t.fields ELSE supplied
           more == SubSeq(columns, Len(t.fields) + 1, Len(columns))
           extra == Store!Extra(columns, records)
<1>1. columns \in Seq(Fields)
  BY FieldsAssumption
<1>2. more \in Seq(Fields)
  <2> HIDE DEF columns
  <2>1. Len(all) \in Nat /\ Len(t.fields) \in Nat
    BY <1>1
  <2> QED BY <1>1, <2>1
<1>3. extra \in Seq(Fields)
  <2> HIDE DEF columns
  <2>1. CASE records = <<>>
    BY <2>1 DEF Store!Extra
  <2>2. CASE records # <<>>
    <3> DEFINE found == DOMAIN records[1] \ Store!ToSet(columns)
    <3>1. records[1] \in UNION {[part -> Cells \cup {None}] : part \in SUBSET Fields}
      <4> HIDE DEF records
      <4>1. records \in Seq(UNION {[part -> Cells \cup {None}] : part \in SUBSET Fields})
        BY FieldsAssumption DEF records, Store!PartialRows
      <4> DEFINE R == UNION {[part -> Cells \cup {None}] : part \in SUBSET Fields}
      <4> HIDE DEF R
      <4>2. records \in Seq(R) /\ records # <<>>
        BY <2>2, <4>1 DEF R
      <4>3. records[1] \in R
        BY <4>2
      <4> QED BY <4>3 DEF R
    <3>2. found \subseteq Fields
      BY <3>1
    <3>3. IsFiniteSet(found)
      BY <3>2, FieldsAssumption, FS_Subset
    <3>4. extra = Store!SetToSeq(found)
      BY <2>2 DEF Store!Extra
    <3> HIDE DEF found, extra
    <3>5. extra \in Seq(found)
      BY <3>3, <3>4, ListOf DEF ListsAll
    <3> QED BY <3>2, <3>5
  <2> QED BY <2>1, <2>2
<1> DEFINE new == more \o extra
<1>4. new \in Seq(Fields)
  <2> HIDE DEF more, extra
  <2> QED BY <1>2, <1>3
<1>5. Store!AlterTable(t, supplied, records) = Fielded(t, t.fields \o new)
  BY DEF Store!AlterTable, Fielded
<1> QED BY <1>4, <1>5

\* The other changes leave the columns.
Kept(t, s) == DOMAIN s = DOMAIN t /\ s.fields = t.fields

LEMMA FieldsKept ==
    ASSUME NEW t, DOMAIN t = Columned
    PROVE  /\ \A records : Kept(t, Store!Insert(t, records))
           /\ \A records : Kept(t, Store!Upsert(t, records))
           /\ \A filter : Kept(t, Store!Filtered(t, filter))
           /\ \A indexes, key : Kept(t, Store!Indexed(t, indexes, key))
           /\ \A aliases : Kept(t, Store!Aliased(t, aliases))
           /\ \A isPrivate : Kept(t, Store!Opened(t, isPrivate))
           /\ \A isPrivate : Kept(t, Store!Privilege(t, isPrivate))
<1>1. \A x : Kept(t, Rowed(t, x))
  BY DEF Kept, Columned, Rowed
<1>2. \A x, y : Kept(t, Keyed(t, x, y))
  BY DEF Kept, Columned, Keyed
<1>3. \A records : Kept(t, Store!Insert(t, records))
  <2>1. \A records : \E x : Store!Insert(t, records) = Rowed(t, x)
    BY DEF Store!Insert, Rowed
  <2> QED BY <1>1, <2>1, Zenon
<1>4. \A records : Kept(t, Store!Upsert(t, records))
  <2>1. \A records : \E x : Store!Upsert(t, records) = Rowed(t, x)
    BY DEF Store!Upsert, Rowed
  <2> QED BY <1>1, <2>1, Zenon
<1>5. \A filter : Kept(t, Store!Filtered(t, filter))
  <2>1. \A filter : \E x : Store!Filtered(t, filter) = Rowed(t, x)
    BY DEF Store!Filtered, Rowed
  <2> QED BY <1>1, <2>1, Zenon
<1>6. \A indexes, key : Kept(t, Store!Indexed(t, indexes, key))
  <2>1. \A indexes, key : \E x, y : Store!Indexed(t, indexes, key) = Keyed(t, x, y)
    BY DEF Store!Indexed, Keyed
  <2> QED BY <1>2, <2>1, Zenon
<1>7. \A aliases : Kept(t, Store!Aliased(t, aliases))
  BY DEF Kept, Columned, Store!Aliased
<1>8. \A isPrivate : Kept(t, Store!Opened(t, isPrivate)) /\ Kept(t, Store!Privilege(t, isPrivate))
  BY DEF Kept, Columned, Store!Opened, Store!Privilege
<1> QED BY <1>3, <1>4, <1>5, <1>6, <1>7, <1>8

\* The columns of each table are a list.
FieldsTyped == \A r \in Store!Tables : table[r].fields \in Seq(Fields)

Grown(r) ==
    \E new \in Seq(Fields) :
      table'[r].fields = (IF table[r] = None THEN <<>> ELSE table[r].fields) \o new

LEMMA UnchangedGrown ==
    ASSUME FieldsTyped, NEW r \in Store!Tables, table'[r].fields = table[r].fields
    PROVE  Grown(r)
<1>1. table[r].fields \in Seq(Fields) /\ <<>> \in Seq(Fields) /\ table[r] # None
  BY DEF FieldsTyped, Store!Tables
<1>2. table'[r].fields = table[r].fields \o <<>>
  BY <1>1
<1> QED BY <1>1, <1>2 DEF Grown

LEMMA CreateGrows ==
    ASSUME StoreInv, FieldsTyped, NEW w \in Workers, Store!Create(w)
    PROVE  \A r \in Resources : table'[r] # None => Grown(r)
<1> DEFINE r == storeReq[w].res
           q == storeReq[w].ask
           old == IF r \in Store!Tables THEN table[r] ELSE Store!EmptyTable
           wide == Store!AlterTable(old, q.fields, q.records)
           full == Store!Insert(wide, q.records)
           indexed == Store!Indexed(full, q.indexes, q.key)
           aliased == Store!Aliased(indexed, q.aliases)
           new == Store!Opened(aliased, storeReq[w].private)
<1>1. r \in Resources /\ q \in Creates
  BY DEF StoreInv, AsksTyped, Store!Create
<1>2. table' = [table EXCEPT ![r] = new] /\ table = [s \in Resources |-> table[s]]
  BY DEF Store!Create, StoreInv, TablesTyped
<1>3. /\ DOMAIN old = Columned /\ old.fields \in Seq(Fields)
      /\ old.fields = IF table[r] = None THEN <<>> ELSE table[r].fields
  <2>1. CASE r \in Store!Tables
    BY <2>1 DEF StoreInv, TablesTyped, FieldsTyped, Store!Tables
  <2>2. CASE r \notin Store!Tables
    BY <2>2, <1>1 DEF Store!EmptyTable, Columned, Store!Tables
  <2> QED BY <2>1, <2>2
<1> HIDE DEF old
<1>4. PICK more \in Seq(Fields) : wide = Fielded(old, old.fields \o more)
  <2> HIDE DEF q
  <2> QED BY <1>1, <1>3, AlteredFields DEF wide
<1> HIDE DEF wide
<1>5. DOMAIN wide = Columned /\ wide.fields = old.fields \o more
  BY <1>3, <1>4 DEF Fielded, Columned
<1> HIDE DEF q
<1>6. Kept(wide, full)
  BY <1>5, FieldsKept
<1> HIDE DEF full
<1>7. Kept(full, indexed)
  BY <1>5, <1>6, FieldsKept DEF Kept
<1> HIDE DEF indexed
<1>8. Kept(indexed, aliased)
  BY <1>5, <1>6, <1>7, FieldsKept DEF Kept
<1> HIDE DEF aliased
<1>9. Kept(aliased, new)
  BY <1>5, <1>6, <1>7, <1>8, FieldsKept DEF Kept
<1> HIDE DEF new
<1>10. new.fields = old.fields \o more
  BY <1>5, <1>6, <1>7, <1>8, <1>9 DEF Kept
<1> HIDE DEF r
<1>11. table'[r] = new /\ \A s \in Resources \ {r} : table'[s] = table[s]
  BY <1>1, <1>2
<1>12. Grown(r)
  BY <1>3, <1>4, <1>10, <1>11 DEF Grown
<1>13. ASSUME NEW s \in Resources \ {r}, table'[s] # None PROVE Grown(s)
  BY <1>11, <1>13, UnchangedGrown DEF Store!Tables
<1> QED BY <1>12, <1>13

LEMMA OthersGrow ==
    ASSUME StoreInv, FieldsTyped, NEW w \in Workers,
           \/ Store!Change(w) \/ Store!Delete(w)
           \/ \E isPrivate \in BOOLEAN : Store!Notify(w, isPrivate)
           \/ UNCHANGED table
    PROVE  \A r \in Resources : table'[r] # None => Grown(r)
<1> SUFFICES ASSUME NEW r \in Resources, table'[r] # None PROVE Grown(r)
  OBVIOUS
<1>1. table = [s \in Resources |-> table[s]] /\ \A s \in Store!Tables : DOMAIN table[s] = Columned
  BY DEF StoreInv, TablesTyped
<1>2. r \in Store!Tables /\ table'[r].fields = table[r].fields
  <2>1. CASE Store!Change(w)
    <3> DEFINE s == storeReq[w].res
               records == storeReq[w].records
    <3>1. PICK t \in {Store!Insert(table[s], records), Store!Upsert(table[s], records)} :
                 table' = [table EXCEPT ![s] = t]
      BY <2>1 DEF Store!Change
    <3>2. s \in Store!Tables /\ s \in Resources
      BY <2>1 DEF Store!Change, Store!Tables
    <3>3. Kept(table[s], t)
      BY <1>1, <3>2, FieldsKept
    <3> HIDE DEF s, records
    <3>4. table'[s] = t /\ (r # s => table'[r] = table[r])
      BY <1>1, <3>1, <3>2
    <3> QED BY <3>2, <3>3, <3>4 DEF Kept, Store!Tables
  <2>2. CASE Store!Delete(w)
    <3> DEFINE s == storeReq[w].res
               t == Store!Filtered(table[s], storeReq[w].filter)
    <3>1. /\ s \in Store!Tables /\ s \in Resources
          /\ table' = [table EXCEPT ![s] = IF Store!IsWhole(storeReq[w].filter) THEN None ELSE t]
      BY <2>2 DEF Store!Delete, Store!Tables
    <3>2. Kept(table[s], t)
      BY <1>1, <3>1, FieldsKept
    <3> HIDE DEF s, t
    <3>3. table'[s] \in {None, t} /\ (r # s => table'[r] = table[r])
      BY <1>1, <3>1
    <3> QED BY <3>1, <3>2, <3>3 DEF Kept, Store!Tables
  <2>3. ASSUME NEW isPrivate \in BOOLEAN, Store!Notify(w, isPrivate)
        PROVE  r \in Store!Tables /\ table'[r].fields = table[r].fields
    <3>1. table' = [s \in Resources |-> IF s \in Store!Tables
                                        THEN Store!Privilege(table[s], isPrivate) ELSE None]
      BY <2>3 DEF Store!Notify
    <3>2. table'[r] = IF r \in Store!Tables THEN Store!Privilege(table[r], isPrivate) ELSE None
      BY <3>1
    <3>3. r \in Store!Tables => Kept(table[r], Store!Privilege(table[r], isPrivate))
      BY <1>1, FieldsKept
    <3> QED BY <3>2, <3>3 DEF Kept
  <2>4. CASE UNCHANGED table
    BY <2>4 DEF Store!Tables
  <2> QED BY <2>1, <2>2, <2>3, <2>4
<1> QED BY <1>2, UnchangedGrown

LEMMA FieldsStep ==
    ASSUME StoreInv, FieldsTyped, [Store!Next]_Store!vars
    PROVE  \A r \in Resources : table'[r] # None => Grown(r)
<1>1. CASE UNCHANGED Store!vars
  <2>1. \A r \in Resources : table'[r] # None =>
          r \in Store!Tables /\ table'[r].fields = table[r].fields
    BY <1>1 DEF Store!vars, Store!Tables
  <2> QED BY <2>1, UnchangedGrown
<1>2. ASSUME NEW w \in Workers, Store!Create(w)
      PROVE  \A r \in Resources : table'[r] # None => Grown(r)
  BY <1>2, CreateGrows
<1>3. ASSUME NEW w \in Workers,
             \/ Store!Change(w) \/ Store!Delete(w)
             \/ \E isPrivate \in BOOLEAN : Store!Notify(w, isPrivate)
             \/ UNCHANGED table
      PROVE  \A r \in Resources : table'[r] # None => Grown(r)
  BY <1>3, OthersGrow
<1>4. ASSUME NEW w \in Workers, NEW q, Store!Start(w, q) PROVE UNCHANGED table
  BY <1>4 DEF Store!Start
<1>5. ASSUME NEW w \in Workers,
             \/ Store!Fail(w) \/ Store!CommitPackage(w) \/ Store!Rollback(w)
             \/ \E r \in Resources :
                  \/ \E create \in Creates : Store!AskCreate(w, r, create)
                  \/ \E method \in {"insert", "upsert", "update"}, records \in Records :
                       Store!AskUpsert(w, r, method, records)
                  \/ \E filter \in Filters : Store!AskDelete(w, r, filter)
      PROVE  UNCHANGED table
  BY <1>5, <1>4 DEF Store!Fail, Store!CommitPackage, Store!Rollback, Store!AskCreate,
                    Store!AskUpsert, Store!AskDelete
<1>6. ASSUME NEW isPrivate \in BOOLEAN, Store!BulkUpdate(isPrivate)
      PROVE  \A r \in Resources : table'[r] # None => Grown(r)
  <2>1. \A r \in Resources : table'[r] # None =>
          r \in Store!Tables /\ table'[r].fields = table[r].fields
    BY <1>6 DEF Store!BulkUpdate, Store!Tables
  <2> QED BY <2>1, UnchangedGrown
<1> QED BY <1>1, <1>2, <1>3, <1>5, <1>6 DEF Store!Next

\* So do columns after each step.
LEMMA FieldsKeep ==
    ASSUME StoreInv, FieldsTyped, [Store!Next]_Store!vars
    PROVE  FieldsTyped'
<1> SUFFICES ASSUME NEW r \in Store!Tables'
             PROVE  table'[r].fields \in Seq(Fields)
  BY DEF FieldsTyped
<1>1. r \in Resources /\ table'[r] # None
  BY DEF Store!Tables
<1>2. Grown(r)
  BY <1>1, FieldsStep
<1>3. PICK new \in Seq(Fields) :
        table'[r].fields = (IF table[r] = None THEN <<>> ELSE table[r].fields) \o new
  BY <1>2 DEF Grown
<1>4. table[r] # None => table[r].fields \in Seq(Fields)
  BY <1>1 DEF FieldsTyped, Store!Tables
<1> QED BY <1>3, <1>4

\* db.create: "A header items values can not be changed after it has been defined nor can
\* the ordering of them be changed. They can be extended though": whatever is created,
\* changed and deleted, the columns that a table has stay its first ones, in their order.
LEMMA ColumnsStayInPlace == ServicesSpec => Store!ColumnsStay
<1>1. Store!Init => FieldsTyped
  BY DEF Store!Init, FieldsTyped, Store!Tables
<1>2. StoreInv /\ FieldsTyped /\ [Store!Next]_Store!vars => FieldsTyped'
  BY FieldsKeep
<1>3. StoreInv /\ FieldsTyped /\ [Store!Next]_Store!vars =>
        \A r \in Store!Tables :
          table'[r] # None => Store!IsPrefix(table[r].fields, table'[r].fields)
  <2> SUFFICES ASSUME StoreInv, FieldsTyped, [Store!Next]_Store!vars,
                      NEW r \in Store!Tables, table'[r] # None
               PROVE  Store!IsPrefix(table[r].fields, table'[r].fields)
    OBVIOUS
  <2>1. r \in Resources /\ table[r] # None /\ table[r].fields \in Seq(Fields)
    BY DEF Store!Tables, FieldsTyped
  <2>2. Grown(r)
    BY <2>1, FieldsStep
  <2>3. PICK new \in Seq(Fields) : table'[r].fields = table[r].fields \o new
    BY <2>1, <2>2 DEF Grown
  <2> DEFINE s == table[r].fields
             u == table'[r].fields
  <2>4. s \in Seq(Fields) /\ u = s \o new
    BY <2>1, <2>3
  <2> HIDE DEF s, u
  <2>5. Len(s) =< Len(u) /\ Len(s) \in Nat
    BY <2>4
  <2>6. SubSeq(s, 1, Len(s)) = SubSeq(u, 1, Len(s))
    BY <2>4, <2>5
  <2> QED BY <2>5, <2>6 DEF Store!IsPrefix, s, u
<1> QED BY <1>1, <1>2, <1>3, StoreStep, ServicesRunStore, StoreInitially, PTL
     DEF Store!Spec, Store!ColumnsStay

-----------------------------------------------------------------------------
(***************************************************************************)
(* The rows of a table.                                                    *)
(***************************************************************************)

\* A set of numbers that is not empty has a least one.
LEMMA LeastOf ==
    ASSUME NEW T \in SUBSET Nat, T # {}
    PROVE  \E m \in T : \A k \in T : m =< k
<1> DEFINE R == {ss \in Nat \X Nat : ss[1] < ss[2]}
<1>1. IsWellFoundedOn(R, Nat)
  BY NatLessThanWellFounded DEF OpToRel
<1> HIDE DEF R
<1>2. PICK m \in T : \A k \in T : <<k, m>> \notin R
  BY <1>1, WFMin
<1>3. ASSUME NEW k \in T PROVE m =< k
  <2>1. k \in Nat /\ m \in Nat /\ <<k, m>> \in Nat \X Nat
    OBVIOUS
  <2> QED BY <1>2, <2>1 DEF R
<1> QED BY <1>3

LEMMA StepByStep ==
    ASSUME NEW m \in Nat, NEW T \in SUBSET (0 .. m), 0 \in T,
           \A n \in 0 .. m - 1 : n \in T => n + 1 \in T
    PROVE  T = 0 .. m
<1> SUFFICES ASSUME (0 .. m) \ T # {} PROVE FALSE
  OBVIOUS
<1>1. (0 .. m) \ T \in SUBSET Nat
  OBVIOUS
<1>2. PICK k \in (0 .. m) \ T : \A n \in (0 .. m) \ T : k =< n
  BY <1>1, LeastOf
<1>3. k # 0 /\ k \in Nat /\ k - 1 \in 0 .. m - 1
  BY <1>2
<1>4. k - 1 \in T
  BY <1>2, <1>3
<1> QED BY <1>2, <1>3, <1>4

\* In a strict order of finitely many, each has its number of those before it.
Preceding(S, R, i) == {j \in S : <<j, i>> \in R}
IsOrder(S, R) ==
    /\ \A i, j \in S : i # j => <<i, j>> \in R \/ <<j, i>> \in R
    /\ \A i, j, k \in S : <<i, j>> \in R /\ <<j, k>> \in R => <<i, k>> \in R
    /\ \A i \in S : <<i, i>> \notin R

Numbered(S, R) ==
    /\ Cardinality(S) \in Nat
    /\ \A i, j \in S : <<i, j>> \in R => Cardinality(Preceding(S, R, i)) < Cardinality(Preceding(S, R, j))
    /\ \A i, k \in S :
         Cardinality(Preceding(S, R, i)) = Cardinality(Preceding(S, R, k)) => i = k
    /\ \A n \in 1 .. Cardinality(S) :
         \E i \in S : Cardinality(Preceding(S, R, i)) = n - 1

LEMMA Ranked ==
    ASSUME NEW S, IsFiniteSet(S), NEW R, IsOrder(S, R)
    PROVE  Numbered(S, R)
<1> DEFINE N == Cardinality(S)
           before(i) == Preceding(S, R, i)
           rank == [i \in S |-> Cardinality(before(i)) + 1]
<1>1. N \in Nat
  BY FS_CardinalityType
<1> HIDE DEF before, rank, N
<1>2. \A i \in S : IsFiniteSet(before(i)) /\ Cardinality(before(i)) \in Nat /\ Cardinality(before(i)) < N
  <2> SUFFICES ASSUME NEW i \in S
               PROVE  /\ IsFiniteSet(before(i)) /\ Cardinality(before(i)) \in Nat
                      /\ Cardinality(before(i)) < N
    OBVIOUS
  <2>1. before(i) \in SUBSET S /\ before(i) # S
    BY DEF before, Preceding, IsOrder
  <2>2. IsFiniteSet(before(i)) /\ Cardinality(before(i)) =< N /\ Cardinality(before(i)) # N
    BY <2>1, FS_Subset DEF N
  <2>3. Cardinality(before(i)) \in Nat
    BY <2>2, FS_CardinalityType
  <2> QED BY <1>1, <2>2, <2>3
<1>3. \A i, j \in S : <<i, j>> \in R => Cardinality(before(i)) < Cardinality(before(j))
  <2> SUFFICES ASSUME NEW i \in S, NEW j \in S, <<i, j>> \in R
               PROVE  Cardinality(before(i)) < Cardinality(before(j))
    OBVIOUS
  <2>1. before(i) \in SUBSET before(j) /\ i \in before(j) /\ i \notin before(i)
    BY DEF before, Preceding, IsOrder
  <2>2. Cardinality(before(i)) =< Cardinality(before(j)) /\ Cardinality(before(i)) # Cardinality(before(j))
    BY <1>2, <2>1, FS_Subset
  <2>3. Cardinality(before(i)) \in Nat /\ Cardinality(before(j)) \in Nat
    BY <1>2
  <2> QED BY <2>2, <2>3
<1>4. rank \in [S -> 1 .. N] /\ \A i \in S : rank[i] = Cardinality(before(i)) + 1
  <2>1. \A i \in S : Cardinality(before(i)) + 1 \in 1 .. N
    BY <1>1, <1>2
  <2> QED BY <2>1 DEF rank
<1>5. \A i, j \in S : <<i, j>> \in R => rank[i] < rank[j]
  BY <1>2, <1>3, <1>4
<1>6. \A i, j \in S : rank[i] = rank[j] => i = j
  <2> SUFFICES ASSUME NEW i \in S, NEW j \in S, rank[i] = rank[j], i # j PROVE FALSE
    OBVIOUS
  <2>1. <<i, j>> \in R \/ <<j, i>> \in R
    BY DEF IsOrder
  <2>2. rank[i] < rank[j] \/ rank[j] < rank[i]
    BY <1>5, <2>1
  <2>3. rank[i] \in Int
    BY <1>4
  <2> QED BY <2>2, <2>3
<1>7. rank \in Injection(S, 1 .. N)
  BY <1>4, <1>6 DEF Injection, IsInjective
<1>8. IsFiniteSet(1 .. N) /\ Cardinality(1 .. N) = N
  BY <1>1, FS_Interval
<1>9. rank \in Surjection(S, 1 .. N)
  BY <1>7, <1>8, FS_Injection DEF N
<1>10. \A n \in 1 .. N : \E i \in S : rank[i] = n
  BY <1>9 DEF Surjection
<1>11. \A n \in 1 .. N : \E i \in S : Cardinality(before(i)) = n - 1
  BY <1>2, <1>4, <1>10
<1>12. \A i, k \in S : Cardinality(before(i)) = Cardinality(before(k)) => i = k
  BY <1>4, <1>6
<1> QED BY <1>1, <1>3, <1>11, <1>12 DEF before, N, Numbered

\* The rows at some places, in order: a way to number the places that has each of them once.
Enumerations(I) ==
    {e \in [1 .. Cardinality(I) -> I] :
       /\ \A m, n \in 1 .. Cardinality(I) : e[m] = e[n] => m = n
       /\ \A i \in I : \E n \in 1 .. Cardinality(I) : e[n] = i}

LEMMA RowsAtPlaces ==
    ASSUME NEW I \in SUBSET Nat, IsFiniteSet(I)
    PROVE  /\ Cardinality(I) \in Nat
           /\ \E e \in Enumerations(I) : \A list :
                Store!RowsAt(list, I) = [n \in 1 .. Cardinality(I) |-> list[e[n]]]
<1> DEFINE R == {ss \in Nat \X Nat : ss[1] < ss[2]}
           N == Cardinality(I)
           below(i) == {j \in I : j < i}
           e == [n \in 1 .. N |-> CHOOSE i \in I : Store!Cardinality(below(i)) = n - 1]
<1>1. \A i, j \in I : <<i, j>> \in R <=> i < j
  OBVIOUS
<1> HIDE DEF R
<1>2. \A i \in I : below(i) = Preceding(I, R, i)
  BY <1>1 DEF Preceding
<1>3. IsOrder(I, R)
  BY <1>1 DEF IsOrder
<1>4. \A T : Store!Cardinality(T) = Cardinality(T)
  BY DEF Store!Cardinality, Cardinality
<1>5. /\ N \in Nat
      /\ \A i, k \in I : Cardinality(below(i)) = Cardinality(below(k)) => i = k
      /\ \A n \in 1 .. N : \E i \in I : Cardinality(below(i)) = n - 1
  <2> HIDE DEF below, N, e
  <2>1. Numbered(I, R)
    BY <1>3, Ranked
  <2>2. /\ N \in Nat
        /\ \A i, k \in I : Cardinality(Preceding(I, R, i)) = Cardinality(Preceding(I, R, k)) => i = k
        /\ \A n \in 1 .. N : \E i \in I : Cardinality(Preceding(I, R, i)) = n - 1
    BY <2>1 DEF N, Numbered
  <2> QED BY <1>2, <2>2
<1>6. \A list : Store!RowsAt(list, I) = [n \in 1 .. N |-> list[e[n]]]
  BY <1>4 DEF Store!RowsAt
<1> HIDE DEF below
<1>7. e \in [1 .. N -> I] /\ \A n \in 1 .. N : Cardinality(below(e[n])) = n - 1
  <2> HIDE DEF N
  <2>1. \A n \in 1 .. N : \E i \in I : Store!Cardinality(below(i)) = n - 1
    BY <1>4, <1>5
  <2> QED BY <1>4, <2>1
<1> HIDE DEF e
<1>8. \A m, n \in 1 .. N : e[m] = e[n] => m = n
  <2> SUFFICES ASSUME NEW m \in 1 .. N, NEW n \in 1 .. N, e[m] = e[n] PROVE m = n
    OBVIOUS
  <2>1. m - 1 = n - 1 /\ m \in Nat /\ n \in Nat
    BY <1>5, <1>7
  <2> QED BY <2>1
<1>9. IsFiniteSet(1 .. N) /\ Cardinality(1 .. N) = N
  BY <1>5, FS_Interval
<1>10. e \in Injection(1 .. N, I)
  BY <1>7, <1>8 DEF Injection, IsInjective
<1>11. e \in Surjection(1 .. N, I)
  BY <1>9, <1>10, FS_Injection
<1>12. e \in Enumerations(I)
  BY <1>7, <1>8, <1>11 DEF Enumerations, Surjection
<1> QED BY <1>5, <1>6, <1>12

LEMMA PlacesFinite ==
    ASSUME NEW S, NEW list \in Seq(S), NEW I \in SUBSET (DOMAIN list)
    PROVE  I \in SUBSET Nat /\ IsFiniteSet(I)
<1>1. DOMAIN list = 1 .. Len(list) /\ Len(list) \in Nat
  OBVIOUS
<1>2. IsFiniteSet(1 .. Len(list))
  BY <1>1, FS_Interval
<1> QED BY <1>1, <1>2, FS_Subset

LEMMA RowsAtFit ==
    ASSUME NEW S, NEW list \in Seq(S), NEW I \in SUBSET (DOMAIN list)
    PROVE  /\ Store!RowsAt(list, I) \in Seq(S)
           /\ Len(Store!RowsAt(list, I)) = Cardinality(I)
           /\ Cardinality(I) \in Nat /\ Cardinality(I) =< Len(list)
           /\ DOMAIN Store!RowsAt(list, I) = 1 .. Cardinality(I)
           /\ \E e \in Enumerations(I) :
                \A n \in 1 .. Cardinality(I) : Store!RowsAt(list, I)[n] = list[e[n]]
<1>1. I \in SUBSET Nat /\ IsFiniteSet(I)
  BY PlacesFinite
<1>2. /\ Cardinality(I) \in Nat
      /\ \E e \in Enumerations(I) :
           Store!RowsAt(list, I) = [n \in 1 .. Cardinality(I) |-> list[e[n]]]
  BY <1>1, RowsAtPlaces
<1>3. PICK e \in Enumerations(I) :
             Store!RowsAt(list, I) = [n \in 1 .. Cardinality(I) |-> list[e[n]]]
  BY <1>2
<1>4. \A n \in 1 .. Cardinality(I) : e[n] \in DOMAIN list
  BY DEF Enumerations
<1>5. DOMAIN list = 1 .. Len(list) /\ Len(list) \in Nat /\ \A i \in DOMAIN list : list[i] \in S
  OBVIOUS
<1>6. Store!RowsAt(list, I) \in [1 .. Cardinality(I) -> S]
  BY <1>3, <1>4, <1>5
<1>7. IsFiniteSet(1 .. Len(list)) /\ Cardinality(1 .. Len(list)) = Len(list)
  <2>1. Len(list) \in Nat
    BY <1>5
  <2> QED BY <2>1, FS_Interval
<1>8. Cardinality(I) =< Len(list)
  BY <1>5, <1>7, FS_Subset
<1>9. Store!RowsAt(list, I) \in Seq(S) /\ Len(Store!RowsAt(list, I)) = Cardinality(I)
  BY <1>2, <1>6
<1> QED BY <1>2, <1>3, <1>6, <1>8, <1>9

\* A deletion takes what the filters match.
LEMMA FilteredFit ==
    ASSUME NEW S, NEW list \in Seq(S), NEW filter
    PROVE  LET match == Store!Matching(list, filter)
               after == Store!RowsAt(list, DOMAIN list \ match)
           IN  /\ Len(after) + Len(Store!RowsAt(list, match)) = Len(list)
               /\ Store!RowsAt(after, Store!Matching(after, filter)) = <<>>
<1> DEFINE match == Store!Matching(list, filter)
           rest == DOMAIN list \ match
           after == Store!RowsAt(list, rest)
<1>1. match \in SUBSET (DOMAIN list) /\ rest \in SUBSET (DOMAIN list)
  BY DEF Store!Matching
<1>2. DOMAIN list = 1 .. Len(list) /\ Len(list) \in Nat
  OBVIOUS
<1>3. IsFiniteSet(1 .. Len(list)) /\ Cardinality(1 .. Len(list)) = Len(list)
  BY <1>2, FS_Interval
<1>4. Cardinality(rest) = Len(list) - Cardinality(match)
  <2>1. (1 .. Len(list)) \cap match = match
    BY <1>1, <1>2
  <2>2. rest = (1 .. Len(list)) \ match
    BY <1>2
  <2>3. Cardinality((1 .. Len(list)) \ match) = Len(list) - Cardinality(match)
    <3> DEFINE places == 1 .. Len(list)
    <3>1. IsFiniteSet(places) /\ places \cap match = match /\ Cardinality(places) = Len(list)
      BY <1>3, <2>1
    <3> HIDE DEF match, places
    <3>2. Cardinality(places \ match) = Cardinality(places) - Cardinality(places \cap match)
      BY <3>1, FS_Difference
    <3>3. Cardinality(places \ match) = Len(list) - Cardinality(match)
      BY <3>1, <3>2
    <3> QED BY <3>3 DEF places
  <2> QED BY <2>2, <2>3
<1>5. Len(after) = Cardinality(rest) /\ Len(Store!RowsAt(list, match)) = Cardinality(match)
  BY <1>1, RowsAtFit
<1>6. Cardinality(match) \in Nat
  BY <1>1, RowsAtFit
<1>7. Len(after) + Len(Store!RowsAt(list, match)) = Len(list)
  <2> HIDE DEF after, rest, match
  <2> QED BY <1>2, <1>4, <1>5, <1>6
<1>8. Store!Matching(after, filter) = {}
  <2>1. /\ DOMAIN after = 1 .. Cardinality(rest)
        /\ \E e \in Enumerations(rest) :
             \A n \in 1 .. Cardinality(rest) : after[n] = list[e[n]]
    <3> HIDE DEF rest
    <3> QED BY <1>1, RowsAtFit
  <2>2. PICK e \in Enumerations(rest) : \A n \in 1 .. Cardinality(rest) : after[n] = list[e[n]]
    BY <2>1
  <2>3. \A n \in 1 .. Cardinality(rest) : e[n] \in DOMAIN list /\ e[n] \notin match
    BY DEF Enumerations
  <2> HIDE DEF after, rest
  <2>4. \A n \in DOMAIN after :
          ~ \A f \in DOMAIN filter : filter[f] # None /\ after[n][f] = filter[f]
    BY <2>1, <2>2, <2>3 DEF Store!Matching
  <2> QED BY <2>4 DEF Store!Matching
<1>9. Store!RowsAt(after, {}) = <<>>
  <2>1. Store!Cardinality({}) = 0
    BY FS_EmptySet DEF Store!Cardinality, Cardinality
  <2> QED BY <2>1 DEF Store!RowsAt
<1> QED BY <1>7, <1>8, <1>9

\* What an upsert has made of the rows after each record.
After(list, records, key) ==
    CHOOSE f : f = [n \in 0 .. Len(records) |->
                      IF n = 0 THEN list ELSE Store!UpsertOne(f[n - 1], records[n], key)]

LEMMA UpsertsIs ==
    ASSUME NEW list, NEW records, NEW key
    PROVE  Store!Upserts(list, records, key) = After(list, records, key)[Len(records)]
BY DEF Store!Upserts, After

LEMMA RowsFromRecords ==
    ASSUME NEW record \in Store!PartialRows
    PROVE  /\ Store!RowOf(record) \in Store!Rows
           /\ \A row \in Store!Rows : Store!Merge(row, record) \in Store!Rows
           /\ \A f \in DOMAIN record : f \in Fields /\ record[f] \in Cells \cup {None}
<1>1. PICK part \in SUBSET Fields : record \in [part -> Cells \cup {None}]
  BY DEF Store!PartialRows
<1>2. \A f \in DOMAIN record : f \in Fields /\ record[f] \in Cells \cup {None}
  BY <1>1
<1>3. Store!RowOf(record) \in Store!Rows
  BY <1>2 DEF Store!RowOf, Store!Rows
<1>4. \A row \in Store!Rows : Store!Merge(row, record) \in Store!Rows
  BY <1>2 DEF Store!Merge, Store!Rows
<1> QED BY <1>2, <1>3, <1>4

LEMMA UpsertOneFits ==
    ASSUME NEW list \in Seq(Store!Rows), NEW record \in Store!PartialRows, NEW key
    PROVE  Store!UpsertOne(list, record, key) \in Seq(Store!Rows)
<1>1. /\ DOMAIN list = 1 .. Len(list) /\ Len(list) \in Nat
      /\ \A i \in 1 .. Len(list) : list[i] \in Store!Rows
  OBVIOUS
<1>2. CASE \E i \in DOMAIN list : Store!Matches(list[i], record, key)
  <2> DEFINE new == [i \in DOMAIN list |-> IF Store!Matches(list[i], record, key)
                                           THEN Store!Merge(list[i], record) ELSE list[i]]
  <2>1. \A i \in 1 .. Len(list) :
          (IF Store!Matches(list[i], record, key) THEN Store!Merge(list[i], record) ELSE list[i])
             \in Store!Rows
    BY <1>1, RowsFromRecords
  <2>2. new \in [1 .. Len(list) -> Store!Rows]
    BY <1>1, <2>1
  <2>3. Store!UpsertOne(list, record, key) = new
    BY <1>2 DEF Store!UpsertOne
  <2> HIDE DEF new
  <2> QED BY <1>1, <2>2, <2>3
<1>3. CASE ~ \E i \in DOMAIN list : Store!Matches(list[i], record, key)
  <2>1. Store!UpsertOne(list, record, key) = Append(list, Store!RowOf(record))
    BY <1>3 DEF Store!UpsertOne
  <2>2. Store!RowOf(record) \in Store!Rows
    BY RowsFromRecords
  <2> QED BY <2>1, <2>2
<1> QED BY <1>2, <1>3

\* The first n records can be taken one after the other.
Chains(list, records, key, n) ==
    {d \in [0 .. n -> Seq(Store!Rows)] :
       /\ d[0] = list
       /\ \A m \in 0 .. n - 1 : d[m + 1] = Store!UpsertOne(d[m], records[m + 1], key)}

LEMMA ChainGrows ==
    ASSUME NEW list, NEW records \in Seq(Store!PartialRows), NEW key,
           NEW n \in 0 .. Len(records) - 1, Chains(list, records, key, n) # {}
    PROVE  Chains(list, records, key, n + 1) # {}
<1>1. PICK d \in Chains(list, records, key, n) : TRUE
  OBVIOUS
<1>2. /\ d \in [0 .. n -> Seq(Store!Rows)] /\ d[0] = list
      /\ \A m \in 0 .. n - 1 : d[m + 1] = Store!UpsertOne(d[m], records[m + 1], key)
  BY DEF Chains
<1> DEFINE next == Store!UpsertOne(d[n], records[n + 1], key)
           e == [m \in 0 .. n + 1 |-> IF m = n + 1 THEN next ELSE d[m]]
<1>3. n \in Nat /\ n + 1 \in 1 .. Len(records)
  OBVIOUS
<1>4. next \in Seq(Store!Rows)
  <2>1. d[n] \in Seq(Store!Rows) /\ records[n + 1] \in Store!PartialRows
    BY <1>2, <1>3
  <2> QED BY <2>1, UpsertOneFits
<1> HIDE DEF next
<1>5. e \in [0 .. n + 1 -> Seq(Store!Rows)] /\ e[n + 1] = next /\ \A m \in 0 .. n : e[m] = d[m]
  BY <1>2, <1>3, <1>4
<1> HIDE DEF e
<1>6. ASSUME NEW m \in 0 .. (n + 1) - 1
      PROVE  e[m + 1] = Store!UpsertOne(e[m], records[m + 1], key)
  <2>1. CASE m = n
    BY <2>1, <1>3, <1>5 DEF next
  <2>2. CASE m # n
    <3>1. m \in 0 .. n - 1 /\ m \in 0 .. n /\ m + 1 \in 0 .. n
      BY <1>3, <2>2
    <3> QED BY <3>1, <1>2, <1>5
  <2> QED BY <2>1, <2>2
<1>7. e[0] = list
  BY <1>2, <1>3, <1>5
<1> QED BY <1>5, <1>6, <1>7 DEF Chains

LEMMA AfterSteps ==
    ASSUME NEW list \in Seq(Store!Rows), NEW records \in Seq(Store!PartialRows), NEW key
    PROVE  /\ After(list, records, key)[0] = list
           /\ \A n \in 0 .. Len(records) - 1 :
                After(list, records, key)[n + 1] =
                  Store!UpsertOne(After(list, records, key)[n], records[n + 1], key)
<1> DEFINE N == Len(records)
           a == After(list, records, key)
           T == {n \in 0 .. N : Chains(list, records, key, n) # {}}
<1>1. N \in Nat
  OBVIOUS
<1>2. T = 0 .. N
  <2>1. 0 \in T
    <3>1. [m \in 0 .. 0 |-> list] \in Chains(list, records, key, 0)
      BY DEF Chains
    <3> QED BY <1>1, <3>1
  <2>2. ASSUME NEW n \in 0 .. N - 1, n \in T PROVE n + 1 \in T
    <3>1. n + 1 \in 0 .. N
      BY <1>1
    <3> QED BY <2>2, <3>1, ChainGrows
  <2>3. T \in SUBSET (0 .. N)
    OBVIOUS
  <2> HIDE DEF T, N
  <2> QED BY <1>1, <2>1, <2>2, <2>3, StepByStep
<1>3. PICK d \in Chains(list, records, key, N) : TRUE
  BY <1>1, <1>2
<1>4. /\ d \in [0 .. N -> Seq(Store!Rows)] /\ d[0] = list
      /\ \A m \in 0 .. N - 1 : d[m + 1] = Store!UpsertOne(d[m], records[m + 1], key)
  BY DEF Chains
<1> HIDE DEF N
<1>5. \A n \in 0 .. N : d[n] = IF n = 0 THEN list ELSE Store!UpsertOne(d[n - 1], records[n], key)
  <2> SUFFICES ASSUME NEW n \in 0 .. N, n # 0
               PROVE  d[n] = Store!UpsertOne(d[n - 1], records[n], key)
    BY <1>4
  <2>1. n - 1 \in 0 .. N - 1 /\ (n - 1) + 1 = n
    BY <1>1
  <2> QED BY <1>4, <2>1
<1>6. d = [n \in 0 .. N |-> IF n = 0 THEN list ELSE Store!UpsertOne(d[n - 1], records[n], key)]
  BY <1>4, <1>5
<1>7. a = [n \in 0 .. N |-> IF n = 0 THEN list ELSE Store!UpsertOne(a[n - 1], records[n], key)]
  BY <1>6 DEF After, N
<1> HIDE DEF a
<1>8. a[0] = list
  BY <1>1, <1>7
<1>9. ASSUME NEW n \in 0 .. N - 1 PROVE a[n + 1] = Store!UpsertOne(a[n], records[n + 1], key)
  <2>1. n + 1 \in 0 .. N /\ n + 1 # 0 /\ (n + 1) - 1 = n
    BY <1>1
  <2> QED BY <1>7, <2>1
<1> QED BY <1>8, <1>9 DEF a, N

\* The keys of the first n records, those with a null aside, and what a field of the row with a key should be by then:
\* what the last of those records that sets it says, else what it was.
NamedBy(records, n, key) ==
    {Store!KeyOf(records[i], key) : i \in {j \in 1 .. n : ~ Store!HasNull(records[j], key)}}
Setting(records, n, key, k, f) ==
    {i \in 1 .. n : Store!KeyOf(records[i], key) = k /\ f \in DOMAIN records[i]}
Before(list, key, k, f) == {list[i][f] : i \in {j \in DOMAIN list : Store!KeyOf(list[j], key) = k}}
LastOf(places) == CHOOSE i \in places : \A j \in places : j =< i
Latest(list, records, n, key, k, f) ==
    LET setting == Setting(records, n, key, k, f)
    IN  IF setting # {} THEN records[LastOf(setting)][f]
        ELSE IF Before(list, key, k, f) # {} THEN CHOOSE v \in Before(list, key, k, f) : TRUE
        ELSE None

\* What the rows are after the first n records: those there were, in their places and with
\* their keys, one for each key that was new, and rows with a null in their key.
Merged(list, records, key, n, a) ==
    LET named == NamedBy(records, n, key)
    IN  /\ a \in Seq(Store!Rows) /\ Len(list) =< Len(a)
        /\ \A i \in 1 .. Len(list) :
             /\ Store!KeyOf(a[i], key) = Store!KeyOf(list[i], key)
             /\ Store!KeyOf(a[i], key) \notin named => a[i] = list[i]
        /\ \A i \in Len(list) + 1 .. Len(a) :
             Store!KeyOf(a[i], key) \in named \/ Store!HasNull(a[i], key)
        /\ \A k \in named : \E i \in 1 .. Len(a) : Store!KeyOf(a[i], key) = k
        /\ \A i \in 1 .. Len(a), j \in Len(list) + 1 .. Len(a) :
             Store!KeyOf(a[i], key) = Store!KeyOf(a[j], key) => i = j \/ Store!HasNull(a[i], key)
        /\ \A i \in 1 .. Len(a) : Store!KeyOf(a[i], key) \in named =>
             \A f \in Fields :
               a[i][f] = Latest(list, records, n, key, Store!KeyOf(a[i], key), f)

\* Upserts are about a key that each record has; rows with a key that a record may have are unique.
Upsertable(list, records, key) ==
    /\ list \in Seq(Store!Rows) /\ records \in Seq(Store!PartialRows) /\ key \in SUBSET Fields
    /\ \A i \in 1 .. Len(records) : key \subseteq DOMAIN records[i]
    /\ \A i, j \in 1 .. Len(list) :
         /\ Store!KeyOf(list[i], key) = Store!KeyOf(list[j], key)
         /\ \A f \in key : list[i][f] # None
         => i = j

LEMMA SettingNext ==
    ASSUME NEW records, NEW n \in Nat, NEW key, NEW k, NEW f
    PROVE  /\ Store!KeyOf(records[n + 1], key) # k \/ f \notin DOMAIN records[n + 1] =>
                Setting(records, n + 1, key, k, f) = Setting(records, n, key, k, f)
           /\ Store!KeyOf(records[n + 1], key) = k /\ f \in DOMAIN records[n + 1] =>
                n + 1 \in Setting(records, n + 1, key, k, f)
           /\ Setting(records, n, key, k, f) \subseteq 1 .. n
<1>1. \A i : i \in 1 .. n + 1 <=> i \in 1 .. n \/ i = n + 1
  OBVIOUS
<1>2. n + 1 \in 1 .. n + 1 /\ n + 1 \notin 1 .. n
  OBVIOUS
<1> QED BY <1>1, <1>2 DEF Setting

LEMMA LatestNext ==
    ASSUME NEW list, NEW records, NEW n \in Nat, NEW key, NEW k, NEW f
    PROVE  /\ Store!KeyOf(records[n + 1], key) # k \/ f \notin DOMAIN records[n + 1] =>
                Latest(list, records, n + 1, key, k, f) = Latest(list, records, n, key, k, f)
           /\ Store!KeyOf(records[n + 1], key) = k /\ f \in DOMAIN records[n + 1] =>
                Latest(list, records, n + 1, key, k, f) = records[n + 1][f]
<1> DEFINE next == Setting(records, n + 1, key, k, f)
<1>1. CASE Store!KeyOf(records[n + 1], key) # k \/ f \notin DOMAIN records[n + 1]
  <2>1. next = Setting(records, n, key, k, f)
    BY <1>1, SettingNext
  <2>2. Latest(list, records, n + 1, key, k, f) = Latest(list, records, n, key, k, f)
    <3> HIDE DEF next
    <3>1. Setting(records, n + 1, key, k, f) = Setting(records, n, key, k, f)
      BY <2>1 DEF next
    <3> QED BY <3>1 DEF Latest
  <2> QED BY <1>1, <2>2
<1>2. CASE Store!KeyOf(records[n + 1], key) = k /\ f \in DOMAIN records[n + 1]
  <2>1. n + 1 \in next
    BY <1>2, SettingNext
  <2>2. next \subseteq 1 .. n + 1
    BY DEF Setting
  <2> HIDE DEF next
  <2>3. n + 1 \in next /\ \A j \in next : j =< n + 1
    BY <2>1, <2>2
  <2>4. \A i \in next : (\A j \in next : j =< i) => i = n + 1
    BY <2>2, <2>3
  <2>5. (CHOOSE i \in next : \A j \in next : j =< i) = n + 1
    BY <2>3, <2>4
  <2>6. Latest(list, records, n + 1, key, k, f) = records[LastOf(next)][f]
    BY <2>1 DEF Latest, next
  <2> QED BY <1>2, <2>5, <2>6 DEF LastOf
<1> QED BY <1>1, <1>2

LEMMA NamedNext ==
    ASSUME NEW records, NEW n \in Nat, NEW key
    PROVE  NamedBy(records, n + 1, key) =
             NamedBy(records, n, key) \cup
               (IF Store!HasNull(records[n + 1], key) THEN {}
                ELSE {Store!KeyOf(records[n + 1], key)})
<1>1. \A i : i \in 1 .. n + 1 <=> i \in 1 .. n \/ i = n + 1
  OBVIOUS
<1> QED BY <1>1 DEF NamedBy

LEMMA KeysOf ==
    ASSUME NEW row \in Store!Rows, NEW record \in Store!PartialRows, NEW key \in SUBSET Fields,
           key \subseteq DOMAIN record
    PROVE  /\ Store!Matches(row, record, key) <=>
                ~ Store!HasNull(record, key) /\ Store!KeyOf(row, key) = Store!KeyOf(record, key)
           /\ Store!KeyOf(Store!Merge(row, record), key) = Store!KeyOf(record, key)
           /\ Store!KeyOf(Store!RowOf(record), key) = Store!KeyOf(record, key)
           /\ \A x : Store!KeyOf(x, key) = Store!KeyOf(record, key) =>
                (Store!HasNull(x, key) <=> Store!HasNull(record, key))
<1>1. \A f \in key : f \in Fields /\ f \in DOMAIN record
  BY RowsFromRecords
<1>2. Store!Matches(row, record, key) <=>
        ~ Store!HasNull(record, key) /\ Store!KeyOf(row, key) = Store!KeyOf(record, key)
  <2>1. Store!KeyOf(row, key) = [f \in key |-> row[f]]
        /\ Store!KeyOf(record, key) = [f \in key |-> record[f]]
    BY DEF Store!KeyOf
  <2>2. [f \in key |-> row[f]] = [f \in key |-> record[f]] <=> \A f \in key : row[f] = record[f]
    OBVIOUS
  <2> QED BY <2>1, <2>2 DEF Store!Matches
<1>3. \A f \in key : Store!Merge(row, record)[f] = record[f] /\ Store!RowOf(record)[f] = record[f]
  BY <1>1 DEF Store!Merge, Store!RowOf
<1>4. Store!KeyOf(Store!Merge(row, record), key) = Store!KeyOf(record, key)
      /\ Store!KeyOf(Store!RowOf(record), key) = Store!KeyOf(record, key)
  <2> HIDE DEF Store!Merge, Store!RowOf
  <2> QED BY <1>3 DEF Store!KeyOf
<1>5. \A x : Store!KeyOf(x, key) = Store!KeyOf(record, key) =>
        (Store!HasNull(x, key) <=> Store!HasNull(record, key))
  <2>1. \A x : \A f \in key : Store!KeyOf(x, key)[f] = x[f]
    BY DEF Store!KeyOf
  <2> QED BY <2>1 DEF Store!HasNull
<1> QED BY <1>2, <1>4, <1>5

\* No record: the rows as they were.
LEMMA MergedFirst ==
    ASSUME NEW list, NEW records, NEW key, Upsertable(list, records, key)
    PROVE  Merged(list, records, key, 0, list)
<1>1. NamedBy(records, 0, key) = {}
  BY DEF NamedBy
<1>2. list \in Seq(Store!Rows) /\ Len(list) \in Nat
  BY DEF Upsertable
<1> QED BY <1>1, <1>2 DEF Merged

\* What a row with the key of the next record says before that record.
LEMMA RowBefore ==
    ASSUME NEW list, NEW records, NEW key, Upsertable(list, records, key),
           NEW n \in 0 .. Len(records) - 1, NEW a, Merged(list, records, key, n, a),
           NEW i \in 1 .. Len(a), ~ Store!HasNull(records[n + 1], key),
           Store!KeyOf(a[i], key) = Store!KeyOf(records[n + 1], key), NEW f \in Fields
    PROVE  a[i][f] = Latest(list, records, n, key, Store!KeyOf(a[i], key), f)
<1> DEFINE k == Store!KeyOf(a[i], key)
<1>1. CASE k \in NamedBy(records, n, key)
  BY <1>1 DEF Merged
<1>2. CASE k \notin NamedBy(records, n, key)
  <2>1. Len(list) \in Nat /\ Len(a) \in Nat /\ Len(list) =< Len(a)
    BY DEF Merged, Upsertable
  <2>2. i \in 1 .. Len(list)
    <3>1. ~ Store!HasNull(a[i], key)
      <4>1. /\ records[n + 1] \in Store!PartialRows /\ key \subseteq DOMAIN records[n + 1]
            /\ key \in SUBSET Fields /\ a[i] \in Store!Rows
        BY DEF Upsertable, Merged
      <4> QED BY <4>1, KeysOf
    <3>2. i \notin Len(list) + 1 .. Len(a)
      BY <1>2, <3>1 DEF Merged
    <3> QED BY <2>1, <3>2
  <2>3. a[i] = list[i] /\ Store!KeyOf(list[i], key) = k
    BY <1>2, <2>2 DEF Merged
  <2>4. Setting(records, n, key, k, f) = {}
    <3>1. \A j \in 1 .. n : Store!KeyOf(records[j], key) = k => ~ Store!HasNull(records[j], key)
      <4>1. \A j \in 1 .. n : j \in 1 .. Len(records)
        BY DEF Upsertable
      <4>2. /\ records[n + 1] \in Store!PartialRows /\ key \subseteq DOMAIN records[n + 1]
            /\ key \in SUBSET Fields /\ a[i] \in Store!Rows
        BY DEF Upsertable, Merged
      <4> QED BY <4>1, <4>2, KeysOf
    <3> HIDE DEF k
    <3> QED BY <1>2, <3>1 DEF Setting, NamedBy
  <2>5. ASSUME NEW j \in 1 .. Len(list), Store!KeyOf(list[j], key) = k PROVE j = i
    <3>1. records[n + 1] \in Store!PartialRows /\ key \subseteq DOMAIN records[n + 1]
          /\ key \in SUBSET Fields
      BY DEF Upsertable
    <3>2. list[i] \in Store!Rows
      BY <2>2 DEF Upsertable
    <3>3. Store!KeyOf(list[j], key) = Store!KeyOf(records[n + 1], key)
      BY <2>5
    <3>4. \A g \in key : list[j][g] # None
      <4>1. ~ Store!HasNull(list[j], key)
        BY <3>1, <3>2, <3>3, KeysOf
      <4> QED BY <4>1 DEF Store!HasNull
    <3> QED BY <2>2, <2>3, <2>5, <3>4 DEF Upsertable
  <2>6. Before(list, key, k, f) = {list[i][f]}
    <3>1. DOMAIN list = 1 .. Len(list)
      BY DEF Upsertable
    <3> HIDE DEF k
    <3>2. {j \in DOMAIN list : Store!KeyOf(list[j], key) = k} = {i}
      BY <2>2, <2>3, <2>5, <3>1
    <3> QED BY <3>2 DEF Before
  <2> HIDE DEF k
  <2>7. Latest(list, records, n, key, k, f) = list[i][f]
    BY <2>4, <2>6 DEF Latest
  <2> QED BY <2>3, <2>7 DEF k
<1> QED BY <1>1, <1>2

\* The next record updates the rows with its key.
LEMMA MergedUpdate ==
    ASSUME NEW list, NEW records, NEW key, Upsertable(list, records, key),
           NEW n \in 0 .. Len(records) - 1, NEW a, Merged(list, records, key, n, a),
           \E i \in DOMAIN a : Store!Matches(a[i], records[n + 1], key)
    PROVE  Merged(list, records, key, n + 1, Store!UpsertOne(a, records[n + 1], key))
<1> DEFINE record == records[n + 1]
           K(row) == Store!KeyOf(row, key)
           k == K(record)
           b == Store!UpsertOne(a, record, key)
           named == NamedBy(records, n, key)
<1>1. /\ n \in Nat /\ n + 1 \in 1 .. Len(records)
      /\ record \in Store!PartialRows /\ key \subseteq DOMAIN record /\ key \in SUBSET Fields
      /\ a \in Seq(Store!Rows) /\ list \in Seq(Store!Rows) /\ Len(list) =< Len(a)
  BY DEF Upsertable, Merged
<1>2. /\ DOMAIN a = 1 .. Len(a) /\ Len(a) \in Nat /\ Len(list) \in Nat
      /\ \A i \in 1 .. Len(a) : a[i] \in Store!Rows
  BY <1>1
<1>3. NamedBy(records, n + 1, key) = named \cup {k} /\ ~ Store!HasNull(record, key)
  <2>1. ~ Store!HasNull(record, key)
    BY DEF Store!Matches
  <2> QED BY <1>1, <2>1, NamedNext
<1> HIDE DEF record
<1>4. b = [i \in DOMAIN a |-> IF Store!Matches(a[i], record, key) THEN Store!Merge(a[i], record)
                              ELSE a[i]]
  BY DEF Store!UpsertOne, record
<1>5. b \in Seq(Store!Rows)
  BY <1>1, UpsertOneFits
<1> HIDE DEF b
<1>6. Len(b) = Len(a) /\ \A i \in 1 .. Len(a) :
        b[i] = IF Store!Matches(a[i], record, key) THEN Store!Merge(a[i], record) ELSE a[i]
  <2>1. DOMAIN b = 1 .. Len(a)
    BY <1>2, <1>4
  <2> QED BY <1>2, <1>4, <1>5, <2>1
<1>7. \A i \in 1 .. Len(a) : /\ Store!Matches(a[i], record, key) <=> K(a[i]) = k
                             /\ K(Store!Merge(a[i], record)) = k
                             /\ K(a[i]) = k => ~ Store!HasNull(a[i], key)
  BY <1>1, <1>2, <1>3, KeysOf
<1> HIDE DEF K, k
<1>8. \A i \in 1 .. Len(a) : /\ K(b[i]) = K(a[i])
                             /\ K(a[i]) # k => b[i] = a[i]
                             /\ K(a[i]) = k => b[i] = Store!Merge(a[i], record)
  BY <1>6, <1>7
<1>9. \E i \in 1 .. Len(a) : K(a[i]) = k
  BY <1>2, <1>7 DEF record
<1> HIDE DEF named
<1>10. /\ \A i \in 1 .. Len(list) : K(a[i]) = K(list[i]) /\ (K(a[i]) \notin named => a[i] = list[i])
       /\ \A i \in Len(list) + 1 .. Len(a) : K(a[i]) \in named \/ Store!HasNull(a[i], key)
       /\ \A l \in named : \E i \in 1 .. Len(a) : K(a[i]) = l
       /\ \A i \in 1 .. Len(a), j \in Len(list) + 1 .. Len(a) :
            K(a[i]) = K(a[j]) => i = j \/ Store!HasNull(a[i], key)
       /\ \A i \in 1 .. Len(a) : K(a[i]) \in named =>
            \A f \in Fields : a[i][f] = Latest(list, records, n, key, K(a[i]), f)
  BY DEF Merged, K, named
<1>11. \A i \in 1 .. Len(list) :
         i \in 1 .. Len(a) /\ K(b[i]) = K(list[i]) /\ (K(b[i]) \notin named \cup {k} => b[i] = list[i])
  BY <1>1, <1>2, <1>8, <1>10
<1>12. \A i \in Len(list) + 1 .. Len(b) :
         K(b[i]) \in named \cup {k} \/ Store!HasNull(b[i], key)
  <2> SUFFICES ASSUME NEW i \in Len(list) + 1 .. Len(b), K(b[i]) # k
               PROVE  K(b[i]) \in named \/ Store!HasNull(b[i], key)
    OBVIOUS
  <2>1. i \in 1 .. Len(a) /\ i \in Len(list) + 1 .. Len(a)
    BY <1>2, <1>6
  <2>2. b[i] = a[i]
    BY <1>8, <2>1
  <2> QED BY <1>10, <2>1, <2>2
<1>13. \A l \in named \cup {k} : \E i \in 1 .. Len(b) : K(b[i]) = l
  BY <1>6, <1>8, <1>9, <1>10
<1>14. \A i \in 1 .. Len(b), j \in Len(list) + 1 .. Len(b) :
         K(b[i]) = K(b[j]) => i = j \/ Store!HasNull(b[i], key)
  <2> SUFFICES ASSUME NEW i \in 1 .. Len(b), NEW j \in Len(list) + 1 .. Len(b), K(b[i]) = K(b[j])
               PROVE  i = j \/ Store!HasNull(b[i], key)
    OBVIOUS
  <2>1. i \in 1 .. Len(a) /\ j \in 1 .. Len(a) /\ j \in Len(list) + 1 .. Len(a)
    BY <1>2, <1>6
  <2>2. K(a[i]) = K(a[j])
    BY <1>8, <2>1
  <2>3. i = j \/ Store!HasNull(a[i], key)
    BY <1>10, <2>1, <2>2
  <2>4. Store!HasNull(a[i], key) => b[i] = a[i]
    BY <1>7, <1>8, <2>1
  <2> QED BY <2>3, <2>4
<1>15. ASSUME NEW i \in 1 .. Len(b), K(b[i]) \in named \cup {k}, NEW f \in Fields
       PROVE  b[i][f] = Latest(list, records, n + 1, key, K(b[i]), f)
  <2>1. i \in 1 .. Len(a)
    BY <1>6
  <2>2. CASE K(a[i]) # k
    <3>1. b[i] = a[i] /\ K(b[i]) = K(a[i]) /\ K(a[i]) \in named
      BY <1>8, <1>15, <2>1, <2>2
    <3>2. Latest(list, records, n + 1, key, K(a[i]), f) = Latest(list, records, n, key, K(a[i]), f)
      BY <1>1, <2>2, LatestNext DEF k, K, record
    <3> QED BY <1>10, <2>1, <3>1, <3>2
  <2>3. CASE K(a[i]) = k
    <3>1. K(b[i]) = k /\ b[i] = Store!Merge(a[i], record)
      BY <1>8, <2>1, <2>3
    <3>2. b[i][f] = IF f \in DOMAIN record THEN record[f] ELSE a[i][f]
      BY <3>1 DEF Store!Merge
    <3>3. a[i][f] = Latest(list, records, n, key, k, f)
      BY <1>3, <2>1, <2>3, RowBefore DEF k, K, record
    <3>4. CASE f \in DOMAIN record
      BY <1>1, <3>1, <3>2, <3>4, LatestNext DEF k, K, record
    <3>5. CASE f \notin DOMAIN record
      BY <1>1, <3>1, <3>2, <3>3, <3>5, LatestNext DEF k, K, record
    <3> QED BY <3>4, <3>5
  <2> QED BY <2>2, <2>3
<1>16. Merged(list, records, key, n + 1, b)
  <2>1. Len(list) =< Len(b)
    BY <1>1, <1>6
  <2> QED BY <1>3, <1>5, <1>11, <1>12, <1>13, <1>14, <1>15, <2>1 DEF Merged, K
<1> QED BY <1>16 DEF b, record

\* The next record is of a new key.
LEMMA MergedInsert ==
    ASSUME NEW list, NEW records, NEW key, Upsertable(list, records, key),
           NEW n \in 0 .. Len(records) - 1, NEW a, Merged(list, records, key, n, a),
           ~ \E i \in DOMAIN a : Store!Matches(a[i], records[n + 1], key)
    PROVE  Merged(list, records, key, n + 1, Store!UpsertOne(a, records[n + 1], key))
<1> DEFINE record == records[n + 1]
           K(row) == Store!KeyOf(row, key)
           k == K(record)
           b == Store!UpsertOne(a, record, key)
           new == Store!RowOf(record)
           named == NamedBy(records, n, key)
<1>1. /\ n \in Nat /\ n + 1 \in 1 .. Len(records)
      /\ record \in Store!PartialRows /\ key \subseteq DOMAIN record /\ key \in SUBSET Fields
      /\ a \in Seq(Store!Rows) /\ list \in Seq(Store!Rows) /\ Len(list) =< Len(a)
  BY DEF Upsertable, Merged
<1>2. /\ DOMAIN a = 1 .. Len(a) /\ Len(a) \in Nat /\ Len(list) \in Nat
      /\ \A i \in 1 .. Len(a) : a[i] \in Store!Rows
  BY <1>1
<1>3. NamedBy(records, n + 1, key) =
        named \cup (IF Store!HasNull(record, key) THEN {} ELSE {k})
  BY <1>1, NamedNext
<1> HIDE DEF record
<1>4. b = Append(a, new)
  BY DEF Store!UpsertOne, record
<1>5. new \in Store!Rows /\ \A f \in Fields : new[f] = IF f \in DOMAIN record THEN record[f] ELSE None
  BY <1>1, RowsFromRecords DEF Store!RowOf
<1>6. /\ \A row \in Store!Rows :
           Store!Matches(row, record, key) <=> ~ Store!HasNull(record, key) /\ K(row) = k
      /\ K(new) = k
      /\ \A x : K(x) = k => (Store!HasNull(x, key) <=> Store!HasNull(record, key))
  <2>1. \A row \in Store!Rows :
          /\ Store!Matches(row, record, key) <=> ~ Store!HasNull(record, key) /\ K(row) = k
          /\ K(new) = k
          /\ \A x : K(x) = k => (Store!HasNull(x, key) <=> Store!HasNull(record, key))
    BY <1>1, KeysOf
  <2> QED BY <1>5, <2>1
<1> HIDE DEF b, new, K, k, named
<1>7. /\ b \in Seq(Store!Rows) /\ Len(b) = Len(a) + 1 /\ b[Len(b)] = new
      /\ \A i \in 1 .. Len(a) : b[i] = a[i]
      /\ \A i \in 1 .. Len(b) : i \in 1 .. Len(a) \/ i = Len(b)
  BY <1>1, <1>2, <1>4, <1>5
<1>8. /\ K(b[Len(b)]) = k
      /\ \A i \in 1 .. Len(a) : K(b[i]) = K(a[i]) /\ (K(a[i]) # k \/ Store!HasNull(record, key))
  BY <1>2, <1>5, <1>6, <1>7 DEF record
<1>9. /\ \A i \in 1 .. Len(list) : K(a[i]) = K(list[i]) /\ (K(a[i]) \notin named => a[i] = list[i])
      /\ \A i \in Len(list) + 1 .. Len(a) : K(a[i]) \in named \/ Store!HasNull(a[i], key)
      /\ \A l \in named : \E i \in 1 .. Len(a) : K(a[i]) = l
      /\ \A i \in 1 .. Len(a), j \in Len(list) + 1 .. Len(a) :
           K(a[i]) = K(a[j]) => i = j \/ Store!HasNull(a[i], key)
      /\ \A i \in 1 .. Len(a) : K(a[i]) \in named =>
           \A f \in Fields : a[i][f] = Latest(list, records, n, key, K(a[i]), f)
  BY DEF Merged, K, named
<1> DEFINE more == IF Store!HasNull(record, key) THEN {} ELSE {k}
<1>10. k \notin named
  <2>1. CASE Store!HasNull(record, key)
    <3>1. \A i \in 1 .. n : i \in 1 .. Len(records)
      BY <1>1
    <3>2. \A i \in 1 .. n : K(records[i]) = k => Store!HasNull(records[i], key)
      BY <1>6, <2>1
    <3> QED BY <3>2 DEF named, NamedBy, K
  <2>2. CASE ~ Store!HasNull(record, key)
    BY <1>8, <1>9, <2>2
  <2> QED BY <2>1, <2>2
<1> HIDE DEF more
<1>11. \A i \in 1 .. Len(list) :
         K(b[i]) = K(list[i]) /\ (K(b[i]) \notin named \cup more => b[i] = list[i])
  <2>1. \A i \in 1 .. Len(list) : i \in 1 .. Len(a)
    BY <1>1, <1>2
  <2> QED BY <1>7, <1>8, <1>9, <2>1
<1>12. \A i \in Len(list) + 1 .. Len(b) : K(b[i]) \in named \cup more \/ Store!HasNull(b[i], key)
  <2> SUFFICES ASSUME NEW i \in Len(list) + 1 .. Len(b)
               PROVE  K(b[i]) \in named \cup more \/ Store!HasNull(b[i], key)
    OBVIOUS
  <2>1. i = Len(b) \/ i \in Len(list) + 1 .. Len(a)
    BY <1>2, <1>7
  <2>2. i \in Len(list) + 1 .. Len(a) => i \in 1 .. Len(a)
    BY <1>2
  <2>3. CASE i = Len(b)
    <3>1. K(b[i]) = k
      BY <1>8, <2>3
    <3> QED BY <1>6, <3>1 DEF more
  <2>4. CASE i \in Len(list) + 1 .. Len(a)
    <3>1. b[i] = a[i]
      BY <1>7, <2>2, <2>4
    <3> QED BY <1>9, <2>4, <3>1
  <2> QED BY <2>1, <2>3, <2>4
<1>13. \A l \in named \cup more : \E i \in 1 .. Len(b) : K(b[i]) = l
  <2>1. Len(b) \in 1 .. Len(b) /\ \A i \in 1 .. Len(a) : i \in 1 .. Len(b)
    BY <1>2, <1>7
  <2>2. \A l \in more : l = k
    BY DEF more
  <2> QED BY <1>8, <1>9, <2>1, <2>2
<1>14. \A i \in 1 .. Len(b), j \in Len(list) + 1 .. Len(b) :
         K(b[i]) = K(b[j]) => i = j \/ Store!HasNull(b[i], key)
  <2> SUFFICES ASSUME NEW i \in 1 .. Len(b), NEW j \in Len(list) + 1 .. Len(b), K(b[i]) = K(b[j])
               PROVE  i = j \/ Store!HasNull(b[i], key)
    OBVIOUS
  <2>1. j = Len(b) \/ (j \in Len(list) + 1 .. Len(a) /\ j \in 1 .. Len(a))
    BY <1>2, <1>7
  <2>2. i = Len(b) \/ i \in 1 .. Len(a)
    BY <1>7
  <2>3. CASE K(b[i]) = k
    <3>1. CASE Store!HasNull(record, key)
      BY <1>6, <2>3, <3>1
    <3>2. CASE ~ Store!HasNull(record, key)
      <4>1. \A m \in 1 .. Len(a) : K(b[m]) # k
        BY <1>8, <3>2
      <4> QED BY <2>1, <2>2, <2>3, <4>1
    <3> QED BY <3>1, <3>2
  <2>4. CASE K(b[i]) # k
    <3>1. i \in 1 .. Len(a) /\ j \in Len(list) + 1 .. Len(a) /\ j \in 1 .. Len(a)
      BY <1>8, <2>1, <2>2, <2>4
    <3>2. b[i] = a[i] /\ b[j] = a[j]
      BY <1>7, <3>1
    <3> QED BY <1>9, <3>1, <3>2
  <2> QED BY <2>3, <2>4
<1>15. ASSUME NEW i \in 1 .. Len(b), K(b[i]) \in named \cup more, NEW f \in Fields
       PROVE  b[i][f] = Latest(list, records, n + 1, key, K(b[i]), f)
  <2>1. CASE i \in 1 .. Len(a)
    <3>1. b[i] = a[i] /\ K(b[i]) = K(a[i]) /\ K(a[i]) \in named /\ K(a[i]) # k
      <4>1. b[i] = a[i] /\ K(b[i]) = K(a[i])
        BY <1>7, <1>8, <2>1
      <4>2. K(a[i]) \in named
        BY <1>8, <1>15, <2>1, <4>1 DEF more
      <4> QED BY <1>10, <4>1, <4>2
    <3>2. Latest(list, records, n + 1, key, K(a[i]), f) = Latest(list, records, n, key, K(a[i]), f)
      BY <1>1, <3>1, LatestNext DEF k, K, record
    <3> QED BY <1>9, <2>1, <3>1, <3>2
  <2>2. CASE i = Len(b)
    <3>1. K(b[i]) = k /\ b[i][f] = IF f \in DOMAIN record THEN record[f] ELSE None
      BY <1>5, <1>7, <1>8, <2>2
    <3>0. ~ Store!HasNull(record, key)
      BY <1>10, <1>15, <3>1 DEF more
    <3>2. CASE f \in DOMAIN record
      BY <1>1, <3>1, <3>2, LatestNext DEF k, K, record
    <3>3. CASE f \notin DOMAIN record
      <4>1. Latest(list, records, n + 1, key, k, f) = Latest(list, records, n, key, k, f)
        BY <1>1, <3>3, LatestNext DEF k, K, record
      <4>2. Setting(records, n, key, k, f) = {}
        <5>1. \A j : K(records[j]) = k => ~ Store!HasNull(records[j], key)
          BY <1>6, <3>0
        <5> QED BY <1>10, <5>1 DEF Setting, NamedBy, named, K
      <4>3. Before(list, key, k, f) = {}
        <5>1. \A j \in DOMAIN list : K(list[j]) # k
          <6>1. DOMAIN list = 1 .. Len(list) /\ \A j \in 1 .. Len(list) : j \in 1 .. Len(a)
            BY <1>1, <1>2
          <6> QED BY <1>8, <1>9, <3>0, <6>1
        <5> QED BY <5>1 DEF Before, K
      <4>4. Latest(list, records, n, key, k, f) = None
        BY <4>2, <4>3 DEF Latest
      <4> QED BY <3>1, <3>3, <4>1, <4>4
    <3> QED BY <3>2, <3>3
  <2> QED BY <1>7, <2>1, <2>2
<1>16. Merged(list, records, key, n + 1, b)
  <2>1. Len(list) =< Len(b)
    BY <1>1, <1>2, <1>7
  <2> QED BY <1>3, <1>7, <1>11, <1>12, <1>13, <1>14, <1>15, <2>1 DEF Merged, K, more
<1> QED BY <1>16 DEF b, record

LEMMA UpsertsMerge ==
    ASSUME NEW list, NEW records, NEW key, Upsertable(list, records, key)
    PROVE  Merged(list, records, key, Len(records), Store!Upserts(list, records, key))
<1> DEFINE N == Len(records)
           a == After(list, records, key)
           T == {n \in 0 .. N : Merged(list, records, key, n, a[n])}
<1>1. /\ list \in Seq(Store!Rows) /\ records \in Seq(Store!PartialRows)
      /\ N \in Nat
  BY DEF Upsertable
<1>2. a[0] = list /\ \A n \in 0 .. N - 1 : a[n + 1] = Store!UpsertOne(a[n], records[n + 1], key)
  BY <1>1, AfterSteps
<1> HIDE DEF a
<1>3. T = 0 .. N
  <2>1. 0 \in T
    BY <1>1, <1>2, MergedFirst
  <2>2. ASSUME NEW n \in 0 .. N - 1, n \in T PROVE n + 1 \in T
    <3>1. n + 1 \in 0 .. N /\ Merged(list, records, key, n, a[n])
      BY <1>1, <2>2
    <3>2. Merged(list, records, key, n + 1, Store!UpsertOne(a[n], records[n + 1], key))
      BY <3>1, MergedUpdate, MergedInsert
    <3> QED BY <1>2, <3>1, <3>2
  <2>3. T \in SUBSET (0 .. N)
    OBVIOUS
  <2> HIDE DEF T, N
  <2> QED BY <1>1, <2>1, <2>2, <2>3, StepByStep
<1>4. Merged(list, records, key, N, a[N])
  BY <1>1, <1>3
<1> QED BY <1>4, UpsertsIs DEF a

\* The rows at these places of two lists that agree there, and with a place more, after them.
LEMMA RowsAgree ==
    ASSUME NEW S, NEW list \in Seq(S), NEW I \in SUBSET (DOMAIN list), NEW other,
           \A i \in I : other[i] = list[i]
    PROVE  Store!RowsAt(other, I) = Store!RowsAt(list, I)
<1>1. I \in SUBSET Nat /\ IsFiniteSet(I)
  BY PlacesFinite
<1>2. PICK e \in Enumerations(I) : \A x :
        Store!RowsAt(x, I) = [n \in 1 .. Cardinality(I) |-> x[e[n]]]
  BY <1>1, RowsAtPlaces
<1>3. \A n \in 1 .. Cardinality(I) : other[e[n]] = list[e[n]]
  BY DEF Enumerations
<1> QED BY <1>2, <1>3

LEMMA RowsGrow ==
    ASSUME NEW S, NEW list \in Seq(S), NEW I \in SUBSET (DOMAIN list), NEW m \in DOMAIN list,
           \A i \in I : i < m
    PROVE  Store!RowsAt(list, I \cup {m}) = Append(Store!RowsAt(list, I), list[m])
<1> DEFINE J == I \cup {m}
           N == Cardinality(I)
           inI(i) == {j \in I : j < i}
           inJ(i) == {j \in J : j < i}
           atI(n) == CHOOSE i \in I : Store!Cardinality(inI(i)) = n - 1
           atJ(n) == CHOOSE i \in J : Store!Cardinality(inJ(i)) = n - 1
           short == Store!RowsAt(list, I)
           long == Store!RowsAt(list, J)
<1>1. I \in SUBSET Nat /\ IsFiniteSet(I) /\ m \in Nat /\ m \notin I
  <2>1. DOMAIN list \subseteq Nat
    OBVIOUS
  <2>2. \A i \in I : i \in Nat
    BY <2>1
  <2> QED BY <2>1, <2>2, PlacesFinite
<1>2. N \in Nat /\ Cardinality(J) = N + 1
  BY <1>1, FS_CardinalityType, FS_AddElement
<1>3. \A T : Store!Cardinality(T) = Cardinality(T)
  BY DEF Store!Cardinality, Cardinality
<1>4. inJ(m) = I /\ \A i \in I : inJ(i) = inI(i)
  BY <1>1
<1>5. \A i \in I : Cardinality(inI(i)) \in Nat /\ Cardinality(inI(i)) < N
  <2> SUFFICES ASSUME NEW i \in I PROVE Cardinality(inI(i)) \in Nat /\ Cardinality(inI(i)) < N
    OBVIOUS
  <2>1. inI(i) \subseteq I /\ i \notin inI(i)
    BY <1>1
  <2> HIDE DEF inI
  <2>2. inI(i) # I
    BY <2>1
  <2> QED BY <1>1, <2>1, <2>2, FS_Subset, FS_CardinalityType
<1>6. \A n \in 1 .. N : \A i : i \in J /\ Store!Cardinality(inJ(i)) = n - 1
                               <=> i \in I /\ Store!Cardinality(inI(i)) = n - 1
  <2> HIDE DEF inI, inJ
  <2> QED BY <1>2, <1>3, <1>4
<1>7. \A i : i \in J /\ Store!Cardinality(inJ(i)) = (N + 1) - 1 <=> i = m
  <2> HIDE DEF inI, inJ
  <2> QED BY <1>2, <1>3, <1>4, <1>5
<1>8. /\ long = [n \in 1 .. N + 1 |-> list[atJ(n)]]
      /\ short = [n \in 1 .. N |-> list[atI(n)]]
  BY <1>2, <1>3 DEF Store!RowsAt
<1>9. short \in Seq(S) /\ Len(short) = N /\ list[m] \in S
  BY RowsAtFit
<1> HIDE DEF inI, inJ, J, N, short, long
<1>10. \A n \in 1 .. N : atJ(n) = atI(n)
  BY <1>6, Zenon
<1>11. atJ(N + 1) = m
  BY <1>7
<1> HIDE DEF atI, atJ
<1>12. long[N + 1] = list[m] /\ \A n \in 1 .. N : long[n] = short[n]
  <2>1. N + 1 \in 1 .. N + 1 /\ \A n \in 1 .. N : n \in 1 .. N + 1
    BY <1>2
  <2> QED BY <1>8, <1>10, <1>11, <2>1
<1>13. long = Append(short, list[m])
  <2> DEFINE more == Append(short, list[m])
  <2>1. more \in Seq(S) /\ Len(more) = N + 1 /\ more[N + 1] = list[m]
        /\ \A n \in 1 .. N : more[n] = short[n]
    BY <1>2, <1>9
  <2> HIDE DEF more
  <2>2. more = [n \in 1 .. N + 1 |-> more[n]]
    BY <2>1
  <2>3. \A n \in 1 .. N + 1 : n = N + 1 \/ n \in 1 .. N
    BY <1>2
  <2>4. \A n \in 1 .. N + 1 : long[n] = more[n]
    BY <1>12, <2>1, <2>3
  <2>5. long = [n \in 1 .. N + 1 |-> long[n]]
    BY <1>8
  <2> QED BY <2>2, <2>4, <2>5 DEF more
<1> QED BY <1>13 DEF short, long, J

\* The rows whose key is not among these.
OtherRows(a, named, key) == Store!RowsAt(a, {i \in DOMAIN a : Store!KeyOf(a[i], key) \notin named})

\* A record with a key that is named leaves the other rows, one with a null adds a row to them.
LEMMA OthersNext ==
    ASSUME NEW a \in Seq(Store!Rows), NEW record \in Store!PartialRows,
           NEW key \in SUBSET Fields, key \subseteq DOMAIN record, NEW named,
           Store!HasNull(record, key) <=> Store!KeyOf(record, key) \notin named
    PROVE  OtherRows(Store!UpsertOne(a, record, key), named, key) =
             IF Store!HasNull(record, key) THEN Append(OtherRows(a, named, key), Store!RowOf(record))
             ELSE OtherRows(a, named, key)
<1> DEFINE b == Store!UpsertOne(a, record, key)
           K(row) == Store!KeyOf(row, key)
           new == Store!RowOf(record)
           I == {i \in DOMAIN a : K(a[i]) \notin named}
           J == {i \in DOMAIN b : K(b[i]) \notin named}
<1>1. /\ DOMAIN a = 1 .. Len(a) /\ Len(a) \in Nat
      /\ \A i \in 1 .. Len(a) : a[i] \in Store!Rows
  OBVIOUS
<1>2. b \in Seq(Store!Rows) /\ new \in Store!Rows /\ K(new) = K(record)
  BY UpsertOneFits, RowsFromRecords, KeysOf
<1>3. \A row \in Store!Rows :
        /\ Store!Matches(row, record, key) <=> ~ Store!HasNull(record, key) /\ K(row) = K(record)
        /\ K(Store!Merge(row, record)) = K(record)
  BY KeysOf
<1>4. CASE \E i \in DOMAIN a : Store!Matches(a[i], record, key)
  <2>1. b = [i \in DOMAIN a |-> IF Store!Matches(a[i], record, key)
                                THEN Store!Merge(a[i], record) ELSE a[i]]
    BY <1>4 DEF Store!UpsertOne
  <2>2. ~ Store!HasNull(record, key) /\ K(record) \in named
    BY <1>1, <1>3, <1>4
  <2> HIDE DEF b, K
  <2>3. \A i \in DOMAIN a : K(b[i]) = K(a[i]) /\ (K(a[i]) \notin named => b[i] = a[i])
    BY <1>1, <1>3, <2>1, <2>2
  <2>4. J = I /\ \A i \in I : b[i] = a[i]
    BY <2>1, <2>3
  <2> HIDE DEF I, J
  <2>5. I \in SUBSET (DOMAIN a)
    BY DEF I
  <2>6. Store!RowsAt(b, I) = Store!RowsAt(a, I)
    BY <2>4, <2>5, RowsAgree
  <2> QED BY <2>2, <2>4, <2>6 DEF OtherRows, I, J, K, b
<1>5. CASE ~ \E i \in DOMAIN a : Store!Matches(a[i], record, key)
  <2>1. b = Append(a, new)
    BY <1>5 DEF Store!UpsertOne
  <2> HIDE DEF b, K, new
  <2>2. /\ DOMAIN b = 1 .. Len(a) + 1 /\ b[Len(a) + 1] = new
        /\ \A i \in 1 .. Len(a) : b[i] = a[i]
    BY <1>1, <1>2, <2>1
  <2>3. \A i : i \in 1 .. Len(a) + 1 <=> i \in 1 .. Len(a) \/ i = Len(a) + 1
    BY <1>1
  <2>4. I \in SUBSET (DOMAIN b) /\ I \in SUBSET (DOMAIN a) /\ \A i \in I : b[i] = a[i]
    BY <1>1, <2>2, <2>3
  <2>5. Store!RowsAt(b, I) = Store!RowsAt(a, I)
    <3> HIDE DEF I
    <3> QED BY <2>4, RowsAgree
  <2>6. CASE Store!HasNull(record, key)
    <3>1. J = I \cup {Len(a) + 1}
      BY <1>1, <1>2, <2>2, <2>3, <2>6 DEF K
    <3>2. Len(a) + 1 \in DOMAIN b /\ \A i \in I : i < Len(a) + 1
      BY <1>1, <2>2, <2>3
    <3> HIDE DEF I, J
    <3>3. Store!RowsAt(b, J) = Append(Store!RowsAt(b, I), b[Len(a) + 1])
      BY <1>2, <2>4, <3>1, <3>2, RowsGrow
    <3> QED BY <2>2, <2>5, <2>6, <3>3 DEF OtherRows, I, J, K, b, new
  <2>7. CASE ~ Store!HasNull(record, key)
    <3>1. J = I
      BY <1>1, <1>2, <2>2, <2>3, <2>7 DEF K
    <3> HIDE DEF I, J
    <3> QED BY <2>5, <2>7, <3>1 DEF OtherRows, I, J, K, b
  <2> QED BY <2>6, <2>7
<1> QED BY <1>4, <1>5

\* The rows of the records with a null in their key.
NullRows(records, n, key) ==
    Store!RowsAt([i \in DOMAIN records |-> Store!RowOf(records[i])],
                 {i \in 1 .. n : Store!HasNull(records[i], key)})

LEMMA NullRowsNext ==
    ASSUME NEW records \in Seq(Store!PartialRows), NEW key, NEW n \in 0 .. Len(records) - 1
    PROVE  /\ NullRows(records, n, key) \in Seq(Store!Rows)
           /\ NullRows(records, n + 1, key) =
                IF Store!HasNull(records[n + 1], key)
                THEN Append(NullRows(records, n, key), Store!RowOf(records[n + 1]))
                ELSE NullRows(records, n, key)
<1> DEFINE news == [i \in DOMAIN records |-> Store!RowOf(records[i])]
           I == {i \in 1 .. n : Store!HasNull(records[i], key)}
           J == {i \in 1 .. n + 1 : Store!HasNull(records[i], key)}
<1>1. DOMAIN records = 1 .. Len(records) /\ n \in Nat /\ n + 1 \in 1 .. Len(records)
  OBVIOUS
<1>2. news \in Seq(Store!Rows) /\ DOMAIN news = 1 .. Len(records)
      /\ news[n + 1] = Store!RowOf(records[n + 1])
  <2>1. \A i \in 1 .. Len(records) : Store!RowOf(records[i]) \in Store!Rows
    BY RowsFromRecords
  <2>2. news \in [1 .. Len(records) -> Store!Rows]
    BY <1>1, <2>1
  <2> QED BY <1>1, <2>2
<1> HIDE DEF news
<1>3. \A i : i \in 1 .. n + 1 <=> i \in 1 .. n \/ i = n + 1
  BY <1>1
<1>4. I \in SUBSET (DOMAIN news) /\ n + 1 \in DOMAIN news /\ \A i \in I : i < n + 1
  BY <1>1, <1>2, <1>3
<1>5. J = IF Store!HasNull(records[n + 1], key) THEN I \cup {n + 1} ELSE I
  BY <1>3
<1> HIDE DEF I, J
<1>6. Store!RowsAt(news, I) \in Seq(Store!Rows)
  BY <1>2, <1>4, RowsAtFit
<1>7. Store!RowsAt(news, I \cup {n + 1}) = Append(Store!RowsAt(news, I), news[n + 1])
  BY <1>2, <1>4, RowsGrow
<1> QED BY <1>2, <1>5, <1>6, <1>7 DEF NullRows, I, J, news

\* An upsert keeps the rows with other keys, and adds those with a null.
LEMMA OthersAfter ==
    ASSUME NEW list, NEW records, NEW key, Upsertable(list, records, key)
    PROVE  LET named == NamedBy(records, Len(records), key)
           IN  OtherRows(Store!Upserts(list, records, key), named, key) =
                 OtherRows(list, named, key) \o NullRows(records, Len(records), key)
<1> DEFINE N == Len(records)
           a == After(list, records, key)
           named == NamedBy(records, N, key)
           others(x) == OtherRows(x, named, key)
           nulls(n) == NullRows(records, n, key)
           T == {n \in 0 .. N : a[n] \in Seq(Store!Rows) /\ others(a[n]) = others(list) \o nulls(n)}
<1>1. /\ list \in Seq(Store!Rows) /\ records \in Seq(Store!PartialRows) /\ N \in Nat
      /\ key \in SUBSET Fields /\ \A i \in 1 .. N : key \subseteq DOMAIN records[i]
      /\ \A i \in 1 .. N : records[i] \in Store!PartialRows
  BY DEF Upsertable
<1>2. a[0] = list /\ \A n \in 0 .. N - 1 : a[n + 1] = Store!UpsertOne(a[n], records[n + 1], key)
  BY <1>1, AfterSteps
<1>3. \A i \in 1 .. N : Store!HasNull(records[i], key) <=> Store!KeyOf(records[i], key) \notin named
  <2> SUFFICES ASSUME NEW i \in 1 .. N
               PROVE  Store!HasNull(records[i], key) <=> Store!KeyOf(records[i], key) \notin named
    OBVIOUS
  <2>1. \A j \in 1 .. N : Store!KeyOf(records[j], key) = Store!KeyOf(records[i], key) =>
          (Store!HasNull(records[j], key) <=> Store!HasNull(records[i], key))
    BY <1>1, KeysOf, RowsFromRecords
  <2> HIDE DEF N
  <2> QED BY <2>1 DEF NamedBy
<1>4. others(list) \in Seq(Store!Rows)
  <2> DEFINE I == {i \in DOMAIN list : Store!KeyOf(list[i], key) \notin named}
  <2>1. I \in SUBSET (DOMAIN list)
    OBVIOUS
  <2> HIDE DEF I, named
  <2>2. Store!RowsAt(list, I) \in Seq(Store!Rows)
    BY <1>1, <2>1, RowsAtFit
  <2> QED BY <2>2 DEF OtherRows, I
<1> HIDE DEF a, named
<1>5. 0 \in T
  <2>1. nulls(0) = <<>>
    <3>1. {i \in 1 .. 0 : Store!HasNull(records[i], key)} = {}
      OBVIOUS
    <3>2. Store!Cardinality({}) = 0
      BY FS_EmptySet DEF Store!Cardinality, Cardinality
    <3>3. Store!RowsAt([i \in DOMAIN records |-> Store!RowOf(records[i])], {}) = <<>>
      BY <3>2 DEF Store!RowsAt
    <3> QED BY <3>1, <3>3 DEF NullRows
  <2> HIDE DEF others, nulls
  <2>2. others(list) \o nulls(0) = others(list)
    BY <1>4, <2>1
  <2> QED BY <1>1, <1>2, <2>2
<1>6. ASSUME NEW n \in 0 .. N - 1, n \in T PROVE n + 1 \in T
  <2> DEFINE record == records[n + 1]
  <2>1. n + 1 \in 1 .. N /\ n + 1 \in 0 .. N
    BY <1>1
  <2>2. /\ record \in Store!PartialRows /\ key \subseteq DOMAIN record
        /\ Store!HasNull(record, key) <=> Store!KeyOf(record, key) \notin named
    BY <1>1, <1>3, <2>1
  <2>3. a[n] \in Seq(Store!Rows) /\ others(a[n]) = others(list) \o nulls(n)
    BY <1>6
  <2>4. a[n + 1] = Store!UpsertOne(a[n], record, key)
    BY <1>2
  <2>5. /\ nulls(n) \in Seq(Store!Rows)
        /\ nulls(n + 1) = IF Store!HasNull(record, key) THEN Append(nulls(n), Store!RowOf(record))
                          ELSE nulls(n)
    BY <1>1, NullRowsNext
  <2> HIDE DEF record
  <2>6. a[n + 1] \in Seq(Store!Rows)
    BY <2>2, <2>3, <2>4, UpsertOneFits
  <2>7. others(a[n + 1]) = IF Store!HasNull(record, key) THEN Append(others(a[n]), Store!RowOf(record))
                           ELSE others(a[n])
    <3> DEFINE x == a[n]
    <3>1. x \in Seq(Store!Rows) /\ key \in SUBSET Fields
      BY <1>1, <2>3
    <3> HIDE DEF x
    <3>2. OtherRows(Store!UpsertOne(x, record, key), named, key) =
            IF Store!HasNull(record, key)
            THEN Append(OtherRows(x, named, key), Store!RowOf(record))
            ELSE OtherRows(x, named, key)
      BY <2>2, <3>1, OthersNext
    <3> QED BY <2>4, <3>2 DEF x
  <2>8. Store!RowOf(record) \in Store!Rows
    BY <2>2, RowsFromRecords
  <2> HIDE DEF others, nulls
  <2>9. others(a[n + 1]) = others(list) \o nulls(n + 1)
    <3>1. CASE Store!HasNull(record, key)
      <4>1. Append(others(list) \o nulls(n), Store!RowOf(record)) =
              others(list) \o Append(nulls(n), Store!RowOf(record))
        BY <1>4, <2>5, <2>8
      <4> QED BY <2>3, <2>5, <2>7, <3>1, <4>1
    <3>2. CASE ~ Store!HasNull(record, key)
      BY <2>3, <2>5, <2>7, <3>2
    <3> QED BY <3>1, <3>2
  <2> QED BY <2>1, <2>6, <2>9
<1>7. T = 0 .. N
  <2>1. T \in SUBSET (0 .. N)
    OBVIOUS
  <2> HIDE DEF T, N
  <2> QED BY <1>1, <1>5, <1>6, <2>1, StepByStep
<1>8. others(a[N]) = others(list) \o nulls(N)
  <2>1. N \in T
    BY <1>1, <1>7
  <2> HIDE DEF others, nulls, N
  <2> QED BY <2>1
<1> QED BY <1>8, UpsertsIs DEF a, named

\* The rows of each table are rows, no more than the bound, and unique in the columns of the
\* key; what a request brings is a list of records.
RowsFit ==
    \A r \in Store!Tables :
      /\ table[r].rows \in Seq(Store!Rows) /\ Len(table[r].rows) =< MaxRows
      /\ table[r].key \in SUBSET Fields
      /\ Store!Unique(table[r].rows, table[r].key)

BringsFit ==
    \A w \in Workers :
      storePc[w] = "run" /\ storeReq[w].op \in {"insert", "upsert", "update"} =>
        storeReq[w].records \in Seq(Store!PartialRows)

TableFits(t) ==
    /\ t.rows \in Seq(Store!Rows) /\ Len(t.rows) =< MaxRows
    /\ t.key \in SUBSET Fields /\ Store!Unique(t.rows, t.key)

LEMMA UniqueUpsertable ==
    ASSUME NEW list \in Seq(Store!Rows), NEW records \in Seq(Store!PartialRows),
           NEW key \in SUBSET Fields, key # {}, Store!Unique(list, key),
           \A i \in DOMAIN records : key \subseteq DOMAIN records[i]
    PROVE  Upsertable(list, records, key)
<1>1. DOMAIN list = 1 .. Len(list) /\ DOMAIN records = 1 .. Len(records)
  OBVIOUS
<1> QED BY <1>1 DEF Upsertable, Store!Unique

\* The keys of the rows are still unique.
LEMMA UpsertsUnique ==
    ASSUME NEW list \in Seq(Store!Rows), NEW records \in Seq(Store!PartialRows),
           NEW key \in SUBSET Fields, key # {}, Store!Unique(list, key),
           \A i \in DOMAIN records : key \subseteq DOMAIN records[i]
    PROVE  /\ Store!Upserts(list, records, key) \in Seq(Store!Rows)
           /\ Store!Unique(Store!Upserts(list, records, key), key)
<1> DEFINE a == Store!Upserts(list, records, key)
           K(row) == Store!KeyOf(row, key)
<1>1. Merged(list, records, key, Len(records), a)
  BY UniqueUpsertable, UpsertsMerge
<1> HIDE DEF a
<1>2. /\ a \in Seq(Store!Rows) /\ Len(list) =< Len(a) /\ Len(a) \in Nat /\ Len(list) \in Nat
      /\ DOMAIN a = 1 .. Len(a) /\ DOMAIN list = 1 .. Len(list)
  BY <1>1 DEF Merged
<1>3. /\ \A i \in 1 .. Len(list) : K(a[i]) = K(list[i])
      /\ \A i \in 1 .. Len(a), j \in Len(list) + 1 .. Len(a) :
           K(a[i]) = K(a[j]) => i = j \/ Store!HasNull(a[i], key)
  BY <1>1 DEF Merged
<1>4. ASSUME NEW i \in 1 .. Len(a), NEW j \in 1 .. Len(a), i # j, K(a[i]) = K(a[j])
      PROVE  \E f \in key : a[i][f] = None
  <2> SUFFICES ASSUME ~ Store!HasNull(a[i], key) PROVE \E f \in key : a[i][f] = None
    BY DEF Store!HasNull
  <2>0. ~ Store!HasNull(a[j], key)
    <3>1. \A f \in key : K(a[i])[f] = a[i][f] /\ K(a[j])[f] = a[j][f]
      BY DEF Store!KeyOf
    <3> HIDE DEF K
    <3> QED BY <1>4, <3>1 DEF Store!HasNull
  <2>1. i \in 1 .. Len(list) /\ j \in 1 .. Len(list)
    <3>1. i \in 1 .. Len(list) \/ i \in Len(list) + 1 .. Len(a)
      BY <1>2
    <3>2. j \in 1 .. Len(list) \/ j \in Len(list) + 1 .. Len(a)
      BY <1>2
    <3> QED BY <1>3, <1>4, <2>0, <3>1, <3>2
  <2>2. K(list[i]) = K(list[j])
    BY <1>3, <1>4, <2>1
  <2>3. PICK f \in key : list[i][f] = None
    BY <1>2, <1>4, <2>1, <2>2 DEF Store!Unique
  <2>4. K(a[i])[f] = a[i][f] /\ K(list[i])[f] = list[i][f]
    BY DEF Store!KeyOf
  <2> QED BY <1>3, <2>1, <2>3, <2>4
<1> HIDE DEF K
<1>5. Store!Unique(a, key)
  BY <1>2, <1>4 DEF Store!Unique, K
<1> QED BY <1>2, <1>5 DEF a

\* An upsert leaves one row for every key it names, with what the records say and otherwise
\* what the row said before, the rows with other keys as they are, and a row more for each
\* record with a null in its key.
LEMMA UpsertsAsSaid ==
    ASSUME NEW list \in Seq(Store!Rows), NEW records \in Seq(Store!PartialRows),
           NEW key \in SUBSET Fields, key # {}, Store!Unique(list, key),
           \A i \in DOMAIN records : key \subseteq DOMAIN records[i]
    PROVE  LET a == Store!Upserts(list, records, key)
               nulls == {i \in DOMAIN records : Store!HasNull(records[i], key)}
               named == {Store!KeyOf(records[i], key) : i \in DOMAIN records \ nulls}
               others(x) == {i \in DOMAIN x : Store!KeyOf(x[i], key) \notin named}
           IN  /\ Store!RowsAt(a, others(a)) =
                    Store!RowsAt(list, others(list)) \o
                      Store!RowsAt([i \in DOMAIN records |-> Store!RowOf(records[i])], nulls)
               /\ \A k \in named : \E i \in DOMAIN a :
                    /\ a[i] = [f \in Fields |-> Store!Upserted(list, records, key, k, f)]
                    /\ \A j \in DOMAIN a : Store!KeyOf(a[j], key) = k => j = i
<1> DEFINE a == Store!Upserts(list, records, key)
           N == Len(records)
           K(row) == Store!KeyOf(row, key)
           nulls == {i \in DOMAIN records : Store!HasNull(records[i], key)}
           named == {K(records[i]) : i \in DOMAIN records \ nulls}
           others(x) == {i \in DOMAIN x : K(x[i]) \notin named}
<1>1. /\ DOMAIN records = 1 .. N /\ N \in Nat /\ DOMAIN list = 1 .. Len(list) /\ Len(list) \in Nat
      /\ \A i \in 1 .. Len(list) : list[i] \in Store!Rows
      /\ \A i \in 1 .. N : records[i] \in Store!PartialRows
  OBVIOUS
<1>2. Upsertable(list, records, key) /\ Merged(list, records, key, N, a)
  BY UniqueUpsertable, UpsertsMerge
<1>3. named = NamedBy(records, N, key) /\ nulls = {i \in 1 .. N : Store!HasNull(records[i], key)}
  BY <1>1 DEF NamedBy
<1> HIDE DEF a, named, nulls, N
<1>4. /\ a \in Seq(Store!Rows) /\ Len(list) =< Len(a) /\ Len(a) \in Nat /\ DOMAIN a = 1 .. Len(a)
      /\ \A i \in 1 .. Len(a) : a[i] \in Store!Rows
  BY <1>2 DEF Merged
<1> HIDE DEF K
<1>5. /\ \A i \in 1 .. Len(list) : K(a[i]) = K(list[i])
      /\ \A l \in named : \E i \in 1 .. Len(a) : K(a[i]) = l
      /\ \A i \in 1 .. Len(a), j \in Len(list) + 1 .. Len(a) :
           K(a[i]) = K(a[j]) => i = j \/ Store!HasNull(a[i], key)
      /\ \A i \in 1 .. Len(a) : K(a[i]) \in named =>
           \A f \in Fields : a[i][f] = Latest(list, records, N, key, K(a[i]), f)
  BY <1>2, <1>3 DEF Merged, K
<1>6. \A i \in 1 .. Len(a) : i \in 1 .. Len(list) \/ i \in Len(list) + 1 .. Len(a)
  BY <1>1, <1>4
<1>7. \A k \in named : \A x : K(x) = k => ~ Store!HasNull(x, key)
  <2> SUFFICES ASSUME NEW k \in named, NEW x, K(x) = k PROVE ~ Store!HasNull(x, key)
    OBVIOUS
  <2>1. PICK m \in 1 .. N : k = K(records[m]) /\ ~ Store!HasNull(records[m], key)
    BY <1>1 DEF named, nulls
  <2>2. \A f \in key : K(x)[f] = x[f] /\ K(records[m])[f] = records[m][f]
    BY DEF K, Store!KeyOf
  <2> QED BY <2>1, <2>2 DEF Store!HasNull
<1>8. Store!RowsAt(a, others(a)) =
        Store!RowsAt(list, others(list)) \o
          Store!RowsAt([i \in DOMAIN records |-> Store!RowOf(records[i])], nulls)
  <2>1. OtherRows(a, named, key) = OtherRows(list, named, key) \o NullRows(records, N, key)
    BY <1>2, <1>3, OthersAfter DEF a, N
  <2>2. /\ OtherRows(a, named, key) = Store!RowsAt(a, others(a))
        /\ OtherRows(list, named, key) = Store!RowsAt(list, others(list))
    BY DEF OtherRows, K
  <2>3. NullRows(records, N, key) =
          Store!RowsAt([i \in DOMAIN records |-> Store!RowOf(records[i])], nulls)
    BY <1>3 DEF NullRows
  <2> HIDE DEF others
  <2> QED BY <2>1, <2>2, <2>3
<1>9. ASSUME NEW k \in named
      PROVE  \E i \in DOMAIN a :
               /\ a[i] = [f \in Fields |-> Store!Upserted(list, records, key, k, f)]
               /\ \A j \in DOMAIN a : K(a[j]) = k => j = i
  <2>1. PICK i \in 1 .. Len(a) : K(a[i]) = k
    BY <1>5
  <2>2. \A f \in Fields : a[i][f] = Store!Upserted(list, records, key, k, f)
    <3> SUFFICES ASSUME NEW f \in Fields PROVE a[i][f] = Store!Upserted(list, records, key, k, f)
      OBVIOUS
    <3>1. Store!Upserted(list, records, key, k, f) = Latest(list, records, N, key, k, f)
      BY <1>1 DEF Store!Upserted, Latest, Setting, Before, LastOf
    <3> QED BY <1>5, <2>1, <3>1
  <2>3. a[i] = [f \in Fields |-> Store!Upserted(list, records, key, k, f)]
    BY <1>4, <2>1, <2>2 DEF Store!Rows
  <2>4. ASSUME NEW j \in 1 .. Len(a), K(a[j]) = k PROVE j = i
    <3>0. ~ Store!HasNull(a[i], key) /\ ~ Store!HasNull(a[j], key)
      BY <1>7, <2>1, <2>4
    <3>1. CASE i \in Len(list) + 1 .. Len(a) \/ j \in Len(list) + 1 .. Len(a)
      BY <1>5, <2>1, <2>4, <3>0, <3>1
    <3>2. CASE i \in 1 .. Len(list) /\ j \in 1 .. Len(list)
      <4>1. K(list[i]) = k /\ K(list[j]) = k
        BY <1>5, <2>1, <2>4, <3>2
      <4>2. \A f \in key : list[i][f] # None
        BY <1>7, <4>1 DEF Store!HasNull
      <4> QED BY <1>2, <3>2, <4>1, <4>2 DEF Upsertable, K
    <3> QED BY <1>6, <2>1, <3>1, <3>2
  <2> QED BY <1>4, <2>1, <2>3, <2>4
<1> HIDE DEF others
<1> QED BY <1>8, <1>9 DEF a, named, nulls, others, K

LEMMA RowsFitIs == RowsFit <=> \A r \in Store!Tables : TableFits(table[r])
BY DEF RowsFit, TableFits

\* The changes that leave the rows and the key.
SameRows(t, s) == DOMAIN s = DOMAIN t /\ s.rows = t.rows /\ s.key = t.key

LEMMA RowsKept ==
    ASSUME NEW t, DOMAIN t = Columned
    PROVE  /\ \A supplied, records : SameRows(t, Store!AlterTable(t, supplied, records))
           /\ \A aliases : SameRows(t, Store!Aliased(t, aliases))
           /\ \A isPrivate : SameRows(t, Store!Opened(t, isPrivate))
           /\ \A isPrivate : SameRows(t, Store!Privilege(t, isPrivate))
<1>1. \A x : SameRows(t, Fielded(t, x))
  BY DEF SameRows, Columned, Fielded
<1>2. \A supplied, records : SameRows(t, Store!AlterTable(t, supplied, records))
  <2>1. \A supplied, records : \E x : Store!AlterTable(t, supplied, records) = Fielded(t, x)
    BY DEF Store!AlterTable, Fielded
  <2> QED BY <1>1, <2>1, Zenon
<1>3. \A aliases : SameRows(t, Store!Aliased(t, aliases))
  BY DEF SameRows, Columned, Store!Aliased
<1>4. \A isPrivate : SameRows(t, Store!Opened(t, isPrivate)) /\ SameRows(t, Store!Privilege(t, isPrivate))
  BY DEF SameRows, Columned, Store!Opened, Store!Privilege
<1> QED BY <1>2, <1>3, <1>4

LEMMA InsertFits ==
    ASSUME NEW t, DOMAIN t = Columned, t.rows \in Seq(Store!Rows),
           NEW records \in Seq(Store!PartialRows)
    PROVE  LET more == [i \in DOMAIN records |-> Store!RowOf(records[i])]
               s == Store!Insert(t, records)
           IN  /\ DOMAIN s = Columned /\ s.key = t.key /\ s.fields = t.fields
               /\ s.rows = t.rows \o more /\ s.rows \in Seq(Store!Rows)
<1> DEFINE more == [i \in DOMAIN records |-> Store!RowOf(records[i])]
           s == Store!Insert(t, records)
<1>1. more \in Seq(Store!Rows)
  <2>1. DOMAIN records = 1 .. Len(records) /\ Len(records) \in Nat
    OBVIOUS
  <2>2. \A i \in 1 .. Len(records) : Store!RowOf(records[i]) \in Store!Rows
    BY RowsFromRecords
  <2>3. more \in [1 .. Len(records) -> Store!Rows]
    BY <2>1, <2>2
  <2> HIDE DEF more
  <2> QED BY <2>1, <2>3
<1>2. s = Rowed(t, t.rows \o more)
  BY DEF Store!Insert, Rowed
<1> HIDE DEF more, s
<1>3. DOMAIN s = Columned /\ s.key = t.key /\ s.fields = t.fields /\ s.rows = t.rows \o more
  BY <1>2 DEF Rowed, Columned
<1>4. s.rows \in Seq(Store!Rows)
  BY <1>1, <1>3
<1> QED BY <1>3, <1>4 DEF more, s

LEMMA FilteredUnique ==
    ASSUME NEW S, NEW list \in Seq(S), NEW key, Store!Unique(list, key),
           NEW I \in SUBSET (DOMAIN list)
    PROVE  Store!Unique(Store!RowsAt(list, I), key)
<1> DEFINE x == Store!RowsAt(list, I)
<1>1. DOMAIN x = 1 .. Cardinality(I) /\ \E e \in Enumerations(I) :
        \A n \in 1 .. Cardinality(I) : x[n] = list[e[n]]
  BY RowsAtFit
<1>2. PICK e \in Enumerations(I) : \A n \in 1 .. Cardinality(I) : x[n] = list[e[n]]
  BY <1>1
<1>3. \A m, n \in 1 .. Cardinality(I) :
        e[m] \in DOMAIN list /\ e[n] \in DOMAIN list /\ (e[m] = e[n] => m = n)
  BY DEF Enumerations
<1> HIDE DEF x
<1>4. ASSUME NEW m \in DOMAIN x, NEW n \in DOMAIN x, m # n, key # {},
             Store!KeyOf(x[m], key) = Store!KeyOf(x[n], key)
      PROVE  \E f \in key : x[m][f] = None
  BY <1>1, <1>2, <1>3, <1>4 DEF Store!Unique
<1> QED BY <1>4 DEF Store!Unique, x

LEMMA InsertStays ==
    ASSUME NEW t, DOMAIN t = Columned, TableFits(t), NEW records \in Seq(Store!PartialRows),
           Store!CanInsert(t, records), Len(Store!Insert(t, records).rows) =< MaxRows
    PROVE  TableFits(Store!Insert(t, records))
<1>1. t.rows \in Seq(Store!Rows) /\ t.key \in SUBSET Fields
  BY DEF TableFits
<1>2. LET more == [i \in DOMAIN records |-> Store!RowOf(records[i])]
          s == Store!Insert(t, records)
      IN  s.key = t.key /\ s.rows = t.rows \o more /\ s.rows \in Seq(Store!Rows)
  BY <1>1, InsertFits
<1> QED BY <1>1, <1>2 DEF TableFits, Store!CanInsert

LEMMA UpsertStays ==
    ASSUME NEW t, DOMAIN t = Columned, TableFits(t), NEW records \in Seq(Store!PartialRows),
           Store!CanUpsert(t, records), Len(Store!Upsert(t, records).rows) =< MaxRows
    PROVE  TableFits(Store!Upsert(t, records))
<1> DEFINE s == Store!Upsert(t, records)
           list == Store!Upserts(t.rows, records, t.key)
<1>1. t.rows \in Seq(Store!Rows) /\ t.key \in SUBSET Fields /\ Store!Unique(t.rows, t.key)
  BY DEF TableFits
<1>2. t.key # {} /\ \A i \in DOMAIN records : t.key \subseteq DOMAIN records[i]
  BY DEF Store!CanUpsert
<1>3. list \in Seq(Store!Rows) /\ Store!Unique(list, t.key)
  BY <1>1, <1>2, UpsertsUnique
<1>4. s = Rowed(t, list)
  BY DEF Store!Upsert, Rowed
<1> HIDE DEF s, list
<1>5. s.rows = list /\ s.key = t.key
  BY <1>4 DEF Rowed, Columned
<1> QED BY <1>1, <1>3, <1>5 DEF TableFits, s

LEMMA FilterStays ==
    ASSUME NEW t, DOMAIN t = Columned, TableFits(t), NEW filter
    PROVE  /\ TableFits(Store!Filtered(t, filter))
           /\ Store!Filtered(t, filter).rows =
                Store!RowsAt(t.rows, DOMAIN t.rows \ Store!Matching(t.rows, filter))
<1> DEFINE s == Store!Filtered(t, filter)
           I == DOMAIN t.rows \ Store!Matching(t.rows, filter)
           list == Store!RowsAt(t.rows, I)
<1>1. /\ t.rows \in Seq(Store!Rows) /\ Len(t.rows) =< MaxRows
      /\ t.key \in SUBSET Fields /\ Store!Unique(t.rows, t.key)
  BY DEF TableFits
<1>2. I \in SUBSET (DOMAIN t.rows)
  OBVIOUS
<1>3. s = Rowed(t, list)
  BY DEF Store!Filtered, Rowed
<1> HIDE DEF s, I
<1>4. list \in Seq(Store!Rows) /\ Len(list) = Cardinality(I)
      /\ Cardinality(I) =< Len(t.rows) /\ Cardinality(I) \in Nat
  BY <1>1, <1>2, RowsAtFit
<1>5. Store!Unique(list, t.key)
  BY <1>1, <1>2, FilteredUnique
<1> HIDE DEF list
<1>6. s.rows = list /\ s.key = t.key
  BY <1>3 DEF Rowed, Columned
<1>7. Len(list) =< MaxRows
  <2>1. Len(t.rows) \in Nat /\ MaxRows \in Nat
    BY <1>1, FieldsAssumption
  <2> QED BY <1>1, <1>4, <2>1
<1>8. TableFits(s)
  BY <1>1, <1>4, <1>5, <1>6, <1>7 DEF TableFits
<1> QED BY <1>6, <1>8 DEF s, list, I

LEMMA OneTable ==
    ASSUME StoreInv, RowsFit, NEW r \in Resources, NEW t, table' = [table EXCEPT ![r] = t],
           t # None => TableFits(t)
    PROVE  RowsFit'
<1>1. table = [s \in Resources |-> table[s]]
  BY DEF StoreInv, TablesTyped
<1>2. table'[r] = t /\ \A s \in Resources \ {r} : table'[s] = table[s]
  BY <1>1
<1>3. \A s \in Store!Tables' : TableFits(table'[s])
  <2> SUFFICES ASSUME NEW s \in Store!Tables' PROVE TableFits(table'[s])
    OBVIOUS
  <2>1. s \in Resources /\ table'[s] # None
    BY DEF Store!Tables
  <2>2. CASE s = r
    BY <1>2, <2>1, <2>2
  <2>3. CASE s # r
    <3>1. table'[s] = table[s] /\ s \in Store!Tables
      BY <1>2, <2>1, <2>3 DEF Store!Tables
    <3> QED BY <3>1, RowsFitIs
  <2> QED BY <2>2, <2>3
<1> QED BY <1>3 DEF RowsFit, TableFits

LEMMA CreateRows ==
    ASSUME StoreInv, FieldsTyped, RowsFit, NEW w \in Workers, Store!Create(w)
    PROVE  RowsFit'
<1> DEFINE r == storeReq[w].res
           q == storeReq[w].ask
           old == IF r \in Store!Tables THEN table[r] ELSE Store!EmptyTable
           wide == Store!AlterTable(old, q.fields, q.records)
           full == Store!Insert(wide, q.records)
           indexed == Store!Indexed(full, q.indexes, q.key)
           aliased == Store!Aliased(indexed, q.aliases)
           new == Store!Opened(aliased, storeReq[w].private)
<1>1. r \in Resources /\ q \in Creates
  BY DEF StoreInv, AsksTyped, Store!Create
<1>2. /\ table' = [table EXCEPT ![r] = new] /\ Len(full.rows) =< MaxRows
      /\ Store!CanIndex(full, q.indexes, q.key)
  BY DEF Store!Create
<1>3. /\ DOMAIN old = Columned /\ old.fields \in Seq(Fields)
      /\ old.rows \in Seq(Store!Rows) /\ old.key \in SUBSET Fields
  <2>1. CASE r \in Store!Tables
    BY <2>1 DEF StoreInv, TablesTyped, FieldsTyped, RowsFit
  <2>2. CASE r \notin Store!Tables
    BY <2>2 DEF Store!EmptyTable, Columned
  <2> QED BY <2>1, <2>2
<1> HIDE DEF old
<1>4. q.records \in Seq(Store!PartialRows)
  <2> HIDE DEF q
  <2> QED BY <1>1, FieldsAssumption
<1>5. SameRows(old, wide) /\ wide.fields \in Seq(Fields)
  <2>1. SameRows(old, wide)
    BY <1>3, RowsKept
  <2>2. PICK more \in Seq(Fields) : wide = Fielded(old, old.fields \o more)
    <3> HIDE DEF q
    <3> QED BY <1>1, <1>3, AlteredFields DEF wide
  <2> HIDE DEF wide
  <2>3. wide.fields = old.fields \o more
    BY <1>3, <2>2 DEF Fielded, Columned
  <2> QED BY <1>3, <2>1, <2>3
<1> HIDE DEF wide, q
<1>6. /\ DOMAIN full = Columned /\ full.key = wide.key /\ full.fields = wide.fields
      /\ full.rows \in Seq(Store!Rows)
  BY <1>3, <1>4, <1>5, InsertFits DEF SameRows
<1> HIDE DEF full
<1>7. /\ indexed.rows = full.rows /\ DOMAIN indexed = Columned
      /\ indexed.key \in {full.key, {}, q.key}
      /\ indexed.key # full.key /\ indexed.key # {} => q.key # None
  <2> DEFINE plain == IF q.indexes = None THEN full.indexes ELSE q.indexes
             was == IF q.key = None THEN full.key ELSE {}
             now1 == IF q.key = None \/ q.key \in plain THEN was ELSE q.key
  <2>1. indexed = Keyed(full, plain \ {was}, now1)
    BY DEF Store!Indexed, Keyed
  <2> HIDE DEF plain, indexed
  <2>2. indexed.rows = full.rows /\ DOMAIN indexed = Columned /\ indexed.key = now1
    BY <1>6, <2>1 DEF Keyed, Columned
  <2> QED BY <2>2
<1>8. Store!Unique(full.rows, indexed.key) /\ (q.key # None => q.key \subseteq Store!Columns(full))
  BY <1>2 DEF Store!CanIndex
<1> HIDE DEF indexed
<1>9. indexed.key \in SUBSET Fields
  <2>1. Store!Columns(full) \subseteq Fields
    <3>1. full.fields \in Seq(Fields)
      BY <1>5, <1>6
    <3> QED BY <3>1 DEF Store!Columns, Store!ToSet
  <2> QED BY <1>3, <1>5, <1>6, <1>7, <1>8, <2>1 DEF SameRows
<1>10. SameRows(indexed, aliased)
  BY <1>7, RowsKept
<1> HIDE DEF aliased
<1>11. SameRows(aliased, new)
  BY <1>7, <1>10, RowsKept DEF SameRows
<1> HIDE DEF new
<1>12. TableFits(new)
  BY <1>2, <1>6, <1>7, <1>8, <1>9, <1>10, <1>11 DEF SameRows, TableFits
<1> HIDE DEF r
<1> QED BY <1>1, <1>2, <1>12, OneTable

LEMMA ChangeRows ==
    ASSUME StoreInv, RowsFit, BringsFit, NEW w \in Workers, Store!Change(w)
    PROVE  RowsFit'
<1> DEFINE r == storeReq[w].res
           records == storeReq[w].records
<1>1. /\ r \in Store!Tables /\ r \in Resources
      /\ \/ Store!CanInsert(table[r], records) /\ table' = [table EXCEPT ![r] = Store!Insert(table[r], records)]
         \/ Store!CanUpsert(table[r], records) /\ table' = [table EXCEPT ![r] = Store!Upsert(table[r], records)]
      /\ Len(table'[r].rows) =< MaxRows
  BY DEF Store!Change, Store!CanUpdate, Store!Tables
<1>2. records \in Seq(Store!PartialRows)
  BY DEF BringsFit, Store!Change
<1> HIDE DEF r, records
<1>3. DOMAIN table[r] = Columned /\ TableFits(table[r]) /\ table = [s \in Resources |-> table[s]]
  BY <1>1, RowsFitIs DEF StoreInv, TablesTyped
<1>4. CASE Store!CanInsert(table[r], records) /\ table' = [table EXCEPT ![r] = Store!Insert(table[r], records)]
  <2>1. table'[r] = Store!Insert(table[r], records)
    BY <1>1, <1>3, <1>4
  <2>2. TableFits(Store!Insert(table[r], records))
    BY <1>1, <1>2, <1>3, <1>4, <2>1, InsertStays
  <2> QED BY <1>1, <1>4, <2>2, OneTable
<1>5. CASE Store!CanUpsert(table[r], records) /\ table' = [table EXCEPT ![r] = Store!Upsert(table[r], records)]
  <2>1. table'[r] = Store!Upsert(table[r], records)
    BY <1>1, <1>3, <1>5
  <2>2. TableFits(Store!Upsert(table[r], records))
    BY <1>1, <1>2, <1>3, <1>5, <2>1, UpsertStays
  <2> QED BY <1>1, <1>5, <2>2, OneTable
<1> QED BY <1>1, <1>4, <1>5

LEMMA DeleteRows ==
    ASSUME StoreInv, RowsFit, NEW w \in Workers, Store!Delete(w)
    PROVE  RowsFit'
<1> DEFINE r == storeReq[w].res
           t == IF Store!IsWhole(storeReq[w].filter) THEN None
                ELSE Store!Filtered(table[r], storeReq[w].filter)
<1>1. r \in Store!Tables /\ r \in Resources /\ table' = [table EXCEPT ![r] = t]
  BY DEF Store!Delete, Store!Tables
<1>2. DOMAIN table[r] = Columned /\ TableFits(table[r])
  BY <1>1, RowsFitIs DEF StoreInv, TablesTyped
<1>3. t # None => TableFits(t)
  BY <1>2, FilterStays
<1> HIDE DEF r, t
<1> QED BY <1>1, <1>3, OneTable

LEMMA NotifyRows ==
    ASSUME StoreInv, RowsFit, NEW w \in Workers, NEW isPrivate \in BOOLEAN,
           Store!Notify(w, isPrivate)
    PROVE  RowsFit'
<1> SUFFICES ASSUME NEW r \in Store!Tables' PROVE TableFits(table'[r])
  BY DEF RowsFit, TableFits
<1>1. table' = [s \in Resources |-> IF s \in Store!Tables
                                    THEN Store!Privilege(table[s], isPrivate) ELSE None]
  BY DEF Store!Notify
<1>2. r \in Resources /\ table'[r] # None
  BY DEF Store!Tables
<1>3. r \in Store!Tables /\ table'[r] = Store!Privilege(table[r], isPrivate)
  BY <1>1, <1>2
<1>4. DOMAIN table[r] = Columned /\ TableFits(table[r])
  BY <1>3, RowsFitIs DEF StoreInv, TablesTyped
<1>5. SameRows(table[r], table'[r])
  BY <1>3, <1>4, RowsKept
<1> QED BY <1>4, <1>5 DEF SameRows, TableFits

LEMMA BringsKept ==
    ASSUME StoreInv, BringsFit, [Store!Next]_Store!vars
    PROVE  BringsFit'
<1>1. CASE UNCHANGED Store!vars
  BY <1>1 DEF Store!vars, BringsFit
<1>2. ASSUME NEW w \in Workers, NEW q, Store!Start(w, q),
             q.op \in {"insert", "upsert", "update"} => q.records \in Seq(Store!PartialRows)
      PROVE  BringsFit'
  <2>1. /\ storePc'[w] = "run" /\ storeReq'[w] = q
        /\ \A v \in Workers \ {w} : storePc'[v] = storePc[v] /\ storeReq'[v] = storeReq[v]
    BY <1>2, StoreStarts DEF Store!Start
  <2> QED BY <1>2, <2>1 DEF BringsFit
<1>3. ASSUME NEW w \in Workers, Store!Idle(w) PROVE BringsFit'
  <2>1. /\ storePc'[w] = "idle"
        /\ \A v \in Workers \ {w} : storePc'[v] = storePc[v] /\ storeReq'[v] = storeReq[v]
    BY <1>3, StoreEnds
  <2> QED BY <2>1 DEF BringsFit
<1>4. ASSUME NEW w \in Workers, NEW isPrivate \in BOOLEAN, Store!Notify(w, isPrivate) PROVE BringsFit'
  <2> DEFINE q == [op |-> "package", private |-> isPrivate]
  <2>1. storePc' = [storePc EXCEPT ![w] = "commit"] /\ storeReq' = [storeReq EXCEPT ![w] = q]
    BY <1>4 DEF Store!Notify
  <2> HIDE DEF q
  <2>2. /\ storePc'[w] = "commit"
        /\ \A v \in Workers \ {w} : storePc'[v] = storePc[v] /\ storeReq'[v] = storeReq[v]
    BY <2>1, StoreStarts
  <2> QED BY <2>2 DEF BringsFit
<1>5. ASSUME NEW w \in Workers, NEW r \in Resources, NEW create \in Creates,
             Store!AskCreate(w, r, create)
      PROVE  BringsFit'
  <2> DEFINE q == [op |-> "create", res |-> r, ask |-> create, private |-> private]
  <2>1. Store!Start(w, q) /\ q.op = "create"
    BY <1>5 DEF Store!AskCreate
  <2> HIDE DEF q
  <2> QED BY <1>2, <2>1
<1>6. ASSUME NEW w \in Workers, NEW r \in Resources, NEW method \in {"insert", "upsert", "update"},
             NEW records \in Records, Store!AskUpsert(w, r, method, records)
      PROVE  BringsFit'
  <2> DEFINE q == [op |-> method, res |-> r, records |-> records]
  <2>1. Store!Start(w, q) /\ q.records = records
    BY <1>6 DEF Store!AskUpsert
  <2>2. records \in Seq(Store!PartialRows)
    BY FieldsAssumption
  <2> HIDE DEF q
  <2> QED BY <1>2, <2>1, <2>2
<1>7. ASSUME NEW w \in Workers, NEW r \in Resources, NEW filter \in Filters,
             Store!AskDelete(w, r, filter)
      PROVE  BringsFit'
  <2> DEFINE q == [op |-> "delete", res |-> r, filter |-> filter]
  <2>1. Store!Start(w, q) /\ q.op = "delete"
    BY <1>7 DEF Store!AskDelete
  <2> HIDE DEF q
  <2> QED BY <1>2, <2>1
<1>8. ASSUME NEW w \in Workers,
             \/ Store!Create(w) \/ Store!Change(w) \/ Store!Delete(w) \/ Store!Fail(w)
             \/ Store!CommitPackage(w) \/ Store!Rollback(w)
      PROVE  Store!Idle(w)
  BY <1>8 DEF Store!Create, Store!Change, Store!Delete, Store!Fail, Store!CommitPackage,
              Store!Rollback
<1>9. ASSUME NEW isPrivate \in BOOLEAN, Store!BulkUpdate(isPrivate) PROVE BringsFit'
  BY <1>9 DEF Store!BulkUpdate, BringsFit
<1> QED BY <1>1, <1>3, <1>4, <1>5, <1>6, <1>7, <1>8, <1>9 DEF Store!Next

DataInv == StoreInv /\ FieldsTyped /\ RowsFit /\ BringsFit

LEMMA RowsStep ==
    ASSUME DataInv, [Store!Next]_Store!vars
    PROVE  RowsFit'
<1>1. CASE UNCHANGED table
  BY <1>1 DEF DataInv, RowsFit, Store!Tables
<1>2. CASE UNCHANGED Store!vars
  BY <1>1, <1>2 DEF Store!vars
<1>3. ASSUME NEW w \in Workers, Store!Create(w) PROVE RowsFit'
  BY <1>3, CreateRows DEF DataInv
<1>4. ASSUME NEW w \in Workers, Store!Change(w) PROVE RowsFit'
  BY <1>4, ChangeRows DEF DataInv
<1>5. ASSUME NEW w \in Workers, Store!Delete(w) PROVE RowsFit'
  BY <1>5, DeleteRows DEF DataInv
<1>6. ASSUME NEW w \in Workers, NEW isPrivate \in BOOLEAN, Store!Notify(w, isPrivate) PROVE RowsFit'
  BY <1>6, NotifyRows DEF DataInv
<1>7. ASSUME NEW w \in Workers, NEW q, Store!Start(w, q) PROVE UNCHANGED table
  BY <1>7 DEF Store!Start
<1>8. ASSUME NEW w \in Workers,
             \/ Store!Fail(w) \/ Store!CommitPackage(w) \/ Store!Rollback(w)
             \/ \E r \in Resources :
                  \/ \E create \in Creates : Store!AskCreate(w, r, create)
                  \/ \E method \in {"insert", "upsert", "update"}, records \in Records :
                       Store!AskUpsert(w, r, method, records)
                  \/ \E filter \in Filters : Store!AskDelete(w, r, filter)
      PROVE  UNCHANGED table
  BY <1>8, <1>7 DEF Store!Fail, Store!CommitPackage, Store!Rollback, Store!AskCreate,
                    Store!AskUpsert, Store!AskDelete
<1>9. ASSUME NEW isPrivate \in BOOLEAN, Store!BulkUpdate(isPrivate) PROVE UNCHANGED table
  BY <1>9 DEF Store!BulkUpdate
<1> QED BY <1>1, <1>2, <1>3, <1>4, <1>5, <1>6, <1>8, <1>9 DEF Store!Next

LEMMA DataInitially == Store!Init => DataInv
<1> SUFFICES ASSUME Store!Init PROVE DataInv
  OBVIOUS
<1>1. Store!Tables = {}
  BY DEF Store!Init, Store!Tables
<1>2. \A w \in Workers : storePc[w] = "idle"
  BY DEF Store!Init
<1> QED BY <1>1, <1>2, StoreInitially DEF DataInv, FieldsTyped, RowsFit, BringsFit

LEMMA DataStep == DataInv /\ [Store!Next]_Store!vars => DataInv'
<1> SUFFICES ASSUME DataInv, [Store!Next]_Store!vars
             PROVE  DataInv'
  OBVIOUS
<1>1. StoreInv' BY StoreStep DEF DataInv
<1>2. FieldsTyped' BY FieldsKeep DEF DataInv
<1>3. RowsFit' BY RowsStep
<1>4. BringsFit' BY BringsKept DEF DataInv
<1> QED BY <1>1, <1>2, <1>3, <1>4 DEF DataInv

\* A deletion takes the rows that a search with its filters finds, and no other.
DeletedNow ==
    \A w \in Workers :
      storeReq[w].op = "delete" /\ ~ Store!IsWhole(storeReq[w].filter) /\ Store!Delete(w) =>
        LET r == storeReq[w].res
            q == storeReq[w].filter
        IN  /\ Len(table'[r].rows) + Len(Store!Selected(table[r], q)) = Len(table[r].rows)
            /\ \E t \in {table'[r]} : Store!Selected(t, q) = <<>>

LEMMA DeletedFit == DataInv => DeletedNow
<1> SUFFICES ASSUME DataInv, NEW w \in Workers, storeReq[w].op = "delete",
                    ~ Store!IsWhole(storeReq[w].filter), Store!Delete(w)
             PROVE  LET r == storeReq[w].res
                        q == storeReq[w].filter
                    IN  /\ Len(table'[r].rows) + Len(Store!Selected(table[r], q)) = Len(table[r].rows)
                        /\ \E t \in {table'[r]} : Store!Selected(t, q) = <<>>
  BY DEF DeletedNow
<1> DEFINE r == storeReq[w].res
           q == storeReq[w].filter
           t == Store!Filtered(table[r], q)
<1>1. r \in Store!Tables /\ r \in Resources /\ table' = [table EXCEPT ![r] = t]
  BY DEF Store!Delete, Store!Tables
<1>2. DOMAIN table[r] = Columned /\ TableFits(table[r]) /\ table = [s \in Resources |-> table[s]]
  BY <1>1, RowsFitIs DEF DataInv, StoreInv, TablesTyped
<1>3. t.rows = Store!RowsAt(table[r].rows,
                            DOMAIN table[r].rows \ Store!Matching(table[r].rows, q))
  BY <1>2, FilterStays
<1> HIDE DEF r, q, t
<1>4. table'[r] = t
  BY <1>1, <1>2
<1>5. table[r].rows \in Seq(Store!Rows)
  BY <1>2 DEF TableFits
<1> DEFINE list == table[r].rows
           match == Store!Matching(list, q)
           after == Store!RowsAt(list, DOMAIN list \ match)
<1>6. /\ Len(after) + Len(Store!RowsAt(list, match)) = Len(list)
      /\ Store!RowsAt(after, Store!Matching(after, q)) = <<>>
  <2> HIDE DEF list
  <2>1. list \in Seq(Store!Rows)
    BY <1>5 DEF list
  <2> QED BY <2>1, FilteredFit
<1>7. t.rows = after
  BY <1>3
<1> HIDE DEF after
<1>8. Store!Selected(table[r], q) = Store!RowsAt(list, match) /\ Store!Selected(t, q) = <<>>
  BY <1>6, <1>7 DEF Store!Selected
<1> HIDE DEF list, match
<1>9. Len(table'[r].rows) + Len(Store!Selected(table[r], q)) = Len(list)
  BY <1>4, <1>6, <1>7, <1>8
<1> QED BY <1>4, <1>8, <1>9 DEF list, r, q

\* An upsert leaves one row for every key it names, with what the records say and otherwise
\* what the row said before, the rows with other keys as they are, and a row more for each
\* record with a null in its key.
AsSaid(old, new, records, key) ==
    LET nulls == {i \in DOMAIN records : Store!HasNull(records[i], key)}
        named == {Store!KeyOf(records[i], key) : i \in DOMAIN records \ nulls}
        Others(x) == Store!RowsAt(x, {i \in DOMAIN x : Store!KeyOf(x[i], key) \notin named})
    IN  /\ Others(new) =
             Others(old) \o
               Store!RowsAt([i \in DOMAIN records |-> Store!RowOf(records[i])], nulls)
        /\ \A k \in named :
             \E i \in DOMAIN new :
                /\ new[i] = [f \in Fields |-> Store!Upserted(old, records, key, k, f)]
                /\ \A j \in DOMAIN new : Store!KeyOf(new[j], key) = k => j = i

MergedNow ==
    \A w \in Workers :
      storeReq[w].op = "upsert" /\ Store!Change(w) =>
        AsSaid(table[storeReq[w].res].rows, table'[storeReq[w].res].rows,
               storeReq[w].records, table[storeReq[w].res].key)

LEMMA UpsertsFit == DataInv => MergedNow
<1> SUFFICES ASSUME DataInv, NEW w \in Workers, storeReq[w].op = "upsert", Store!Change(w)
             PROVE  AsSaid(table[storeReq[w].res].rows, table'[storeReq[w].res].rows,
                           storeReq[w].records, table[storeReq[w].res].key)
  BY DEF MergedNow
<1> DEFINE r == storeReq[w].res
           records == storeReq[w].records
           t == table[r]
           a == Store!Upserts(t.rows, records, t.key)
<1>1. r \in Store!Tables /\ r \in Resources /\ Store!CanUpsert(t, records)
      /\ table' = [table EXCEPT ![r] = Store!Upsert(t, records)]
  BY DEF Store!Change, Store!Tables
<1>2. DOMAIN t = Columned /\ TableFits(t) /\ table = [s \in Resources |-> table[s]]
  BY <1>1, RowsFitIs DEF DataInv, StoreInv, TablesTyped
<1>3. records \in Seq(Store!PartialRows)
  BY DEF DataInv, BringsFit, Store!Change
<1>4. /\ t.rows \in Seq(Store!Rows) /\ t.key \in SUBSET Fields /\ t.key # {}
      /\ Store!Unique(t.rows, t.key)
      /\ \A i \in DOMAIN records : t.key \subseteq DOMAIN records[i]
  BY <1>1, <1>2 DEF TableFits, Store!CanUpsert
<1>5. Store!Upsert(t, records) = Rowed(t, a)
  BY DEF Store!Upsert, Rowed
<1> HIDE DEF a
<1>6. Rowed(t, a).rows = a
  BY <1>2 DEF Rowed, Columned
<1>7. table'[r].rows = a
  BY <1>1, <1>2, <1>5, <1>6
<1> DEFINE list == t.rows
           key == t.key
<1>8. AsSaid(list, a, records, key)
  <2> HIDE DEF list, key, records
  <2>1. /\ list \in Seq(Store!Rows) /\ key \in SUBSET Fields /\ key # {}
        /\ Store!Unique(list, key)
        /\ \A i \in DOMAIN records : key \subseteq DOMAIN records[i]
    BY <1>4 DEF list, key
  <2> QED BY <1>3, <2>1, UpsertsAsSaid DEF AsSaid, a, list, key
<1> QED BY <1>7, <1>8

LEMMA UpsertMergesIs == [][MergedNow]_Store!vars => Store!UpsertMerges
<1>1. MergedNow =>
        \A w \in Workers : storeReq[w].op = "upsert" /\ Store!Change(w) =>
         LET r == storeReq[w].res
             records == storeReq[w].records
             key == table[r].key
             nulls == {i \in DOMAIN records : Store!HasNull(records[i], key)}
             named == {Store!KeyOf(records[i], key) : i \in DOMAIN records \ nulls}
             Others(x) ==
               Store!RowsAt(x, {i \in DOMAIN x : Store!KeyOf(x[i], key) \notin named})
         IN  /\ Others(table'[r].rows) =
                  Others(table[r].rows) \o
                    Store!RowsAt([i \in DOMAIN records |-> Store!RowOf(records[i])], nulls)
             /\ \A k \in named :
                  \E i \in DOMAIN table'[r].rows :
                     /\ table'[r].rows[i] =
                          [f \in Fields |-> Store!Upserted(table[r].rows, records, key, k, f)]
                     /\ \A j \in DOMAIN table'[r].rows :
                          Store!KeyOf(table'[r].rows[j], key) = k => j = i
  BY Zenon DEF MergedNow, AsSaid
<1> QED BY <1>1, PTL DEF Store!UpsertMerges

LEMMA DeletedAreFoundIs == [][DeletedNow]_Store!vars => Store!DeletedAreFound
<1>1. DeletedNow =>
        \A w \in Workers :
          storeReq[w].op = "delete" /\ ~ Store!IsWhole(storeReq[w].filter) /\ Store!Delete(w) =>
         LET r == storeReq[w].res
             q == storeReq[w].filter
         IN  /\ Len(table'[r].rows) + Len(Store!Selected(table[r], q)) = Len(table[r].rows)
             /\ \E t \in {table'[r]} : Store!Selected(t, q) = <<>>
  BY Zenon DEF DeletedNow
<1> QED BY <1>1, PTL DEF Store!DeletedAreFound

\* The rows at places p come in the order of the sort.
Sorted(list, sort, p) ==
    \A i, j \in 1 .. Len(list) : i < j => ~ Store!Before(list[p[j]], list[p[i]], sort)
Orderings(list, sort) ==
    {p \in [1 .. Len(list) -> 1 .. Len(list)] :
       (\A a, b \in 1 .. Len(list) : p[a] = p[b] => a = b) /\ Sorted(list, sort, p)}

LEMMA OrdersAre ==
    ASSUME NEW list, NEW sort
    PROVE  Store!Orders(list, sort) =
             {[i \in 1 .. Len(list) |-> list[p[i]]] : p \in Orderings(list, sort)}
<1> DEFINE n == Len(list)
           places == {p \in [1 .. n -> 1 .. n] : Store!IsInjective(p)}
           found == {q \in places : \A i, j \in 1 .. n :
                       i < j => ~ Store!Before(list[q[j]], list[q[i]], sort)}
<1>1. found = Orderings(list, sort)
  BY DEF Orderings, Sorted, Store!IsInjective
<1>2. Store!Orders(list, sort) = {[i \in 1 .. n |-> list[p[i]]] : p \in found}
  BY DEF Store!Orders
<1> QED BY <1>1, <1>2

\* Rows that differ in the columns of a key without null are in a strict order.
Ahead(list, sort) ==
    {ij \in (1 .. Len(list)) \X (1 .. Len(list)) : Store!Before(list[ij[1]], list[ij[2]], sort)}

LEMMA BelowOrders ==
    ASSUME Cells \subseteq Nat, None \notin Cells
    PROVE  /\ \A v \in Cells : ~ Store!Below(v, v)
           /\ \A v, u \in Cells : v # u => Store!Below(v, u) \/ Store!Below(u, v)
           /\ \A v, u, z \in Cells : Store!Below(v, u) /\ Store!Below(u, z) => Store!Below(v, z)
<1>1. \A v \in Cells : v \in Nat /\ v # None
  OBVIOUS
<1> QED BY <1>1 DEF Store!Below

LEMMA BeforeOrders ==
    ASSUME NEW key, NEW sort, ListsAll(sort, key), Cells \subseteq Nat, None \notin Cells
    PROVE  /\ \A x : (\A f \in key : x[f] \in Cells) => ~ Store!Before(x, x, sort)
           /\ \A x, y : /\ \A f \in key : x[f] \in Cells /\ y[f] \in Cells
                        /\ \E f \in key : x[f] # y[f]
                        => Store!Before(x, y, sort) \/ Store!Before(y, x, sort)
           /\ \A x, y, z : /\ \A f \in key : x[f] \in Cells /\ y[f] \in Cells /\ z[f] \in Cells
                           /\ Store!Before(x, y, sort) /\ Store!Before(y, z, sort)
                           => Store!Before(x, z, sort)
<1>1. /\ DOMAIN sort = 1 .. Len(sort) /\ Len(sort) \in Nat
      /\ \A n \in DOMAIN sort : sort[n] \in key
  BY DEF ListsAll
<1>2. ASSUME NEW x, \A f \in key : x[f] \in Cells PROVE ~ Store!Before(x, x, sort)
  BY <1>1, <1>2, BelowOrders DEF Store!Before
<1>3. ASSUME NEW x, NEW y, \A f \in key : x[f] \in Cells /\ y[f] \in Cells,
             \E f \in key : x[f] # y[f]
      PROVE  Store!Before(x, y, sort) \/ Store!Before(y, x, sort)
  <2> DEFINE T == {n \in DOMAIN sort : x[sort[n]] # y[sort[n]]}
  <2>1. T # {}
    BY <1>3 DEF ListsAll
  <2>2. T \in SUBSET Nat
    BY <1>1
  <2>3. PICK n \in T : \A m \in T : n =< m
    <3> HIDE DEF T
    <3> QED BY <2>1, <2>2, LeastOf
  <2>4. n \in DOMAIN sort /\ x[sort[n]] # y[sort[n]] /\ n \in Nat
    BY <2>2
  <2>5. \A j \in 1 .. n - 1 : x[sort[j]] = y[sort[j]]
    <3> SUFFICES ASSUME NEW j \in 1 .. n - 1, x[sort[j]] # y[sort[j]] PROVE FALSE
      OBVIOUS
    <3>1. j \in DOMAIN sort /\ ~ n =< j
      BY <1>1, <2>4
    <3> QED BY <2>3, <3>1
  <2>6. Store!Below(x[sort[n]], y[sort[n]]) \/ Store!Below(y[sort[n]], x[sort[n]])
    BY <1>1, <1>3, <2>4, BelowOrders
  <2> HIDE DEF T
  <2> QED BY <2>4, <2>5, <2>6 DEF Store!Before
<1>4. ASSUME NEW x, NEW y, NEW z,
             \A f \in key : x[f] \in Cells /\ y[f] \in Cells /\ z[f] \in Cells,
             Store!Before(x, y, sort), Store!Before(y, z, sort)
      PROVE  Store!Before(x, z, sort)
  <2>1. PICK i \in DOMAIN sort : /\ Store!Below(x[sort[i]], y[sort[i]])
                                 /\ \A m \in 1 .. i - 1 : x[sort[m]] = y[sort[m]]
    BY <1>4 DEF Store!Before
  <2>2. PICK j \in DOMAIN sort : /\ Store!Below(y[sort[j]], z[sort[j]])
                                 /\ \A m \in 1 .. j - 1 : y[sort[m]] = z[sort[m]]
    BY <1>4 DEF Store!Before
  <2>3. i \in Nat /\ j \in Nat /\ i > 0 /\ j > 0
    BY <1>1
  <2>4. CASE i < j
    <3>1. i \in 1 .. j - 1 /\ \A m \in 1 .. i - 1 : m \in 1 .. j - 1
      BY <2>3, <2>4
    <3>2. Store!Below(x[sort[i]], z[sort[i]]) /\ \A m \in 1 .. i - 1 : x[sort[m]] = z[sort[m]]
      BY <2>1, <2>2, <3>1
    <3> QED BY <3>2 DEF Store!Before
  <2>5. CASE j < i
    <3>1. j \in 1 .. i - 1 /\ \A m \in 1 .. j - 1 : m \in 1 .. i - 1
      BY <2>3, <2>5
    <3>2. Store!Below(x[sort[j]], z[sort[j]]) /\ \A m \in 1 .. j - 1 : x[sort[m]] = z[sort[m]]
      BY <2>1, <2>2, <3>1
    <3> QED BY <3>2 DEF Store!Before
  <2>6. CASE i = j
    <3>1. \A m \in 1 .. i - 1 : x[sort[m]] = z[sort[m]]
      BY <2>1, <2>2, <2>6
    <3>2. Store!Below(x[sort[i]], z[sort[i]])
      BY <1>1, <1>4, <2>1, <2>2, <2>6, BelowOrders
    <3> QED BY <3>1, <3>2 DEF Store!Before
  <2> QED BY <2>3, <2>4, <2>5, <2>6
<1> QED BY <1>2, <1>3, <1>4

\* Rows that a search gives sorted by their key.
Keyfit(list, key) ==
    /\ list \in Seq(Store!Rows) /\ key \in SUBSET Fields /\ key # {}
    /\ Store!Unique(list, key)
    /\ \A i \in DOMAIN list : \A f \in key : list[i][f] # None

LEMMA AheadIsOrder ==
    ASSUME NEW list, NEW key, Keyfit(list, key), NEW sort, ListsAll(sort, key),
           Cells \subseteq Nat, None \notin Cells
    PROVE  IsOrder(1 .. Len(list), Ahead(list, sort))
<1>1. DOMAIN list = 1 .. Len(list) /\ \A i \in 1 .. Len(list) : list[i] \in Store!Rows
  BY DEF Keyfit
<1>2. \A i \in 1 .. Len(list) : \A f \in key : list[i][f] \in Cells
  BY <1>1 DEF Keyfit, Store!Rows
<1>3. ASSUME NEW i \in 1 .. Len(list), NEW j \in 1 .. Len(list), i # j
      PROVE  \E f \in key : list[i][f] # list[j][f]
  <2>1. Store!KeyOf(list[i], key) # Store!KeyOf(list[j], key)
    BY <1>1, <1>3 DEF Keyfit, Store!Unique
  <2> QED BY <2>1 DEF Store!KeyOf
<1>4. \A i, j \in 1 .. Len(list) :
        <<i, j>> \in Ahead(list, sort) <=> Store!Before(list[i], list[j], sort)
  BY DEF Ahead
<1>5. \A i \in 1 .. Len(list) : ~ Store!Before(list[i], list[i], sort)
  BY <1>2, BeforeOrders
<1>6. \A i, j \in 1 .. Len(list) : i # j =>
        Store!Before(list[i], list[j], sort) \/ Store!Before(list[j], list[i], sort)
  BY <1>2, <1>3, BeforeOrders
<1>7. \A i, j, k \in 1 .. Len(list) :
        Store!Before(list[i], list[j], sort) /\ Store!Before(list[j], list[k], sort)
          => Store!Before(list[i], list[k], sort)
  BY <1>2, BeforeOrders
<1> QED BY <1>4, <1>5, <1>6, <1>7 DEF IsOrder

\* The place of each row in a sorted list is the number of those before it.
Place(list, sort, i) == Cardinality(Preceding(1 .. Len(list), Ahead(list, sort), i))

LEMMA RanksGrow ==
    ASSUME NEW list, NEW sort, Len(list) \in Nat, IsOrder(1 .. Len(list), Ahead(list, sort))
    PROVE  /\ \A i, j \in 1 .. Len(list) :
                <<i, j>> \in Ahead(list, sort) => Place(list, sort, i) < Place(list, sort, j)
           /\ \A i, j \in 1 .. Len(list) :
                Place(list, sort, i) = Place(list, sort, j) => i = j
           /\ \A n \in 1 .. Len(list) :
                \E i \in 1 .. Len(list) : Place(list, sort, i) = n - 1
<1> DEFINE S == 1 .. Len(list)
<1>1. IsFiniteSet(S) /\ Cardinality(S) = Len(list)
  BY FS_Interval
<1>2. Numbered(S, Ahead(list, sort))
  <2> HIDE DEF S
  <2>1. IsOrder(S, Ahead(list, sort))
    BY DEF S
  <2> QED BY <1>1, <2>1, Ranked
<1> QED BY <1>1, <1>2 DEF Numbered, Place

LEMMA UpTo ==
    ASSUME NEW k \in Nat
    PROVE  IsFiniteSet(1 .. k) /\ Cardinality(1 .. k) = k
BY FS_Interval

LEMMA PlaceInOrder ==
    ASSUME NEW list, NEW sort, Len(list) \in Nat, IsOrder(1 .. Len(list), Ahead(list, sort)),
           NEW p \in Orderings(list, sort), NEW n \in 1 .. Len(list)
    PROVE  Place(list, sort, p[n]) = n - 1
<1> DEFINE N == Len(list)
           S == 1 .. N
           M == 1 .. n - 1
           R == Ahead(list, sort)
           T == Preceding(S, R, p[n])
<1>1. /\ p \in [S -> S] /\ \A a, b \in S : p[a] = p[b] => a = b
      /\ \A i, j \in S : i < j => <<p[j], p[i]>> \notin R
  BY DEF Orderings, Sorted, Ahead
<1>2. N \in Nat /\ n \in Nat /\ n - 1 \in Nat /\ M \in SUBSET S
  OBVIOUS
<1>3. /\ \A i, j \in S : i # j => <<i, j>> \in R \/ <<j, i>> \in R
      /\ \A i, j \in S : <<i, j>> \in R => <<j, i>> \notin R
      /\ \A i \in S : <<i, i>> \notin R
  BY DEF IsOrder
<1>4. p \in Surjection(S, S)
  <2> HIDE DEF S
  <2>1. IsFiniteSet(S)
    BY <1>2, FS_Interval DEF S
  <2>2. p \in Injection(S, S)
    BY <1>1 DEF Injection, IsInjective
  <2> QED BY <2>1, <2>2, FS_Injection
<1>5. \A i \in S : \E m \in S : p[m] = i
  BY <1>4 DEF Surjection
<1> HIDE DEF S, R
<1>6. T = {p[m] : m \in M}
  <2>1. ASSUME NEW m \in M PROVE p[m] \in T
    <3>1. m \in S /\ n \in S /\ m < n /\ m # n
      BY <1>2 DEF S
    <3>2. p[m] \in S /\ p[n] \in S /\ p[m] # p[n] /\ <<p[n], p[m]>> \notin R
      BY <1>1, <3>1
    <3> QED BY <1>3, <3>2 DEF Preceding
  <2>2. ASSUME NEW i \in T PROVE \E m \in M : p[m] = i
    <3>1. i \in S /\ <<i, p[n]>> \in R
      BY DEF Preceding
    <3>2. PICK m \in S : p[m] = i
      BY <1>5, <3>1
    <3>3. m # n /\ ~ n < m
      <4>1. n \in S
        BY DEF S
      <4>2. p[n] \in S
        BY <1>1, <4>1
      <4> QED BY <1>1, <1>3, <3>1, <3>2, <4>1, <4>2
    <3>4. m \in M
      BY <1>2, <3>2, <3>3 DEF S
    <3> QED BY <3>2, <3>4
  <2> HIDE DEF T, M
  <2> QED BY <2>1, <2>2
<1>7. Cardinality(T) = n - 1
  <2> DEFINE g == [m \in M |-> p[m]]
  <2>1. g \in Bijection(M, T)
    <3> HIDE DEF M, T
    <3>1. g \in [M -> T] /\ \A t \in T : \E m \in M : g[m] = t
      BY <1>6
    <3>2. \A a, b \in M : g[a] = g[b] => a = b
      BY <1>1, <1>2
    <3> HIDE DEF g
    <3> QED BY <3>1, <3>2 DEF Bijection, Injection, Surjection, IsInjective
  <2>2. IsFiniteSet(M) /\ Cardinality(M) = n - 1
    BY <1>2, UpTo
  <2> HIDE DEF g, M, T
  <2>3. ExistsBijection(M, T)
    BY <2>1 DEF ExistsBijection
  <2> QED BY <2>2, <2>3, FS_Bijection
<1> QED BY <1>7 DEF Place, S, R

\* Sorted by their key, rows come in one order only.
LEMMA OneOrder ==
    ASSUME NEW list, NEW key, Keyfit(list, key), NEW sort, ListsAll(sort, key),
           Cells \subseteq Nat, None \notin Cells
    PROVE  \E s \in Seq(Store!Rows) : Len(s) = Len(list) /\ Store!Orders(list, sort) = {s}
<1> DEFINE N == Len(list)
           place(i) == Place(list, sort, i)
           p == [n \in 1 .. N |-> CHOOSE i \in 1 .. N : place(i) = n - 1]
           s == [i \in 1 .. N |-> list[p[i]]]
<1>1. N \in Nat /\ DOMAIN list = 1 .. N /\ \A i \in 1 .. N : list[i] \in Store!Rows
  BY DEF Keyfit
<1>2. IsOrder(1 .. N, Ahead(list, sort))
  BY AheadIsOrder
<1> HIDE DEF place
<1>3. /\ \A i, j \in 1 .. N : <<i, j>> \in Ahead(list, sort) => place(i) < place(j)
      /\ \A i, j \in 1 .. N : place(i) = place(j) => i = j
      /\ \A n \in 1 .. N : \E i \in 1 .. N : place(i) = n - 1
  BY <1>1, <1>2, RanksGrow DEF place
<1>4. p \in [1 .. N -> 1 .. N] /\ \A n \in 1 .. N : place(p[n]) = n - 1
  BY <1>3
<1> HIDE DEF p
<1>5. p \in Orderings(list, sort)
  <2>1. \A a, b \in 1 .. N : p[a] = p[b] => a = b
    <3> SUFFICES ASSUME NEW a \in 1 .. N, NEW b \in 1 .. N, p[a] = p[b] PROVE a = b
      OBVIOUS
    <3>1. a - 1 = b - 1
      BY <1>4
    <3> QED BY <1>1, <3>1
  <2>2. ASSUME NEW i \in 1 .. N, NEW j \in 1 .. N, i < j
        PROVE  ~ Store!Before(list[p[j]], list[p[i]], sort)
    <3>1. p[i] \in 1 .. N /\ p[j] \in 1 .. N /\ place(p[i]) = i - 1 /\ place(p[j]) = j - 1
      BY <1>4
    <3>2. <<p[j], p[i]>> \notin Ahead(list, sort)
      <4> SUFFICES ASSUME <<p[j], p[i]>> \in Ahead(list, sort) PROVE FALSE
        OBVIOUS
      <4>1. place(p[j]) < place(p[i])
        BY <1>3, <3>1
      <4>2. j - 1 < i - 1
        BY <3>1, <4>1
      <4> QED BY <1>1, <2>2, <4>2
    <3> QED BY <3>1, <3>2 DEF Ahead
  <2> QED BY <1>4, <2>1, <2>2 DEF Orderings, Sorted
<1>6. ASSUME NEW q \in Orderings(list, sort) PROVE [i \in 1 .. N |-> list[q[i]]] = s
  <2>1. \A i \in 1 .. N : q[i] \in 1 .. N
    BY DEF Orderings
  <2>2. \A i \in 1 .. N : place(q[i]) = i - 1
    BY <1>1, <1>2, PlaceInOrder DEF place
  <2>3. ASSUME NEW i \in 1 .. N PROVE q[i] = p[i]
    <3>1. q[i] \in 1 .. N /\ p[i] \in 1 .. N
      BY <1>4, <2>1
    <3>2. place(q[i]) = place(p[i])
      BY <1>4, <2>2
    <3> QED BY <1>3, <3>1, <3>2
  <2> QED BY <2>3
<1>7. Store!Orders(list, sort) = {s}
  <2>1. Store!Orders(list, sort) = {[i \in 1 .. N |-> list[q[i]]] : q \in Orderings(list, sort)}
    BY OrdersAre
  <2> HIDE DEF s
  <2>2. s \in {[i \in 1 .. N |-> list[q[i]]] : q \in Orderings(list, sort)}
    BY <1>5 DEF s
  <2> QED BY <1>6, <2>1, <2>2
<1>8. s \in Seq(Store!Rows) /\ Len(s) = N
  BY <1>1, <1>4
<1> QED BY <1>7, <1>8

\* A page and those that follow it.
Onward(page, offset, onto) ==
    {page \o rest : rest \in IF page = <<>> \/ offset = MaxRows THEN {<<>>}
                             ELSE onto[Store!NextOffset(1, offset)]}
PageAt(t, filter, sort, offset) == Store!Search(t, filter, t.fields, sort, 1, offset)
LEMMA ProjectedIs ==
    ASSUME NEW fields, NEW list \in Seq(Store!Rows)
    PROVE  \E T : /\ Store!Projected(list, fields) \in Seq(T)
                  /\ Len(Store!Projected(list, fields)) = Len(list)
<1> DEFINE pr == Store!Projected(list, fields)
           T == {pr[i] : i \in 1 .. Len(list)}
<1>1. DOMAIN list = 1 .. Len(list) /\ Len(list) \in Nat
  OBVIOUS
<1>2. pr = [i \in 1 .. Len(list) |-> [f \in Store!ToSet(fields) |-> list[i][f]]]
  BY <1>1 DEF Store!Projected
<1>3. pr \in [1 .. Len(list) -> T]
  <2>1. DOMAIN pr = 1 .. Len(list) /\ \A i \in 1 .. Len(list) : pr[i] \in T
    BY <1>2
  <2>2. pr = [i \in DOMAIN pr |-> pr[i]]
    BY <1>2
  <2> HIDE DEF pr
  <2> QED BY <2>1, <2>2
<1> HIDE DEF pr
<1>4. pr \in Seq(T) /\ Len(pr) = Len(list)
  <2> HIDE DEF T
  <2> QED BY <1>1, <1>3
<1> QED BY <1>4 DEF pr

\* The page at an offset is the row there, if there is one.
LEMMA OnePage ==
    ASSUME NEW fields, NEW list \in Seq(Store!Rows), NEW o \in Nat
    PROVE  LET N == Len(list)
               pr == Store!Projected(list, fields)
               page == Store!Projected(SubSeq(list, o + 1, IF o + 1 < N THEN o + 1 ELSE N), fields)
           IN  page = IF o < N THEN <<pr[o + 1]>> ELSE <<>>
<1> DEFINE N == Len(list)
           last == IF o + 1 < N THEN o + 1 ELSE N
           part == SubSeq(list, o + 1, last)
           line(i) == [f \in Store!ToSet(fields) |-> list[i][f]]
<1>1. DOMAIN list = 1 .. N /\ N \in Nat
  OBVIOUS
<1>2. Store!Projected(list, fields) = [i \in 1 .. N |-> line(i)]
  BY <1>1 DEF Store!Projected
<1> HIDE DEF N
<1>3. CASE o < N
  <2>1. last = o + 1 /\ o + 1 \in 1 .. N
    BY <1>1, <1>3
  <2> HIDE DEF last
  <2>2. part = <<list[o + 1]>>
    <3>1. part \in Seq(Store!Rows) /\ Len(part) = 1 /\ part[1] = list[o + 1]
      BY <1>1, <2>1 DEF N
    <3> HIDE DEF part
    <3> QED BY <3>1
  <2> HIDE DEF part
  <2>3. Store!Projected(part, fields) = <<line(o + 1)>>
    BY <2>2 DEF Store!Projected
  <2>4. Store!Projected(list, fields)[o + 1] = line(o + 1)
    <3> HIDE DEF line
    <3> QED BY <1>2, <2>1
  <2> QED BY <1>3, <2>3, <2>4 DEF part, last, N
<1>4. CASE ~ o < N
  <2>1. last = N /\ N < o + 1
    BY <1>1, <1>4
  <2> HIDE DEF last
  <2>2. part = <<>>
    BY <1>1, <2>1, SubSeqEmpty
  <2> HIDE DEF part
  <2>3. Store!Projected(part, fields) = <<>>
    BY <2>2 DEF Store!Projected
  <2> QED BY <1>4, <2>3 DEF part, last, N
<1> QED BY <1>3, <1>4 DEF N

\* Pages that are one row each, as long as there are rows, have all of them in order.
OnePages(pr, t, filter, sort) ==
    \A o \in 0 .. MaxRows : PageAt(t, filter, sort, o) = {IF o < Len(pr) THEN <<pr[o + 1]>> ELSE <<>>}
Following(t, filter, sort) ==
    CHOOSE onto : onto =
      [offset \in 0 .. MaxRows |->
         UNION {Onward(page, offset, onto) : page \in PageAt(t, filter, sort, offset)}]

LEMMA OnePageMore ==
    ASSUME NEW T, NEW pr \in Seq(T), MaxRows \in Nat, Len(pr) =< MaxRows,
           NEW o \in 0 .. MaxRows, NEW onto,
           o # MaxRows => onto[o + 1] = {SubSeq(pr, o + 2, Len(pr))}
    PROVE  Onward(IF o < Len(pr) THEN <<pr[o + 1]>> ELSE <<>>, o, onto)
             = {SubSeq(pr, o + 1, Len(pr))}
<1> DEFINE N == Len(pr)
<1>1. N \in Nat /\ o \in Nat /\ DOMAIN pr = 1 .. N
  OBVIOUS
<1>2. Store!NextOffset(1, o) = o + 1
  BY <1>1 DEF Store!NextOffset
<1>3. CASE o < N
  <2>1. o # MaxRows /\ <<pr[o + 1]>> # <<>>
    BY <1>1, <1>3
  <2>2. Onward(<<pr[o + 1]>>, o, onto) = {<<pr[o + 1]>> \o rest : rest \in onto[o + 1]}
    BY <1>2, <2>1 DEF Onward
  <2>3. onto[o + 1] = {SubSeq(pr, o + 2, N)}
    BY <2>1
  <2>4. Onward(<<pr[o + 1]>>, o, onto) = {<<pr[o + 1]>> \o SubSeq(pr, o + 2, N)}
    BY <2>2, <2>3
  <2>5. <<pr[o + 1]>> \o SubSeq(pr, o + 2, N) = SubSeq(pr, o + 1, N)
    <3>1. o + 1 \in 1 .. Len(pr) /\ Len(pr) \in o + 1 .. Len(pr) /\ (o + 1) + 1 = o + 2
      BY <1>1, <1>3
    <3>2. SubSeq(pr, o + 1, Len(pr)) = <<pr[o + 1]>> \o SubSeq(pr, (o + 1) + 1, Len(pr))
      BY <3>1, SubSeqRecursiveFirst
    <3> QED BY <3>1, <3>2
  <2> QED BY <1>3, <2>4, <2>5
<1>4. CASE ~ o < N
  <2>1. SubSeq(pr, o + 1, N) = <<>>
    BY <1>1, <1>4
  <2>2. <<>> \o <<>> = <<>>
    OBVIOUS
  <2>3. Onward(<<>>, o, onto) = {<<>> \o rest : rest \in {<<>>}}
    BY DEF Onward
  <2>4. Onward(<<>>, o, onto) = {<<>>}
    BY <2>2, <2>3
  <2> QED BY <1>4, <2>1, <2>4
<1> QED BY <1>3, <1>4

LEMMA AllFollow ==
    ASSUME NEW T, NEW pr \in Seq(T), MaxRows \in Nat, Len(pr) =< MaxRows,
           NEW t, NEW filter, NEW sort, OnePages(pr, t, filter, sort)
    PROVE  Following(t, filter, sort)[0] = {pr}
<1> DEFINE N == Len(pr)
           here(o) == IF o < N THEN <<pr[o + 1]>> ELSE <<>>
           rest(o) == {SubSeq(pr, o + 1, N)}
           F(onto) == [o \in 0 .. MaxRows |-> UNION {Onward(page, o, onto) : page \in PageAt(t, filter, sort, o)}]
           G == [o \in 0 .. MaxRows |-> rest(o)]
           H == Following(t, filter, sort)
<1>1. N \in Nat /\ DOMAIN pr = 1 .. N
  OBVIOUS
<1>2. \A o \in 0 .. MaxRows : PageAt(t, filter, sort, o) = {here(o)}
  BY DEF OnePages
<1> HIDE DEF here
<1>3. \A o \in 0 .. MaxRows : \A onto : UNION {Onward(page, o, onto) : page \in PageAt(t, filter, sort, o)} = Onward(here(o), o, onto)
  BY <1>2
<1>4. ASSUME NEW onto, NEW o \in 0 .. MaxRows, o # MaxRows => onto[o + 1] = rest(o + 1)
      PROVE  Onward(here(o), o, onto) = rest(o)
  <2>1. (o + 1) + 1 = o + 2
    OBVIOUS
  <2> QED BY <1>4, <2>1, OnePageMore DEF here
<1> HIDE DEF rest
<1>5. F(G) = G
  <2>1. ASSUME NEW o \in 0 .. MaxRows PROVE Onward(here(o), o, G) = rest(o)
    <3>1. o # MaxRows => o + 1 \in 0 .. MaxRows
      OBVIOUS
    <3> QED BY <1>4, <3>1
  <2> HIDE DEF G
  <2>2. F(G) = [o \in 0 .. MaxRows |-> Onward(here(o), o, G)]
    BY <1>3
  <2> QED BY <2>1, <2>2 DEF G
<1>6. H = F(H)
  <2>1. H = CHOOSE onto : onto = F(onto)
    BY DEF Following
  <2> HIDE DEF F, H, G
  <2> QED BY <1>5, <2>1
<1> HIDE DEF H
<1>7. \A o \in 0 .. MaxRows : H[o] = Onward(here(o), o, H)
  BY <1>3, <1>6
<1>8. (0 .. MaxRows) = {m \in 0 .. MaxRows : H[MaxRows - m] = rest(MaxRows - m)}
  <2> DEFINE X == {m \in 0 .. MaxRows : H[MaxRows - m] = rest(MaxRows - m)}
  <2>1. X \in SUBSET (0 .. MaxRows)
    OBVIOUS
  <2>2. 0 \in X
    <3>1. MaxRows \in 0 .. MaxRows /\ MaxRows - 0 = MaxRows /\ 0 \in 0 .. MaxRows
      OBVIOUS
    <3> QED BY <1>4, <1>7, <3>1
  <2>3. ASSUME NEW m \in 0 .. MaxRows - 1, m \in X PROVE m + 1 \in X
    <3> DEFINE o == MaxRows - (m + 1)
    <3>1. o \in 0 .. MaxRows /\ o + 1 = MaxRows - m /\ m + 1 \in 0 .. MaxRows
      OBVIOUS
    <3> HIDE DEF o
    <3>2. H[o + 1] = rest(o + 1)
      BY <2>3, <3>1
    <3>3. H[o] = rest(o)
      BY <1>4, <1>7, <3>1, <3>2
    <3> QED BY <3>1, <3>3 DEF o
  <2> HIDE DEF X
  <2>4. X = 0 .. MaxRows
    BY <2>1, <2>2, <2>3, StepByStep
  <2> QED BY <2>4 DEF X
<1>9. H[0] = rest(0)
  <2>1. MaxRows \in 0 .. MaxRows /\ MaxRows - MaxRows = 0
    OBVIOUS
  <2> QED BY <1>8, <2>1
<1>10. SubSeq(pr, 1, N) = pr
  BY <1>1
<1> QED BY <1>9, <1>10 DEF rest, H

\* What a search finds of a table with rows that fit.
LEMMA SelectedFits ==
    ASSUME NEW t, TableFits(t), NEW filter, t.key # {},
           \A i \in DOMAIN Store!Selected(t, filter) : \A f \in t.key :
             Store!Selected(t, filter)[i][f] # None
    PROVE  /\ Keyfit(Store!Selected(t, filter), t.key)
           /\ Len(Store!Selected(t, filter)) =< MaxRows
           /\ Len(Store!Selected(t, filter)) \in Nat
<1> DEFINE list == t.rows
           I == Store!Matching(list, filter)
           found == Store!Selected(t, filter)
<1>1. /\ list \in Seq(Store!Rows) /\ Len(list) =< MaxRows
      /\ t.key \in SUBSET Fields /\ Store!Unique(list, t.key)
  BY DEF TableFits
<1>2. I \in SUBSET (DOMAIN list)
  BY DEF Store!Matching
<1>3. found = Store!RowsAt(list, I)
  BY DEF Store!Selected
<1> HIDE DEF found, I, list
<1>4. /\ found \in Seq(Store!Rows) /\ Len(found) = Cardinality(I) /\ Cardinality(I) \in Nat
      /\ Cardinality(I) =< Len(list)
  BY <1>1, <1>2, <1>3, RowsAtFit
<1>5. Store!Unique(found, t.key)
  BY <1>1, <1>2, <1>3, FilteredUnique
<1>6. Len(found) =< MaxRows
  <2>1. Len(list) \in Nat /\ MaxRows \in Nat
    BY <1>1, FieldsAssumption
  <2> QED BY <1>1, <1>4, <2>1
<1>7. \A i \in DOMAIN found : \A f \in t.key : found[i][f] # None
  BY DEF found
<1> QED BY <1>1, <1>4, <1>5, <1>6, <1>7 DEF Keyfit, found

\* The pages sorted by the key, one after the other, have the rows in their only order.
Covers(t, filter) ==
    LET sort == Store!SetToSeq(t.key)
        found == Store!Selected(t, filter)
        Page(offset) == PageAt(t, filter, sort, offset)
        joined == Following(t, filter, sort)[0]
    IN  /\ joined = {Store!Projected(s, t.fields) : s \in Store!Orders(found, sort)}
        /\ Store!Cardinality(joined) = 1
        /\ \A page \in Page(1) : Store!Total(t, filter, page) \in {None, Len(found)}
        /\ \A offset \in 1 .. MaxRows :
             Store!PrevOffset(1, Store!NextOffset(1, offset)) = offset

LEMMA TableCovers ==
    ASSUME NEW t, TableFits(t), NEW filter, t.key # {},
           \A i \in DOMAIN Store!Selected(t, filter) : \A f \in t.key :
             Store!Selected(t, filter)[i][f] # None
    PROVE  Covers(t, filter)
<1> DEFINE sort == Store!SetToSeq(t.key)
           found == Store!Selected(t, filter)
           joined == Following(t, filter, sort)[0]
<1>1. Keyfit(found, t.key) /\ Len(found) =< MaxRows /\ Len(found) \in Nat
  BY SelectedFits
<1>2. ListsAll(sort, t.key)
  <2>1. t.key \in SUBSET Fields
    BY DEF TableFits
  <2>2. IsFiniteSet(t.key)
    BY <2>1, FieldsAssumption, FS_Subset
  <2> QED BY <2>2, ListOf
<1> HIDE DEF found, sort
<1>3. PICK s \in Seq(Store!Rows) : Len(s) = Len(found) /\ Store!Orders(found, sort) = {s}
  BY <1>1, <1>2, OneOrder, FieldsAssumption
<1> DEFINE pr == Store!Projected(s, t.fields)
<1>4. PICK T : pr \in Seq(T) /\ Len(pr) = Len(s)
  BY ProjectedIs
<1>5. OnePages(pr, t, filter, sort)
  <2> SUFFICES ASSUME NEW o \in 0 .. MaxRows
               PROVE  PageAt(t, filter, sort, o) = {IF o < Len(pr) THEN <<pr[o + 1]>> ELSE <<>>}
    BY DEF OnePages
  <2> DEFINE Part(x) == SubSeq(x, o + 1, IF o + 1 < Len(x) THEN o + 1 ELSE Len(x))
             page == Store!Projected(Part(s), t.fields)
  <2>1. PageAt(t, filter, sort, o) = Store!Search(t, filter, t.fields, sort, 1, o)
    BY DEF PageAt
  <2>2. Store!Search(t, filter, t.fields, sort, 1, o) =
          {Store!Projected(Part(x), t.fields) : x \in Store!Orders(found, sort)}
    BY DEF Store!Search, found
  <2>3. PageAt(t, filter, sort, o) = {page}
    <3> HIDE DEF Part
    <3> QED BY <1>3, <2>1, <2>2
  <2>4. page = IF o < Len(s) THEN <<pr[o + 1]>> ELSE <<>>
    <3>1. o \in Nat
      BY FieldsAssumption
    <3> QED BY <3>1, OnePage
  <2> HIDE DEF page, pr
  <2> QED BY <1>4, <2>3, <2>4
<1>6. joined = {pr}
  <2> HIDE DEF pr
  <2> QED BY <1>1, <1>3, <1>4, <1>5, AllFollow, FieldsAssumption
<1> HIDE DEF joined
<1>7. {Store!Projected(x, t.fields) : x \in Store!Orders(found, sort)} = {pr}
  BY <1>3
<1> HIDE DEF pr
<1>8. Store!Cardinality(joined) = 1
  <2>1. Store!Cardinality(joined) = Cardinality(joined)
    BY DEF Store!Cardinality, Cardinality
  <2> QED BY <1>6, <2>1, FS_Singleton
<1>9. \A page : Store!Total(t, filter, page) \in {None, Len(found)}
  BY DEF Store!Total, found
<1>10. \A offset \in 1 .. MaxRows : Store!PrevOffset(1, Store!NextOffset(1, offset)) = offset
  <2> SUFFICES ASSUME NEW offset \in 1 .. MaxRows
               PROVE  Store!PrevOffset(1, Store!NextOffset(1, offset)) = offset
    OBVIOUS
  <2>1. offset \in Nat /\ offset + 1 > 1 /\ (offset + 1) - 1 = offset
    BY FieldsAssumption
  <2> QED BY <2>1 DEF Store!PrevOffset, Store!NextOffset
<1> QED BY <1>6, <1>7, <1>8, <1>9, <1>10 DEF Covers, joined, found, sort

LEMMA FollowingIs ==
    ASSUME NEW t, NEW filter, NEW sort
    PROVE  Following(t, filter, sort) =
             CHOOSE From : From =
               [offset \in 0 .. MaxRows |->
                  UNION {{page \o rest : rest \in IF page = <<>> \/ offset = MaxRows THEN {<<>>}
                                                  ELSE From[Store!NextOffset(1, offset)]} :
                           page \in Store!Search(t, filter, t.fields, sort, 1, offset)}]
BY DEF Following, Onward, PageAt

LEMMA PagesCoverIs ==
    ASSUME RowsFit
    PROVE  Store!PagesCover
<1>1. ASSUME NEW r \in Store!Tables, NEW filter \in Filters \ {None}, table[r].key # {},
             \A i \in DOMAIN Store!Selected(table[r], filter) : \A f \in table[r].key :
               Store!Selected(table[r], filter)[i][f] # None
      PROVE  Covers(table[r], filter)
  <2>1. TableFits(table[r])
    BY RowsFitIs
  <2> HIDE DEF Store!Selected
  <2> QED BY <1>1, <2>1, TableCovers
<1> QED BY <1>1, FollowingIs DEF Store!PagesCover, Covers, PageAt

\* TablesKeepData, of db.create, upsert_data, delete_data and search_data: whatever is
\* created, changed and deleted, the columns that a table has stay its first ones; an upsert
\* leaves one row for every key it names, with what the last records say of each column and
\* otherwise what the row said, and the other rows as they are; a deletion takes the rows
\* that a search with its filters finds, and no other; and the pages of a search that is
\* sorted by the key, followed by their links, have every row that matches, once.
THEOREM TablesKeepTheirData == ServicesSpec => TablesKeepData
<1>1. DataInv /\ [Store!Next]_Store!vars => DataInv'
  BY DataStep
<1>2. DataInv => Store!PagesCover
  BY PagesCoverIs DEF DataInv
<1>3. Store!Spec => [][MergedNow]_Store!vars /\ [][DeletedNow]_Store!vars /\ []Store!PagesCover
  BY <1>1, <1>2, DataInitially, UpsertsFit, DeletedFit, PTL DEF Store!Spec
<1> QED BY <1>3, ColumnsStayInPlace, ServicesRunStore, UpsertMergesIs, DeletedAreFoundIs, PTL
     DEF TablesKeepData

-----------------------------------------------------------------------------
(***************************************************************************)
(* The DataPusher.                                                         *)
(***************************************************************************)
LEMMA ServicesRunPusher == ServicesSpec => Pusher!Spec
<1>1. ServicesInit => Pusher!Init
  BY DEF ServicesInit
<1>2. [ServicesNext]_all => [Pusher!Next]_Pusher!vars
  BY DEF ServicesNext, all, pushVars, Pusher!vars
<1> QED BY <1>1, <1>2, PTL DEF ServicesSpec, Pusher!Spec

Jobs == [res : Resources, at : {"queued", "calling", "over"}, setType : BOOLEAN]
InHand == {"kind", "res", "known", "job", "row", "setType"}
Coming == {w \in Workers : pushPc[w] \in {"write", "post"}}
Numbers == DOMAIN jobs

\* Rows, jobs and what the workers have in their hands have their types.
PusherTyped ==
    /\ task = [r \in Resources |-> task[r]]
    /\ \A r \in Resources : task[r] # None => DOMAIN task[r] = {"state", "job"}
    /\ jobs \in Seq(Jobs)
    /\ pushPc \in [Workers -> Pusher!Steps]
    /\ loc = [w \in Workers |-> loc[w]]
    /\ asked \in Nat

HandsTyped ==
    \A w \in Workers :
       /\ pushPc[w] # "idle" => loc[w].res \in Resources
       /\ pushPc[w] \in {"write", "post"} => DOMAIN loc[w] = InHand /\ loc[w].setType \in BOOLEAN
       /\ pushPc[w] = "hook" => DOMAIN loc[w].row = {"state", "job"}

\* A row names a job of its resource, and so does what a worker has read or was told.
JobsFit ==
    /\ \A r \in Resources : task[r] # None /\ task[r].job # 0 =>
         task[r].job \in Numbers /\ jobs[task[r].job].res = r
    /\ \A w \in Workers : pushPc[w] \in {"accepted", "hook"} =>
         loc[w].job \in Numbers /\ jobs[loc[w].job].res = loc[w].res
    /\ \A w \in Workers : pushPc[w] = "hook" /\ loc[w].row.job # 0 =>
         loc[w].row.job \in Numbers /\ jobs[loc[w].row.job].res = loc[w].res

\* A job whose submission has yet to write its pending is not over, unless the callback
\* was early.
NotYetOver ==
    \A w \in Workers : pushPc[w] = "accepted" /\ loc[w].res \notin upset =>
       jobs[loc[w].job].at # "over"

\* A task that is not final has a submission at work on it, or a job that is not over.
UnderWay ==
    \A r \in Resources \ upset : task[r] # None =>
       \/ task[r].state \in Pusher!Final
       \/ \E w \in Workers : pushPc[w] \in {"post", "refused", "accepted"} /\ loc[w].res = r
       \/ task[r].state = "pending" /\ task[r].job \in Numbers /\ jobs[task[r].job].at # "over"

\* What was asked for is a job, or a submission that may still become one, or has ended.
AskedCovers == Len(jobs) + Cardinality(Coming) =< asked

PusherInv ==
    PusherTyped /\ HandsTyped /\ JobsFit /\ NotYetOver /\ UnderWay /\ AskedCovers

LEMMA PusherInitially == Pusher!Init => PusherInv
<1> SUFFICES ASSUME Pusher!Init
             PROVE  PusherInv
  OBVIOUS
<1>1. PusherTyped /\ HandsTyped /\ JobsFit /\ NotYetOver /\ UnderWay
  BY DEF Pusher!Init, PusherTyped, HandsTyped, JobsFit, NotYetOver, UnderWay, Pusher!Steps
<1>2. AskedCovers
  <2>1. Coming = {}
    BY DEF Pusher!Init, Coming
  <2>2. Len(jobs) = 0 /\ asked = 0
    BY DEF Pusher!Init
  <2>3. Cardinality({}) = 0
    BY FS_EmptySet
  <2> QED BY <2>1, <2>2, <2>3 DEF AskedCovers
<1> QED BY <1>1, <1>2 DEF PusherInv

\* A worker takes a step, with something else in its hands or with the same.
LEMMA PusherMoves ==
    ASSUME PusherInv, NEW w \in Workers, NEW step \in Pusher!Steps, NEW q,
           pushPc' = [pushPc EXCEPT ![w] = step], loc' = [loc EXCEPT ![w] = q]
    PROVE  /\ pushPc' \in [Workers -> Pusher!Steps]
           /\ loc' = [v \in Workers |-> loc'[v]]
           /\ pushPc'[w] = step /\ loc'[w] = q
           /\ \A v \in Workers \ {w} : pushPc'[v] = pushPc[v] /\ loc'[v] = loc[v]
  BY DEF PusherInv, PusherTyped

LEMMA ComingFinite == IsFiniteSet(Coming) /\ Cardinality(Coming) \in Nat
<1>1. IsFiniteSet(Coming)
  BY FS_Subset, SlotsAssumption DEF Coming
<1> QED BY <1>1, FS_CardinalityType

\* How many submissions may still become jobs when a worker takes a step.
LEMMA ComingMoves ==
    ASSUME PusherInv, NEW w \in Workers, NEW step \in Pusher!Steps,
           pushPc' = [pushPc EXCEPT ![w] = step]
    PROVE  /\ Cardinality(Coming) \in Nat
           /\ Cardinality(Coming') \in Nat
           /\ step \notin {"write", "post"} => Cardinality(Coming') =< Cardinality(Coming)
           /\ step \notin {"write", "post"} /\ pushPc[w] = "post" =>
                Cardinality(Coming') + 1 = Cardinality(Coming)
           /\ step = "post" /\ pushPc[w] = "write" =>
                Cardinality(Coming') = Cardinality(Coming)
           /\ Cardinality(Coming') =< Cardinality(Coming) + 1
<1>1. /\ pushPc'[w] = step
      /\ \A v \in Workers \ {w} : pushPc'[v] = pushPc[v]
  BY DEF PusherInv, PusherTyped
<1>2. step \in {"write", "post"} => Coming' = Coming \cup {w}
  BY <1>1 DEF Coming
<1>3. step \notin {"write", "post"} => Coming' = Coming \ {w}
  BY <1>1 DEF Coming
<1>4. pushPc[w] \in {"write", "post"} <=> w \in Coming
  BY DEF Coming
<1>5. /\ Cardinality(Coming) \in Nat /\ Cardinality(Coming) \in Int
      /\ IsFiniteSet(Coming)
  BY ComingFinite
<1>6. Cardinality(Coming \cup {w}) =
        IF w \in Coming THEN Cardinality(Coming) ELSE Cardinality(Coming) + 1
  BY <1>5, FS_AddElement
<1>7. /\ IsFiniteSet(Coming \ {w})
      /\ Cardinality(Coming \ {w}) =
           IF w \in Coming THEN Cardinality(Coming) - 1 ELSE Cardinality(Coming)
  BY <1>5, FS_RemoveElement
<1>8. Cardinality(Coming \ {w}) \in Nat
  BY <1>7, FS_CardinalityType
<1> HIDE DEF Coming
<1>9. CASE step \in {"write", "post"}
  BY <1>2, <1>4, <1>5, <1>6, <1>9
<1>10. CASE step \notin {"write", "post"}
  BY <1>3, <1>4, <1>5, <1>7, <1>8, <1>10
<1> QED BY <1>9, <1>10

LEMMA SubmitKeeps ==
    ASSUME PusherInv, NEW w \in Workers, NEW r \in Resources, NEW kind, NEW setType \in BOOLEAN,
           Pusher!Submit(w, r, kind, setType), asked' = asked + 1,
           UNCHANGED <<task, jobs, upset>>
    PROVE  PusherInv'
<1> DEFINE q == [kind |-> kind, res |-> r, known |-> task[r] # None, job |-> 0, row |-> None,
                 setType |-> setType]
<1>1. /\ pushPc[w] = "idle"
      /\ pushPc' = [pushPc EXCEPT ![w] = "write"] /\ loc' = [loc EXCEPT ![w] = q]
      /\ "write" \in Pusher!Steps
  BY DEF Pusher!Submit, Pusher!Goto, Pusher!Steps
<1>2. q.res = r /\ q.setType = setType /\ DOMAIN q = InHand
  BY DEF InHand
<1> HIDE DEF q
<1>3. /\ pushPc' \in [Workers -> Pusher!Steps]
      /\ loc' = [v \in Workers |-> loc'[v]]
      /\ pushPc'[w] = "write" /\ loc'[w] = q
      /\ \A v \in Workers \ {w} : pushPc'[v] = pushPc[v] /\ loc'[v] = loc[v]
  BY <1>1, PusherMoves
<1>4. PusherTyped' BY <1>3 DEF PusherInv, PusherTyped
<1>5. HandsTyped' BY <1>2, <1>3 DEF PusherInv, HandsTyped
<1>6. JobsFit' BY <1>3 DEF PusherInv, JobsFit, Numbers
<1>7. NotYetOver' BY <1>3 DEF PusherInv, NotYetOver
<1>8. UnderWay' BY <1>1, <1>3 DEF PusherInv, UnderWay, Numbers
<1>9. AskedCovers'
  <2>1. Cardinality(Coming') \in Nat /\ Cardinality(Coming) \in Nat
        /\ Cardinality(Coming') =< Cardinality(Coming) + 1
    BY <1>1, ComingMoves
  <2>2. Len(jobs) \in Nat /\ asked \in Nat
    BY DEF PusherInv, PusherTyped
  <2> HIDE DEF Coming
  <2> QED BY <2>1, <2>2 DEF PusherInv, AskedCovers
<1> QED BY <1>4, <1>5, <1>6, <1>7, <1>8, <1>9 DEF PusherInv

\* What does not take a job leaves the number of submissions that may become one.
LEMMA NoJobKeeps ==
    ASSUME PusherInv, NEW w \in Workers, NEW step \in Pusher!Steps,
           step # "write", pushPc[w] = "write" \/ step # "post",
           pushPc' = [pushPc EXCEPT ![w] = step],
           Len(jobs') = Len(jobs), asked' = asked
    PROVE  AskedCovers'
<1>1. /\ Cardinality(Coming') \in Nat /\ Cardinality(Coming) \in Nat
      /\ Cardinality(Coming') =< Cardinality(Coming)
  <2>1. CASE step = "post"
    <3>1. Cardinality(Coming') = Cardinality(Coming) /\ Cardinality(Coming) \in Nat
      BY <2>1, ComingMoves
    <3> QED BY <3>1
  <2>2. CASE step # "post"
    BY <2>2, ComingMoves
  <2> QED BY <2>1, <2>2
<1>2. Len(jobs) \in Nat /\ asked \in Nat
  BY DEF PusherInv, PusherTyped
<1> HIDE DEF Coming
<1> QED BY <1>1, <1>2 DEF PusherInv, AskedCovers

\* A worker that writes the row of its resource, with another state and a job of the
\* resource or none.
LEMMA RowKeeps ==
    ASSUME PusherInv, NEW w \in Workers, pushPc[w] \notin {"idle", "hook"},
           NEW row, DOMAIN row = {"state", "job"},
           row.job # 0 => row.job \in Numbers /\ jobs[row.job].res = loc[w].res,
           NEW step \in Pusher!Steps, step \notin {"write", "accepted", "hook"},
           pushPc[w] = "write" \/ step # "post", NEW q,
           step # "idle" => q = loc[w],
           pushPc' = [pushPc EXCEPT ![w] = step], loc' = [loc EXCEPT ![w] = q],
           task' = [task EXCEPT ![loc[w].res] = row],
           \/ row.state \in Pusher!Final
           \/ step \in {"post", "refused"}
           \/ row.state = "pending" /\ row.job \in Numbers
              /\ (loc[w].res \notin upset => jobs[row.job].at # "over"),
           UNCHANGED <<jobs, upset, asked>>
    PROVE  PusherInv'
<1>1. loc[w].res \in Resources
  BY DEF PusherInv, HandsTyped
<1>2. /\ pushPc' \in [Workers -> Pusher!Steps]
      /\ loc' = [v \in Workers |-> loc'[v]]
      /\ pushPc'[w] = step /\ loc'[w] = q
      /\ \A v \in Workers \ {w} : pushPc'[v] = pushPc[v] /\ loc'[v] = loc[v]
  BY PusherMoves
<1>3. /\ task' = [r \in Resources |-> task'[r]]
      /\ task'[loc[w].res] = row
      /\ \A r \in Resources \ {loc[w].res} : task'[r] = task[r]
  BY <1>1 DEF PusherInv, PusherTyped
<1>4. PusherTyped' BY <1>2, <1>3 DEF PusherInv, PusherTyped
<1>5. HandsTyped' BY <1>1, <1>2 DEF PusherInv, HandsTyped
<1>6. JobsFit' BY <1>2, <1>3 DEF PusherInv, JobsFit, Numbers
<1>7. NotYetOver' BY <1>2 DEF PusherInv, NotYetOver
<1>8. UnderWay'
  <2> SUFFICES ASSUME NEW r \in Resources, r \notin upset, task'[r] # None,
                      task'[r].state \notin Pusher!Final,
                      \A v \in Workers :
                        ~ (pushPc'[v] \in {"post", "refused", "accepted"} /\ loc'[v].res = r)
               PROVE  task'[r].state = "pending" /\ task'[r].job \in Numbers
                      /\ jobs[task'[r].job].at # "over"
    BY DEF UnderWay, Numbers
  <2>1. CASE r = loc[w].res
    BY <2>1, <1>2, <1>3
  <2>2. CASE r # loc[w].res
    BY <2>2, <1>2, <1>3 DEF PusherInv, UnderWay
  <2> QED BY <2>1, <2>2
<1>9. AskedCovers' BY NoJobKeeps
<1> QED BY <1>4, <1>5, <1>6, <1>7, <1>8, <1>9 DEF PusherInv

\* A worker that leaves its request where no task depends on it, and perhaps one more
\* resource upset.
LEMMA LeavingKeeps ==
    ASSUME PusherInv, NEW w \in Workers, pushPc[w] # "idle", Pusher!Idle(w),
           upset \subseteq upset',
           pushPc[w] \in {"post", "refused", "accepted"} => loc[w].res \in upset',
           UNCHANGED <<task, jobs, asked>>
    PROVE  PusherInv'
<1> DEFINE q == Pusher!NoRequest
<1>1. /\ pushPc' = [pushPc EXCEPT ![w] = "idle"] /\ loc' = [loc EXCEPT ![w] = q]
      /\ "idle" \in Pusher!Steps
  BY DEF Pusher!Idle, Pusher!Steps
<1> HIDE DEF q
<1>2. /\ pushPc' \in [Workers -> Pusher!Steps]
      /\ loc' = [v \in Workers |-> loc'[v]]
      /\ pushPc'[w] = "idle"
      /\ \A v \in Workers \ {w} : pushPc'[v] = pushPc[v] /\ loc'[v] = loc[v]
  BY <1>1, PusherMoves
<1>3. PusherTyped' BY <1>2 DEF PusherInv, PusherTyped
<1>4. HandsTyped' BY <1>2 DEF PusherInv, HandsTyped
<1>5. JobsFit' BY <1>2 DEF PusherInv, JobsFit, Numbers
<1>6. NotYetOver' BY <1>2 DEF PusherInv, NotYetOver
<1>7. UnderWay' BY <1>2 DEF PusherInv, UnderWay, Numbers
<1>8. AskedCovers' BY <1>1, NoJobKeeps
<1> QED BY <1>3, <1>4, <1>5, <1>6, <1>7, <1>8 DEF PusherInv

LEMMA PostKeeps ==
    ASSUME PusherInv, NEW w \in Workers, Pusher!PostAccepted(w)
    PROVE  PusherInv'
<1> DEFINE job == [res |-> loc[w].res, at |-> "queued", setType |-> loc[w].setType]
           q == [loc[w] EXCEPT !.job = Len(jobs) + 1]
<1>1. /\ pushPc[w] = "post" /\ jobs' = Append(jobs, job)
      /\ UNCHANGED <<task, asked, upset>>
      /\ pushPc' = [pushPc EXCEPT ![w] = "accepted"]
      /\ "accepted" \in Pusher!Steps
  BY DEF Pusher!PostAccepted, Pusher!Goto, Pusher!Steps
<1>2. loc' = [loc EXCEPT ![w] = q]
  BY DEF Pusher!PostAccepted
<1>3. /\ loc[w].res \in Resources /\ DOMAIN loc[w] = InHand /\ loc[w].setType \in BOOLEAN
      /\ jobs \in Seq(Jobs) /\ asked \in Nat
  BY <1>1 DEF PusherInv, PusherTyped, HandsTyped
<1>4. q.job = Len(jobs) + 1 /\ q.res = loc[w].res
  BY <1>3 DEF InHand
<1>5. job \in Jobs /\ job.res = loc[w].res /\ job.at = "queued"
  BY <1>3 DEF Jobs
<1> HIDE DEF q, job
<1>6. /\ jobs' \in Seq(Jobs) /\ Len(jobs') = Len(jobs) + 1 /\ Len(jobs) \in Nat
      /\ Numbers \subseteq Numbers' /\ q.job \in Numbers'
      /\ jobs'[q.job] = job
      /\ \A j \in Numbers : jobs'[j] = jobs[j]
  BY <1>1, <1>3, <1>4, <1>5 DEF Numbers
<1>7. /\ pushPc' \in [Workers -> Pusher!Steps]
      /\ loc' = [v \in Workers |-> loc'[v]]
      /\ pushPc'[w] = "accepted" /\ loc'[w] = q
      /\ \A v \in Workers \ {w} : pushPc'[v] = pushPc[v] /\ loc'[v] = loc[v]
  BY <1>1, <1>2, PusherMoves
<1>8. PusherTyped' BY <1>1, <1>6, <1>7 DEF PusherInv, PusherTyped
<1>9. HandsTyped' BY <1>3, <1>4, <1>7 DEF PusherInv, HandsTyped
<1>10. JobsFit'
  <2>1. \A r \in Resources : task'[r] # None /\ task'[r].job # 0 =>
          task'[r].job \in Numbers' /\ jobs'[task'[r].job].res = r
    BY <1>1, <1>6 DEF PusherInv, JobsFit
  <2>2. \A v \in Workers : pushPc'[v] \in {"accepted", "hook"} =>
          loc'[v].job \in Numbers' /\ jobs'[loc'[v].job].res = loc'[v].res
    BY <1>4, <1>5, <1>6, <1>7 DEF PusherInv, JobsFit
  <2>3. \A v \in Workers : pushPc'[v] = "hook" /\ loc'[v].row.job # 0 =>
          loc'[v].row.job \in Numbers' /\ jobs'[loc'[v].row.job].res = loc'[v].res
    BY <1>6, <1>7 DEF PusherInv, JobsFit
  <2> QED BY <2>1, <2>2, <2>3 DEF JobsFit
<1>11. NotYetOver'
  <2> SUFFICES ASSUME NEW v \in Workers, pushPc'[v] = "accepted", loc'[v].res \notin upset
               PROVE  jobs'[loc'[v].job].at # "over"
    BY <1>1 DEF NotYetOver
  <2>1. CASE v = w
    BY <2>1, <1>5, <1>6, <1>7
  <2>2. CASE v # w
    BY <2>2, <1>6, <1>7 DEF PusherInv, NotYetOver, JobsFit
  <2> QED BY <2>1, <2>2
<1>12. UnderWay'
  <2> SUFFICES ASSUME NEW r \in Resources, r \notin upset, task[r] # None,
                      task[r].state \notin Pusher!Final,
                      \A v \in Workers :
                        ~ (pushPc'[v] \in {"post", "refused", "accepted"} /\ loc'[v].res = r)
               PROVE  task[r].state = "pending" /\ task[r].job \in Numbers'
                      /\ jobs'[task[r].job].at # "over"
    BY <1>1 DEF UnderWay, Numbers
  <2> QED BY <1>4, <1>6, <1>7 DEF PusherInv, UnderWay
<1>13. AskedCovers'
  <2>1. /\ Cardinality(Coming) \in Nat /\ Cardinality(Coming') \in Nat
        /\ Cardinality(Coming') + 1 = Cardinality(Coming)
    BY <1>1, ComingMoves
  <2> HIDE DEF Coming
  <2> QED BY <1>1, <1>3, <1>6, <2>1 DEF PusherInv, AskedCovers
<1> QED BY <1>8, <1>9, <1>10, <1>11, <1>12, <1>13 DEF PusherInv

\* A job that is called back, or is over.
LEMMA JobMoves ==
    ASSUME PusherInv, NEW j \in Numbers, NEW phase \in {"calling", "over"},
           jobs' = [jobs EXCEPT ![j].at = phase]
    PROVE  /\ jobs' \in Seq(Jobs) /\ Numbers' = Numbers /\ Len(jobs') = Len(jobs)
           /\ jobs'[j].at = phase
           /\ \A k \in Numbers : jobs'[k].res = jobs[k].res
           /\ \A k \in Numbers \ {j} : jobs'[k] = jobs[k]
<1> DEFINE job == [jobs[j] EXCEPT !.at = phase]
<1>1. jobs \in Seq(Jobs)
  BY DEF PusherInv, PusherTyped
<1>2. j \in 1 .. Len(jobs) /\ jobs[j] \in Jobs
  BY <1>1 DEF Numbers
<1>3. job \in Jobs /\ job.at = phase /\ job.res = jobs[j].res
  BY <1>2 DEF Jobs
<1>4. jobs' = [jobs EXCEPT ![j] = job]
  OBVIOUS
<1> HIDE DEF job
<1> QED BY <1>1, <1>2, <1>3, <1>4 DEF Numbers

LEMMA CallbackKeeps ==
    ASSUME PusherInv, NEW w \in Workers, NEW j \in Numbers, Pusher!Callback(w, j)
    PROVE  PusherInv'
<1> DEFINE r == jobs[j].res
           q == [Pusher!NoRequest EXCEPT !.kind = "hook", !.res = r, !.job = j, !.row = task[r]]
<1>1. r \in Resources /\ jobs \in Seq(Jobs)
  <2>1. jobs \in Seq(Jobs) /\ j \in 1 .. Len(jobs)
    BY DEF PusherInv, PusherTyped, Numbers
  <2>2. jobs[j] \in Jobs
    BY <2>1
  <2> QED BY <2>1, <2>2 DEF Jobs
<1>2. /\ pushPc[w] = "idle" /\ jobs[j].at = "queued"
      /\ UNCHANGED <<task, asked>>
  BY DEF Pusher!Callback
<1>3. ASSUME r \in exists, task[r] # None
      PROVE  PusherInv'
  <2>1. /\ pushPc' = [pushPc EXCEPT ![w] = "hook"] /\ loc' = [loc EXCEPT ![w] = q]
        /\ jobs' = [jobs EXCEPT ![j].at = "calling"] /\ upset' = upset
        /\ "hook" \in Pusher!Steps
    BY <1>3 DEF Pusher!Callback, Pusher!Goto, Pusher!Steps
  <2>2. q.res = r /\ q.job = j /\ q.row = task[r]
    BY DEF Pusher!NoRequest
  <2> HIDE DEF q
  <2>3. /\ pushPc' \in [Workers -> Pusher!Steps]
        /\ loc' = [v \in Workers |-> loc'[v]]
        /\ pushPc'[w] = "hook" /\ loc'[w] = q
        /\ \A v \in Workers \ {w} : pushPc'[v] = pushPc[v] /\ loc'[v] = loc[v]
    BY <2>1, PusherMoves
  <2>4. /\ jobs' \in Seq(Jobs) /\ Numbers' = Numbers /\ Len(jobs') = Len(jobs)
        /\ jobs'[j].at = "calling"
        /\ \A k \in Numbers : jobs'[k].res = jobs[k].res
        /\ \A k \in Numbers \ {j} : jobs'[k] = jobs[k]
    BY <2>1, JobMoves
  <2> HIDE DEF r, Numbers
  <2>5. PusherTyped' BY <1>2, <2>3, <2>4 DEF PusherInv, PusherTyped
  <2>6. HandsTyped'
    BY <1>1, <1>3, <2>2, <2>3 DEF PusherInv, HandsTyped, PusherTyped
  <2>7. JobsFit'
    <3>1. r = jobs[j].res
      BY DEF r
    <3>2. \A s \in Resources : task'[s] # None /\ task'[s].job # 0 =>
            task'[s].job \in Numbers' /\ jobs'[task'[s].job].res = s
      BY <1>2, <2>4 DEF PusherInv, JobsFit
    <3>3. \A v \in Workers : pushPc'[v] \in {"accepted", "hook"} =>
            loc'[v].job \in Numbers' /\ jobs'[loc'[v].job].res = loc'[v].res
      BY <2>2, <2>3, <2>4, <3>1 DEF PusherInv, JobsFit
    <3>4. \A v \in Workers : pushPc'[v] = "hook" /\ loc'[v].row.job # 0 =>
            loc'[v].row.job \in Numbers' /\ jobs'[loc'[v].row.job].res = loc'[v].res
      BY <1>1, <1>3, <2>2, <2>3, <2>4 DEF PusherInv, JobsFit
    <3> QED BY <3>2, <3>3, <3>4 DEF JobsFit
  <2>8. NotYetOver'
    BY <2>1, <2>3, <2>4 DEF PusherInv, NotYetOver, JobsFit
  <2>9. UnderWay'
    <3> SUFFICES ASSUME NEW s \in Resources, s \notin upset, task[s] # None,
                        task[s].state \notin Pusher!Final,
                        \A v \in Workers :
                          ~ (pushPc'[v] \in {"post", "refused", "accepted"} /\ loc'[v].res = s)
                 PROVE  task[s].state = "pending" /\ task[s].job \in Numbers'
                        /\ jobs'[task[s].job].at # "over"
      BY <1>2, <2>1 DEF UnderWay
    <3>1. task[s].state = "pending" /\ task[s].job \in Numbers /\ jobs[task[s].job].at # "over"
      BY <1>2, <2>3 DEF PusherInv, UnderWay
    <3> QED BY <2>4, <3>1
  <2>10. AskedCovers' BY <1>2, <2>1, <2>4, NoJobKeeps
  <2> QED BY <2>5, <2>6, <2>7, <2>8, <2>9, <2>10 DEF PusherInv
<1>4. ASSUME ~ (r \in exists /\ task[r] # None)
      PROVE  PusherInv'
  <2>1. /\ pushPc' = pushPc /\ loc' = loc
        /\ jobs' = [jobs EXCEPT ![j].at = "over"] /\ upset' = upset \cup {r}
    BY <1>4 DEF Pusher!Callback
  <2>2. /\ jobs' \in Seq(Jobs) /\ Numbers' = Numbers /\ Len(jobs') = Len(jobs)
        /\ \A k \in Numbers : jobs'[k].res = jobs[k].res
        /\ \A k \in Numbers \ {j} : jobs'[k] = jobs[k]
    BY <2>1, JobMoves
  <2>3. r = jobs[j].res
    OBVIOUS
  <2> HIDE DEF r, Numbers
  <2>4. PusherTyped' BY <1>2, <2>1, <2>2 DEF PusherInv, PusherTyped
  <2>5. HandsTyped' BY <2>1 DEF PusherInv, HandsTyped
  <2>6. JobsFit' BY <1>2, <2>1, <2>2 DEF PusherInv, JobsFit
  <2>7. NotYetOver' BY <2>1, <2>2, <2>3 DEF PusherInv, NotYetOver, JobsFit
  <2>8. UnderWay'
    <3> SUFFICES ASSUME NEW s \in Resources, s \notin upset, s # r, task[s] # None,
                        task[s].state \notin Pusher!Final,
                        \A v \in Workers :
                          ~ (pushPc[v] \in {"post", "refused", "accepted"} /\ loc[v].res = s)
                 PROVE  task[s].state = "pending" /\ task[s].job \in Numbers'
                        /\ jobs'[task[s].job].at # "over"
      BY <1>2, <2>1 DEF UnderWay
    <3>1. task[s].state = "pending" /\ task[s].job \in Numbers /\ jobs[task[s].job].at # "over"
      BY DEF PusherInv, UnderWay
    <3>2. j # 0 /\ 0 \notin Numbers
      BY <1>1 DEF Numbers
    <3>3. task[s].job # j
      BY <2>3, <3>1, <3>2 DEF PusherInv, JobsFit
    <3> QED BY <2>2, <3>1, <3>3
  <2>9. AskedCovers'
    <3>1. Coming' = Coming
      BY <2>1 DEF Coming
    <3> QED BY <1>2, <2>2, <3>1 DEF PusherInv, AskedCovers
  <2> QED BY <2>4, <2>5, <2>6, <2>7, <2>8, <2>9 DEF PusherInv
<1> QED BY <1>3, <1>4

LEMMA HookKeeps ==
    ASSUME PusherInv, NEW w \in Workers, NEW status \in Pusher!Final, Pusher!HookWrite(w, status)
    PROVE  PusherInv'
<1> DEFINE r == loc[w].res
           j == loc[w].job
           row == [loc[w].row EXCEPT !.state = status]
           q == Pusher!NoRequest
<1>1. /\ pushPc[w] = "hook"
      /\ pushPc' = [pushPc EXCEPT ![w] = "idle"] /\ loc' = [loc EXCEPT ![w] = q]
      /\ "idle" \in Pusher!Steps
      /\ task' = [task EXCEPT ![r] = row]
      /\ jobs' = [jobs EXCEPT ![j].at = "over"]
      /\ upset' = IF Pusher!Early(j) THEN upset \cup {r} ELSE upset
      /\ asked' = asked
  BY DEF Pusher!HookWrite, Pusher!Idle, Pusher!Steps
<1>2. /\ r \in Resources /\ jobs \in Seq(Jobs)
      /\ DOMAIN loc[w].row = {"state", "job"}
      /\ j \in Numbers /\ jobs[j].res = r
      /\ loc[w].row.job # 0 => loc[w].row.job \in Numbers /\ jobs[loc[w].row.job].res = r
  BY <1>1 DEF PusherInv, PusherTyped, HandsTyped, JobsFit
<1>3. row.state = status /\ row.job = loc[w].row.job /\ DOMAIN row = {"state", "job"}
  BY <1>2
<1> HIDE DEF q, row
<1>4. /\ pushPc' \in [Workers -> Pusher!Steps]
      /\ loc' = [v \in Workers |-> loc'[v]]
      /\ pushPc'[w] = "idle"
      /\ \A v \in Workers \ {w} : pushPc'[v] = pushPc[v] /\ loc'[v] = loc[v]
  BY <1>1, PusherMoves
<1> HIDE DEF r, j
<1>5. /\ jobs' \in Seq(Jobs) /\ Numbers' = Numbers /\ Len(jobs') = Len(jobs)
      /\ \A k \in Numbers : jobs'[k].res = jobs[k].res
      /\ \A k \in Numbers \ {j} : jobs'[k] = jobs[k]
  BY <1>1, <1>2, JobMoves
<1> HIDE DEF Numbers
<1>6. /\ task' = [s \in Resources |-> task'[s]]
      /\ task'[r] = row
      /\ \A s \in Resources \ {r} : task'[s] = task[s]
  BY <1>1, <1>2 DEF PusherInv, PusherTyped
<1>7. PusherTyped' BY <1>1, <1>3, <1>4, <1>5, <1>6 DEF PusherInv, PusherTyped
<1>8. HandsTyped' BY <1>4 DEF PusherInv, HandsTyped
<1>9. JobsFit'
  <2>1. \A s \in Resources : task'[s] # None /\ task'[s].job # 0 =>
          task'[s].job \in Numbers' /\ jobs'[task'[s].job].res = s
    BY <1>2, <1>3, <1>5, <1>6 DEF PusherInv, JobsFit
  <2>2. \A v \in Workers : pushPc'[v] \in {"accepted", "hook"} =>
          loc'[v].job \in Numbers' /\ jobs'[loc'[v].job].res = loc'[v].res
    BY <1>4, <1>5 DEF PusherInv, JobsFit
  <2>3. \A v \in Workers : pushPc'[v] = "hook" /\ loc'[v].row.job # 0 =>
          loc'[v].row.job \in Numbers' /\ jobs'[loc'[v].row.job].res = loc'[v].res
    BY <1>4, <1>5 DEF PusherInv, JobsFit
  <2> QED BY <2>1, <2>2, <2>3 DEF JobsFit
<1>10. upset \subseteq upset' /\ (Pusher!Early(j) => r \in upset')
  BY <1>1
<1>11. NotYetOver'
  <2> SUFFICES ASSUME NEW v \in Workers, pushPc'[v] = "accepted", loc'[v].res \notin upset'
               PROVE  jobs'[loc'[v].job].at # "over"
    BY DEF NotYetOver
  <2>1. /\ pushPc[v] = "accepted" /\ loc'[v] = loc[v]
        /\ loc[v].job \in Numbers /\ jobs[loc[v].job].res = loc[v].res
        /\ jobs[loc[v].job].at # "over"
    BY <1>4, <1>10 DEF PusherInv, NotYetOver, JobsFit
  <2>2. loc[v].job # j
    BY <1>2, <1>10, <2>1 DEF Pusher!Early
  <2> QED BY <1>5, <2>1, <2>2
<1>12. UnderWay'
  <2> SUFFICES ASSUME NEW s \in Resources, s \notin upset', task'[s] # None,
                      task'[s].state \notin Pusher!Final,
                      \A v \in Workers :
                        ~ (pushPc'[v] \in {"post", "refused", "accepted"} /\ loc'[v].res = s)
               PROVE  task'[s].state = "pending" /\ task'[s].job \in Numbers'
                      /\ jobs'[task'[s].job].at # "over"
    BY DEF UnderWay
  <2>1. s # r
    BY <1>3, <1>6
  <2>2. \A v \in Workers :
          ~ (pushPc[v] \in {"post", "refused", "accepted"} /\ loc[v].res = s)
    BY <1>1, <1>4
  <2>3. task[s].state = "pending" /\ task[s].job \in Numbers /\ jobs[task[s].job].at # "over"
    BY <1>6, <1>10, <2>1, <2>2 DEF PusherInv, UnderWay
  <2>4. 0 \notin Numbers
    BY <1>2 DEF Numbers
  <2>5. task[s].job # j
    BY <1>2, <1>6, <2>1, <2>3, <2>4 DEF PusherInv, JobsFit
  <2> QED BY <1>5, <1>6, <2>1, <2>3, <2>5
<1>13. AskedCovers' BY <1>1, <1>5, NoJobKeeps
<1> QED BY <1>7, <1>8, <1>9, <1>11, <1>12, <1>13 DEF PusherInv

\* What a request leaves: the session commits, or the request ends.
LEMMA LeaveMoves ==
    ASSUME NEW w \in Workers, Pusher!Leave(w)
    PROVE  \E step, q :
             /\ step \in Pusher!Steps \ {"write", "post", "accepted", "hook"}
             /\ step # "idle" => q = loc[w]
             /\ pushPc' = [pushPc EXCEPT ![w] = step]
             /\ loc' = [loc EXCEPT ![w] = q] \/ (loc' = loc /\ q = loc[w])
<1>1. CASE loc[w].kind = "notify"
  BY <1>1 DEF Pusher!Leave, Pusher!Goto, Pusher!Steps
<1>2. CASE loc[w].kind # "notify"
  <2> DEFINE q == Pusher!NoRequest
  <2>1. /\ pushPc' = [pushPc EXCEPT ![w] = "idle"]
        /\ loc' = [loc EXCEPT ![w] = q]
    BY <1>2 DEF Pusher!Leave, Pusher!Idle
  <2> HIDE DEF q
  <2>2. "idle" \in Pusher!Steps \ {"write", "post", "accepted", "hook"}
    BY DEF Pusher!Steps
  <2> WITNESS "idle", q
  <2> QED BY <2>1, <2>2
<1> QED BY <1>1, <1>2

LEMMA LeaveWrites ==
    ASSUME PusherInv, NEW w \in Workers, pushPc[w] \in {"refused", "accepted"}, Pusher!Leave(w),
           NEW row, DOMAIN row = {"state", "job"},
           row.job # 0 => row.job \in Numbers /\ jobs[row.job].res = loc[w].res,
           task' = [task EXCEPT ![loc[w].res] = row],
           \/ row.state \in Pusher!Final
           \/ row.state = "pending" /\ row.job \in Numbers
              /\ (loc[w].res \notin upset => jobs[row.job].at # "over"),
           UNCHANGED <<jobs, upset, asked>>
    PROVE  PusherInv'
<1>1. PICK step, q :
        /\ step \in Pusher!Steps \ {"write", "post", "accepted", "hook"}
        /\ step # "idle" => q = loc[w]
        /\ pushPc' = [pushPc EXCEPT ![w] = step]
        /\ loc' = [loc EXCEPT ![w] = q] \/ (loc' = loc /\ q = loc[w])
  BY LeaveMoves
<1>2. loc' = [loc EXCEPT ![w] = q]
  BY <1>1 DEF PusherInv, PusherTyped
<1> QED BY <1>1, <1>2, RowKeeps

LEMMA PusherStep == PusherInv /\ [Pusher!Next]_Pusher!vars => PusherInv'
<1> SUFFICES ASSUME PusherInv, [Pusher!Next]_Pusher!vars
             PROVE  PusherInv'
  OBVIOUS
<1>1. CASE UNCHANGED Pusher!vars
  BY <1>1 DEF Pusher!vars, PusherInv, PusherTyped, HandsTyped, JobsFit, NotYetOver, UnderWay,
              AskedCovers, Coming, Numbers
<1>2. ASSUME NEW w \in Workers, NEW r \in Resources, Pusher!Save(w, r)
      PROVE  PusherInv'
  BY <1>2, SubmitKeeps DEF Pusher!Save
<1>3. ASSUME NEW w \in Workers, NEW r \in Resources, NEW setType \in BOOLEAN,
             Pusher!Request(w, r, setType)
      PROVE  PusherInv'
  BY <1>3, SubmitKeeps DEF Pusher!Request
<1>4. ASSUME NEW w \in Workers, Pusher!WriteSubmitting(w)
      PROVE  PusherInv'
  <2>1. pushPc[w] = "write"
    BY <1>4 DEF Pusher!WriteSubmitting
  <2>2. CASE /\ task' = [task EXCEPT ![loc[w].res] = Pusher!Row("submitting", 0)]
             /\ Pusher!Goto(w, "post")
             /\ UNCHANGED <<exists, pushed, jobs, loc, asked, upset>>
    <3> DEFINE row == Pusher!Row("submitting", 0)
    <3>1. DOMAIN row = {"state", "job"} /\ row.job = 0
      BY DEF Pusher!Row
    <3> HIDE DEF row
    <3>2. /\ task' = [task EXCEPT ![loc[w].res] = row]
          /\ pushPc' = [pushPc EXCEPT ![w] = "post"] /\ "post" \in Pusher!Steps
          /\ UNCHANGED <<jobs, upset, asked>>
      BY <2>2 DEF row, Pusher!Goto, Pusher!Steps
    <3>3. loc' = [loc EXCEPT ![w] = loc[w]]
      BY <2>2 DEF PusherInv, PusherTyped
    <3> QED BY <2>1, <3>1, <3>2, <3>3, RowKeeps
  <2>3. CASE Pusher!Failed(w)
    BY <2>1, <2>3, LeavingKeeps DEF Pusher!Failed
  <2> QED BY <1>4, <2>2, <2>3 DEF Pusher!WriteSubmitting
<1>5. ASSUME NEW w \in Workers, Pusher!PostAccepted(w)
      PROVE  PusherInv'
  BY <1>5, PostKeeps
<1>6. ASSUME NEW w \in Workers, Pusher!PostRefused(w)
      PROVE  PusherInv'
  <2>1. /\ pushPc[w] = "post"
        /\ pushPc' = [pushPc EXCEPT ![w] = "refused"] /\ "refused" \in Pusher!Steps
        /\ UNCHANGED <<task, jobs, loc, asked, upset>>
    BY <1>6 DEF Pusher!PostRefused, Pusher!Goto, Pusher!Steps
  <2>2. loc' = [loc EXCEPT ![w] = loc[w]]
    BY <2>1 DEF PusherInv, PusherTyped
  <2>3. /\ pushPc' \in [Workers -> Pusher!Steps]
        /\ loc' = [v \in Workers |-> loc'[v]]
        /\ pushPc'[w] = "refused"
        /\ \A v \in Workers \ {w} : pushPc'[v] = pushPc[v]
    BY <2>1, <2>2, PusherMoves
  <2>4. PusherTyped' BY <2>1, <2>3 DEF PusherInv, PusherTyped
  <2>5. HandsTyped' BY <2>1, <2>3 DEF PusherInv, HandsTyped
  <2>6. JobsFit' BY <2>1, <2>3 DEF PusherInv, JobsFit, Numbers
  <2>7. NotYetOver' BY <2>1, <2>3 DEF PusherInv, NotYetOver
  <2>8. UnderWay' BY <2>1, <2>3 DEF PusherInv, UnderWay, Numbers
  <2>9. AskedCovers' BY <2>1, NoJobKeeps
  <2> QED BY <2>4, <2>5, <2>6, <2>7, <2>8, <2>9 DEF PusherInv
<1>7. ASSUME NEW w \in Workers, Pusher!WriteError(w)
      PROVE  PusherInv'
  <2> DEFINE row == Pusher!Row("error", 0)
  <2>1. DOMAIN row = {"state", "job"} /\ row.job = 0 /\ row.state \in Pusher!Final
    BY DEF Pusher!Row, Pusher!Final
  <2> HIDE DEF row
  <2>2. /\ pushPc[w] = "refused" /\ Pusher!Leave(w)
        /\ task' = [task EXCEPT ![loc[w].res] = row]
        /\ UNCHANGED <<jobs, upset, asked>>
    BY <1>7 DEF row, Pusher!WriteError
  <2> QED BY <2>1, <2>2, LeaveWrites
<1>8. ASSUME NEW w \in Workers, Pusher!WritePending(w)
      PROVE  PusherInv'
  <2> DEFINE row == Pusher!Row("pending", loc[w].job)
  <2>1. DOMAIN row = {"state", "job"} /\ row.job = loc[w].job /\ row.state = "pending"
    BY DEF Pusher!Row
  <2> HIDE DEF row
  <2>2. /\ pushPc[w] = "accepted" /\ Pusher!Leave(w)
        /\ task' = [task EXCEPT ![loc[w].res] = row]
        /\ UNCHANGED <<jobs, upset, asked>>
    BY <1>8 DEF row, Pusher!WritePending
  <2>3. /\ loc[w].job \in Numbers /\ jobs[loc[w].job].res = loc[w].res
        /\ loc[w].res \notin upset => jobs[loc[w].job].at # "over"
    BY <2>2 DEF PusherInv, JobsFit, NotYetOver
  <2> QED BY <2>1, <2>2, <2>3, LeaveWrites
<1>9. ASSUME NEW w \in Workers, Pusher!CommitResource(w)
      PROVE  PusherInv'
  <2>1. /\ pushPc[w] = "commit" /\ Pusher!Idle(w)
        /\ UNCHANGED <<task, jobs, upset, asked>>
    BY <1>9 DEF Pusher!CommitResource
  <2> QED BY <2>1, LeavingKeeps
<1>10. ASSUME NEW w \in Workers, Pusher!Kill(w)
       PROVE  PusherInv'
  <2>1. /\ pushPc[w] # "idle" /\ Pusher!Idle(w)
        /\ upset \subseteq upset' /\ loc[w].res \in upset'
        /\ UNCHANGED <<task, jobs, asked>>
    BY <1>10 DEF Pusher!Kill
  <2> QED BY <2>1, LeavingKeeps
<1>11. ASSUME NEW w \in Workers, NEW j \in 1 .. Len(jobs), Pusher!SetType(w, j)
       PROVE  PusherInv'
  <2>1. UNCHANGED <<task, jobs, pushPc, loc, asked, upset>>
    <3>1. jobs[j].res \in pushed'
      BY <1>11 DEF Pusher!SetType
    <3> QED BY <1>11, <3>1 DEF Pusher!SetType, Pusher!Concerns
  <2> QED BY <2>1 DEF PusherInv, PusherTyped, HandsTyped, JobsFit, NotYetOver, UnderWay,
                      AskedCovers, Coming, Numbers
<1>12. ASSUME NEW w \in Workers, NEW j \in 1 .. Len(jobs), Pusher!Callback(w, j)
       PROVE  PusherInv'
  <2>1. j \in Numbers
    BY DEF PusherInv, PusherTyped, Numbers
  <2> QED BY <1>12, <2>1, CallbackKeeps
<1>13. ASSUME NEW w \in Workers, NEW status \in Pusher!Final, Pusher!HookWrite(w, status)
       PROVE  PusherInv'
  BY <1>13, HookKeeps
<1> QED BY <1>1, <1>2, <1>3, <1>4, <1>5, <1>6, <1>7, <1>8, <1>9, <1>10, <1>11, <1>12, <1>13
        DEF Pusher!Next

LEMMA PusherInvGives == PusherInv => TasksSettle
<1> SUFFICES ASSUME PusherInv
             PROVE  Pusher!TasksSettle /\ Pusher!JobsComeFromUsers
  BY DEF TasksSettle
<1>1. jobs \in Seq(Jobs) /\ Len(jobs) \in Nat /\ Numbers = 1 .. Len(jobs) /\ asked \in Nat
  BY DEF PusherInv, PusherTyped, Numbers
<1>2. Pusher!TasksSettle
  <2> SUFFICES ASSUME \A w \in Workers : pushPc[w] = "idle",
                      \A j \in 1 .. Len(jobs) : jobs[j].at = "over",
                      NEW r \in Resources \ upset, task[r] # None
               PROVE  task[r].state \in Pusher!Final
    BY DEF Pusher!TasksSettle, Pusher!Quiet
  <2> QED BY <1>1 DEF PusherInv, UnderWay
<1>3. Pusher!JobsComeFromUsers
  <2>1. Cardinality(Coming) \in Nat
    BY ComingFinite
  <2> HIDE DEF Coming
  <2> QED BY <1>1, <2>1 DEF PusherInv, AskedCovers, Pusher!JobsComeFromUsers
<1> QED BY <1>2, <1>3

\* When nothing is under way, the row of every resource says that it is complete or
\* failed, however submissions, callbacks and commits crossed; and every job goes back to
\* something a user did: datapusher_submit, datapusher_hook, DatapusherPlugin.notify.
THEOREM TasksAlwaysSettle == ServicesSpec => []TasksSettle
<1>1. PusherInv /\ [Pusher!Next]_Pusher!vars => PusherInv'
  BY PusherStep
<1> QED BY <1>1, ServicesRunPusher, PusherInitially, PusherInvGives, PTL DEF Pusher!Spec

-----------------------------------------------------------------------------
(***************************************************************************)
(* Configuration options.                                                  *)
(***************************************************************************)
LEMMA ServicesRunOptions == ServicesSpec => Opts!Spec
<1>1. ServicesInit => Opts!Init
  BY DEF ServicesInit
<1>2. [ServicesNext]_all => [Opts!Next]_Opts!vars
  BY DEF ServicesNext, all, optVars, Opts!vars, Opts!rows, Opts!count
<1> QED BY <1>1, <1>2, PTL DEF ServicesSpec, Opts!Spec

OptionsTyped ==
    /\ now \in Nat /\ spoiled \in BOOLEAN
    /\ config = [p \in Processes |-> [k \in Keys |-> config[p][k]]]
    /\ DOMAIN seen = Processes /\ DOMAIN updating = Processes /\ DOMAIN checking = Processes
    /\ \A p \in Processes : /\ "at" \in DOMAIN updating[p]
                            /\ checking[p].at \in {"idle", "next", "set"}

\* No stamp is later than now, and that of an update that has still to write it was seen
\* nowhere.
IsStamp(s) == s = None \/ (s \in Nat /\ s =< now)
StampsApart ==
    ~ spoiled =>
      /\ IsStamp(stamp)
      /\ \A p \in Processes : /\ IsStamp(seen[p])
                              /\ checking[p].at # "idle" => IsStamp(checking[p].stamp)
      /\ \A p \in Processes : updating[p].at = "stamp" =>
           /\ updating[p].time \in Nat /\ updating[p].time =< now /\ updating[p].time # stamp
           /\ \A q \in Processes :
                /\ updating[p].time # seen[q]
                /\ checking[q].at # "idle" => updating[p].time # checking[q].stamp
                /\ q # p /\ updating[q].at = "stamp" => updating[p].time # updating[q].time

\* The insert of the update will fail: another has added the row that it found missing.
Doomed(q) ==
    \/ updating[q].at = "write" /\ updating[q].was = None /\ sysRow[updating[q].key] # None
    \/ updating[q].at = "stamp" /\ updating[q].was = None /\ stamp # None

\* Somebody will write a new stamp.  Whoever dooms an update is such a somebody: until then
\* what the doomed one wrote is still to be announced.
Pending == \E q \in Processes : updating[q].at # "idle" /\ ~ Doomed(q)

\* A process that has seen the stamp, or looks at the options since it was written, has
\* those that it has looked at.
HasOptions(p) ==
    /\ checking[p].at = "idle" /\ seen[p] = stamp =>
         \A k \in Keys : config[p][k] = Opts!Option(k)
    /\ checking[p].at # "idle" /\ checking[p].stamp = stamp =>
         /\ \A k \in Keys \ checking[p].left :
              (checking[p].at = "set" => k # checking[p].key) => config[p][k] = Opts!Option(k)
         /\ checking[p].at = "set" => checking[p].value = Opts!Option(checking[p].key)

OptionsCurrent == ~ spoiled /\ ~ Pending => \A p \in Processes : HasOptions(p)

OptionsInv == OptionsTyped /\ StampsApart /\ OptionsCurrent

LEMMA OptionsInitially == Opts!Init => OptionsInv
<1> SUFFICES ASSUME Opts!Init PROVE OptionsInv
  OBVIOUS
<1>1. OptionsTyped /\ StampsApart
  BY DEF Opts!Init, OptionsTyped, StampsApart, IsStamp, Opts!NoUpdate, Opts!NoCheck
<1>2. OptionsCurrent
  BY DEF Opts!Init, OptionsCurrent, HasOptions, Opts!Option, Opts!NoCheck
<1> QED BY <1>1, <1>2 DEF OptionsInv

\* Steps of an update that leave it with a stamp to write.
LEMMA UpdateGoesOn ==
    ASSUME OptionsInv, NEW p \in Processes, NEW u, updating' = [updating EXCEPT ![p] = u],
           "at" \in DOMAIN u, u.at # "idle", u.at # "stamp", ~ Doomed(p)',
           UNCHANGED <<stamp, now, spoiled, seen, checking>>,
           config' = [q \in Processes |-> [k \in Keys |-> config'[q][k]]]
    PROVE  OptionsInv'
<1>1. updating'[p] = u /\ \A q \in Processes \ {p} : updating'[q] = updating[q]
  BY DEF OptionsInv, OptionsTyped
<1>2. OptionsTyped'
  BY <1>1 DEF OptionsInv, OptionsTyped
<1>3. StampsApart'
  BY <1>1 DEF OptionsInv, StampsApart, IsStamp
<1>4. Pending'
  BY <1>1 DEF Pending
<1> QED BY <1>2, <1>3, <1>4 DEF OptionsInv, OptionsCurrent

\* The end of an update that wrote no stamp: it was doomed, or another process knows.
LEMMA UpdateFails ==
    ASSUME OptionsInv, NEW p \in Processes, Doomed(p),
           updating' = [updating EXCEPT ![p] = Opts!NoUpdate],
           UNCHANGED <<sysRow, stamp, now, spoiled, config, seen, checking>>
    PROVE  OptionsInv'
<1>1. updating'[p].at = "idle" /\ \A q \in Processes \ {p} : updating'[q] = updating[q]
  BY DEF OptionsInv, OptionsTyped, Opts!NoUpdate
<1>2. OptionsTyped'
  BY <1>1 DEF OptionsInv, OptionsTyped, Opts!NoUpdate
<1>3. StampsApart'
  BY <1>1 DEF OptionsInv, StampsApart, IsStamp
<1>4. Pending => Pending'
  BY <1>1 DEF Pending, Doomed
<1>5. OptionsCurrent'
  BY <1>4 DEF OptionsInv, OptionsCurrent, HasOptions, Opts!Option
<1> QED BY <1>2, <1>3, <1>5 DEF OptionsInv

LEMMA UpdatesKeep ==
    ASSUME OptionsInv, NEW p \in Processes,
           \/ \E ask \in Updates : Opts!Update(p, ask)
           \/ \E k \in Keys : Opts!ReadRow(p, k)
           \/ Opts!WriteRow(p)
           \/ Opts!SetOption(p)
    PROVE  OptionsInv'
<1>0. config = [q \in Processes |-> [k \in Keys |-> config[q][k]]] /\ "at" \in DOMAIN updating[p]
      /\ DOMAIN updating = Processes
  BY DEF OptionsInv, OptionsTyped
<1>1. ASSUME NEW ask \in Updates, Opts!Update(p, ask) PROVE OptionsInv'
  <2> DEFINE u == [at |-> "next", left |-> ask]
  <2>1. updating' = [updating EXCEPT ![p] = u] /\ UNCHANGED <<stamp, now, spoiled, seen, checking, config>>
    BY <1>1 DEF Opts!Update, Opts!rows
  <2>2. "at" \in DOMAIN u /\ u.at = "next"
    OBVIOUS
  <2> HIDE DEF u
  <2>3. ~ Doomed(p)'
    BY <1>0, <2>1, <2>2 DEF Doomed
  <2> QED BY <1>0, <2>1, <2>2, <2>3, UpdateGoesOn
<1>2. ASSUME NEW k \in Keys, Opts!ReadRow(p, k) PROVE OptionsInv'
  <2> DEFINE u == [at |-> IF sysRow[k] = updating[p].left[k] THEN "set" ELSE "write",
                   left |-> updating[p].left, key |-> k, was |-> sysRow[k]]
  <2>1. /\ updating' = [updating EXCEPT ![p] = u]
        /\ UNCHANGED <<sysRow, stamp, now, spoiled, seen, checking, config>>
    BY <1>2 DEF Opts!ReadRow, Opts!rows, Opts!count
  <2>2. "at" \in DOMAIN u /\ u.at \in {"set", "write"} /\ u.key = k /\ u.was = sysRow[k]
    OBVIOUS
  <2> HIDE DEF u
  <2>3. ~ Doomed(p)'
    BY <1>0, <2>1, <2>2 DEF Doomed
  <2> QED BY <1>0, <2>1, <2>2, <2>3, UpdateGoesOn
<1>3. ASSUME Opts!WriteRow(p) PROVE OptionsInv'
  <2>1. updating[p].at = "write" /\ UNCHANGED <<stamp, now, spoiled, config, seen, checking>>
    BY <1>3 DEF Opts!WriteRow, Opts!count
  <2>2. CASE updating[p].was = None /\ sysRow[updating[p].key] # None
    <3>1. sysRow' = sysRow /\ updating' = [updating EXCEPT ![p] = Opts!NoUpdate]
      BY <1>3, <2>2 DEF Opts!WriteRow
    <3>2. Doomed(p)
      BY <2>1, <2>2 DEF Doomed
    <3> QED BY <2>1, <3>1, <3>2, UpdateFails
  <2>3. CASE ~ (updating[p].was = None /\ sysRow[updating[p].key] # None)
    <3> DEFINE u == [updating[p] EXCEPT !.at = "set"]
    <3>1. updating' = [updating EXCEPT ![p] = u]
      BY <1>3, <2>3 DEF Opts!WriteRow
    <3>2. "at" \in DOMAIN u /\ u.at = "set"
      BY <1>0
    <3> HIDE DEF u
    <3>3. ~ Doomed(p)'
      BY <1>0, <3>1, <3>2 DEF Doomed
    <3> QED BY <1>0, <2>1, <3>1, <3>2, <3>3, UpdateGoesOn
  <2> QED BY <2>2, <2>3
<1>4. ASSUME Opts!SetOption(p) PROVE OptionsInv'
  <2> DEFINE u == [at |-> "next", left |-> [k \in DOMAIN updating[p].left \ {updating[p].key}
                                              |-> updating[p].left[k]]]
  <2>1. /\ updating' = [updating EXCEPT ![p] = u]
        /\ config' = [config EXCEPT ![p][updating[p].key] = updating[p].left[updating[p].key]]
        /\ UNCHANGED <<stamp, now, spoiled, seen, checking>>
    BY <1>4 DEF Opts!SetOption, Opts!rows, Opts!count
  <2>2. "at" \in DOMAIN u /\ u.at = "next"
    OBVIOUS
  <2> HIDE DEF u
  <2>3. config' = [q \in Processes |-> [k \in Keys |-> config'[q][k]]]
    BY <1>0, <2>1
  <2>4. ~ Doomed(p)'
    BY <1>0, <2>1, <2>2 DEF Doomed
  <2> QED BY <2>1, <2>2, <2>3, <2>4, UpdateGoesOn
<1> QED BY <1>1, <1>2, <1>3, <1>4

\* A stamp that was drawn is new, and nobody has seen one that is written.
LEMMA StampsKeep ==
    ASSUME OptionsInv, NEW p \in Processes, Opts!ReadStamp(p) \/ Opts!WriteStamp(p)
    PROVE  OptionsInv'
<1>0. DOMAIN updating = Processes /\ now \in Nat /\ spoiled \in BOOLEAN
  BY DEF OptionsInv, OptionsTyped
<1>1. ASSUME Opts!ReadStamp(p) PROVE OptionsInv'
  <2>1. PICK t \in {now, now + 1} \ {0} :
          /\ now' = t /\ spoiled' = (spoiled \/ t = now)
          /\ updating' = [updating EXCEPT ![p] = [at |-> "stamp", time |-> t, was |-> stamp]]
    BY <1>1 DEF Opts!ReadStamp
  <2>2. UNCHANGED <<sysRow, stamp, config, seen, checking>>
    BY <1>1 DEF Opts!ReadStamp, Opts!rows
  <2>3. /\ updating'[p].at = "stamp" /\ updating'[p].time = t /\ updating'[p].was = stamp
        /\ "at" \in DOMAIN updating'[p]
        /\ \A q \in Processes \ {p} : updating'[q] = updating[q]
    BY <1>0, <2>1
  <2>4. OptionsTyped'
    BY <1>0, <2>1, <2>2, <2>3 DEF OptionsInv, OptionsTyped
  <2>5. Pending'
    BY <2>2, <2>3 DEF Pending, Doomed
  <2>6. ASSUME ~ spoiled' PROVE ~ spoiled /\ t = now + 1 /\ now' = now + 1
    BY <1>0, <2>1, <2>6
  <2>7. \A s : IsStamp(s) => s # now + 1
    BY <1>0, OptionsAssumption DEF IsStamp
  <2>8. \A s : ~ spoiled' /\ IsStamp(s) => s = None \/ (s \in Nat /\ s =< now')
    BY <1>0, <2>6 DEF IsStamp
  <2>9. StampsApart'
    <3> SUFFICES ASSUME ~ spoiled' PROVE StampsApart'
      BY DEF StampsApart
    <3>1. /\ IsStamp(stamp)
          /\ \A q \in Processes : /\ IsStamp(seen[q])
                                  /\ checking[q].at # "idle" => IsStamp(checking[q].stamp)
          /\ \A q \in Processes : updating[q].at = "stamp" =>
               updating[q].time \in Nat /\ updating[q].time =< now
      BY <2>6 DEF OptionsInv, StampsApart
    <3>2. /\ IsStamp(stamp)'
          /\ \A q \in Processes : /\ IsStamp(seen[q])'
                                  /\ (checking[q].at # "idle" => IsStamp(checking[q].stamp))'
      BY <2>2, <2>8, <3>1 DEF IsStamp
    <3>3. \A q \in Processes \ {p} : updating'[q].at = "stamp" =>
            updating'[q].time \in Nat /\ updating'[q].time =< now
      BY <2>3, <3>1
    <3>4. ASSUME NEW q \in Processes, updating'[q].at = "stamp"
          PROVE  /\ updating'[q].time \in Nat /\ updating'[q].time =< now'
                 /\ updating'[q].time # stamp'
                 /\ \A r \in Processes :
                      /\ updating'[q].time # seen'[r]
                      /\ checking'[r].at # "idle" => updating'[q].time # checking'[r].stamp
                      /\ r # q /\ updating'[r].at = "stamp" => updating'[q].time # updating'[r].time
      <4>1. CASE q = p
        BY <1>0, <2>2, <2>3, <2>6, <2>7, <3>1, <3>3, <4>1
      <4>2. CASE q # p
        <5>1. /\ updating[q].time # stamp
              /\ \A r \in Processes :
                   /\ updating[q].time # seen[r]
                   /\ checking[r].at # "idle" => updating[q].time # checking[r].stamp
                   /\ r # q /\ updating[r].at = "stamp" => updating[q].time # updating[r].time
          BY <2>3, <2>6, <3>4, <4>2 DEF OptionsInv, StampsApart
        <5>2. updating'[q] = updating[q] /\ updating[q].time \in Nat /\ updating[q].time =< now
          BY <2>3, <3>3, <3>4, <4>2
        <5>3. updating'[q].time \in Nat /\ updating'[q].time =< now' /\ updating'[q].time # now + 1
          BY <1>0, <2>6, <5>2
        <5> QED BY <2>2, <2>3, <2>6, <5>1, <5>2, <5>3
      <4> QED BY <4>1, <4>2
    <3> QED BY <3>2, <3>4 DEF StampsApart
  <2> QED BY <2>4, <2>5, <2>9 DEF OptionsInv, OptionsCurrent
<1>2. ASSUME Opts!WriteStamp(p) PROVE OptionsInv'
  <2>1. /\ updating[p].at = "stamp"
        /\ updating' = [updating EXCEPT ![p] = Opts!NoUpdate]
        /\ UNCHANGED <<sysRow, now, spoiled, config, seen, checking>>
        /\ stamp' = IF updating[p].was = None /\ stamp # None THEN stamp ELSE updating[p].time
    BY <1>2 DEF Opts!WriteStamp, Opts!count
  <2>2. CASE updating[p].was = None /\ stamp # None
    <3>1. stamp' = stamp /\ Doomed(p)
      BY <2>1, <2>2 DEF Doomed
    <3> QED BY <2>1, <3>1, UpdateFails
  <2>3. CASE ~ (updating[p].was = None /\ stamp # None)
    <3>1. stamp' = updating[p].time
      BY <2>1, <2>3
    <3>2. updating'[p].at = "idle" /\ \A q \in Processes \ {p} : updating'[q] = updating[q]
      BY <1>0, <2>1 DEF Opts!NoUpdate
    <3>3. OptionsTyped'
      BY <2>1, <3>2 DEF OptionsInv, OptionsTyped, Opts!NoUpdate
    <3>4. ~ spoiled => /\ updating[p].time \in Nat /\ updating[p].time =< now
                       /\ \A q \in Processes :
                            /\ updating[p].time # seen[q]
                            /\ checking[q].at # "idle" => updating[p].time # checking[q].stamp
                            /\ q # p /\ updating[q].at = "stamp" =>
                                 updating[q].time # updating[p].time
      BY <2>1 DEF OptionsInv, StampsApart
    <3>5. StampsApart'
      BY <2>1, <3>1, <3>2, <3>4 DEF OptionsInv, StampsApart, IsStamp
    <3>6. ~ spoiled' => \A q \in Processes : HasOptions(q)'
      BY <2>1, <3>1, <3>4 DEF HasOptions
    <3> QED BY <3>3, <3>5, <3>6 DEF OptionsInv, OptionsCurrent
  <2> QED BY <2>2, <2>3
<1> QED BY <1>1, <1>2

\* The steps of a process that looks at the options again, and of one that starts.
LEMMA ChecksKeep ==
    ASSUME OptionsInv, NEW p \in Processes,
           \/ Opts!Check(p)
           \/ \E k \in Keys : Opts!ReadOption(p, k)
           \/ Opts!CopyOption(p)
           \/ Opts!Checked(p)
    PROVE  OptionsInv'
<1>0. /\ config = [q \in Processes |-> [k \in Keys |-> config[q][k]]]
      /\ DOMAIN seen = Processes /\ DOMAIN checking = Processes
      /\ checking[p].at \in {"idle", "next", "set"}
  BY DEF OptionsInv, OptionsTyped
<1>1. UNCHANGED <<sysRow, stamp, now, spoiled, updating>>
  BY DEF Opts!Check, Opts!ReadOption, Opts!CopyOption, Opts!Checked, Opts!rows, Opts!count
<1>2. Pending' = Pending /\ \A k : Opts!Option(k)' = Opts!Option(k)
  BY <1>1 DEF Pending, Doomed, Opts!Option
<1>3. ASSUME DOMAIN checking' = Processes, DOMAIN seen' = Processes,
             checking'[p].at \in {"idle", "next", "set"},
             \A q \in Processes \ {p} : checking'[q] = checking[q] /\ seen'[q] = seen[q],
             seen'[p] = seen[p] \/ (checking[p].at # "idle" /\ seen'[p] = checking[p].stamp),
             checking'[p].at # "idle" =>
               checking'[p].stamp = stamp
                 \/ (checking[p].at # "idle" /\ checking'[p].stamp = checking[p].stamp),
             config' = [q \in Processes |-> [k \in Keys |-> config'[q][k]]],
             \A q \in Processes \ {p} : config'[q] = config[q],
             ~ spoiled /\ ~ Pending => HasOptions(p)'
      PROVE  OptionsInv'
  <2> DEFINE c == checking'[p]
             s == seen'[p]
  <2>1. \A q \in Processes \ {p} : checking'[q] = checking[q] /\ seen'[q] = seen[q]
    BY <1>3
  <2>2. OptionsTyped'
    BY <1>1, <1>3, <2>1 DEF OptionsInv, OptionsTyped
  <2>3. StampsApart'
    <3> SUFFICES ASSUME ~ spoiled PROVE StampsApart'
      BY <1>1 DEF StampsApart
    <3>1. IsStamp(stamp) /\ IsStamp(s) /\ (c.at # "idle" => IsStamp(c.stamp))
      BY <1>3 DEF OptionsInv, StampsApart
    <3>2. ASSUME NEW q \in Processes, updating[q].at = "stamp"
          PROVE  updating[q].time # s /\ (c.at # "idle" => updating[q].time # c.stamp)
      BY <1>3, <3>2 DEF OptionsInv, StampsApart
    <3> QED BY <1>1, <2>1, <3>1, <3>2 DEF OptionsInv, StampsApart, IsStamp
  <2>4. ASSUME ~ spoiled, ~ Pending, NEW q \in Processes \ {p} PROVE HasOptions(q)'
    <3>1. HasOptions(q)
      BY <2>4 DEF OptionsInv, OptionsCurrent
    <3> QED BY <1>1, <1>2, <1>3, <2>1, <3>1 DEF HasOptions
  <2>5. OptionsCurrent'
    BY <1>1, <1>2, <1>3, <2>4 DEF OptionsCurrent
  <2> QED BY <2>2, <2>3, <2>5 DEF OptionsInv
<1>4. ~ spoiled /\ ~ Pending => HasOptions(p)
  BY DEF OptionsInv, OptionsCurrent
<1>6. ASSUME Opts!Check(p) PROVE OptionsInv'
  <2> DEFINE c == [at |-> "next", stamp |-> stamp, left |-> Keys]
  <2>1. checking' = [checking EXCEPT ![p] = c] /\ seen' = seen /\ config' = config
    BY <1>6 DEF Opts!Check
  <2>2. c.at = "next" /\ c.stamp = stamp /\ c.left = Keys
    OBVIOUS
  <2> HIDE DEF c
  <2>3. HasOptions(p)'
    BY <1>0, <2>1, <2>2 DEF HasOptions
  <2> QED BY <1>0, <1>3, <2>1, <2>2, <2>3
<1>7. ASSUME NEW k \in Keys, Opts!ReadOption(p, k) PROVE OptionsInv'
  <2> DEFINE c == [at |-> "set", stamp |-> checking[p].stamp, left |-> checking[p].left \ {k},
                   key |-> k, value |-> Opts!Option(k)]
  <2>1. /\ checking[p].at = "next"
        /\ checking' = [checking EXCEPT ![p] = c] /\ seen' = seen /\ config' = config
    BY <1>7 DEF Opts!ReadOption
  <2>2. /\ c.at = "set" /\ c.stamp = checking[p].stamp /\ c.left = checking[p].left \ {k}
        /\ c.key = k /\ c.value = Opts!Option(k)
    OBVIOUS
  <2> HIDE DEF c
  <2>3. ~ spoiled /\ ~ Pending => HasOptions(p)'
    BY <1>0, <1>1, <1>2, <1>4, <2>1, <2>2 DEF HasOptions
  <2> QED BY <1>0, <1>3, <2>1, <2>2, <2>3
<1>8. ASSUME Opts!CopyOption(p) PROVE OptionsInv'
  <2> DEFINE c == [at |-> "next", stamp |-> checking[p].stamp, left |-> checking[p].left]
  <2>1. /\ checking[p].at = "set"
        /\ checking' = [checking EXCEPT ![p] = c] /\ seen' = seen
        /\ config' = [config EXCEPT ![p][checking[p].key] = checking[p].value]
    BY <1>8 DEF Opts!CopyOption
  <2>2. c.at = "next" /\ c.stamp = checking[p].stamp /\ c.left = checking[p].left
    OBVIOUS
  <2> HIDE DEF c
  <2>3. /\ config' = [q \in Processes |-> [k \in Keys |-> config'[q][k]]]
        /\ \A q \in Processes \ {p} : config'[q] = config[q]
        /\ \A k \in Keys : config'[p][k] =
             IF k = checking[p].key THEN checking[p].value ELSE config[p][k]
    BY <1>0, <2>1
  <2>4. ~ spoiled /\ ~ Pending => HasOptions(p)'
    BY <1>0, <1>1, <1>2, <1>4, <2>1, <2>2, <2>3 DEF HasOptions
  <2> QED BY <1>0, <1>3, <2>1, <2>2, <2>3, <2>4
<1>9. ASSUME Opts!Checked(p) PROVE OptionsInv'
  <2>1. /\ checking[p].at = "next" /\ checking[p].left = {}
        /\ checking' = [checking EXCEPT ![p] = Opts!NoCheck]
        /\ seen' = [seen EXCEPT ![p] = checking[p].stamp] /\ config' = config
    BY <1>9 DEF Opts!Checked
  <2>2. Opts!NoCheck.at = "idle"
    BY DEF Opts!NoCheck
  <2>3. ~ spoiled /\ ~ Pending => HasOptions(p)'
    BY <1>0, <1>1, <1>2, <1>4, <2>1, <2>2 DEF HasOptions
  <2> QED BY <1>0, <1>3, <2>1, <2>2, <2>3
<1> QED BY <1>6, <1>7, <1>8, <1>9

LEMMA RestartKeeps ==
    ASSUME OptionsInv, NEW p \in Processes, Opts!Restart(p)
    PROVE  OptionsInv'
<1>1. /\ config' = [config EXCEPT ![p] = [k \in Keys |-> Opts!Option(k)]]
      /\ seen' = [seen EXCEPT ![p] = None]
      /\ spoiled' = (spoiled \/ updating[p].at # "idle")
      /\ updating' = [updating EXCEPT ![p] = Opts!NoUpdate]
      /\ checking' = [checking EXCEPT ![p] = Opts!NoCheck]
      /\ UNCHANGED <<sysRow, stamp, now>>
  BY DEF Opts!Restart, Opts!rows
<1>2. /\ config = [q \in Processes |-> [k \in Keys |-> config[q][k]]]
      /\ DOMAIN seen = Processes /\ DOMAIN checking = Processes /\ DOMAIN updating = Processes
      /\ spoiled \in BOOLEAN
  BY DEF OptionsInv, OptionsTyped
<1>3. /\ config'[p] = [k \in Keys |-> Opts!Option(k)] /\ seen'[p] = None
      /\ updating'[p] = Opts!NoUpdate /\ checking'[p] = Opts!NoCheck
      /\ \A q \in Processes \ {p} : /\ config'[q] = config[q] /\ seen'[q] = seen[q]
                                    /\ updating'[q] = updating[q] /\ checking'[q] = checking[q]
  BY <1>1, <1>2
<1>4. OptionsTyped'
  <2>1. config' = [q \in Processes |-> [k \in Keys |-> config'[q][k]]]
    BY <1>1, <1>2
  <2>2. "at" \in DOMAIN Opts!NoUpdate /\ Opts!NoCheck.at = "idle"
    BY DEF Opts!NoUpdate, Opts!NoCheck
  <2> QED BY <1>1, <1>3, <2>1, <2>2 DEF OptionsInv, OptionsTyped
<1>5. StampsApart'
  <2> SUFFICES ASSUME ~ spoiled' PROVE StampsApart'
    BY DEF StampsApart
  <2>1. ~ spoiled
    BY <1>1, <1>2
  <2>2. Opts!NoUpdate.at = "idle" /\ Opts!NoCheck.at = "idle" /\ IsStamp(None)
    BY DEF Opts!NoUpdate, Opts!NoCheck, IsStamp
  <2>3. \A q \in Processes : updating[q].at = "stamp" => updating[q].time # None
    BY <2>1, OptionsAssumption DEF OptionsInv, StampsApart
  <2> QED BY <1>1, <1>3, <2>1, <2>2, <2>3 DEF OptionsInv, StampsApart, IsStamp
<1>6. ASSUME ~ spoiled', ~ Pending', NEW q \in Processes PROVE HasOptions(q)'
  <2>1. ~ spoiled /\ updating[p].at = "idle"
    BY <1>1, <1>2, <1>6
  <2>2. ~ Pending
    BY <1>1, <1>3, <1>6, <2>1 DEF Pending, Doomed
  <2>3. HasOptions(q)
    BY <2>1, <2>2 DEF OptionsInv, OptionsCurrent
  <2>4. \A k : Opts!Option(k)' = Opts!Option(k)
    BY <1>1 DEF Opts!Option
  <2>5. CASE q = p
    BY <1>3, <2>4, <2>5 DEF HasOptions, Opts!NoCheck
  <2>6. CASE q # p
    BY <1>1, <1>3, <2>3, <2>4, <2>6 DEF HasOptions
  <2> QED BY <2>5, <2>6
<1> QED BY <1>4, <1>5, <1>6 DEF OptionsInv, OptionsCurrent

LEMMA OptionsStep == OptionsInv /\ [Opts!Next]_Opts!vars => OptionsInv'
<1> SUFFICES ASSUME OptionsInv, [Opts!Next]_Opts!vars PROVE OptionsInv'
  OBVIOUS
<1>1. CASE Opts!Next
  <2>1. PICK p \in Processes :
          \/ \E ask \in Updates : Opts!Update(p, ask)
          \/ \E k \in Keys : Opts!ReadRow(p, k) \/ Opts!ReadOption(p, k)
          \/ Opts!WriteRow(p) \/ Opts!SetOption(p)
          \/ Opts!ReadStamp(p) \/ Opts!WriteStamp(p)
          \/ Opts!Check(p) \/ Opts!CopyOption(p) \/ Opts!Checked(p)
          \/ Opts!Restart(p)
    BY <1>1 DEF Opts!Next
  <2> QED BY <2>1, UpdatesKeep, StampsKeep, ChecksKeep, RestartKeeps
<1>2. CASE UNCHANGED Opts!vars
  BY <1>2 DEF Opts!vars, Opts!rows, Opts!count, OptionsInv, OptionsTyped, StampsApart, IsStamp,
              OptionsCurrent, HasOptions, Pending, Doomed, Opts!Option
<1> QED BY <1>1, <1>2

\* A process that has seen the last stamp has the options of the table once no update is
\* under way, for any processes, options and updates, whose inserts may fail: what a failed
\* update wrote is announced by the one that made it fail (set_system_info,
\* config_option_update, app_globals._check_uptodate).
THEOREM SeenStaysCurrent == ServicesSpec => []Opts!SeenIsCurrent
<1>1. OptionsInv => Opts!SeenIsCurrent
  <2> SUFFICES ASSUME OptionsInv, ~ spoiled, \A p \in Processes : updating[p].at = "idle",
                      NEW p \in Processes, checking[p].at = "idle", seen[p] = stamp
               PROVE  config[p] = [k \in Keys |-> Opts!Option(k)]
    BY DEF Opts!SeenIsCurrent
  <2>1. ~ Pending
    BY DEF Pending
  <2>2. \A k \in Keys : config[p][k] = Opts!Option(k)
    BY <2>1 DEF OptionsInv, OptionsCurrent, HasOptions
  <2>3. config[p] = [k \in Keys |-> config[p][k]]
    BY DEF OptionsInv, OptionsTyped
  <2> QED BY <2>2, <2>3
<1> QED BY <1>1, OptionsInitially, OptionsStep, ServicesRunOptions, PTL DEF Opts!Spec

-----------------------------------------------------------------------------
(***************************************************************************)
(* What validation is given and what it gives back.                        *)
(***************************************************************************)
\* The keys of a flat dictionary.
FlatKey(k) ==
    \/ Len(k) = 1 /\ k = <<k[1]>>
    \/ Len(k) = 3 /\ k = <<k[1], k[2], k[3]>>

LEMMA ShortKey == \A f : Len(<<f>>) = 1 /\ <<f>>[1] = f /\ FlatKey(<<f>>)
<1>1. \A f : Len(<<f>>) = 1 /\ <<f>>[1] = f
  OBVIOUS
<1> QED BY <1>1 DEF FlatKey

LEMMA LongKey ==
    \A l, i, f : /\ Len(<<l, i, f>>) = 3 /\ FlatKey(<<l, i, f>>)
                 /\ <<l, i, f>>[1] = l /\ <<l, i, f>>[2] = i /\ <<l, i, f>>[3] = f
<1>1. \A l, i, f : /\ Len(<<l, i, f>>) = 3
                   /\ <<l, i, f>>[1] = l /\ <<l, i, f>>[2] = i /\ <<l, i, f>>[3] = f
  OBVIOUS
<1> QED BY <1>1 DEF FlatKey

LEMMA KeysDiffer == \A f, l, i, g : <<f>> # <<l, i, g>>
BY ShortKey, LongKey

\* What flattening makes of a dictionary.
Flattened(d, flat) ==
    /\ \A k \in DOMAIN flat : FlatKey(k)
    /\ \A l, i, f : <<l, i, f>> \in DOMAIN flat
                      <=> l \in DOMAIN d.lists /\ i \in DOMAIN d.lists[l] /\ f \in DOMAIN d.lists[l][i]
    /\ \A l, i, f : <<l, i, f>> \in DOMAIN flat => flat[<<l, i, f>>] = d.lists[l][i][f]
    /\ \A f : <<f>> \in DOMAIN flat
                <=> f \in DOMAIN d.plain \/ (f \in DOMAIN d.lists /\ d.lists[f] = <<>>)
    /\ \A f \in DOMAIN d.plain : flat[<<f>>] = d.plain[f]
    /\ \A f : <<f>> \in DOMAIN flat => flat[<<f>>] # Missing

LEMMA FlattenIs == \A d \in Inputs : Flattened(d, Navl!Flatten(d))
<1> SUFFICES ASSUME NEW d \in Inputs PROVE Flattened(d, Navl!Flatten(d))
  OBVIOUS
<1> DEFINE flat == Navl!Flatten(d)
           short == {<<f>> : f \in DOMAIN d.plain}
           empty == {<<l>> : l \in {x \in DOMAIN d.lists : d.lists[x] = <<>>}}
           nested == UNION {{<<c[1], c[2], f>> : f \in DOMAIN d.lists[c[1]][c[2]]} : c \in Navl!Items(d.lists)}
<1>1. DOMAIN flat = short \cup nested \cup empty
  BY DEF Navl!Flatten
<1>2. \A k \in DOMAIN flat : flat[k] = IF Len(k) = 3 THEN d.lists[k[1]][k[2]][k[3]]
                                       ELSE IF k[1] \in DOMAIN d.plain THEN d.plain[k[1]] ELSE EmptyList
  BY DEF Navl!Flatten
<1>3. \A c : c \in Navl!Items(d.lists)
               <=> \E l \in DOMAIN d.lists : \E i \in DOMAIN d.lists[l] : c = <<l, i>>
  BY DEF Navl!Items
<1> HIDE DEF flat
<1>4. \A k : k \in nested <=> \E l \in DOMAIN d.lists : \E i \in DOMAIN d.lists[l] :
                                \E f \in DOMAIN d.lists[l][i] : k = <<l, i, f>>
  <2>1. \A k : k \in nested <=> \E c \in Navl!Items(d.lists) : \E f \in DOMAIN d.lists[c[1]][c[2]] :
                                  k = <<c[1], c[2], f>>
    OBVIOUS
  <2>2. \A l, i : <<l, i>>[1] = l /\ <<l, i>>[2] = i
    OBVIOUS
  <2> HIDE DEF nested
  <2>3. ASSUME NEW k, k \in nested
        PROVE  \E l \in DOMAIN d.lists : \E i \in DOMAIN d.lists[l] :
                 \E f \in DOMAIN d.lists[l][i] : k = <<l, i, f>>
    BY <1>3, <2>1, <2>2, <2>3
  <2>4. ASSUME NEW l \in DOMAIN d.lists, NEW i \in DOMAIN d.lists[l], NEW f \in DOMAIN d.lists[l][i]
        PROVE  <<l, i, f>> \in nested
    <3>1. <<l, i>> \in Navl!Items(d.lists)
      BY <1>3
    <3> QED BY <2>1, <2>2, <3>1
  <2> QED BY <2>3, <2>4
<1>5. /\ \A k : k \in short <=> \E f \in DOMAIN d.plain : k = <<f>>
      /\ \A k : k \in empty <=> \E f \in DOMAIN d.lists : d.lists[f] = <<>> /\ k = <<f>>
  OBVIOUS
<1> HIDE DEF short, empty, nested
<1>6. \A k \in DOMAIN flat : FlatKey(k)
  BY <1>1, <1>4, <1>5, ShortKey, LongKey
<1>7. \A l, i, f : <<l, i, f>> \in DOMAIN flat
                     <=> l \in DOMAIN d.lists /\ i \in DOMAIN d.lists[l] /\ f \in DOMAIN d.lists[l][i]
  <2> SUFFICES ASSUME NEW l, NEW i, NEW f
               PROVE  <<l, i, f>> \in DOMAIN flat
                        <=> l \in DOMAIN d.lists /\ i \in DOMAIN d.lists[l] /\ f \in DOMAIN d.lists[l][i]
    OBVIOUS
  <2>1. <<l, i, f>> \notin short /\ <<l, i, f>> \notin empty
    BY <1>5, KeysDiffer
  <2>2. <<l, i, f>> \in nested
          <=> l \in DOMAIN d.lists /\ i \in DOMAIN d.lists[l] /\ f \in DOMAIN d.lists[l][i]
    BY <1>4, LongKey
  <2> QED BY <1>1, <2>1, <2>2
<1>8. \A l, i, f : <<l, i, f>> \in DOMAIN flat => flat[<<l, i, f>>] = d.lists[l][i][f]
  BY <1>2, LongKey
<1>9. \A f : <<f>> \in DOMAIN flat
               <=> f \in DOMAIN d.plain \/ (f \in DOMAIN d.lists /\ d.lists[f] = <<>>)
  <2> SUFFICES ASSUME NEW f
               PROVE  <<f>> \in DOMAIN flat
                        <=> f \in DOMAIN d.plain \/ (f \in DOMAIN d.lists /\ d.lists[f] = <<>>)
    OBVIOUS
  <2>1. <<f>> \notin nested
    BY <1>4, KeysDiffer
  <2>2. /\ <<f>> \in short <=> f \in DOMAIN d.plain
        /\ <<f>> \in empty <=> f \in DOMAIN d.lists /\ d.lists[f] = <<>>
    BY <1>5, ShortKey
  <2> QED BY <1>1, <2>1, <2>2
<1>10. \A f : <<f>> \in DOMAIN flat =>
                flat[<<f>>] = IF f \in DOMAIN d.plain THEN d.plain[f] ELSE EmptyList
  BY <1>2, ShortKey
<1>11. \A f : <<f>> \in DOMAIN flat => flat[<<f>>] # Missing
  BY <1>10, ValidationAssumption
<1>12. \A f \in DOMAIN d.plain : flat[<<f>>] = d.plain[f]
  BY <1>9, <1>10
<1>13. Flattened(d, flat)
  BY <1>6, <1>7, <1>8, <1>9, <1>11, <1>12 DEF Flattened
<1> QED BY <1>13 DEF flat

\* The n-th of some indexes.
LEMMA NthIndex ==
    ASSUME NEW I \in SUBSET Nat, IsFiniteSet(I)
    PROVE  /\ Navl!Cardinality(I) \in Nat
           /\ \A n \in 1 .. Navl!Cardinality(I) : Navl!Nth(I, n) \in I
           /\ \A i \in I : \E n \in 1 .. Navl!Cardinality(I) : Navl!Nth(I, n) = i
<1> DEFINE R == {ss \in Nat \X Nat : ss[1] < ss[2]}
           N == Cardinality(I)
           below(i) == {j \in I : j < i}
<1>1. \A i, j \in I : <<i, j>> \in R <=> i < j
  OBVIOUS
<1> HIDE DEF R
<1>2. \A i \in I : below(i) = Preceding(I, R, i)
  BY <1>1 DEF Preceding
<1>3. IsOrder(I, R)
  BY <1>1 DEF IsOrder
<1>4. \A T : Navl!Cardinality(T) = Cardinality(T)
  BY DEF Navl!Cardinality, Cardinality
<1>5. \A n : Navl!Nth(I, n) = CHOOSE i \in I : Cardinality(below(i)) = n - 1
  BY <1>4 DEF Navl!Nth
<1>6. N \in Nat
  BY FS_CardinalityType
<1> HIDE DEF N
<1>7. /\ \A i, k \in I : Cardinality(below(i)) = Cardinality(below(k)) => i = k
      /\ \A n \in 1 .. N : \E i \in I : Cardinality(below(i)) = n - 1
  <2> HIDE DEF below
  <2>1. Numbered(I, R)
    BY <1>3, Ranked
  <2>2. /\ \A i, k \in I : Cardinality(Preceding(I, R, i)) = Cardinality(Preceding(I, R, k)) => i = k
        /\ \A n \in 1 .. N : \E i \in I : Cardinality(Preceding(I, R, i)) = n - 1
    BY <2>1 DEF N, Numbered
  <2> QED BY <1>2, <2>2
<1>8. ASSUME NEW i \in I
      PROVE  Cardinality(below(i)) \in Nat /\ Cardinality(below(i)) < N
  <2>1. below(i) \in SUBSET I /\ below(i) # I
    <3>1. i \in I /\ i \notin below(i)
      OBVIOUS
    <3> QED BY <3>1
  <2> HIDE DEF below
  <2>2. /\ IsFiniteSet(below(i)) /\ Cardinality(below(i)) =< Cardinality(I)
        /\ Cardinality(below(i)) # Cardinality(I)
    BY <2>1, FS_Subset
  <2>3. Cardinality(below(i)) \in Nat
    BY <2>2, FS_CardinalityType
  <2> QED BY <1>6, <2>2, <2>3 DEF N
<1> HIDE DEF below
<1>9. \A n \in 1 .. N : Navl!Nth(I, n) \in I /\ Cardinality(below(Navl!Nth(I, n))) = n - 1
  BY <1>5, <1>7
<1>10. ASSUME NEW i \in I PROVE \E n \in 1 .. N : Navl!Nth(I, n) = i
  <2> DEFINE n == Cardinality(below(i)) + 1
  <2>1. n \in 1 .. N /\ n - 1 = Cardinality(below(i))
    BY <1>6, <1>8
  <2>2. Navl!Nth(I, n) \in I /\ Cardinality(below(Navl!Nth(I, n))) = n - 1
    BY <1>9, <2>1
  <2>3. Navl!Nth(I, n) = i
    BY <1>7, <2>1, <2>2
  <2> QED BY <2>1, <2>3
<1>11. Navl!Cardinality(I) = N
  BY <1>4 DEF N
<1> QED BY <1>6, <1>9, <1>10, <1>11

LEMMA NthOfAll ==
    ASSUME NEW N \in Nat
    PROVE  /\ Navl!Cardinality(1 .. N) = N
           /\ \A n \in 1 .. N : Navl!Nth(1 .. N, n) = n
<1> DEFINE I == 1 .. N
<1>1. \A T : Navl!Cardinality(T) = Cardinality(T)
  BY DEF Navl!Cardinality, Cardinality
<1>2. Cardinality(I) = N
  BY UpTo
<1>3. ASSUME NEW n \in I PROVE {j \in I : j < n} = 1 .. (n - 1) /\ n - 1 \in Nat
  OBVIOUS
<1>4. \A n \in I : Cardinality({j \in I : j < n}) = n - 1
  <2> SUFFICES ASSUME NEW n \in I PROVE Cardinality({j \in I : j < n}) = n - 1
    OBVIOUS
  <2>1. {j \in I : j < n} = 1 .. (n - 1) /\ n - 1 \in Nat
    BY <1>3
  <2> HIDE DEF I
  <2> QED BY <2>1, UpTo
<1>5. \A n : Navl!Nth(I, n) = CHOOSE i \in I : Cardinality({j \in I : j < i}) = n - 1
  BY <1>1 DEF Navl!Nth
<1>6. ASSUME NEW n \in I PROVE Navl!Nth(I, n) = n
  <2>1. \E i \in I : Cardinality({j \in I : j < i}) = n - 1
    BY <1>4
  <2>2. Navl!Nth(I, n) \in I /\ Cardinality({j \in I : j < Navl!Nth(I, n)}) = n - 1
    BY <1>5, <2>1
  <2>3. Navl!Nth(I, n) - 1 = n - 1
    BY <1>4, <2>2
  <2>4. Navl!Nth(I, n) \in Nat /\ n \in Nat
    BY <2>2
  <2> QED BY <2>3, <2>4
<1> QED BY <1>1, <1>2, <1>6

\* What unflattening makes of keys and values.
Unflattened(flat, d) ==
    /\ \A f : f \in DOMAIN d.plain <=> <<f>> \in DOMAIN flat
    /\ \A f \in DOMAIN d.plain : d.plain[f] = flat[<<f>>]
    /\ \A l : l \in DOMAIN d.lists <=> Navl!Indexes(flat, l) # {}
    /\ \A l \in DOMAIN d.lists :
         d.lists[l] = [n \in 1 .. Navl!Cardinality(Navl!Indexes(flat, l)) |->
                         Navl!Item(flat, l, Navl!Nth(Navl!Indexes(flat, l), n))]

LEMMA IndexesAre ==
    ASSUME NEW flat, \A k \in DOMAIN flat : FlatKey(k), NEW l
    PROVE  /\ \A i : i \in Navl!Indexes(flat, l) <=> \E f : <<l, i, f>> \in DOMAIN flat
           /\ \A i, f : /\ f \in DOMAIN Navl!Item(flat, l, i) <=> <<l, i, f>> \in DOMAIN flat
                        /\ <<l, i, f>> \in DOMAIN flat => Navl!Item(flat, l, i)[f] = flat[<<l, i, f>>]
<1>1. \A k \in DOMAIN flat : Len(k) = 3 => k = <<k[1], k[2], k[3]>>
  BY DEF FlatKey
<1>2. \A i : i \in Navl!Indexes(flat, l) <=> \E f : <<l, i, f>> \in DOMAIN flat
  <2>1. ASSUME NEW i, i \in Navl!Indexes(flat, l) PROVE \E f : <<l, i, f>> \in DOMAIN flat
    <3>1. PICK k \in DOMAIN flat : Len(k) = 3 /\ k[1] = l /\ k[2] = i
      BY <2>1 DEF Navl!Indexes
    <3>2. k = <<l, i, k[3]>>
      BY <1>1, <3>1
    <3> QED BY <3>1, <3>2
  <2>2. ASSUME NEW i, NEW f, <<l, i, f>> \in DOMAIN flat PROVE i \in Navl!Indexes(flat, l)
    BY <2>2, LongKey DEF Navl!Indexes
  <2> QED BY <2>1, <2>2
<1>3. \A i, f : f \in {k[3] : k \in {x \in DOMAIN flat : Len(x) = 3 /\ x[1] = l /\ x[2] = i}}
                  <=> <<l, i, f>> \in DOMAIN flat
  BY <1>1, LongKey
<1>4. \A i, f : /\ f \in DOMAIN Navl!Item(flat, l, i) <=> <<l, i, f>> \in DOMAIN flat
                /\ <<l, i, f>> \in DOMAIN flat => Navl!Item(flat, l, i)[f] = flat[<<l, i, f>>]
  BY <1>3 DEF Navl!Item
<1> QED BY <1>2, <1>4

LEMMA UnflattenIs ==
    ASSUME NEW flat, \A k \in DOMAIN flat : FlatKey(k)
    PROVE  Unflattened(flat, Navl!Unflatten(flat))
<1> DEFINE d == Navl!Unflatten(flat)
<1>1. \A k \in DOMAIN flat : /\ Len(k) = 3 => k = <<k[1], k[2], k[3]>>
                             /\ Len(k) = 1 => k = <<k[1]>>
  BY DEF FlatKey
<1>2. d.plain = Navl!Plain(flat) /\ DOMAIN d.lists = Navl!ListNames(flat)
  BY DEF Navl!Unflatten
<1>3. \A l \in Navl!ListNames(flat) :
        d.lists[l] = [n \in 1 .. Navl!Cardinality(Navl!Indexes(flat, l)) |->
                         Navl!Item(flat, l, Navl!Nth(Navl!Indexes(flat, l), n))]
  BY DEF Navl!Unflatten
<1> HIDE DEF d
<1>4. \A f : f \in {k[1] : k \in {x \in DOMAIN flat : Len(x) = 1}} <=> <<f>> \in DOMAIN flat
  BY <1>1, ShortKey
<1>5. /\ \A f : f \in DOMAIN d.plain <=> <<f>> \in DOMAIN flat
      /\ \A f \in DOMAIN d.plain : d.plain[f] = flat[<<f>>]
  BY <1>2, <1>4 DEF Navl!Plain
<1>6. \A l : l \in Navl!ListNames(flat) <=> \E i, f : <<l, i, f>> \in DOMAIN flat
  <2>1. ASSUME NEW l, l \in Navl!ListNames(flat) PROVE \E i, f : <<l, i, f>> \in DOMAIN flat
    <3>1. PICK k \in DOMAIN flat : Len(k) = 3 /\ k[1] = l
      BY <2>1 DEF Navl!ListNames
    <3>2. k = <<l, k[2], k[3]>>
      BY <1>1, <3>1
    <3> QED BY <3>1, <3>2
  <2>2. ASSUME NEW l, NEW i, NEW f, <<l, i, f>> \in DOMAIN flat PROVE l \in Navl!ListNames(flat)
    BY <2>2, LongKey DEF Navl!ListNames
  <2> QED BY <2>1, <2>2
<1>7. \A l : l \in Navl!ListNames(flat) <=> Navl!Indexes(flat, l) # {}
  <2>1. \A l, i : i \in Navl!Indexes(flat, l) <=> \E f : <<l, i, f>> \in DOMAIN flat
    BY IndexesAre
  <2> QED BY <1>6, <2>1
<1>8. Unflattened(flat, d)
  BY <1>2, <1>3, <1>5, <1>7 DEF Unflattened
<1> QED BY <1>8 DEF d

\* A schema laid beside a flat dictionary.
Laid(flat, sch, full) ==
    /\ \A k \in DOMAIN full : FlatKey(k)
    /\ \A f : <<f>> \in DOMAIN full <=> f \in DOMAIN sch.plain
    /\ \A f \in DOMAIN sch.plain : full[<<f>>] = sch.plain[f]
    /\ \A l, i, f : <<l, i, f>> \in DOMAIN full
                      <=> l \in DOMAIN sch.lists /\ i \in Navl!Indexes(flat, l) /\ f \in DOMAIN sch.lists[l]
    /\ \A l, i, f : <<l, i, f>> \in DOMAIN full => full[<<l, i, f>>] = sch.lists[l][f]

LEMMA CombinationsAre ==
    ASSUME NEW flat, NEW sch
    PROVE  \A c : c \in Navl!KeyCombinations(flat, sch)
                    <=> \/ c = <<>>
                        \/ \E l \in DOMAIN sch.lists : \E i \in Navl!Indexes(flat, l) : c = <<l, i>>
<1>1. \A c, l : c \in {l} \X Navl!Indexes(flat, l) <=> \E i \in Navl!Indexes(flat, l) : c = <<l, i>>
  OBVIOUS
<1>2. \A c : c \in Navl!KeyCombinations(flat, sch)
               <=> c = <<>> \/ \E l \in DOMAIN sch.lists : c \in {l} \X Navl!Indexes(flat, l)
  BY DEF Navl!KeyCombinations
<1> QED BY <1>1, <1>2

LEMMA FullSchemaIs ==
    ASSUME NEW flat, NEW sch
    PROVE  Laid(flat, sch, Navl!FullSchema(flat, sch))
<1> DEFINE full == Navl!FullSchema(flat, sch)
           short == {<<f>> : f \in DOMAIN sch.plain}
           nested == UNION {{<<c[1], c[2], f>> : f \in DOMAIN sch.lists[c[1]]} :
                              c \in Navl!KeyCombinations(flat, sch) \ {<<>>}}
<1>1. DOMAIN full = short \cup nested
  BY DEF Navl!FullSchema
<1>2. \A k \in DOMAIN full : full[k] = IF Len(k) = 3 THEN sch.lists[k[1]][k[3]] ELSE sch.plain[k[1]]
  BY DEF Navl!FullSchema
<1> HIDE DEF full
<1>3. \A k : k \in short <=> \E f \in DOMAIN sch.plain : k = <<f>>
  OBVIOUS
<1>4. \A k : k \in nested <=> \E l \in DOMAIN sch.lists : \E i \in Navl!Indexes(flat, l) :
                                \E f \in DOMAIN sch.lists[l] : k = <<l, i, f>>
  <2> DEFINE C == Navl!KeyCombinations(flat, sch) \ {<<>>}
  <2>1. \A k : k \in nested <=> \E c \in C : \E f \in DOMAIN sch.lists[c[1]] : k = <<c[1], c[2], f>>
    OBVIOUS
  <2>2. \A l, i : <<l, i>>[1] = l /\ <<l, i>>[2] = i /\ <<l, i>> # <<>>
    OBVIOUS
  <2>3. \A c : c \in C <=> \E l \in DOMAIN sch.lists : \E i \in Navl!Indexes(flat, l) : c = <<l, i>>
    BY <2>2, CombinationsAre
  <2> HIDE DEF nested, C
  <2>4. ASSUME NEW k, k \in nested
        PROVE  \E l \in DOMAIN sch.lists : \E i \in Navl!Indexes(flat, l) :
                 \E f \in DOMAIN sch.lists[l] : k = <<l, i, f>>
    BY <2>1, <2>2, <2>3, <2>4
  <2>5. ASSUME NEW l \in DOMAIN sch.lists, NEW i \in Navl!Indexes(flat, l), NEW f \in DOMAIN sch.lists[l]
        PROVE  <<l, i, f>> \in nested
    <3>1. <<l, i>> \in C
      BY <2>3
    <3> QED BY <2>1, <2>2, <3>1
  <2> QED BY <2>4, <2>5
<1> HIDE DEF short, nested
<1>5. \A k \in DOMAIN full : FlatKey(k)
  BY <1>1, <1>3, <1>4, ShortKey, LongKey
<1>6. ASSUME NEW f PROVE <<f>> \in DOMAIN full <=> f \in DOMAIN sch.plain
  <2>1. <<f>> \notin nested
    BY <1>4, KeysDiffer
  <2>2. <<f>> \in short <=> f \in DOMAIN sch.plain
    BY <1>3, ShortKey
  <2> QED BY <1>1, <2>1, <2>2
<1>7. ASSUME NEW f \in DOMAIN sch.plain PROVE full[<<f>>] = sch.plain[f]
  <2>1. <<f>> \in DOMAIN full /\ Len(<<f>>) = 1 /\ <<f>>[1] = f
    BY <1>6, ShortKey
  <2>2. full[<<f>>] = sch.plain[<<f>>[1]]
    BY <1>2, <2>1
  <2> QED BY <2>1, <2>2
<1>8. ASSUME NEW l, NEW i, NEW f
      PROVE  /\ <<l, i, f>> \in DOMAIN full
                  <=> l \in DOMAIN sch.lists /\ i \in Navl!Indexes(flat, l) /\ f \in DOMAIN sch.lists[l]
             /\ <<l, i, f>> \in DOMAIN full => full[<<l, i, f>>] = sch.lists[l][f]
  <2>1. <<l, i, f>> \notin short
    BY <1>3, KeysDiffer
  <2>2. <<l, i, f>> \in nested
          <=> l \in DOMAIN sch.lists /\ i \in Navl!Indexes(flat, l) /\ f \in DOMAIN sch.lists[l]
    BY <1>4, LongKey
  <2> QED BY <1>1, <1>2, <2>1, <2>2, LongKey
<1>9. Laid(flat, sch, full)
  BY <1>5, <1>6, <1>7, <1>8 DEF Laid
<1> QED BY <1>9 DEF full

\* What the validators make of a key.
Turned(flat, full, k) == Navl!Convert(full[k], IF k \in DOMAIN flat THEN flat[k] ELSE Missing)

\* What is kept without having been asked for.
KeptExtras(flat, sch) ==
    {k \in DOMAIN flat \ DOMAIN Navl!FullSchema(flat, sch) :
       /\ Navl!Place(k) \in Navl!KeyCombinations(flat, sch)
       /\ (IF Len(k) = 1 THEN sch.extras ELSE sch.itemExtras) = "keep_extras"}

\* What validation makes of the data beside the schema.
MadeOf(flat, sch, full, made) ==
    /\ made.errors = [k \in DOMAIN full |-> Turned(flat, full, k).errors]
    /\ DOMAIN made.data = {k \in DOMAIN full : Turned(flat, full, k).value # Navl!Popped}
                            \cup KeptExtras(flat, sch)
    /\ \A k \in KeptExtras(flat, sch) : made.data[k] = flat[k]
    /\ \A k \in DOMAIN full : k \in DOMAIN made.data => made.data[k] = Turned(flat, full, k).value

LEMMA ValidatedIs ==
    ASSUME NEW flat, NEW sch
    PROVE  MadeOf(flat, sch, Navl!FullSchema(flat, sch), Navl!Validated(flat, sch))
<1> DEFINE full == Navl!FullSchema(flat, sch)
           made == Navl!Validated(flat, sch)
           augmented == Navl!Augment(flat, sch)
           of == [k \in DOMAIN augmented.data |-> Navl!Convert(full[k], augmented.data[k])]
           Rule(k) == IF Len(k) = 1 THEN sch.extras ELSE sch.itemExtras
           kept == {k \in augmented.extras : Rule(k) = "keep_extras"}
<1>1. /\ augmented.data = [k \in DOMAIN full |-> IF k \in DOMAIN flat THEN flat[k] ELSE Missing]
      /\ augmented.extras = {k \in DOMAIN flat \ DOMAIN full :
                               Navl!Place(k) \in Navl!KeyCombinations(flat, sch)}
  BY DEF Navl!Augment
<1>2. /\ made.data = [k \in {x \in DOMAIN of : of[x].value # Navl!Popped} \cup kept |->
                        IF k \in kept THEN flat[k] ELSE of[k].value]
      /\ made.errors = [k \in DOMAIN full |-> IF k \in DOMAIN of THEN of[k].errors ELSE <<>>]
  BY DEF Navl!Validated
<1> HIDE DEF made, augmented, full
<1>3. DOMAIN of = DOMAIN full /\ \A k \in DOMAIN full : of[k] = Turned(flat, full, k)
  BY <1>1 DEF Turned
<1>4. kept = KeptExtras(flat, sch) /\ \A k \in kept : k \notin DOMAIN full
  BY <1>1 DEF KeptExtras, full
<1> HIDE DEF of, kept
<1>5. made.errors = [k \in DOMAIN full |-> Turned(flat, full, k).errors]
  BY <1>2, <1>3
<1>6. DOMAIN made.data = {k \in DOMAIN full : Turned(flat, full, k).value # Navl!Popped} \cup kept
  BY <1>2, <1>3
<1>7. /\ \A k \in kept : made.data[k] = flat[k]
      /\ \A k \in DOMAIN full : k \in DOMAIN made.data => made.data[k] = Turned(flat, full, k).value
  BY <1>2, <1>3, <1>4
<1>8. MadeOf(flat, sch, full, made)
  BY <1>4, <1>5, <1>6, <1>7 DEF MadeOf
<1> QED BY <1>8 DEF full, made

LEMMA PlaceOfLong == \A l, i, f : Navl!Place(<<l, i, f>>) = <<l, i>>
<1> SUFFICES ASSUME NEW l, NEW i, NEW f PROVE Navl!Place(<<l, i, f>>) = <<l, i>>
  OBVIOUS
<1>1. Len(<<l, i, f>>) = 3
  OBVIOUS
<1>2. Navl!Place(<<l, i, f>>) = SubSeq(<<l, i, f>>, 1, 2)
  BY <1>1 DEF Navl!Place
<1>3. SubSeq(<<l, i, f>>, 1, 2) = <<l, i>>
  <2> DEFINE k == <<l, i, f>>
             T == {l, i, f}
  <2>1. k \in Seq(T) /\ Len(k) = 3 /\ k[1] = l /\ k[2] = i
    OBVIOUS
  <2> HIDE DEF k
  <2>2. /\ Len(SubSeq(k, 1, 2)) = 2 /\ SubSeq(k, 1, 2) \in Seq(T)
        /\ SubSeq(k, 1, 2)[1] = k[1] /\ SubSeq(k, 1, 2)[2] = k[2]
    BY <2>1
  <2>3. SubSeq(k, 1, 2) = <<l, i>>
    <3> DEFINE c == <<l, i>>
    <3>1. c \in Seq(T) /\ Len(c) = 2 /\ c[1] = l /\ c[2] = i
      OBVIOUS
    <3> HIDE DEF c
    <3>2. \A n \in 1 .. Len(c) : c[n] = SubSeq(k, 1, 2)[n]
      BY <2>1, <2>2, <3>1
    <3>3. c = SubSeq(k, 1, 2)
      BY <2>2, <3>1, <3>2, SeqEqual
    <3> QED BY <3>3 DEF c
  <2> QED BY <2>3 DEF k
<1> QED BY <1>2, <1>3

\* What the validators have made of a value, one after the other.
Begun(v) == [value |-> v, stop |-> FALSE, errors |-> <<>>]
Conversion(vs, v) ==
    CHOOSE f : f = [n \in 0 .. Len(vs) |-> IF n = 0 THEN Begun(v) ELSE Navl!Converted(f[n - 1], vs[n])]

Converts(vs, v, n, d) ==
    /\ d = [m \in 0 .. n |-> d[m]]
    /\ d[0] = Begun(v)
    /\ \A m \in 0 .. n - 1 : d[m + 1] = Navl!Converted(d[m], vs[m + 1])

LEMMA ConversionGrows ==
    ASSUME NEW vs, NEW v, NEW n \in Nat, NEW d, Converts(vs, v, n, d)
    PROVE  \E e : Converts(vs, v, n + 1, e)
<1> DEFINE next == Navl!Converted(d[n], vs[n + 1])
           e == [m \in 0 .. n + 1 |-> IF m = n + 1 THEN next ELSE d[m]]
<1> HIDE DEF next
<1>1. e = [m \in 0 .. n + 1 |-> e[m]] /\ e[n + 1] = next /\ \A m \in 0 .. n : e[m] = d[m]
  OBVIOUS
<1> HIDE DEF e
<1>2. d[0] = Begun(v) /\ \A m \in 0 .. n - 1 : d[m + 1] = Navl!Converted(d[m], vs[m + 1])
  BY DEF Converts
<1>3. ASSUME NEW m \in 0 .. (n + 1) - 1 PROVE e[m + 1] = Navl!Converted(e[m], vs[m + 1])
  <2>1. CASE m = n
    <3>1. e[m] = d[n] /\ e[m + 1] = next
      BY <1>1, <2>1
    <3> QED BY <2>1, <3>1 DEF next
  <2>2. CASE m # n
    <3>1. m \in 0 .. n - 1 /\ m \in 0 .. n /\ m + 1 \in 0 .. n
      BY <2>2
    <3> QED BY <3>1, <1>1, <1>2
  <2> QED BY <2>1, <2>2
<1>4. e[0] = Begun(v)
  <2>1. 0 \in 0 .. n
    OBVIOUS
  <2> QED BY <1>1, <1>2, <2>1
<1> QED BY <1>1, <1>3, <1>4 DEF Converts

LEMMA ConversionSteps ==
    ASSUME NEW vs, Len(vs) \in Nat, NEW v
    PROVE  /\ Navl!Convert(vs, v) = Conversion(vs, v)[Len(vs)]
           /\ Conversion(vs, v)[0] = Begun(v)
           /\ \A n \in 0 .. Len(vs) - 1 :
                Conversion(vs, v)[n + 1] = Navl!Converted(Conversion(vs, v)[n], vs[n + 1])
<1> DEFINE N == Len(vs)
           c == Conversion(vs, v)
           T == {n \in 0 .. N : \E d : Converts(vs, v, n, d)}
<1>1. Navl!Convert(vs, v) = c[N]
  BY DEF Navl!Convert, Conversion, Begun
<1>2. T = 0 .. N
  <2>1. 0 \in T
    <3> DEFINE d == [m \in 0 .. 0 |-> Begun(v)]
    <3>1. d = [m \in 0 .. 0 |-> d[m]] /\ d[0] = Begun(v) /\ 0 .. 0 - 1 = {}
      OBVIOUS
    <3> HIDE DEF d
    <3>2. Converts(vs, v, 0, d)
      BY <3>1 DEF Converts
    <3> QED BY <3>2
  <2>2. ASSUME NEW n \in 0 .. N - 1, n \in T PROVE n + 1 \in T
    <3>1. n + 1 \in 0 .. N /\ n \in Nat
      OBVIOUS
    <3> QED BY <2>2, <3>1, ConversionGrows
  <2>3. T \in SUBSET (0 .. N)
    OBVIOUS
  <2> HIDE DEF T, N
  <2>4. N \in Nat
    BY DEF N
  <2> QED BY <2>1, <2>2, <2>3, <2>4, StepByStep
<1>3. PICK d : Converts(vs, v, N, d)
  BY <1>2
<1>4. /\ d = [m \in 0 .. N |-> d[m]] /\ d[0] = Begun(v)
      /\ \A m \in 0 .. N - 1 : d[m + 1] = Navl!Converted(d[m], vs[m + 1])
  BY <1>3 DEF Converts
<1>5. N \in Nat
  OBVIOUS
<1> HIDE DEF N, T
<1>6. \A n \in 0 .. N : d[n] = IF n = 0 THEN Begun(v) ELSE Navl!Converted(d[n - 1], vs[n])
  <2> SUFFICES ASSUME NEW n \in 0 .. N, n # 0 PROVE d[n] = Navl!Converted(d[n - 1], vs[n])
    BY <1>4
  <2>1. n - 1 \in 0 .. N - 1 /\ (n - 1) + 1 = n
    BY <1>5
  <2> QED BY <1>4, <2>1
<1>7. d = [n \in 0 .. N |-> IF n = 0 THEN Begun(v) ELSE Navl!Converted(d[n - 1], vs[n])]
  BY <1>4, <1>6
<1>8. c = [n \in 0 .. N |-> IF n = 0 THEN Begun(v) ELSE Navl!Converted(c[n - 1], vs[n])]
  BY <1>7 DEF Conversion, N
<1> HIDE DEF c
<1>9. c[0] = Begun(v)
  BY <1>5, <1>8
<1>10. ASSUME NEW n \in 0 .. N - 1 PROVE c[n + 1] = Navl!Converted(c[n], vs[n + 1])
  <2>1. n + 1 \in 0 .. N /\ n + 1 # 0 /\ (n + 1) - 1 = n
    BY <1>5
  <2> QED BY <1>8, <2>1
<1> QED BY <1>1, <1>9, <1>10 DEF c, N

\* A validator leaves the marker only where it found it, and says so if it is one of those
\* that answer.
LEMMA ValidatorAnswers ==
    ASSUME NEW validator \in STRING, NEW v
    PROVE  LET step == Navl!Validate(validator, v)
           IN  step.value = Missing =>
                 /\ v = Missing
                 /\ step.error \/ (validator \notin Navl!Answering /\ ~ step.stop)
BY ValidationAssumption DEF Navl!Validate, Navl!False, Navl!Answering

LEMMA MissingAnswered ==
    ASSUME NEW vs, Len(vs) \in Nat, \A n \in 1 .. Len(vs) : vs[n] \in STRING, NEW v,
           v = Missing => \E n \in 1 .. Len(vs) : vs[n] \in Navl!Answering,
           Navl!Convert(vs, v).value = Missing
    PROVE  Navl!Convert(vs, v).errors # <<>>
<1> DEFINE N == Len(vs)
           c == Conversion(vs, v)
           Marked(n) ==
             /\ c[n].errors \in Seq(STRING)
             /\ c[n].value = Missing =>
                  \/ c[n].errors # <<>>
                  \/ /\ v = Missing /\ ~ c[n].stop
                     /\ \A m \in 1 .. n : vs[m] \notin Navl!Answering
           T == {n \in 0 .. N : Marked(n)}
<1>1. /\ Navl!Convert(vs, v) = c[N] /\ c[0] = Begun(v)
      /\ \A n \in 0 .. N - 1 : c[n + 1] = Navl!Converted(c[n], vs[n + 1])
  BY ConversionSteps
<1> HIDE DEF c
<1>2. Marked(0)
  <2>1. c[0].value = v /\ c[0].errors = <<>> /\ c[0].stop = FALSE
    BY <1>1 DEF Begun
  <2> QED BY <2>1
<1>3. ASSUME NEW n \in 0 .. N - 1, Marked(n) PROVE Marked(n + 1)
  <2> DEFINE s == c[n]
             validator == vs[n + 1]
             step == Navl!Validate(validator, s.value)
  <2>1. n + 1 \in 1 .. N /\ validator \in STRING /\ n \in Nat
    OBVIOUS
  <2>2. c[n + 1] = Navl!Converted(s, validator)
    BY <1>1
  <2>3. CASE s.stop
    <3>1. c[n + 1] = s
      BY <2>2, <2>3 DEF Navl!Converted
    <3> QED BY <1>3, <2>3, <3>1
  <2>4. CASE ~ s.stop
    <3>1. /\ c[n + 1].value = step.value /\ c[n + 1].stop = step.stop
          /\ c[n + 1].errors = IF step.error THEN Append(s.errors, validator) ELSE s.errors
      BY <2>2, <2>4 DEF Navl!Converted
    <3>2. step.value = Missing =>
            /\ s.value = Missing
            /\ step.error \/ (validator \notin Navl!Answering /\ ~ step.stop)
      BY <2>1, ValidatorAnswers
    <3> HIDE DEF step, s
    <3>3. s.errors \in Seq(STRING)
      BY <1>3 DEF s
    <3> HIDE DEF validator
    <3>4. Append(s.errors, validator) \in Seq(STRING) /\ Append(s.errors, validator) # <<>>
      BY <2>1, <3>3
    <3>5. s.value = Missing =>
            \/ s.errors # <<>>
            \/ /\ v = Missing /\ ~ s.stop
               /\ \A m \in 1 .. n : vs[m] \notin Navl!Answering
      BY <1>3 DEF s
    <3>6. validator \notin Navl!Answering /\ (\A m \in 1 .. n : vs[m] \notin Navl!Answering)
            => \A m \in 1 .. n + 1 : vs[m] \notin Navl!Answering
      BY <2>1 DEF validator
    <3>7. c[n + 1].errors \in Seq(STRING)
      BY <3>1, <3>3, <3>4
    <3>8. c[n + 1].value = Missing =>
            \/ c[n + 1].errors # <<>>
            \/ /\ v = Missing /\ ~ c[n + 1].stop
               /\ \A m \in 1 .. n + 1 : vs[m] \notin Navl!Answering
      <4>1. CASE step.error
        BY <3>1, <3>4, <4>1
      <4>2. CASE ~ step.error
        BY <3>1, <3>2, <3>5, <3>6, <4>2
      <4> QED BY <4>1, <4>2
    <3> QED BY <3>7, <3>8
  <2> QED BY <2>3, <2>4
<1>4. T = 0 .. N
  <2> HIDE DEF Marked
  <2>1. 0 \in T
    BY <1>2
  <2>2. ASSUME NEW n \in 0 .. N - 1, n \in T PROVE n + 1 \in T
    <3>1. n + 1 \in 0 .. N /\ Marked(n)
      BY <2>2
    <3> QED BY <1>3, <3>1
  <2>3. T \in SUBSET (0 .. N)
    OBVIOUS
  <2> HIDE DEF T, N
  <2>4. N \in Nat
    BY DEF N
  <2> QED BY <2>1, <2>2, <2>3, <2>4, StepByStep
<1>5. Marked(N)
  BY <1>4
<1> QED BY <1>1, <1>5

LEMMA EmptyStays == Navl!Convert(<<"ignore_missing">>, Empty).value = Empty
<1> DEFINE vs == <<"ignore_missing">>
<1>1. Len(vs) = 1 /\ vs[1] = "ignore_missing"
  OBVIOUS
<1> HIDE DEF vs
<1>2. /\ Navl!Convert(vs, Empty) = Conversion(vs, Empty)[1]
      /\ Conversion(vs, Empty)[0] = Begun(Empty)
      /\ Conversion(vs, Empty)[1] = Navl!Converted(Conversion(vs, Empty)[0], vs[1])
  <2>1. Len(vs) \in Nat /\ 0 \in 0 .. Len(vs) - 1 /\ 0 + 1 = 1
    BY <1>1
  <2> QED BY <1>1, <2>1, ConversionSteps
<1>3. Navl!Validate("ignore_missing", Empty) = [value |-> Empty, error |-> FALSE, stop |-> FALSE]
  BY ValidationAssumption DEF Navl!Validate
<1>4. Navl!Converted(Begun(Empty), vs[1]).value = Empty
  BY <1>1, <1>3 DEF Navl!Converted, Begun
<1>5. Navl!Convert(vs, Empty).value = Empty
  BY <1>2, <1>4
<1> QED BY <1>5 DEF vs

\* What is left of the errors, and what empty lists become.
WrongLeft(e, w) ==
    /\ \A f : f \in DOMAIN w.plain <=> f \in DOMAIN e.plain /\ e.plain[f] # <<>>
    /\ \A l : l \in DOMAIN w.lists
                <=> l \in DOMAIN e.lists /\ \E i \in DOMAIN e.lists[l] :
                      \E f \in DOMAIN e.lists[l][i] : e.lists[l][i][f] # <<>>
    /\ \A l \in DOMAIN w.lists : \A i \in DOMAIN e.lists[l] : \A f :
         /\ f \in DOMAIN w.lists[l][i] <=> f \in DOMAIN e.lists[l][i] /\ e.lists[l][i][f] # <<>>
         /\ f \in DOMAIN w.lists[l][i] => w.lists[l][i][f] = e.lists[l][i][f]

LEMMA WithErrorsIs == \A e : WrongLeft(e, Navl!WithErrors(e))
<1> SUFFICES ASSUME NEW e PROVE WrongLeft(e, Navl!WithErrors(e))
  OBVIOUS
<1> DEFINE w == Navl!WithErrors(e)
           Wrong(item) == [f \in {g \in DOMAIN item : item[g] # <<>>} |-> item[f]]
           some == {l \in DOMAIN e.lists : \E i \in DOMAIN e.lists[l] : DOMAIN Wrong(e.lists[l][i]) # {}}
<1>1. /\ w.plain = Wrong(e.plain)
      /\ w.lists = [l \in some |-> [i \in DOMAIN e.lists[l] |-> Wrong(e.lists[l][i])]]
  BY DEF Navl!WithErrors, Navl!Restrict
<1>2. \A item, f : /\ f \in DOMAIN Wrong(item) <=> f \in DOMAIN item /\ item[f] # <<>>
                   /\ f \in DOMAIN Wrong(item) => Wrong(item)[f] = item[f]
  OBVIOUS
<1> HIDE DEF w, Wrong
<1>3. \A l : l \in some <=> l \in DOMAIN e.lists /\ \E i \in DOMAIN e.lists[l] :
                              \E f \in DOMAIN e.lists[l][i] : e.lists[l][i][f] # <<>>
  <2>1. \A l : l \in some <=> l \in DOMAIN e.lists /\ \E i \in DOMAIN e.lists[l] : DOMAIN Wrong(e.lists[l][i]) # {}
    OBVIOUS
  <2>2. \A item : DOMAIN Wrong(item) # {} <=> \E f \in DOMAIN item : item[f] # <<>>
    BY <1>2
  <2> HIDE DEF some
  <2> SUFFICES ASSUME NEW l
               PROVE  l \in some <=> l \in DOMAIN e.lists /\ \E i \in DOMAIN e.lists[l] :
                                        \E f \in DOMAIN e.lists[l][i] : e.lists[l][i][f] # <<>>
    OBVIOUS
  <2>3. \A i \in DOMAIN e.lists[l] : DOMAIN Wrong(e.lists[l][i]) # {}
                                       <=> \E f \in DOMAIN e.lists[l][i] : e.lists[l][i][f] # <<>>
    BY <2>2
  <2> QED BY <2>1, <2>3
<1> HIDE DEF some
<1>4. /\ DOMAIN w.lists = some
      /\ \A l \in some : \A i \in DOMAIN e.lists[l] : w.lists[l][i] = Wrong(e.lists[l][i])
  BY <1>1
<1>5. WrongLeft(e, w)
  BY <1>1, <1>2, <1>3, <1>4 DEF WrongLeft
<1> QED BY <1>5 DEF w

EmptyLists(d) ==
    {l \in DOMAIN d.lists : d.lists[l] = <<>>} \cup {f \in DOMAIN d.plain : d.plain[f] = EmptyList}

LEMMA RepopulatedIs ==
    ASSUME NEW flat, NEW d
    PROVE  LET u == Navl!Unflatten(flat)
               r == Navl!Repopulated(u, d)
           IN  /\ r.lists = u.lists
               /\ DOMAIN r.plain = DOMAIN u.plain \cup (EmptyLists(d) \ (DOMAIN u.plain \cup DOMAIN u.lists))
               /\ \A f \in DOMAIN r.plain : r.plain[f] = IF f \in DOMAIN u.plain THEN u.plain[f] ELSE EmptyList
<1> DEFINE plain == Navl!Plain(flat)
           lists == [l \in Navl!ListNames(flat) |->
                       [n \in 1 .. Navl!Cardinality(Navl!Indexes(flat, l)) |->
                          Navl!Item(flat, l, Navl!Nth(Navl!Indexes(flat, l), n))]]
           u == [plain |-> plain, lists |-> lists]
<1>1. Navl!Unflatten(flat) = u
  BY DEF Navl!Unflatten
<1> HIDE DEF plain, lists
<1>2. Navl!Repopulated(u, d) =
        [u EXCEPT !.plain = [f \in DOMAIN u.plain \cup (EmptyLists(d) \ (DOMAIN u.plain \cup DOMAIN u.lists)) |->
                               IF f \in DOMAIN u.plain THEN u.plain[f] ELSE EmptyList]]
  BY DEF Navl!Repopulated, EmptyLists
<1> QED BY <1>1, <1>2

LEMMA OutcomeIs ==
    ASSUME NEW d, NEW sch, Navl!Outcome(d, sch).kind = "validated"
    PROVE  LET made == Navl!Validated(Navl!Flatten(d), sch)
           IN  /\ Navl!Outcome(d, sch).data = Navl!Repopulated(Navl!Unflatten(made.data), d)
               /\ Navl!Outcome(d, sch).errors = Navl!WithErrors(Navl!Unflatten(made.errors))
<1> DEFINE made == Navl!Validated(Navl!Flatten(d), sch)
           back == Navl!Repopulated(Navl!Unflatten(made.data), d)
           wrong == Navl!WithErrors(Navl!Unflatten(made.errors))
           done == [kind |-> "validated", data |-> back, errors |-> wrong, unexpected |-> made.unexpected]
           refused == [kind |-> "DataError"]
<1>1. Navl!Outcome(d, sch) = IF Navl!Naughty(Navl!Flatten(d), sch) THEN refused ELSE done
  BY DEF Navl!Outcome
<1> HIDE DEF made, back, wrong
<1>2. refused.kind = "DataError" /\ done.data = back /\ done.errors = wrong
  OBVIOUS
<1> HIDE DEF refused, done
<1>3. Navl!Outcome(d, sch) = done
  BY <1>1, <1>2
<1>4. Navl!Outcome(d, sch).data = back /\ Navl!Outcome(d, sch).errors = wrong
  BY <1>2, <1>3
<1> QED BY <1>4 DEF back, wrong, made

\* No item is without a field.
WholeIn(d) == \A l \in DOMAIN d.lists : \A i \in DOMAIN d.lists[l] : DOMAIN d.lists[l][i] # {}

LEMMA IndexesGiven ==
    ASSUME NEW d \in Inputs, NEW l \in DOMAIN d.lists
    PROVE  LET is == Navl!Indexes(Navl!Flatten(d), l)
           IN  /\ is \in SUBSET (1 .. Len(d.lists[l])) /\ Len(d.lists[l]) \in Nat
               /\ DOMAIN d.lists[l] = 1 .. Len(d.lists[l])
               /\ WholeIn(d) => is = 1 .. Len(d.lists[l])
<1> DEFINE flat == Navl!Flatten(d)
<1>1. Flattened(d, flat)
  BY FlattenIs
<1> HIDE DEF flat
<1>2. \A i, f : <<l, i, f>> \in DOMAIN flat <=> i \in DOMAIN d.lists[l] /\ f \in DOMAIN d.lists[l][i]
  BY <1>1 DEF Flattened
<1>3. \A i : i \in Navl!Indexes(flat, l) <=> \E f : <<l, i, f>> \in DOMAIN flat
  BY <1>1, IndexesAre DEF Flattened
<1>4. \A i : i \in Navl!Indexes(flat, l) <=> i \in DOMAIN d.lists[l] /\ DOMAIN d.lists[l][i] # {}
  BY <1>2, <1>3
<1>5. DOMAIN d.lists[l] = 1 .. Len(d.lists[l]) /\ Len(d.lists[l]) \in Nat
  BY ValidationAssumption
<1>6. WholeIn(d) => Navl!Indexes(flat, l) = 1 .. Len(d.lists[l])
  BY <1>4, <1>5 DEF WholeIn
<1> QED BY <1>4, <1>5, <1>6 DEF flat

\* The chains of validators that the errors of an item come from.
GivenIn(d, l, i, f) == IF f \in DOMAIN d.lists[l][i] THEN d.lists[l][i][f] ELSE Missing

LEMMA ErrorsPlaced ==
    ASSUME NEW d \in Inputs, NEW sch, Navl!Outcome(d, sch).kind = "validated", WholeIn(d),
           NEW l \in DOMAIN d.lists, NEW i \in DOMAIN d.lists[l], l \in DOMAIN sch.lists,
           NEW f \in DOMAIN sch.lists[l]
    PROVE  LET wrong == Navl!Convert(sch.lists[l][f], GivenIn(d, l, i, f)).errors
               places == Navl!Outcome(d, sch).errors.lists
           IN  IF wrong = <<>>
               THEN l \in DOMAIN places => f \notin DOMAIN places[l][i]
               ELSE /\ l \in DOMAIN places /\ f \in DOMAIN places[l][i]
                    /\ places[l][i][f] = wrong
<1> DEFINE flat == Navl!Flatten(d)
           full == Navl!FullSchema(flat, sch)
           errs == Navl!Validated(flat, sch).errors
           e == Navl!Unflatten(errs)
           w == Navl!WithErrors(e)
           wrong == Navl!Convert(sch.lists[l][f], GivenIn(d, l, i, f)).errors
           N == Len(d.lists[l])
<1>1. Flattened(d, flat)
  BY FlattenIs
<1>2. Laid(flat, sch, full)
  BY FullSchemaIs
<1>3. errs = [k \in DOMAIN full |-> Turned(flat, full, k).errors]
  BY ValidatedIs DEF MadeOf
<1>4. Navl!Outcome(d, sch).errors = w
  BY OutcomeIs
<1>5. WrongLeft(e, w)
  BY WithErrorsIs
<1>6. /\ Navl!Indexes(flat, l) = 1 .. N /\ N \in Nat /\ i \in 1 .. N
  BY IndexesGiven
<1> HIDE DEF w, errs, full, flat, N
<1>7. \A j \in 1 .. N : \A g \in DOMAIN sch.lists[l] : <<l, j, g>> \in DOMAIN errs
  BY <1>2, <1>3, <1>6 DEF Laid
<1>8. errs[<<l, i, f>>] = wrong
  <2>1. <<l, i, f>> \in DOMAIN errs /\ <<l, i, f>> \in DOMAIN full
    BY <1>3, <1>6, <1>7
  <2>2. errs[<<l, i, f>>] = Turned(flat, full, <<l, i, f>>).errors
    BY <1>3, <2>1
  <2>3. full[<<l, i, f>>] = sch.lists[l][f]
    BY <1>2, <2>1 DEF Laid
  <2>4. (IF <<l, i, f>> \in DOMAIN flat THEN flat[<<l, i, f>>] ELSE Missing) = GivenIn(d, l, i, f)
    BY <1>1 DEF Flattened, GivenIn
  <2> QED BY <2>2, <2>3, <2>4 DEF Turned
<1>9. Unflattened(errs, e)
  BY <1>2, <1>3, UnflattenIs DEF Laid
<1>10. \A k \in DOMAIN errs : FlatKey(k)
  BY <1>2, <1>3 DEF Laid
<1>11. Navl!Indexes(errs, l) = 1 .. N
  <2>1. \A j : j \in Navl!Indexes(errs, l) <=> \E g : <<l, j, g>> \in DOMAIN errs
    BY <1>10, IndexesAre
  <2>2. \A j, g : <<l, j, g>> \in DOMAIN errs => j \in 1 .. N
    BY <1>2, <1>3, <1>6 DEF Laid
  <2> QED BY <1>7, <2>1, <2>2
<1>12. l \in DOMAIN e.lists /\ DOMAIN e.lists[l] = 1 .. N
       /\ \A n \in 1 .. N : e.lists[l][n] = Navl!Item(errs, l, n)
  <2>1. Navl!Cardinality(1 .. N) = N /\ \A n \in 1 .. N : Navl!Nth(1 .. N, n) = n
    BY <1>6, NthOfAll
  <2>2. 1 .. N # {}
    BY <1>6
  <2>3. l \in DOMAIN e.lists
    BY <1>9, <1>11, <2>2 DEF Unflattened
  <2>4. e.lists[l] = [n \in 1 .. N |-> Navl!Item(errs, l, Navl!Nth(1 .. N, n))]
    BY <1>9, <1>11, <2>1, <2>3 DEF Unflattened
  <2> QED BY <2>1, <2>3, <2>4
<1> HIDE DEF e
<1>13. f \in DOMAIN e.lists[l][i] /\ e.lists[l][i][f] = wrong
  <2>1. <<l, i, f>> \in DOMAIN errs
    BY <1>6, <1>7
  <2>2. f \in DOMAIN Navl!Item(errs, l, i) /\ Navl!Item(errs, l, i)[f] = errs[<<l, i, f>>]
    BY <1>10, <2>1, IndexesAre
  <2> QED BY <1>6, <1>8, <1>12, <2>2
<1> HIDE DEF wrong
<1>14. IF wrong = <<>>
       THEN l \in DOMAIN w.lists => f \notin DOMAIN w.lists[l][i]
       ELSE /\ l \in DOMAIN w.lists /\ f \in DOMAIN w.lists[l][i]
            /\ w.lists[l][i][f] = wrong
  BY <1>5, <1>6, <1>12, <1>13 DEF WrongLeft
<1> QED BY <1>4, <1>14 DEF wrong

\* The keys of what comes out.
LEMMA MadeKeys ==
    ASSUME NEW d \in Inputs, NEW sch
    PROVE  LET flat == Navl!Flatten(d)
               full == Navl!FullSchema(flat, sch)
               made == Navl!Validated(flat, sch).data
           IN  /\ Flattened(d, flat) /\ Laid(flat, sch, full)
               /\ \A k \in DOMAIN made : FlatKey(k)
               /\ KeptExtras(flat, sch) \in SUBSET (DOMAIN flat \ DOMAIN full)
               /\ Unflattened(made, Navl!Unflatten(made))
               /\ \A l, i, f : <<l, i, f>> \in DOMAIN made => i \in Navl!Indexes(flat, l)
<1> DEFINE flat == Navl!Flatten(d)
           full == Navl!FullSchema(flat, sch)
           made == Navl!Validated(flat, sch).data
           kept == KeptExtras(flat, sch)
<1>1. Flattened(d, flat)
  BY FlattenIs
<1>2. Laid(flat, sch, full)
  BY FullSchemaIs
<1>3. DOMAIN made = {k \in DOMAIN full : Turned(flat, full, k).value # Navl!Popped} \cup kept
  BY ValidatedIs DEF MadeOf
<1>4. kept \in SUBSET (DOMAIN flat \ DOMAIN full)
  BY DEF KeptExtras
<1> HIDE DEF flat, full, made, kept
<1>5. \A k \in DOMAIN made : FlatKey(k)
  BY <1>1, <1>2, <1>3, <1>4 DEF Flattened, Laid
<1>6. Unflattened(made, Navl!Unflatten(made))
  BY <1>5, UnflattenIs
<1>7. ASSUME NEW l, NEW i, NEW f, <<l, i, f>> \in DOMAIN made PROVE i \in Navl!Indexes(flat, l)
  <2>1. CASE <<l, i, f>> \in DOMAIN full
    BY <1>2, <2>1 DEF Laid
  <2>2. CASE <<l, i, f>> \in DOMAIN flat
    <3>1. \A k \in DOMAIN flat : FlatKey(k)
      BY <1>1 DEF Flattened
    <3> QED BY <2>2, <3>1, IndexesAre
  <2> QED BY <1>3, <1>4, <1>7, <2>1, <2>2
<1> QED BY <1>1, <1>2, <1>4, <1>5, <1>6, <1>7 DEF flat, full, made, kept

LEMMA EmptyListsStay ==
    ASSUME NEW d \in Inputs, NEW sch, Navl!Outcome(d, sch).kind = "validated",
           NEW l \in DOMAIN d.lists, d.lists[l] = <<>>
    PROVE  l \in DOMAIN Navl!Outcome(d, sch).data.plain
<1> DEFINE flat == Navl!Flatten(d)
           made == Navl!Validated(flat, sch).data
           u == Navl!Unflatten(made)
           r == Navl!Repopulated(u, d)
<1>1. Navl!Outcome(d, sch).data = r
  BY OutcomeIs
<1>2. DOMAIN r.plain = DOMAIN u.plain \cup (EmptyLists(d) \ (DOMAIN u.plain \cup DOMAIN u.lists))
  BY RepopulatedIs
<1>3. l \in EmptyLists(d)
  BY DEF EmptyLists
<1>4. l \notin DOMAIN u.lists
  <2>1. /\ Unflattened(made, u) /\ \A k \in DOMAIN made : FlatKey(k)
        /\ \A i, f : <<l, i, f>> \in DOMAIN made => i \in Navl!Indexes(flat, l)
    BY MadeKeys
  <2>2. Navl!Indexes(flat, l) \in SUBSET (DOMAIN d.lists[l])
    BY IndexesGiven
  <2>3. DOMAIN d.lists[l] = {}
    OBVIOUS
  <2> HIDE DEF flat, made, u
  <2>4. \A i : i \in Navl!Indexes(made, l) <=> \E f : <<l, i, f>> \in DOMAIN made
    BY <2>1, IndexesAre
  <2>5. Navl!Indexes(made, l) = {}
    BY <2>1, <2>2, <2>3, <2>4
  <2> QED BY <2>1, <2>5 DEF Unflattened
<1> HIDE DEF u, r
<1> QED BY <1>1, <1>2, <1>3, <1>4

\* What comes of a plain field.
LEMMA PlainIs ==
    ASSUME NEW d \in Inputs, NEW sch, Navl!Outcome(d, sch).kind = "validated", NEW f
    PROVE  LET flat == Navl!Flatten(d)
               full == Navl!FullSchema(flat, sch)
               out == Navl!Outcome(d, sch).data.plain
               turned == Turned(flat, full, <<f>>)
           IN  /\ f \in DOMAIN sch.plain /\ turned.value # Navl!Popped
                    => f \in DOMAIN out /\ out[f] = turned.value
               /\ f \in DOMAIN out /\ out[f] = Missing => f \in DOMAIN sch.plain /\ turned.value = Missing
<1> DEFINE flat == Navl!Flatten(d)
           full == Navl!FullSchema(flat, sch)
           both == Navl!Validated(flat, sch)
           made == both.data
           u == Navl!Unflatten(made)
           r == Navl!Repopulated(u, d)
           kept == KeptExtras(flat, sch)
           turned == Turned(flat, full, <<f>>)
<1>1. Navl!Outcome(d, sch).data = r
  BY OutcomeIs
<1>2. /\ DOMAIN r.plain = DOMAIN u.plain \cup (EmptyLists(d) \ (DOMAIN u.plain \cup DOMAIN u.lists))
      /\ \A g \in DOMAIN r.plain : r.plain[g] = IF g \in DOMAIN u.plain THEN u.plain[g] ELSE EmptyList
  BY RepopulatedIs
<1>3. /\ Flattened(d, flat) /\ Laid(flat, sch, full)
      /\ kept \in SUBSET (DOMAIN flat \ DOMAIN full)
      /\ Unflattened(made, u)
  BY MadeKeys
<1>4. /\ DOMAIN made = {k \in DOMAIN full : Turned(flat, full, k).value # Navl!Popped} \cup kept
      /\ \A k \in kept : made[k] = flat[k]
      /\ \A k \in DOMAIN full : k \in DOMAIN made => made[k] = Turned(flat, full, k).value
  <2>1. MadeOf(flat, sch, full, both)
    BY ValidatedIs
  <2> HIDE DEF flat, full, both
  <2> QED BY <2>1 DEF MadeOf
<1> HIDE DEF flat, full, both, made, u, r, kept
<1>5. f \in DOMAIN u.plain <=> <<f>> \in DOMAIN made
  BY <1>3 DEF Unflattened
<1>6. f \in DOMAIN u.plain => u.plain[f] = made[<<f>>]
  BY <1>3 DEF Unflattened
<1>7. <<f>> \in DOMAIN full <=> f \in DOMAIN sch.plain
  BY <1>3 DEF Laid
<1>8. <<f>> \in DOMAIN flat => flat[<<f>>] # Missing
  BY <1>3 DEF Flattened
<1>9. f \in DOMAIN sch.plain /\ turned.value # Navl!Popped => f \in DOMAIN r.plain /\ r.plain[f] = turned.value
  BY <1>2, <1>4, <1>5, <1>6, <1>7
<1>10. f \in DOMAIN r.plain /\ r.plain[f] = Missing => f \in DOMAIN sch.plain /\ turned.value = Missing
  BY <1>2, <1>3, <1>4, <1>5, <1>6, <1>7, <1>8, ValidationAssumption
<1> QED BY <1>1, <1>9, <1>10 DEF full, flat

LEMMA EmptyFieldsStay ==
    ASSUME NEW d \in Inputs, NEW sch, Navl!Outcome(d, sch).kind = "validated",
           NEW f \in DOMAIN d.plain \cap DOMAIN sch.plain,
           sch.plain[f] = <<"ignore_missing">>, d.plain[f] = Empty
    PROVE  f \in DOMAIN Navl!Outcome(d, sch).data.plain
<1> DEFINE flat == Navl!Flatten(d)
           full == Navl!FullSchema(flat, sch)
<1>1. Flattened(d, flat) /\ Laid(flat, sch, full)
  BY MadeKeys
<1>2. f \in DOMAIN sch.plain /\ Turned(flat, full, <<f>>).value # Navl!Popped
           => f \in DOMAIN Navl!Outcome(d, sch).data.plain
  BY PlainIs
<1> HIDE DEF flat, full
<1>3. <<f>> \in DOMAIN flat /\ flat[<<f>>] = Empty /\ full[<<f>>] = <<"ignore_missing">>
  BY <1>1 DEF Flattened, Laid
<1>4. Turned(flat, full, <<f>>).value = Empty
  BY <1>3, EmptyStays DEF Turned
<1> QED BY <1>2, <1>4, ValidationAssumption

LEMMA MarkersHaveErrors ==
    ASSUME NEW d \in Inputs, NEW sch \in Schemas, Navl!Outcome(d, sch).kind = "validated",
           NEW f \in DOMAIN Navl!Outcome(d, sch).data.plain,
           Navl!Outcome(d, sch).data.plain[f] = Missing,
           f \in DOMAIN sch.plain => \E n \in DOMAIN sch.plain[f] : sch.plain[f][n] \in Navl!Answering
    PROVE  f \in DOMAIN Navl!Outcome(d, sch).errors.plain
<1> DEFINE flat == Navl!Flatten(d)
           full == Navl!FullSchema(flat, sch)
           errs == Navl!Validated(flat, sch).errors
           e == Navl!Unflatten(errs)
           w == Navl!WithErrors(e)
           turned == Turned(flat, full, <<f>>)
<1>1. Flattened(d, flat) /\ Laid(flat, sch, full)
  BY MadeKeys
<1>2. f \in DOMAIN sch.plain /\ turned.value = Missing
  BY PlainIs
<1>3. errs = [k \in DOMAIN full |-> Turned(flat, full, k).errors]
  BY ValidatedIs DEF MadeOf
<1>4. Navl!Outcome(d, sch).errors = w
  BY OutcomeIs
<1>5. WrongLeft(e, w)
  BY WithErrorsIs
<1> HIDE DEF flat, full, errs, w
<1>6. <<f>> \in DOMAIN errs /\ errs[<<f>>] = turned.errors
  BY <1>1, <1>2, <1>3 DEF Laid
<1>7. Unflattened(errs, e)
  BY <1>1, <1>3, UnflattenIs DEF Laid
<1>8. turned.errors # <<>>
  <2> DEFINE vs == sch.plain[f]
             v == IF <<f>> \in DOMAIN flat THEN flat[<<f>>] ELSE Missing
  <2>1. turned = Navl!Convert(vs, v)
    BY <1>1, <1>2 DEF Turned, Laid
  <2>2. Len(vs) \in Nat /\ DOMAIN vs = 1 .. Len(vs) /\ \A n \in 1 .. Len(vs) : vs[n] \in STRING
    BY <1>2, ValidationAssumption
  <2>3. \E n \in 1 .. Len(vs) : vs[n] \in Navl!Answering
    BY <1>2, <2>2
  <2> HIDE DEF vs, v
  <2> QED BY <1>2, <2>1, <2>2, <2>3, MissingAnswered
<1> HIDE DEF e
<1>9. f \in DOMAIN w.plain
  BY <1>5, <1>6, <1>7, <1>8 DEF WrongLeft, Unflattened
<1> QED BY <1>4, <1>9

LEMMA ExtrasStay ==
    ASSUME NEW d \in Inputs, NEW sch, Navl!Outcome(d, sch).kind = "validated", WholeIn(d),
           sch.itemExtras = "keep_extras",
           NEW l \in DOMAIN d.lists, NEW i \in DOMAIN d.lists[l], l \in DOMAIN sch.lists,
           NEW f \in DOMAIN d.lists[l][i] \ DOMAIN sch.lists[l]
    PROVE  LET out == Navl!Outcome(d, sch).data.lists
           IN  /\ l \in DOMAIN out
               /\ \E n \in DOMAIN out[l] : f \in DOMAIN out[l][n] /\ out[l][n][f] = d.lists[l][i][f]
<1> DEFINE flat == Navl!Flatten(d)
           full == Navl!FullSchema(flat, sch)
           both == Navl!Validated(flat, sch)
           made == both.data
           u == Navl!Unflatten(made)
           kept == KeptExtras(flat, sch)
           N == Len(d.lists[l])
           is == Navl!Indexes(made, l)
           k == <<l, i, f>>
<1>1. Navl!Outcome(d, sch).data.lists = u.lists
  BY OutcomeIs, RepopulatedIs
<1>2. /\ Flattened(d, flat) /\ Laid(flat, sch, full) /\ Unflattened(made, u)
      /\ \A key \in DOMAIN made : FlatKey(key)
      /\ \A m, j, g : <<m, j, g>> \in DOMAIN made => j \in Navl!Indexes(flat, m)
  BY MadeKeys
<1>3. /\ kept \in SUBSET (DOMAIN made)
      /\ \A key \in kept : made[key] = flat[key]
  <2>1. MadeOf(flat, sch, full, both)
    BY ValidatedIs
  <2> HIDE DEF flat, full, both
  <2> QED BY <2>1 DEF MadeOf
<1>4. Navl!Indexes(flat, l) = 1 .. N /\ N \in Nat /\ i \in 1 .. N
  BY IndexesGiven
<1>5. k \in kept
  <2>1. k \in DOMAIN flat
    BY <1>2 DEF Flattened
  <2>2. k \notin DOMAIN full
    BY <1>2 DEF Laid
  <2>3. Navl!Place(k) \in Navl!KeyCombinations(flat, sch)
    <3>1. Navl!Place(k) = <<l, i>>
      BY PlaceOfLong
    <3> HIDE DEF flat
    <3> QED BY <1>4, <3>1, CombinationsAre
  <2>4. Len(k) # 1
    BY LongKey
  <2> QED BY <2>1, <2>2, <2>3, <2>4 DEF KeptExtras
<1>6. k \in DOMAIN made /\ made[k] = d.lists[l][i][f]
  BY <1>2, <1>3, <1>5 DEF Flattened
<1> HIDE DEF flat, full, both, made, u, kept, N
<1>7. \A j : j \in is <=> \E g : <<l, j, g>> \in DOMAIN made
  BY <1>2, IndexesAre
<1>8. i \in is /\ is \in SUBSET (1 .. N)
  BY <1>2, <1>4, <1>6, <1>7
<1>9. is \in SUBSET Nat /\ IsFiniteSet(is)
  <2>1. IsFiniteSet(1 .. N)
    BY <1>4, UpTo
  <2> HIDE DEF is
  <2>2. is \in SUBSET Nat
    BY <1>4, <1>8
  <2>3. IsFiniteSet(is)
    BY <1>8, <2>1, FS_Subset
  <2> QED BY <2>2, <2>3
<1> HIDE DEF is
<1>10. PICK n \in 1 .. Navl!Cardinality(is) : Navl!Nth(is, n) = i
  BY <1>8, <1>9, NthIndex
<1>11. l \in DOMAIN u.lists
       /\ u.lists[l] = [m \in 1 .. Navl!Cardinality(is) |-> Navl!Item(made, l, Navl!Nth(is, m))]
  BY <1>2, <1>8 DEF Unflattened, is
<1>12. n \in DOMAIN u.lists[l] /\ u.lists[l][n] = Navl!Item(made, l, i)
  BY <1>10, <1>11
<1>13. f \in DOMAIN Navl!Item(made, l, i) /\ Navl!Item(made, l, i)[f] = made[k]
  BY <1>2, <1>6, IndexesAre
<1> QED BY <1>1, <1>6, <1>11, <1>12, <1>13

\* A validation that is over has made what its input and its schema make.
NavlInv ==
    /\ input \in Inputs /\ schema \in Schemas
    /\ result = None \/ result = Navl!Outcome(input, schema)

LEMMA ServicesRunNavl == ServicesSpec => [](focus = "navl" => NavlInv)
<1>1. ServicesInit => (focus = "navl" => NavlInv)
  BY DEF ServicesInit, Navl!Init, NavlInv
<1>2. (focus = "navl" => NavlInv) /\ [ServicesNext]_all => (focus = "navl" => NavlInv)'
  <2> SUFFICES ASSUME focus = "navl" => NavlInv, [ServicesNext]_all, focus' = "navl" PROVE NavlInv'
    OBVIOUS
  <2>1. focus = "navl"
    BY DEF ServicesNext, all
  <2>2. Navl!Run \/ UNCHANGED navlVars
    BY <2>1 DEF ServicesNext, all, Navl!Next
  <2>3. CASE Navl!Run
    BY <2>1, <2>3 DEF Navl!Run, NavlInv
  <2>4. CASE UNCHANGED navlVars
    BY <2>1, <2>4 DEF navlVars, NavlInv
  <2> QED BY <2>2, <2>3, <2>4
<1> QED BY <1>1, <1>2, PTL DEF ServicesSpec

LEMMA DoneIsOutcome ==
    ASSUME NavlInv, Navl!Done
    PROVE  /\ input \in Inputs /\ schema \in Schemas /\ result = Navl!Outcome(input, schema)
           /\ Navl!Outcome(input, schema).kind = "validated"
BY DEF NavlInv, Navl!Done

LEMMA ItemsAre ==
    \A c : c \in Navl!Items(input.lists)
             <=> \E l \in DOMAIN input.lists : \E i \in DOMAIN input.lists[l] : c = <<l, i>>
BY DEF Navl!Items

LEMMA NoneWithoutField == Navl!Whole => WholeIn(input)
<1> SUFFICES ASSUME Navl!Whole, NEW l \in DOMAIN input.lists, NEW i \in DOMAIN input.lists[l]
             PROVE  DOMAIN input.lists[l][i] # {}
  BY DEF WholeIn
<1>1. <<l, i>> \in Navl!Items(input.lists)
  BY ItemsAre
<1>2. <<l, i>>[1] = l /\ <<l, i>>[2] = i
  OBVIOUS
<1> QED BY <1>1, <1>2 DEF Navl!Whole

LEMMA NavlErrors == NavlInv => Navl!ErrorsAreInPlace
<1> SUFFICES ASSUME NavlInv, Navl!Done, Navl!Whole, NEW c \in Navl!Items(input.lists),
                    c[1] \in DOMAIN schema.lists, NEW f \in DOMAIN schema.lists[c[1]]
             PROVE  LET wrong == Navl!Convert(schema.lists[c[1]][f], Navl!Given(c, f)).errors
                        places == result.errors.lists
                    IN  IF wrong = <<>>
                        THEN c[1] \in DOMAIN places => f \notin DOMAIN places[c[1]][c[2]]
                        ELSE /\ c[1] \in DOMAIN places /\ f \in DOMAIN places[c[1]][c[2]]
                             /\ places[c[1]][c[2]][f] = wrong
  BY DEF Navl!ErrorsAreInPlace
<1>1. PICK l \in DOMAIN input.lists, i \in Nat : i \in DOMAIN input.lists[l] /\ c = <<l, i>>
  <2>1. \A l \in DOMAIN input.lists : DOMAIN input.lists[l] \in SUBSET Nat
    BY DoneIsOutcome, ValidationAssumption
  <2> QED BY <2>1, ItemsAre
<1>2. c[1] = l /\ c[2] = i
  BY <1>1
<1>3. Navl!Given(c, f) = GivenIn(input, l, i, f)
  BY <1>2 DEF Navl!Given, GivenIn
<1>4. LET wrong == Navl!Convert(schema.lists[l][f], GivenIn(input, l, i, f)).errors
          places == Navl!Outcome(input, schema).errors.lists
      IN  IF wrong = <<>>
          THEN l \in DOMAIN places => f \notin DOMAIN places[l][i]
          ELSE /\ l \in DOMAIN places /\ f \in DOMAIN places[l][i]
               /\ places[l][i][f] = wrong
  BY <1>1, <1>2, DoneIsOutcome, NoneWithoutField, ErrorsPlaced
<1> QED BY <1>2, <1>3, <1>4, DoneIsOutcome

LEMMA NavlKeeps == NavlInv => Navl!NothingIsLost
<1> SUFFICES ASSUME NavlInv, Navl!Done PROVE Navl!NothingIsLost
  BY DEF Navl!NothingIsLost
<1>1. /\ input \in Inputs /\ schema \in Schemas /\ result = Navl!Outcome(input, schema)
      /\ Navl!Outcome(input, schema).kind = "validated"
  BY DoneIsOutcome
<1>2. \A l \in DOMAIN input.lists : input.lists[l] = <<>> => l \in DOMAIN result.data.plain
  BY <1>1, EmptyListsStay
<1>3. \A f \in DOMAIN input.plain \cap DOMAIN schema.plain :
        schema.plain[f] = <<"ignore_missing">> /\ input.plain[f] = Empty =>
          f \in DOMAIN result.data.plain
  BY <1>1, EmptyFieldsStay
<1>4. \A f \in DOMAIN result.data.plain :
        result.data.plain[f] = Missing /\ Navl!Answered(f) => f \in DOMAIN result.errors.plain
  BY <1>1, MarkersHaveErrors DEF Navl!Answered
<1>5. ASSUME Navl!Whole, schema.itemExtras = "keep_extras", NEW c \in Navl!Items(input.lists),
             c[1] \in DOMAIN schema.lists,
             NEW f \in DOMAIN input.lists[c[1]][c[2]] \ DOMAIN schema.lists[c[1]]
      PROVE  /\ c[1] \in DOMAIN result.data.lists
             /\ \E i \in DOMAIN result.data.lists[c[1]] :
                  LET item == result.data.lists[c[1]][i]
                  IN  f \in DOMAIN item /\ item[f] = input.lists[c[1]][c[2]][f]
  <2>1. PICK l \in DOMAIN input.lists, i \in Nat : i \in DOMAIN input.lists[l] /\ c = <<l, i>>
    <3>1. \A l \in DOMAIN input.lists : DOMAIN input.lists[l] \in SUBSET Nat
      BY <1>1, ValidationAssumption
    <3> QED BY <3>1, ItemsAre
  <2>2. c[1] = l /\ c[2] = i
    BY <2>1
  <2>3. WholeIn(input)
    BY <1>5, NoneWithoutField
  <2> QED BY <1>1, <1>5, <2>1, <2>2, <2>3, ExtrasStay
<1> QED BY <1>2, <1>3, <1>4, <1>5 DEF Navl!NothingIsLost

\* For any inputs and schemas: an error of a field of an item is reported at the place of the
\* item, empty lists and empty strings of optional fields are kept, and so is what the schema
\* keeps without knowing it, and the marker of a missing value goes out only beside an error,
\* where the schema does anything about it: validate, flatten_dict, unflatten, augment_data.
THEOREM ValidationStaysFaithful == ServicesSpec => []ValidationKeeps
<1>1. (focus = "navl" => NavlInv) => ValidationKeeps
  BY NavlErrors, NavlKeeps DEF ValidationKeeps
<1> QED BY <1>1, ServicesRunNavl, PTL

-----------------------------------------------------------------------------
(***************************************************************************)
(* Views are added up.                                                     *)
(***************************************************************************)
ViewRows ==
    [url : Views!Urls, day : Nat, count : Nat \ {0}, pkg : Packages \cup {None, NotFound}, total : Nat]

\* Rows of the summary: finitely many, one for a url and a day.
AreRows(R) ==
    /\ IsFiniteSet(R) /\ R \subseteq ViewRows
    /\ \A s, t \in R : s.url = t.url /\ s.day = t.day => s = t

VisitsIn(V, url, d) == {v.user : v \in {x \in V : x.url = url /\ x.day = d}}

\* What was viewed, by whom it was counted, and how far a run has come.
RunTyped ==
    /\ from \in Nat /\ day \in Nat /\ until \in Nat
    /\ from =< day /\ day =< until /\ until =< today
    /\ \A s \in summary : s.day =< until
    /\ at = "index" => day = until
    /\ at = "count" => \A s \in summary : s.day # day

ViewsBasic ==
    /\ today \in Nat /\ name \in [Packages -> Pages]
    /\ \A p, q \in Packages : name[p] = name[q] => p = q
    /\ IsFiniteSet(raw)
    /\ AreRows(summary)
    /\ \A s \in summary : /\ s.day =< today /\ VisitsIn(raw, s.url, s.day) # {}
                          /\ s.url \in Links => s.pkg = None
    /\ \A p \in Packages \ renamed : \A s \in summary :
         s.pkg # None => (s.url = name[p] <=> s.pkg = p)
    /\ owed \in Nat \cup {None}
    /\ at \in Views!Statements \cup {"idle"}
    /\ at # "idle" => RunTyped

\* Whether a run will make up for what is owed, and up to which day the summary is right.
MakesUp == owed = None \/ from =< owed
RightUntil ==
    IF at = "idle" THEN Views!Earlier(owed, Views!DefaultStart)
    ELSE IF MakesUp THEN day ELSE owed

CountedOn(V, R, d) ==
    \A url \in Views!Urls :
      IF VisitsIn(V, url, d) = {} THEN \A s \in R : ~ (s.url = url /\ s.day = d)
      ELSE \E s \in R : s.url = url /\ s.day = d /\ s.count = Cardinality(VisitsIn(V, url, d))

OfUrl(R, url) == {t \in R : t.url = url}
OfPackage(R, p) == {t \in R : t.pkg = p}
TotalRight(R, s) ==
    IF s.url \in Links THEN s.total = Views!CountsUntil(s.day, OfUrl(R, s.url))
    ELSE /\ s.pkg # None
         /\ s.pkg \in Packages => s.total = Views!CountsUntil(s.day, OfPackage(R, s.pkg))

SoundUntil(V, R, x) ==
    /\ \A d \in Nat : d < x => CountedOn(V, R, d)
    /\ \A s \in R : s.day < x => TotalRight(R, s)

\* The day that a run is at.
DaySound ==
    /\ at \in {"names", "links", "pages"} /\ day < until => CountedOn(raw, summary, day)
    /\ at \in {"names", "links"} => \A s \in summary : s.day = day => s.total = 0
    /\ at = "pages" => \A s \in summary : s.day = day =>
         IF s.url \in Links THEN TotalRight(summary, s) ELSE s.total = 0
    /\ at = "index" => \A s \in summary : s.day = day => TotalRight(summary, s)

ViewsSound ==
    /\ SoundUntil(raw, summary, RightUntil)
    /\ at # "idle" /\ (owed = None \/ from < owed) =>
         \A s \in summary : s.day =< from + 2 \/ s.day =< day
    /\ at # "idle" /\ MakesUp => DaySound

\* Rows whose page has its package, and whose package has a total.
AreNamed(R) == \A s \in R : s.url \in Pages => s.pkg # None
AreFinished(R) == AreNamed(R) /\ \A s \in R : s.pkg \in Packages => s.total > 0

ViewsFinished ==
    /\ at \in {"links", "pages", "index"} => AreNamed(summary)
    /\ at = "index" => AreFinished(summary)
    /\ stale # Packages =>
         AreFinished(IF at \in {"names", "links", "pages"} THEN {s \in summary : s.day # day} ELSE summary)

\* The totals of a package before a day, and whether a run that began then finds it.
TotalsBefore(R, p, d) ==
    LET mine == {s \in R : s.pkg = p /\ s.day < d}
    IN  IF mine = {} THEN {0} ELSE {s.total : s \in {x \in mine : \A t \in mine : t.day =< x.day}}

WillBeFound(p) ==
    \E d \in from .. until :
      IF d > day \/ (d = day /\ at \in {"clear", "count"}) THEN VisitsIn(raw, name[p], d) # {}
      ELSE \E s \in summary : s.url = name[p] /\ s.day = d

ViewsShown ==
    \A p \in Packages \ (stale \cup renamed) :
      IF at = "idle" THEN shown[p] \in Views!TotalsOf(p)
      ELSE shown[p] \in TotalsBefore(summary, p, from) \/ WillBeFound(p)

ViewsInv == ViewsBasic /\ ViewsSound /\ ViewsFinished /\ ViewsShown

LEMMA ImageFinite ==
    ASSUME NEW S, IsFiniteSet(S), NEW f
    PROVE  IsFiniteSet({f[s] : s \in S})
<1> DEFINE T == {f[s] : s \in S}
           g == [s \in S |-> f[s]]
<1>1. g \in [S -> T] /\ \A t \in T : \E s \in S : g[s] = t
  OBVIOUS
<1>2. g \in Surjection(S, T)
  BY <1>1 DEF Surjection
<1> HIDE DEF g, T
<1>3. IsFiniteSet(T)
  BY <1>2, FS_Surjection
<1> QED BY <1>3 DEF T

\* Each visitor of each url and day of these rows.
Seen(R) == UNION {{<<s.url, s.day>>} \X (1 .. s.count) : s \in R}

LEMMA SeenIs ==
    ASSUME NEW R
    PROVE  \A v : v \in Seen(R) <=> \E s \in R : \E i \in 1 .. s.count : v = <<<<s.url, s.day>>, i>>
<1>1. \A v : v \in Seen(R) <=> \E s \in R : v \in {<<s.url, s.day>>} \X (1 .. s.count)
  BY DEF Seen
<1>2. \A v : \A s : v \in {<<s.url, s.day>>} \X (1 .. s.count)
                      <=> \E i \in 1 .. s.count : v = <<<<s.url, s.day>>, i>>
  OBVIOUS
<1> QED BY <1>1, <1>2

LEMMA SeenFinite ==
    ASSUME NEW R, AreRows(R)
    PROVE  IsFiniteSet(Seen(R))
<1> DEFINE f == [s \in R |-> {<<s.url, s.day>>} \X (1 .. s.count)]
<1>1. IsFiniteSet(R) /\ \A s \in R : s.count \in Nat
  BY DEF AreRows, ViewRows
<1>2. Seen(R) = UNION {f[s] : s \in R}
  BY DEF Seen
<1>3. ASSUME NEW s \in R PROVE IsFiniteSet(f[s])
  <2> DEFINE n == s.count
             c == {<<s.url, s.day>>}
  <2>1. n \in Nat /\ f[s] = c \X (1 .. n)
    BY <1>1
  <2> HIDE DEF f, n
  <2>2. IsFiniteSet(1 .. n)
    BY <2>1, UpTo
  <2>3. IsFiniteSet(c)
    BY FS_Singleton
  <2> HIDE DEF c
  <2>4. IsFiniteSet(c \X (1 .. n))
    BY <2>2, <2>3, FS_Product
  <2> QED BY <2>1, <2>4
<1> DEFINE P == {f[s] : s \in R}
<1> HIDE DEF f
<1>4. IsFiniteSet(P)
  BY <1>1, ImageFinite
<1>5. \A T \in P : IsFiniteSet(T)
  BY <1>3
<1> HIDE DEF P
<1>6. IsFiniteSet(UNION P)
  BY <1>4, <1>5, FS_UNION
<1> QED BY <1>2, <1>6 DEF P

LEMMA RowsWithin ==
    ASSUME NEW R, AreRows(R), NEW Q \in SUBSET R
    PROVE  AreRows(Q)
<1>1. IsFiniteSet(Q)
  BY FS_Subset DEF AreRows
<1> QED BY <1>1 DEF AreRows

LEMMA SeenStep ==
    ASSUME NEW R, AreRows(R), NEW x \in R
    PROVE  /\ Cardinality(Seen(R)) = x.count + Cardinality(Seen(R \ {x}))
           /\ Cardinality(Seen(R)) \in Nat /\ Cardinality(Seen(R \ {x})) \in Nat
<1> DEFINE Q == R \ {x}
           n == x.count
           A == {<<x.url, x.day>>} \X (1 .. n)
<1>1. n \in Nat
  BY DEF AreRows, ViewRows
<1>2. AreRows(Q)
  BY RowsWithin
<1>3. IsFiniteSet(Seen(R)) /\ IsFiniteSet(Seen(Q))
  BY <1>2, SeenFinite
<1>4. \A v : v \in A <=> \E i \in 1 .. n : v = <<<<x.url, x.day>>, i>>
  OBVIOUS
<1>5. IsFiniteSet(A) /\ Cardinality(A) = n
  <2> DEFINE c == {<<x.url, x.day>>}
  <2>1. IsFiniteSet(1 .. n) /\ Cardinality(1 .. n) = n
    BY <1>1, UpTo
  <2>2. IsFiniteSet(c) /\ Cardinality(c) = 1
    BY FS_Singleton
  <2> HIDE DEF c, n
  <2>3. IsFiniteSet(c \X (1 .. n)) /\ Cardinality(c \X (1 .. n)) = Cardinality(c) * Cardinality(1 .. n)
    BY <2>1, <2>2, FS_Product
  <2>4. Cardinality(c \X (1 .. n)) = n
    BY <1>1, <2>1, <2>2, <2>3
  <2> QED BY <2>3, <2>4 DEF c
<1> HIDE DEF A, Q, n
<1>6. Seen(R) = A \cup Seen(Q)
  <2>1. \A v : v \in Seen(R) <=> v \in A \/ v \in Seen(Q)
    BY <1>4, SeenIs DEF Q, n
  <2> QED BY <2>1
<1>7. A \cap Seen(Q) = {}
  <2> SUFFICES ASSUME NEW v \in A, v \in Seen(Q) PROVE FALSE
    OBVIOUS
  <2>1. PICK s \in Q : \E i \in 1 .. s.count : v = <<<<s.url, s.day>>, i>>
    BY SeenIs
  <2>2. PICK i : v = <<<<x.url, x.day>>, i>>
    BY <1>4
  <2>3. s.url = x.url /\ s.day = x.day
    BY <2>1, <2>2
  <2> QED BY <2>3 DEF Q, AreRows
<1>8. Cardinality(A \cup Seen(Q)) = Cardinality(A) + Cardinality(Seen(Q)) - Cardinality(A \cap Seen(Q))
  BY <1>3, <1>5, FS_Union
<1>9. Cardinality(A \cap Seen(Q)) = 0
  BY <1>7, FS_EmptySet
<1>10. Cardinality(Seen(R)) \in Nat /\ Cardinality(Seen(Q)) \in Nat
  BY <1>3, FS_CardinalityType
<1>11. Cardinality(Seen(R)) = n + Cardinality(Seen(Q))
  BY <1>1, <1>5, <1>6, <1>8, <1>9, <1>10
<1> QED BY <1>10, <1>11 DEF n, Q

\* The sum over rows, one after the other.
SumOver(R) ==
    CHOOSE sum : sum = [S \in SUBSET R |->
      IF S = {} THEN 0 ELSE LET x == CHOOSE x \in S : TRUE IN x.count + sum[S \ {x}]]

LEMMA CountsAreSums ==
    ASSUME NEW R, NEW d
    PROVE  Views!CountsUntil(d, R) = SumOver({t \in R : t.day =< d})[{t \in R : t.day =< d}]
BY DEF Views!CountsUntil, SumOver, Views!MapThenSumSet, Views!MapThenFoldSet

LEMMA SumStep ==
    ASSUME NEW R, AreRows(R), NEW S \in SUBSET R
    PROVE  SumOver(R)[S] = IF S = {} THEN 0
                           ELSE LET x == CHOOSE x \in S : TRUE IN x.count + SumOver(R)[S \ {x}]
<1> DEFINE f == [Q \in SUBSET R |-> Cardinality(Seen(Q))]
           first(Q) == CHOOSE x \in Q : TRUE
<1>1. ASSUME NEW Q \in SUBSET R
      PROVE  f[Q] = IF Q = {} THEN 0 ELSE first(Q).count + f[Q \ {first(Q)}]
  <2>1. f[Q] = Cardinality(Seen(Q)) /\ f[Q \ {first(Q)}] = Cardinality(Seen(Q \ {first(Q)}))
    OBVIOUS
  <2>2. CASE Q = {}
    <3>1. Seen(Q) = {}
      BY <2>2 DEF Seen
    <3> QED BY <2>1, <2>2, <3>1, FS_EmptySet
  <2>3. CASE Q # {}
    <3>1. first(Q) \in Q
      BY <2>3
    <3>2. AreRows(Q)
      BY RowsWithin
    <3> HIDE DEF first, f
    <3>3. Cardinality(Seen(Q)) = first(Q).count + Cardinality(Seen(Q \ {first(Q)}))
      BY <3>1, <3>2, SeenStep
    <3> QED BY <2>1, <2>3, <3>3
  <2> QED BY <2>2, <2>3
<1>2. f = [Q \in SUBSET R |-> IF Q = {} THEN 0 ELSE LET x == CHOOSE x \in Q : TRUE IN x.count + f[Q \ {x}]]
  <2>1. f = [Q \in SUBSET R |-> f[Q]]
    OBVIOUS
  <2> HIDE DEF f
  <2> QED BY <1>1, <2>1
<1> HIDE DEF f
<1>3. SumOver(R) = [Q \in SUBSET R |->
        IF Q = {} THEN 0 ELSE LET x == CHOOSE x \in Q : TRUE IN x.count + SumOver(R)[Q \ {x}]]
  BY <1>2 DEF SumOver
<1> QED BY <1>3

LEMMA SumIsSeen ==
    ASSUME NEW R, AreRows(R)
    PROVE  SumOver(R)[R] = Cardinality(Seen(R))
<1> DEFINE N == Cardinality(R)
           Holds(n) == \A S \in SUBSET R : Cardinality(S) = n => SumOver(R)[S] = Cardinality(Seen(S))
           T == {n \in 0 .. N : Holds(n)}
<1>1. N \in Nat
  BY FS_CardinalityType DEF AreRows
<1>2. Holds(0)
  <2> SUFFICES ASSUME NEW S \in SUBSET R, Cardinality(S) = 0 PROVE SumOver(R)[S] = Cardinality(Seen(S))
    OBVIOUS
  <2>1. S = {}
    BY RowsWithin, FS_EmptySet DEF AreRows
  <2>2. SumOver(R)[S] = 0
    BY <2>1, SumStep
  <2>3. Seen(S) = {}
    BY <2>1 DEF Seen
  <2> QED BY <2>2, <2>3, FS_EmptySet
<1>3. ASSUME NEW n \in Nat, Holds(n) PROVE Holds(n + 1)
  <2> SUFFICES ASSUME NEW S \in SUBSET R, Cardinality(S) = n + 1 PROVE SumOver(R)[S] = Cardinality(Seen(S))
    OBVIOUS
  <2> DEFINE x == CHOOSE x \in S : TRUE
  <2>1. AreRows(S) /\ IsFiniteSet(S)
    BY RowsWithin DEF AreRows
  <2>2. S # {}
    BY FS_EmptySet
  <2>3. x \in S
    BY <2>2
  <2>4. SumOver(R)[S] = x.count + SumOver(R)[S \ {x}]
    BY <2>2, SumStep
  <2> HIDE DEF x
  <2>5. Cardinality(S \ {x}) = Cardinality(S) - 1
    BY <2>1, <2>3, FS_RemoveElement
  <2>6. Cardinality(S \ {x}) = n
    BY <2>5
  <2>7. SumOver(R)[S \ {x}] = Cardinality(Seen(S \ {x}))
    BY <1>3, <2>6
  <2>8. Cardinality(Seen(S)) = x.count + Cardinality(Seen(S \ {x}))
    BY <2>1, <2>3, SeenStep
  <2> QED BY <2>4, <2>7, <2>8
<1> HIDE DEF Holds
<1>4. T = 0 .. N
  <2>1. 0 \in T
    BY <1>1, <1>2
  <2>2. ASSUME NEW n \in 0 .. N - 1, n \in T PROVE n + 1 \in T
    <3>1. n + 1 \in 0 .. N /\ Holds(n) /\ n \in Nat
      BY <1>1, <2>2
    <3> QED BY <1>3, <3>1
  <2>3. T \in SUBSET (0 .. N)
    OBVIOUS
  <2> HIDE DEF T, N
  <2> QED BY <1>1, <2>1, <2>2, <2>3, StepByStep
<1>5. Holds(N)
  BY <1>1, <1>4
<1> QED BY <1>5 DEF Holds

\* A running total is the number of visits up to a day.
LEMMA CountsAre ==
    ASSUME NEW R, AreRows(R), NEW d
    PROVE  /\ Views!CountsUntil(d, R) = Cardinality(Seen({t \in R : t.day =< d}))
           /\ Views!CountsUntil(d, R) \in Nat
<1> DEFINE Q == {t \in R : t.day =< d}
<1>1. Views!CountsUntil(d, R) = SumOver(Q)[Q]
  BY CountsAreSums
<1>2. AreRows(Q)
  BY RowsWithin
<1> HIDE DEF Q
<1>3. SumOver(Q)[Q] = Cardinality(Seen(Q))
  BY <1>2, SumIsSeen
<1>4. Cardinality(Seen(Q)) \in Nat
  BY <1>2, SeenFinite, FS_CardinalityType
<1> QED BY <1>1, <1>3, <1>4 DEF Q

LEMMA CountsPositive ==
    ASSUME NEW R, AreRows(R), NEW d, NEW t \in R, t.day =< d
    PROVE  Views!CountsUntil(d, R) > 0
<1> DEFINE Q == {r \in R : r.day =< d}
<1>1. AreRows(Q) /\ t \in Q
  BY RowsWithin
<1>2. t.count \in Nat /\ t.count > 0
  BY DEF AreRows, ViewRows
<1> HIDE DEF Q
<1>3. Cardinality(Seen(Q)) = t.count + Cardinality(Seen(Q \ {t})) /\ Cardinality(Seen(Q \ {t})) \in Nat
  BY <1>1, SeenStep
<1>4. Cardinality(Seen(Q)) > 0
  BY <1>2, <1>3
<1>5. Views!CountsUntil(d, R) = Cardinality(Seen(Q))
  BY CountsAre DEF Q
<1> QED BY <1>4, <1>5

\* Rows with the same counts add up to the same.
SameCounts(R, Q, d) ==
    /\ \A s \in R : s.day =< d =>
         \E t \in Q : t.url = s.url /\ t.day = s.day /\ t.count = s.count
    /\ \A t \in Q : t.day =< d =>
         \E s \in R : s.url = t.url /\ s.day = t.day /\ s.count = t.count

LEMMA CountsSame ==
    ASSUME NEW R, NEW Q, AreRows(R), AreRows(Q), NEW d, SameCounts(R, Q, d)
    PROVE  Views!CountsUntil(d, R) = Views!CountsUntil(d, Q)
<1> DEFINE A == {t \in R : t.day =< d}
           B == {t \in Q : t.day =< d}
<1>1. /\ \A s \in A : \E t \in B : t.url = s.url /\ t.day = s.day /\ t.count = s.count
      /\ \A t \in B : \E s \in A : s.url = t.url /\ s.day = t.day /\ s.count = t.count
  BY DEF SameCounts
<1> HIDE DEF A, B
<1>2. \A v : v \in Seen(A) => v \in Seen(B)
  BY <1>1, SeenIs
<1>3. \A v : v \in Seen(B) => v \in Seen(A)
  BY <1>1, SeenIs
<1>4. Seen(A) = Seen(B)
  BY <1>2, <1>3
<1>5. Views!CountsUntil(d, R) = Cardinality(Seen(A)) /\ Views!CountsUntil(d, Q) = Cardinality(Seen(B))
  BY CountsAre DEF A, B
<1> QED BY <1>4, <1>5

LEMMA VisitorsAre == \A url, d : Views!VisitorsOf(url, d) = VisitsIn(raw, url, d)
BY DEF Views!VisitorsOf, VisitsIn

LEMMA ViewCardinality == \A T : Views!Cardinality(T) = Cardinality(T)
BY DEF Views!Cardinality, Cardinality

LEMMA ViewConstants ==
    /\ None \notin Packages /\ NotFound \notin Packages /\ NotFound # None
    /\ Pages \cap Links = {} /\ None \notin Nat
BY NoneAssumption, ViewsAssumption, OptionsAssumption

LEMMA BoundedMax ==
    ASSUME NEW S \in SUBSET Nat, S # {}, NEW b \in Nat, \A s \in S : s =< b
    PROVE  Views!Max(S) \in S /\ \A s \in S : s =< Views!Max(S)
<1> DEFINE U == {u \in Nat : \A s \in S : s =< u}
<1>1. U \in SUBSET Nat /\ U # {}
  OBVIOUS
<1>2. PICK m \in U : \A u \in U : m =< u
  BY <1>1, LeastOf
<1>3. m \in Nat /\ \A s \in S : s =< m
  OBVIOUS
<1>4. m \in S
  <2> SUFFICES ASSUME m \notin S PROVE FALSE
    OBVIOUS
  <2>1. \A s \in S : s \in Nat /\ s < m
    BY <1>3
  <2>2. m - 1 \in Nat /\ \A s \in S : s =< m - 1
    <3>1. PICK s \in S : TRUE
      OBVIOUS
    <3>2. m > 0
      BY <1>3, <2>1, <3>1
    <3>3. ASSUME NEW z \in S PROVE z =< m - 1
      BY <1>3, <2>1, <3>3
    <3> QED BY <1>3, <3>2, <3>3
  <2>3. m - 1 \in U
    BY <2>2
  <2> QED BY <1>2, <1>3, <2>3
<1>5. \E x \in S : \A y \in S : x >= y
  BY <1>3, <1>4
<1>6. Views!Max(S) \in S /\ \A y \in S : Views!Max(S) >= y
  BY <1>5 DEF Views!Max
<1> QED BY <1>6

\* Where a run starts when nothing is said.
LEMMA StartIs ==
    ASSUME AreRows(summary), today \in Nat, \A s \in summary : s.day =< today
    PROVE  /\ Views!DefaultStart \in Nat
           /\ Views!DefaultStart =< today
           /\ \A s \in summary : s.day =< Views!DefaultStart + 2
           /\ \A x \in Nat : (\A s \in summary : s.day =< x + 2) => Views!DefaultStart =< x
<1> DEFINE S == {s.day : s \in summary}
           latest == Views!Max(S)
<1>1. \A s \in summary : s.day \in Nat
  BY DEF AreRows, ViewRows
<1>2. Views!DefaultStart = IF summary = {} \/ latest < 2 THEN 0 ELSE latest - 2
  BY DEF Views!DefaultStart
<1>3. CASE summary = {}
  BY <1>2, <1>3
<1>4. CASE summary # {}
  <2>1. S \in SUBSET Nat /\ S # {} /\ \A d \in S : d =< today
    BY <1>1, <1>4
  <2>2. \A s \in summary : s.day \in S
    OBVIOUS
  <2>3. \A d \in S : \E s \in summary : s.day = d
    OBVIOUS
  <2> HIDE DEF S
  <2>4. latest \in S /\ \A d \in S : d =< latest
    BY <2>1, BoundedMax
  <2> HIDE DEF latest
  <2>5. latest \in Nat /\ latest =< today
    BY <2>1, <2>4
  <2>6. Views!DefaultStart \in Nat /\ Views!DefaultStart =< today /\ latest =< Views!DefaultStart + 2
    BY <1>2, <1>4, <2>5
  <2>7. \A s \in summary : s.day =< Views!DefaultStart + 2
    BY <1>1, <2>2, <2>4, <2>5, <2>6
  <2>8. ASSUME NEW x \in Nat, \A s \in summary : s.day =< x + 2
        PROVE  Views!DefaultStart =< x
    <3>1. latest =< x + 2
      BY <2>3, <2>4, <2>8
    <3> QED BY <1>2, <1>4, <2>5, <3>1
  <2> QED BY <2>6, <2>7, <2>8
<1> QED BY <1>3, <1>4

\* Rows that differ in their package and total only.
Remade(R, Q, F) ==
    /\ Q = {F[s] : s \in R}
    /\ \A s \in R : /\ F[s] \in ViewRows
                    /\ F[s].url = s.url /\ F[s].day = s.day /\ F[s].count = s.count

LEMMA RemadeRows ==
    ASSUME NEW R, AreRows(R), NEW Q, NEW F, Remade(R, Q, F)
    PROVE  /\ AreRows(Q)
           /\ \A s \in R : F[s] \in Q
           /\ \A t \in Q : \E s \in R : t = F[s] /\ s.url = t.url /\ s.day = t.day /\ s.count = t.count
<1>1. /\ Q = {F[s] : s \in R}
      /\ \A s \in R : /\ F[s] \in ViewRows
                      /\ F[s].url = s.url /\ F[s].day = s.day /\ F[s].count = s.count
  BY DEF Remade
<1>2. IsFiniteSet(Q)
  BY <1>1, ImageFinite DEF AreRows
<1>3. Q \subseteq ViewRows
  BY <1>1
<1>4. \A s, t \in Q : s.url = t.url /\ s.day = t.day => s = t
  BY <1>1 DEF AreRows
<1> QED BY <1>1, <1>2, <1>3, <1>4 DEF AreRows

LEMMA RemadeCounts ==
    ASSUME NEW R, AreRows(R), NEW Q, NEW F, Remade(R, Q, F), NEW d
    PROVE  /\ \A url : Views!CountsUntil(d, OfUrl(Q, url)) = Views!CountsUntil(d, OfUrl(R, url))
           /\ (\A s \in R : s.day =< d => F[s].pkg = s.pkg) =>
                \A p : Views!CountsUntil(d, OfPackage(Q, p)) = Views!CountsUntil(d, OfPackage(R, p))
<1>1. /\ AreRows(Q)
      /\ \A s \in R : F[s] \in Q
      /\ \A t \in Q : \E s \in R : t = F[s] /\ s.url = t.url /\ s.day = t.day /\ s.count = t.count
      /\ \A s \in R : F[s].url = s.url /\ F[s].day = s.day /\ F[s].count = s.count
  BY RemadeRows DEF Remade
<1>2. ASSUME NEW url PROVE Views!CountsUntil(d, OfUrl(Q, url)) = Views!CountsUntil(d, OfUrl(R, url))
  <2>1. AreRows(OfUrl(Q, url)) /\ AreRows(OfUrl(R, url))
    BY <1>1, RowsWithin DEF OfUrl
  <2>2. SameCounts(OfUrl(Q, url), OfUrl(R, url), d)
    BY <1>1 DEF SameCounts, OfUrl
  <2> QED BY <2>1, <2>2, CountsSame
<1>3. ASSUME \A s \in R : s.day =< d => F[s].pkg = s.pkg, NEW p
      PROVE  Views!CountsUntil(d, OfPackage(Q, p)) = Views!CountsUntil(d, OfPackage(R, p))
  <2>1. AreRows(OfPackage(Q, p)) /\ AreRows(OfPackage(R, p))
    BY <1>1, RowsWithin DEF OfPackage
  <2>2. SameCounts(OfPackage(Q, p), OfPackage(R, p), d)
    BY <1>1, <1>3 DEF SameCounts, OfPackage
  <2> QED BY <2>1, <2>2, CountsSame
<1> QED BY <1>2, <1>3

\* Rows that differ from some day on only.
LEMMA EarlierTotals ==
    ASSUME NEW R, NEW Q, AreRows(R), AreRows(Q), NEW x \in Nat,
           \A s : s.day < x => (s \in R <=> s \in Q),
           NEW s \in R, s.day < x, TotalRight(R, s)
    PROVE  TotalRight(Q, s)
<1>1. s.day \in Nat /\ \A t \in R \cup Q : t.day \in Nat
  BY DEF AreRows, ViewRows
<1>2. \A t : t \in R \cup Q /\ t.day =< s.day => (t \in R <=> t \in Q)
  BY <1>1
<1>3. AreRows(OfUrl(Q, s.url)) /\ AreRows(OfUrl(R, s.url))
  BY RowsWithin DEF OfUrl
<1>4. AreRows(OfPackage(Q, s.pkg)) /\ AreRows(OfPackage(R, s.pkg))
  BY RowsWithin DEF OfPackage
<1>5. SameCounts(OfUrl(R, s.url), OfUrl(Q, s.url), s.day)
  BY <1>2 DEF SameCounts, OfUrl
<1>6. SameCounts(OfPackage(R, s.pkg), OfPackage(Q, s.pkg), s.day)
  BY <1>2 DEF SameCounts, OfPackage
<1>7. Views!CountsUntil(s.day, OfUrl(R, s.url)) = Views!CountsUntil(s.day, OfUrl(Q, s.url))
  BY <1>3, <1>5, CountsSame
<1>8. Views!CountsUntil(s.day, OfPackage(R, s.pkg)) = Views!CountsUntil(s.day, OfPackage(Q, s.pkg))
  BY <1>4, <1>6, CountsSame
<1> QED BY <1>7, <1>8 DEF TotalRight

LEMMA SoundStays ==
    ASSUME NEW V, NEW W, NEW R, NEW Q, AreRows(R), AreRows(Q), NEW x \in Nat, NEW y \in Nat, y =< x,
           \A s : s.day < y => (s \in R <=> s \in Q),
           \A d \in Nat : d < y => \A url : VisitsIn(W, url, d) = VisitsIn(V, url, d),
           SoundUntil(V, R, x)
    PROVE  SoundUntil(W, Q, y)
<1>1. ASSUME NEW d \in Nat, d < y PROVE CountedOn(W, Q, d)
  <2>1. CountedOn(V, R, d)
    BY <1>1 DEF SoundUntil
  <2>2. \A url : VisitsIn(W, url, d) = VisitsIn(V, url, d)
    BY <1>1
  <2>3. \A s : s.day = d => (s \in R <=> s \in Q)
    BY <1>1
  <2> QED BY <2>1, <2>2, <2>3 DEF CountedOn
<1>2. ASSUME NEW s \in Q, s.day < y PROVE TotalRight(Q, s)
  <2>1. s \in R /\ s.day \in Nat
    BY <1>2 DEF AreRows, ViewRows
  <2>2. TotalRight(R, s)
    BY <1>2, <2>1 DEF SoundUntil
  <2> QED BY <1>2, <2>1, <2>2, EarlierTotals
<1> QED BY <1>1, <1>2 DEF SoundUntil

LEMMA UntilIs ==
    ASSUME ViewsBasic
    PROVE  /\ RightUntil \in Nat /\ RightUntil =< today
           /\ at = "idle" => RightUntil =< Views!DefaultStart
           /\ owed # None => RightUntil =< owed \/ (at # "idle" /\ from =< owed)
           /\ at # "idle" => RightUntil =< day
<1>1. Views!DefaultStart \in Nat /\ Views!DefaultStart =< today
  BY StartIs DEF ViewsBasic
<1>2. CASE at = "idle"
  <2>1. RightUntil = IF owed = None \/ Views!DefaultStart < owed THEN Views!DefaultStart ELSE owed
    BY <1>2 DEF RightUntil, Views!Earlier
  <2> QED BY <1>1, <1>2, <2>1, ViewConstants DEF ViewsBasic
<1>3. CASE at # "idle"
  <2>1. RightUntil = IF owed = None \/ from =< owed THEN day ELSE owed
    BY <1>3 DEF RightUntil, MakesUp
  <2> QED BY <1>3, <2>1, ViewConstants DEF ViewsBasic, RunTyped
<1> QED BY <1>2, <1>3

\* What the rows of raw change.
LEMMA ViewChanges ==
    ASSUME ViewsBasic, NEW u \in Visitors, NEW url \in Views!Urls, Views!View(u, url)
    PROVE  /\ IsFiniteSet(raw')
           /\ \A l, d : VisitsIn(raw, l, d) \subseteq VisitsIn(raw', l, d)
           /\ \A l, d : d # today => VisitsIn(raw', l, d) = VisitsIn(raw, l, d)
           /\ UNCHANGED <<today, name, summary, shown, at, from, until, day, owed, stale, renamed>>
<1> DEFINE n == Views!Cardinality({v \in raw : v.user = u /\ v.url = url /\ v.day = today})
           row == [user |-> u, url |-> url, day |-> today, n |-> n]
<1>1. raw' = raw \cup {row}
  BY DEF Views!View
<1>2. row.day = today
  OBVIOUS
<1> HIDE DEF row
<1>3. IsFiniteSet(raw')
  BY <1>1, FS_AddElement DEF ViewsBasic
<1>4. \A l, d : VisitsIn(raw, l, d) \subseteq VisitsIn(raw', l, d)
  BY <1>1 DEF VisitsIn
<1>5. \A l, d : d # today => VisitsIn(raw', l, d) = VisitsIn(raw, l, d)
  BY <1>1, <1>2 DEF VisitsIn
<1>6. UNCHANGED <<today, name, summary, shown, at, from, until, day, owed, stale, renamed>>
  BY DEF Views!View, Views!run, Views!kept
<1> QED BY <1>3, <1>4, <1>5, <1>6

LEMMA ViewKeepsViews ==
    ASSUME ViewsInv, NEW u \in Visitors, NEW url \in Views!Urls, Views!View(u, url)
    PROVE  ViewsInv'
<1>1. /\ IsFiniteSet(raw')
      /\ \A l, d : VisitsIn(raw, l, d) \subseteq VisitsIn(raw', l, d)
      /\ \A l, d : d # today => VisitsIn(raw', l, d) = VisitsIn(raw, l, d)
      /\ UNCHANGED <<today, name, summary, shown, at, from, until, day, owed, stale, renamed>>
  BY ViewChanges DEF ViewsInv
<1>2. ViewsBasic'
  BY <1>1 DEF ViewsInv, ViewsBasic, RunTyped
<1>3. RightUntil' = RightUntil /\ RightUntil \in Nat /\ RightUntil =< today
  BY <1>1, UntilIs DEF ViewsInv, RightUntil, MakesUp, Views!Earlier, Views!DefaultStart
<1>4. SoundUntil(raw', summary', RightUntil')
  <2>1. AreRows(summary) /\ today \in Nat /\ SoundUntil(raw, summary, RightUntil)
    BY DEF ViewsInv, ViewsBasic, ViewsSound
  <2>2. \A d \in Nat : d < RightUntil => \A l : VisitsIn(raw', l, d) = VisitsIn(raw, l, d)
    BY <1>1, <1>3, <2>1
  <2>3. SoundUntil(raw', summary, RightUntil)
    BY <1>3, <2>1, <2>2, SoundStays
  <2> QED BY <1>1, <1>3, <2>3
<1>5. at # "idle" /\ MakesUp => DaySound'
  <2> SUFFICES ASSUME at # "idle", MakesUp PROVE DaySound'
    OBVIOUS
  <2>1. DaySound /\ RunTyped
    BY DEF ViewsInv, ViewsSound, ViewsBasic
  <2>2. day < until => \A l : VisitsIn(raw', l, day) = VisitsIn(raw, l, day)
    BY <1>1, <2>1 DEF RunTyped, ViewsInv, ViewsBasic
  <2>3. day < until /\ CountedOn(raw, summary, day) => CountedOn(raw', summary, day)
    BY <2>2 DEF CountedOn
  <2> QED BY <1>1, <2>1, <2>3 DEF DaySound
<1>6. ViewsSound'
  BY <1>1, <1>4, <1>5 DEF ViewsInv, ViewsSound, MakesUp
<1>7. ViewsFinished'
  BY <1>1 DEF ViewsInv, ViewsFinished
<1>8. ViewsShown'
  <2> SUFFICES ASSUME NEW p \in Packages \ (stale \cup renamed)
               PROVE  IF at = "idle" THEN shown[p] \in Views!TotalsOf(p)'
                      ELSE shown[p] \in TotalsBefore(summary, p, from) \/ WillBeFound(p)'
    BY <1>1 DEF ViewsShown
  <2>1. Views!TotalsOf(p)' = Views!TotalsOf(p)
    BY <1>1 DEF Views!TotalsOf
  <2>2. WillBeFound(p) => WillBeFound(p)'
    BY <1>1 DEF WillBeFound
  <2> QED BY <2>1, <2>2 DEF ViewsInv, ViewsShown
<1> QED BY <1>2, <1>6, <1>7, <1>8 DEF ViewsInv

LEMMA NextDayKeepsViews ==
    ASSUME ViewsInv, Views!NextDay
    PROVE  ViewsInv'
<1>1. /\ today' = today + 1
      /\ UNCHANGED <<raw, name, summary, shown, at, from, until, day, owed, stale, renamed>>
  BY DEF Views!NextDay, Views!run, Views!kept, Views!tables
<1>2. ViewsBasic'
  <2>1. \A s \in summary : s.day \in Nat
    BY DEF ViewsInv, ViewsBasic, AreRows, ViewRows
  <2>2. (at # "idle" => RunTyped)'
    BY <1>1 DEF ViewsInv, ViewsBasic, RunTyped
  <2>3. \A s \in summary' : s.day =< today'
    BY <1>1, <2>1 DEF ViewsInv, ViewsBasic
  <2> QED BY <1>1, <2>2, <2>3 DEF ViewsInv, ViewsBasic
<1>3. RightUntil' = RightUntil
  BY <1>1 DEF RightUntil, MakesUp, Views!Earlier, Views!DefaultStart
<1>4. ViewsSound'
  BY <1>1, <1>3 DEF ViewsInv, ViewsSound, MakesUp, DaySound
<1>5. ViewsFinished'
  BY <1>1 DEF ViewsInv, ViewsFinished
<1>6. ViewsShown'
  BY <1>1 DEF ViewsInv, ViewsShown, Views!TotalsOf, WillBeFound
<1> QED BY <1>2, <1>4, <1>5, <1>6 DEF ViewsInv

LEMMA RenameKeepsViews ==
    ASSUME ViewsInv, NEW p \in Packages, NEW page \in Pages, Views!Rename(p, page)
    PROVE  ViewsInv'
<1>1. /\ name' = [name EXCEPT ![p] = page] /\ renamed' = renamed \cup {p}
      /\ \A q \in Packages : name[q] # page
      /\ UNCHANGED <<raw, today, summary, shown, at, from, until, day, owed, stale>>
  BY DEF Views!Rename, Views!run, Views!tables
<1>2. /\ name' \in [Packages -> Pages]
      /\ \A q \in Packages : name'[q] = IF q = p THEN page ELSE name[q]
      /\ \A q \in Packages \ renamed' : name'[q] = name[q] /\ q \notin renamed
  BY <1>1 DEF ViewsInv, ViewsBasic
<1>3. ViewsBasic'
  <2>1. \A q, r \in Packages : name'[q] = name'[r] => q = r
    BY <1>1, <1>2 DEF ViewsInv, ViewsBasic
  <2>2. \A q \in Packages \ renamed' : \A s \in summary' :
         s.pkg # None => (s.url = name'[q] <=> s.pkg = q)
    BY <1>1, <1>2 DEF ViewsInv, ViewsBasic
  <2> QED BY <1>1, <1>2, <2>1, <2>2 DEF ViewsInv, ViewsBasic, RunTyped
<1>4. RightUntil' = RightUntil
  BY <1>1 DEF RightUntil, MakesUp, Views!Earlier, Views!DefaultStart
<1>5. ViewsSound'
  BY <1>1, <1>4 DEF ViewsInv, ViewsSound, MakesUp, DaySound
<1>6. ViewsFinished'
  BY <1>1 DEF ViewsInv, ViewsFinished
<1>7. ViewsShown'
  <2> SUFFICES ASSUME NEW q \in Packages \ (stale \cup renamed')
               PROVE  IF at = "idle" THEN shown[q] \in Views!TotalsOf(q)'
                      ELSE shown[q] \in TotalsBefore(summary, q, from) \/ WillBeFound(q)'
    BY <1>1 DEF ViewsShown
  <2>1. Views!TotalsOf(q)' = Views!TotalsOf(q)
    BY <1>1 DEF Views!TotalsOf
  <2>2. name'[q] = name[q] /\ q \notin renamed
    BY <1>2
  <2>3. WillBeFound(q) => WillBeFound(q)'
    BY <1>1, <2>2 DEF WillBeFound
  <2> QED BY <2>1, <2>2, <2>3 DEF ViewsInv, ViewsShown
<1> QED BY <1>3, <1>5, <1>6, <1>7 DEF ViewsInv

LEMMA BeginKeepsViews ==
    ASSUME ViewsInv, NEW start \in 0 .. today, NEW given \in BOOLEAN, Views!Begin(start, given)
    PROVE  ViewsInv'
<1> DEFINE first == Views!DefaultStart
<1>1. /\ at = "idle" /\ at' = "clear"
      /\ from' = start /\ day' = start /\ until' = today
      /\ UNCHANGED <<raw, today, summary, shown, name, stale, renamed>>
  BY DEF Views!Begin, Views!tables, Views!kept
<1>2. /\ today \in Nat /\ AreRows(summary) /\ \A s \in summary : s.day =< today
      /\ owed \in Nat \cup {None}
  BY DEF ViewsInv, ViewsBasic
<1>3. first \in Nat /\ first =< today /\ \A s \in summary : s.day =< first + 2
  BY <1>2, StartIs
<1>4. \A s \in summary : s.day \in Nat
  BY <1>2 DEF AreRows, ViewRows
<1>5. RightUntil = IF owed = None \/ first < owed THEN first ELSE owed
  BY <1>1 DEF RightUntil, Views!Earlier
<1>6. RightUntil' = IF owed' = None \/ start =< owed' THEN start ELSE owed'
  BY <1>1 DEF RightUntil, MakesUp
<1>7. /\ owed' \in Nat \cup {None}
      /\ RightUntil' \in Nat /\ RightUntil' =< RightUntil /\ RightUntil \in Nat
      /\ (owed' = None \/ start < owed') => start = first
  <2>1. CASE given
    <3> DEFINE least == IF start > first THEN first ELSE start
    <3>1. owed' = IF owed = None \/ least < owed THEN least ELSE owed
      BY <2>1 DEF Views!Begin, Views!Earlier
    <3>2. owed' \in Nat /\ owed' =< start /\ owed' =< first /\ (owed # None => owed' =< owed)
      BY <1>2, <1>3, <3>1, ViewConstants
    <3> HIDE DEF first
    <3> QED BY <1>2, <1>3, <1>5, <1>6, <3>2, ViewConstants
  <2>2. CASE ~ given
    <3>1. owed' = owed /\ start = first
      BY <2>2 DEF Views!Begin
    <3> HIDE DEF first
    <3> QED BY <1>2, <1>3, <1>5, <1>6, <3>1, ViewConstants
  <2> QED BY <2>1, <2>2
<1> HIDE DEF first
<1>8. ViewsBasic'
  <2>1. RunTyped'
    BY <1>1, <1>2 DEF RunTyped
  <2> QED BY <1>1, <1>7, <2>1 DEF ViewsInv, ViewsBasic, Views!Statements
<1>9. ViewsSound'
  <2>1. SoundUntil(raw, summary, RightUntil)
    BY DEF ViewsInv, ViewsSound
  <2>2. SoundUntil(raw, summary, RightUntil')
    BY <1>2, <1>7, <2>1, SoundStays
  <2>3. DaySound'
    BY <1>1 DEF DaySound
  <2>4. owed' = None \/ start < owed' => \A s \in summary : s.day =< start + 2
    BY <1>3, <1>7
  <2>5. SoundUntil(raw', summary', RightUntil')
    BY <1>1, <2>2
  <2> QED BY <1>1, <2>3, <2>4, <2>5 DEF ViewsSound
<1>10. ViewsFinished'
  BY <1>1 DEF ViewsInv, ViewsFinished
<1>11. ViewsShown'
  <2> SUFFICES ASSUME NEW p \in Packages \ (stale \cup renamed)
               PROVE  shown[p] \in TotalsBefore(summary, p, start) \/ WillBeFound(p)'
    BY <1>1 DEF ViewsShown
  <2>1. shown[p] \in Views!TotalsOf(p)
    BY <1>1 DEF ViewsInv, ViewsShown
  <2>2. CASE \E s \in summary : s.pkg = p /\ s.day >= start
    <3>1. PICK s \in summary : s.pkg = p /\ s.day >= start
      BY <2>2
    <3>2. s.url = name[p] /\ VisitsIn(raw, s.url, s.day) # {}
      BY <3>1, ViewConstants DEF ViewsInv, ViewsBasic
    <3>3. s.day \in from' .. until'
      BY <1>1, <1>2, <1>4, <3>1
    <3>4. s.day > day' \/ (s.day = day' /\ at' \in {"clear", "count"})
      BY <1>1, <1>4, <3>1
    <3> QED BY <1>1, <3>2, <3>3, <3>4 DEF WillBeFound
  <2>3. CASE \A s \in summary : s.pkg = p => ~ (s.day >= start)
    <3>1. {s \in summary : s.pkg = p} = {s \in summary : s.pkg = p /\ s.day < start}
      BY <1>2, <1>4, <2>3
    <3>2. TotalsBefore(summary, p, start) = Views!TotalsOf(p)
      BY <3>1 DEF TotalsBefore, Views!TotalsOf
    <3> QED BY <2>1, <3>2
  <2> QED BY <2>2, <2>3
<1> QED BY <1>8, <1>9, <1>10, <1>11 DEF ViewsInv

LEMMA KillKeepsViews ==
    ASSUME ViewsInv, Views!Kill
    PROVE  ViewsInv'
<1>1. /\ at # "idle" /\ at' = "idle" /\ stale' = Packages
      /\ UNCHANGED <<raw, today, summary, shown, name, owed, renamed>>
  BY DEF Views!Kill, Views!tables
<1>2. /\ today \in Nat /\ AreRows(summary) /\ \A s \in summary : s.day =< today
      /\ owed \in Nat \cup {None} /\ RunTyped
  BY <1>1 DEF ViewsInv, ViewsBasic
<1>3. ViewsBasic'
  BY <1>1 DEF ViewsInv, ViewsBasic
<1>4. RightUntil \in Nat /\ RightUntil' \in Nat /\ RightUntil' =< RightUntil
  <2> DEFINE first == Views!DefaultStart
  <2>1. first \in Nat /\ \A x \in Nat : (\A s \in summary : s.day =< x + 2) => first =< x
    BY <1>2, StartIs
  <2>2. \A s \in summary : s.day \in Nat
    BY <1>2 DEF AreRows, ViewRows
  <2>3. RightUntil' = IF owed = None \/ first < owed THEN first ELSE owed
    BY <1>1 DEF RightUntil, Views!Earlier, Views!DefaultStart
  <2>4. RightUntil = IF owed = None \/ from =< owed THEN day ELSE owed
    BY <1>1 DEF RightUntil, MakesUp
  <2> HIDE DEF first
  <2>5. from \in Nat /\ day \in Nat /\ from =< day
    BY <1>2 DEF RunTyped
  <2>6. owed = None \/ from < owed => first =< day
    <3> SUFFICES ASSUME owed = None \/ from < owed PROVE first =< day
      OBVIOUS
    <3>1. \A s \in summary : s.day =< from + 2 \/ s.day =< day
      BY <1>1 DEF ViewsInv, ViewsSound
    <3>2. \A s \in summary : s.day =< day + 2
      BY <2>2, <2>5, <3>1
    <3> QED BY <2>1, <2>5, <3>2
  <2> QED BY <1>2, <2>1, <2>3, <2>4, <2>5, <2>6, ViewConstants
<1>5. ViewsSound'
  <2>1. SoundUntil(raw, summary, RightUntil)
    BY DEF ViewsInv, ViewsSound
  <2>2. SoundUntil(raw, summary, RightUntil')
    BY <1>2, <1>4, <2>1, SoundStays
  <2>3. SoundUntil(raw', summary', RightUntil')
    BY <1>1, <2>2
  <2> QED BY <1>1, <2>3 DEF ViewsSound
<1>6. ViewsFinished'
  BY <1>1 DEF ViewsFinished
<1>7. ViewsShown'
  BY <1>1 DEF ViewsShown
<1> QED BY <1>3, <1>5, <1>6, <1>7 DEF ViewsInv

\* Totals before a day depend on the rows before it.
LEMMA TotalsBeforeSame ==
    ASSUME NEW R, NEW Q, NEW p, NEW d,
           \A s : s.pkg = p /\ s.day < d => (s \in R <=> s \in Q)
    PROVE  TotalsBefore(Q, p, d) = TotalsBefore(R, p, d)
<1>1. {s \in Q : s.pkg = p /\ s.day < d} = {s \in R : s.pkg = p /\ s.day < d}
  OBVIOUS
<1> QED BY <1>1 DEF TotalsBefore

LEMMA ClearKeepsViews ==
    ASSUME ViewsInv, Views!Clear
    PROVE  ViewsInv'
<1>1. /\ at = "clear" /\ at' = "count"
      /\ summary' = {s \in summary : s.day # day}
      /\ UNCHANGED <<raw, today, shown, name, from, until, day, owed, stale, renamed>>
  BY DEF Views!Clear, Views!Statement, Views!run, Views!kept
<1>2. /\ today \in Nat /\ AreRows(summary) /\ AreRows(summary') /\ RunTyped
      /\ \A s \in summary : s.day \in Nat
      /\ from \in Nat /\ day \in Nat /\ from =< day
  BY <1>1, RowsWithin DEF ViewsInv, ViewsBasic, RunTyped, AreRows, ViewRows
<1>3. ViewsBasic'
  <2>1. RunTyped'
    BY <1>1, <1>2 DEF RunTyped
  <2> QED BY <1>1, <1>2, <2>1 DEF ViewsInv, ViewsBasic, Views!Statements
<1>4. RightUntil' = RightUntil /\ RightUntil \in Nat /\ RightUntil =< day
  BY <1>1, UntilIs DEF RightUntil, MakesUp, ViewsInv
<1>5. \A s : s.day < RightUntil => (s \in summary <=> s \in summary')
  BY <1>1, <1>2, <1>4
<1>6. ViewsSound'
  <2>1. SoundUntil(raw, summary, RightUntil)
    BY DEF ViewsInv, ViewsSound
  <2>2. SoundUntil(raw, summary', RightUntil)
    BY <1>2, <1>4, <1>5, <2>1, SoundStays
  <2>3. DaySound'
    BY <1>1 DEF DaySound
  <2>4. SoundUntil(raw', summary', RightUntil')
    BY <1>1, <1>4, <2>2
  <2> QED BY <1>1, <2>3, <2>4 DEF ViewsInv, ViewsSound
<1>7. ViewsFinished'
  BY <1>1 DEF ViewsInv, ViewsFinished, AreFinished, AreNamed
<1>8. ViewsShown'
  <2> SUFFICES ASSUME NEW p \in Packages \ (stale \cup renamed)
               PROVE  shown[p] \in TotalsBefore(summary', p, from) \/ WillBeFound(p)'
    BY <1>1 DEF ViewsShown
  <2>1. shown[p] \in TotalsBefore(summary, p, from) \/ WillBeFound(p)
    BY <1>1 DEF ViewsInv, ViewsShown
  <2>2. TotalsBefore(summary', p, from) = TotalsBefore(summary, p, from)
    BY <1>1, <1>2, TotalsBeforeSame
  <2>3. WillBeFound(p) => WillBeFound(p)'
    BY <1>1, <1>2 DEF WillBeFound
  <2> QED BY <2>1, <2>2, <2>3
<1> QED BY <1>3, <1>6, <1>7, <1>8 DEF ViewsInv

LEMMA VisitsFinite ==
    ASSUME ViewsBasic
    PROVE  \A url, d : /\ IsFiniteSet(VisitsIn(raw, url, d))
                       /\ VisitsIn(raw, url, d) # {} => Cardinality(VisitsIn(raw, url, d)) \in Nat \ {0}
<1> SUFFICES ASSUME NEW url, NEW d
             PROVE  /\ IsFiniteSet(VisitsIn(raw, url, d))
                    /\ VisitsIn(raw, url, d) # {} => Cardinality(VisitsIn(raw, url, d)) \in Nat \ {0}
  OBVIOUS
<1> DEFINE T == {x \in raw : x.url = url /\ x.day = d}
           f == [v \in T |-> v.user]
<1>1. IsFiniteSet(T)
  BY FS_Subset DEF ViewsBasic
<1>2. VisitsIn(raw, url, d) = {f[v] : v \in T}
  BY DEF VisitsIn
<1> HIDE DEF f, T
<1>3. IsFiniteSet(VisitsIn(raw, url, d))
  BY <1>1, <1>2, ImageFinite
<1> QED BY <1>3, FS_EmptySet, FS_CardinalityType

\* The rows of a day come all at once.
LEMMA CountedRows ==
    ASSUME ViewsBasic, Views!Count
    PROVE  /\ \A s \in summary' : s \in summary \/
                /\ s \in ViewRows /\ s.day = day /\ s.pkg = None /\ s.total = 0
                /\ VisitsIn(raw, s.url, day) # {} /\ s.count = Cardinality(VisitsIn(raw, s.url, day))
           /\ summary \subseteq summary'
           /\ \A url \in Views!Urls : VisitsIn(raw, url, day) # {} =>
                \E s \in summary' : s.url = url /\ s.day = day /\ s.count = Cardinality(VisitsIn(raw, url, day))
           /\ AreRows(summary')
<1> DEFINE viewed == {url \in Views!Urls : VisitsIn(raw, url, day) # {}}
           row == [url \in Views!Urls |->
                    [url |-> url, day |-> day, count |-> Cardinality(VisitsIn(raw, url, day)),
                     pkg |-> None, total |-> 0]]
           new == {row[url] : url \in viewed}
<1>1. summary' = summary \cup new
  <2>1. \A url : Views!VisitorsOf(url, day) = VisitsIn(raw, url, day)
    BY VisitorsAre
  <2>2. \A T : Views!Cardinality(T) = Cardinality(T)
    BY ViewCardinality
  <2> QED BY <2>1, <2>2 DEF Views!Count
<1>2. \A s \in new : \E url \in viewed : s = row[url]
  OBVIOUS
<1>3. \A url \in viewed : row[url] \in new
  OBVIOUS
<1>4. RunTyped /\ day \in Nat /\ \A s \in summary : s.day # day
  BY DEF ViewsBasic, RunTyped, Views!Count, Views!Statement
<1>5. ASSUME NEW url \in viewed
      PROVE  /\ row[url] \in ViewRows /\ row[url].url = url
             /\ row[url].day = day /\ row[url].pkg = None /\ row[url].total = 0
             /\ row[url].count = Cardinality(VisitsIn(raw, url, day))
  <2>1. Cardinality(VisitsIn(raw, url, day)) \in Nat \ {0}
    BY VisitsFinite
  <2>2. row[url] = [url |-> url, day |-> day, count |-> Cardinality(VisitsIn(raw, url, day)),
                    pkg |-> None, total |-> 0]
    OBVIOUS
  <2> QED BY <1>4, <2>1, <2>2 DEF ViewRows
<1>6. IsFiniteSet(new)
  <2> DEFINE T == {x \in raw : x.day = day}
             f == [v \in T |-> v.url]
             urlsOf == {f[v] : v \in T}
             g == [url \in viewed |-> row[url]]
  <2>1. IsFiniteSet(T)
    BY FS_Subset DEF ViewsBasic
  <2>2. viewed \subseteq urlsOf
    BY DEF VisitsIn
  <2>3. new = {g[url] : url \in viewed}
    OBVIOUS
  <2> HIDE DEF f, T, viewed, g
  <2>4. IsFiniteSet(urlsOf)
    BY <2>1, ImageFinite
  <2> HIDE DEF urlsOf
  <2>5. IsFiniteSet(viewed)
    BY <2>2, <2>4, FS_Subset
  <2>6. IsFiniteSet({g[url] : url \in viewed})
    BY <2>5, ImageFinite
  <2> QED BY <2>3, <2>6
<1>7. \A url \in viewed : url \in Views!Urls /\ VisitsIn(raw, url, day) # {}
  OBVIOUS
<1>8. \A url \in Views!Urls : VisitsIn(raw, url, day) # {} => url \in viewed
  OBVIOUS
<1> HIDE DEF row, new, viewed
<1>9. AreRows(summary')
  <2>1. IsFiniteSet(summary) /\ summary \subseteq ViewRows
        /\ \A s, t \in summary : s.url = t.url /\ s.day = t.day => s = t
    BY DEF ViewsBasic, AreRows
  <2>2. IsFiniteSet(summary')
    BY <1>1, <1>6, <2>1, FS_Union
  <2>3. summary' \subseteq ViewRows
    BY <1>1, <1>2, <1>5, <2>1
  <2>4. \A s, t \in summary' : s.url = t.url /\ s.day = t.day => s = t
    BY <1>1, <1>2, <1>4, <1>5, <2>1
  <2> QED BY <2>2, <2>3, <2>4 DEF AreRows
<1>10. \A s \in new : /\ s \in ViewRows /\ s.day = day /\ s.pkg = None /\ s.total = 0
                      /\ VisitsIn(raw, s.url, day) # {} /\ s.count = Cardinality(VisitsIn(raw, s.url, day))
  BY <1>2, <1>5, <1>7
<1>11. \A url \in Views!Urls : VisitsIn(raw, url, day) # {} =>
         \E s \in summary' : s.url = url /\ s.day = day /\ s.count = Cardinality(VisitsIn(raw, url, day))
  BY <1>1, <1>3, <1>5, <1>8
<1> QED BY <1>1, <1>9, <1>10, <1>11

LEMMA CountKeepsViews ==
    ASSUME ViewsInv, Views!Count
    PROVE  ViewsInv'
<1>1. /\ at = "count" /\ at' = "names"
      /\ UNCHANGED <<raw, today, shown, name, from, until, day, owed, stale, renamed>>
  BY DEF Views!Count, Views!Statement, Views!run, Views!kept
<1>2. /\ \A s \in summary' : s \in summary \/
                /\ s \in ViewRows /\ s.day = day /\ s.pkg = None /\ s.total = 0
                /\ VisitsIn(raw, s.url, day) # {} /\ s.count = Cardinality(VisitsIn(raw, s.url, day))
      /\ summary \subseteq summary'
      /\ \A url \in Views!Urls : VisitsIn(raw, url, day) # {} =>
           \E s \in summary' : s.url = url /\ s.day = day /\ s.count = Cardinality(VisitsIn(raw, url, day))
      /\ AreRows(summary')
  BY CountedRows DEF ViewsInv
<1>3. /\ today \in Nat /\ AreRows(summary) /\ RunTyped
      /\ \A s \in summary' : s.day \in Nat
      /\ from \in Nat /\ day \in Nat /\ from =< day /\ until \in Nat /\ day =< until /\ until =< today
      /\ \A s \in summary : s.day # day
      /\ name \in [Packages -> Pages]
  BY <1>1, <1>2 DEF ViewsInv, ViewsBasic, RunTyped, AreRows, ViewRows
<1>4. ViewsBasic'
  <2>1. RunTyped'
    BY <1>1, <1>2, <1>3 DEF RunTyped
  <2>2. \A s \in summary' : /\ s.day =< today /\ VisitsIn(raw, s.url, s.day) # {}
                            /\ s.url \in Links => s.pkg = None
    BY <1>2, <1>3 DEF ViewsInv, ViewsBasic
  <2>3. \A p \in Packages \ renamed : \A s \in summary' : s.pkg # None => (s.url = name[p] <=> s.pkg = p)
    BY <1>2 DEF ViewsInv, ViewsBasic
  <2> QED BY <1>1, <1>2, <2>1, <2>2, <2>3 DEF ViewsInv, ViewsBasic, Views!Statements
<1>5. RightUntil' = RightUntil /\ RightUntil \in Nat /\ RightUntil =< day
  BY <1>1, UntilIs DEF RightUntil, MakesUp, ViewsInv
<1>6. \A s : s.day < day => (s \in summary <=> s \in summary')
  BY <1>2, <1>3
<1>7. ViewsSound'
  <2>1. SoundUntil(raw, summary, RightUntil)
    BY DEF ViewsInv, ViewsSound
  <2>2. \A s : s.day < RightUntil => (s \in summary <=> s \in summary')
    BY <1>2, <1>3, <1>5
  <2>3. SoundUntil(raw, summary', RightUntil)
    BY <1>2, <1>3, <1>5, <2>1, <2>2, SoundStays
  <2>4. CountedOn(raw, summary', day)
    <3>1. ASSUME NEW url \in Views!Urls, VisitsIn(raw, url, day) = {}, NEW s \in summary'
          PROVE  ~ (s.url = url /\ s.day = day)
      BY <1>2, <1>3, <3>1
    <3> QED BY <1>2, <3>1 DEF CountedOn
  <2>5. \A s \in summary' : s.day = day => s.total = 0
    BY <1>2, <1>3
  <2>6. DaySound'
    BY <1>1, <2>4, <2>5 DEF DaySound
  <2>7. SoundUntil(raw', summary', RightUntil')
    BY <1>1, <1>5, <2>3
  <2>8. owed = None \/ from < owed => \A s \in summary' : s.day =< from + 2 \/ s.day =< day
    <3>1. owed = None \/ from < owed => \A s \in summary : s.day =< from + 2 \/ s.day =< day
      BY <1>1 DEF ViewsInv, ViewsSound
    <3> QED BY <1>2, <1>3, <3>1
  <2> QED BY <1>1, <2>6, <2>7, <2>8 DEF ViewsSound
<1>8. ViewsFinished'
  <2>1. stale # Packages => AreFinished(summary)
    BY <1>1 DEF ViewsInv, ViewsFinished
  <2>2. \A s \in summary' : s.day # day => s \in summary
    BY <1>2
  <2>3. stale # Packages => AreFinished({s \in summary' : s.day # day})
    BY <2>1, <2>2 DEF AreFinished, AreNamed
  <2> QED BY <1>1, <2>3 DEF ViewsFinished
<1>9. ViewsShown'
  <2> SUFFICES ASSUME NEW p \in Packages \ (stale \cup renamed)
               PROVE  shown[p] \in TotalsBefore(summary', p, from) \/ WillBeFound(p)'
    BY <1>1 DEF ViewsShown
  <2>1. shown[p] \in TotalsBefore(summary, p, from) \/ WillBeFound(p)
    BY <1>1 DEF ViewsInv, ViewsShown
  <2>2. \A s : s.pkg = p /\ s.day < from => (s \in summary <=> s \in summary')
    BY <1>2, ViewConstants
  <2>3. TotalsBefore(summary', p, from) = TotalsBefore(summary, p, from)
    BY <2>2, TotalsBeforeSame
  <2>4. WillBeFound(p) => WillBeFound(p)'
    <3> SUFFICES ASSUME NEW d \in from .. until,
                        IF d >= day THEN VisitsIn(raw, name[p], d) # {}
                        ELSE \E s \in summary : s.url = name[p] /\ s.day = d
                 PROVE  IF d > day THEN VisitsIn(raw, name[p], d) # {}
                        ELSE \E s \in summary' : s.url = name[p] /\ s.day = d
      BY <1>1, <1>3 DEF WillBeFound
    <3>1. name[p] \in Views!Urls
      BY <1>3 DEF Views!Urls
    <3> QED BY <1>2, <1>3, <3>1
  <2> QED BY <2>1, <2>3, <2>4
<1> QED BY <1>4, <1>7, <1>8, <1>9 DEF ViewsInv

\* What is right stays right when only rows of later days get a package or a total.
LEMMA SoundRemade ==
    ASSUME NEW V, NEW R, AreRows(R), NEW Q, NEW F, Remade(R, Q, F), NEW x \in Nat, SoundUntil(V, R, x),
           \A s \in R : s.day < x => F[s].pkg = s.pkg /\ F[s].total = s.total
    PROVE  SoundUntil(V, Q, x)
<1>1. /\ AreRows(Q)
      /\ \A s \in R : F[s] \in Q
      /\ \A t \in Q : \E s \in R : t = F[s] /\ s.url = t.url /\ s.day = t.day /\ s.count = t.count
      /\ \A s \in R : F[s].url = s.url /\ F[s].day = s.day /\ F[s].count = s.count
  BY RemadeRows DEF Remade
<1>2. ASSUME NEW d \in Nat, d < x PROVE CountedOn(V, Q, d)
  <2>1. CountedOn(V, R, d)
    BY <1>2 DEF SoundUntil
  <2> QED BY <1>1, <2>1 DEF CountedOn
<1>3. ASSUME NEW t \in Q, t.day < x PROVE TotalRight(Q, t)
  <2>1. PICK s \in R : t = F[s] /\ s.url = t.url /\ s.day = t.day
    BY <1>1
  <2>2. TotalRight(R, s) /\ t.pkg = s.pkg /\ t.total = s.total
    BY <1>3, <2>1 DEF SoundUntil
  <2>3. s.day \in Nat /\ \A r \in R : r.day \in Nat
    BY DEF AreRows, ViewRows
  <2>4. \A r \in R : r.day =< s.day => F[r].pkg = r.pkg
    BY <1>3, <2>1, <2>3
  <2>5. /\ \A url : Views!CountsUntil(s.day, OfUrl(Q, url)) = Views!CountsUntil(s.day, OfUrl(R, url))
        /\ \A p : Views!CountsUntil(s.day, OfPackage(Q, p)) = Views!CountsUntil(s.day, OfPackage(R, p))
    BY <2>4, RemadeCounts
  <2> QED BY <2>1, <2>2, <2>5 DEF TotalRight
<1> QED BY <1>2, <1>3 DEF SoundUntil

\* A statement that completes rows keeps all of them but for packages and totals.
Completes(F) ==
    /\ Remade(summary, summary', F)
    /\ UNCHANGED <<raw, today, shown, name, from, until, owed, stale, renamed>>
    /\ at \in {"names", "links", "pages"} /\ at' \in {"links", "pages", "index", "clear"}
    /\ day' = IF at' = "clear" THEN day + 1 ELSE day
    /\ at' = "clear" => day < until
    /\ at' = "index" => day = until
    /\ \A s \in summary : s.url \in Links => F[s].pkg = None
    /\ \A s \in summary : s.day < RightUntil => F[s].pkg = s.pkg /\ F[s].total = s.total

LEMMA CompletedRows ==
    ASSUME ViewsBasic, NEW F, Completes(F)
    PROVE  /\ AreRows(summary) /\ AreRows(summary')
           /\ \A s \in summary : /\ F[s] \in summary' /\ s \in ViewRows
                                 /\ F[s].url = s.url /\ F[s].day = s.day /\ F[s].count = s.count
           /\ \A t \in summary' : \E s \in summary : t = F[s] /\ s.url = t.url /\ s.day = t.day
           /\ RunTyped /\ today \in Nat /\ from \in Nat /\ day \in Nat /\ until \in Nat
           /\ from =< day /\ day =< until /\ day' \in Nat /\ day =< day' /\ day' =< until
<1>1. at # "idle" /\ day' = IF at' = "clear" THEN day + 1 ELSE day
  BY DEF Completes
<1>2. RunTyped /\ AreRows(summary) /\ today \in Nat
  BY <1>1 DEF ViewsBasic
<1>3. from \in Nat /\ day \in Nat /\ until \in Nat /\ from =< day /\ day =< until
  BY <1>2 DEF RunTyped
<1>4. day' \in Nat /\ day =< day' /\ day' =< until
  BY <1>1, <1>3 DEF Completes
<1> QED BY <1>2, <1>3, <1>4, RemadeRows DEF Completes, Remade, AreRows

LEMMA CompletesBasic ==
    ASSUME ViewsBasic, NEW F, Completes(F),
           \A p \in Packages \ renamed : \A s \in summary :
             F[s].pkg # None => (s.url = name[p] <=> F[s].pkg = p)
    PROVE  ViewsBasic'
<1>1. /\ AreRows(summary')
      /\ \A t \in summary' : \E s \in summary : t = F[s] /\ s.url = t.url /\ s.day = t.day
      /\ RunTyped /\ day' \in Nat /\ day =< day' /\ day' =< until /\ day \in Nat
      /\ from \in Nat /\ until \in Nat /\ from =< day
  BY CompletedRows
<1>2. /\ UNCHANGED <<raw, today, shown, name, from, until, owed, stale, renamed>>
      /\ \A s \in summary : s.url \in Links => F[s].pkg = None
      /\ at' \in {"links", "pages", "index", "clear"}
      /\ at' = "index" => day = until
      /\ day' = IF at' = "clear" THEN day + 1 ELSE day
  BY DEF Completes
<1>3. \A s \in summary' : /\ s.day =< today /\ VisitsIn(raw, s.url, s.day) # {}
                          /\ s.url \in Links => s.pkg = None
  BY <1>1, <1>2 DEF ViewsBasic
<1>4. \A p \in Packages \ renamed : \A s \in summary' : s.pkg # None => (s.url = name[p] <=> s.pkg = p)
  BY <1>1
<1>5. \A s \in summary' : s.day =< until
  BY <1>1 DEF RunTyped
<1>6. RunTyped'
  <2>1. from =< day'
    BY <1>1
  <2>2. at' = "index" => day' = until
    BY <1>2
  <2> QED BY <1>1, <1>2, <1>5, <2>1, <2>2 DEF RunTyped
<1>7. at' \in Views!Statements
  BY <1>2 DEF Views!Statements
<1> QED BY <1>1, <1>2, <1>3, <1>4, <1>6, <1>7 DEF ViewsBasic

LEMMA CompletesSound ==
    ASSUME ViewsInv, NEW F, Completes(F)
    PROVE  /\ SoundUntil(raw, summary', RightUntil)
           /\ at' # "clear" => RightUntil' = RightUntil
           /\ ~ MakesUp => RightUntil' = RightUntil
           /\ MakesUp' <=> MakesUp
           /\ owed = None \/ from < owed => \A s \in summary' : s.day =< from + 2 \/ s.day =< day'
           /\ CountedOn(raw, summary, day) => CountedOn(raw, summary', day)
<1>1. /\ AreRows(summary) /\ AreRows(summary')
      /\ \A s \in summary : /\ F[s] \in summary' /\ s \in ViewRows
                            /\ F[s].url = s.url /\ F[s].day = s.day /\ F[s].count = s.count
      /\ \A t \in summary' : \E s \in summary : t = F[s] /\ s.url = t.url /\ s.day = t.day
      /\ from \in Nat /\ day \in Nat /\ day' \in Nat /\ day =< day'
  BY CompletedRows DEF ViewsInv
<1>2. /\ UNCHANGED <<raw, from, owed>> /\ at # "idle" /\ at' # "idle"
      /\ day' = IF at' = "clear" THEN day + 1 ELSE day
  BY DEF Completes
<1>3. RightUntil \in Nat
  BY UntilIs DEF ViewsInv
<1>4. SoundUntil(raw, summary, RightUntil)
  BY DEF ViewsInv, ViewsSound
<1>5. Remade(summary, summary', F) /\ \A s \in summary : s.day < RightUntil => F[s].pkg = s.pkg /\ F[s].total = s.total
  BY DEF Completes
<1>6. SoundUntil(raw, summary', RightUntil)
  BY <1>1, <1>3, <1>4, <1>5, SoundRemade
<1>7. MakesUp' <=> MakesUp
  BY <1>2 DEF MakesUp
<1>8. /\ at' # "clear" => RightUntil' = RightUntil
      /\ ~ MakesUp => RightUntil' = RightUntil
  BY <1>2, <1>7 DEF RightUntil
<1>9. owed = None \/ from < owed => \A s \in summary' : s.day =< from + 2 \/ s.day =< day'
  <2>1. owed = None \/ from < owed => \A s \in summary : s.day =< from + 2 \/ s.day =< day
    BY <1>2 DEF ViewsInv, ViewsSound
  <2>2. \A s \in summary' : s.day \in Nat
    BY <1>1 DEF AreRows, ViewRows
  <2> QED BY <1>1, <2>1, <2>2
<1>10. CountedOn(raw, summary, day) => CountedOn(raw, summary', day)
  BY <1>1 DEF CountedOn
<1> QED BY <1>6, <1>7, <1>8, <1>9, <1>10

LEMMA CompletesShown ==
    ASSUME ViewsInv, NEW F, Completes(F),
           \A p \in Packages \ (stale \cup renamed) : \A s \in summary :
             s.day # day /\ (s.pkg = p \/ F[s].pkg = p) => F[s] = s
    PROVE  ViewsShown'
<1>1. /\ \A s \in summary : /\ F[s] \in summary' /\ F[s].url = s.url /\ F[s].day = s.day
      /\ \A t \in summary' : \E s \in summary : t = F[s] /\ s.url = t.url /\ s.day = t.day
      /\ from \in Nat /\ day \in Nat /\ from =< day /\ day' \in Nat
      /\ \A s \in summary : s.day \in Nat
  BY CompletedRows DEF ViewsInv, ViewRows
<1>2. /\ UNCHANGED <<raw, shown, name, from, until, stale, renamed>>
      /\ at \in {"names", "links", "pages"} /\ at' \in {"links", "pages", "index", "clear"}
      /\ day' = IF at' = "clear" THEN day + 1 ELSE day
  BY DEF Completes
<1> SUFFICES ASSUME NEW p \in Packages \ (stale \cup renamed)
             PROVE  shown[p] \in TotalsBefore(summary', p, from) \/ WillBeFound(p)'
  BY <1>2 DEF ViewsShown
<1>3. shown[p] \in TotalsBefore(summary, p, from) \/ WillBeFound(p)
  BY <1>2 DEF ViewsInv, ViewsShown
<1>4. \A s : s.pkg = p /\ s.day < from => (s \in summary <=> s \in summary')
  BY <1>1
<1>5. TotalsBefore(summary', p, from) = TotalsBefore(summary, p, from)
  BY <1>4, TotalsBeforeSame
<1>6. WillBeFound(p) => WillBeFound(p)'
  <2> SUFFICES ASSUME NEW d \in from .. until,
                      IF d > day THEN VisitsIn(raw, name[p], d) # {}
                      ELSE \E s \in summary : s.url = name[p] /\ s.day = d
               PROVE  IF d > day' \/ (d = day' /\ at' = "clear") THEN VisitsIn(raw, name[p], d) # {}
                      ELSE \E s \in summary' : s.url = name[p] /\ s.day = d
    BY <1>2 DEF WillBeFound
  <2>1. CASE d > day
    <3>1. d > day' \/ (d = day' /\ at' = "clear")
      BY <1>1, <1>2, <2>1
    <3> QED BY <2>1, <3>1
  <2>2. CASE ~ (d > day)
    <3>1. ~ (d > day' \/ (d = day' /\ at' = "clear"))
      BY <1>1, <1>2, <2>2
    <3> QED BY <1>1, <2>2, <3>1
  <2> QED BY <2>1, <2>2
<1> QED BY <1>3, <1>5, <1>6

LEMMA PackageAtIs ==
    ASSUME NEW page
    PROVE  /\ Views!PackageAt(page) \in Packages \cup {NotFound} /\ Views!PackageAt(page) # None
           /\ Views!PackageAt(page) \in Packages => name[Views!PackageAt(page)] = page
           /\ \A p \in Packages : name[p] = page => Views!PackageAt(page) \in Packages
BY ViewConstants DEF Views!PackageAt

Named ==
    [s \in summary |-> IF s.url \in Pages /\ s.pkg = None THEN [s EXCEPT !.pkg = Views!PackageAt(s.url)]
                       ELSE s]

LEMMA NamedIs ==
    ASSUME AreRows(summary), NEW s \in summary
    PROVE  /\ Named[s] \in ViewRows /\ s \in ViewRows
           /\ Named[s].url = s.url /\ Named[s].day = s.day /\ Named[s].count = s.count
           /\ Named[s].total = s.total
           /\ Named[s].pkg = IF s.url \in Pages /\ s.pkg = None THEN Views!PackageAt(s.url) ELSE s.pkg
           /\ ~ (s.url \in Pages /\ s.pkg = None) => Named[s] = s
<1>1. s \in ViewRows
  BY DEF AreRows
<1>2. Views!PackageAt(s.url) \in Packages \cup {None, NotFound}
  BY PackageAtIs
<1>3. CASE s.url \in Pages /\ s.pkg = None
  <2>1. Named[s] = [s EXCEPT !.pkg = Views!PackageAt(s.url)]
    BY <1>3 DEF Named
  <2> QED BY <1>1, <1>2, <1>3, <2>1 DEF ViewRows
<1>4. CASE ~ (s.url \in Pages /\ s.pkg = None)
  BY <1>1, <1>4 DEF Named
<1> QED BY <1>3, <1>4

LEMMA FillNamesKeepsViews ==
    ASSUME ViewsInv, Views!FillNames
    PROVE  ViewsInv'
<1>1. /\ at = "names" /\ at' = "links" /\ summary' = {Named[s] : s \in summary}
      /\ UNCHANGED <<raw, today, shown, name, from, until, day, owed, stale, renamed>>
  BY DEF Views!FillNames, Views!Statement, Views!run, Views!kept, Named
<1>2. AreRows(summary)
  BY DEF ViewsInv, ViewsBasic
<1>3. RightUntil \in Nat /\ RightUntil =< day
  BY <1>1, UntilIs DEF ViewsInv
<1>4. Completes(Named)
  <2>1. Remade(summary, summary', Named)
    BY <1>1, <1>2, NamedIs DEF Remade
  <2>2. \A s \in summary : s.url \in Links => Named[s].pkg = None
    <3> SUFFICES ASSUME NEW s \in summary, s.url \in Links PROVE Named[s].pkg = None
      OBVIOUS
    <3>1. s.pkg = None /\ s.url \notin Pages
      BY ViewConstants DEF ViewsInv, ViewsBasic
    <3> QED BY <1>2, <3>1, NamedIs
  <2>3. \A s \in summary : s.day < RightUntil => Named[s].pkg = s.pkg /\ Named[s].total = s.total
    <3> SUFFICES ASSUME NEW s \in summary, s.day < RightUntil
                 PROVE  Named[s].pkg = s.pkg /\ Named[s].total = s.total
      OBVIOUS
    <3>1. TotalRight(summary, s)
      BY DEF ViewsInv, ViewsSound, SoundUntil
    <3>2. s.url \in Links \/ s.pkg # None
      BY <3>1 DEF TotalRight
    <3>3. ~ (s.url \in Pages /\ s.pkg = None)
      BY <3>2, ViewConstants
    <3> QED BY <1>2, <3>3, NamedIs
  <2> QED BY <1>1, <2>1, <2>2, <2>3 DEF Completes
<1>5. ViewsBasic'
  <2>1. ASSUME NEW p \in Packages \ renamed, NEW s \in summary, Named[s].pkg # None
        PROVE  s.url = name[p] <=> Named[s].pkg = p
    <3>1. CASE s.url \in Pages /\ s.pkg = None
      <4>1. Named[s].pkg = Views!PackageAt(s.url)
        BY <1>2, <3>1, NamedIs
      <4>2. \A q \in Packages : name[p] = name[q] => p = q
        BY DEF ViewsInv, ViewsBasic
      <4>3. /\ Views!PackageAt(s.url) \in Packages => name[Views!PackageAt(s.url)] = s.url
            /\ \A q \in Packages : name[q] = s.url => Views!PackageAt(s.url) \in Packages
        BY PackageAtIs
      <4> QED BY <4>1, <4>2, <4>3
    <3>2. CASE ~ (s.url \in Pages /\ s.pkg = None)
      <4>1. Named[s] = s
        BY <1>2, <3>2, NamedIs
      <4> QED BY <2>1, <4>1 DEF ViewsInv, ViewsBasic
    <3> QED BY <3>1, <3>2
  <2> QED BY <1>4, <2>1, CompletesBasic DEF ViewsInv
<1>6. /\ AreRows(summary')
      /\ \A t \in summary' : \E s \in summary : t = Named[s] /\ s.url = t.url /\ s.day = t.day
  BY <1>4, CompletedRows DEF ViewsInv
<1>7. ViewsSound'
  <2>1. /\ SoundUntil(raw, summary', RightUntil) /\ RightUntil' = RightUntil
        /\ MakesUp' <=> MakesUp
        /\ owed = None \/ from < owed => \A s \in summary' : s.day =< from + 2 \/ s.day =< day
        /\ CountedOn(raw, summary, day) => CountedOn(raw, summary', day)
    BY <1>1, <1>4, CompletesSound
  <2>2. MakesUp => DaySound'
    <3> SUFFICES ASSUME MakesUp PROVE DaySound'
      OBVIOUS
    <3>1. DaySound
      BY <1>1 DEF ViewsInv, ViewsSound
    <3>2. \A s \in summary' : s.day = day => s.total = 0
      <4> SUFFICES ASSUME NEW t \in summary', t.day = day PROVE t.total = 0
        OBVIOUS
      <4>1. PICK s \in summary : t = Named[s] /\ s.day = t.day
        BY <1>6
      <4>2. s.total = 0
        BY <1>1, <3>1, <4>1 DEF DaySound
      <4> QED BY <1>2, <4>1, <4>2, NamedIs
    <3>3. day < until => CountedOn(raw, summary', day)
      BY <1>1, <2>1, <3>1 DEF DaySound
    <3> QED BY <1>1, <3>2, <3>3 DEF DaySound
  <2>3. SoundUntil(raw', summary', RightUntil')
    BY <1>1, <2>1
  <2> QED BY <1>1, <2>1, <2>2, <2>3 DEF ViewsSound
<1>8. \A t \in summary' : t.url \in Pages => t.pkg # None
  <2> SUFFICES ASSUME NEW t \in summary', t.url \in Pages PROVE t.pkg # None
    OBVIOUS
  <2>1. PICK s \in summary : t = Named[s] /\ s.url = t.url
    BY <1>6
  <2>2. Views!PackageAt(s.url) # None
    BY PackageAtIs
  <2> QED BY <1>2, <2>1, <2>2, NamedIs
<1>9. stale # Packages => \A s \in summary : s.day # day => Named[s] = s
  <2> SUFFICES ASSUME stale # Packages, NEW s \in summary, s.day # day PROVE Named[s] = s
    OBVIOUS
  <2>1. s.url \in Pages => s.pkg # None
    BY <1>1 DEF ViewsInv, ViewsFinished, AreFinished, AreNamed
  <2> QED BY <1>2, <2>1, NamedIs
<1>10. ViewsFinished'
  <2>1. stale # Packages => \A t \in summary' : t.day # day => t \in summary
    BY <1>6, <1>9
  <2>2. stale # Packages => AreFinished({s \in summary : s.day # day})
    BY <1>1 DEF ViewsInv, ViewsFinished
  <2>3. stale # Packages => AreFinished({s \in summary' : s.day # day})
    BY <2>1, <2>2 DEF AreFinished, AreNamed
  <2> QED BY <1>1, <1>8, <2>3 DEF ViewsFinished, AreNamed
<1>11. ViewsShown'
  <2>1. \A p \in Packages \ (stale \cup renamed) : \A s \in summary :
          s.day # day /\ (s.pkg = p \/ Named[s].pkg = p) => Named[s] = s
    BY <1>9
  <2> QED BY <1>4, <2>1, CompletesShown
<1> QED BY <1>5, <1>7, <1>10, <1>11 DEF ViewsInv

LinksTotalled ==
    [s \in summary |-> IF s.url \in Links /\ s.total = 0
                       THEN [s EXCEPT !.total = Views!CountsUntil(s.day, OfUrl(summary, s.url))]
                       ELSE s]

LEMMA LinksTotalledIs ==
    ASSUME AreRows(summary), NEW s \in summary
    PROVE  /\ LinksTotalled[s] \in ViewRows /\ s \in ViewRows
           /\ LinksTotalled[s].url = s.url /\ LinksTotalled[s].day = s.day
           /\ LinksTotalled[s].count = s.count /\ LinksTotalled[s].pkg = s.pkg
           /\ LinksTotalled[s].total = IF s.url \in Links /\ s.total = 0
                                       THEN Views!CountsUntil(s.day, OfUrl(summary, s.url)) ELSE s.total
           /\ ~ (s.url \in Links /\ s.total = 0) => LinksTotalled[s] = s
<1> DEFINE n == Views!CountsUntil(s.day, OfUrl(summary, s.url))
<1>1. s \in ViewRows
  BY DEF AreRows
<1>2. n \in Nat
  <2>1. AreRows(OfUrl(summary, s.url))
    BY RowsWithin DEF OfUrl
  <2> QED BY <2>1, CountsAre
<1>3. CASE s.url \in Links /\ s.total = 0
  <2>1. LinksTotalled[s] = [s EXCEPT !.total = n]
    BY <1>3 DEF LinksTotalled
  <2> HIDE DEF n
  <2>2. /\ LinksTotalled[s] \in ViewRows /\ LinksTotalled[s].url = s.url /\ LinksTotalled[s].day = s.day
        /\ LinksTotalled[s].count = s.count /\ LinksTotalled[s].pkg = s.pkg /\ LinksTotalled[s].total = n
    BY <1>1, <1>2, <2>1 DEF ViewRows
  <2> QED BY <1>1, <1>3, <2>2 DEF n
<1>4. CASE ~ (s.url \in Links /\ s.total = 0)
  <2>1. LinksTotalled[s] = s
    BY <1>4 DEF LinksTotalled
  <2> QED BY <1>1, <1>4, <2>1
<1> QED BY <1>3, <1>4

LEMMA LinkTotalsKeepsViews ==
    ASSUME ViewsInv, Views!LinkTotals
    PROVE  ViewsInv'
<1> DEFINE F == LinksTotalled
<1>1. /\ at = "links" /\ at' = "pages" /\ summary' = {F[s] : s \in summary}
      /\ UNCHANGED <<raw, today, shown, name, from, until, day, owed, stale, renamed>>
  BY DEF Views!LinkTotals, Views!Statement, Views!run, Views!kept, LinksTotalled, OfUrl
<1>2. AreRows(summary)
  BY DEF ViewsInv, ViewsBasic
<1>3. RightUntil \in Nat /\ RightUntil =< day
  BY <1>1, UntilIs DEF ViewsInv
<1>4. \A s \in summary :
           /\ F[s] \in ViewRows /\ F[s].url = s.url /\ F[s].day = s.day /\ F[s].count = s.count /\ F[s].pkg = s.pkg
           /\ F[s].total = IF s.url \in Links /\ s.total = 0
                           THEN Views!CountsUntil(s.day, OfUrl(summary, s.url)) ELSE s.total
           /\ ~ (s.url \in Links /\ s.total = 0) => F[s] = s
  BY <1>2, LinksTotalledIs
<1> HIDE DEF F
<1>5. Completes(F)
  <2>1. Remade(summary, summary', F)
    BY <1>1, <1>4 DEF Remade
  <2>2. \A s \in summary : s.url \in Links => F[s].pkg = None
    BY <1>4 DEF ViewsInv, ViewsBasic
  <2>3. \A s \in summary : s.day < RightUntil => F[s].pkg = s.pkg /\ F[s].total = s.total
    <3> SUFFICES ASSUME NEW s \in summary, s.day < RightUntil
                 PROVE  F[s].pkg = s.pkg /\ F[s].total = s.total
      OBVIOUS
    <3>1. TotalRight(summary, s)
      BY DEF ViewsInv, ViewsSound, SoundUntil
    <3>2. s.url \in Links => s.total = Views!CountsUntil(s.day, OfUrl(summary, s.url))
      BY <3>1 DEF TotalRight
    <3> QED BY <1>4, <3>2
  <2> QED BY <1>1, <2>1, <2>2, <2>3 DEF Completes
<1>6. ViewsBasic'
  <2>1. \A p \in Packages \ renamed : \A s \in summary : F[s].pkg # None => (s.url = name[p] <=> F[s].pkg = p)
    BY <1>4 DEF ViewsInv, ViewsBasic
  <2> QED BY <1>5, <2>1, CompletesBasic DEF ViewsInv
<1>7. \A t \in summary' : \E s \in summary : t = F[s] /\ s.url = t.url /\ s.day = t.day
  BY <1>5, CompletedRows DEF ViewsInv
<1>8. ViewsSound'
  <2>1. /\ SoundUntil(raw, summary', RightUntil) /\ RightUntil' = RightUntil
        /\ MakesUp' <=> MakesUp
        /\ owed = None \/ from < owed => \A s \in summary' : s.day =< from + 2 \/ s.day =< day
        /\ CountedOn(raw, summary, day) => CountedOn(raw, summary', day)
    BY <1>1, <1>5, CompletesSound
  <2>2. MakesUp => DaySound'
    <3> SUFFICES ASSUME MakesUp PROVE DaySound'
      OBVIOUS
    <3>1. DaySound
      BY <1>1 DEF ViewsInv, ViewsSound
    <3>2. ASSUME NEW t \in summary', t.day = day
          PROVE  IF t.url \in Links THEN TotalRight(summary', t) ELSE t.total = 0
      <4>1. PICK s \in summary : t = F[s] /\ s.day = t.day /\ s.url = t.url
        BY <1>7
      <4>2. s.total = 0
        BY <1>1, <3>1, <3>2, <4>1 DEF DaySound
      <4>3. CASE t.url \in Links
        <5>1. t.total = Views!CountsUntil(t.day, OfUrl(summary, t.url))
          BY <1>4, <4>1, <4>2, <4>3
        <5>2. Views!CountsUntil(t.day, OfUrl(summary', t.url)) = Views!CountsUntil(t.day, OfUrl(summary, t.url))
          BY <1>2, <1>5, RemadeCounts DEF Completes
        <5> QED BY <4>3, <5>1, <5>2 DEF TotalRight
      <4>4. CASE t.url \notin Links
        BY <1>4, <4>1, <4>2, <4>4
      <4> QED BY <4>3, <4>4
    <3>3. day < until => CountedOn(raw, summary', day)
      BY <1>1, <2>1, <3>1 DEF DaySound
    <3> QED BY <1>1, <3>2, <3>3 DEF DaySound
  <2>3. SoundUntil(raw', summary', RightUntil')
    BY <1>1, <2>1
  <2> QED BY <1>1, <2>1, <2>2, <2>3 DEF ViewsSound
<1>9. \A s \in summary : s.url \in Links => s.pkg = None
  BY DEF ViewsInv, ViewsBasic
<1>10. ViewsFinished'
  <2>1. AreNamed(summary')
    <3>1. AreNamed(summary)
      BY <1>1 DEF ViewsInv, ViewsFinished
    <3> QED BY <1>4, <1>7, <3>1 DEF AreNamed
  <2>2. stale # Packages => AreFinished({s \in summary' : s.day # day})
    <3> SUFFICES ASSUME stale # Packages PROVE AreFinished({s \in summary' : s.day # day})
      OBVIOUS
    <3>1. AreFinished({s \in summary : s.day # day})
      BY <1>1 DEF ViewsInv, ViewsFinished
    <3>2. ASSUME NEW t \in summary', t.day # day, t.pkg \in Packages PROVE t.total > 0
      <4>1. PICK s \in summary : t = F[s] /\ s.day = t.day /\ s.url = t.url
        BY <1>7
      <4>2. s.pkg = t.pkg
        BY <1>4, <4>1
      <4>3. s.url \notin Links
        BY <1>9, <3>2, <4>2, ViewConstants
      <4> QED BY <1>4, <3>1, <3>2, <4>1, <4>2, <4>3 DEF AreFinished
    <3> QED BY <2>1, <3>2 DEF AreFinished, AreNamed
  <2> QED BY <1>1, <2>1, <2>2 DEF ViewsFinished
<1>11. ViewsShown'
  <2>1. \A p \in Packages \ (stale \cup renamed) : \A s \in summary :
          s.day # day /\ (s.pkg = p \/ F[s].pkg = p) => F[s] = s
    BY <1>4, <1>9, ViewConstants
  <2> QED BY <1>5, <2>1, CompletesShown
<1> QED BY <1>6, <1>8, <1>10, <1>11 DEF ViewsInv

PagesTotalled ==
    [s \in summary |-> IF s.pkg \in Packages /\ s.total = 0
                       THEN [s EXCEPT !.total = Views!CountsUntil(s.day, OfPackage(summary, s.pkg))]
                       ELSE s]

LEMMA PagesTotalledIs ==
    ASSUME AreRows(summary), NEW s \in summary
    PROVE  /\ PagesTotalled[s] \in ViewRows /\ s \in ViewRows
           /\ PagesTotalled[s].url = s.url /\ PagesTotalled[s].day = s.day
           /\ PagesTotalled[s].count = s.count /\ PagesTotalled[s].pkg = s.pkg
           /\ PagesTotalled[s].total = IF s.pkg \in Packages /\ s.total = 0
                                       THEN Views!CountsUntil(s.day, OfPackage(summary, s.pkg)) ELSE s.total
           /\ ~ (s.pkg \in Packages /\ s.total = 0) => PagesTotalled[s] = s
           /\ s.pkg \in Packages => PagesTotalled[s].total > 0
<1> DEFINE n == Views!CountsUntil(s.day, OfPackage(summary, s.pkg))
<1>1. s \in ViewRows /\ s.day \in Nat
  BY DEF AreRows, ViewRows
<1>2. n \in Nat /\ n > 0
  <2>1. AreRows(OfPackage(summary, s.pkg)) /\ s \in OfPackage(summary, s.pkg)
    BY RowsWithin DEF OfPackage
  <2>2. s.day =< s.day
    BY <1>1
  <2> QED BY <2>1, <2>2, CountsAre, CountsPositive
<1>3. CASE s.pkg \in Packages /\ s.total = 0
  <2>1. PagesTotalled[s] = [s EXCEPT !.total = n]
    BY <1>3 DEF PagesTotalled
  <2> HIDE DEF n
  <2>2. /\ PagesTotalled[s] \in ViewRows /\ PagesTotalled[s].url = s.url /\ PagesTotalled[s].day = s.day
        /\ PagesTotalled[s].count = s.count /\ PagesTotalled[s].pkg = s.pkg /\ PagesTotalled[s].total = n
    BY <1>1, <1>2, <2>1 DEF ViewRows
  <2> QED BY <1>1, <1>2, <1>3, <2>2 DEF n
<1>4. CASE ~ (s.pkg \in Packages /\ s.total = 0)
  <2>1. PagesTotalled[s] = s
    BY <1>4 DEF PagesTotalled
  <2>2. s.total \in Nat
    BY <1>1 DEF ViewRows
  <2> QED BY <1>1, <1>4, <2>1, <2>2
<1> QED BY <1>3, <1>4

LEMMA PageTotalsKeepsViews ==
    ASSUME ViewsInv, Views!PageTotals
    PROVE  ViewsInv'
<1> DEFINE F == PagesTotalled
<1>1. /\ at = "pages" /\ summary' = {F[s] : s \in summary}
      /\ IF day < until THEN at' = "clear" /\ day' = day + 1 ELSE at' = "index" /\ day' = day
      /\ UNCHANGED <<raw, today, shown, name, from, until, owed, stale, renamed>>
  BY DEF Views!PageTotals, Views!NextStatement, Views!kept, PagesTotalled, OfPackage
<1>2. AreRows(summary) /\ day \in Nat /\ until \in Nat /\ day =< until
  BY <1>1 DEF ViewsInv, ViewsBasic, RunTyped
<1>3. RightUntil \in Nat /\ RightUntil =< day
  BY <1>1, UntilIs DEF ViewsInv
<1>4. \A s \in summary :
           /\ F[s] \in ViewRows /\ F[s].url = s.url /\ F[s].day = s.day /\ F[s].count = s.count /\ F[s].pkg = s.pkg
           /\ F[s].total = IF s.pkg \in Packages /\ s.total = 0
                           THEN Views!CountsUntil(s.day, OfPackage(summary, s.pkg)) ELSE s.total
           /\ ~ (s.pkg \in Packages /\ s.total = 0) => F[s] = s
           /\ s.pkg \in Packages => F[s].total > 0
  BY <1>2, PagesTotalledIs
<1> HIDE DEF F
<1>5. \A s \in summary : s.url \in Links => s.pkg = None
  BY DEF ViewsInv, ViewsBasic
<1>6. Completes(F)
  <2>1. Remade(summary, summary', F)
    BY <1>1, <1>4 DEF Remade
  <2>2. \A s \in summary : s.url \in Links => F[s].pkg = None
    BY <1>4, <1>5
  <2>3. \A s \in summary : s.day < RightUntil => F[s].pkg = s.pkg /\ F[s].total = s.total
    <3> SUFFICES ASSUME NEW s \in summary, s.day < RightUntil
                 PROVE  F[s].pkg = s.pkg /\ F[s].total = s.total
      OBVIOUS
    <3>1. TotalRight(summary, s)
      BY DEF ViewsInv, ViewsSound, SoundUntil
    <3>2. s.pkg \in Packages => s.total = Views!CountsUntil(s.day, OfPackage(summary, s.pkg))
      BY <1>5, <3>1, ViewConstants DEF TotalRight
    <3> QED BY <1>4, <3>2
  <2>4. /\ at' \in {"index", "clear"}
        /\ day' = IF at' = "clear" THEN day + 1 ELSE day
        /\ at' = "clear" => day < until
        /\ at' = "index" => day = until
    BY <1>1, <1>2
  <2> QED BY <1>1, <2>1, <2>2, <2>3, <2>4 DEF Completes
<1>7. ViewsBasic'
  <2>1. \A p \in Packages \ renamed : \A s \in summary : F[s].pkg # None => (s.url = name[p] <=> F[s].pkg = p)
    BY <1>4 DEF ViewsInv, ViewsBasic
  <2> QED BY <1>6, <2>1, CompletesBasic DEF ViewsInv
<1>8. /\ \A t \in summary' : \E s \in summary : t = F[s] /\ s.url = t.url /\ s.day = t.day
      /\ AreRows(summary')
  BY <1>6, CompletedRows DEF ViewsInv
<1>9. AreNamed(summary)
  BY <1>1 DEF ViewsInv, ViewsFinished
<1>10. ViewsSound'
  <2>1. /\ SoundUntil(raw, summary', RightUntil)
        /\ at' # "clear" => RightUntil' = RightUntil
        /\ ~ MakesUp => RightUntil' = RightUntil
        /\ MakesUp' <=> MakesUp
        /\ owed = None \/ from < owed => \A s \in summary' : s.day =< from + 2 \/ s.day =< day'
        /\ CountedOn(raw, summary, day) => CountedOn(raw, summary', day)
    BY <1>6, CompletesSound
  <2>2. MakesUp => \A t \in summary' : t.day = day => TotalRight(summary', t)
    <3> SUFFICES ASSUME MakesUp, NEW t \in summary', t.day = day PROVE TotalRight(summary', t)
      OBVIOUS
    <3>1. PICK s \in summary : t = F[s] /\ s.day = t.day /\ s.url = t.url
      BY <1>8
    <3>2. IF s.url \in Links THEN TotalRight(summary, s) ELSE s.total = 0
      BY <1>1, <3>1 DEF DaySound, ViewsInv, ViewsSound
    <3>3. t.pkg = s.pkg /\ s.pkg \in Packages \cup {None, NotFound} /\ s.url \in Pages \cup Links
      BY <1>2, <1>4, <3>1 DEF AreRows, ViewRows, Views!Urls
    <3>4. CASE s.url \in Links
      <4>1. s.total = Views!CountsUntil(s.day, OfUrl(summary, s.url))
        BY <3>2, <3>4 DEF TotalRight
      <4>2. F[s] = s
        BY <1>4, <1>5, <3>4, ViewConstants
      <4>3. Views!CountsUntil(s.day, OfUrl(summary', s.url)) = Views!CountsUntil(s.day, OfUrl(summary, s.url))
        BY <1>2, <1>6, RemadeCounts DEF Completes
      <4> QED BY <3>1, <3>4, <4>1, <4>2, <4>3 DEF TotalRight
    <3>5. CASE s.url \notin Links
      <4>1. s.pkg # None /\ s.total = 0
        BY <1>9, <3>2, <3>3, <3>5 DEF AreNamed
      <4>2. s.pkg \in Packages => t.total = Views!CountsUntil(s.day, OfPackage(summary, s.pkg))
        BY <1>4, <3>1, <4>1
      <4>3. Views!CountsUntil(s.day, OfPackage(summary', s.pkg)) = Views!CountsUntil(s.day, OfPackage(summary, s.pkg))
        BY <1>2, <1>4, <1>6, RemadeCounts DEF Completes
      <4> QED BY <3>1, <3>3, <3>5, <4>1, <4>2, <4>3 DEF TotalRight
    <3> QED BY <3>4, <3>5
  <2>3. MakesUp /\ day < until => CountedOn(raw, summary', day)
    BY <1>1, <2>1 DEF DaySound, ViewsInv, ViewsSound
  <2>4. MakesUp => RightUntil' = day' /\ RightUntil = day
    BY <1>1, <2>1 DEF RightUntil
  <2>5. SoundUntil(raw, summary', RightUntil')
    <3>1. CASE MakesUp /\ day < until
      <4>1. RightUntil' = day + 1 /\ RightUntil = day
        BY <1>1, <2>4, <3>1
      <4>2. \A d \in Nat : d < day + 1 => CountedOn(raw, summary', d)
        <5> SUFFICES ASSUME NEW d \in Nat, d < day + 1 PROVE CountedOn(raw, summary', d)
          OBVIOUS
        <5>1. d < day \/ d = day
          BY <1>2
        <5> QED BY <2>1, <2>3, <3>1, <4>1, <5>1 DEF SoundUntil
      <4>3. \A t \in summary' : t.day < day + 1 => TotalRight(summary', t)
        <5> SUFFICES ASSUME NEW t \in summary', t.day < day + 1 PROVE TotalRight(summary', t)
          OBVIOUS
        <5>1. t.day \in Nat
          BY <1>8 DEF AreRows, ViewRows
        <5>2. t.day < day \/ t.day = day
          BY <1>2, <5>1
        <5> QED BY <2>1, <2>2, <3>1, <4>1, <5>2 DEF SoundUntil
      <4> QED BY <4>1, <4>2, <4>3 DEF SoundUntil
    <3>2. CASE ~ (MakesUp /\ day < until)
      <4>1. RightUntil' = RightUntil
        BY <1>1, <2>1, <3>2
      <4> QED BY <2>1, <4>1
    <3> QED BY <3>1, <3>2
  <2>6. MakesUp => DaySound'
    <3>1. at' = "index" => day' = day
      BY <1>1
    <3>2. at' \in {"index", "clear"}
      BY <1>1
    <3> QED BY <2>2, <3>1, <3>2 DEF DaySound
  <2>7. SoundUntil(raw', summary', RightUntil')
    BY <1>1, <2>5
  <2> QED BY <1>1, <2>1, <2>6, <2>7 DEF ViewsSound
<1>11. ViewsFinished'
  <2>1. AreFinished(summary')
    <3> SUFFICES ASSUME NEW t \in summary'
                 PROVE  /\ t.url \in Pages => t.pkg # None
                        /\ t.pkg \in Packages => t.total > 0
      BY DEF AreFinished, AreNamed
    <3>1. PICK s \in summary : t = F[s] /\ s.url = t.url
      BY <1>8
    <3> QED BY <1>4, <1>9, <3>1 DEF AreNamed
  <2>2. at' \in {"index", "clear"}
    BY <1>1
  <2> QED BY <2>1, <2>2 DEF ViewsFinished, AreFinished
<1>12. ViewsShown'
  <2> SUFFICES ASSUME NEW p \in Packages \ (stale \cup renamed), NEW s \in summary,
                      s.day # day, s.pkg = p \/ F[s].pkg = p
               PROVE  F[s] = s
    BY <1>6, CompletesShown
  <2>1. AreFinished({z \in summary : z.day # day})
    BY <1>1 DEF ViewsInv, ViewsFinished
  <2>2. s.pkg \in Packages => s.total > 0
    BY <2>1 DEF AreFinished
  <2>3. s.total \in Nat
    BY <1>2 DEF AreRows, ViewRows
  <2> QED BY <1>4, <2>2, <2>3
<1> QED BY <1>7, <1>10, <1>11, <1>12 DEF ViewsInv

LEMMA IndexKeepsViews ==
    ASSUME ViewsInv, Views!Index
    PROVE  /\ ViewsInv'
           /\ \A p \in Packages \ (stale' \cup renamed') : shown'[p] \in Views!TotalsOf(p)
<1>1. /\ at = "index" /\ at' = "idle" /\ stale' = stale \ Views!Reindexed
      /\ owed' = IF owed # None /\ from =< owed THEN None ELSE owed
      /\ UNCHANGED <<raw, today, summary, name, renamed>>
  BY DEF Views!Index, Views!Statement, Views!tables
<1>2. PICK total : /\ \A p \in Packages : total[p] \in Views!TotalsOf(p)
                   /\ shown' = [p \in Packages |-> IF p \in Views!Reindexed THEN total[p] ELSE shown[p]]
  BY DEF Views!Index
<1>3. /\ today \in Nat /\ AreRows(summary) /\ \A s \in summary : s.day =< today
      /\ \A s \in summary : s.day \in Nat
      /\ owed \in Nat \cup {None} /\ name \in [Packages -> Pages]
      /\ from \in Nat /\ day \in Nat /\ until \in Nat /\ from =< day /\ day = until
      /\ \A s \in summary : s.day =< until
  BY <1>1 DEF ViewsInv, ViewsBasic, RunTyped, AreRows, ViewRows
<1>4. ViewsBasic'
  BY <1>1, <1>3 DEF ViewsInv, ViewsBasic
<1>5. RightUntil \in Nat /\ RightUntil' \in Nat /\ RightUntil' =< RightUntil
  <2> DEFINE first == Views!DefaultStart
  <2>1. first \in Nat /\ \A x \in Nat : (\A s \in summary : s.day =< x + 2) => first =< x
    BY <1>3, StartIs
  <2>2. RightUntil' = IF owed' = None \/ first < owed' THEN first ELSE owed'
    BY <1>1 DEF RightUntil, Views!Earlier, Views!DefaultStart
  <2>3. RightUntil = IF owed = None \/ from =< owed THEN day ELSE owed
    BY <1>1 DEF RightUntil, MakesUp
  <2> HIDE DEF first
  <2>4. \A s \in summary : s.day =< day + 2
    BY <1>3
  <2>5. first =< day
    BY <1>3, <2>1, <2>4
  <2>6. CASE owed = None \/ from =< owed
    <3>1. owed' = None
      BY <1>1, <2>6
    <3> QED BY <1>3, <2>1, <2>2, <2>3, <2>5, <2>6, <3>1
  <2>7. CASE ~ (owed = None \/ from =< owed)
    <3>1. owed' = owed /\ owed \in Nat /\ owed # None
      BY <1>1, <1>3, <2>7
    <3>2. RightUntil = owed /\ RightUntil' = IF first < owed THEN first ELSE owed
      BY <2>2, <2>3, <2>7, <3>1
    <3> QED BY <2>1, <3>1, <3>2
  <2> QED BY <2>6, <2>7
<1>6. ViewsSound'
  <2>1. SoundUntil(raw, summary, RightUntil)
    BY DEF ViewsInv, ViewsSound
  <2>2. SoundUntil(raw, summary, RightUntil')
    BY <1>3, <1>5, <2>1, SoundStays
  <2>3. SoundUntil(raw', summary', RightUntil')
    BY <1>1, <2>2
  <2> QED BY <1>1, <2>3 DEF ViewsSound
<1>7. ViewsFinished'
  BY <1>1 DEF ViewsInv, ViewsFinished
<1>8. ASSUME NEW p \in Packages \ (stale' \cup renamed')
      PROVE  shown'[p] \in Views!TotalsOf(p)
  <2>1. CASE p \in Views!Reindexed
    BY <1>2, <2>1
  <2>2. CASE p \notin Views!Reindexed
    <3>1. p \notin stale /\ p \notin renamed /\ shown'[p] = shown[p]
      BY <1>1, <1>2, <1>8, <2>2
    <3>2. \A s \in summary : s.pkg = p => ~ (s.day >= from)
      BY <2>2 DEF Views!Reindexed
    <3>3. ~ WillBeFound(p)
      <4> SUFFICES ASSUME WillBeFound(p) PROVE FALSE
        OBVIOUS
      <4>1. PICK d \in from .. until :
              IF d > day \/ (d = day /\ at \in {"clear", "count"}) THEN VisitsIn(raw, name[p], d) # {}
              ELSE \E s \in summary : s.url = name[p] /\ s.day = d
        BY DEF WillBeFound
      <4>2. PICK s \in summary : s.url = name[p] /\ s.day = d
        BY <1>1, <1>3, <4>1
      <4>3. s.pkg # None
        BY <1>1, <1>3, <4>2 DEF ViewsInv, ViewsFinished, AreNamed
      <4>4. s.pkg = p
        BY <3>1, <4>2, <4>3 DEF ViewsInv, ViewsBasic
      <4> QED BY <1>3, <3>2, <4>2, <4>4
    <3>4. shown[p] \in TotalsBefore(summary, p, from)
      BY <1>1, <3>1, <3>3 DEF ViewsInv, ViewsShown
    <3>5. {s \in summary : s.pkg = p} = {s \in summary : s.pkg = p /\ s.day < from}
      BY <1>3, <3>2
    <3>6. TotalsBefore(summary, p, from) = Views!TotalsOf(p)
      BY <3>5 DEF TotalsBefore, Views!TotalsOf
    <3> QED BY <3>1, <3>4, <3>6
  <2> QED BY <2>1, <2>2
<1>9. ViewsShown'
  <2> SUFFICES ASSUME NEW p \in Packages \ (stale' \cup renamed') PROVE shown'[p] \in Views!TotalsOf(p)'
    BY <1>1 DEF ViewsShown
  <2>1. Views!TotalsOf(p)' = Views!TotalsOf(p)
    BY <1>1 DEF Views!TotalsOf
  <2> QED BY <1>8, <2>1
<1> QED BY <1>4, <1>6, <1>7, <1>8, <1>9 DEF ViewsInv

LEMMA ViewsStep ==
    ASSUME ViewsInv, [Views!Next]_(Views!vars)
    PROVE  ViewsInv'
<1>1. CASE Views!Next
  BY <1>1, ViewKeepsViews, NextDayKeepsViews, RenameKeepsViews, BeginKeepsViews, ClearKeepsViews,
     CountKeepsViews, FillNamesKeepsViews, LinkTotalsKeepsViews, PageTotalsKeepsViews,
     IndexKeepsViews, KillKeepsViews DEF Views!Next
<1>2. CASE UNCHANGED Views!vars
  <2>1. UNCHANGED <<today, name, raw, summary, shown, at, from, until, day, owed, stale, renamed>>
    BY <1>2 DEF Views!vars, Views!tables, Views!run, Views!kept
  <2>2. ViewsBasic'
    BY <2>1 DEF ViewsInv, ViewsBasic, RunTyped
  <2>3. ViewsSound'
    BY <2>1 DEF ViewsInv, ViewsSound, RightUntil, MakesUp, Views!Earlier, Views!DefaultStart, DaySound
  <2>4. ViewsFinished'
    BY <2>1 DEF ViewsInv, ViewsFinished
  <2>5. ViewsShown'
    BY <2>1 DEF ViewsInv, ViewsShown, Views!TotalsOf, WillBeFound
  <2> QED BY <2>2, <2>3, <2>4, <2>5 DEF ViewsInv
<1> QED BY <1>1, <1>2

LEMMA ViewsInitially == Views!Init => ViewsInv
<1> SUFFICES ASSUME Views!Init PROVE ViewsInv
  OBVIOUS
<1>1. /\ today = 0 /\ name \in [Packages -> Pages] /\ raw = {} /\ summary = {}
      /\ \A p, q \in Packages : name[p] = name[q] => p = q
      /\ shown = [p \in Packages |-> 0] /\ at = "idle" /\ owed = None
  BY DEF Views!Init
<1>2. AreRows(summary)
  BY <1>1, FS_EmptySet DEF AreRows
<1>3. ViewsBasic
  BY <1>1, <1>2, FS_EmptySet DEF ViewsBasic
<1>4. RightUntil = 0
  BY <1>1 DEF RightUntil, Views!Earlier, Views!DefaultStart
<1>5. ViewsSound
  <2>1. \A d \in Nat : ~ (d < 0)
    OBVIOUS
  <2> QED BY <1>1, <1>4, <2>1 DEF ViewsSound, SoundUntil
<1>6. ViewsFinished
  BY <1>1 DEF ViewsFinished, AreFinished, AreNamed
<1>7. ViewsShown
  BY <1>1 DEF ViewsShown, Views!TotalsOf
<1> QED BY <1>3, <1>5, <1>6, <1>7 DEF ViewsInv

LEMMA ServicesRunViews == ServicesSpec => Views!Spec
<1>1. ServicesInit => Views!Init
  BY DEF ServicesInit
<1>2. [ServicesNext]_all => [Views!Next]_Views!vars
  BY DEF ServicesNext, all, viewVars, Views!vars, Views!tables, Views!run, Views!kept
<1> QED BY <1>1, <1>2, PTL DEF ServicesSpec, Views!Spec

\* What the end of a run leaves, of the summary and of the index.
SummaryAdded ==
    Views!Index /\ owed' = None =>
      /\ \A url \in Views!Urls, d \in 0 .. until :
           LET counted == {s \in summary : s.url = url /\ s.day = d}
           IN  d < until =>
                 IF Views!VisitorsOf(url, d) = {} THEN counted = {}
                 ELSE \E s \in counted : s.count = Views!Cardinality(Views!VisitorsOf(url, d))
      /\ \A s \in summary :
           LET same == {t \in summary : IF s.url \in Links THEN t.url = s.url ELSE t.pkg = s.pkg}
           IN  s.pkg # NotFound => s.total = Views!CountsUntil(s.day, same)
IndexShown ==
    Views!Index /\ owed' = None =>
      \A p \in Packages \ (stale \cup renamed)' : shown'[p] \in Views!TotalsOf(p)

LEMMA SummaryAddsUpStep ==
    ASSUME ViewsInv PROVE SummaryAdded
<1> SUFFICES ASSUME Views!Index, owed' = None PROVE SummaryAdded
  BY DEF SummaryAdded
<1>1. at = "index" /\ owed' = IF owed # None /\ from =< owed THEN None ELSE owed
  BY DEF Views!Index, Views!Statement
<1>2. /\ RunTyped /\ AreRows(summary) /\ day \in Nat /\ day = until
      /\ \A s \in summary : s.day \in Nat /\ s.day =< day
      /\ \A s \in summary : s.url \in Links => s.pkg = None
      /\ \A s \in summary : s.url \in Views!Urls /\ s.pkg \in Packages \cup {None, NotFound}
  BY <1>1 DEF ViewsInv, ViewsBasic, RunTyped, AreRows, ViewRows
<1>3. MakesUp
  BY <1>1 DEF MakesUp
<1>4. RightUntil = day
  BY <1>1, <1>3 DEF RightUntil
<1>5. SoundUntil(raw, summary, day) /\ DaySound
  BY <1>1, <1>3, <1>4 DEF ViewsInv, ViewsSound
<1>6. \A s \in summary : TotalRight(summary, s)
  <2> SUFFICES ASSUME NEW s \in summary PROVE TotalRight(summary, s)
    OBVIOUS
  <2>1. s.day < day \/ s.day = day
    BY <1>2
  <2> QED BY <1>1, <1>5, <2>1 DEF SoundUntil, DaySound
<1>7. ASSUME NEW url \in Views!Urls, NEW d \in 0 .. until, d < until
      PROVE  IF Views!VisitorsOf(url, d) = {} THEN {s \in summary : s.url = url /\ s.day = d} = {}
             ELSE \E s \in {s \in summary : s.url = url /\ s.day = d} :
                    s.count = Views!Cardinality(Views!VisitorsOf(url, d))
  <2>1. CountedOn(raw, summary, d)
    BY <1>2, <1>5, <1>7 DEF SoundUntil
  <2>2. Views!VisitorsOf(url, d) = VisitsIn(raw, url, d)
    BY VisitorsAre
  <2>3. Views!Cardinality(VisitsIn(raw, url, d)) = Cardinality(VisitsIn(raw, url, d))
    BY ViewCardinality
  <2> QED BY <2>1, <2>2, <2>3 DEF CountedOn
<1>8. ASSUME NEW s \in summary, s.pkg # NotFound
      PROVE  s.total = Views!CountsUntil(s.day,
               {t \in summary : IF s.url \in Links THEN t.url = s.url ELSE t.pkg = s.pkg})
  <2>1. CASE s.url \in Links
    <3>1. s.total = Views!CountsUntil(s.day, OfUrl(summary, s.url))
      BY <1>6, <2>1 DEF TotalRight
    <3>2. OfUrl(summary, s.url) = {t \in summary : IF s.url \in Links THEN t.url = s.url ELSE t.pkg = s.pkg}
      BY <2>1 DEF OfUrl
    <3> QED BY <3>1, <3>2
  <2>2. CASE s.url \notin Links
    <3>1. s.total = Views!CountsUntil(s.day, OfPackage(summary, s.pkg))
      BY <1>2, <1>6, <1>8, <2>2 DEF TotalRight
    <3>2. OfPackage(summary, s.pkg) = {t \in summary : IF s.url \in Links THEN t.url = s.url ELSE t.pkg = s.pkg}
      BY <2>2 DEF OfPackage
    <3> QED BY <3>1, <3>2
  <2> QED BY <2>1, <2>2
<1> QED BY <1>7, <1>8 DEF SummaryAdded

LEMMA IndexShowsStep ==
    ASSUME ViewsInv PROVE IndexShown
BY IndexKeepsViews DEF IndexShown

\* The properties of Tracking, of its steps.
LEMMA SummaryIsAdded == [][SummaryAdded]_Views!vars => Views!SummaryAddsUp
BY Zenon DEF Views!SummaryAddsUp, SummaryAdded
LEMMA IndexIsShown == [][IndexShown]_Views!vars => Views!IndexShowsTotals
BY Zenon DEF Views!IndexShowsTotals, IndexShown

\* A run of the tracking command that ends with nothing owed leaves a summary in which
\* every day that was over has its visitors and every running total is the sum of the
\* counts up to it, and an index that shows the totals of the packages that no killed run
\* has left out: whatever was viewed and renamed meanwhile, and wherever earlier runs died.
THEOREM ViewsAreAddedUp == ServicesSpec => ViewsAddUp
<1>1. ViewsInv /\ [Views!Next]_(Views!vars) => ViewsInv'
  BY ViewsStep
<1>2. ViewsInv => SummaryAdded /\ IndexShown
  BY SummaryAddsUpStep, IndexShowsStep
<1>3. Views!Spec => [][SummaryAdded]_Views!vars /\ [][IndexShown]_Views!vars
  BY <1>1, <1>2, ViewsInitially, PTL DEF Views!Spec
<1> QED BY <1>3, ServicesRunViews, SummaryIsAdded, IndexIsShown, PTL DEF ViewsAddUp
=============================================================================
