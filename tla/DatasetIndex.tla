---------------------------- MODULE DatasetIndex ----------------------------
(***************************************************************************)
(* The two stores that hold a dataset: the PostgreSQL rows and the Solr     *)
(* document that is built from them, and the web workers that change both.  *)
(*                                                                         *)
(* package_show serves the Solr document in place of the database whenever  *)
(* the document carries the metadata_modified of the package row, so the    *)
(* document is a search index and a cache at once.  The document is written *)
(* by SynchronousSearchPlugin.notify, in the before_commit hook of the      *)
(* session: before the database commits.                                    *)
(*                                                                         *)
(* A worker runs one request at a time, and each of its steps is one round  *)
(* trip to one of the stores; the steps of the workers interleave.          *)
(* PostgreSQL runs at READ COMMITTED: an UPDATE of a package row waits for   *)
(* the transaction that already updated it, a SELECT never waits and sees   *)
(* what is committed.                                                       *)
(*                                                                         *)
(* Abstractions: the owner of a dataset and the authorisation of a request  *)
(* are left to the module Membership; a bulk update has one dataset in its  *)
(* list; the SELECTs of package_dictize on the related tables are one step  *)
(* (the one on the package row is a step of its own); two updates of a      *)
(* dataset are more than 10 ms apart, the precision of the comparison of    *)
(* metadata_modified in package_show.                                       *)
(***************************************************************************)
EXTENDS Naturals, FiniteSets

CONSTANTS
    Packages,   \* datasets, by id
    Workers,    \* web workers and command line processes
    None,       \* no row, no document, no holder of a lock
    Kinds,      \* the kinds of requests the workers run
    Updates,    \* full dictionaries a client sends to package_update
    Patches,    \* partial dictionaries a client sends to package_patch
    Faults,     \* TRUE: a store may refuse a call and a worker may be killed
    MaxTime     \* bound on the clock, hence on the number of updates

(***************************************************************************)
(* A row of the database, and a document of the index, is a record.        *)
(*   title    the columns of the package table that only an edit changes    *)
(*   private  the column private, state the column state                    *)
(*   mm       the column metadata_modified                                  *)
(*   body     the resources, tags and extras                                *)
(*   groups   whether the dataset is in the group                           *)
(*   rels     whether it has a relationship to another dataset              *)
(***************************************************************************)
RowFields == {"title", "private", "state", "mm"}
RelatedFields == {"body", "groups", "rels"}
Fields == RowFields \cup RelatedFields

\* The keys of a dictionary that package_dict_save writes for any editor.
EditFields == {"title", "private", "body", "groups"}

EditKinds == {"create", "update", "patch", "move"}
BulkKinds == {"bulk_private", "bulk_public", "bulk_delete"}
MemberKinds == {"member_create", "member_delete"}
ScanKinds == {"reindex", "rebuild"}
AllKinds == EditKinds \cup BulkKinds \cup MemberKinds \cup ScanKinds
              \cup {"show", "delete", "relate"}

\* Mutant of LockKinds: an edit that does not lock the row.
LockKindsOfDeletes == BulkKinds \cup {"delete"}

\* The kinds whose UPDATE is on the package row, and so locks it.
LockKinds == EditKinds \cup BulkKinds \cup {"delete"}

States == {"active", "deleted"}
Rows == [title : Nat, private : BOOLEAN, state : States, mm : Nat,
         body : Nat, groups : BOOLEAN, rels : BOOLEAN]

EmptyTx == [f \in {} |-> None]

\* d assigns values to some of the fields of a row.
Partial(d) ==
    /\ DOMAIN d \subseteq Fields
    /\ "title" \in DOMAIN d => d["title"] \in Nat
    /\ "private" \in DOMAIN d => d["private"] \in BOOLEAN
    /\ "state" \in DOMAIN d => d["state"] \in States
    /\ "mm" \in DOMAIN d => d["mm"] \in Nat
    /\ "body" \in DOMAIN d => d["body"] \in Nat
    /\ "groups" \in DOMAIN d => d["groups"] \in BOOLEAN
    /\ "rels" \in DOMAIN d => d["rels"] \in BOOLEAN

ASSUME NoneAssumption == None \notin Rows /\ None \notin Workers
ASSUME KindsAssumption == Kinds \subseteq AllKinds
ASSUME UpdatesAssumption == \A d \in Updates : Partial(d) /\ DOMAIN d = EditFields
ASSUME PatchesAssumption == \A d \in Patches : Partial(d) /\ DOMAIN d \subseteq EditFields
ASSUME BoundAssumption == Faults \in BOOLEAN /\ MaxTime \in Nat

VARIABLES
    db,      \* the committed row of each dataset, or None
    used,    \* history: the values of metadata_modified it was committed with
    lock,    \* the worker whose open transaction updated the row, or None
    solr,    \* the committed document of each dataset, or None
    pend,    \* the document added to Solr and not committed yet, or None
    clock,   \* datetime.utcnow()
    pc,      \* the step each worker is at, "idle" between requests
    kind,    \* the kind of its request
    pkg,     \* the dataset it is about
    arg,     \* the dictionary the client sent
    todo,    \* the ids a rebuild of the index has still to visit
    buf,     \* the dictionary, or the rows, the worker holds in memory
    stamp,   \* the metadata_modified the worker computed
    tx       \* the fields its open transaction wrote

stores == <<db, used, lock, solr, pend>>
request == <<kind, pkg, arg, todo>>
local == <<kind, arg, buf, stamp, tx>>
vars == <<db, used, lock, solr, pend, clock, pc, kind, pkg, arg, todo, buf, stamp, tx>>

-----------------------------------------------------------------------------
(***************************************************************************)
(* Reading and writing the stores.                                         *)
(***************************************************************************)

\* The fields d has, over those of the row r.
Overlay(d, r) == [f \in Fields |-> IF f \in DOMAIN d THEN d[f] ELSE r[f]]

\* What the transaction of w sees of its dataset: its own writes, and what is
\* committed elsewhere.
View(w) == Overlay(tx[w], db[pkg[w]])

\* Mutants of Join: the related rows are forgotten; the metadata_modified is
\* read with them, after the rest of the package row.
JoinRowOnly(r, r2) == [f \in RowFields |-> r[f]]
JoinLateStamp(r, r2) == [f \in Fields |-> IF f \in RowFields \ {"mm"} THEN r[f] ELSE r2[f]]

\* The package row r joined to the related rows of r2.
Join(r, r2) == [f \in Fields |-> IF f \in RowFields THEN r[f] ELSE r2[f]]

\* A commit sent to Solr makes every document added by anyone visible.
Visible == [p \in Packages |-> IF pend[p] = None THEN solr[p] ELSE pend[p]]

\* Mutant of IndexPackage: the document of a deleted dataset is added too.
IndexPackageKeepingDeleted(p, doc) ==
    /\ solr' = [Visible EXCEPT ![p] = doc]
    /\ pend' = [q \in Packages |-> None]

\* PackageSearchIndex.index_package with defer_commit False: the document of
\* a deleted dataset is removed, any other is added, and Solr commits.
IndexPackage(p, doc) ==
    /\ solr' = [Visible EXCEPT ![p] = IF doc.state = "deleted" THEN None ELSE doc]
    /\ pend' = [q \in Packages |-> None]

\* Mutant of CacheHit: any document is served.
CacheHitAny(doc, row) == doc # None

\* index_package with defer_commit True: an added document waits for a commit,
\* a removed one does not.
IndexDeferred(p, doc) ==
    IF doc.state = "deleted"
      THEN IndexPackage(p, doc)
      ELSE pend' = [pend EXCEPT ![p] = doc] /\ UNCHANGED solr

\* package_show serves the document when it has the metadata_modified of the
\* row, and the rows otherwise.
CacheHit(doc, row) == doc # None /\ doc.mm = row.mm
Served == [p \in Packages |->
             IF db[p] # None /\ CacheHit(solr[p], db[p]) THEN solr[p] ELSE db[p]]

Unlock(w) == lock' = [p \in Packages |-> IF lock[p] = w THEN None ELSE lock[p]]

Goto(w, label) == pc' = [pc EXCEPT ![w] = label]

\* The end of a request: Session.remove() rolls back what is not committed.
Finish(w) ==
    /\ Goto(w, "idle")
    /\ Unlock(w)
    /\ kind' = [kind EXCEPT ![w] = "show"]
    /\ arg' = [arg EXCEPT ![w] = EmptyTx]
    /\ buf' = [buf EXCEPT ![w] = None]
    /\ stamp' = [stamp EXCEPT ![w] = 0]
    /\ tx' = [tx EXCEPT ![w] = EmptyTx]

-----------------------------------------------------------------------------
FirstStep(k) ==
    CASE k \in {"create", "update", "move"} -> "stamp"
      [] k \in {"patch", "show"}            -> "show_row"
      [] k \in MemberKinds                  -> "get"
      [] k = "reindex"                      -> "get"
      [] k = "rebuild"                      -> "list"
      [] OTHER                              -> "write"

\* The datasets a request of kind k may name: package_create refuses a name in
\* use, the others a dataset that is not there, and deleting a dataset that is
\* deleted changes nothing.
Nameable(k, p) == CASE k = "create"  -> db[p] = None
                    [] k \in {"show", "rebuild"} -> TRUE
                    [] k = "delete"  -> db[p] # None /\ db[p].state # "deleted"
                    [] OTHER         -> db[p] # None

\* The bound on edits: those that have read the clock and those that will.
EditsToCome == {w \in Workers : /\ pc[w] \in {"show_row", "show_doc", "shown", "stamp"}
                                /\ kind[w] \in EditKinds}
MayEdit == clock + Cardinality(EditsToCome) < MaxTime

Arguments(k) == IF k \in {"create", "update", "move"} THEN Updates
                ELSE IF k = "patch" THEN Patches ELSE {EmptyTx}

Start(w) ==
    /\ pc[w] = "idle"
    /\ \E k \in Kinds, p \in Packages :
         /\ Nameable(k, p)
         /\ k \in EditKinds => MayEdit
         /\ \E d \in Arguments(k) : arg' = [arg EXCEPT ![w] = d]
         /\ kind' = [kind EXCEPT ![w] = k]
         /\ pkg' = [pkg EXCEPT ![w] = p]
         /\ Goto(w, FirstStep(k))
    /\ UNCHANGED <<stores, clock, todo, buf, stamp, tx>>

-----------------------------------------------------------------------------
(***************************************************************************)
(* package_show with the cache, and package_patch.                         *)
(***************************************************************************)

\* model.Package.get; NotFound ends the request.
ShowRow(w) ==
    /\ pc[w] = "show_row"
    /\ IF db[pkg[w]] = None
         THEN Finish(w)
         ELSE /\ buf' = [buf EXCEPT ![w] = db[pkg[w]]]
              /\ Goto(w, "show_doc")
              /\ UNCHANGED <<lock, kind, arg, stamp, tx>>
    /\ UNCHANGED <<db, used, solr, pend, clock, pkg, todo>>

\* search.show, and package_dictize when the document is not usable.
ShowDoc(w) ==
    /\ pc[w] = "show_doc"
    /\ buf' = [buf EXCEPT ![w] = IF CacheHit(solr[pkg[w]], buf[w]) THEN solr[pkg[w]]
                                 ELSE Join(buf[w], db[pkg[w]])]
    /\ Goto(w, "shown")
    /\ UNCHANGED <<stores, request, clock, stamp, tx>>

\* The dictionary goes to the client, or package_patch goes on with it.
Reply(w) ==
    /\ pc[w] = "shown"
    /\ IF kind[w] = "patch"
         THEN Goto(w, "stamp") /\ UNCHANGED <<local, lock>>
         ELSE Finish(w)
    /\ UNCHANGED <<db, used, solr, pend, clock, pkg, todo>>

-----------------------------------------------------------------------------
(***************************************************************************)
(* The requests that write to the database.                                *)
(***************************************************************************)

\* utcnow() is evaluated before the UPDATE that carries it waits for the row.
Stamp(w) ==
    /\ pc[w] = "stamp"
    /\ clock' = clock + 1
    /\ stamp' = [stamp EXCEPT ![w] = clock + 1]
    /\ Goto(w, "write")
    /\ UNCHANGED <<stores, request, buf, tx>>

\* The dictionary package_dict_save is given.  The state is kept only for an
\* administrator of the dataset (ignore_not_package_admin).
Saved(w, admin) ==
    IF kind[w] = "patch"
      THEN [f \in EditFields \cup (IF admin THEN {"state"} ELSE {}) |->
              IF f \in DOMAIN arg[w] THEN arg[w][f] ELSE buf[w][f]]
      ELSE arg[w]

\* A Member row is written only when the membership changes.
Written(d, r) == {f \in DOMAIN d : f = "groups" => d[f] # r[f]}

\* Mutant of EditDelta: an edit leaves metadata_modified as it is.
EditDeltaUnstamped(w, admin) ==
    LET d == Saved(w, admin)
    IN  [f \in Written(d, db[pkg[w]]) |-> d[f]]

EditDelta(w, admin) ==
    LET d == Saved(w, admin)
        r == db[pkg[w]]
    IN  [f \in Written(d, r) \cup {"mm"} |-> IF f = "mm" THEN stamp[w] ELSE d[f]]

NewRow(w) == [f \in Fields |-> CASE f = "mm" -> stamp[w]
                                 [] f = "state" -> "active"
                                 [] f = "rels" -> FALSE
                                 [] OTHER -> arg[w][f]]

PlainDelta(k) ==
    CASE k = "bulk_private"             -> [private |-> TRUE]
      [] k = "bulk_public"              -> [private |-> FALSE]
      [] k \in {"bulk_delete", "delete"} -> [state |-> "deleted"]
      [] k = "member_create"            -> [groups |-> TRUE]
      [] k = "member_delete"            -> [groups |-> FALSE]
      [] k = "relate"                   -> [rels |-> TRUE]

Delta(w, admin) == IF kind[w] = "create" THEN NewRow(w)
                   ELSE IF kind[w] \in EditKinds THEN EditDelta(w, admin)
                   ELSE PlainDelta(kind[w])

\* Mutant of Notified: the deletion of a dataset does not reach the plugin.
NotifiedOfEdits(k) == k \in EditKinds \cup MemberKinds

\* bulk updates are sent to the database without the unit of work, and a
\* PackageRelationship has no related_packages: neither reaches the plugin.
Notified(k) == k \in EditKinds \cup MemberKinds \cup {"delete"}

\* The statements of the request are sent: the row is locked, the session
\* refreshed from it.
Write(w) ==
    LET p == pkg[w]
        k == kind[w]
    IN  /\ pc[w] = "write"
        /\ k \in LockKinds => lock[p] = None
        /\ k = "create" => db[p] = None
        /\ \E admin \in BOOLEAN :
             tx' = [tx EXCEPT ![w] = Delta(w, admin)]
        /\ lock' = IF k \in LockKinds THEN [lock EXCEPT ![p] = w] ELSE lock
        /\ Goto(w, IF Notified(k) THEN "index" ELSE "commit")
        /\ UNCHANGED <<db, used, solr, pend, clock, request, buf, stamp>>

\* Mutant of CreateClash: the INSERT waits for ever.
CreateClashNever(w) == FALSE

\* The name was taken meanwhile: the INSERT fails on the unique index.
CreateClash(w) ==
    /\ pc[w] = "write" /\ kind[w] = "create"
    /\ lock[pkg[w]] = None /\ db[pkg[w]] # None
    /\ Finish(w)
    /\ UNCHANGED <<db, used, solr, pend, clock, pkg, todo>>

\* before_commit: SynchronousSearchPlugin.notify.  The package of a member
\* request was loaded before, and the session does not load it again.
NotifyIndex(w) ==
    /\ pc[w] = "index"
    /\ IndexPackage(pkg[w], IF kind[w] \in MemberKinds THEN Join(buf[w], View(w))
                            ELSE View(w))
    /\ Goto(w, "commit")
    /\ UNCHANGED <<db, used, lock, clock, request, buf, stamp, tx>>

\* The database commits.  A move committed the change of the old Member row
\* (member_obj.save()) and still has the new one to add.
Commit(w) ==
    /\ pc[w] = "commit"
    /\ db' = [db EXCEPT ![pkg[w]] = View(w)]
    /\ used' = [used EXCEPT ![pkg[w]] = @ \cup {View(w).mm}]
    /\ IF kind[w] \in {"move"} \cup BulkKinds
         THEN /\ Goto(w, IF kind[w] = "move" THEN "again" ELSE "fetch")
              /\ buf' = [buf EXCEPT ![w] = View(w)]
              /\ tx' = [tx EXCEPT ![w] = EmptyTx]
              /\ Unlock(w)
              /\ UNCHANGED <<kind, arg, stamp>>
         ELSE Finish(w)
    /\ UNCHANGED <<solr, pend, clock, pkg, todo>>

\* The second commit of a move indexes the dataset again, from the package
\* the session still holds.
IndexAgain(w) ==
    /\ pc[w] = "again"
    /\ IndexPackage(pkg[w], Join(buf[w], db[pkg[w]]))
    /\ Finish(w)
    /\ UNCHANGED <<db, used, clock, pkg, todo>>

-----------------------------------------------------------------------------
(***************************************************************************)
(* _bulk_update_dataset after its commit.                                  *)
(***************************************************************************)
BulkFetch(w) ==
    /\ pc[w] = "fetch"
    /\ buf' = [buf EXCEPT ![w] = solr[pkg[w]]]
    /\ Goto(w, IF solr[pkg[w]] = None THEN "flush" ELSE "patch")
    /\ UNCHANGED <<stores, clock, request, stamp, tx>>

\* The document as it was found in the index, with the new value.
BulkPatch(w) ==
    /\ pc[w] = "patch"
    /\ IndexDeferred(pkg[w], Overlay(PlainDelta(kind[w]), buf[w]))
    /\ Goto(w, "flush")
    /\ UNCHANGED <<db, used, lock, clock, request, buf, stamp, tx>>

\* PackageSearchIndex.commit, at the end of a bulk update or of a rebuild.
CommitIndex(w) ==
    /\ pc[w] = "flush"
    /\ solr' = Visible
    /\ pend' = [p \in Packages |-> None]
    /\ Finish(w)
    /\ UNCHANGED <<db, used, clock, pkg, todo>>

-----------------------------------------------------------------------------
(***************************************************************************)
(* search.rebuild of one dataset, and of all of them.                      *)
(***************************************************************************)
\* Mutant of RebuildList: only the public datasets are listed.
RebuildListPublic(w) ==
    /\ pc[w] = "list"
    /\ todo' = [todo EXCEPT ![w] = {p \in Packages :
                  db[p] # None /\ db[p].state # "deleted" /\ ~ db[p].private}]
    /\ Goto(w, "clear")
    /\ UNCHANGED <<stores, clock, kind, pkg, arg, buf, stamp, tx>>

\* With -o, only the datasets that are not in the index; with -o or -r, the
\* index is not cleared.
RebuildList(w) ==
    /\ pc[w] = "list"
    /\ \E option \in {"all", "refresh", "only_missing"} :
         /\ todo' = [todo EXCEPT ![w] =
                       {p \in Packages : /\ db[p] # None /\ db[p].state # "deleted"
                                         /\ option = "only_missing" => solr[p] = None}]
         /\ Goto(w, IF option = "all" THEN "clear" ELSE "next")
    /\ UNCHANGED <<stores, clock, kind, pkg, arg, buf, stamp, tx>>

RebuildClear(w) ==
    /\ pc[w] = "clear"
    /\ solr' = [p \in Packages |-> None]
    /\ pend' = [p \in Packages |-> None]
    /\ Goto(w, "next")
    /\ UNCHANGED <<db, used, lock, clock, request, buf, stamp, tx>>

RebuildNext(w) ==
    /\ pc[w] = "next"
    /\ \/ /\ todo[w] = {}
          /\ Goto(w, "flush")
          /\ UNCHANGED <<pkg, todo>>
       \/ \E p \in todo[w] :
            /\ todo' = [todo EXCEPT ![w] = @ \ {p}]
            /\ pkg' = [pkg EXCEPT ![w] = p]
            /\ Goto(w, "get")
    /\ UNCHANGED <<stores, clock, local>>

\* model.Package.get, by a scan of the index or by a member request, which
\* ends here when the dataset is already in the group, or out of it.
GetRow(w) ==
    /\ pc[w] = "get"
    /\ IF kind[w] \in MemberKinds /\ db[pkg[w]].groups = PlainDelta(kind[w]).groups
         THEN Finish(w)
         ELSE /\ buf' = [buf EXCEPT ![w] = db[pkg[w]]]
              /\ Goto(w, IF kind[w] \in ScanKinds THEN "get_related" ELSE "write")
              /\ UNCHANGED <<lock, kind, arg, stamp, tx>>
    /\ UNCHANGED <<db, used, solr, pend, clock, pkg, todo>>

GetRelated(w) ==
    /\ pc[w] = "get_related"
    /\ buf' = [buf EXCEPT ![w] = Join(buf[w], db[pkg[w]])]
    /\ Goto(w, IF kind[w] = "reindex" THEN "remove" ELSE "insert")
    /\ UNCHANGED <<stores, clock, request, stamp, tx>>

Remove(w) ==
    /\ pc[w] = "remove"
    /\ solr' = [Visible EXCEPT ![pkg[w]] = None]
    /\ pend' = [p \in Packages |-> None]
    /\ Goto(w, "insert")
    /\ UNCHANGED <<db, used, lock, clock, request, buf, stamp, tx>>

\* package_index.update_dict, deferred by a rebuild of all the datasets.
Insert(w) ==
    /\ pc[w] = "insert"
    /\ IF kind[w] = "rebuild"
         THEN /\ IndexDeferred(pkg[w], buf[w])
              /\ Goto(w, "next")
              /\ buf' = [buf EXCEPT ![w] = None]
              /\ UNCHANGED <<lock, kind, arg, stamp, tx>>
         ELSE IndexPackage(pkg[w], buf[w]) /\ Finish(w)
    /\ UNCHANGED <<db, used, clock, pkg, todo>>

-----------------------------------------------------------------------------
\* Solr refuses a call (SearchIndexError), the commit fails, or the worker is
\* killed: the transaction is rolled back, what reached Solr stays there.
Abort(w) ==
    /\ Faults
    /\ pc[w] # "idle"
    /\ Finish(w)
    /\ UNCHANGED <<db, used, solr, pend, clock, pkg, todo>>

Step(w) ==
    \/ ShowRow(w) \/ ShowDoc(w) \/ Reply(w)
    \/ Stamp(w) \/ CreateClash(w) \/ NotifyIndex(w) \/ Commit(w) \/ IndexAgain(w)
    \/ BulkFetch(w) \/ BulkPatch(w) \/ CommitIndex(w)
    \/ RebuildList(w) \/ RebuildClear(w) \/ RebuildNext(w)
    \/ GetRow(w) \/ GetRelated(w) \/ Remove(w) \/ Insert(w)

Next == \E w \in Workers : Start(w) \/ Write(w) \/ Step(w) \/ Abort(w)

FirstRow == [title |-> 0, private |-> FALSE, state |-> "active", mm |-> 0,
             body |-> 0, groups |-> FALSE, rels |-> FALSE]

\* Some of the datasets exist and are indexed.
Init ==
    /\ db \in [Packages -> {None, FirstRow}]
    /\ used = [p \in Packages |-> IF db[p] = None THEN {} ELSE {db[p].mm}]
    /\ solr = db
    /\ lock = [p \in Packages |-> None]
    /\ pend = [p \in Packages |-> None]
    /\ clock = 0
    /\ pc = [w \in Workers |-> "idle"]
    /\ kind = [w \in Workers |-> "show"]
    /\ pkg \in [Workers -> Packages]
    /\ arg = [w \in Workers |-> EmptyTx]
    /\ todo = [w \in Workers |-> {}]
    /\ buf = [w \in Workers |-> None]
    /\ stamp = [w \in Workers |-> 0]
    /\ tx = [w \in Workers |-> EmptyTx]

Spec == Init /\ [][Next]_vars

\* A worker that has a request goes on with it; a transaction that waits for a
\* row gets it in the end (PostgreSQL queues the waiters).
FairSpec == /\ Spec
            /\ \A w \in Workers : WF_vars(Step(w)) /\ SF_vars(Write(w))
-----------------------------------------------------------------------------
(***************************************************************************)
(* Properties.                                                             *)
(***************************************************************************)

Labels == {"idle", "show_row", "show_doc", "shown", "stamp", "write", "index",
           "commit", "again", "fetch", "patch", "flush", "list", "clear", "next",
           "get", "get_related", "remove", "insert"}

StoresTypeOK ==
    /\ db \in [Packages -> Rows \cup {None}]
    /\ used \in [Packages -> SUBSET Nat]
    /\ solr \in [Packages -> Rows \cup {None}]
    /\ pend \in [Packages -> Rows \cup {None}]
    /\ lock \in [Packages -> Workers \cup {None}]
    /\ clock \in Nat

WorkerTypeOK(w) ==
    /\ pc[w] \in Labels
    /\ kind[w] \in AllKinds
    /\ pkg[w] \in Packages
    /\ Partial(arg[w])
    /\ todo[w] \subseteq Packages
    /\ buf[w] \in Rows \cup {None}
    /\ stamp[w] \in Nat
    /\ Partial(tx[w])

\* The values the variables take; in particular whatever the interleaving, the
\* rows and the documents are complete: no field is missing.
TypeOK ==
    /\ StoresTypeOK
    /\ pc = [w \in Workers |-> pc[w]]
    /\ kind = [w \in Workers |-> kind[w]]
    /\ pkg = [w \in Workers |-> pkg[w]]
    /\ arg = [w \in Workers |-> arg[w]]
    /\ todo = [w \in Workers |-> todo[w]]
    /\ buf = [w \in Workers |-> buf[w]]
    /\ stamp = [w \in Workers |-> stamp[w]]
    /\ tx = [w \in Workers |-> tx[w]]
    /\ \A w \in Workers : WorkerTypeOK(w)

\* What package_show serves from the index is what the database holds: a
\* document that carries the metadata_modified of the row (the test of
\* package_show) carries the same metadata, whatever was indexed by a
\* transaction that never committed, or late by a scan of the index.
CacheHonest ==
    \A p \in Packages : db[p] # None /\ CacheHit(solr[p], db[p]) => solr[p] = db[p]

\* A dictionary that package_show returned, and that the request then edits and
\* writes back, has the metadata_modified of the row only when it is the row:
\* its package columns and its related rows may come from two commits, but
\* then it does not pass for the current version.
ReplyHonest ==
    \A w \in Workers :
        pc[w] = "shown" /\ buf[w].mm = db[pkg[w]].mm => buf[w] = db[pkg[w]]

\* When an edit or a deletion commits, the index shows exactly what it
\* committed: no other request has overwritten the document between the
\* indexing in before_commit and the commit.
CommitIsIndexed ==
    [][\A w \in Workers :
         LET p == pkg[w] IN
         Commit(w) /\ Notified(kind[w]) =>
           solr[p] = IF db'[p].state = "deleted" THEN None ELSE db'[p]]_vars

Quiet == \A w \in Workers : pc[w] = "idle"

\* When no request is in progress, the index holds the committed metadata of
\* every dataset that is not deleted and nothing else.
IndexSettled ==
    Quiet => \A p \in Packages :
               solr[p] = IF db[p] = None THEN None
                         ELSE IF db[p].state = "deleted" THEN None ELSE db[p]

\* The weaker promise that remains when bulk updates, relationships, member
\* requests and scans of the index take part: no dataset is lost from the
\* index, and no document added by a bulk update stays invisible.
IndexComplete ==
    Quiet => \A p \in Packages : /\ pend[p] = None
                                 /\ db[p] # None /\ db[p].state = "active" => solr[p] # None

\* However deletions, bulk deletions and edits interleave, the index ends up
\* without the deleted datasets: none is left as a ghost that a search finds.
NoGhosts ==
    Quiet => \A p \in Packages :
               db[p] # None /\ db[p].state = "deleted" => solr[p] = None

\* A patch changes the fields it was given and metadata_modified, and leaves
\* every other field as it is when the patch commits.
PatchLeavesOthers ==
    [][\A w \in Workers :
         Commit(w) /\ kind[w] = "patch" =>
           \A f \in EditFields \ DOMAIN arg[w] : db'[pkg[w]][f] = db[pkg[w]][f]]_vars

\* The readers of package_show have a register of each dataset, although what
\* they are served comes from two stores that are not changed together: while a
\* transaction is between its two commits they are served the old metadata, and
\* the new when the database has committed.
Register == INSTANCE DatasetRegister WITH value <- Served
ImplementsRegister == Register!Spec

\* Every request is answered.
RequestsFinish == \A w \in Workers : pc[w] # "idle" ~> pc[w] = "idle"
=============================================================================
