-------------------------------- MODULE FreeTags --------------------------------
(***************************************************************************)
(* Free tags, those of no vocabulary: rows that come with the first dataset *)
(* that has them, and the lists and searches that read them.                *)
(*                                                                         *)
(* A request finds the row of each name it is given, or adds one, and       *)
(* commits later.  The unique constraint of the table is about name and    *)
(* vocabulary, and does not bind where the vocabulary is null.              *)
(*                                                                         *)
(* Abstractions: requests on one dataset wait for each other (their        *)
(* interleaving is in the module DatasetLists); a search is given the name  *)
(* it wants; a deleted dataset is one the index does not have.             *)
(***************************************************************************)
EXTENDS Naturals, FiniteSets, Functions

CONSTANTS
    Packages, Names, Workers,
    MaxTags,        \* bound on the rows of tag
    None

VARIABLES
    name,       \* of each row of tag: its name, or None before it is added and after
    rows,       \* package_tag: records [package, tag, active]
    gone,       \* the deleted datasets
    pc,         \* of each worker: idle, or at its commit
    req,        \* the dataset, the tags it has, the rows found or added for the names it
                \* is to have
    crossed     \* history: names that two requests brought at once

vars == <<name, rows, gone, pc, req, crossed>>

Ids == 1 .. MaxTags
NoRequest == [package |-> None, had |-> {}, found |-> <<>>, added |-> <<>>]
Tags == {i \in Ids : name[i] # None}
Found(q) == {q.found[n] : n \in DOMAIN q.found}
\* A number is free again when no row and no request has it.
Free == Ids \ (Tags \cup UNION {DOMAIN req[w].added \cup Found(req[w]) : w \in Workers})

TypeOK ==
    /\ name \in [Ids -> Names \cup {None}]
    /\ rows \subseteq [package : Packages, tag : Tags, active : BOOLEAN]
    /\ \A r, s \in rows : r.package = s.package /\ r.tag = s.tag => r = s
    /\ gone \subseteq Packages /\ crossed \subseteq Names
    /\ pc \in [Workers -> {"idle", "commit"}]

Init ==
    /\ name = [i \in Ids |-> None]
    /\ rows = {} /\ gone = {} /\ crossed = {}
    /\ pc = [w \in Workers |-> "idle"]
    /\ req = [w \in Workers |-> NoRequest]

-----------------------------------------------------------------------------
\* table_dict_save finds a row by name and vocabulary: any of those that are there.
Named(n) == {i \in Tags : name[i] = n}

\* Rows for the names that have one, and numbers for the others.
Choices(names) ==
    LET known == {n \in names : Named(n) # {}}
        first == {i \in Free : Cardinality({j \in Free : j < i}) < Cardinality(names \ known)}
    IN  [found : {f \in [known -> Tags] : \A n \in known : f[n] \in Named(n)},
         added : Bijection(first, names \ known)]

\* The tags of package_dictize.
ShownTags(p) == {r.tag : r \in {s \in rows : s.package = p /\ s.active}}

\* package_create and package_update, with a list of tags.
SaveTags(w, p, names) ==
    /\ pc[w] = "idle" /\ \A v \in Workers : req[v].package # p
    /\ \E c \in Choices(names) :
         req' = [req EXCEPT ![w] = [package |-> p, had |-> ShownTags(p), found |-> c.found,
                                    added |-> c.added]]
    /\ pc' = [pc EXCEPT ![w] = "commit"]
    /\ UNCHANGED <<name, rows, gone, crossed>>

Chosen(q) == (Found(q) \cap Tags) \cup DOMAIN q.added

\* Mutant of TagRows: a row of another tag of the same name is taken for one of those
\* that were chosen.
TagRowsByName(p, chosen, names) ==
    {r \in rows : r.package # p}
    \cup {[r EXCEPT !.active = names[r.tag] \in {names[i] : i \in chosen}] :
            r \in {s \in rows : s.package = p}}
    \cup {[package |-> p, tag |-> i, active |-> TRUE] :
            i \in {j \in chosen : \A r \in rows : r.package # p \/ r.tag # j}}

\* package_tag_list_save: rows that are not in the new list are marked deleted, those
\* that are there are active again, and the others are added.
TagRows(p, chosen, names) ==
    {r \in rows : r.package # p}
    \cup {[r EXCEPT !.active = r.tag \in chosen] : r \in {s \in rows : s.package = p}}
    \cup {[package |-> p, tag |-> i, active |-> TRUE] :
            i \in {j \in chosen : \A r \in rows : r.package # p \/ r.tag # j}}

Done(w) ==
    /\ pc' = [pc EXCEPT ![w] = "idle"]
    /\ req' = [req EXCEPT ![w] = NoRequest]

\* A row that was found and is deleted by now is refused by the foreign key, unless the
\* dataset had it: then nothing is written.
Commit(w) ==
    LET q == req[w]
        names == [i \in Ids |-> IF i \in DOMAIN q.added THEN q.added[i] ELSE name[i]]
    IN  /\ pc[w] = "commit"
        /\ Found(q) \ Tags \subseteq q.had
        /\ name' = names
        /\ rows' = TagRows(q.package, Chosen(q), names)
        /\ crossed' = crossed \cup ({q.added[i] : i \in DOMAIN q.added} \cap {name[i] : i \in Tags})
        /\ Done(w)
        /\ UNCHANGED gone

Abort(w) == pc[w] = "commit" /\ Done(w) /\ UNCHANGED <<name, rows, gone, crossed>>

\* tag_delete takes the row that the name finds, and its rows of package_tag.
TagDelete(n) ==
    \E i \in Named(n) :
      /\ name' = [name EXCEPT ![i] = None]
      /\ rows' = {r \in rows : r.tag # i}
      /\ UNCHANGED <<gone, pc, req, crossed>>

\* package_delete and an update that makes the dataset active again leave the rows alone.
SetState(p) ==
    /\ gone' = IF p \in gone THEN gone \ {p} ELSE gone \cup {p}
    /\ UNCHANGED <<name, rows, pc, req, crossed>>

Next ==
    \/ \E w \in Workers :
         \/ \E p \in Packages, names \in SUBSET Names : SaveTags(w, p, names)
         \/ Commit(w)
         \/ Abort(w)
    \/ \E n \in Names : TagDelete(n)
    \/ \E p \in Packages : SetState(p)

Spec == Init /\ [][Next]_vars

-----------------------------------------------------------------------------
(***************************************************************************)
(* What is read.                                                           *)
(***************************************************************************)
\* Tag.all: free tags with an active row.  Each row is a tag of the list.
TagList == {r.tag : r \in {s \in rows : s.active}}

\* tag_search and tag_autocomplete: free tags with a row.
TagSearch(n) == {i \in Named(n) : \E r \in rows : r.tag = i}

\* tag_list: all, or what a search finds when it is given a text.
TagListOf(n) == IF n = None THEN TagList ELSE TagSearch(n)

\* The datasets that tag_show asks the index for, by the name of the tag.
ShowPackages(n) == {p \in Packages \ gone : \E i \in ShownTags(p) : name[i] = n}

\* Tag.packages, which goes by the row and not by the dataset.
PackagesOfTag(i) == {r.package : r \in {s \in rows : s.tag = i /\ s.active}}

-----------------------------------------------------------------------------
(***************************************************************************)
(* Properties.                                                             *)
(***************************************************************************)
\* What is listed is found by a search; a tag page has the datasets that show the tag,
\* those of all the rows of its name; and a name is listed once, but for names that two
\* requests brought at once.
TagsAreFound ==
    /\ \A i \in TagListOf(None) : i \in TagListOf(name[i])
    /\ \A n \in Names : ShowPackages(n) = (UNION {PackagesOfTag(i) : i \in Named(n)}) \ gone
    /\ \A i, j \in TagList : name[i] = name[j] => i = j \/ name[i] \in crossed

\* A dataset has the names it was given, each of them once, whichever row was found, but
\* for one that was deleted meanwhile; a tag that is deleted is gone with its name, if it had only one row.
TagsAsGiven ==
    [][/\ \A w \in Workers : Commit(w) =>
            LET q == req[w]
                given == {n \in DOMAIN q.found : q.found[n] \in Tags}
                           \cup {q.added[i] : i \in DOMAIN q.added}
            IN  \E p \in Packages :
                  /\ p = q.package
                  /\ {name'[i] : i \in ShownTags(p)'} = given
                  /\ Cardinality(ShownTags(p)') = Cardinality(given)
       /\ \A n \in Names \ crossed : TagDelete(n) => \A i \in TagList' : name'[i] # n]_vars
=============================================================================
