------------------------------ MODULE Vocabularies ------------------------------
(***************************************************************************)
(* Vocabularies, their tags, and a dataset that has some of them.           *)
(*                                                                         *)
(* A request reads, and what it works out it flushes and commits in one     *)
(* transaction, where the constraints of the tables may refuse it: names of *)
(* vocabularies are unique, and names of tags in their vocabulary; a tag    *)
(* names a vocabulary that is there, a row of package_tag a tag that is.    *)
(*                                                                         *)
(* Abstractions: one dataset; its rows of package_tag that are marked       *)
(* deleted and free tags are left out (the module DatasetLists).           *)
(***************************************************************************)
EXTENDS Naturals, FiniteSets

CONSTANTS
    Vocabularies,  \* identifiers
    Names,         \* of vocabularies
    TagNames,
    Workers,
    MaxTags,       \* bound on the rows ever inserted into tag
    None, Gone

VARIABLES
    vocabulary,    \* its name, None before it is made, Gone when it was deleted
    tag,           \* rows: [name, vocab], None when deleted
    tags,          \* their number
    tagged,        \* the tags of the dataset
    pc, req,       \* of each worker: idle, valid or commit; and what it is to change
    clean          \* workers since whose start nothing was committed

vars == <<vocabulary, tag, tags, tagged, pc, req, clean>>

NoRequest == [kind |-> "none"]
Ids == {i \in 1 .. tags : tag[i] # None}
TagsOf(v) == {i \in Ids : tag[i].vocab = v}
Named(v, names) == {i \in TagsOf(v) : tag[i].name \in names}
NamesOf(v) == {tag[i].name : i \in TagsOf(v)}
Exists(v) == vocabulary[v] \in Names

TypeOK ==
    /\ vocabulary \in [Vocabularies -> Names \cup {None, Gone}]
    /\ tags \in 0 .. MaxTags
    /\ \A i \in Ids : tag[i].name \in TagNames /\ Exists(tag[i].vocab)
    /\ tagged \subseteq Ids
    /\ pc \in [Workers -> {"idle", "valid", "commit"}]
    /\ clean \subseteq Workers

Init ==
    /\ vocabulary = [v \in Vocabularies |-> None]
    /\ tag = [i \in 1 .. MaxTags |-> None]
    /\ tags = 0
    /\ tagged = {}
    /\ pc = [w \in Workers |-> "idle"]
    /\ req = [w \in Workers |-> NoRequest]
    /\ clean = {}

-----------------------------------------------------------------------------
(***************************************************************************)
(* Requests: what they read, and what they will change.  A change is a      *)
(* record of the vocabulary and its new name, of the tags to delete, of the *)
(* rows of package_tag that go with them, of the names to insert and of the *)
(* tags the dataset is to have.                                             *)
(***************************************************************************)
NoChange == [vocab |-> None, name |-> None, drop |-> {}, cascade |-> {}, insert |-> {},
             attach |-> {}, detach |-> {}]

Ask(w, kind, change) ==
    /\ pc[w] = "idle"
    /\ pc' = [pc EXCEPT ![w] = "commit"]
    /\ req' = [req EXCEPT ![w] = [kind |-> kind, change |-> change]]
    /\ clean' = clean \cup {w}
    /\ UNCHANGED <<vocabulary, tag, tags, tagged>>

\* Mutant of Listed: the tags are deleted and inserted again.
ListedAnew(v, names) ==
    [NoChange EXCEPT !.vocab = v, !.drop = TagsOf(v), !.cascade = TagsOf(v) \cap tagged,
                     !.insert = names]

\* vocabulary_tag_list_save: delete the tags that are not listed, insert the new ones.
Listed(v, names) ==
    LET gone == TagsOf(v) \ Named(v, names)
    IN  [NoChange EXCEPT !.vocab = v, !.drop = gone, !.cascade = gone \cap tagged,
                         !.insert = names \ NamesOf(v)]

NameIsFree(name) == \A v \in Vocabularies : vocabulary[v] # name

VocabularyCreate(w, v, name, names) ==
    /\ vocabulary[v] = None /\ NameIsFree(name)
    /\ Ask(w, "create", [Listed(v, names) EXCEPT !.name = name])

\* The name, the tags, or both: None is not given.  The name it has is left out.
VocabularyUpdate(w, v, name, names) ==
    LET change == IF names = None THEN [NoChange EXCEPT !.vocab = v] ELSE Listed(v, names)
    IN  /\ Exists(v)
        /\ name \in {None, vocabulary[v]} \/ NameIsFree(name)
        /\ pc[w] = "idle"
        /\ pc' = [pc EXCEPT ![w] = "commit"]
        /\ req' = [req EXCEPT ![w] =
              [kind |-> "update", names |-> names,
               change |-> [change EXCEPT !.name = IF name = vocabulary[v] THEN None ELSE name]]]
        /\ clean' = clean \cup {w}
        /\ UNCHANGED <<vocabulary, tag, tags, tagged>>

VocabularyDelete(w, v) ==
    /\ Exists(v)
    /\ Ask(w, "delete", [NoChange EXCEPT !.vocab = v])

TagCreate(w, v, name) ==
    /\ Exists(v) /\ name \notin NamesOf(v)
    /\ Ask(w, "tag", [NoChange EXCEPT !.vocab = v, !.insert = {name}])

\* The rows of package_tag of a tag go with it.
TagDelete(w, i) ==
    Ask(w, "tag", [NoChange EXCEPT !.vocab = tag[i].vocab, !.drop = {i}, !.cascade = {i} \cap tagged])

\* convert_to_tags: the tags a dataset is given have to be in the vocabulary ...
DatasetTags(w, v, names) ==
    /\ pc[w] = "idle"
    /\ Exists(v) /\ names \subseteq NamesOf(v)
    /\ pc' = [pc EXCEPT ![w] = "valid"]
    /\ req' = [req EXCEPT ![w] = [kind |-> "dataset", vocab |-> v, names |-> names]]
    /\ clean' = clean \cup {w}
    /\ UNCHANGED <<vocabulary, tag, tags, tagged>>

\* ... and package_tag_list_save looks them up again, and makes those it does not find.
SaveTags(w) ==
    LET r == req[w]
        found == Named(r.vocab, r.names)
    IN  /\ pc[w] = "valid"
        /\ pc' = [pc EXCEPT ![w] = "commit"]
        /\ req' = [req EXCEPT ![w] =
              [kind |-> "dataset",
               change |-> [NoChange EXCEPT !.vocab = r.vocab, !.insert = r.names \ NamesOf(r.vocab),
                                           !.attach = found \ tagged, !.detach = tagged \ found]]]
        /\ UNCHANGED <<vocabulary, tag, tags, tagged, clean>>

-----------------------------------------------------------------------------
(***************************************************************************)
(* The commit, if the constraints allow it.                                *)
(***************************************************************************)
\* What was to be updated must still be there; a DELETE of what is gone does not fail.
Allowed(kind, c) ==
    /\ kind = "create" => NameIsFree(c.name) /\ vocabulary[c.vocab] = None
    /\ kind = "update" => Exists(c.vocab) /\ (c.name = None \/ NameIsFree(c.name))
    /\ kind = "delete" => TagsOf(c.vocab) = {}
    /\ c.insert \cap {tag[i].name : i \in TagsOf(c.vocab) \ c.drop} = {}
    /\ kind # "create" /\ c.insert # {} => Exists(c.vocab)
    /\ c.attach \subseteq Ids /\ tagged \cap c.drop \subseteq c.cascade

Commit(w) ==
    LET kind == req[w].kind
        c == req[w].change
        new == tags + 1 .. tags + Cardinality(c.insert)
    IN  /\ pc[w] = "commit"
        /\ Allowed(kind, c)
        /\ tags + Cardinality(c.insert) =< MaxTags
        /\ vocabulary' =
             [vocabulary EXCEPT ![c.vocab] =
                IF kind = "delete" THEN Gone ELSE IF c.name # None THEN c.name ELSE @]
        /\ tags' = tags + Cardinality(c.insert)
        /\ \E name \in [new -> c.insert] :
             /\ \A n \in c.insert : \E i \in new : name[i] = n
             /\ tag' = [i \in DOMAIN tag |->
                          IF i \in c.drop THEN None
                          ELSE IF i \in new THEN [name |-> name[i], vocab |-> c.vocab] ELSE tag[i]]
        /\ tagged' = (tagged \ (c.cascade \cup c.detach)) \cup c.attach
                       \cup (IF kind = "dataset" THEN new ELSE {})
        /\ clean' = {}
        /\ pc' = [pc EXCEPT ![w] = "idle"] /\ req' = [req EXCEPT ![w] = NoRequest]

\* A constraint, another failure, the death of a worker.
Fail(w) ==
    /\ pc[w] # "idle"
    /\ pc' = [pc EXCEPT ![w] = "idle"] /\ req' = [req EXCEPT ![w] = NoRequest]
    /\ clean' = clean \ {w}
    /\ UNCHANGED <<vocabulary, tag, tags, tagged>>

Next ==
    \E w \in Workers :
      \/ \E v \in Vocabularies, name \in Names :
           \/ \E names \in SUBSET TagNames : VocabularyCreate(w, v, name, names)
      \/ \E v \in Vocabularies :
           \/ \E name \in Names \cup {None}, names \in (SUBSET TagNames) \cup {None} :
                VocabularyUpdate(w, v, name, names)
           \/ VocabularyDelete(w, v)
           \/ \E name \in TagNames : TagCreate(w, v, name)
           \/ \E names \in SUBSET TagNames : DatasetTags(w, v, names)
      \/ \E i \in Ids : TagDelete(w, i)
      \/ SaveTags(w)
      \/ Commit(w)
      \/ Fail(w)

Spec == Init /\ [][Next]_vars

-----------------------------------------------------------------------------
(***************************************************************************)
(* Properties.                                                             *)
(***************************************************************************)

\* After an update of a vocabulary that no other commit came across it has the tags
\* listed, and those it had before are the same tags: datasets keep them.
VocabularyAsListed ==
    [][\A w \in clean : req[w].kind = "update" /\ Commit(w) =>
         \A v \in {req[w].change.vocab}, names \in {req[w].names} \ {None} :
           /\ NamesOf(v)' = names
           /\ Named(v, names) \subseteq TagsOf(v)'
           /\ tagged' = {i \in tagged : tag[i].vocab = v => tag[i].name \in names}]_vars
=============================================================================
