------------------------------- MODULE MCServices -------------------------------
(***************************************************************************)
(* Values of the constants of Services for TLC.                            *)
(***************************************************************************)
EXTENDS Services, Sequences, TLC

CONSTANTS
    w1, w2,         \* workers
    x,              \* a page
    q1, q2          \* visitors, or processes: alike

\* The workers are interchangeable; so are visitors, and processes.
Alike == Permutations({w1, w2}) \cup Permutations({q1, q2})

\* What datastore_create, datastore_upsert and datastore_delete may be given.
Created(f, r, i, k, a) == [fields |-> f, records |-> r, indexes |-> i, key |-> k, aliases |-> a]
TheCreates ==
    {Created(<<"f1">>, <<>>, None, {"f1"}, None),
     Created(<<"f1", "f2">>, <<[f1 |-> 1, f2 |-> 2]>>, None, {"f1"}, {"a"}),
     Created(<<>>, <<[f1 |-> 1], [f1 |-> 2, f2 |-> 1]>>, None, None, None),
     Created(<<"f2">>, <<[f1 |-> 2]>>, {{"f1"}}, None, {"a"}),
     Created(<<>>, <<>>, {}, {"f1"}, {})}
TheRecords ==
    {<<[f1 |-> 1]>>, <<[f1 |-> 1, f2 |-> 1], [f1 |-> 2]>>,
     <<[f1 |-> 2, f2 |-> 2], [f1 |-> 2]>>, <<[f2 |-> 1]>>, <<[f1 |-> None], [f1 |-> 1]>>}
TheFilters == {None, [f \in {} |-> None], [f1 |-> 1], [f1 |-> 1, f2 |-> 2]}

\* What config_option_update may be asked for.
TheUpdates == {[k \in {"a"} |-> 1], [k \in {"a", "b"} |-> 2]}

\* The configuration file: empty, with options in several sections, with repeats of an
\* option, with a section that comes twice, with comments above all headings and inside the
\* continuations of a value.
Comment == [is |-> "comment"]
More == [is |-> "more"]
Section(s) == [is |-> "heading", section |-> s]
Opt(k, v, commented) == [is |-> "option", key |-> k, value |-> v, commented |-> commented]
Wish(s, k, v, commented) == [section |-> s, key |-> k, line |-> Opt(k, v, commented)]

TheFiles ==
    {<<>>, <<Comment>>,
     <<Opt("k", 1, TRUE), Section("app:main"), Opt("l", 1, FALSE), More>>,
     <<Section("app:main"), Opt("k", 1, TRUE), Comment, Opt("k", 2, FALSE), Opt("k", 1, FALSE)>>,
     <<Section("s"), Opt("k", 1, FALSE), Section("app:main"), Opt("k", 1, FALSE), More>>,
     <<Section("app:main"), Section("s"), Opt("l", 1, FALSE), Comment, More,
       Section("app:main"), Opt("k", 2, TRUE)>>}
TheWishes ==
    {<<Wish("app:main", "k", 1, FALSE)>>, <<Wish("app:main", "k", 2, FALSE)>>,
     <<Wish("app:main", "k", 1, TRUE)>>, <<Wish("s", "k", 2, FALSE)>>, <<Wish("s", "l", 1, TRUE)>>,
     <<Wish("s", "k", 1, FALSE), Wish("app:main", "l", 2, FALSE), Wish("t", "k", 1, FALSE)>>}

\* Validation: a field, and a list of up to two dictionaries, which the schema may know
\* or not.
Partial(S, V) == UNION {[D -> V] : D \in SUBSET S}
AnItem == Partial({"f", "g"}, {"", "1"})
SomeLists == {<<>>} \cup {[n \in {"l"} |-> items] : items \in {<<>>} \cup {<<i>> : i \in AnItem}
                                                   \cup {<<i, j>> : i, j \in AnItem}}
               \cup {[n \in {"a"} |-> <<[f |-> "1"]>>]}
TheInputs ==
    {d \in [plain : Partial({"a"}, {None, "", EmptyList, "1"}) \cup {[n \in {"l"} |-> "1"]},
            lists : SomeLists] : DOMAIN d.plain \cap DOMAIN d.lists = {}}

\* The rules of the field a and of f and g of the items; g may be unknown.
Rules(a, f, g, extras) ==
    [plain |-> [n \in {"a"} |-> a],
     lists |-> [n \in {"l"} |-> IF g = <<>> THEN [m \in {"f"} |-> f]
                                ELSE [m \in {"f", "g"} |-> IF m = "f" THEN f ELSE g]],
     extras |-> extras, itemExtras |-> extras, junk |-> "empty"]
TheSchemas ==
    {Rules(a, f, g, extras) :
       a \in {<<"ignore_missing">>, <<"ignore_empty">>, <<"default", "not_empty">>, <<>>},
       f \in {<<"not_missing">>, <<"not_empty">>, <<"empty">>},
       g \in {<<>>, <<"not_empty">>, <<"ignore">>}, extras \in {"keep_extras", "empty"}}

\* The parts that are not in the focus start in one state, not in each of theirs.
MCInit ==
    /\ ServicesInit
    /\ focus # "members" => \A p \in Packages, g \in Groups : pstate[p] = "active" /\ gstate[g] = "active"
    /\ focus # "store" => ~ private
    /\ focus # "views" => \A p \in Packages : name[p] = x

\* Drafts are left to the runs of Membership alone.
NoDrafts == \A w \in Workers : "state" \in DOMAIN req[w] => req[w].state # "draft"

\* What a request does to the rows of a table is one transaction: of two requests in the
\* DataStore at once, one creates a table or is about the dataset.
OneOnRows ==
    \A v, w \in Workers : v # w /\ storeReq[v].op \in {"insert", "upsert", "update", "delete"} =>
      storeReq[w].op \notin {"insert", "upsert", "update", "delete"}

MCSpec == MCInit /\ [][ServicesNext /\ NoDrafts' /\ OneOnRows']_all
=============================================================================
