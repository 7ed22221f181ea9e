--------------------------------- MODULE MCSite ---------------------------------
(***************************************************************************)
(* Values of the constants of Site for TLC.                                *)
(***************************************************************************)
EXTENDS Site, TLC

CONSTANTS
    w1, w2,         \* workers
    p1, p2,         \* datasets
    g1, o1, o2,     \* a group, organizations
    ann, bob, root, \* accounts, one of a sysadmin
    d1, d2          \* rows of accounts, or datasets: alike

Alike == Permutations({w1, w2}) \cup Permutations({d1, d2})

\* The index: one update takes the dataset out of the group.
OneUpdate == {[title |-> 1, private |-> FALSE, body |-> 1, groups |-> FALSE]}

\* Lists: two datasets, of an editor of one organization and of a sysadmin.
TheEditors == o1 :> {ann} @@ o2 :> {}
TheCreators == p1 :> ann @@ p2 :> root
TheTags == p1 :> {"t"} @@ p2 :> {}
TheResources == p1 :> {"r", "s"} @@ p2 :> {"t"}
TheManagers == g1 :> {ann}

\* Plugins that define what core or another defines too.
Names4(actions, auth, validators, helpers) ==
    "actions" :> actions @@ "auth" :> auth @@ "validators" :> validators @@ "helpers" :> helpers
TheCore == Names4({"show"}, {"show"}, {"int"}, {"url"})
TheDefinitions ==
    "x" :> Names4({"show"}, {"show"}, {"new"}, {}) @@ "y" :> Names4({}, {"show"}, {"int"}, {"url"})
      @@ "z" :> Names4({"show", "more"}, {"more"}, {}, {"url"})
TheTypes == "x" :> {"a"} @@ "y" :> {} @@ "z" :> {"a", "b"}

\* Translations: one term at a time, the same twice, both terms in either order.
Entry(t, lang, x) == [term |-> t, lang |-> lang, text |-> x]
TheEntries ==
    {<<Entry("title", "en", "x")>>, <<Entry("title", "fr", "x")>>, <<Entry("title", "fr", "y")>>,
     <<Entry("title", "fr", "y"), Entry("title", "fr", "x")>>,
     <<Entry("notes", "fr", "x"), Entry("title", "fr", "y")>>,
     <<Entry("title", "en", "y"), Entry("notes", "fr", "y")>>}

\* Roles of an account and of the visitors.
Of(u, r) == [user |-> u, roles |-> r]
TheRoles ==
    {<<Of(ann, {"admin"})>>, <<Of(ann, {"editor", "reader"})>>, <<Of(ann, {})>>,
     <<Of(bob, {"editor"}), Of(ann, {"admin", "reader"})>>}

TheDefaults == bob :> {"reader"}

\* The parts that are not in the focus start in one state, not in each of theirs.
MCInit ==
    /\ SiteInit
    /\ focus # "index" => db[p1] = None /\ pkg[w1] = p1
    /\ focus # "users" => account = [u \in Persons |-> None]

MCSpec == MCInit /\ [][SiteNext]_all
=============================================================================
