------------------------------- MODULE Listings -------------------------------
(***************************************************************************)
(* What the lists of a portal show: searches and lists of datasets, the     *)
(* datasets and counts of groups, organizations and accounts.  Some of them *)
(* ask the database, some the index, some both, and each states anew what   *)
(* its reader may see.                                                     *)
(*                                                                         *)
(* A document holds the names of the groups of its dataset.  Requests that  *)
(* write a dataset or its membership index it anew; one that renames a      *)
(* group does not.                                                         *)
(*                                                                         *)
(* Abstractions: a request is one step and who may make it is left to       *)
(* Authorization; what interleaves is the subject of DatasetIndex.  Results *)
(* are sets.  The two lists that take a limit are cut to it, or to the ten  *)
(* rows of a search that is given none; the others fit in the rows they ask *)
(* for, 1000 and 50 for an account.  Which datasets a page holds depends on *)
(* the order of the index, which is left open.  Organizations stay as they  *)
(* are, and have no hierarchy.                                              *)
(***************************************************************************)
EXTENDS Naturals, FiniteSets

CONSTANTS
    Packages,     \* datasets
    Groups,       \* groups
    Names,        \* names of groups
    Orgs,         \* organizations
    Users,        \* accounts
    Sysadmins,    \* the accounts with the sysadmin flag
    Editors,      \* of each organization, the accounts with a role in it
    CreatorOf,    \* the account that created a dataset
    TagsOf,       \* the tags of a dataset
    ResourcesOf,  \* its active resources
    Managers,     \* of each group, the accounts with a role that may manage it
    DefaultRows,  \* the rows of a search that is given no number of them: ten
    None

VARIABLES
    pkg,          \* owner_org, private and state of each dataset, or None
    gname,        \* the name of each group, or None
    gstate,       \* its state
    row,          \* the datasets with an active row in the member table
    doc,          \* the document of each dataset in the index, or None
    renamed       \* history: names that renamed groups took or gave up since the last rebuild

vars == <<pkg, gname, gstate, row, doc, renamed>>

Actors == Users \cup {None}
PackageRecords == [owner: Orgs \cup {None}, private: BOOLEAN,
                   state: {"draft", "active", "deleted"}]

TypeOK ==
    /\ \A p \in Packages : pkg[p] # None => pkg[p] \in PackageRecords
    /\ \A g, h \in Groups : gname[g] = gname[h] => g = h \/ gname[g] = None
    /\ gname \in [Groups -> Names \cup {None}]
    /\ gstate \in [Groups -> {"active", "deleted"}]
    /\ row \in [Groups -> SUBSET Packages]
    /\ \A p \in Packages : doc[p] # None =>
         doc[p] \in [owner: Orgs \cup {None}, capacity: {"private", "public"},
                     state: {"draft", "active"}, groups: SUBSET Names]
    /\ renamed \subseteq Names

Init ==
    /\ pkg = [p \in Packages |-> None]
    /\ gname = [g \in Groups |-> None]
    /\ gstate = [g \in Groups |-> "active"]
    /\ row = [g \in Groups |-> {}]
    /\ doc = [p \in Packages |-> None]
    /\ renamed = {}

-----------------------------------------------------------------------------
(***************************************************************************)
(* Requests.                                                               *)
(***************************************************************************)

\* package_dictize: the groups of a dataset are those it has an active row in,
\* deleted ones among them.
GroupsOf(p, rows) == {g \in Groups : p \in rows[g]}

\* index_package: what is deleted has no document.
DocumentOf(p, package, names, rows) ==
    IF package = None \/ package.state = "deleted" THEN None
    ELSE [owner |-> package.owner, state |-> package.state,
          capacity |-> IF package.private THEN "private" ELSE "public",
          groups |-> {names[g] : g \in GroupsOf(p, rows)}]

Indexed(ps) ==
    doc' = [p \in Packages |-> IF p \in ps THEN DocumentOf(p, pkg'[p], gname', row') ELSE doc[p]]

\* datasets_with_no_organization_cannot_be_private: a dataset that a request makes private has
\* an organization or had one, which the request may take away; what it omits stays.
MayBe(record, old) ==
    record.private =>
        record.owner # None \/ (old # None /\ (old.private \/ old.owner # None))

\* package_create and package_update, with the groups they are given.
PackageSave(p, record, gs) ==
    /\ pkg[p] = None => record.state # "deleted"
    /\ MayBe(record, pkg[p])
    /\ pkg' = [pkg EXCEPT ![p] = record]
    /\ row' = [g \in Groups |-> IF g \in gs THEN row[g] \cup {p} ELSE row[g] \ {p}]
    /\ UNCHANGED <<gname, gstate, renamed>>
    /\ Indexed({p})

PackageDelete(p) ==
    /\ pkg[p] # None
    /\ pkg' = [pkg EXCEPT ![p].state = "deleted"]
    /\ UNCHANGED <<gname, gstate, row, renamed>>
    /\ Indexed({p})

GroupCreate(g, n, ps) ==
    /\ gname[g] = None /\ \A h \in Groups : gname[h] # n
    /\ gname' = [gname EXCEPT ![g] = n]
    /\ row' = [row EXCEPT ![g] = ps]
    /\ UNCHANGED <<pkg, gstate, renamed>>
    /\ Indexed(ps)

\* group_update: group_dict_save indexes the datasets that were added or removed.
GroupUpdate(g, n, state, ps) ==
    /\ gname[g] # None /\ \A h \in Groups \ {g} : gname[h] # n
    /\ gname' = [gname EXCEPT ![g] = n]
    /\ gstate' = [gstate EXCEPT ![g] = state]
    /\ row' = [row EXCEPT ![g] = ps]
    /\ renamed' = IF gname[g] = n THEN renamed ELSE renamed \cup {gname[g], n}
    /\ UNCHANGED pkg
    /\ Indexed((ps \ row[g]) \cup (row[g] \ ps))

\* group_delete: the rows are matched with the identifier of the request, and
\* a name matches none; the datasets of the rows are indexed.
GroupDelete(g, reference) ==
    /\ gname[g] # None
    /\ gstate' = [gstate EXCEPT ![g] = "deleted"]
    /\ row' = [row EXCEPT ![g] = IF reference = "id" THEN {} ELSE @]
    /\ UNCHANGED <<pkg, gname, renamed>>
    /\ Indexed(row[g] \ row'[g])

MemberCreate(g, p) ==
    /\ gname[g] # None /\ pkg[p] # None /\ p \notin row[g]
    /\ row' = [row EXCEPT ![g] = @ \cup {p}]
    /\ UNCHANGED <<pkg, gname, gstate, renamed>>
    /\ Indexed({p})

MemberDelete(g, p) ==
    /\ p \in row[g]
    /\ row' = [row EXCEPT ![g] = @ \ {p}]
    /\ UNCHANGED <<pkg, gname, gstate, renamed>>
    /\ Indexed({p})

\* paster search-index rebuild.
Rebuild ==
    /\ renamed' = {}
    /\ UNCHANGED <<pkg, gname, gstate, row>>
    /\ Indexed(Packages)

Next ==
    \/ \E p \in Packages :
         \/ \E record \in PackageRecords, gs \in SUBSET {g \in Groups : gname[g] # None} :
              PackageSave(p, record, gs)
         \/ PackageDelete(p)
    \/ \E g \in Groups :
         \/ \E n \in Names, ps \in SUBSET {p \in Packages : pkg[p] # None} :
              \/ GroupCreate(g, n, ps)
              \/ \E state \in {"active", "deleted"} : GroupUpdate(g, n, state, ps)
         \/ \E reference \in {"id", "name"} : GroupDelete(g, reference)
         \/ \E p \in Packages : MemberCreate(g, p) \/ MemberDelete(g, p)
    \/ Rebuild

Spec == Init /\ [][Next]_vars

-----------------------------------------------------------------------------
(***************************************************************************)
(* Searches.                                                               *)
(***************************************************************************)
InState(p, state) == pkg[p] # None /\ pkg[p].state = state

\* PackageSearchQuery.run: of the documents fq lets through, those of active datasets
\* unless fq says something about the state.
Run(ps, drafts) ==
    {p \in ps : doc[p] # None /\ (doc[p].state = "active" \/ p \in drafts)}

\* include_drafts: sysadmins find all drafts, others those they created.
Drafts(a) ==
    {p \in Packages : a \in Sysadmins \/ (a # None /\ CreatorOf[p] = a)}

\* Mutant of Search: the flag of the context does not matter.
SearchAll(ps, ignore_capacity_check, drafts) ==
    {p \in Run({q \in ps : doc[q] # None}, drafts) : InState(p, "active") \/ InState(p, "draft")}

\* package_search: what is no longer in the database is left out.
Search(ps, ignore_capacity_check, drafts) ==
    {p \in Run({q \in ps : doc[q] # None /\ (ignore_capacity_check \/ doc[q].capacity = "public")},
               drafts) :
       InState(p, "active") \/ InState(p, "draft")}

\* has_user_permission_for_group_or_org(org, user, 'read').
Reads(a, o) == a \in Sysadmins \/ a \in Editors[o]

Owned(o) == {p \in Packages : doc[p] # None /\ doc[p].owner = o}
Named(n) == {p \in Packages : doc[p] # None /\ n \in doc[p].groups}

PackageList == {p \in Packages : InState(p, "active") /\ ~ pkg[p].private}

\* package_autocomplete, of a text that all of ps match, and its limit.
PackageAutocomplete(ps, limit) ==
    {found \in SUBSET {p \in ps : InState(p, "active") /\ ~ pkg[p].private} :
       \/ Cardinality(found) = limit
       \/ Cardinality(found) < limit /\ found = {p \in ps : InState(p, "active") /\ ~ pkg[p].private}}

\* The resources that match all terms, and the count that goes with any page of them.
ResourceSearch(matching) ==
    LET public == {p \in Packages : InState(p, "active") /\ ~ pkg[p].private}
        found == {f \in public \X matching : f[2] \in ResourcesOf[f[1]]}
    IN  [count |-> Cardinality(found), results |-> found]

\* The rows of a search: the schema drops a number that is None.
RowsOf(limit) == IF limit = None THEN DefaultRows ELSE limit

\* The sizes of the pages of n results.
PageSize(n, rows, start) ==
    IF n =< start THEN 0 ELSE IF n - start =< rows THEN n - start ELSE rows

\* The pages that a search for active datasets may return, of documents in any order; what
\* is no longer in the database is left out of the page.
SearchPages(ps, rows, start) ==
    LET found == Run(ps, {})
    IN  {Search(page, TRUE, {}) : page \in
           {some \in SUBSET found : Cardinality(some) = PageSize(Cardinality(found), rows, start)}}

\* current_package_list_with_resources: a page of at most limit, or of ten.
CurrentPackageList(a, limit, offset) ==
    SearchPages(IF a \in Sysadmins THEN Packages
                ELSE {p \in Packages : doc[p] # None /\ doc[p].capacity = "public"},
                RowsOf(limit), offset)

\* group_dictize: the datasets of a group or an organization.
OrganizationShow(o, ignore_capacity_check) == Search(Owned(o), ignore_capacity_check, {})
GroupShow(g) == Search(Named(gname[g]), FALSE, {})

\* group_package_show asks package_search itself, for a page of at most limit, or of ten.
GroupPackageShow(g, limit) ==
    SearchPages({p \in Named(gname[g]) : doc[p].capacity = "public"}, RowsOf(limit), 0)

\* member_list: the active rows, whatever the state of what they name.
MemberList(g) == row[g]

\* organization_list with all_fields: the dictionary of each organization is made with one
\* context, and the flag that was set for one of them stays for those after it.
OrganizationList(a, order) ==
    [i \in DOMAIN order |-> OrganizationShow(order[i], \E j \in 1 .. i : Reads(a, order[j]))]

\* get_group_dataset_counts: the facets of a search for what is public.
Facet(ps) == Cardinality({p \in Run(ps, {}) : doc[p].capacity = "public"})

TagShow(t) == {p \in Run({q \in Packages : t \in TagsOf[q]}, {}) : doc[p].capacity = "public"}

Own(a, u) == a \in Sysadmins \/ (a # None /\ a = u)

\* user_show: the datasets of an account, and the number that is shown with them.
Created(u) == {p \in Packages : CreatorOf[p] = u}
UserShow(a, u) == Search(Created(u), Own(a, u), IF Own(a, u) THEN Drafts(a) ELSE {})
NumberCreated(u, include_private_and_draft) ==
    Cardinality({p \in Created(u) : IF include_private_and_draft
                                      THEN InState(p, "active") \/ InState(p, "draft")
                                      ELSE p \in PackageList})

\* user_list: the numbers that are shown with the accounts.
UserList == [u \in Users |-> NumberCreated(u, FALSE)]

\* group_list: sorted by the number of datasets, it has the groups with some.
GroupList == {g \in Groups : gname[g] # None /\ gstate[g] = "active"}
GroupListByCount == {g \in GroupList : \E p \in row[g] : InState(p, "active")}

\* group_list_authz with available_only: the groups that a may add a dataset to.
GroupListAuthz(a, p) ==
    {g \in GroupList : a # None /\ (a \in Sysadmins \/ a \in Managers[g])} \ GroupsOf(p, row)

-----------------------------------------------------------------------------
(***************************************************************************)
(* Properties.                                                             *)
(***************************************************************************)

\* Whether package_show shows a dataset: one without organization, private or not.
Shows(a, p) ==
    \/ a \in Sysadmins
    \/ InState(p, "active") /\ (~ pkg[p].private \/ pkg[p].owner = None)
    \/ pkg[p] # None /\ pkg[p].owner # None /\ Reads(a, pkg[p].owner)
    \/ InState(p, "draft") /\ a # None /\ pkg[p].owner = None

Active == {p \in Packages : InState(p, "active")}
Anyone == {p \in Active : ~ pkg[p].private}
Limits == (0 .. Cardinality(Packages)) \cup {None}

\* The pages are of these datasets, and full unless there are no more of them.
ArePagesOf(pages, ps, limit, offset) ==
    \A page \in pages :
        page \subseteq ps /\ Cardinality(page) = PageSize(Cardinality(ps), RowsOf(limit), offset)

\* The lists agree with each other and with what package_show would show: whether they
\* read the database or the index, and whoever asks; a page, whatever its limit, or of the
\* ten that stand for no limit, holds as many of them as it may.  Organizations are counted
\* the same alone and in a list, for a reader of all of them or of none.
ListsAgree ==
    \A a \in Actors :
      /\ PackageList = Anyone /\ Search(Packages, FALSE, {}) = Anyone
      /\ \A limit \in Limits, offset \in 0 .. Cardinality(Packages) :
           ArePagesOf(CurrentPackageList(a, limit, offset),
                      IF a \in Sysadmins THEN Active ELSE Anyone, limit, offset)
      /\ \A o \in Orgs :
           /\ OrganizationShow(o, Reads(a, o)) =
                {p \in Active : pkg[p].owner = o /\ Shows(a, p)}
           /\ Facet(Owned(o)) = Cardinality(OrganizationShow(o, FALSE))
      /\ \A order \in {s \in [1 .. Cardinality(Orgs) -> Orgs] : \A o \in Orgs : \E i \in DOMAIN s : s[i] = o} :
           (\A o1, o2 \in Orgs : Reads(a, o1) = Reads(a, o2)) =>
             \A i \in DOMAIN order :
               OrganizationList(a, order)[i] = OrganizationShow(order[i], Reads(a, order[i]))
      /\ \A found \in PackageAutocomplete(Packages, 1) : found \subseteq Anyone /\ (found = {} => Anyone = {})
      /\ \A r \in UNION {ResourcesOf[p] : p \in Packages} :
           ResourceSearch({r}).count = Cardinality({p \in Search(Packages, FALSE, {}) : r \in ResourcesOf[p]})
      /\ \A u \in Users :
           /\ UserList[u] = Cardinality(UserShow(None, u))
           /\ Cardinality(UserShow(a, u)) = NumberCreated(u, Own(a, u))
           /\ \A p \in UserShow(a, u) : Shows(a, p) \/ CreatorOf[p] = a
      /\ \A t \in UNION {TagsOf[p] : p \in Packages} : TagShow(t) = {p \in Anyone : t \in TagsOf[p]}

\* A group lists its public datasets, and pages of them, whatever was saved and deleted, as
\* long as neither it nor a group that had its name was renamed since the index was rebuilt.
GroupsListTheirs ==
    \A g \in Groups : gname[g] \notin renamed \cup {None} =>
        /\ GroupShow(g) = MemberList(g) \cap Anyone
        /\ \A limit \in Limits : ArePagesOf(GroupPackageShow(g, limit), GroupShow(g), limit, 0)
        /\ \A a \in Actors, p \in GroupShow(g) : g \notin GroupListAuthz(a, p)
        /\ Facet(Named(gname[g])) = Cardinality(GroupShow(g))
        /\ gstate[g] = "active" /\ GroupShow(g) # {} => g \in GroupListByCount
=============================================================================
