---------------------------------- MODULE Site ----------------------------------
(***************************************************************************)
(* What makes a portal out of its datasets: the index under requests that   *)
(* do not lock, the lists, the plugins, translations, roles, related items,  *)
(* accounts, the history of a dataset and free tags.                        *)
(*                                                                         *)
(* The parts share no state in these models, so that a product would only   *)
(* multiply it: each behaviour runs one of them, the focus, and the others  *)
(* stay in their initial states.                                            *)
(***************************************************************************)
EXTENDS DatasetIndex, Sequences

CONSTANTS
    Users,
    Listed, Groups, GroupNames, Orgs, Readers, Sysadmins,
    Editors, CreatorOf, TagsOf, ResourcesOf, Managers, DefaultRows,   \* Listings
    PlugIns, Unknown, Core, Defines, TypesOf, Fallbacks, MaxLoads,    \* Plugins
    Title, Notes, TermNames, Texts, Langs, DefaultLang,
    TermRequests, MaxTermRequests,                           \* Translations
    RoleObjects, RoleUsers, Creators, RoleNames, DefaultRoles,
    RoleRequests, MaxRoleRequests,                           \* Roles
    ItemNames, Contents, MaxItemRequests, Gone,              \* RelatedItems
    Persons, Names, SiteId, Passwords, MaxKeys,              \* Accounts
    Dataset, Parts, Values, MaxRevised,                      \* History
    Tagged, TagNames, MaxTags                                \* FreeTags

\* An item is neither missing nor gone; there are so many workers.
ASSUME ItemsAssumption ==
    /\ None # Gone /\ None \notin ItemNames \cup Packages
    /\ \A r \in [owner : Users, content : Contents] : r \notin {None, Gone}
    /\ IsFiniteSet(Workers)

\* The portal's own account has a name; the row of an account is never missing.
ASSUME AccountsAssumption ==
    /\ SiteId \in Names
    /\ None \notin [name : Names, password : [text : Passwords, old : BOOLEAN], key : Nat,
                    state : {"active", "deleted"}]

\* An update of roles names accounts and roles, one account at least.
ASSUME RolesAssumption ==
    RoleRequests \subseteq Seq([user : RoleUsers, roles : SUBSET RoleNames]) \ {<<>>}

\* There are so many datasets and organizations; None is no organization, account or name,
\* and a document is never missing.
ASSUME ListsAssumption ==
    /\ IsFiniteSet(Listed) /\ IsFiniteSet(Orgs) /\ DefaultRows \in Nat
    /\ None \notin Orgs \cup GroupNames \cup Sysadmins
    /\ None \notin [owner : Orgs \cup {None}, state : {"draft", "active"},
                    capacity : {"private", "public"}, groups : SUBSET (GroupNames \cup {None})]

\* A dataset has a title and notes; a request names terms, a term at least, and languages that
\* are known.
ASSUME TermsAssumption ==
    /\ {Title, Notes} \subseteq TermNames /\ DefaultLang \in Langs
    /\ TermRequests \subseteq Seq([term : TermNames, lang : Langs, text : Texts]) \ {<<>>}

\* Revisions are numbered up to a bound, and None is no content, with or without a revision.
ASSUME RevisionsAssumption ==
    MaxRevised \in Nat /\ None \notin Values \cup [revision : 1 .. MaxRevised, value : Values]

\* There are so many free tags, and None is the name of none.
ASSUME TagsAssumption == MaxTags \in Nat /\ None \notin TagNames

VARIABLE focus

\* Lists of datasets and of groups.
VARIABLES record, gname, gstate, inGroup, doc, renamed

Lists == INSTANCE Listings
           WITH pkg <- record, row <- inGroup, Packages <- Listed, Names <- GroupNames,
                Users <- Readers

\* Plugins that define what core or another defines too.
VARIABLES loaded, cache, forms, thread, loads, broken

Registry == INSTANCE Plugins WITH Plugins <- PlugIns, Threads <- Workers

\* Translations of terms.
VARIABLES texts, termPc, terms, sets, adds, asked, shown, started, termCrossed, fresh

Terms == INSTANCE Translations
           WITH rows <- texts, pc <- termPc, todo <- terms, doc <- shown, crossed <- termCrossed,
                Terms <- TermNames, Requests <- TermRequests, MaxRequests <- MaxTermRequests

\* Roles of accounts and of the visitors.
VARIABLES exists, count, rolePc, obj, roles, missing, added, unwanted, roleCrossed, stale, changes

Given == INSTANCE Roles
           WITH pc <- rolePc, todo <- roles, crossed <- roleCrossed, started <- changes,
                Objects <- RoleObjects, Users <- RoleUsers, Requests <- RoleRequests,
                MaxRequests <- MaxRoleRequests

\* Related items.
VARIABLES item, relation, package, logged, itemPc, itemReq, born, failed, requests

Items == INSTANCE RelatedItems
           WITH pc <- itemPc, req <- itemReq, broken <- failed, Items <- ItemNames,
                MaxRequests <- MaxItemRequests

\* Accounts.
VARIABLES account, nextKey, userPc, userReq, session, change, lastSet, userCrossed

People == INSTANCE Accounts
            WITH row <- account, pc <- userPc, req <- userReq, loaded <- session,
                 crossed <- userCrossed, Users <- Persons

\* The history of a dataset.
VARIABLES now, revisions, current, rows, savePc, saveReq, saveCrossed, holes

Past == INSTANCE History
          WITH clock <- now, pc <- savePc, req <- saveReq, crossed <- saveCrossed,
               Package <- Dataset, MaxTime <- MaxRevised

\* Free tags of datasets.
VARIABLES tagName, tagRows, deleted, tagPc, tagReq, crossed

Free == INSTANCE FreeTags
          WITH name <- tagName, rows <- tagRows, gone <- deleted, pc <- tagPc, req <- tagReq,
               Packages <- Tagged, Names <- TagNames

-----------------------------------------------------------------------------
listVars == <<record, gname, gstate, inGroup, doc, renamed>>
pluginVars == <<loaded, cache, forms, thread, loads, broken>>
termVars == <<texts, termPc, terms, sets, adds, asked, shown, started, termCrossed, fresh>>
roleVars == <<exists, count, rolePc, obj, roles, missing, added, unwanted, roleCrossed, stale, changes>>
itemVars == <<item, relation, package, logged, itemPc, itemReq, born, failed, requests>>
userVars == <<account, nextKey, userPc, userReq, session, change, lastSet, userCrossed>>
pastVars == <<now, revisions, current, rows, savePc, saveReq, saveCrossed, holes>>
tagVars == <<tagName, tagRows, deleted, tagPc, tagReq, crossed>>
all == <<vars, focus, listVars, pluginVars, termVars, roleVars, itemVars, userVars, pastVars,
         tagVars>>

\* A part that is not in the focus starts in one of its initial states.
SiteInit ==
    /\ focus \in {"index", "lists", "plugins", "terms", "roles", "items", "users", "past", "tags"}
    /\ Init /\ Lists!Init /\ Registry!Init /\ Terms!Init /\ Given!Init
    /\ Items!Init /\ People!Init /\ Past!Init /\ Free!Init

SiteNext ==
    /\ \/ /\ focus = "index" /\ Next
          /\ UNCHANGED <<listVars, pluginVars, termVars, roleVars, itemVars, userVars, pastVars, tagVars>>
       \/ /\ focus = "lists" /\ Lists!Next
          /\ UNCHANGED <<vars, pluginVars, termVars, roleVars, itemVars, userVars, pastVars, tagVars>>
       \/ /\ focus = "plugins" /\ Registry!Next
          /\ UNCHANGED <<vars, listVars, termVars, roleVars, itemVars, userVars, pastVars, tagVars>>
       \/ /\ focus = "terms" /\ Terms!Next
          /\ UNCHANGED <<vars, listVars, pluginVars, roleVars, itemVars, userVars, pastVars, tagVars>>
       \/ /\ focus = "roles" /\ Given!Next
          /\ UNCHANGED <<vars, listVars, pluginVars, termVars, itemVars, userVars, pastVars, tagVars>>
       \/ /\ focus = "items" /\ Items!Next
          /\ UNCHANGED <<vars, listVars, pluginVars, termVars, roleVars, userVars, pastVars, tagVars>>
       \/ /\ focus = "users" /\ People!Next
          /\ UNCHANGED <<vars, listVars, pluginVars, termVars, roleVars, itemVars, pastVars, tagVars>>
       \/ /\ focus = "past" /\ Past!Next
          /\ UNCHANGED <<vars, listVars, pluginVars, termVars, roleVars, itemVars, userVars, tagVars>>
       \/ /\ focus = "tags" /\ Free!Next
          /\ UNCHANGED <<vars, listVars, pluginVars, termVars, roleVars, itemVars, userVars, pastVars>>
    /\ UNCHANGED focus

SiteSpec == SiteInit /\ [][SiteNext]_all

\* Lists and searches agree with each other and with what a reader may see, and a group
\* lists its public datasets: Listings.
ListsAgree == focus = "lists" => Lists!ListsAgree /\ Lists!GroupsListTheirs

\* What the caches serve is what the loaded plugins define: Plugins.
ServedAsLoaded == focus = "plugins" => Registry!ServedAsLoaded

\* A translation that was given is the one that is shown: Translations.
TranslationsAsAsked ==
    Terms!EachHasItsRow /\ Terms!RowsAgreeAgain /\ []Terms!FoundAsShown

\* An account has the roles it was given, and is shown those it has: Roles.
RolesAsAsked == Given!RolesAsAsked /\ []Given!ShownAreHad

\* Related items are what their users were told: RelatedItems.
ItemsAsTold == Items!ItemsAsTold

\* Passwords, keys and names are those that were chosen: Accounts.
AccountsHold == []People!PasswordsAsSet /\ People!OnlyWhatIsAsked

\* The past of a dataset stays what it was: History.
HistoryHolds == []Past!OneVersion /\ Past!PastStays /\ Past!PurgeGoesBack

\* What a list of tags has is found, and a dataset has the tags it was given: FreeTags.
FreeTagsHold == []Free!TagsAreFound /\ Free!TagsAsGiven
=============================================================================
