# A verification development of CKAN

CKAN is a portal for open data: a Pylons application whose web workers keep datasets, groups,
organizations and users in PostgreSQL and a copy of each dataset in a Solr index. The modules of
this directory model its core and its shipped extensions as state machines, the configurations
model-check them on small instances, and the proof modules prove the properties that matter most
for every instance.

Paths are relative to `src/ckan/`, those of extensions to `src/`; `create.py`, `update.py`,
`patch.py`, `delete.py` and `get.py` are the ones of `logic/action/`.

## 1. The system

### How the parts interact

A request reaches an *action function* (`logic/action/`), which checks the permission
(`logic/auth/`, `authz.py`), validates its dictionary (`lib/navl/`, `logic/schema.py`), saves it
through `lib/dictization/model_save.py` into the SQLAlchemy session and commits. Actions call
actions: `resource_update` calls `package_update`, which calls `package_owner_org_update`, which
may commit in the middle of its caller.

Around each commit the session runs its extensions (`model/meta.py:16-119`): the history gets its
rows, the activities are computed, and in `before_commit` the
`DomainObjectModificationExtension` tells every plugin which packages and resources changed.
`SynchronousSearchPlugin` (`lib/search/__init__.py:115`) then builds the whole dictionary of the
package and writes it to Solr, the DataPusher submits the resource and the DataStore changes
privileges, all of it *before* the database commits. `package_show` serves the document of Solr in
place of the database when its `metadata_modified` is the one of the row (`get.py:1010`), so that
the index is a search index and a cache at once.

Workers are processes. They share nothing but PostgreSQL (READ COMMITTED, no explicit locks: an
UPDATE waits for the transaction that updated the same row, nothing else waits), Solr (no
transactions at all), the file system and the service of the DataPusher. What one request reads
may change before it writes: that is where this code is hard, and what a test, which runs one
request at a time, hardly reaches.

### Components

| component | state it keeps | what makes it correct | module |
|---|---|---|---|
| dataset actions | `package` and related rows | an update is atomic, what readers are served is a version that was committed | `DatasetIndex`, `DatasetRegister` |
| search index | the Solr documents, committed or not | agrees with the database when nothing runs; a document that passes for current is current; no dataset missing, no ghost | `DatasetIndex` |
| searches and listings | none: queries of rows and documents | a list shows what its reader may see, lists of the same thing agree | `Listings` |
| memberships | `member` rows, `package.owner_org`, states of groups | a dataset has one organization, the one of its column; who is removed is out | `Membership` |
| group hierarchy, authorization | parent links, roles, configuration | permissions come from roles in a group or above it; what is listed is permitted | `Authorization` |
| roles on objects (the older table) | `user_object_role` rows | an account has the roles it was given | `Roles` |
| resources, extras, tags of a dataset | rows with a state and a position | after a save the active rows are the list, in its order | `DatasetLists` |
| relationships | `package_relationship` rows | one row per pair and type, read from both ends | `Relationships` |
| revisions | `revision`, `*_revision` rows | one version for every date; the past stays | `History` |
| activities, dashboard, followers | `activity`, `dashboard`, `user_following_*` rows | a page is a slice of the stream; old stays old; edits are logged once | `ActivityStreams` |
| users | `user` rows | a password, a key, a name is the one last chosen | `Accounts` |
| related items | `related`, `related_dataset` rows | an item is shown with its dataset, and its activities tell its story | `RelatedItems` |
| vocabularies and tags | `vocabulary`, `tag`, `package_tag` rows | a vocabulary has the tags listed; a tag that is listed is found | `Vocabularies`, `FreeTags` |
| translations, multilingual extension | `term_translation` rows, fields of the document | one row per term and language; what is shown can be searched | `Translations` |
| task statuses, options | `task_status`, `system_info` rows; the options each process holds; the file | processes agree in the end; an edit changes what was asked for only | `DataPusher`, `Options`, `ConfigTool` |
| uploads | files and the rows that name them | what was uploaded and committed is there | `Uploads` |
| validation, navl | none | errors are where the data is; nothing that is allowed is lost | `Validation` |
| DataStore extension | a table per resource, views, privileges | public tables are readable, private ones not; an upsert keeps what it does not name | `DataStore` |
| DataPusher extension | the job and its status row | a task ends as complete or failed | `DataPusher` |
| plugin registry | loaded plugins and caches of what they define | what is served is what is loaded | `Plugins` |
| page tracking | raw hits and summaries | every hit counted once, kills made up for | `Tracking` |
| web layer, command line | sessions | a request that ends leaves nothing pending | in `DatasetIndex`, `Membership`, `Tracking`, `ConfigTool` |
| helpers, templates, i18n; tests, documentation, packaging | - | - | not modelled |

`PROJECT.json` lists all of them with their sources and how far each is modelled, and under
`hazards` what is hard to test, at the line where it bites, with the properties that would catch it.

Each module models requests as the code runs them: what a request reads before it waits, what it
writes, what each of its commits makes visible. A request that is one transaction of one statement
is one step; one that commits several times has a step for each commit, between which others run
and after which it may be killed.

## 2. `DatasetIndex`: two stores, one dataset

| variable | in the code |
|---|---|
| `db`, `used` | the committed rows of a package: `title`, `private`, `state`, `mm` (metadata_modified) of its own row, `body` (resources, tags, extras), `groups`, `rels` of the others; the stamps it has had |
| `solr`, `pend` | the document readers of Solr see, and what was sent to it and is not yet committed |
| `tx`, `lock` | what the open transaction of a worker wrote; who holds the row lock of a package |
| `pc`, `kind`, `pkg`, `arg`, `todo`, `buf`, `stamp` | where a worker is in its request, the request, the dictionary it has in memory |

Each action is one round trip to a store, and the steps of a request are the ones of the code in
their order: `ShowRow` and `ShowDoc` are the two reads of `package_show`; `Write` is the flush of
`package_update` and the functions it calls; `NotifyIndex` is `SynchronousSearchPlugin.notify`
with its own `package_show`; `Commit` the commit of the database; `IndexAgain` the explicit
indexing at the end of `package_owner_org_update`; `BulkFetch`, `BulkPatch`, `CommitIndex` the
patches of `_bulk_update_dataset`; `RebuildList`, `RebuildClear`, `RebuildNext` and the shared
`GetRow`, `GetRelated`, `Remove`, `Insert` the command `search-index rebuild`. With `Faults`, a
store may refuse a call (`Abort` follows the `except` clauses and the end of the request, which
rolls back) and a worker may be killed at any step.

Properties:

* `CacheHonest`: a document whose stamp is the one of the row *is* the row. `package_show` relies
  on it each time it serves the document.
* `ReplyHonest`: a dictionary with the stamp of the current row is the row, also one that was put
  together from several SELECTs while another request committed.
* `ImplementsRegister` (`DatasetRegister`, the abstract specification): what readers are served is
  a register that changes at the commits of the database only, and a stamp identifies the
  metadata for ever.
* `CommitIsIndexed`: when a transaction commits, the document is what it commits.
* `IndexSettled`: when no request is in progress, document and row agree.
* `IndexComplete`, `NoGhosts`: under requests that do not take the lock documents may be stale,
  but no active dataset is missing, nothing stays uncommitted, no deleted dataset stays visible.
* `RequestsFinish`: every request ends, also one that waits for a row lock.

One dataset and two workers are enough: requests on different datasets share neither a row nor a
document, and every hazard listed needs two actors on one dataset. `MaxTime` bounds the number of
stamps, hence of edits: 2 or 3 let an edit overtake one that another one overtook.

The requests of a run are those its properties can hold for. Outside of them the document may end
up older than the row: `member_create` and the rebuild index rows they read before an update
committed, and two bulk updates patch the document in an order that is not the one of their
commits. Add one of these kinds to `index_settled` and TLC shows the interleaving for
`IndexSettled`. Such a document is not served by `package_show`, whose guard on the stamp sends
readers to the database; what stays wrong is what a *search* returns, until the next edit. Two
races leave a ghost, and the runs leave them out: a move or a reindexing against a deletion, and a
bulk update of visibility against one.

Fairness: `FairSpec` asks for weak fairness of the steps of a worker that is in a request, for a
process of the operating system that can run does run; and for strong fairness of `Write`, which
waits for a row: PostgreSQL queues the waiters, so that one is not overtaken for ever by others
that come later. Starting a request is not fair. `RequestsFinish` is checked without faults, where
every holder of a lock ends.

Abstractions: two stamps differ, as long as two edits of a dataset are more than 10 ms apart,
which is what the comparison in `package_show` (`get.py:1012-1014`) can tell. `utcnow` is read
before a request waits for the row lock, so a later commit may carry an earlier stamp: the model
lets it. A bulk update has one dataset in its list. The SELECTs on the related tables are one step.
`state` is only kept from an administrator (`schema.py:154`), so edits do not carry it.
`solr_commit` is true, as shipped. `rebuild_fast` and the fields of the document that only queries
use are left out.

## 3. `Membership`: rows, lists and owners

`rows` is the member table by group, object and slot: nothing in the schema forbids two rows
for one group and object, and much of what can go wrong starts there. `owner` is `owner_org`,
`pstate` and `gstate` the states, `purged` the groups that were purged. A worker keeps the changes
its session has in memory (`plan` for rows, `cols` for columns) and what a move, a deletion or a
purge has still to do (`req`, `left`).

A request is a lookup and one or more commits. `package_update` writes its row first and so
holds its lock (`lock`) until its first commit, which may come early:
`package_owner_org_update` calls `member_obj.save()`, which commits, for each row of another
organization. `group_create` commits the group and then the membership of its creator.
`organization_delete` deletes the datasets that `Group.packages` returns, the active public ones,
one by one in transactions of their own, then marks the rows; `group_delete` marks the rows only,
also of an organization. A dataset may be a draft, which both leave. A purge deletes the rows,
commits, then deletes the group. A commit fails as in the code:
a row another transaction deleted cannot be updated (`StaleDataError`), a row of a purged group
cannot be inserted (the foreign key).

The dictionaries of `package_membership_list_save` and `group_member_save` are keyed by group and
by object, so of several rows they keep *one*: which one depends on the order of the query, and
the model chooses any.

`MCMembershipMixes` runs one of four mixes of requests in each behaviour: *moves*, every kind of
request on a dataset and two organizations, one after the other (`OneOrganization`,
`OrganizationIsOwner`); *roster*, a user who joins and leaves a group
and an organization that are created, deleted and purged (`RosterHolds`: who was removed is not
a member, who creates a group administers it); *purges*, updates of a dataset and of groups
against purges in two workers (`TypeOK`, in particular that no row names a purged group);
*deletions*, `organization_delete` against updates and new members in two workers, with datasets
that are drafts, active and deleted (`DatasetsGoWithOrganization`). The last one is about what
comes between: `late` notes the datasets that got a row of the organization, or became active,
after a deletion listed its datasets, and each active public dataset that still has an active row
when the deletion commits is one of those. The run
`services` has one more mix, two workers that create, update, move and delete a dataset and may be
killed anywhere (`OneRowPerGroup`, `GroupsAsListed`: the row lock keeps one row per group, and the
groups are those of the update that committed last). Its requests do not make drafts (`NoDrafts`), of
which its properties say nothing and which would double its states.

Departures that are in the model and that no run lists, for the property would fail at once or
repeat one line of code:

* two concurrent moves of a dataset to different organizations insert a row each
  (`update.py:1084` gives the lock up), and the dataset is in both: `OneOrganization` is about one
  worker;
* a user who was added, removed and added again has two rows; a list of members may make both
  active (`model_save.py:355`), and `member_delete` marks one of them (`delete.py:210`): the mix
  *roster* saves no lists;
* `group_delete` and `organization_delete` given a name mark no row (`MarkedRows`, `delete.py:291`);
  private datasets and drafts outlive their organization (`ShownBy`, `group.py:287-303`: the argument
  `with_private` is never used), and so does every dataset when it is `group_delete` that is given
  the organization (`FirstStep`, `delete.py:280`); a dataset that comes between the listing and the
  last commit stays with an organization that is deleted (`late`); and a `group_create` that is killed between
  its two commits leaves a group without administrator (`Write`, `create.py:641`);
* a worker killed between the commits of a move leaves column and table apart, which no code
  repairs: `OrganizationIsOwner` is about runs without kills.

Bounds: one dataset or one user, a group and up to two organizations, two workers, two or three
slots per group and object: one row, the deleted row next to it, and the one a race would add. When
every slot is taken or every identifier is used up, the model may stop; the configurations say so
with `CHECK_DEADLOCK FALSE`. The sequential mixes have one worker: they ask what a *sequence* of
legal calls does, and two workers break their properties (two `member_create` of one user insert
two rows, `create.py:533`).

Abstractions: the rows that link groups to groups are in `Authorization`. Privacy does not change.
The permission that `package_membership_list_save` asks for each group is the set of groups a
request may read; every other permission is granted. Requests name groups and objects that exist
when they start. `members_back` uses `package_update` only, for `package_owner_org_update` called
directly also needs a revision of the caller.

## 4. The catalogue beside its datasets

* **`Authorization`** (`authz.py`, `logic/auth/`, the recursive queries of `model/group.py`). `role`
  are the rows of accounts in groups, `parents` the links between groups, `gstate`, `pkg` and
  `ustate` the states, `config` one of the settings `ckan.auth.*`. `ChildrenGroups` and
  `ParentGroups` are the two recursive queries with their bound, `HasPermission` the check with its
  cascade, `OrganizationsFor` is `organization_list_for_user`, and the operators `May...` are the
  authorization functions. A private dataset may lose its organization in an update
  (`validators.py:746-752`) and then anyone may see it. Which datasets `organization_delete` takes
  with the organization depends on their rows, which are in `Membership`: here it is any choice of
  active public ones; `group_delete` takes none. Each request is one step: the check, the validators, what is written.
  `ListedArePermitted` compares the query down with the query up, `EditorsSee` says that who may
  edit may see, `PermissionsComeFromAbove` compares the bounded recursion with a walk without
  bound. Three organizations, two configurations and two of links, datasets and deleted accounts at
  a time; `MaxRecurses` is 1 in place of the 8 of the code, so that a chain of three and a loop reach
  the bound; the theorems are about every bound. `Remains` names the one way the two queries disagree: `group_delete` by name keeps the
  rows of a deleted group. `hierarchy_loops` is a violation: the validator against loops tests
  `'id' in data`, and the data is flattened.
* **`ActivityStreams`** (`model/activity.py`, `model/dashboard.py`, `model/follower.py`, the session
  extension). A request computes its activities with the time it has then and commits them later,
  so that an older activity may become visible after a younger one. `PagesAreSlices` and
  `PagesAddUp` compare every stream, whose parts are each cut at limit + offset, with slices of the
  whole; `FollowersMatch` the lists and counts of followers; `FirstAndLast` says that the history of an
  object begins with its creation and ends with what it is; these are `StreamsAreWhole`.
  `OldStaysOld` is about marks of one user that do not cross (`Crossing`): two that do may put the
  mark back. `EditsAreLogged`: what an edit of a public dataset leaves in the stream.
  A deletion of a dataset that is deleted already is not logged again.
* **`DatasetLists`** (`model_save.py`). Rows of resources, extras and tags with state and position;
  `ResourceRow`, `ExtraRow`, `TagRow` are the merges, `Written` the columns an UPDATE sets: those
  that differ from what the session has loaded. `ListsAsAsked` holds for workers whose session
  holds no row another one changed (`clean`); without this TLC finds `resource_update` keep a
  resource deleted that another request restored, for it loaded the row before it waited for the lock.
* **`Relationships`** (`model/package.py:220-290`). Only forward types are stored; create, update and
  delete look rows up under either type, and commit later. `ForwardAsAsked` is about both ends of a
  relationship, read by `package_relationships_list`. `relationships_reversed` is a violation: the
  reverse type finds the opposite relationship (`package.py:238`).
* **`Vocabularies`** (`model/vocabulary.py`, the vocabulary and tag actions) and **`FreeTags`**: tags
  with a vocabulary are unique by a constraint that a commit may run into; free tags have none
  that binds, so that two requests may both insert a name. `VocabularyAsListed`: after
  `vocabulary_update` the vocabulary has the tags listed, and those it kept are the same rows, so
  that datasets keep them. `TagsAreFound` and `TagsAsGiven` (`FreeTagsHold`) relate the lists, the
  searches and the pages of tags to what datasets were given.
* **`History`** (`model/meta.py`, `model/__init__.py`, `model/package.py`). A row of each object and
  revision with its interval. `OneVersion`: every date has one version, the last is the dataset,
  `Package.diff` is the difference of versions; `PastStays`: no commit changes what the dataset was
  before the revisions still under way; `PurgeGoesBack`: purging the last revision makes the dataset
  what it was. A revision draws its timestamp before it waits: one that commits after a later one leaves rows
  that overlap (`crossed`), and a purge of another than the last leaves a hole (`holes`): both are
  in the model and outside of the properties.
* **`Listings`** (`lib/search/query.py` and the lists of `get.py`). Rows of datasets and groups, and
  the documents that requests index; `renamed` notes names a group took or gave up without its
  datasets being indexed again. `ListsAgree` compares `package_search`,
  `current_package_list_with_resources`, `package_list`, the pages and the counts of
  organizations, accounts, groups and tags, the facets and the autocompletion with each other
  and with what `package_show` shows; `GroupsListTheirs` the page of a group with its rows.
  `current_package_list_with_resources` and `group_package_show` take a limit: what they return is a
  page, any one of that size, since the order of the index is left open. Without a limit they get
  the rows a search has by default, ten (`DefaultRows`, 1 in the run, so that two datasets are more than a
  page), although the docstrings speak of the list of the datasets (`get.py:150-153`, `get.py:1295`): the
  property says that the answer is a page of that size. `organization_list` passes its context on, in which
  `group_dictize` sets `ignore_capacity_check` (`model_dictize.py:400`), so that what a list says of
  one organization depends on those before it: the property is about readers of all
  organizations or of none.
* **`Roles`** (`model/authz.py`, `user_role_update`). An update adds the missing roles to its
  session and removes the others one by one, each removal a commit. `RolesAsAsked`, `ShownAreHad`:
  an update that none crossed has its exact result; one that was crossed or killed takes away nothing it
  was asked to leave, and gives nothing else; what is listed is found. `user_has_role` counts
  exactly one row, so that a role two updates added is listed and not found (`stale`). For the
  portal itself `user_role_update` fails before it changes anything.
* **`RelatedItems`**, **`Accounts`**: `related_create` and `related_delete` with their commits, killed
  in between; the sessions of user requests, which write what they set to something else than they
  had loaded, and logins that store a hash anew. `ItemsAsTold`, `PasswordsAsSet` and
  `OnlyWhatIsAsked` (`AccountsHold`) leave out the items of requests that ended half way and the login that read a
  row before its password changed, which brings the old one back (`model/user.py:121`).
* **`Translations`** (`update.py:743`, `ckanext/multilingual/plugin.py`). Requests for one term or
  many, in transactions of several statements; the fields of the document in each language.
  `TranslationsAsAsked`: one row per term with the text given, rows that crossed agree again after
  the next update, and what is shown as a title or notes can be searched. Two first translations both
  insert, after which the assertion at `multilingual/plugin.py:311` fails for a facet.
* **`Plugins`** (`plugins/core.py`, `lib/plugins.py`, `logic/__init__.py`). Loads and unloads, the
  registered forms, and caches that threads fill while they look through the plugins. A load, or an
  unload, of several plugins that meets one it cannot load or unload raises after the ones before it
  (`UpTo`) and without the update of the configuration (`broken`). `ServedAsLoaded` compares what is
  served with what the loaded plugins define, whatever failed before, but not while it is broken.

## 5. Services

* **`DataPusher`**: a submission writes `submitting`, posts the job, writes `pending`; the service,
  which is external, takes the job or refuses it, may change the resource, and calls back once.
  `TasksSettle`: when nothing is under way a task is complete or failed, but for the callback that
  overtook its own submission or a killed worker (`upset`); `JobsComeFromUsers`: a push that
  changes the url of its resource does not bring about another.
* **`DataStore`**: `Create`, `Change` (insert, update and upsert) and `Delete` on a table with its
  columns, key, indexes, aliases and the privilege of the read-only user; searches with filters, sorting and
  pages; `Notify`, the change of the privileges before the dataset commits, and `BulkUpdate`, the
  queries of `bulk_update_private` and `bulk_update_public`, of which no extension hears
  (`update.py:1109`). `PrivilegesFollow`: by its id, a query with SQL reads a table exactly when anyone may
  search it, and who may read the dataset finds the table by its id and by each alias. It holds but for
  `skew`: since the dataset was last saved, a table was created across a change of it, a change was
  rolled back after the notification, or a bulk update changed it. Of aliases it says no more, for an alias is a
  view that keeps the grant it got by default (`set_permissions.sql:45-50`), and `_change_privilege`
  (`db.py:1264`) revokes the one of the table: by alias, `datastore_search_sql` reads a private
  table, whatever its docstring says (`ckanext/datastore/logic/action.py:437-438`).
  `TablesKeepData`: columns are only added (`ColumnsStay`), an upsert keeps what it does not name, and
  a record with a null in its key is a row more each time, for nothing equals null (`UpsertMerges`,
  `HasNull`), a deletion with filters takes what a search finds (`DeletedAreFound`), pages sorted by the key
  have every row once (`PagesCover`). A deletion without filters, or with an empty dictionary of them, drops the
  table (`IsWhole`). An empty page has no total, and the page at
  offset = limit has no link to the one before it: the property says no more than that. In the run, of two requests at once one creates a table or is about the dataset (`OneOnRows`):
  what a request does to rows is one transaction.
* **`Uploads`**: files are written, and old images removed, before the commit that names them; a
  `group_update` that changes the datasets of the group commits before its files
  (`CommitEarly`, `model_save.py:426`). A form may hold any url, also the name of a file that was
  removed since it was read, or that there never was. `FilesAreThere`: the image a group names is there, and
  what is stored for a resource is the upload its url is of. The exceptions are histories: files that a
  request named without uploading them (`named`), resources whose url or type was edited beside the
  file (`edited`, until the next upload or `clear_upload`), and requests that changed the files or the row and not both
  (`torn`). The run has three uploads, or two and one file that a form
  named, and ends at a torn request (`FewFiles`).
* **`Tracking`**: the statements of `tracking update`, day by day, with views, renamings and kills
  in between, and later runs that start two days before the last row. `SummaryAddsUp`,
  `IndexShowsTotals`: a run that comes to its end has counted each visitor once, also of the days
  killed runs left half done. `MaxDay` 2 has the day before, the day of, and the one after a kill.
* **`Options`**: options saved one by one and a stamp last; processes that compare the stamp and read
  them again. `SeenIsCurrent`: who has seen the last stamp serves its options. **`ConfigTool`**: the
  lines of the file these processes start from. `EditedAsAsked`: what the portal reads afterwards is
  what was asked for, and all else is as before, whatever repeats and commented lines there
  were. Outside of it: the continuation lines of an edited option stay behind, an option that stands
  above all headings is not edited, and a heading without options is written again.
* **`Validation`** (`lib/navl/`): `Flatten`, `FullSchema`, the conversion key by key, `Unflatten`.
  `ErrorsAreInPlace`, `NothingIsLost`, over all inputs with up to two items and 72 schemas; a
  validator that takes away every field of an item moves those after it one place up
  (`dictization_functions.py:362`), so errors are about items that keep a field.

## 6. The runs

| run | instance | properties |
|---|---|---|
| `index_cache` | edits, moves, reindexing, rebuilds; failures and kills | `TypeOK`, `CacheHonest`, `ReplyHonest`, `ImplementsRegister` |
| `index_settled` | creates, updates, patches, deletions; fair | `IndexSettled`, `CommitIsIndexed`, `RequestsFinish` |
| `index_traffic` | updates, patches, deletions, bulk deletions | `NoGhosts` |
| `members_settled` | the mixes moves, roster, purges, deletions | `TypeOK`, `OneOrganization`, `OrganizationIsOwner`, `DatasetsGoWithOrganization`, `RosterHolds` |
| `authorization` | three organizations | `ListedArePermitted`, `EditorsSee`, `PermissionsComeFromAbove` |
| `catalogue` | streams, lists, vocabularies, relationships, files | `StreamsAreWhole`, `OldStaysOld`, `EditsAreLogged`, `ListsAsAsked`, `VocabularyAsListed`, `ForwardAsAsked`, `FilesAreThere` |
| `services` | members, pusher, store, views, options, validation, the tool | `OneRowPerGroup`, `GroupsAsListed`, `TasksSettle`, `PrivilegesFollow`, `TablesKeepData`, `ViewsAddUp`, `OptionsHold`, `ValidationKeeps` |
| `site` | the index under scans, lists, plugins, terms, roles, items, users, past, tags | `IndexComplete`, `ListsAgree`, `ServedAsLoaded`, `TranslationsAsAsked`, `RolesAsAsked`, `ItemsAsTold`, `AccountsHold`, `HistoryHolds`, `FreeTagsHold` |
| `index_lost_patch` | two patches of different fields | violation of `PatchLeavesOthers`: the second writes back the old value of the first's field. `patch.py:16-19` promises "leaving all other parameters unchanged" |
| `members_back` | moves, one worker | violation of `OwnerIsOrganization`: a dataset that comes back to an organization has no active row, because the deleted one is in the way (`update.py:1081`) |
| `relationships_reversed` | one worker | violation of `CreatedIsThere` |
| `hierarchy_loops` | three organizations | violation of `NoLoops` |

`catalogue`, `services` and `site` bundle models that share no state, in the modules `Catalogue`,
`Services` and `Site`; the `MC` modules give values to their constants. Each behaviour runs one of
them, which the variable `focus` names from the start, and the others stay in an initial state: TLC
visits the sum of their states and not the product. A property of a bundle is the one of the part,
under a name of its own where a part has several. A behaviour of a bundle is a behaviour of each of
its parts (a step of another part is a stutter), which the proof modules prove before they use it.

Bounds of the bundles: two workers (or threads, processes, visitors) where requests interleave, for
each hazard listed is about two; one object, or two where the question is how objects share
something (a name, a tag, a list, a relationship); two or three requests that change things, enough
for one that undoes or overtakes an earlier one. The bounds have names (`MaxTime`,
`MaxRequests`, `MaxUpdates`, `MaxLines`, ...), and a bundle that has used them up stops, hence
`CHECK_DEADLOCK FALSE`. Workers, organizations and rows are declared symmetric where nothing
chooses between them.

Only `FairSpec` states fairness (section 2). The other modules have safety properties: what they
say about an end (a task that settles, a run that adds up) is said of the states in which nothing
is under way any more.

## 7. What is proved

The proofs are checked by TLAPS for every value of the constants: any sets of datasets, groups,
users, workers and requests, with or without failures unless the column *from* says otherwise.

| module | theorem | from | argument |
|---|---|---|---|
| `DatasetIndexProofs` | `TypeCorrect` | - | `TypeOK` is inductive; one lemma per action |
| `DatasetCacheProofs` | `CacheIsHonest`, `RepliesAreHonest`, `ServesARegister` | `Kinds` within `StampedKinds` | the inductive invariant says that no two versions of a dataset share a stamp: every row, document, pending document, dictionary in memory and open transaction with a stamp has the metadata recorded for it, and only the holder of the lock has a stamp that is not yet recorded. Refinement: a step maps to `Put` of the register or to a stutter. |
| `DatasetTrafficProofs` | `CommitsAreIndexed`, `TheIndexSettles` | requests that index under the lock; no refused calls for the second | the invariant ties document and row to the lock: without a holder they agree, with one the document is that of the row until `NotifyIndex` and that of the transaction after it |
| `DatasetTrafficProofs` | `NothingIsLost` | `Kinds` within `KeepingKinds`; no refused calls | a dataset without a document has a worker that will add one: one that has removed it and has still to insert it again, or a rebuild that has the dataset still on its list. What is pending has somebody who commits it. `IndexComplete` is this with no such worker left |
| `DatasetTrafficProofs` | `DeletedLeaveTheIndex` | `Kinds` within `DeletionKinds`; no refused calls | a document of a deleted dataset has somebody to answer for it: a transaction about to commit the dataset as active, or a bulk deletion that has still to remove the document |
| `MembershipProofs` | `TypeCorrect` | - | `TypeOK` is inductive; that a purged group has no rows needs what each kind of plan may insert |
| `MembershipProofs` | `SequentialOneOrganization` | one worker | `OwnerInv`: at most one active row, *and* what a plan in memory will leave: between two commits of a move the rows not yet marked are those still in the plan |
| `MembershipProofs` | `UpdatesKeepOneRow` | `Kinds` within `PackageKinds` | `RowInv`: whoever will insert a row of a group holds the lock, and found none since it has held it |
| `MembershipProofs` | `SequentialOrganizationIsOwner` | one worker; no kills | `ColumnInv`: once the first commit of a move has written the column, the rows of other datasets follow theirs, and no later flush of the request can fail (`Ready`), so it gets to its last commit |
| `MembershipProofs` | `GroupsStayAsListed` | `Kinds` within `PackageKinds` | `ListInv`: what an update planned under the lock still holds when it commits, for nobody else writes the rows of its groups (`Planned`), and each row that a request under way may insert has a slot that is free (`RoomLeft`, a count of workers against a count of slots) |
| `MembershipProofs` | `DatasetsGo` | - | `Emptied`: while a deletion has listed the datasets of its organization, each active public one the organization shows is still on the list, or came since and is in `late`; only the deletion takes one off its list, with the commit that deletes it |
| `MembershipProofs` | `SequentialCreatorIsAdmin` | one worker; no kills | `CreatorInv`: a group that does not exist has no rows, so that the first commit leaves its user with an active row or none, and the second one fits (`Promotes`) |
| `MembershipProofs` | `SequentialRemovedAreOut` | one worker; `Kinds` within `RosterKinds` | `RosterInv`: a plan inserts a row where none is active and makes no row active (`Roster`), so that there is one active row at most and the removal marks it |
| `AuthorizationProofs` | `TypeCorrect`, `WhoEditsMaySee` | - | `TypeOK` is inductive. A dataset without an organization is edited by who may create one and seen by anyone, private or not; for the others, every role that holds `update_dataset` holds `read`, in a group and through the groups above it, so that whoever passes `package_update` passes `package_show`; the hierarchy may have loops |
| `AuthorizationProofs` | `OfferedArePermitted` | - | the two recursive queries as sequences of levels: a group is on level n above another exactly when that is on level n below it (`DownMirrorsUp`). The links must join groups of one type (`ParentsAlike`, inductive), for each query tests the type at its own end |
| `AuthorizationProofs` | `PermissionsStayFromAbove` | `FewLinks`, in each state: no more links than the recursion goes deep | a walk upwards without bound gains a link of the hierarchy at each level until it stands still, so that with few links it has ended by the time the query is cut off; before that, the levels of the query add up to the walk |
| `CatalogueProofs` | `EveryEditIsLogged`, `StreamsStayWhole` | - | `StreamsInv`: activities have distinct times per request, a request that is to commit holds what it computed (`SavesFit`), an object that exists was logged as new first (`MadeFirst`). A page of a union of sub-queries that are each cut at limit + offset is the page of the union: what a cut drops has limit + offset younger ones before it |
| `CatalogueProofs` | `OldStaysOldThere` | marks of one user do not cross (`~ Crossing`) | the mark of a dashboard never goes back (`ViewsForward`): a request holds a time that is not before the one stored |
| `CatalogueProofs` | `FilesStayThere` | - | `FilesInv`: names drawn for uploads are fresh (`Fresh`), so that two groups share no file but those a form named (`named`), and a request removes the file of its own group only (`ImagesApart`); an image that is named is there, unless its own request is about to replace it or, having committed early, about to write it (`ImagesFollow`); what was written or committed alone is in `torn` |
| `CatalogueProofs` | `VocabulariesStayAsListed` | - | `VocabInv`: what an update of a vocabulary is about to drop and to insert is, unless a commit came in between, the tags that are not listed and the names that are not there (`UpdatesListed`); no change both drops and attaches (`ChangesFit`) |
| `CatalogueProofs` | `ListsAreAsAsked` | the worker's session holds no row that another changed (`listsClean`, as in the property) | `ListsInv`: what a request is about to write makes every row what it was asked to be (`WritesFit`), because it works out its changes under the lock (`OneWrites`) and the rows it holds from before are still those of the table (`HeldFits`). What is shown is the list asked for: there is one way to sort resources by places that differ, since the place of each in a sorted list is the number of those before it |
| `CatalogueProofs` | `RelationshipsAreForward` | - | `RelationsInv`: each row, and each row a request is to write, is of the forward type (`RelationsAsked`); what a request found is still so when nothing was committed since (`StillFound`) |
| `ServicesProofs` | `SeenStaysCurrent` | - | `OptionsInv`: the stamp of an update that has still to write it was seen nowhere (`StampsApart`). A process may hold an old value with the stamp of now only while somebody will write a new stamp (`Pending`); what an update whose insert is bound to fail (`Doomed`) wrote before is announced by the one that made it fail |
| `ServicesProofs` | `PrivilegesStayRight` | - | `StoreInv`: one request at a time is between the change of privileges and its commit (`OneCommit`), an alias is the view of one table (`AliasesApart`), and unless `skew` a table is open as the dataset is committed, or as the request at its commit will make it (`OpenAsCommitted`) |
| `ServicesProofs` | `TablesKeepTheirData` | - | `DataInv`: the columns of a table are a list, and each step leaves it or appends to it (`FieldsTyped`, `Grown`); of its rows no two agree in a key without nulls (`RowsFit`), and a request brings a list of records (`BringsFit`). After each record of an upsert the keys named so far have one row, with what the last of these records said (`Merged`), and the rows of other keys are those of before and one more for each record with a null in its key. The rows a filter leaves are numbered by their places (`Enumerations`), so that lengths add up. Rows that differ in their key are in a strict order, where the place of each is the number of those before it (`Ranked`): the database can sort them in one way only (`OneOrder`), and the pages joined are that list, from the last to the first (`AllFollow`) |
| `ServicesProofs` | `TasksAlwaysSettle` | - | `PusherInv`: a task that is neither complete nor failed has a job in the queue, a callback or a submission under way (`UnderWay`); jobs and submissions under way are no more than what users asked for (`AskedCovers`) |
| `ServicesProofs` | `ViewsAreAddedUp` | - | `ViewsInv`: the summary is right up to a day that only a run which makes up for what is owed moves on (`RightUntil`, `SoundUntil`), and at the day of such a run as far as its statements have come (`DaySound`). A row without a package or a total is of that day, or a killed run left it and its package is in `stale` (`ViewsFinished`); of the others the index has the totals of before the run, or the run will find them (`ViewsShown`). Rows that change in their packages and totals only add up to the same (`CountsSame`: a sum of counts is the number of visits, `SumIsSeen`) |
| `ServicesProofs` | `ValidationStaysFaithful` | - | no invariant: a result is the `Outcome` of an input and a schema. The keys of flat data are of one or three parts, so that what is flattened is found again; of indexes 0..n-1 the n-th is n - 1 (`NthOfAll`), so that unflatten puts an item where it was; what the validators of a field do is followed one by one (`StepByStep`) |
| `SiteProofs` | `ItemsStayAsTold` | - | `ItemsInv`: what the activities tell of an item and what a request has still to log or delete add up to what became of it |
| `SiteProofs` | `ListsStayInAgreement` | - | `ListsInv`: a document is the row it was made of, with the names its groups had, but for groups in `renamed`. Each search then has the datasets of the query on the tables, and a page of it as many of these as fit; the counts are cardinalities of the same set, of finitely many datasets |
| `SiteProofs` | `AccountsStayAsSet` | - | `PeopleInv`: a request that makes an account is the only one on it, the others are about one that is there, and a login had an old hash (`SessionsFit`); a password that a login brought back is hashed anew (`PasswordsKept`), so that no login brings it back again |
| `SiteProofs` | `RolesStayAsAsked` | - | `RolesInv`: unless another commit crossed it, what the account has differs from what is asked by what the update has still to add or to remove (`UpdatesExact`), and each role of an account is one row (`OneRowEach`) |
| `SiteProofs` | `TagsStayAsGiven` | - | `TagsInv`: a row that a request found has its name until it is deleted, and a number that is to get a name has none (`TagFit`), is promised to no other request and was found by none (`NumbersApart`); two rows of a name come from requests that crossed (`NamedOnce`). As many tags are shown as names are given, by a bijection between them |
| `SiteProofs` | `HistoryStaysOne` | - (the part on versions: `Ordered`, as in the property) | `PastInv`: a revision is drawn for one request and writes its rows once (`RevisionsApart`); while revisions are committed and purged in order, the rows of an object follow each other without a gap (`Chain`), the one without an end is what the object is, and the package has a row for each revision of a part, which is where a version is looked up |
| `SiteProofs` | `TranslationsStayAsAsked` | - | `TermsInv`: of the terms of a request that are not to be written any more, the rows that are updated and the rows to insert have the last text asked for (`WorkerFits`); a term whose first translations did not cross has at most one row, and none while a request is to insert one (`OneRowOrNone`); the document has what the rows say until they change (`DocumentFits`) |
| `SiteProofs` | `LookupsStayAsLoaded` | - | `RegistryInv`: a cache holds nothing but what the plugins that are loaded define, and where no plugin conflicts and no thread is filling it, it is empty or all of it (`HalfFull`) |

Invariants of the bundles are invariants of their parts: `CatalogueRunsFiles`, `ServicesRunStore`,
`SiteRunsItems` and their like prove that a behaviour of the bundle is one of the part.

The assumptions are the boundary of what the code keeps. `StampedKinds` leaves out the requests
that change what `package_show` returns and not `metadata_modified`: `member_create` and
`member_delete` of a dataset, relationships, the bulk updates and the deletions. `PackageKinds`
leaves out `member_create`, whose lookup no lock protects: two of them insert two rows. `RosterKinds` leaves out
`group_update` and the requests on datasets: a list of members may leave an object two active rows. `KeepingKinds`
leaves out creations and deletions: a dataset created while a rebuild with clear runs can be dropped
by it. `DeletionKinds` leaves out the requests that index without the lock a row they read before.
`FewLinks` is `Cardinality(Links) =< MaxRecurses + 1`: with the 8 of the code, a hierarchy of nine
links. Beyond it the bound cuts off what a longer chain would pass on. The
constants are assumed to be what the tables are: sets of rows, slots, groups and workers are finite where they are counted,
identifiers are no numbers, `None` is no value (`NoneAssumption`, `FilesAssumption`, `ItemsAssumption`,
`ListsAssumption`, `AccountsAssumption`, `RolesAssumption`, `VocabulariesAssumption`,
`RelationsAssumption`, `OptionsAssumption`, `FieldsAssumption`, `TagsAssumption`, `RevisionsAssumption`), a request
names a term at least and known languages (`TermsAssumption`), bounds of counters are numbers,
an alias is not the id of a resource (`StoreAssumption`), the mark `~~not~found~~` is no package and a url is of a page or of
a resource (`ViewsAssumption`), the markers of the validation are told from the values they stand beside, no input has
the one for what is missing, and the validators of a field are a list (`ValidationAssumption`), the values of a column can be compared and
null is none of them, as the numbers stand for here (`FieldsAssumption`), a session reports as details no row of the
package itself (`EditsAssumption`). TLC evaluates each in the runs that extend its module.

Recursion over levels is written as a recursive function and reasoned about by least
counterexample: `LeastNumber` (a set of numbers that is not empty has a least one, from the
well-foundedness of the finite subsets 0..n) and `AgainstLeast` (a part of 0..m that has 0 and each
successor is all of it), in `ServicesProofs` `LeastOf` and `StepByStep`, take the place of an induction theorem whose parameter is an operator, which
the provers cannot instantiate.

What stays with TLC, and why:

* `RequestsFinish`: liveness under fairness is out of the prover's reach.
* The second half of `OptionsHold`, `EditedAsAsked`: the lines of a file are folded one by one, and
  filtered with `SelectSeq`, of which the provers know nothing. A proof would first state both as
  recursive functions, to be followed with `StepByStep`.
* `RosterHolds` as it stands: it names the mix of its run. Both halves are proved, each under its
  own condition on the requests (`SequentialRemovedAreOut`, `SequentialCreatorIsAdmin`).

## 8. Not modelled

* Presentation: helpers, templates, i18n, routing, pages, status codes, mails, RDF and feeds.
* Set-up: creation and migration of the tables, most commands of `paster` (they call the actions
  that are modelled or administer tables), `rebuild_fast`, test data, fixtures.
* The text of queries and results: ranking and query strings of Solr, full text search and the types
  of columns in the DataStore; a query with SQL takes one table, by its id or by an alias.
* The older storage controller, OpenID, licences and ratings.
* In `DataStore`: a key over columns that an older index covers, and in `Listings`: the order of the
  results, and more than the 1000 (of an account: 50) that the other lists ask for.

## 9. Plan

Done: every module above with its runs, and the proofs of section 7. What is left, in this order:

1. A proof of `EditedAsAsked`.
2. Compositions: `Membership` with `Authorization` (checks before, requests after a change of roles),
   `Uploads` with `DatasetIndex`.

## 10. Running

    tlc -workers 2 -config MCDatasetIndex_cache.cfg MCDatasetIndex
    tlapm DatasetCacheProofs.tla

`PROJECT.json` lists each run with its module, configuration and properties, the mutants that
show that each property can fail, and the lines each definition stands for. A definition under the
comment "Mutant of" (`EditDeltaUnstamped` beside `EditDelta`) is used by no specification.
