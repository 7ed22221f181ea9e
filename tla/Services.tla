-------------------------------- MODULE Services --------------------------------
(***************************************************************************)
(* What has tables or a process of its own: the groups of datasets, the      *)
(* DataPusher, the DataStore, page tracking, configuration options and the   *)
(* file they start from, and the validation of what a request is given.      *)
(*                                                                         *)
(* The parts share no state in these models, so that a product would only   *)
(* multiply it: each behaviour runs one of them, the focus, and the others  *)
(* stay in their initial states.                                            *)
(***************************************************************************)
EXTENDS Membership, Sequences

CONSTANTS
    Resources, MaxAsked,                                 \* DataPusher
    Fields, Cells, Aliases, Creates, Records, Filters, MaxRows,   \* DataStore
    Visitors, Pages, Links, Starts, MaxDay, MaxViews, NotFound,             \* Tracking
    Processes, Keys, Settings, Default, Updates, MaxUpdates,      \* Options
    Beginnings, Desires, MaxLines,                       \* ConfigTool
    Inputs, Schemas, Empty, EmptyList, DefaultText, Missing       \* Validation

\* Resources have generated ids, which are no names of aliases.
ASSUME StoreAssumption ==
    /\ Aliases \cap Resources = {}
    /\ \A create \in Creates : create.aliases = None \/ create.aliases \subseteq Aliases

\* A stamp is a number.
ASSUME OptionsAssumption == None \notin Nat

VARIABLE focus

\* The DataPusher.
VARIABLES exists, pushed, task, jobs, pushPc, loc, asked, upset

Pusher == INSTANCE DataPusher WITH pc <- pushPc

\* The DataStore.
VARIABLES private, table, storePc, storeReq, skew

Store == INSTANCE DataStore
           WITH pc <- storePc, req <- storeReq, Values <- Cells, Inputs <- Records

\* Records are lists of partial functions; values can be compared, and null is none of them.
ASSUME FieldsAssumption ==
    /\ IsFiniteSet(Fields) /\ Cells \subseteq Nat /\ None \notin Cells
    /\ MaxRows \in Nat
    /\ Records \subseteq Seq(Store!PartialRows)
    /\ \A create \in Creates :
         create.fields \in Seq(Fields) /\ create.records \in Seq(Store!PartialRows)

\* Page tracking.
VARIABLES today, name, raw, summary, shown, at, from, until, day, owed, stale, renamed

Views == INSTANCE Tracking

\* What stands for a page of no package is none, and a url is of a page or of a resource.
ASSUME ViewsAssumption == NotFound \notin Packages \cup {None} /\ Pages \cap Links = {}

\* Configuration options.
VARIABLES sysRow, stamp, now, config, seen, updating, checking, updates, spoiled

Opts == INSTANCE Options WITH row <- sysRow, Values <- Settings, Asks <- Updates

\* The configuration file.
VARIABLES lines, asks

Tool == INSTANCE ConfigTool WITH asked <- asks

\* Validation.
VARIABLES input, schema, result

Navl == INSTANCE Validation WITH Default <- DefaultText

\* The markers of the validation can be told from what they mark, no input has the one for
\* what is missing, and the validators of a field come in a list.
ASSUME ValidationAssumption ==
    /\ Missing \notin {EmptyList, DefaultText, Navl!Popped}
    /\ Empty \notin {Missing, None, Navl!Popped}
    /\ \A data \in Inputs :
         /\ \A f \in DOMAIN data.plain : data.plain[f] # Missing
         /\ \A l \in DOMAIN data.lists :
              Len(data.lists[l]) \in Nat /\ DOMAIN data.lists[l] = 1 .. Len(data.lists[l])
    /\ \A sch \in Schemas : \A f \in DOMAIN sch.plain :
         /\ Len(sch.plain[f]) \in Nat /\ DOMAIN sch.plain[f] = 1 .. Len(sch.plain[f])
         /\ \A n \in DOMAIN sch.plain[f] : sch.plain[f][n] \in STRING

-----------------------------------------------------------------------------
pushVars == <<exists, pushed, task, jobs, pushPc, loc, asked, upset>>
storeVars == <<private, table, storePc, storeReq, skew>>
viewVars == <<today, name, raw, summary, shown, at, from, until, day, owed, stale, renamed>>
optVars == <<sysRow, stamp, now, config, seen, updating, checking, updates, spoiled>>
navlVars == <<input, schema, result>>
toolVars == <<lines, asks>>
all == <<vars, focus, pushVars, storeVars, viewVars, optVars, navlVars, toolVars>>

\* A part that is not in the focus starts in one of its initial states, or with nothing.
ServicesInit ==
    /\ focus \in {"members", "pusher", "store", "views", "options", "navl", "tool"}
    /\ Init /\ Pusher!Init /\ Store!Init /\ Views!Init /\ Opts!Init
    /\ IF focus = "navl" THEN Navl!Init ELSE input = None /\ schema = None /\ result = None
    /\ IF focus = "tool" THEN Tool!Init ELSE lines = <<>> /\ asks = <<>>

ServicesNext ==
    /\ \/ /\ focus = "members" /\ Next
          /\ UNCHANGED <<pushVars, storeVars, viewVars, optVars, navlVars, toolVars>>
       \/ /\ focus = "pusher" /\ Pusher!Next
          /\ UNCHANGED <<vars, storeVars, viewVars, optVars, navlVars, toolVars>>
       \/ /\ focus = "store" /\ Store!Next
          /\ UNCHANGED <<vars, pushVars, viewVars, optVars, navlVars, toolVars>>
       \/ /\ focus = "views" /\ Views!Next
          /\ UNCHANGED <<vars, pushVars, storeVars, optVars, navlVars, toolVars>>
       \/ /\ focus = "options" /\ Opts!Next
          /\ UNCHANGED <<vars, pushVars, storeVars, viewVars, navlVars, toolVars>>
       \/ /\ focus = "navl" /\ Navl!Next
          /\ UNCHANGED <<vars, pushVars, storeVars, viewVars, optVars, toolVars>>
       \/ /\ focus = "tool" /\ Tool!Next
          /\ UNCHANGED <<vars, pushVars, storeVars, viewVars, optVars, navlVars>>
    /\ UNCHANGED focus

ServicesSpec == ServicesInit /\ [][ServicesNext]_all

\* A task that nothing is at work on is complete or failed, and every job goes back to
\* something a user did: DataPusher.
TasksSettle == focus = "pusher" => Pusher!TasksSettle /\ Pusher!JobsComeFromUsers

\* The read-only user may read the tables of public datasets, and those only: DataStore.
PrivilegesFollow == Store!PrivilegesFollow

\* Columns stay, an upsert keeps what it does not name, a deletion takes what a search
\* finds, and the pages of a search have every row: DataStore.
TablesKeepData ==
    Store!ColumnsStay /\ Store!UpsertMerges /\ Store!DeletedAreFound /\ []Store!PagesCover

\* The summary counts what was seen, killed runs made up for, and the index shows its
\* totals: Tracking.
ViewsAddUp == Views!SummaryAddsUp /\ Views!IndexShowsTotals

\* A process that has seen the last update serves its options, and the file reads as it was
\* asked to: Options, ConfigTool.
OptionsHold == []Opts!SeenIsCurrent /\ Tool!EditedAsAsked

\* Errors are reported where the data is, and validation keeps what it was given and not
\* asked to drop: Validation.
ValidationKeeps == focus = "navl" => Navl!ErrorsAreInPlace /\ Navl!NothingIsLost
=============================================================================
