-------------------------------- MODULE Tracking --------------------------------
(***************************************************************************)
(* Page views: the middleware adds a row to tracking_raw for each view, and *)
(* the command "tracking update" counts them day by day into               *)
(* tracking_summary and reindexes the datasets it saw.                      *)
(*                                                                         *)
(* Every statement of the command is a transaction: views come in between,  *)
(* datasets are renamed, and the command may be killed after any of them.   *)
(* It then starts again, as it does every day, two days before the latest   *)
(* day that has a row.                                                     *)
(*                                                                         *)
(* Abstractions: one command runs at a time; the pages are those of         *)
(* datasets; recent_views, which is a sum like running_total over fewer     *)
(* days, is left out.                                                      *)
(***************************************************************************)
EXTENDS Naturals, FiniteSets, FiniteSetsExt

CONSTANTS
    Visitors,
    Packages,
    Pages,       \* urls of datasets, a name each
    Links,       \* urls of resources
    Starts,      \* the days the command may be given as its start
    MaxDay,      \* bound on the days
    MaxViews,    \* bound on the views
    None, NotFound

VARIABLES
    today,
    name,        \* the page of each package
    raw,         \* rows of tracking_raw: [user, url, day, n], n tells views apart
    summary,     \* rows of tracking_summary: [url, day, count, pkg, total]
    shown,       \* views_total of each package in the search index
    at,          \* the next statement of the command, idle without one
    from, until, \* its first day, and the day it was started
    day,         \* the day it is at
    owed,        \* the first day that no finished run has made up for, or None
    stale,       \* packages that a killed run may not have reindexed
    renamed      \* packages that were renamed

tables == <<raw, summary>>
run == <<from, until, day>>
kept == <<stale, renamed>>
vars == <<today, name, tables, shown, at, run, owed, kept>>

Urls == Pages \cup Links
Days == 0 .. MaxDay
Statements == {"clear", "count", "names", "links", "pages", "index"}

TypeOK ==
    /\ today \in Days /\ from \in Days /\ until \in 0 .. today /\ day \in Days
    /\ name \in [Packages -> Pages]
    /\ \A v \in raw : v.user \in Visitors /\ v.url \in Urls /\ v.day \in 0 .. today
    /\ \A s \in summary : /\ s.url \in Urls /\ s.day \in 0 .. today /\ s.count > 0
                          /\ s.pkg \in Packages \cup {None, NotFound}
                          /\ s.url \in Links => s.pkg = None
    /\ \A s, t \in summary : s.url = t.url /\ s.day = t.day => s = t
    /\ shown \in [Packages -> Nat]
    /\ at \in Statements \cup {"idle"}
    /\ owed \in Days \cup {None} /\ stale \cup renamed \subseteq Packages

Init ==
    /\ today = 0
    /\ name \in [Packages -> Pages]
    /\ \A p, q \in Packages : name[p] = name[q] => p = q
    /\ raw = {}
    /\ summary = {}
    /\ shown = [p \in Packages |-> 0]
    /\ at = "idle"
    /\ from = 0 /\ until = 0 /\ day = 0
    /\ owed = None
    /\ stale = {} /\ renamed = {}

-----------------------------------------------------------------------------
(***************************************************************************)
(* What goes on meanwhile.                                                 *)
(***************************************************************************)
View(u, url) ==
    /\ Cardinality(raw) < MaxViews
    /\ LET n == Cardinality({v \in raw : v.user = u /\ v.url = url /\ v.day = today})
       IN  raw' = raw \cup {[user |-> u, url |-> url, day |-> today, n |-> n]}
    /\ UNCHANGED <<today, name, summary, shown, at, run, owed, kept>>

NextDay ==
    /\ today < MaxDay
    /\ today' = today + 1
    /\ UNCHANGED <<name, tables, shown, at, run, owed, kept>>

Rename(p, page) ==
    /\ \A q \in Packages : name[q] # page
    /\ name' = [name EXCEPT ![p] = page]
    /\ renamed' = renamed \cup {p}
    /\ UNCHANGED <<today, tables, shown, at, run, owed, stale>>

-----------------------------------------------------------------------------
(***************************************************************************)
(* The command.                                                            *)
(***************************************************************************)
\* Mutant of DefaultStart: the day after the latest one.
DefaultStartAfter ==
    IF summary = {} THEN 0 ELSE Max({s.day : s \in summary}) + 1

\* Two days before the latest day in the summary.
DefaultStart ==
    LET latest == Max({s.day : s \in summary})
    IN  IF summary = {} \/ latest < 2 THEN 0 ELSE latest - 2

Earlier(a, b) == IF a = None \/ b < a THEN b ELSE a

\* update_all.  A start that is given may be too late for the days before it.
Begin(start, given) ==
    /\ at = "idle"
    /\ IF given THEN start \in Starts ELSE start = DefaultStart
    /\ start =< today
    /\ at' = "clear"
    /\ from' = start /\ day' = start
    /\ until' = today
    /\ owed' = IF given THEN Earlier(owed, IF start > DefaultStart THEN DefaultStart ELSE start)
               ELSE owed
    /\ UNCHANGED <<today, name, tables, shown, kept>>

Statement(now, next) == at = now /\ at' = next

\* DELETE FROM tracking_summary.
Clear ==
    /\ Statement("clear", "count")
    /\ summary' = {s \in summary : s.day # day}
    /\ UNCHANGED <<today, name, raw, shown, run, owed, kept>>

\* The visitors of a url on a day, however often they came.
VisitorsOf(url, d) == {v.user : v \in {x \in raw : x.url = url /\ x.day = d}}

\* INSERT INTO tracking_summary, in one transaction with its temporary table.
Count ==
    /\ Statement("count", "names")
    /\ LET viewed == {url \in Urls : VisitorsOf(url, day) # {}}
       IN  summary' = summary \cup
             {[url |-> url, day |-> day, count |-> Cardinality(VisitorsOf(url, day)),
               pkg |-> None, total |-> 0] : url \in viewed}
    /\ UNCHANGED <<today, name, raw, shown, run, owed, kept>>

PackageAt(page) ==
    IF \E p \in Packages : name[p] = page THEN CHOOSE p \in Packages : name[p] = page
    ELSE NotFound

\* Of every row of a page that has no package_id yet.
FillNames ==
    /\ Statement("names", "links")
    /\ summary' = {IF s.url \in Pages /\ s.pkg = None THEN [s EXCEPT !.pkg = PackageAt(s.url)]
                   ELSE s : s \in summary}
    /\ UNCHANGED <<today, name, raw, shown, run, owed, kept>>

CountsUntil(d, rows) == MapThenSumSet(LAMBDA t : t.count, {t \in rows : t.day =< d})

LinkTotals ==
    /\ Statement("links", "pages")
    /\ summary' = {IF s.url \in Links /\ s.total = 0
                   THEN [s EXCEPT !.total = CountsUntil(s.day, {t \in summary : t.url = s.url})]
                   ELSE s : s \in summary}
    /\ UNCHANGED <<today, name, raw, shown, run, owed, kept>>

\* The last statement for a day: the next day follows, up to the one of the start.
NextStatement ==
    /\ at = "pages"
    /\ IF day < until THEN at' = "clear" /\ day' = day + 1 ELSE at' = "index" /\ day' = day
    /\ UNCHANGED <<from, until>>

PageTotals ==
    /\ NextStatement
    /\ summary' = {IF s.pkg \in Packages /\ s.total = 0
                   THEN [s EXCEPT !.total = CountsUntil(s.day, {t \in summary : t.pkg = s.pkg})]
                   ELSE s : s \in summary}
    /\ UNCHANGED <<today, name, raw, shown, owed, kept>>

\* TrackingSummary.get_for_package: running_total of a latest row.
TotalsOf(p) ==
    LET mine == {s \in summary : s.pkg = p}
    IN  IF mine = {} THEN {0} ELSE {s.total : s \in {x \in mine : \A t \in mine : t.day =< x.day}}

Reindexed == {p \in Packages : \E s \in summary : s.pkg = p /\ s.day >= from}

NoRun == from' = 0 /\ until' = 0 /\ day' = 0

\* update_tracking_solr, and the end.
Index ==
    /\ Statement("index", "idle")
    /\ \E total \in [Packages -> Nat \cap UNION {TotalsOf(p) : p \in Packages}] :
         /\ \A p \in Packages : total[p] \in TotalsOf(p)
         /\ shown' = [p \in Packages |-> IF p \in Reindexed THEN total[p] ELSE shown[p]]
    /\ owed' = IF owed # None /\ from =< owed THEN None ELSE owed
    /\ stale' = stale \ Reindexed
    /\ NoRun
    /\ UNCHANGED <<today, name, tables, renamed>>

\* Killed: the days it was to index come up again only if they are late ones.
Kill ==
    /\ at # "idle"
    /\ at' = "idle"
    /\ NoRun
    /\ stale' = Packages
    /\ UNCHANGED <<today, name, tables, shown, owed, renamed>>

Next ==
    \/ \E u \in Visitors, url \in Urls : View(u, url)
    \/ NextDay
    \/ \E p \in Packages, page \in Pages : Rename(p, page)
    \/ \E start \in 0 .. today, given \in BOOLEAN : Begin(start, given)
    \/ Clear
    \/ Count
    \/ FillNames
    \/ LinkTotals
    \/ PageTotals
    \/ Index
    \/ Kill

Spec == Init /\ [][Next]_vars

-----------------------------------------------------------------------------
(***************************************************************************)
(* Properties, of a run that comes to its end and leaves nothing owed: the  *)
(* runs that were killed before it, at whatever statement, are made up for. *)
(***************************************************************************)

\* Every day that was over has its visitors, counted once each, and the running total
\* of every row is the sum of the counts up to its day, of the link, or of the package
\* under whatever names it had.
SummaryAddsUp ==
    [][Index /\ owed' = None =>
         /\ \A url \in Urls, d \in 0 .. until :
              LET rows == {s \in summary : s.url = url /\ s.day = d}
              IN  d < until =>
                    IF VisitorsOf(url, d) = {} THEN rows = {}
                    ELSE \E s \in rows : s.count = Cardinality(VisitorsOf(url, d))
         /\ \A s \in summary :
              LET same == {t \in summary :
                             IF s.url \in Links THEN t.url = s.url ELSE t.pkg = s.pkg}
              IN  s.pkg # NotFound => s.total = CountsUntil(s.day, same)]_vars

\* The index shows the totals of the summary, of packages that were not renamed
\* and that no killed run has left out.
IndexShowsTotals ==
    [][Index /\ owed' = None =>
         \A p \in Packages \ (stale \cup renamed)' : shown'[p] \in TotalsOf(p)]_vars
=============================================================================
