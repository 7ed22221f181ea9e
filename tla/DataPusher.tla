------------------------------- MODULE DataPusher -------------------------------
(***************************************************************************)
(* The DataPusher extension: datapusher_submit asks a service to load the   *)
(* file of a resource into the DataStore, the service calls datapusher_hook *)
(* when it is done, and a row of the table task_status says how far it is.  *)
(*                                                                         *)
(* A request submits by itself, or because a session is about to commit a   *)
(* resource that is new or has a new url: then the service may be at work   *)
(* on the resource before it is committed.  Every write of the row is a     *)
(* transaction of its own and writes all of its columns.                   *)
(*                                                                         *)
(* The service is external: it takes a job or refuses it, asks for the      *)
(* resource, may set its url and url_type when the job says so, and calls   *)
(* back once.                                                              *)
(***************************************************************************)
EXTENDS Naturals, Sequences, FiniteSets

CONSTANTS
    Resources,
    Workers,
    MaxAsked,     \* bound on the submissions that users bring about
    None

VARIABLES
    exists,       \* the committed resources
    pushed,       \* those with url_type 'datapusher'
    task,         \* the task_status row of each resource, or None
    jobs,         \* of the service, numbered from 1
    pc,           \* of each worker
    loc,          \* what the request of the worker has in its hands
    asked,        \* submissions that users brought about
    upset         \* resources whose last callback was too early or refused, or
                  \* whose submission was killed

vars == <<exists, pushed, task, jobs, pc, loc, asked, upset>>

Final == {"complete", "error"}
States == Final \cup {"submitting", "pending"}
Steps == {"idle", "write", "post", "refused", "accepted", "commit", "hook"}
NoRequest == [kind |-> "none", res |-> None, known |-> FALSE, job |-> 0, row |-> None]

TypeOK ==
    /\ exists \subseteq Resources /\ pushed \subseteq exists
    /\ \A r \in Resources : task[r] # None =>
         /\ task[r].state \in States /\ task[r].job \in 0 .. Len(jobs)
         /\ task[r].state = "pending" => task[r].job # 0
         /\ task[r].job # 0 => jobs[task[r].job].res = r
    /\ \A j \in 1 .. Len(jobs) : jobs[j].at \in {"queued", "calling", "over"}
    /\ pc \in [Workers -> Steps]
    /\ asked \in 0 .. MaxAsked /\ upset \subseteq Resources

Init ==
    /\ exists = {}
    /\ pushed = {}
    /\ task = [r \in Resources |-> None]
    /\ jobs = <<>>
    /\ pc = [w \in Workers |-> "idle"]
    /\ loc = [w \in Workers |-> NoRequest]
    /\ asked = 0
    /\ upset = {}

Idle(w) ==
    /\ pc' = [pc EXCEPT ![w] = "idle"]
    /\ loc' = [loc EXCEPT ![w] = NoRequest]

Goto(w, step) == pc' = [pc EXCEPT ![w] = step]

Row(s, job) == [state |-> s, job |-> job]

-----------------------------------------------------------------------------
(***************************************************************************)
(* datapusher_submit.                                                      *)
(***************************************************************************)
Submit(w, r, kind, setType) ==
    /\ pc[w] = "idle"
    /\ Goto(w, "write")
    /\ loc' = [loc EXCEPT ![w] =
                 [kind |-> kind, res |-> r, known |-> task[r] # None, job |-> 0,
                  row |-> None, setType |-> setType]]

\* Through the API, by a user who may update the resource.
Request(w, r, setType) ==
    /\ r \in exists /\ asked < MaxAsked
    /\ Submit(w, r, "api", setType)
    /\ asked' = asked + 1
    /\ UNCHANGED <<exists, pushed, task, jobs, upset>>

\* DatapusherPlugin.notify; the resources here have one of the formats.
Concerns(r, ofService) == r \notin ofService

\* A session is about to commit a new resource, or one with a new url.
Save(w, r) ==
    /\ asked < MaxAsked /\ Concerns(r, pushed)
    /\ Submit(w, r, "notify", FALSE)
    /\ asked' = asked + 1
    /\ UNCHANGED <<exists, pushed, task, jobs, upset>>

Failed(w) == Idle(w) /\ UNCHANGED <<exists, pushed, task, jobs, asked, upset>>

\* task_status_update looks the row up and inserts it when there is none: of two
\* first submissions at once, the second may fail on the unique constraint.
WriteSubmitting(w) ==
    /\ pc[w] = "write"
    /\ \/ /\ task' = [task EXCEPT ![loc[w].res] = Row("submitting", 0)]
          /\ Goto(w, "post")
          /\ UNCHANGED <<exists, pushed, jobs, loc, asked, upset>>
       \/ /\ ~ loc[w].known /\ task[loc[w].res] # None
          /\ Failed(w)

\* The service takes the job.
PostAccepted(w) ==
    /\ pc[w] = "post"
    /\ jobs' = Append(jobs, [res |-> loc[w].res, at |-> "queued", setType |-> loc[w].setType])
    /\ loc' = [loc EXCEPT ![w].job = Len(jobs) + 1]
    /\ Goto(w, "accepted")
    /\ UNCHANGED <<exists, pushed, task, asked, upset>>

\* ConnectionError or HTTPError.
PostRefused(w) ==
    /\ pc[w] = "post"
    /\ Goto(w, "refused")
    /\ UNCHANGED <<exists, pushed, task, jobs, loc, asked, upset>>

\* notify swallows the ValidationError and the session commits; a request of the
\* API ends.
Leave(w) == IF loc[w].kind = "notify" THEN Goto(w, "commit") /\ UNCHANGED loc ELSE Idle(w)

\* Mutant of WriteError: the exception leaves the row as it is.
WriteErrorNot(w) ==
    /\ pc[w] = "refused"
    /\ Leave(w)
    /\ UNCHANGED <<exists, pushed, task, jobs, asked, upset>>

WriteError(w) ==
    /\ pc[w] = "refused"
    /\ task' = [task EXCEPT ![loc[w].res] = Row("error", 0)]
    /\ Leave(w)
    /\ UNCHANGED <<exists, pushed, jobs, asked, upset>>

WritePending(w) ==
    /\ pc[w] = "accepted"
    /\ task' = [task EXCEPT ![loc[w].res] = Row("pending", loc[w].job)]
    /\ Leave(w)
    /\ UNCHANGED <<exists, pushed, jobs, asked, upset>>

CommitResource(w) ==
    /\ pc[w] = "commit"
    /\ exists' = exists \cup {loc[w].res}
    /\ Idle(w)
    /\ UNCHANGED <<pushed, task, jobs, asked, upset>>

\* A worker dies.
Kill(w) ==
    /\ pc[w] # "idle"
    /\ upset' = upset \cup {loc[w].res}
    /\ Idle(w)
    /\ UNCHANGED <<exists, pushed, task, jobs, asked>>

-----------------------------------------------------------------------------
(***************************************************************************)
(* The service, and datapusher_hook.                                       *)
(***************************************************************************)

\* The job gives the resource a url of the DataStore and the url_type, through
\* resource_update: the session notifies the extension of the new url.
SetType(w, j) ==
    LET r == jobs[j].res
    IN  /\ jobs[j].at = "queued" /\ jobs[j].setType /\ r \in exists \ pushed
        /\ pc[w] = "idle"
        /\ pushed' = pushed \cup {r}
        /\ IF Concerns(r, pushed') THEN Submit(w, r, "notify", FALSE)
           ELSE UNCHANGED <<pc, loc>>
        /\ UNCHANGED <<exists, task, jobs, asked, upset>>

\* The service calls back; the hook reads the row. The access check fails for a
\* resource that is not there, and there may be no row.
Callback(w, j) ==
    LET r == jobs[j].res
    IN  /\ pc[w] = "idle" /\ jobs[j].at = "queued"
        /\ IF r \in exists /\ task[r] # None
           THEN /\ Goto(w, "hook")
                /\ loc' = [loc EXCEPT ![w] = [NoRequest EXCEPT !.kind = "hook", !.res = r,
                                              !.job = j, !.row = task[r]]]
                /\ jobs' = [jobs EXCEPT ![j].at = "calling"]
                /\ UNCHANGED upset
           ELSE /\ jobs' = [jobs EXCEPT ![j].at = "over"]
                /\ upset' = upset \cup {r}
                /\ UNCHANGED <<pc, loc>>
        /\ UNCHANGED <<exists, pushed, task, asked>>

\* The submission of the job has yet to write its pending.
Early(j) == \E w \in Workers : pc[w] = "accepted" /\ loc[w].job = j

\* The hook writes the whole row it has read, with the status.
HookWrite(w, status) ==
    LET r == loc[w].res
    IN  /\ pc[w] = "hook"
        /\ task' = [task EXCEPT ![r] = [loc[w].row EXCEPT !.state = status]]
        /\ jobs' = [jobs EXCEPT ![loc[w].job].at = "over"]
        /\ upset' = IF Early(loc[w].job) THEN upset \cup {r} ELSE upset
        /\ Idle(w)
        /\ UNCHANGED <<exists, pushed, asked>>

Next ==
    \E w \in Workers :
      \/ \E r \in Resources : Save(w, r) \/ \E setType \in BOOLEAN : Request(w, r, setType)
      \/ WriteSubmitting(w)
      \/ PostAccepted(w)
      \/ PostRefused(w)
      \/ WriteError(w)
      \/ WritePending(w)
      \/ CommitResource(w)
      \/ Kill(w)
      \/ \E j \in 1 .. Len(jobs) : SetType(w, j) \/ Callback(w, j)
      \/ \E status \in Final : HookWrite(w, status)

Spec == Init /\ [][Next]_vars

-----------------------------------------------------------------------------
(***************************************************************************)
(* Properties.                                                             *)
(***************************************************************************)
Quiet ==
    /\ \A w \in Workers : pc[w] = "idle"
    /\ \A j \in 1 .. Len(jobs) : jobs[j].at = "over"

\* When nothing is under way any more, a task says that it is complete or that it
\* failed, whatever submissions and callbacks of the resource crossed; the
\* exceptions are a callback that overtook its own submission or found no
\* committed resource, and a worker that was killed.
TasksSettle ==
    Quiet => \A r \in Resources \ upset : task[r] # None => task[r].state \in Final

\* A push that changes the resource it pushes does not bring about another one:
\* every job goes back to something a user did.
JobsComeFromUsers == Len(jobs) =< asked
=============================================================================
