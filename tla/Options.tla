--------------------------------- MODULE Options ---------------------------------
(***************************************************************************)
(* Configuration options that may be changed at run time: rows of the table *)
(* system_info, of which every process keeps a copy in its config.          *)
(*                                                                         *)
(* config_option_update saves its options one by one, each in a transaction *)
(* of its own, and then a stamp.  A process looks at the stamp at each      *)
(* request and reads all options again when it is not the one it has seen;  *)
(* a lock that nobody waits for keeps its threads from doing so twice.      *)
(*                                                                         *)
(* Abstractions: all processes have the same configuration file; one thread *)
(* of a process updates at a time; what is derived from the options (the    *)
(* attributes of app_globals) changes with them.                           *)
(***************************************************************************)
EXTENDS Naturals

CONSTANTS
    Processes,
    Keys, Values,
    Default,      \* the value of the configuration file
    Asks,         \* what config_option_update may be asked for: functions on sets of keys
    MaxUpdates,   \* bound on the updates
    None

VARIABLES
    row,          \* of each key in system_info, or None
    stamp,        \* the row of 'ckan.config_update', or None
    now,          \* what time.time() says, as a string
    config,       \* of each process
    seen,         \* _config_update of each process
    updating,     \* the update of each process
    checking,     \* the thread of each process that holds the lock
    updates,      \* the updates so far
    spoiled       \* TRUE once a process died in an update, or two stamps were the same

rows == <<row, stamp>>
count == <<now, updates, spoiled>>
vars == <<rows, count, config, seen, updating, checking>>

NoUpdate == [at |-> "idle"]
NoCheck == [at |-> "idle"]

TypeOK ==
    /\ row \in [Keys -> Values \cup {None}]
    /\ stamp \in 1 .. now \cup {None}
    /\ config \in [Processes -> [Keys -> Values \cup {Default}]]
    /\ seen \in [Processes -> 1 .. now \cup {None}]
    /\ \A p \in Processes :
         /\ updating[p].at \in {"idle", "next", "write", "set", "stamp"}
         /\ checking[p].at \in {"idle", "next", "set"}
    /\ updates \in 0 .. MaxUpdates /\ now \in 0 .. MaxUpdates /\ spoiled \in BOOLEAN

Init ==
    /\ row = [k \in Keys |-> None]
    /\ stamp = None
    /\ now = 0
    /\ config = [p \in Processes |-> [k \in Keys |-> Default]]
    /\ seen = [p \in Processes |-> None]
    /\ updating = [p \in Processes |-> NoUpdate]
    /\ checking = [p \in Processes |-> NoCheck]
    /\ updates = 0
    /\ spoiled = FALSE

Option(k) == IF row[k] = None THEN Default ELSE row[k]

-----------------------------------------------------------------------------
(***************************************************************************)
(* config_option_update.                                                   *)
(***************************************************************************)
Update(p, ask) ==
    /\ updates < MaxUpdates
    /\ updates' = updates + 1
    /\ updating[p].at = "idle"
    /\ updating' = [updating EXCEPT ![p] = [at |-> "next", left |-> ask]]
    /\ UNCHANGED <<rows, now, spoiled, config, seen, checking>>

\* set_system_info: the row is looked up, and left alone when it has the value.
ReadRow(p, k) ==
    LET u == updating[p]
    IN  /\ u.at = "next" /\ k \in DOMAIN u.left
        /\ updating' = [updating EXCEPT ![p] =
              [at |-> IF row[k] = u.left[k] THEN "set" ELSE "write",
               left |-> u.left, key |-> k, was |-> row[k]]]
        /\ UNCHANGED <<rows, count, config, seen, checking>>

\* The key is unique: an insert fails, and the update with it, if there is a row now.
WriteRow(p) ==
    LET u == updating[p]
        fails == u.was = None /\ row[u.key] # None
    IN  /\ u.at = "write"
        /\ row' = IF fails THEN row ELSE [row EXCEPT ![u.key] = u.left[u.key]]
        /\ updating' = [updating EXCEPT ![p] = IF fails THEN NoUpdate ELSE [u EXCEPT !.at = "set"]]
        /\ UNCHANGED <<stamp, count, config, seen, checking>>

SetOption(p) ==
    LET u == updating[p]
        rest == DOMAIN u.left \ {u.key}
    IN  /\ u.at = "set"
        /\ config' = [config EXCEPT ![p][u.key] = u.left[u.key]]
        /\ updating' = [updating EXCEPT ![p] = [at |-> "next", left |-> [k \in rest |-> u.left[k]]]]
        /\ UNCHANGED <<rows, count, seen, checking>>

\* time.time() as a string has hundredths of a second: two updates may say the same.
ReadStamp(p) ==
    LET u == updating[p]
    IN  /\ u.at = "next" /\ DOMAIN u.left = {}
        /\ \E t \in {now, now + 1} \ {0} :
             /\ now' = t
             /\ spoiled' = (spoiled \/ t = now)
             /\ updating' = [updating EXCEPT ![p] = [at |-> "stamp", time |-> t, was |-> stamp]]
        /\ UNCHANGED <<rows, updates, config, seen, checking>>

WriteStamp(p) ==
    LET u == updating[p]
    IN  /\ u.at = "stamp"
        /\ stamp' = IF u.was = None /\ stamp # None THEN stamp ELSE u.time
        /\ updating' = [updating EXCEPT ![p] = NoUpdate]
        /\ UNCHANGED <<row, count, config, seen, checking>>

-----------------------------------------------------------------------------
(***************************************************************************)
(* _check_uptodate and reset.                                              *)
(***************************************************************************)
Check(p) ==
    /\ checking[p].at = "idle"
    /\ seen[p] # stamp
    /\ checking' = [checking EXCEPT ![p] = [at |-> "next", stamp |-> stamp, left |-> Keys]]
    /\ UNCHANGED <<rows, count, config, seen, updating>>

ReadOption(p, k) ==
    LET c == checking[p]
    IN  /\ c.at = "next" /\ k \in c.left
        /\ checking' = [checking EXCEPT ![p] =
              [at |-> "set", stamp |-> c.stamp, left |-> c.left \ {k}, key |-> k, value |-> Option(k)]]
        /\ UNCHANGED <<rows, count, config, seen, updating>>

CopyOption(p) ==
    LET c == checking[p]
    IN  /\ c.at = "set"
        /\ config' = [config EXCEPT ![p][c.key] = c.value]
        /\ checking' = [checking EXCEPT ![p] =
              [at |-> "next", stamp |-> c.stamp, left |-> c.left]]
        /\ UNCHANGED <<rows, count, seen, updating>>

\* Mutant of Checked: options that were not read yet are left out.
CheckedEarly(p) ==
    /\ checking[p].at = "next"
    /\ seen' = [seen EXCEPT ![p] = checking[p].stamp]
    /\ checking' = [checking EXCEPT ![p] = NoCheck]
    /\ UNCHANGED <<rows, count, config, updating>>

\* What the process has seen is the stamp it read before the options.
Checked(p) ==
    /\ checking[p].at = "next" /\ checking[p].left = {}
    /\ seen' = [seen EXCEPT ![p] = checking[p].stamp]
    /\ checking' = [checking EXCEPT ![p] = NoCheck]
    /\ UNCHANGED <<rows, count, config, updating>>

\* A process dies and another one starts, which reads the options (update_config).
Restart(p) ==
    /\ config' = [config EXCEPT ![p] = [k \in Keys |-> Option(k)]]
    /\ seen' = [seen EXCEPT ![p] = None]
    /\ spoiled' = (spoiled \/ updating[p].at # "idle")
    /\ updating' = [updating EXCEPT ![p] = NoUpdate]
    /\ checking' = [checking EXCEPT ![p] = NoCheck]
    /\ UNCHANGED <<rows, now, updates>>

Next ==
    \E p \in Processes :
      \/ \E ask \in Asks : Update(p, ask)
      \/ \E k \in Keys : ReadRow(p, k) \/ ReadOption(p, k)
      \/ WriteRow(p)
      \/ SetOption(p)
      \/ ReadStamp(p)
      \/ WriteStamp(p)
      \/ Check(p)
      \/ CopyOption(p)
      \/ Checked(p)
      \/ Restart(p)

Spec == Init /\ [][Next]_vars

-----------------------------------------------------------------------------
(***************************************************************************)
(* Properties.                                                             *)
(***************************************************************************)

\* Once no update is in progress, a process that has seen the stamp has the options of
\* the table, however updates, failed ones among them, and readings crossed; unless
\* a process died in an update, or two updates have the same stamp.
SeenIsCurrent ==
    ~ spoiled /\ (\A p \in Processes : updating[p].at = "idle") =>
        \A p \in Processes : checking[p].at = "idle" /\ seen[p] = stamp =>
            config[p] = [k \in Keys |-> Option(k)]
=============================================================================
