-------------------------------- MODULE Plugins --------------------------------
(***************************************************************************)
(* The plugins of a process, and what is kept of what they define: forms    *)
(* and helpers are registered when plugins are loaded or unloaded, so are   *)
(* actions; authorization functions and validators are looked up in caches  *)
(* that the first request to need them fills, with its threads beside it.   *)
(*                                                                         *)
(* Abstractions: plugins are loaded and unloaded while no request is        *)
(* served; what a plugin defines does not change while it is loaded; a      *)
(* dataset form and a group form are registered alike, so one stands for    *)
(* both.                                                                   *)
(***************************************************************************)
EXTENDS Naturals, Sequences, FiniteSets, Functions

CONSTANTS
    Plugins,    \* the entry points that are found
    Unknown,    \* a name that is not one of them
    Threads,
    Core,       \* for each of Caches, the names core defines: of actions and so on
    Defines,    \* those each plugin defines
    TypesOf,    \* the types of datasets a plugin has a form for
    Fallbacks,  \* the plugins whose form is the fallback
    MaxLoads    \* bound on what is loaded and unloaded

Caches == {"actions", "auth", "validators", "helpers"}

VARIABLES
    loaded,   \* _PLUGINS
    cache,    \* what each cache has: a function from names to who defines them
    forms,    \* _package_plugins, and the fallback under the type "default"
    thread,   \* the request of each thread
    loads,    \* loads and unloads so far
    broken    \* TRUE from a load or unload that failed to one that did not

vars == <<loaded, cache, forms, thread, loads, broken>>

Nothing == [n \in {} |-> "core"]
Idle == [at |-> "idle"]
Running == {loaded[i] : i \in DOMAIN loaded}

TypeOK ==
    /\ \A i, j \in DOMAIN loaded : loaded[i] = loaded[j] => i = j
    /\ Running \subseteq Plugins
    /\ \A c \in Caches : \A n \in DOMAIN cache[c] : cache[c][n] \in Plugins \cup {"core", "raw"}
    /\ \A t \in DOMAIN forms : forms[t] \in Plugins \cup {"core"}
    /\ \A t \in Threads : thread[t].at \in {"idle", "core", "plugins"}

-----------------------------------------------------------------------------
(***************************************************************************)
(* What the loaded plugins define.                                         *)
(***************************************************************************)
Definers(c, n, ps) == {p \in ps : n \in Defines[p][c]}
NamesOf(c, ps) == UNION {Defines[p][c] : p \in ps}

\* Two plugins define one name.  A validator may not be that of core either.
Conflict(c, ps) ==
    \E n \in NamesOf(c, ps) : \/ Cardinality(Definers(c, n, ps)) > 1
                              \/ c = "validators" /\ n \in Core[c]

FormConflict(ps) ==
    \/ Cardinality(ps \cap Fallbacks) > 1
    \/ \E p, q \in ps : p # q /\ TypesOf[p] \cap TypesOf[q] # {}

\* What a cache has once it is filled: plugins come before core.
Expected(c, ps) ==
    [n \in Core[c] \cup NamesOf(c, ps) |->
        IF Definers(c, n, ps) = {} THEN "core" ELSE CHOOSE p \in Definers(c, n, ps) : TRUE]

\* register_package_plugins, for the plugins it came to.
Forms(ps) ==
    [t \in {"default"} \cup UNION {TypesOf[p] : p \in ps} |->
        IF t # "default" THEN CHOOSE p \in ps : t \in TypesOf[p]
        ELSE IF ps \cap Fallbacks = {} THEN "core" ELSE CHOOSE p \in ps \cap Fallbacks : TRUE]

Init ==
    /\ loaded = <<>>
    /\ cache = [c \in Caches |-> IF c \in {"actions", "helpers"} THEN Expected(c, {}) ELSE Nothing]
    /\ forms = Forms({})
    /\ thread = [t \in Threads |-> Idle]
    /\ loads = 0
    /\ broken = FALSE

-----------------------------------------------------------------------------
(***************************************************************************)
(* Loading.                                                                *)
(***************************************************************************)

\* get_action, for the first time: the functions of core are in the cache before those of
\* the plugins are known not to conflict, and are wrapped after that.
Actions(ps) ==
    IF Conflict("actions", ps) THEN [n \in Core["actions"] |-> "raw"] ELSE Expected("actions", ps)

\* Mutant of Cleared: the validators are not cleared.
ClearedNot(c) == IF c = "validators" THEN cache[c] ELSE Nothing

\* clear_validators_cache and clear_auth_functions_cache.
Cleared(c) == Nothing

\* update_config registers forms, then helpers, then clears the caches and has the actions
\* resolved; it stops at the first conflict and leaves the rest as it was.
UpdateConfig(ps) ==
    /\ broken' = (FormConflict(ps) \/ Conflict("helpers", ps) \/ Conflict("actions", ps))
    /\ IF FormConflict(ps)
         THEN /\ \E done \in SUBSET ps : ~ FormConflict(done) /\ forms' = Forms(done)
              /\ UNCHANGED cache
         ELSE /\ forms' = Forms(ps)
              /\ IF Conflict("helpers", ps) THEN UNCHANGED cache
                 ELSE cache' = [c \in Caches |-> CASE c = "helpers" -> Expected(c, ps)
                                                   [] c = "actions" -> Actions(ps)
                                                   [] OTHER -> Cleared(c)]

AtRest == \A t \in Threads : thread[t] = Idle

Counted == loads < MaxLoads /\ loads' = loads + 1

\* The plugins of ps up to the first that is not one of these, or a second time.
UpTo(ps, these) ==
    LET wrong == {i \in DOMAIN ps : ps[i] \notin these \/ \E j \in 1 .. i - 1 : ps[j] = ps[i]}
    IN  IF wrong = {} THEN ps
        ELSE SubSeq(ps, 1, (CHOOSE i \in wrong : \A j \in wrong : i =< j) - 1)

\* plugins_update, if all that was asked for was done; an exception comes before it.
Finish(done) ==
    IF done THEN UpdateConfig({loaded'[i] : i \in DOMAIN loaded'})
    ELSE broken' = TRUE /\ UNCHANGED <<cache, forms>>

\* load: the plugins before one that is not found, or loaded already, stay active.
Load(ps) ==
    LET good == UpTo(ps, Plugins \ Running)
    IN  /\ AtRest /\ Counted
        /\ loaded' = loaded \o good
        /\ Finish(good = ps)
        /\ UNCHANGED thread

\* unload, and unload_all when it is given all that is loaded: those before one that is
\* not loaded are gone.
Unload(ps) ==
    LET good == UpTo(ps, Running)
    IN  /\ AtRest /\ Counted
        /\ loaded' = SelectSeq(loaded, LAMBDA p : \A i \in DOMAIN good : good[i] # p)
        /\ Finish(good = ps)
        /\ UNCHANGED thread

-----------------------------------------------------------------------------
(***************************************************************************)
(* Requests.  Threads look for one function at a time.                     *)
(***************************************************************************)
Lazy == {"auth", "validators"}

\* AuthFunctions.get and get_validator: a cache that has something is taken to be full.
Fill(t, c) ==
    /\ thread[t] = Idle /\ cache[c] = Nothing
    /\ thread' = [thread EXCEPT ![t] = [at |-> "core", cache |-> c]]
    /\ UNCHANGED <<loaded, cache, forms, loads, broken>>

FillCore(t) ==
    LET c == thread[t].cache
    IN  /\ thread[t].at = "core"
        /\ cache' = [cache EXCEPT ![c] = [n \in DOMAIN @ \cup Core[c] |->
                        IF n \in Core[c] THEN "core" ELSE @[n]]]
        /\ thread' = [thread EXCEPT ![t].at = "plugins"]
        /\ UNCHANGED <<loaded, forms, loads, broken>>

\* Auth functions are collected before any is put in the cache, validators are put there one
\* by one.  A conflict fails the request, not those after it; and a validator that
\* another thread has put there is a conflict.
FillPlugins(t) ==
    LET c == thread[t].cache
        full == [n \in DOMAIN cache[c] \cup NamesOf(c, Running) |->
                   IF n \in NamesOf(c, Running) THEN Expected(c, Running)[n] ELSE cache[c][n]]
        clash == Conflict(c, Running) \/ (c = "validators" /\ NamesOf(c, Running) \cap DOMAIN cache[c] # {})
    IN  /\ thread[t].at = "plugins"
        /\ \E names \in IF ~ clash THEN {DOMAIN full}
                        ELSE IF c = "auth" THEN {DOMAIN cache[c]}
                        ELSE {DOMAIN cache[c] \cup part : part \in SUBSET NamesOf(c, Running)} :
             cache' = [cache EXCEPT ![c] = [n \in names |-> IF clash /\ n \in DOMAIN @ THEN @[n] ELSE full[n]]]
        /\ thread' = [thread EXCEPT ![t] = Idle]
        /\ UNCHANGED <<loaded, forms, loads, broken>>

Next ==
    \/ \E n \in 0 .. Cardinality(Plugins) : \E ps \in [1 .. n -> Plugins \cup {Unknown}] :
         Load(ps) \/ Unload(ps)
    \/ \E t \in Threads : (\E c \in Lazy : Fill(t, c)) \/ FillCore(t) \/ FillPlugins(t)

Spec == Init /\ [][Next]_vars

-----------------------------------------------------------------------------
(***************************************************************************)
(* Properties.                                                             *)
(***************************************************************************)

\* When the last load or unload succeeded and no thread is filling a cache, what is looked
\* up is what the loaded plugins define, and core for the rest; whatever
\* failed before, and however threads filled the caches together.
ServedAsLoaded ==
    ~ broken /\ AtRest =>
        /\ forms = Forms(Running)
        /\ \A c \in {"actions", "helpers"} : cache[c] = Expected(c, Running)
        /\ \A c \in Lazy : cache[c] # Nothing /\ ~ Conflict(c, Running) =>
              cache[c] = Expected(c, Running)
=============================================================================
