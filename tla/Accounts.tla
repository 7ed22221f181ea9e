------------------------------- MODULE Accounts -------------------------------
(***************************************************************************)
(* Accounts: their names, passwords and API keys.                           *)
(*                                                                         *)
(* A request loads the row of the account into its session, and its commit  *)
(* writes the attributes that it set to something else than it had loaded.  *)
(* A login with a password whose hash is of an old kind stores it anew.     *)
(*                                                                         *)
(* Abstractions: the other columns are left out; who may change an         *)
(* account is left to Authorization, but that a deleted one may do nothing; *)
(* a key or a hash is drawn once.                                          *)
(***************************************************************************)
EXTENDS Naturals, FiniteSets

CONSTANTS
    Users,          \* rows of the table user
    Names,
    SiteId,         \* of Names: ckan.site_id, the name of the account of the portal
    Passwords,
    Workers,
    MaxKeys,        \* bound on the API keys
    None

VARIABLES
    row,        \* of each account: name, password, key, state, or None
    nextKey,
    pc,         \* of each worker: idle, or at its commit
    req,        \* its request: the account, its kind
    loaded,     \* the row as the session has it, or None
    change,     \* the attributes the session set
    lastSet,    \* history: the password that was last chosen for each account
    crossed     \* history: accounts with a login that stored a hash after the password had changed

vars == <<row, nextKey, pc, req, loaded, change, lastSet, crossed>>

Rows == [name : Names, password : [text : Passwords, old : BOOLEAN], key : Nat,
         state : {"active", "deleted"}]
NoRequest == [user |-> None, kind |-> "none"]

Existing == {u \in Users : row[u] # None}

TypeOK ==
    /\ \A u \in Existing : row[u] \in Rows /\ row[u].key < nextKey
    /\ \A u, v \in Existing : row[u].name = row[v].name => u = v
    /\ pc \in [Workers -> {"idle", "commit"}]
    /\ \A w \in Workers : DOMAIN change[w] \subseteq {"name", "password", "key", "state"}

\* An account from before the hashes changed may be there.
Init ==
    /\ \E S \in {T \in SUBSET Users : Cardinality(T) =< 1}, n \in Names \ {SiteId}, p \in Passwords :
         row = [u \in Users |-> IF u \in S
                  THEN [name |-> n, password |-> [text |-> p, old |-> TRUE], key |-> 0,
                        state |-> "active"]
                  ELSE None]
    /\ nextKey = 1
    /\ pc = [w \in Workers |-> "idle"]
    /\ req = [w \in Workers |-> NoRequest]
    /\ loaded = [w \in Workers |-> None]
    /\ change = [w \in Workers |-> <<>>]
    /\ lastSet = [u \in Users |-> IF row[u] = None THEN None ELSE row[u].password.text]
    /\ crossed = {}

-----------------------------------------------------------------------------
Start(w, u, kind, set) ==
    /\ pc[w] = "idle"
    /\ pc' = [pc EXCEPT ![w] = "commit"]
    /\ req' = [req EXCEPT ![w] = [user |-> u, kind |-> kind]]
    /\ loaded' = [loaded EXCEPT ![w] = row[u]]
    /\ change' = [change EXCEPT ![w] = set]
    /\ UNCHANGED <<row, lastSet, crossed>>

\* user_name_validator: no other account has the name, deleted ones included.
NameIsFree(n, u) == \A v \in Existing \ {u} : row[v].name # n

Hash(p) == [text |-> p, old |-> FALSE]

New(u) == row[u] = None /\ \A w \in Workers : req[w].user # u

\* user_create, and paster user add.
UserCreate(w, u, n, p) ==
    /\ New(u) /\ n # SiteId /\ NameIsFree(n, u) /\ nextKey < MaxKeys
    /\ Start(w, u, "create", [name |-> n, password |-> Hash(p), key |-> nextKey,
                              state |-> "active"])
    /\ nextKey' = nextKey + 1

\* get_site_user makes the account of the portal when it finds none.
GetSiteUser(w, u, p) ==
    /\ New(u) /\ NameIsFree(SiteId, u) /\ nextKey < MaxKeys
    /\ Start(w, u, "create", [name |-> SiteId, password |-> Hash(p), key |-> nextKey,
                              state |-> "active"])
    /\ nextKey' = nextKey + 1

\* user_update: what is missing in the request stays; the state may be sent back as it
\* was read.  paster user setpass sets the password alone.
UserUpdate(w, u, set) ==
    /\ u \in Existing
    /\ "name" \in DOMAIN set => NameIsFree(set.name, u)
    /\ Start(w, u, "update", set)
    /\ UNCHANGED nextKey

\* user_generate_apikey: an update with all that user_show returns, and a new key.
UserGenerateApikey(w, u) ==
    /\ u \in Existing /\ nextKey < MaxKeys
    /\ Start(w, u, "apikey", [name |-> row[u].name, state |-> row[u].state,
                              key |-> nextKey])
    /\ nextKey' = nextKey + 1

\* validate_password: an old hash that matches is replaced.
Login(w, u) ==
    /\ u \in Existing /\ row[u].password.old
    /\ Start(w, u, "login", [password |-> Hash(row[u].password.text)])
    /\ UNCHANGED nextKey

Idle(w) ==
    /\ pc' = [pc EXCEPT ![w] = "idle"]
    /\ req' = [req EXCEPT ![w] = NoRequest]
    /\ loaded' = [loaded EXCEPT ![w] = None]
    /\ change' = [change EXCEPT ![w] = <<>>]

\* The attributes the unit of work writes; a new hash is another one each time.
Dirty(w) ==
    {f \in DOMAIN change[w] :
       loaded[w] = None \/ f = "password" \/ change[w][f] # loaded[w][f]}

After(w) ==
    IF loaded[w] = None THEN change[w]
    ELSE [f \in DOMAIN row[req[w].user] |-> IF f \in Dirty(w) THEN change[w][f]
                                            ELSE row[req[w].user][f]]

\* The name is unique in the table: a commit that brings a name a second time fails.
CommitAs(w, new) ==
    LET u == req[w].user
    IN  /\ pc[w] = "commit"
        /\ IF NameIsFree(new.name, u)
           THEN /\ row' = [row EXCEPT ![u] = new]
                /\ lastSet' = IF req[w].kind # "login" /\ "password" \in DOMAIN change[w]
                              THEN [lastSet EXCEPT ![u] = new.password.text] ELSE lastSet
                /\ crossed' = IF req[w].kind = "login" /\ row[u].password # loaded[w].password
                              THEN crossed \cup {u}
                              ELSE IF "password" \in DOMAIN change[w] THEN crossed \ {u}
                              ELSE crossed
           ELSE UNCHANGED <<row, lastSet, crossed>>
        /\ Idle(w)
        /\ UNCHANGED nextKey

\* Mutant of Commit: the row is written as the session has it.
CommitWhole(w) ==
    CommitAs(w, [f \in DOMAIN change[w] \cup (IF loaded[w] = None THEN {} ELSE DOMAIN loaded[w]) |->
                   IF f \in DOMAIN change[w] THEN change[w][f] ELSE loaded[w][f]])

Commit(w) == CommitAs(w, After(w))

\* A validation fails, or the worker dies.
Abort(w) ==
    /\ pc[w] = "commit"
    /\ Idle(w)
    /\ UNCHANGED <<row, nextKey, lastSet, crossed>>

\* user_delete, and paster user remove.
UserDelete(u) ==
    /\ u \in Existing
    /\ row' = [row EXCEPT ![u].state = "deleted"]
    /\ UNCHANGED <<nextKey, pc, req, loaded, change, lastSet, crossed>>

UserUpdates ==
    {[name |-> n, state |-> "active"] : n \in Names} \cup {[password |-> Hash(p)] : p \in Passwords}

Next ==
    \/ \E w \in Workers, u \in Users :
         \/ \E n \in Names, p \in Passwords : UserCreate(w, u, n, p)
         \/ \E p \in Passwords : GetSiteUser(w, u, p)
         \/ \E set \in UserUpdates : UserUpdate(w, u, set)
         \/ UserGenerateApikey(w, u)
         \/ Login(w, u)
    \/ \E w \in Workers : Commit(w) \/ Abort(w)
    \/ \E u \in Users : UserDelete(u)

Spec == Init /\ [][Next]_vars

-----------------------------------------------------------------------------
(***************************************************************************)
(* Properties.                                                             *)
(***************************************************************************)
\* user_authenticate.
Accepts(u, p) == row[u].password.text = p

\* An account accepts the password that was last chosen for it, whatever logins stored
\* the hash anew; only a login that had read the old password before it was changed may
\* bring it back.
PasswordsAsSet ==
    \A u \in Existing \ crossed : \A p \in Passwords : Accepts(u, p) <=> p = lastSet[u]

\* A request writes what it was asked to write: a deletion is undone, and a name, a key
\* or the rest is changed, only by a request that set it to something it had not read.
OnlyWhatIsAsked ==
    [][\A w \in Workers : Commit(w) =>
         \A u \in Existing : \A f \in {"name", "key", "state"} :
           row'[u][f] # row[u][f] =>
             u = req[w].user /\ f \in DOMAIN change[w] /\ change[w][f] # loaded[w][f]]_vars
=============================================================================
