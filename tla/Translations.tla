---------------------------- MODULE Translations ----------------------------
(***************************************************************************)
(* Translations of terms: the table term_translation, the requests that     *)
(* write it, and the multilingual extension, which puts the translations of *)
(* a dataset into its document and shows a dataset in the language of the   *)
(* reader.                                                                 *)
(*                                                                         *)
(* The table has no key.  A request updates the rows of a term and inserts  *)
(* one when there was none, so that two first translations of a term may    *)
(* both insert.  A transaction sees what others have committed and what it  *)
(* wrote itself, and waits for rows that others have updated.               *)
(*                                                                         *)
(* Abstractions: there is one dataset, with a name, a title and notes, and  *)
(* its document is made in one step.                                       *)
(***************************************************************************)
EXTENDS Naturals, Sequences, Functions

CONSTANTS
    Title, Notes,   \* of Terms, those of the dataset
    Terms,
    Texts,          \* what terms are translated into
    Langs,          \* the languages the extension knows
    DefaultLang,    \* of Langs, ckan.locale_default
    Requests,       \* sequences of [term, lang, text]
    Workers,
    MaxRequests,    \* bound on the requests
    None

Keys == Terms \X Langs

VARIABLES
    rows,       \* the texts of the rows of each term and language, in the order of their commits
    pc,         \* of each worker: idle, update, insert or commit
    todo,       \* what the worker has still to write
    sets,       \* its updates: for a key, the text and the number of rows it updated
    adds,       \* its inserts
    asked,      \* for each key of its request, the last text it asks for
    doc,        \* the fields of the document, or None
    started,
    crossed,    \* history: keys whose first translations crossed
    fresh       \* history: no translation was committed since the document was made

vars == <<rows, pc, todo, sets, adds, asked, doc, started, crossed, fresh>>
requests == <<pc, todo, sets, adds, asked, started>>

TypeOK ==
    /\ rows \in [Keys -> Seq(Texts)]
    /\ pc \in [Workers -> {"idle", "update", "insert", "commit"}]
    /\ \A w \in Workers : /\ DOMAIN adds[w] \subseteq DOMAIN asked[w]
                          /\ DOMAIN sets[w] \subseteq DOMAIN asked[w]
                          /\ \A k \in DOMAIN sets[w] : sets[w][k].count \in 0 .. Len(rows[k])
    /\ crossed \subseteq Keys

Nothing == <<>>

Init ==
    /\ rows = [k \in Keys |-> <<>>]
    /\ pc = [w \in Workers |-> "idle"]
    /\ todo = [w \in Workers |-> <<>>]
    /\ sets = [w \in Workers |-> Nothing]
    /\ adds = [w \in Workers |-> Nothing]
    /\ asked = [w \in Workers |-> Nothing]
    /\ doc = None /\ started = 0 /\ crossed = {} /\ fresh = FALSE

-----------------------------------------------------------------------------
(***************************************************************************)
(* term_translation_update, and term_translation_update_many, which calls   *)
(* it for each of its entries and commits once.                            *)
(***************************************************************************)
Key(entry) == <<entry.term, entry.lang>>
With(f, k, v) == [x \in DOMAIN f \cup {k} |-> IF x = k THEN v ELSE f[x]]

\* The last entry of a key counts.
LastOf(r) ==
    [k \in {Key(r[i]) : i \in DOMAIN r} |->
       r[CHOOSE i \in DOMAIN r : /\ Key(r[i]) = k
                                 /\ \A j \in DOMAIN r : Key(r[j]) = k => j =< i].text]

Ask(w, r) ==
    /\ pc[w] = "idle" /\ started < MaxRequests
    /\ pc' = [pc EXCEPT ![w] = "update"]
    /\ todo' = [todo EXCEPT ![w] = r]
    /\ asked' = [asked EXCEPT ![w] = LastOf(r)]
    /\ started' = started + 1
    /\ UNCHANGED <<rows, sets, adds, doc, crossed, fresh>>

After(w) == IF Len(todo[w]) = 1 THEN "commit" ELSE "update"

\* Rows that another transaction updated are locked until it ends.
Locked(w, k) == \E v \in Workers \ {w} : k \in DOMAIN sets[v] /\ sets[v][k].count > 0

\* Mutant of Updated: the rows the transaction inserted itself are not seen.
UpdatedCommitted(w, k) == Len(rows[k])

\* result.rowcount
Updated(w, k) == Len(rows[k]) + (IF k \in DOMAIN adds[w] THEN 1 ELSE 0)

Update(w) ==
    LET entry == Head(todo[w])
        k == Key(entry)
    IN  /\ pc[w] = "update" /\ ~ Locked(w, k)
        /\ sets' = [sets EXCEPT ![w] =
                      With(@, k, [text |-> entry.text, count |-> Len(rows[k])])]
        /\ adds' = IF k \in DOMAIN adds[w] THEN [adds EXCEPT ![w][k] = [i \in DOMAIN @ |-> entry.text]]
                   ELSE adds
        /\ IF Updated(w, k) > 0
           THEN pc' = [pc EXCEPT ![w] = After(w)] /\ todo' = [todo EXCEPT ![w] = Tail(@)]
           ELSE pc' = [pc EXCEPT ![w] = "insert"] /\ UNCHANGED todo
        /\ UNCHANGED <<rows, asked, doc, started, crossed, fresh>>

\* Nothing keeps two transactions from inserting the same key.
Insert(w) ==
    LET entry == Head(todo[w])
        k == Key(entry)
        mine == IF k \in DOMAIN adds[w] THEN adds[w][k] ELSE <<>>
    IN  /\ pc[w] = "insert"
        /\ adds' = [adds EXCEPT ![w] = With(@, k, Append(mine, entry.text))]
        /\ pc' = [pc EXCEPT ![w] = After(w)]
        /\ todo' = [todo EXCEPT ![w] = Tail(@)]
        /\ crossed' = IF rows[k] # <<>> \/ \E v \in Workers \ {w} : k \in DOMAIN adds[v]
                      THEN crossed \cup {k} ELSE crossed
        /\ UNCHANGED <<rows, sets, asked, doc, started, fresh>>

End(w) ==
    /\ pc' = [pc EXCEPT ![w] = "idle"]
    /\ todo' = [todo EXCEPT ![w] = <<>>]
    /\ sets' = [sets EXCEPT ![w] = Nothing]
    /\ adds' = [adds EXCEPT ![w] = Nothing]
    /\ asked' = [asked EXCEPT ![w] = Nothing]
    /\ UNCHANGED started

Commit(w) ==
    /\ pc[w] = "commit"
    /\ rows' = [k \in Keys |->
                  [i \in DOMAIN rows[k] |->
                     IF k \in DOMAIN sets[w] /\ i =< sets[w][k].count THEN sets[w][k].text
                     ELSE rows[k][i]]
                  \o (IF k \in DOMAIN adds[w] THEN adds[w][k] ELSE <<>>)]
    /\ fresh' = FALSE
    /\ End(w)
    /\ UNCHANGED <<doc, crossed>>

\* The worker dies, or is the victim of a deadlock with another.
Rollback(w) ==
    /\ pc[w] # "idle"
    /\ End(w)
    /\ UNCHANGED <<rows, doc, crossed, fresh>>

-----------------------------------------------------------------------------
(***************************************************************************)
(* The multilingual extension.  Where a term has several rows, the last one *)
(* of a query counts, and the order of a query is not defined.              *)
(***************************************************************************)

\* term_translation_show, for one term and one language.
Translations(term, lang) == Range(rows[<<term, lang>>])

\* The choices of one of the set, or of something else when it is empty.
OrElse(S, T) == IF S = {} THEN T ELSE S

\* translate_data_dict: the language of the reader, that of the portal, the term itself.
\* The names of facets and of selected facets are found in the same order.
Shown(term, lang) ==
    OrElse(Translations(term, lang), OrElse(Translations(term, DefaultLang), {term}))

\* before_index: a translation into the language of the portal replaces the title.
TitleFields(lang) ==
    OrElse(Translations(Title, lang), {IF lang = DefaultLang THEN Title ELSE None})

\* text_en and so on: the translations of the other terms, next to the terms themselves.
TextField(lang) ==
    Translations(Notes, lang) \cup (IF lang = DefaultLang THEN {Notes} ELSE {})

BeforeIndex ==
    /\ doc' \in {[title |-> title, text |-> [l \in Langs |-> TextField(l)]] :
                   title \in {f \in [Langs -> Texts \cup {Title, None}] :
                                \A l \in Langs : f[l] \in TitleFields(l)}}
    /\ fresh' = TRUE
    /\ UNCHANGED <<rows, requests, crossed>>

Next ==
    \/ \E w \in Workers :
         \/ \E r \in Requests : Ask(w, r)
         \/ Update(w)
         \/ Insert(w)
         \/ Commit(w)
         \/ Rollback(w)
    \/ BeforeIndex

Spec == Init /\ [][Next]_vars

-----------------------------------------------------------------------------
(***************************************************************************)
(* Properties.                                                             *)
(***************************************************************************)

\* A request that is done leaves one row for each term it named, with the last text it
\* gave, as long as no first translations of the term crossed.
EachHasItsRow ==
    [][\A w \in Workers : Commit(w) =>
         \A k \in DOMAIN asked[w] \ crossed : rows'[k] = <<asked[w][k]>>]_vars

\* Once the rows of a term are committed, the next update makes them all the same.
RowsAgreeAgain ==
    [][\A w \in Workers : Commit(w) =>
         \A k \in DOMAIN asked[w] : k \notin DOMAIN adds[w] /\ sets[w][k].count = Len(rows[k]) =>
           Range(rows'[k]) = {asked[w][k]}]_vars

\* What a reader is shown as the title or the notes is in a field that is searched,
\* whatever the language, until a translation changes.
FoundAsShown ==
    doc # None /\ fresh /\ crossed = {} =>
      \A lang \in Langs :
        /\ Shown(Title, lang) \subseteq Range(doc.title)
        /\ Shown(Notes, lang) \subseteq UNION Range(doc.text)
=============================================================================
