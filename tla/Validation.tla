------------------------------- MODULE Validation -------------------------------
(***************************************************************************)
(* navl: how a nested dictionary is flattened, laid beside a schema,        *)
(* validated key by key and put together again, with its errors beside it. *)
(*                                                                         *)
(* A dictionary has plain fields and lists of dictionaries; the keys of a   *)
(* flat one are <<field>> and <<list, index, field>>, indexes from 1.  A    *)
(* schema gives a sequence of validators to each field and to each field of *)
(* the items of a list, and one to what is left over at the top (__extras), *)
(* in an item (__extras of the list) and elsewhere (__junk).               *)
(*                                                                         *)
(* Abstractions: lists are nested one deep; an error is the name of the     *)
(* validator that complained; validators that look at other keys are left   *)
(* out.                                                                    *)
(***************************************************************************)
EXTENDS Naturals, FiniteSets, SequencesExt, Functions

CONSTANTS
    Inputs,      \* records [plain, lists]: partial functions, of lists to sequences of
                 \* partial functions
    Schemas,     \* records [plain, lists, extras, itemExtras, junk]
    Empty,       \* the empty string
    EmptyList,
    Default,     \* what the validator default gives
    Missing,     \* the marker for what a schema asks for and the data does not have
    None

\* What data.get gives for a key that a validator took out.
Popped == "popped"

VARIABLES input, schema, result

vars == <<input, schema, result>>

Init == input \in Inputs /\ schema \in Schemas /\ result = None

-----------------------------------------------------------------------------
(***************************************************************************)
(* flatten_dict and unflatten.                                             *)
(***************************************************************************)
Items(lists) == UNION {{l} \X DOMAIN lists[l] : l \in DOMAIN lists}

\* An empty list is a value like any other.
Flatten(d) ==
    LET nested == UNION {{<<c[1], c[2], f>> : f \in DOMAIN d.lists[c[1]][c[2]]} : c \in Items(d.lists)}
        keys == {<<f>> : f \in DOMAIN d.plain} \cup nested
                  \cup {<<l>> : l \in {x \in DOMAIN d.lists : d.lists[x] = <<>>}}
    IN  [k \in keys |-> IF Len(k) = 3 THEN d.lists[k[1]][k[2]][k[3]]
                        ELSE IF k[1] \in DOMAIN d.plain THEN d.plain[k[1]] ELSE EmptyList]

Plain(flat) == [f \in {k[1] : k \in {x \in DOMAIN flat : Len(x) = 1}} |-> flat[<<f>>]]
ListNames(flat) == {k[1] : k \in {x \in DOMAIN flat : Len(x) = 3}}
Indexes(flat, l) == {k[2] : k \in {x \in DOMAIN flat : Len(x) = 3 /\ x[1] = l}}
Item(flat, l, i) ==
    [f \in {k[3] : k \in {x \in DOMAIN flat : Len(x) = 3 /\ x[1] = l /\ x[2] = i}} |-> flat[<<l, i, f>>]]

\* Mutant of Unflatten: items are read from the last index to the first.
UnflattenBackwards(flat) ==
    [plain |-> Plain(flat),
     lists |-> [l \in ListNames(flat) |->
                  LET is == Indexes(flat, l)
                  IN  [n \in 1 .. Cardinality(is) |->
                         Item(flat, l, CHOOSE i \in is : Cardinality({j \in is : j > i}) = n - 1)]]]

\* The n-th of these indexes, in their order.
Nth(is, n) == CHOOSE i \in is : Cardinality({j \in is : j < i}) = n - 1

\* Items follow each other in the order of their indexes, whatever is between.
Unflatten(flat) ==
    [plain |-> Plain(flat),
     lists |-> [l \in ListNames(flat) |->
                  LET is == Indexes(flat, l)
                  IN  [n \in 1 .. Cardinality(is) |-> Item(flat, l, Nth(is, n))]]]

-----------------------------------------------------------------------------
(***************************************************************************)
(* Laying data beside a schema.                                            *)
(***************************************************************************)
\* The places of which the schema speaks: the top, and the items of its lists.
KeyCombinations(flat, sch) ==
    {<<>>} \cup UNION {{l} \X Indexes(flat, l) : l \in DOMAIN sch.lists}

FullSchema(flat, sch) ==
    LET keys == {<<f>> : f \in DOMAIN sch.plain}
                  \cup UNION {{<<c[1], c[2], f>> : f \in DOMAIN sch.lists[c[1]]} :
                                c \in KeyCombinations(flat, sch) \ {<<>>}}
    IN  [k \in keys |-> IF Len(k) = 3 THEN sch.lists[k[1]][k[3]] ELSE sch.plain[k[1]]]

\* DataError: a value other than an empty list where the schema has a list.
Naughty(flat, sch) ==
    \E k \in DOMAIN flat : Len(k) = 1 /\ k[1] \in DOMAIN sch.lists /\ flat[k] # EmptyList

Place(k) == SubSeq(k, 1, Len(k) - 1)

\* augment_data: what the schema does not know is put aside, what it asks for is there
\* or marked as missing.
Augment(flat, sch) ==
    LET full == FullSchema(flat, sch)
        others == DOMAIN flat \ DOMAIN full
    IN  [data |-> [k \in DOMAIN full |-> IF k \in DOMAIN flat THEN flat[k] ELSE Missing],
         extras |-> {k \in others : Place(k) \in KeyCombinations(flat, sch)},
         junk |-> {k \in others : Place(k) \notin KeyCombinations(flat, sch)}]

-----------------------------------------------------------------------------
(***************************************************************************)
(* Validators: what becomes of the value, whether one complains, and        *)
(* whether the rest is left out.                                           *)
(***************************************************************************)
False(value) == value \in {None, Empty, EmptyList, Missing, Popped}

Validate(validator, v) ==
    CASE validator = "not_missing" -> [value |-> v, error |-> v = Missing, stop |-> v = Missing]
      [] validator = "not_empty" -> [value |-> v, error |-> False(v), stop |-> False(v)]
      [] validator = "ignore" -> [value |-> Popped, error |-> FALSE, stop |-> TRUE]
      [] validator = "ignore_missing" /\ v \in {Missing, None, Popped} ->
           [value |-> Popped, error |-> FALSE, stop |-> TRUE]
      [] validator = "ignore_empty" /\ False(v) -> [value |-> Popped, error |-> FALSE, stop |-> TRUE]
      [] validator = "default" /\ False(v) -> [value |-> Default, error |-> FALSE, stop |-> FALSE]
      [] validator = "empty" -> [value |-> Popped, error |-> ~ False(v), stop |-> FALSE]
      [] OTHER -> [value |-> v, error |-> FALSE, stop |-> FALSE]

\* A validator after those before it, unless one of them stopped.
Converted(s, validator) ==
    IF s.stop THEN s
    ELSE LET step == Validate(validator, s.value)
         IN  [value |-> step.value, stop |-> step.stop,
              errors |-> IF step.error THEN Append(s.errors, validator) ELSE s.errors]

\* The validators of a key, one after the other.
Convert(validators, value) ==
    LET after[n \in 0 .. Len(validators)] ==
          IF n = 0 THEN [value |-> value, stop |-> FALSE, errors |-> <<>>]
          ELSE Converted(after[n - 1], validators[n])
    IN  after[Len(validators)]

\* _validate: the keys of the schema, then what is left over.
Validated(flat, sch) ==
    LET full == FullSchema(flat, sch)
        augmented == Augment(flat, sch)
        of == [k \in DOMAIN augmented.data |-> Convert(full[k], augmented.data[k])]
        Rule(k) == IF Len(k) = 1 THEN sch.extras ELSE sch.itemExtras
        kept == {k \in augmented.extras : Rule(k) = "keep_extras"}
    IN  [data |-> [k \in {x \in DOMAIN of : of[x].value # Popped} \cup kept |->
                     IF k \in kept THEN flat[k] ELSE of[k].value],
         errors |-> [k \in DOMAIN full |-> IF k \in DOMAIN of THEN of[k].errors ELSE <<>>],
         unexpected |-> {k \in augmented.extras : Rule(k) = "empty"}
                          \cup (IF sch.junk = "empty" THEN augmented.junk ELSE {})]

-----------------------------------------------------------------------------
(***************************************************************************)
(* validate.                                                               *)
(***************************************************************************)
\* Empty lists, which have no keys, are put back.
Repopulated(d, data) ==
    LET lists == {l \in DOMAIN data.lists : data.lists[l] = <<>>}
                   \cup {f \in DOMAIN data.plain : data.plain[f] = EmptyList}
        given == DOMAIN d.plain \cup DOMAIN d.lists
    IN  [d EXCEPT !.plain = [f \in DOMAIN @ \cup (lists \ given) |->
                               IF f \in DOMAIN d.plain THEN d.plain[f] ELSE EmptyList]]

\* Without the validators that passed, and without lists that have no error.
WithErrors(e) ==
    LET Wrong(item) == Restrict(item, {f \in DOMAIN item : item[f] # <<>>})
        lists == {l \in DOMAIN e.lists : \E i \in DOMAIN e.lists[l] : DOMAIN Wrong(e.lists[l][i]) # {}}
    IN  [plain |-> Wrong(e.plain),
         lists |-> [l \in lists |-> [i \in DOMAIN e.lists[l] |-> Wrong(e.lists[l][i])]]]

Outcome(data, sch) ==
    LET flat == Flatten(data)
        validated == Validated(flat, sch)
    IN  IF Naughty(flat, sch) THEN [kind |-> "DataError"]
        ELSE [kind |-> "validated", data |-> Repopulated(Unflatten(validated.data), data),
              errors |-> WithErrors(Unflatten(validated.errors)),
              unexpected |-> validated.unexpected]

Run ==
    /\ result = None
    /\ result' = Outcome(input, schema)
    /\ UNCHANGED <<input, schema>>

Next == Run

Spec == Init /\ [][Next]_vars

-----------------------------------------------------------------------------
(***************************************************************************)
(* Properties, of every input and schema.                                  *)
(***************************************************************************)
Done == result # None /\ result.kind = "validated"

\* Each item of a list keeps its place, or unflatten closes up over an empty one.
Whole == \A c \in Items(input.lists) : DOMAIN input.lists[c[1]][c[2]] # {}

Given(c, f) ==
    IF f \in DOMAIN input.lists[c[1]][c[2]] THEN input.lists[c[1]][c[2]][f] ELSE Missing

\* An error of a field of an item is reported at the place of the item in the list that
\* was given, also when the items before it have no errors or lack the field, unless
\* an item of the list has no field at all.
ErrorsAreInPlace ==
    Done /\ Whole => \A c \in Items(input.lists) : c[1] \in DOMAIN schema.lists =>
      \A f \in DOMAIN schema.lists[c[1]] :
        LET wrong == Convert(schema.lists[c[1]][f], Given(c, f)).errors
            at == result.errors.lists
        IN  IF wrong = <<>>
            THEN c[1] \in DOMAIN at => f \notin DOMAIN at[c[1]][c[2]]
            ELSE /\ c[1] \in DOMAIN at /\ f \in DOMAIN at[c[1]][c[2]]
                 /\ at[c[1]][c[2]][f] = wrong

\* Validators that do something about a value that is missing.
Answering ==
    {"not_missing", "not_empty", "ignore", "ignore_missing", "ignore_empty", "default", "empty"}

Answered(f) == f \in DOMAIN schema.plain => \E n \in DOMAIN schema.plain[f] : schema.plain[f][n] \in Answering

\* What is given is there: an empty list, "so we can differentiate between empty fields
\* and missing fields" (validate), an empty string for an optional field, and what the
\* schema does not know where it asks for extras to be kept, item by item unless an item
\* has no field.  The marker for what is missing goes out only beside an error, or for a field that
\* the schema asks nothing of.
NothingIsLost ==
    Done =>
      /\ \A l \in DOMAIN input.lists : input.lists[l] = <<>> => l \in DOMAIN result.data.plain
      /\ \A f \in DOMAIN input.plain \cap DOMAIN schema.plain :
           schema.plain[f] = <<"ignore_missing">> /\ input.plain[f] = Empty =>
             f \in DOMAIN result.data.plain
      /\ \A f \in DOMAIN result.data.plain :
           result.data.plain[f] = Missing /\ Answered(f) => f \in DOMAIN result.errors.plain
      /\ Whole /\ schema.itemExtras = "keep_extras" =>
           \A c \in Items(input.lists) : c[1] \in DOMAIN schema.lists =>
             \A f \in DOMAIN input.lists[c[1]][c[2]] \ DOMAIN schema.lists[c[1]] :
               /\ c[1] \in DOMAIN result.data.lists
               /\ \E i \in DOMAIN result.data.lists[c[1]] :
                    LET item == result.data.lists[c[1]][i]
                    IN  f \in DOMAIN item /\ item[f] = input.lists[c[1]][c[2]][f]
=============================================================================
