------------------------------ MODULE ConfigTool ------------------------------
(***************************************************************************)
(* paster config-tool, which edits the configuration file of a portal in    *)
(* place: options are set, added or commented out, and the rest of the      *)
(* lines stay what they are.                                                *)
(*                                                                         *)
(* A line is blank, a comment, the heading of a section, an option, which   *)
(* may be commented out, or the continuation of the value above it.         *)
(*                                                                         *)
(* Abstractions: keys and values are members of small sets, so that the     *)
(* regular expressions tell the kinds of lines apart and nothing else; the  *)
(* id of an option is its section and its key.                              *)
(***************************************************************************)
EXTENDS Naturals, Sequences, FiniteSets, FiniteSetsExt, SequencesExt

CONSTANTS
    Beginnings,   \* files to start from
    Desires,      \* what is asked for: sequences of options, each with its section
    MaxLines,     \* bound on the length of a file that is edited
    None

VARIABLES
    lines,        \* of the file
    asked         \* what the last edit was asked for, at first nothing

vars == <<lines, asked>>

Main == "app:main"

Blank == [is |-> "blank"]
Heading(section) == [is |-> "heading", section |-> section]
OptionLine(key, value, commented) ==
    [is |-> "option", key |-> key, value |-> value, commented |-> commented]

Init == lines \in Beginnings /\ asked = <<>>

-----------------------------------------------------------------------------
\* The section a line is in, or the one that is given where there is no heading above.
SectionAt(ls, i, none) ==
    LET headings == {j \in 1 .. i : ls[j].is = "heading"}
    IN  IF headings = {} THEN none ELSE ls[Max(headings)].section

IdAt(ls, i, none) == <<SectionAt(ls, i, none), ls[i].key>>
Id(option) == <<option.section, option.key>>

OptionsOf(ls) == {i \in DOMAIN ls : ls[i].is = "option"}

\* The ids of a file; what stands above all headings counts as the main section.
ParseConfig(ls) == {IdAt(ls, i, Main) : i \in OptionsOf(ls)}

NewSections(ls, desired) ==
    {desired[i].section : i \in DOMAIN desired} \ {id[1] : id \in ParseConfig(ls)}

\* The options to add to a section, and those to edit in it.
Changes(ls, desired, section, action) ==
    SelectSeq(desired, LAMBDA d :
      d.section = section /\ action = (IF Id(d) \in ParseConfig(ls) THEN "edit" ELSE "add"))

Written(options) == [i \in DOMAIN options |-> options[i].line]

\* The new sections, in the order of a Python set.
Inserted(ls, desired, order) ==
    FlattenSeq([i \in DOMAIN order |->
      <<Heading(order[i])>> \o Written(Changes(ls, desired, order[i], "add")) \o <<Blank>>])

\* What is asked of the option in a line; nothing is asked of lines above all headings.
UpdateOf(ls, desired, i) ==
    LET edits == SelectSeq(Changes(ls, desired, SectionAt(ls, i, None), "edit"),
                           LAMBDA d : d.key = ls[i].key)
    IN  IF edits = <<>> THEN None ELSE Last(edits).line

\* An option that is commented out and is to be so is left as it is.
Takes(line, update) == ~ (line.commented /\ update.commented)

\* Mutant of EditedLine: repeats of an option that was edited are left alone.
EditedLineOnce(ls, i, update) ==
    IF \E j \in OptionsOf(ls) \cap 1 .. (i - 1) :
         IdAt(ls, j, None) = IdAt(ls, i, None) /\ Takes(ls[j], update)
      THEN ls[i]
      ELSE IF Takes(ls[i], update) THEN update ELSE ls[i]

\* The first line that takes the change gets it, and repeats are commented out.
EditedLine(ls, i, update) ==
    IF \E j \in OptionsOf(ls) \cap 1 .. (i - 1) :
         IdAt(ls, j, None) = IdAt(ls, i, None) /\ Takes(ls[j], update)
      THEN [ls[i] EXCEPT !.commented = TRUE]
      ELSE IF Takes(ls[i], update) THEN update ELSE ls[i]

\* make_changes: new sections come before each heading of the main one, or at the end.
MakeChanges(ls, desired, order) ==
    LET inserted == Inserted(ls, desired, order)
        output(i) ==
          CASE ls[i].is = "heading" ->
                 (IF ls[i].section = Main THEN inserted ELSE <<>>)
                   \o <<ls[i]>> \o Written(Changes(ls, desired, ls[i].section, "add"))
            [] ls[i].is = "option" /\ UpdateOf(ls, desired, i) # None ->
                 <<EditedLine(ls, i, UpdateOf(ls, desired, i))>>
            [] OTHER -> <<ls[i]>>
    IN  FlattenSeq([i \in DOMAIN ls |-> output(i)])
          \o (IF \E i \in DOMAIN ls : ls[i] = Heading(Main) THEN <<>> ELSE inserted)

\* config_edit; with the option -e, what is not there yet is an error.
ConfigEdit(desired, edit) ==
    /\ Len(lines) =< MaxLines
    /\ edit => \A i \in DOMAIN desired : Id(desired[i]) \in ParseConfig(lines)
    /\ \E order \in SetToSeqs(NewSections(lines, desired)) :
         lines' = MakeChanges(lines, desired, order)
    /\ asked' = desired

Next == \E desired \in Desires, edit \in BOOLEAN : ConfigEdit(desired, edit)

Spec == Init /\ [][Next]_vars

-----------------------------------------------------------------------------
\* What ConfigParser reads: of the lines of an option the last that is not commented out,
\* with its continuations, which comments and blank lines do not end.
Live(ls) == {i \in OptionsOf(ls) : ~ ls[i].commented}
Continuations(ls, i) ==
    {j \in DOMAIN ls : ls[j].is = "more" /\ i = Max({0} \cup {k \in Live(ls) : k < j})}
Reads(ls) ==
    [id \in {IdAt(ls, i, None) : i \in Live(ls)} |->
       LET at == Max({i \in Live(ls) : IdAt(ls, i, None) = id})
       IN  <<ls[at].value, Cardinality(Continuations(ls, at))>>]

\* The option or heading that a continuation stands below.
Above(ls, j) == Max({0} \cup {i \in 1 .. (j - 1) : ls[i].is \in {"option", "heading"}})
More(ls) == {j \in DOMAIN ls : ls[j].is = "more"}

\* An edit comes through when every continuation stands below the option it continues, which
\* is not the one to edit: the tool leaves continuations where they are.  And when the option
\* is not one that stands above all headings only, where nothing is edited.
Comes(ls, id) ==
    LET those == {i \in OptionsOf(ls) : IdAt(ls, i, Main) = id}
    IN  /\ \A j \in More(ls) : Above(ls, j) \in Live(ls) \ those
        /\ those # {} => \E i \in those : SectionAt(ls, i, None) # None

\* After an edit the portal reads what was asked for, whatever repeats, commented lines and
\* sections the file had, and reads everything else as before; comments stay in place.
EditedAsAsked ==
    [][(\A i \in DOMAIN asked' : Comes(lines, Id(asked'[i]))) =>
         LET wanted == {Id(asked'[i]) : i \in DOMAIN asked'}
             text(ls) == SelectSeq(ls, LAMBDA line : line.is \in {"comment", "more"})
         IN  /\ \A i \in DOMAIN asked' :
                  IF asked'[i].line.commented THEN Id(asked'[i]) \notin DOMAIN Reads(lines')
                  ELSE /\ Id(asked'[i]) \in DOMAIN Reads(lines')
                       /\ Reads(lines')[Id(asked'[i])] = <<asked'[i].line.value, 0>>
             /\ DOMAIN Reads(lines') \ wanted = DOMAIN Reads(lines) \ wanted
             /\ \A id \in DOMAIN Reads(lines) \ wanted : Reads(lines')[id] = Reads(lines)[id]
             /\ text(lines') = text(lines)]_vars
=============================================================================
