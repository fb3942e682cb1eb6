--------------------------- MODULE XtaskArguments ----------------------------
(***************************************************************************)
(* One argument of an xtask, all the way round: declared to Clap, written  *)
(* into the manifest by nextdeck-helper, edited in Nextdeck's parameter    *)
(* panel, turned into flags by run_request and parsed by Clap again.       *)
(* Sources: nextdeck-helper/src/xtask.rs, xtask.rs, xtask/preferences.rs.  *)
(* A text is blank, an integer in decimal or some other word; what trims   *)
(* to nothing is blank.  Flag and value are two words of the command line, *)
(* and what Clap makes of the second is no part of the manifest.           *)
(***************************************************************************)
EXTENDS Integers, Sequences

CONSTANTS
  Words,          \* the words that name values
  Dashed,         \* those of them that begin with "-"
  MinInt, MaxInt, \* the bounds of i64
  Choices         \* the lists of visible possible values an argument may have

ArgumentAssumption ==
  /\ MinInt \in Int /\ MaxInt \in Int /\ MinInt <= MaxInt
  /\ Choices \subseteq Seq(Words) /\ <<>> \in Choices
  /\ Dashed \subseteq Words

VARIABLES
  program,  \* what Clap knows of the argument
  value     \* the value in the parameter panel

vars == <<program, value>>

Text(kind, word, int) == [kind |-> kind, word |-> word, int |-> int]
Missing == Text("missing", "", 0)      \* None: no text at all
Blank == Text("blank", "", 0)
On == Text("bool", "on", 0)
Off == Text("bool", "off", 0)
Word(w) == Text("word", w, 0)
Int64(i) == Text("int", "", i)

Typed == {Blank} \union {Word(w) : w \in Words} \union {Int64(i) : i \in MinInt..MaxInt}

Parses(text) == text.kind = "int"
BeginsWithDash(text) ==
  \/ text.kind = "int" /\ text.int < 0
  \/ text.kind = "word" /\ text.word \in Dashed

-----------------------------------------------------------------------------
(* What Clap knows: SetTrue, SetFalse, Set with the visible possible       *)
(* values (none for a free value), or an action that takes no single value;*)
(* whether the flag has a long form; the words after the flag it takes for *)
(* the value: by default none that begins with "-", with the settings of   *)
(* allow_negative_numbers and allow_hyphen_values those too, with that of  *)
(* require_equals none; and the texts that the type of the value takes.    *)
(* A default is one of the possible values, visible or hidden, if there    *)
(* are any; Clap refuses to build any other command.                       *)
Program == [action : {"SetTrue", "SetFalse", "Set", "Count"}, choices : Choices,
            default : Typed \union {Missing}, required : BOOLEAN,
            long : BOOLEAN, takes : {"plain", "negatives", "anything", "attached"},
            type : {"text", "integer", "natural"}]

OfType(type, text) ==
  CASE type = "text"    -> TRUE
    [] type = "integer" -> Parses(text)
    [] type = "natural" -> Parses(text) /\ text.int >= 0

WellFormed(p) ==
  /\ p.action # "Set" => /\ p.default = Missing /\ ~p.required /\ p.choices = <<>>
                         /\ p.takes = "plain" /\ p.type = "text"
  /\ p.required => p.default = Missing
  /\ p.choices # <<>> => /\ p.default # Missing => p.default.kind = "word"
                         /\ p.type = "text"
  /\ p.default # Missing => OfType(p.type, p.default)

Spec4(kind, choices, default, required) ==
  [kind |-> kind, choices |-> choices, default |-> default, required |-> required]

(* arg_value and arg_spec: the manifest entry of the argument.             *)
ArgSpec(p) ==
  CASE p.action = "SetTrue"  -> Spec4("Bool", <<>>, Off, p.required)
    [] p.action = "SetFalse" -> Spec4("Bool", <<>>, On, p.required)
    [] p.action = "Set" /\ p.choices # <<>> -> Spec4("Enum", p.choices, p.default, p.required)
    [] p.action = "Set" /\ p.choices = <<>> /\ Parses(p.default) ->
         Spec4("Number", <<>>, p.default, p.required)
    [] OTHER -> Spec4("String", <<>>, p.default, p.required)

Exposed(p) == p.action # "Count"

Offers(spec, text) == \E i \in DOMAIN spec.choices : text = Word(spec.choices[i])

(* XtaskManifest::validate, for the part that looks at values.             *)
Valid(spec) ==
  spec.kind = "Enum" => spec.choices # <<>> /\ (spec.default # Missing => Offers(spec, spec.default))

(* XtaskArgSpec::default_value.                                            *)
DefaultValue(spec) ==
  CASE spec.default # Missing -> spec.default
    [] spec.default = Missing /\ spec.kind = "Enum" -> Word(spec.choices[1])
    [] OTHER -> Blank

spec == ArgSpec(program)

-----------------------------------------------------------------------------
(* The panel shows the value of a manifest that was accepted.              *)
Init ==
  /\ program \in {p \in Program : WellFormed(p) /\ Exposed(p)}
  /\ value = IF Valid(spec) THEN DefaultValue(spec) ELSE Missing

(* XtaskArgValue::matches, for a value that an entry of this kind was      *)
(* given; a value of another kind never matches.                           *)
Matches(s, text) ==
  CASE s.kind = "Number" -> text = Blank \/ Parses(text)
    [] s.kind = "Enum"   -> Offers(s, text)
    [] OTHER             -> TRUE

(* A reload after the project changed the argument: reconcile keeps the    *)
(* value if it matches the new entry.                                      *)
Reload ==
  /\ Valid(spec)
  /\ program' \in {p \in Program : WellFormed(p) /\ Exposed(p) /\ Valid(ArgSpec(p))}
  /\ LET next == ArgSpec(program')
     IN value' = IF next.kind = spec.kind /\ Matches(next, value)
                 THEN value ELSE DefaultValue(next)

Saturated(i) == IF i > MaxInt THEN MaxInt ELSE IF i < MinInt THEN MinInt ELSE i

(* cycle_enum: a value that is not offered counts as the first.            *)
Cycled(choices, text, delta) ==
  LET len == Len(choices)
      at == {i \in 1..len : text = Word(choices[i])}
      index == IF at = {} THEN 0 ELSE (CHOOSE i \in at : \A j \in at : i <= j) - 1
  IN Word(choices[1 + (IF delta < 0 THEN (index + len - 1) % len ELSE (index + 1) % len)])

(* adjust_selected_arg.                                                    *)
Adjust(delta) ==
  /\ Valid(spec)
  /\ \/ spec.kind = "Bool" /\ value' = IF value = On THEN Off ELSE On
     \/ spec.kind = "Enum" /\ value' = Cycled(spec.choices, value, delta)
     \/ spec.kind = "Number" /\ Parses(value) /\ value' = Int64(Saturated(value.int + delta))
  /\ UNCHANGED program

(* begin_edit_selected_arg and commit_edit: a number that does not parse   *)
(* is refused and the value stays.                                         *)
CommitEdit(text) ==
  /\ Valid(spec)
  /\ spec.kind \in {"Number", "String"}
  /\ value' = IF spec.kind = "Number" /\ text # Blank /\ ~Parses(text) THEN value ELSE text
  /\ UNCHANGED program

(* A number that does not parse is not adjustable; a manifest that was     *)
(* refused has nothing to edit.                                            *)
NotAdjustable ==
  /\ ~Valid(spec) \/ spec.kind = "String" \/ (spec.kind = "Number" /\ ~Parses(value))
  /\ UNCHANGED vars

Next ==
  \/ Reload
  \/ \E delta \in {-1, 1} : Adjust(delta)
  \/ \E text \in Typed : CommitEdit(text)
  \/ NotAdjustable

Spec == Init /\ [][Next]_vars

-----------------------------------------------------------------------------
Request(ok, given, text) == [ok |-> ok, given |-> given, text |-> text]

AppendValue(s, text) ==
  CASE text = Blank -> Request(~s.required, FALSE, Missing)
    [] text # Blank /\ s.kind = "Enum" /\ ~Offers(s, text) -> Request(FALSE, FALSE, Missing)
    [] text # Blank /\ ~s.required /\ text = DefaultValue(s) -> Request(TRUE, FALSE, Missing)
    [] OTHER -> Request(TRUE, TRUE, text)

AppendArg_OnlyOn(s, text) ==
  IF s.kind = "Bool" THEN Request(TRUE, text = On, Missing) ELSE AppendValue(s, text)

(* append_arg of run_request: whether the request is made, whether the     *)
(* flag is given and the text after it.                                    *)
AppendArg(s, text) ==
  IF s.kind = "Bool" THEN Request(TRUE, text # s.default, Missing) ELSE AppendValue(s, text)

(* Clap, given the flag or not.                                            *)
Received(p, request) ==
  CASE p.action = "SetTrue"  -> IF request.given THEN On ELSE Off
    [] p.action = "SetFalse" -> IF request.given THEN Off ELSE On
    [] OTHER -> IF request.given THEN request.text ELSE p.default

TakenAsValue(p, text) ==
  CASE p.takes = "plain"     -> ~BeginsWithDash(text)
    [] p.takes = "negatives" -> Parses(text) \/ ~BeginsWithDash(text)
    [] p.takes = "anything"  -> TRUE
    [] p.takes = "attached"  -> FALSE

(* XtaskArgSpec::flag: without a long form the flag is made of the id of   *)
(* the argument, which Clap does not know.                                 *)
ClapAccepts(p, request) ==
  /\ p.required => request.given
  /\ request.given => p.long
  /\ (request.given /\ p.action = "Set") =>
       TakenAsValue(p, request.text) /\ OfType(p.type, request.text)
  /\ (request.given /\ p.choices # <<>>) =>
       \E i \in DOMAIN p.choices : request.text = Word(p.choices[i])

request == AppendArg(spec, value)

-----------------------------------------------------------------------------
TypeOK ==
  /\ program \in Program
  /\ value \in Typed \union {Missing, On, Off}

(* What the program receives is what the panel shows, although a flag is   *)
(* left out at the default and two programs must agree on what that is;    *)
(* for a text that is not blank and a choice with a declared default, in a *)
(* request that Clap takes.                                                *)
ReceivedIsShown ==
  (/\ Valid(spec) /\ request.ok /\ ClapAccepts(program, request) /\ value # Blank
   /\ spec.kind = "Enum" => spec.default # Missing)
    => Received(program, request) = value

(* The manifest tells all that Clap asks of an argument with this value:   *)
(* the flag has its long form, the word after it is taken for the value,   *)
(* and the type is the one that the kind of the entry stands for.          *)
AsDescribed(p, text) ==
  /\ p.long
  /\ p.action = "Set" => TakenAsValue(p, text)
  /\ ArgSpec(p).kind = "Number" => p.type # "natural"
  /\ ArgSpec(p).kind = "String" => p.type = "text"

(* A request that Nextdeck makes is one that Clap takes, if the manifest   *)
(* tells all that Clap asks: what is required is given, what is given is   *)
(* among the choices and a number is a number, whatever was typed or       *)
(* adjusted and however the entry changed meanwhile.                       *)
RequestIsAccepted ==
  (Valid(spec) /\ request.ok /\ AsDescribed(program, value)) => ClapAccepts(program, request)

-----------------------------------------------------------------------------
(* What the code does not guarantee.                                       *)

(* docs/xtask-integration: only an optional value at its declared default  *)
(* is left out.                                                            *)
OnlyDefaultsAreOmitted ==
  (Valid(spec) /\ request.ok /\ ~request.given) =>
    spec.default = IF value = Blank /\ spec.default = Missing THEN Missing ELSE value

(* Every request that Nextdeck makes is one that Clap takes: a number that *)
(* is adjusted below zero is sent as a word of its own and looks like a    *)
(* flag, a flag that has only a short form is sent by its id, and the      *)
(* manifest knows no types but that of i64.                                *)
EveryRequestIsAccepted == Valid(spec) /\ request.ok => ClapAccepts(program, request)

(* The manifest that the helper writes is one that Nextdeck accepts.       *)
HelperIsAccepted == Valid(spec)

=============================================================================
