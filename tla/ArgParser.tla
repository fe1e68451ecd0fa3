----------------------------- MODULE ArgParser -----------------------------
(***************************************************************************)
(* argument_parser_t::parse of src/include/cli-parser.hpp: a command line  *)
(* is taken argument by argument; an option opens one of the parser's      *)
(* arguments, which takes the values that follow, as many as it counts.    *)
(*                                                                         *)
(* An element of argv is given by what parse tells apart:                  *)
(*   empty   the empty string                                              *)
(*   word    a value                                                       *)
(*   number  a value that starts with a dash: a number, or the dash alone  *)
(*   short   -abc: names are the letters before the first punctuation      *)
(*   long    --abc: names is the one name before the first punctuation     *)
(* with text, what is left of it without its leading dashes, tail, how an  *)
(* option goes on behind its names: not at all, with `=', with `-' or `_'  *)
(* and a `=' later, or with anything else, and part, what stands behind    *)
(* the first punctuation.  A value is known by its place in argv and by    *)
(* whether it is the whole element or that part.                           *)
(***************************************************************************)
EXTENDS Integers, Sequences

CONSTANTS
    Parsers,       \* what add_argument was called with: [arguments, help_enabled]
    CommandLines   \* what comes behind the program's name

ANY == -1
LAST == -1
DONT_CARE == -2
Argument == [names : Seq(STRING), required : BOOLEAN, position : Int, count : Int]
Word == [dash : BOOLEAN, text : STRING]    \* dash: it starts with one
Token ==
    [kind : {"empty", "word", "number", "short", "long"}, names : Seq(STRING),
     tail : {"none", "equal", "dashed", "other"}, text : STRING, part : Word]

\* position() stores one more than it is given, and there is no element 0.
ASSUME ParserAssumption ==
    /\ \A p \in Parsers :
         /\ p.arguments \in Seq(Argument) /\ p.help_enabled \in BOOLEAN
         /\ \A a \in DOMAIN p.arguments :
              p.arguments[a].names # <<>> /\ p.arguments[a].position # 0
    /\ CommandLines \subseteq Seq(Token)
    /\ \A line \in CommandLines : \A i \in DOMAIN line :
         line[i].kind = "long" => Len(line[i].names) = 1

VARIABLES
    parser, argv,  \* the input
    argv_index,    \* the element that is looked at
    current,       \* the open argument, 0 when none is
    letters,       \* letters of a group of short options that are still to do
    values, found, \* of each argument
    status         \* "names", "parse", "check", "ok", or the error

vars == <<parser, argv, argv_index, current, letters, values, found, status>>
input == <<parser, argv>>

-----------------------------------------------------------------------------
Arguments == DOMAIN parser.arguments
Count(a) == parser.arguments[a].count
Position(a) == parser.arguments[a].position
NamesOf(a) == {parser.arguments[a].names[k] : k \in DOMAIN parser.arguments[a].names}

\* _name_map and _positional_arguments, which are filled only when there is
\* anything to parse.  The last argument with a position gets it.
Named(name) == {a \in Arguments : argv # <<>> /\ name \in NamesOf(a)}
Positional(location) ==
    {a \in Arguments :
        /\ argv # <<>> /\ Position(a) # DONT_CARE /\ Position(a) = location
        /\ \A b \in Arguments : Position(b) = location => b <= a}
Exists(name) == \E a \in Named(name) : found[a]

Init ==
    /\ parser \in Parsers /\ argv \in CommandLines
    /\ argv_index = 1 /\ current = 0 /\ letters = <<>>
    /\ values = [a \in Arguments |-> <<>>]
    /\ found = [a \in Arguments |-> FALSE]
    /\ status = "names"

End(result) == status' = result /\ UNCHANGED <<argv_index, current, letters, values, found>>
NextElement == argv_index' = argv_index + 1 /\ UNCHANGED status

\* The names of all arguments differ; a dash more or less makes no difference.
Duplicate ==
    \E a, b \in Arguments : \E k \in DOMAIN parser.arguments[a].names,
                               l \in DOMAIN parser.arguments[b].names :
        <<a, k>> # <<b, l>> /\ parser.arguments[a].names[k] = parser.arguments[b].names[l]
BuildNames ==
    /\ status = "names"
    /\ End(IF argv # <<>> /\ Duplicate THEN "duplicate" ELSE "parse")
    /\ UNCHANGED input

-----------------------------------------------------------------------------
Parsing == status = "parse" /\ letters = <<>> /\ argv_index <= Len(argv)
Element == argv[argv_index]
Option == Element.kind \in {"short", "long"}
IsHelp(element) ==
    /\ parser.help_enabled /\ element.tail = "none"
    /\ \/ element.kind = "short" /\ element.names = <<"h">>
       \/ element.kind = "long" /\ element.names = <<"help">>
\* The last element is the value of the argument that is expected there.
IsLast == argv_index = Len(argv) /\ Positional(LAST) # {}

\* _end_argument: the open argument is closed if it has its count of values.
TooFew(a) == Len(values[a]) < Count(a)
TooMany(a) == Count(a) >= 0 /\ Len(values[a]) > Count(a)
Overfull == current # 0 /\ TooMany(current)
Endable == ~Overfull /\ (current # 0 => ~TooFew(current))
EndFails ==
    \/ current # 0 /\ TooFew(current) /\ End("too_few")
    \/ Overfull /\ End("too_many")

\* _add_value: the open argument takes the value and is closed when that was
\* its last; a full one is closed and the value goes to the argument that is
\* expected at the location, or to none.
FullUncounted(a, n) == n >= Count(a)
FullIfOver(a, n) == Count(a) >= 0 /\ n > Count(a)
Full(a, n) == Count(a) >= 0 /\ n >= Count(a)
Take(a, value) ==
    /\ values' = [values EXCEPT ![a] = Append(@, value)]
    /\ current' = IF Full(a, Len(values'[a])) THEN 0 ELSE a
Place(location, value) ==
    /\ values' = [a \in Arguments |->
                    IF a \in Positional(location) THEN Append(values[a], value) ELSE values[a]]
    /\ found' = [a \in Arguments |-> found[a] \/ a \in Positional(location)]
    /\ current' = 0
Takes(a) == a # 0 /\ ~Full(a, Len(values[a]))
AddValue(a, value) ==
    \/ Takes(a) /\ Take(a, value) /\ UNCHANGED found
    \/ ~Takes(a) /\ Place(argv_index, value)

Whole == <<argv_index, "whole">>

SkipEmpty ==
    /\ Parsing /\ Element.kind = "empty"
    /\ NextElement /\ UNCHANGED <<input, current, letters, values, found>>

\* -h and --help close nothing.
Help ==
    /\ Parsing /\ IsHelp(Element)
    /\ found' = [a \in Arguments |-> found[a] \/ a \in Named("help")]
    /\ NextElement /\ UNCHANGED <<input, current, letters, values>>

LastElement ==
    /\ Parsing /\ Element.kind # "empty" /\ ~IsHelp(Element) /\ IsLast
    /\ \/ EndFails
       \/ Endable /\ Place(LAST, Whole) /\ NextElement /\ UNCHANGED letters
    /\ UNCHANGED input

Value ==
    /\ Parsing /\ Element.kind \in {"word", "number"} /\ ~IsLast
    /\ \/ Overfull /\ End("too_many")
       \/ ~Overfull /\ AddValue(current, Whole) /\ NextElement /\ UNCHANGED letters
    /\ UNCHANGED input

\* Where a value is expected by its position, an option is one.  Otherwise it
\* closes the open argument and opens its own, which may take a part of the
\* element: `--bin-x=1' is taken as --bin with the value `x=1'.  A group of
\* letters opens and closes each of its own in turn.
Part == <<argv_index, IF Element.tail = "equal" THEN "after" ELSE "mangled">>
OpenNamed(a) ==
    /\ found' = [found EXCEPT ![a] = TRUE]
    /\ CASE Element.tail = "none"   -> current' = a /\ UNCHANGED values
         [] Full(a, Len(values[a])) -> current' = 0 /\ UNCHANGED values
         [] OTHER                   -> Take(a, Part)
    /\ NextElement /\ UNCHANGED letters
OpenLong(name) ==
    \/ Named(name) = {} /\ End("unrecognized")
    \/ Named(name) # {} /\ Element.tail = "other" /\ End("malformed")
    \/ Element.tail # "other" /\ \E a \in Named(name) : OpenNamed(a)
OpenGroup ==
    /\ letters' = Element.names /\ current' = 0
    /\ IF Element.names = <<>> THEN NextElement ELSE UNCHANGED <<argv_index, status>>
    /\ UNCHANGED <<values, found>>
OpenOption ==
    /\ Parsing /\ Option /\ ~IsHelp(Element) /\ ~IsLast
    /\ \/ EndFails
       \/ Endable /\ Positional(argv_index) # {} /\ Place(argv_index, Whole)
          /\ NextElement /\ UNCHANGED letters
       \/ Endable /\ Positional(argv_index) = {} /\ Len(Element.names) = 1
          /\ OpenLong(Element.names[1])
       \/ Endable /\ Positional(argv_index) = {} /\ Len(Element.names) # 1 /\ OpenGroup
    /\ UNCHANGED input

Letter ==
    /\ status = "parse" /\ letters # <<>>
    /\ \/ Named(Head(letters)) = {} /\ End("unrecognized")
       \/ \E a \in Named(Head(letters)) :
            \/ TooFew(a) /\ End("too_few")
            \/ TooMany(a) /\ End("too_many")
            \/ /\ ~TooFew(a) /\ ~TooMany(a)
               /\ found' = [found EXCEPT ![a] = TRUE]
               /\ letters' = Tail(letters)
               /\ argv_index' = IF Len(letters) = 1 THEN argv_index + 1 ELSE argv_index
               /\ UNCHANGED <<current, values, status>>
    /\ UNCHANGED input

-----------------------------------------------------------------------------
\* Behind the last element the open argument is closed, but not for help.
HelpAsked == parser.help_enabled /\ Exists("help")
AtEnd == status = "parse" /\ letters = <<>> /\ argv_index > Len(argv)
EndOfLineOpen ==
    /\ AtEnd
    /\ status' = IF HelpAsked THEN "ok" ELSE "check"
    /\ UNCHANGED <<input, argv_index, current, letters, values, found>>
EndOfLine ==
    /\ AtEnd
    /\ \/ HelpAsked /\ End("ok")
       \/ ~HelpAsked /\ EndFails
       \/ /\ ~HelpAsked /\ Endable
          /\ status' = "check" /\ current' = 0
          /\ UNCHANGED <<argv_index, letters, values, found>>
    /\ UNCHANGED input

\* A value that stands by its position must not be the name of an argument;
\* required arguments and those with a position must be there.
WordOf(value) == LET element == argv[value[1]] IN
    IF value[2] = "whole"
    THEN [dash |-> element.kind \in {"number", "short", "long"}, text |-> element.text]
    ELSE element.part
NamesAnArgument(value) == WordOf(value).dash /\ Named(WordOf(value).text) # {}
Misplaced ==
    \E location \in {Position(a) : a \in Arguments} : \E a \in Positional(location) :
        values[a] # <<>> /\ NamesAnArgument(values[a][1])
Missing(a) ==
    /\ ~found[a]
    /\ \/ parser.arguments[a].required
       \/ Position(a) >= 0 /\ Len(argv) + 1 >= Position(a)
FirstMissing == {a \in Arguments : Missing(a) /\ \A b \in 1..(a - 1) : ~Missing(b)}
Check ==
    /\ status = "check"
    /\ \/ Misplaced /\ End("positional")
       \/ /\ ~Misplaced
          /\ \E a \in FirstMissing :
                End(IF parser.arguments[a].required THEN "required" ELSE "expected")
       \/ ~Misplaced /\ FirstMissing = {} /\ End("ok")
    /\ UNCHANGED input

Next ==
    \/ BuildNames \/ SkipEmpty \/ Help \/ LastElement \/ Value
    \/ OpenOption \/ Letter \/ EndOfLine \/ Check

Spec == Init /\ [][Next]_vars

-----------------------------------------------------------------------------
\* The type invariant; an argument is open only while the line is read, or
\* when its end is skipped for help.
TypeOK ==
    /\ parser \in Parsers /\ argv \in CommandLines
    /\ argv_index \in 1..(Len(argv) + 1)
    /\ current \in Arguments \cup {0}
    /\ letters \in Seq(STRING) /\ (letters # <<>> => current = 0)
    /\ values \in [Arguments -> Seq((1..Len(argv)) \X {"whole", "after", "mangled"})]
    /\ found \in [Arguments -> BOOLEAN]
    /\ status \in {"names", "parse", "check", "ok", "duplicate", "too_few", "too_many",
                   "unrecognized", "malformed", "positional", "required", "expected"}
    /\ status = "check" => current = 0

\* What a command line means, without reading it step by step: an element that
\* is no option belongs to the last option before it.
Opens(i) == argv[i].kind \in {"short", "long"} /\ ~IsHelp(argv[i])
Opener(i) == {j \in 1..i : Opens(j) /\ \A k \in (j + 1)..i : ~Opens(k)}
BelongsTo(a, i) ==
    \E j \in Opener(i) : Len(argv[j].names) = 1 /\ a \in Named(argv[j].names[1])
IsValue(i) ==
    \/ argv[i].kind \in {"word", "number"}
    \/ Opens(i) /\ Len(argv[i].names) = 1 /\ argv[i].tail # "none"
OnlyNamed == \A a \in Arguments : Position(a) = DONT_CARE /\ Count(a) = ANY

\* Every argument gets the values that stand behind its name, in the order of
\* the line and each once, over groups of letters, help and empty elements in
\* between (:296-354, :416-499); only a value expected at its position, or an
\* argument expected at the end, may take another.  When no argument is
\* counted or placed, as in main(), none of its values is lost.
\*
\* Lines with a dashed name are exempt: _find_equal would "allow --asd_f and
\* --asd-f arguments" (:70-72), but the name ends at the dash (:86-94), so that
\* `--bin-x=1' is the value `x=1' of --bin and not a value of --bin-x.
PlacedAt(a, i) == a \in Positional(i) \/ (a \in Positional(LAST) /\ i = Len(argv))
HasDashedName == \E i \in DOMAIN argv : argv[i].tail = "dashed"
ValuesReachTheirNames ==
    status \in {"parse", "check", "ok"} /\ ~HasDashedName =>
        \A a \in Arguments :
            /\ \A k \in DOMAIN values[a] : LET i == values[a][k][1] IN
                 /\ BelongsTo(a, i) \/ PlacedAt(a, i)
                 /\ i < argv_index
                 /\ \A l \in 1..(k - 1) : values[a][l][1] < i
            /\ OnlyNamed => \A i \in 1..(argv_index - 1) :
                 IsValue(i) /\ BelongsTo(a, i) =>
                     \E k \in DOMAIN values[a] : values[a][k][1] = i

\* A command line that is accepted, but for one that asks for help, gives a
\* counted argument exactly its count of values: given by two options, in a
\* group of letters or with `=', it is neither over- nor underfilled (:468-514).
\* An argument that also has a position is exempt: the value that stands there
\* is added without a look at the count (:416-424, :490-495).
CountsAreKept ==
    status = "ok" /\ ~HelpAsked =>
        \A a \in Arguments :
            found[a] /\ Count(a) >= 0 /\ Position(a) = DONT_CARE => Len(values[a]) = Count(a)
=============================================================================
