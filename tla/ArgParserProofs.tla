-------------------------- MODULE ArgParserProofs --------------------------
(***************************************************************************)
(* For every parser, whatever its arguments count and where they stand,    *)
(* and for every command line: the counts are kept, and every value goes   *)
(* to the argument it stands behind.                                       *)
(***************************************************************************)
EXTENDS ArgParser, TLAPS

\* What the proof needs of the types.
IType ==
    /\ parser.arguments \in Seq(Argument) /\ parser.help_enabled \in BOOLEAN
    /\ argv \in Seq(Token)
    /\ current \in Arguments \cup {0}
    /\ values \in [Arguments -> Seq((Nat \ {0}) \X {"whole", "after", "mangled"})]
    /\ argv_index \in Nat \ {0}
    /\ letters \in Seq(STRING)
    /\ found \in [Arguments -> BOOLEAN]

\* Arguments that are counted and have no place; they are never overfilled,
\* and those that were found and are no longer open have all their values,
\* but for the one that -h finds.
Counted(a) == Count(a) >= 0 /\ Position(a) = DONT_CARE
IInv ==
    /\ IType
    /\ \A a \in Arguments : Counted(a) => Len(values[a]) <= Count(a)
    /\ \A a \in Arguments :
         Counted(a) /\ found[a] /\ a # current =>
             Len(values[a]) = Count(a) \/ (parser.help_enabled /\ a \in Named("help"))
    /\ status = "names" => \A a \in Arguments : ~found[a]
    /\ status \in {"check", "ok"} => current = 0 \/ HelpAsked

Words == (Nat \ {0}) \X {"whole", "after", "mangled"}

LEMMA ArgumentTypes ==
    ASSUME IType, NEW a \in Arguments
    PROVE  /\ Count(a) \in Int /\ Position(a) \in Int
           /\ values[a] \in Seq(Words) /\ Len(values[a]) \in Nat
           /\ found[a] \in BOOLEAN
           /\ a # 0
<1>1. parser.arguments[a] \in Argument
    BY DEF IType, Arguments
<1>2. Count(a) \in Int /\ Position(a) \in Int
    BY <1>1 DEF Argument, Count, Position
<1>3. values[a] \in Seq(Words) /\ found[a] \in BOOLEAN
    BY DEF IType, Words
<1>4. a # 0
    BY DEF IType, Arguments
<1> QED BY <1>2, <1>3, <1>4

LEMMA InitLemma == Init => IInv
<1> SUFFICES ASSUME Init PROVE IInv
    OBVIOUS
<1>1. parser.arguments \in Seq(Argument) /\ parser.help_enabled \in BOOLEAN /\ argv \in Seq(Token)
    BY ParserAssumption DEF Init
<1>2. IType
    BY <1>1 DEF Init, IType, Arguments
<1>3. \A a \in Arguments : Count(a) \in Int /\ Len(values[a]) = 0 /\ ~found[a]
    BY <1>2, ArgumentTypes DEF Init
<1> QED BY <1>2, <1>3 DEF Init, IInv, Counted

LEMMA UnchangedInput ==
    ASSUME UNCHANGED input
    PROVE  /\ Arguments' = Arguments
           /\ \A a : Count(a)' = Count(a) /\ Position(a)' = Position(a)
           /\ \A a : Counted(a)' = Counted(a)
           /\ \A name : Named(name)' = Named(name)
           /\ \A location : Positional(location)' = Positional(location)
           /\ parser' = parser /\ argv' = argv
BY DEF input, Arguments, Count, Position, Counted, Named, NamesOf, Positional

\* The steps that end the parse or close the open argument.
LEMMA EndLemma ==
    ASSUME IInv, UNCHANGED input, NEW result, End(result), result \notin {"names", "check", "ok"}
    PROVE  IInv'
BY UnchangedInput DEF IInv, IType, End

LEMMA EndFailsLemma ==
    ASSUME IInv, UNCHANGED input, EndFails
    PROVE  IInv'
BY EndLemma DEF EndFails

\* When the open argument may be closed, every argument found has its count.
ForHelp(a) == parser.help_enabled /\ a \in Named("help")
Settled ==
    \A a \in Arguments : Counted(a) /\ found[a] => Len(values[a]) = Count(a) \/ ForHelp(a)

LEMMA Settles ==
    ASSUME IInv, current = 0 \/ Endable \/ Full(current, Len(values[current]))
    PROVE  Settled
<1>1. SUFFICES ASSUME NEW a \in Arguments, Counted(a), a = current
               PROVE  Len(values[a]) = Count(a)
    BY DEF IInv, Settled, ForHelp
<1>2. Count(a) \in Int /\ Len(values[a]) \in Nat /\ a # 0
    BY ArgumentTypes DEF IInv
<1>3. Len(values[a]) <= Count(a)
    BY <1>1 DEF IInv
<1> QED BY <1>1, <1>2, <1>3 DEF Endable, Full, TooFew, Counted

\* The invariant holds again when what was read leaves nothing open, or opens
\* one argument.
LEMMA OpenLemma ==
    ASSUME IInv, UNCHANGED input, IType', status' = "parse",
           \A a \in Arguments : Counted(a) => Len(values'[a]) <= Count(a),
           \A a \in Arguments : Counted(a) /\ found'[a] /\ a # current' =>
               Len(values'[a]) = Count(a) \/ ForHelp(a)
    PROVE  IInv'
BY UnchangedInput DEF IInv, ForHelp

\* A place takes a value from the line: only placed arguments change.
LEMMA PlaceLemma ==
    ASSUME IInv, UNCHANGED input, NEW location, NEW value \in Words, Place(location, value),
           Settled, NextElement, UNCHANGED letters, status = "parse"
    PROVE  IInv'
<1>1. \A a \in Arguments : Counted(a) => a \notin Positional(location)
    BY DEF Counted, Positional
<1>2. \A a \in Arguments : Counted(a) => values'[a] = values[a] /\ (found'[a] <=> found[a])
    BY <1>1 DEF Place, IInv, IType
<1>3. IType'
    <2>1. \A a \in Arguments : values'[a] \in Seq(Words)
        BY ArgumentTypes DEF IInv, Place
    <2>2. values' \in [Arguments -> Seq(Words)]
        BY <2>1 DEF Place
    <2>3. found' \in [Arguments -> BOOLEAN]
        BY DEF Place, IInv, IType
    <2> QED BY <2>2, <2>3, UnchangedInput DEF IInv, IType, Place, NextElement, Words
<1>4. status' = "parse"
    BY DEF NextElement
<1> QED BY <1>2, <1>3, <1>4, OpenLemma DEF IInv, Settled

\* An argument that is not full takes one value, and is closed if that fills it.
LEMMA TakeLemma ==
    ASSUME IInv, UNCHANGED input, NEW a \in Arguments, NEW value \in Words,
           ~Full(a, Len(values[a])), Take(a, value),
           found' \in [Arguments -> BOOLEAN],
           \A b \in Arguments : b # a /\ Counted(b) /\ found'[b] =>
               Len(values[b]) = Count(b) \/ ForHelp(b),
           NextElement, UNCHANGED letters, status = "parse"
    PROVE  IInv'
<1>1. /\ \A b \in Arguments : b # a => values'[b] = values[b]
      /\ values'[a] = Append(values[a], value)
      /\ values' \in [Arguments -> Seq(Words)]
    <2>1. values[a] \in Seq(Words)
        BY ArgumentTypes DEF IInv
    <2> QED BY <2>1 DEF Take, IInv, IType, Words
<1>2. Len(values'[a]) = Len(values[a]) + 1 /\ Len(values[a]) \in Nat /\ Count(a) \in Int
    BY <1>1, ArgumentTypes DEF IInv
<1>3. Counted(a) => Len(values'[a]) <= Count(a)
    BY <1>2 DEF Full, Counted
<1>4. \A b \in Arguments : Counted(b) => Len(values'[b]) <= Count(b)
    BY <1>1, <1>3 DEF IInv
<1>5. Counted(a) /\ a # current' => Len(values'[a]) = Count(a)
    BY <1>2, <1>3 DEF Full, Take, Counted
<1>6. IType'
    BY <1>1, UnchangedInput DEF IInv, IType, Take, NextElement, Words
<1>7. status' = "parse"
    BY DEF NextElement
<1> QED BY <1>1, <1>4, <1>5, <1>6, <1>7, OpenLemma

LEMMA AddValueLemma ==
    ASSUME IInv, UNCHANGED input, NEW value \in Words, AddValue(current, value),
           NextElement, UNCHANGED letters, status = "parse"
    PROVE  IInv'
<1>1. CASE Takes(current)
    <2>1. current \in Arguments /\ ~Full(current, Len(values[current]))
        BY <1>1 DEF Takes, IInv, IType
    <2>2. Take(current, value) /\ UNCHANGED found
        BY <1>1 DEF AddValue
    <2>3. \A b \in Arguments : b # current /\ Counted(b) /\ found'[b] =>
              Len(values[b]) = Count(b) \/ ForHelp(b)
        BY <2>2 DEF IInv, ForHelp
    <2>4. found' \in [Arguments -> BOOLEAN]
        BY <2>2 DEF IInv, IType
    <2> QED BY <2>1, <2>2, <2>3, <2>4, TakeLemma
<1>2. CASE ~Takes(current)
    <2>1. Settled
        BY <1>2, Settles DEF Takes
    <2>2. Place(argv_index, value)
        BY <1>2 DEF AddValue
    <2> QED BY <2>1, <2>2, PlaceLemma
<1> QED BY <1>1, <1>2

-----------------------------------------------------------------------------
LEMMA WordTypes == IInv => Whole \in Words /\ Part \in Words
BY DEF IInv, IType, Whole, Part, Words

LEMMA ElementTypes ==
    ASSUME IInv, Parsing
    PROVE  Element.names \in Seq(STRING)
<1>1. argv_index \in DOMAIN argv
    BY DEF Parsing, IInv, IType
<1>2. Element \in Token
    BY <1>1 DEF IInv, IType, Element
<1> QED BY <1>2 DEF Token

LEMMA BuildNamesStep == IInv /\ BuildNames => IInv'
<1> SUFFICES ASSUME IInv, BuildNames PROVE IInv'
    OBVIOUS
<1>1. UNCHANGED input /\ UNCHANGED <<argv_index, current, letters, values, found>>
    BY DEF BuildNames, End
<1>2. status' \in {"duplicate", "parse"} /\ status = "names"
    BY DEF BuildNames, End
<1> QED BY <1>1, <1>2, UnchangedInput DEF IInv, IType

LEMMA SkipEmptyStep == IInv /\ SkipEmpty => IInv'
<1> SUFFICES ASSUME IInv, SkipEmpty PROVE IInv'
    OBVIOUS
<1>1. UNCHANGED input /\ UNCHANGED <<current, letters, values, found, status>>
    BY DEF SkipEmpty, NextElement
<1>2. argv_index' \in Nat \ {0} /\ status = "parse"
    BY DEF SkipEmpty, NextElement, Parsing, IInv, IType
<1> QED BY <1>1, <1>2, UnchangedInput DEF IInv, IType

LEMMA HelpStep == IInv /\ Help => IInv'
<1> SUFFICES ASSUME IInv, Help PROVE IInv'
    OBVIOUS
<1>1. UNCHANGED input /\ UNCHANGED <<current, letters, values, status>> /\ status = "parse"
    BY DEF Help, NextElement, Parsing
<1>2. argv_index' \in Nat \ {0} /\ parser.help_enabled
    BY DEF Help, NextElement, IsHelp, IInv, IType
<1>3. found' \in [Arguments -> BOOLEAN]
    BY DEF Help, IInv, IType
<1>4. \A a \in Arguments : found'[a] => found[a] \/ ForHelp(a)
    BY <1>2 DEF Help, ForHelp
<1>5. IType'
    BY <1>1, <1>2, <1>3, UnchangedInput DEF IInv, IType
<1> QED BY <1>1, <1>4, <1>5, OpenLemma DEF IInv, ForHelp

LEMMA LastElementStep == IInv /\ LastElement => IInv'
<1> SUFFICES ASSUME IInv, LastElement PROVE IInv'
    OBVIOUS
<1>1. UNCHANGED input /\ status = "parse"
    BY DEF LastElement, Parsing
<1>2. CASE EndFails
    BY <1>1, <1>2, EndFailsLemma
<1>3. CASE Endable /\ Place(LAST, Whole) /\ NextElement /\ UNCHANGED letters
    BY <1>1, <1>3, Settles, WordTypes, PlaceLemma
<1> QED BY <1>2, <1>3 DEF LastElement

LEMMA ValueStep == IInv /\ Value => IInv'
<1> SUFFICES ASSUME IInv, Value PROVE IInv'
    OBVIOUS
<1>1. UNCHANGED input /\ status = "parse"
    BY DEF Value, Parsing
<1>2. CASE End("too_many")
    BY <1>1, <1>2, EndLemma
<1>3. CASE AddValue(current, Whole) /\ NextElement /\ UNCHANGED letters
    BY <1>1, <1>3, WordTypes, AddValueLemma
<1> QED BY <1>2, <1>3 DEF Value

LEMMA OpenNamedStep ==
    ASSUME IInv, UNCHANGED input, status = "parse", Settled, NEW a \in Arguments, OpenNamed(a)
    PROVE  IInv'
<1>1. found' = [found EXCEPT ![a] = TRUE] /\ NextElement /\ UNCHANGED letters /\ status' = "parse"
    BY DEF OpenNamed, NextElement
<1>2. found' \in [Arguments -> BOOLEAN] /\ \A b \in Arguments : b # a => found'[b] = found[b]
    BY <1>1 DEF IInv, IType
<1>3. argv_index' \in Nat \ {0}
    BY <1>1 DEF NextElement, IInv, IType
<1>4. CASE current' = a /\ UNCHANGED values
    <2>1. IType'
        BY <1>1, <1>2, <1>3, <1>4, UnchangedInput DEF IInv, IType
    <2> QED BY <1>1, <1>2, <1>4, <2>1, OpenLemma DEF IInv, Settled
<1>5. CASE Full(a, Len(values[a])) /\ current' = 0 /\ UNCHANGED values
    <2>1. IType'
        BY <1>1, <1>2, <1>3, <1>5, UnchangedInput DEF IInv, IType
    <2>2. Counted(a) => Len(values[a]) = Count(a)
        BY <1>5, ArgumentTypes DEF IInv, Full
    <2> QED BY <1>1, <1>2, <1>5, <2>1, <2>2, OpenLemma DEF IInv, Settled
<1>6. CASE ~Full(a, Len(values[a])) /\ Take(a, Part)
    <2>1. \A b \in Arguments : b # a /\ Counted(b) /\ found'[b] =>
              Len(values[b]) = Count(b) \/ ForHelp(b)
        BY <1>2 DEF Settled
    <2> QED BY <1>1, <1>2, <1>6, <2>1, WordTypes, TakeLemma
<1> QED BY <1>4, <1>5, <1>6 DEF OpenNamed

LEMMA OpenOptionStep == IInv /\ OpenOption => IInv'
<1> SUFFICES ASSUME IInv, OpenOption PROVE IInv'
    OBVIOUS
<1>1. UNCHANGED input /\ status = "parse" /\ Parsing
    BY DEF OpenOption, Parsing
<1>2. CASE EndFails
    BY <1>1, <1>2, EndFailsLemma
<1>3. CASE Endable /\ Place(argv_index, Whole) /\ NextElement /\ UNCHANGED letters
    BY <1>1, <1>3, Settles, WordTypes, PlaceLemma
<1>4. ASSUME NEW name, Endable, OpenLong(name)
      PROVE  IInv'
    <2>1. CASE End("unrecognized") \/ End("malformed")
        BY <1>1, <2>1, EndLemma
    <2>2. CASE \E a \in Named(name) : OpenNamed(a)
        BY <1>1, <1>4, <2>2, Settles, OpenNamedStep DEF Named
    <2> QED BY <1>4, <2>1, <2>2 DEF OpenLong
<1>5. CASE Endable /\ OpenGroup
    <2>1. /\ letters' = Element.names /\ current' = 0 /\ UNCHANGED <<values, found>>
          /\ status' = "parse" /\ argv_index' \in Nat \ {0}
        BY <1>1, <1>5 DEF OpenGroup, NextElement, IInv, IType
    <2>2. IType'
        BY <1>1, <2>1, ElementTypes, UnchangedInput DEF IInv, IType
    <2> QED BY <1>1, <1>5, <2>1, <2>2, Settles, OpenLemma DEF IInv, Settled
<1> QED BY <1>2, <1>3, <1>4, <1>5 DEF OpenOption

LEMMA LetterStep == IInv /\ Letter => IInv'
<1> SUFFICES ASSUME IInv, Letter PROVE IInv'
    OBVIOUS
<1>1. UNCHANGED input /\ status = "parse" /\ letters # <<>>
    BY DEF Letter
<1>2. CASE End("unrecognized") \/ End("too_few") \/ End("too_many")
    BY <1>1, <1>2, EndLemma
<1>3. ASSUME NEW a \in Named(Head(letters)), ~TooFew(a), ~TooMany(a),
             found' = [found EXCEPT ![a] = TRUE], letters' = Tail(letters),
             argv_index' = IF Len(letters) = 1 THEN argv_index + 1 ELSE argv_index,
             UNCHANGED <<current, values, status>>
      PROVE  IInv'
    <2>1. a \in Arguments
        BY DEF Named
    <2>2. Counted(a) => Len(values[a]) = Count(a)
        BY <1>3, <2>1, ArgumentTypes DEF IInv, TooFew, TooMany, Counted
    <2>3. found' \in [Arguments -> BOOLEAN] /\ \A b \in Arguments : b # a => found'[b] = found[b]
        BY <1>3, <2>1 DEF IInv, IType
    <2>4. letters' \in Seq(STRING) /\ argv_index' \in Nat \ {0}
        BY <1>1, <1>3 DEF IInv, IType
    <2>5. IType'
        BY <1>1, <1>3, <2>3, <2>4, UnchangedInput DEF IInv, IType
    <2> QED BY <1>1, <1>3, <2>2, <2>3, <2>5, OpenLemma DEF IInv, ForHelp
<1> QED BY <1>2, <1>3 DEF Letter

LEMMA EndOfLineStep == IInv /\ EndOfLine => IInv'
<1> SUFFICES ASSUME IInv, EndOfLine PROVE IInv'
    OBVIOUS
<1>1. UNCHANGED input
    BY DEF EndOfLine
<1>2. CASE HelpAsked /\ End("ok")
    BY <1>1, <1>2, UnchangedInput DEF IInv, IType, End, HelpAsked, Exists
<1>3. CASE EndFails
    BY <1>1, <1>3, EndFailsLemma
<1>4. CASE Endable /\ status' = "check" /\ current' = 0 /\ UNCHANGED <<argv_index, letters, values, found>>
    <2>1. Settled
        BY <1>4, Settles
    <2> QED BY <1>1, <1>4, <2>1, UnchangedInput DEF IInv, IType, Settled, ForHelp
<1> QED BY <1>2, <1>3, <1>4 DEF EndOfLine

LEMMA CheckStep == IInv /\ Check => IInv'
<1> SUFFICES ASSUME IInv, Check PROVE IInv'
    OBVIOUS
<1>1. UNCHANGED input /\ status = "check"
    BY DEF Check
<1>2. CASE End("positional") \/ End("required") \/ End("expected")
    BY <1>1, <1>2, EndLemma
<1>3. CASE End("ok")
    BY <1>1, <1>3, UnchangedInput DEF IInv, IType, End, HelpAsked, Exists
<1> QED BY <1>2, <1>3 DEF Check

-----------------------------------------------------------------------------
LEMMA NextLemma == IInv /\ [Next]_vars => IInv'
<1> SUFFICES ASSUME IInv, [Next]_vars PROVE IInv'
    OBVIOUS
<1>1. CASE UNCHANGED vars
    BY <1>1, UnchangedInput DEF IInv, IType, vars, input, HelpAsked, Exists
<1> QED BY <1>1, BuildNamesStep, SkipEmptyStep, HelpStep, LastElementStep, ValueStep,
           OpenOptionStep, LetterStep, EndOfLineStep, CheckStep DEF Next

\* An accepted command line fills every count exactly, however its options are
\* repeated, grouped or mixed with help (cli-parser.hpp:468-514).
THEOREM CountsTheorem == Spec => []CountsAreKept
<1>1. IInv /\ [Next]_vars => IInv'
    BY NextLemma
<1>2. IInv => CountsAreKept
    <2> SUFFICES ASSUME IInv, status = "ok", ~HelpAsked, NEW a \in Arguments, found[a], Counted(a)
                 PROVE  Len(values[a]) = Count(a)
        BY DEF CountsAreKept, Counted
    <2>1. a # current
        BY ArgumentTypes DEF IInv
    <2>2. ~(parser.help_enabled /\ a \in Named("help"))
        BY DEF HelpAsked, Exists
    <2> QED BY <2>1, <2>2 DEF IInv
<1> QED BY <1>1, <1>2, InitLemma, PTL DEF Spec

-----------------------------------------------------------------------------
\* The values.  What the two halves of ValuesReachTheirNames say of an argument.
Ordered(a) ==
    \A k \in DOMAIN values[a] :
        /\ BelongsTo(a, values[a][k][1]) \/ PlacedAt(a, values[a][k][1])
        /\ values[a][k][1] < argv_index
        /\ \A l \in 1..(k - 1) : values[a][l][1] < values[a][k][1]
Reached(a) ==
    \A i \in 1..(argv_index - 1) :
        IsValue(i) /\ BelongsTo(a, i) => \E k \in DOMAIN values[a] : values[a][k][1] = i
ValuesOK == \A a \in Arguments : Ordered(a) /\ (OnlyNamed => Reached(a))

\* The open argument is the one that the elements read so far lead to.
CurrentOK ==
    /\ current # 0 => BelongsTo(current, argv_index - 1)
    /\ OnlyNamed => \A a \in Arguments : BelongsTo(a, argv_index - 1) => a = current
GroupOK ==
    /\ current = 0
    /\ argv_index <= Len(argv) /\ Opens(argv_index) /\ Len(Element.names) # 1
VInv ==
    /\ argv_index \in 1..(Len(argv) + 1)
    /\ status = "names" =>
           /\ argv_index = 1 /\ current = 0 /\ letters = <<>>
           /\ \A a \in Arguments : values[a] = <<>>
    /\ status # "names" => argv = <<>> \/ ~Duplicate \/ status = "duplicate"
    /\ status \in {"parse", "check", "ok"} => ValuesOK
    /\ status = "parse" => IF letters = <<>> THEN CurrentOK ELSE GroupOK

LEMMA NotOpened ==
    ASSUME NEW i \in Nat \ {0}, ~Opens(i), NEW a
    PROVE  BelongsTo(a, i) <=> BelongsTo(a, i - 1)
<1>1. Opener(i) = Opener(i - 1)
    <2>1. ASSUME NEW j \in Opener(i) PROVE j \in Opener(i - 1)
        <3>1. j \in 1..i /\ Opens(j) /\ j # i /\ \A k \in (j + 1)..i : ~Opens(k)
            BY DEF Opener
        <3>2. j \in 1..(i - 1) /\ \A k \in (j + 1)..(i - 1) : k \in (j + 1)..i
            BY <3>1
        <3> QED BY <3>1, <3>2 DEF Opener
    <2>2. ASSUME NEW j \in Opener(i - 1) PROVE j \in Opener(i)
        <3>1. j \in 1..(i - 1) /\ Opens(j) /\ \A k \in (j + 1)..(i - 1) : ~Opens(k)
            BY DEF Opener
        <3>2. j \in 1..i /\ \A k \in (j + 1)..i : k \in (j + 1)..(i - 1) \/ k = i
            BY <3>1
        <3> QED BY <3>1, <3>2 DEF Opener
    <2> QED BY <2>1, <2>2
<1> QED BY <1>1 DEF BelongsTo

LEMMA OpenedHere ==
    ASSUME NEW i \in Nat \ {0}, Opens(i), NEW a
    PROVE  BelongsTo(a, i) <=> Len(argv[i].names) = 1 /\ a \in Named(argv[i].names[1])
<1>1. Opener(i) = {i}
    <2>1. i \in 1..i /\ \A k \in (i + 1)..i : FALSE
        OBVIOUS
    <2>2. ASSUME NEW j \in 1..i, j # i PROVE i \in (j + 1)..i
        BY <2>2
    <2> QED BY <2>1, <2>2 DEF Opener
<1> QED BY <1>1 DEF BelongsTo

LEMMA NothingBefore == ASSUME NEW a PROVE ~BelongsTo(a, 0)
BY DEF BelongsTo, Opener

\* Where no argument has a place or a count.
LEMMA OnlyNamedFacts ==
    ASSUME OnlyNamed
    PROVE  /\ \A location : Positional(location) = {}
           /\ \A a \in Arguments : \A n : ~Full(a, n)
<1>1. \A a \in Arguments : Position(a) = DONT_CARE /\ Count(a) = -1
    BY DEF OnlyNamed, ANY
<1> QED BY <1>1 DEF Positional, Full

LEMMA NamedOnce ==
    ASSUME ~Duplicate, NEW name, NEW a \in Named(name), NEW b \in Named(name)
    PROVE  a = b
<1>1. /\ a \in Arguments /\ b \in Arguments
      /\ name \in NamesOf(a) /\ name \in NamesOf(b)
    BY DEF Named
<1>2. PICK k \in DOMAIN parser.arguments[a].names : name = parser.arguments[a].names[k]
    BY <1>1 DEF NamesOf
<1>3. PICK l \in DOMAIN parser.arguments[b].names : name = parser.arguments[b].names[l]
    BY <1>1 DEF NamesOf
<1>4. <<a, k>> = <<b, l>>
    BY <1>1, <1>2, <1>3 DEF Duplicate
<1> QED BY <1>4

LEMMA SameLine ==
    ASSUME UNCHANGED input
    PROVE  /\ \A i : Opens(i)' = Opens(i) /\ IsValue(i)' = IsValue(i)
           /\ \A a, i : BelongsTo(a, i)' = BelongsTo(a, i) /\ PlacedAt(a, i)' = PlacedAt(a, i)
           /\ OnlyNamed' = OnlyNamed /\ Duplicate' = Duplicate
<1> USE DEF input
<1>1. \A i : Opens(i)' = Opens(i)
    BY DEF Opens, IsHelp
<1>2. \A i : IsValue(i)' = IsValue(i)
    BY <1>1 DEF IsValue
<1>3. \A i : Opener(i)' = Opener(i)
    BY <1>1 DEF Opener
<1>4. \A a, i : BelongsTo(a, i)' = BelongsTo(a, i)
    BY <1>3, UnchangedInput DEF BelongsTo
<1>5. OnlyNamed' = OnlyNamed
    BY UnchangedInput DEF OnlyNamed
<1>6. Duplicate' = Duplicate
    BY UnchangedInput DEF Duplicate
<1>7. \A a, i : PlacedAt(a, i)' = PlacedAt(a, i)
    BY UnchangedInput DEF PlacedAt
<1> QED BY <1>1, <1>2, <1>4, <1>5, <1>6, <1>7

\* An element that is read and taken by a, or not.
LEMMA KeepLemma ==
    ASSUME UNCHANGED input, NEW a \in Arguments, argv_index \in Nat \ {0}, argv_index' = argv_index + 1,
           values'[a] = values[a], Ordered(a)
    PROVE  /\ values[a] \in Seq(Words) => Ordered(a)'
           /\ Reached(a) /\ ~(IsValue(argv_index) /\ BelongsTo(a, argv_index)) => Reached(a)'
<1>1. ASSUME values[a] \in Seq(Words) PROVE Ordered(a)'
    <2>1. \A k \in DOMAIN values[a] : values[a][k][1] \in Nat
        BY <1>1 DEF Words
    <2>2. \A k \in DOMAIN values[a] : values[a][k][1] < argv_index'
        BY <2>1 DEF Ordered
    <2> QED BY <2>2, SameLine, UnchangedInput DEF Ordered
<1>2. ASSUME Reached(a), ~(IsValue(argv_index) /\ BelongsTo(a, argv_index)) PROVE Reached(a)'
    <2>1. \A i \in 1..(argv_index' - 1) : i \in 1..(argv_index - 1) \/ i = argv_index
        OBVIOUS
    <2> QED BY <1>2, <2>1, SameLine DEF Reached
<1> QED BY <1>1, <1>2

LEMMA AppendLemma ==
    ASSUME UNCHANGED input, NEW a \in Arguments, argv_index \in Nat \ {0}, argv_index' = argv_index + 1,
           values[a] \in Seq(Words), NEW value \in Words, value[1] = argv_index,
           values'[a] = Append(values[a], value), Ordered(a),
           BelongsTo(a, argv_index) \/ PlacedAt(a, argv_index)
    PROVE  Ordered(a)' /\ (Reached(a) => Reached(a)')
<1>1. PICK old \in Seq(Words) : old = values[a]
    OBVIOUS
<1>2. PICK new \in Seq(Words) : new = values'[a] /\ new = Append(old, value)
    <2>1. Append(old, value) \in Seq(Words)
        OBVIOUS
    <2> QED BY <1>1, <2>1
<1>3. PICK n \in Nat : n = Len(old)
    <2>1. Len(old) \in Nat
        OBVIOUS
    <2> QED BY <2>1
<1>4. /\ DOMAIN old = 1..n /\ DOMAIN new = 1..(n + 1) /\ new[n + 1] = value
      /\ \A k \in 1..n : new[k] = old[k] /\ new[k][1] \in Nat
    BY <1>2, <1>3 DEF Words
<1>5. \A k \in 1..n :
         /\ BelongsTo(a, new[k][1]) \/ PlacedAt(a, new[k][1])
         /\ new[k][1] < argv_index
         /\ \A l \in 1..(k - 1) : new[l][1] < new[k][1]
    <2> TAKE k \in 1..n
    <2>1. \A l \in 1..(k - 1) : l \in 1..n
        BY <1>3
    <2> QED BY <1>1, <1>4, <2>1 DEF Ordered
<1>6. Ordered(a)'
    <2>1. ASSUME NEW k \in 1..(n + 1)
          PROVE  /\ BelongsTo(a, new[k][1]) \/ PlacedAt(a, new[k][1])
                 /\ new[k][1] < argv_index'
                 /\ \A l \in 1..(k - 1) : new[l][1] < new[k][1]
        <3>1. CASE k \in 1..n
            <4>1. new[k][1] < argv_index'
                BY <1>4, <1>5, <3>1
            <4> QED BY <1>5, <3>1, <4>1
        <3>2. CASE k = n + 1
            <4>1. \A l \in 1..(k - 1) : l \in 1..n
                BY <1>3, <3>2
            <4>2. new[k][1] = argv_index
                BY <1>4, <3>2
            <4>3. \A l \in 1..(k - 1) : new[l][1] < new[k][1]
                BY <1>5, <4>1, <4>2
            <4> QED BY <4>2, <4>3
        <3>3. k \in 1..n \/ k = n + 1
            BY <1>3
        <3> QED BY <3>1, <3>2, <3>3
    <2>2. ASSUME NEW k \in 1..(n + 1)
          PROVE  BelongsTo(a, new[k][1])' \/ PlacedAt(a, new[k][1])'
        BY <2>1, SameLine
    <2> QED BY <1>2, <1>4, <2>1, <2>2 DEF Ordered
<1>7. ASSUME Reached(a) PROVE Reached(a)'
    <2>1. \A i \in 1..(argv_index' - 1) : i \in 1..(argv_index - 1) \/ i = argv_index
        OBVIOUS
    <2>2. ASSUME NEW i \in 1..(argv_index - 1), IsValue(i), BelongsTo(a, i)
          PROVE  \E k \in DOMAIN new : new[k][1] = i
        <3>1. PICK k \in 1..n : old[k][1] = i
            BY <1>1, <1>4, <1>7, <2>2 DEF Reached
        <3>2. k \in DOMAIN new /\ new[k][1] = i
            BY <1>4, <3>1
        <3> QED BY <3>2
    <2>3. n + 1 \in DOMAIN new /\ new[n + 1][1] = argv_index
        BY <1>3, <1>4
    <2> QED BY <1>2, <2>1, <2>2, <2>3, SameLine DEF Reached
<1> QED BY <1>6, <1>7

\* What holds whenever an element is looked at.
LEMMA AtElement ==
    ASSUME IInv, VInv, Parsing
    PROVE  /\ argv_index \in Nat \ {0} /\ argv_index \in 1..Len(argv) /\ argv # <<>>
           /\ Len(argv) \in Nat /\ status = "parse" /\ ~Duplicate /\ ValuesOK /\ CurrentOK
           /\ argv_index + 1 \in 1..(Len(argv) + 1)
           /\ \A a \in Arguments : values[a] \in Seq(Words)
           /\ Whole \in Words /\ Part \in Words /\ Whole[1] = argv_index /\ Part[1] = argv_index
<1>1. Len(argv) \in Nat /\ argv_index \in 1..(Len(argv) + 1) /\ argv_index <= Len(argv)
    BY DEF IInv, IType, VInv, Parsing
<1>2. argv # <<>> /\ status = "parse"
    BY <1>1 DEF Parsing
<1>3. ~Duplicate /\ ValuesOK /\ CurrentOK
    BY <1>2 DEF VInv, Parsing
<1>4. \A a \in Arguments : values[a] \in Seq(Words)
    BY ArgumentTypes DEF IInv
<1> QED BY <1>1, <1>2, <1>3, <1>4, WordTypes DEF Whole, Part

\* The next element, when each argument kept or took its values.
LEMMA NextElementLemma ==
    ASSUME IInv, VInv, Parsing, UNCHANGED input, NextElement, letters' = letters, ValuesOK', CurrentOK'
    PROVE  VInv'
<1>1. argv_index' = argv_index + 1 /\ argv_index' \in 1..(Len(argv') + 1) /\ status' = "parse"
    BY AtElement, UnchangedInput DEF NextElement
<1>2. ~Duplicate'
    BY AtElement, SameLine
<1>3. letters' = <<>>
    BY DEF Parsing
<1> QED BY <1>1, <1>2, <1>3 DEF VInv

\* Nothing is read: the parse goes on elsewhere or fails.
LEMMA StayLemma ==
    ASSUME IInv, VInv, UNCHANGED input, UNCHANGED <<argv_index, values>>
    PROVE  ValuesOK => ValuesOK'
<1>1. ASSUME ValuesOK, NEW a \in Arguments PROVE Ordered(a)'
    BY <1>1, SameLine, UnchangedInput DEF Ordered, ValuesOK
<1>2. ASSUME ValuesOK, NEW a \in Arguments, OnlyNamed PROVE Reached(a)'
    BY <1>2, SameLine, UnchangedInput DEF Reached, ValuesOK
<1> QED BY <1>1, <1>2, SameLine, UnchangedInput DEF ValuesOK

LEMMA FailLemma ==
    ASSUME IInv, VInv, UNCHANGED input, NEW result, End(result),
           result \notin {"names", "parse", "check", "ok"}, status \in {"parse", "check"}
    PROVE  VInv'
<1>1. UNCHANGED <<argv_index, values>> /\ status' = result
    BY DEF End
<1>2. argv_index' \in 1..(Len(argv') + 1)
    BY <1>1, UnchangedInput DEF VInv
<1>3. argv' = <<>> \/ ~Duplicate' \/ status' = "duplicate"
    BY <1>1, SameLine, UnchangedInput DEF VInv
<1> QED BY <1>1, <1>2, <1>3 DEF VInv

LEMMA ClosingFails ==
    ASSUME IInv, VInv, UNCHANGED input, EndFails, status = "parse" PROVE VInv'
BY FailLemma DEF EndFails

\* An element that is no option and no value.
LEMMA PassLemma ==
    ASSUME IInv, VInv, Parsing, UNCHANGED input, NextElement, UNCHANGED <<current, letters, values>>,
           ~Opens(argv_index), ~IsValue(argv_index)
    PROVE  VInv'
<1>1. argv_index' = argv_index + 1
    BY DEF NextElement
<1>2. ValuesOK'
    BY <1>1, AtElement, KeepLemma, SameLine, UnchangedInput DEF ValuesOK
<1>3. /\ \A a : BelongsTo(a, argv_index) <=> BelongsTo(a, argv_index - 1)
      /\ argv_index' - 1 = argv_index
    BY <1>1, AtElement, NotOpened
<1>4. CurrentOK'
    BY <1>1, <1>3, AtElement, SameLine, UnchangedInput DEF CurrentOK
<1> QED BY <1>2, <1>4, NextElementLemma

LEMMA SkipEmptyValues == IInv /\ VInv /\ SkipEmpty => VInv'
<1> SUFFICES ASSUME IInv, VInv, SkipEmpty PROVE VInv'
    OBVIOUS
<1>1. ~Opens(argv_index) /\ ~IsValue(argv_index)
    BY DEF SkipEmpty, Opens, IsValue, Element
<1> QED BY <1>1, PassLemma DEF SkipEmpty

LEMMA HelpValues == IInv /\ VInv /\ Help => VInv'
<1> SUFFICES ASSUME IInv, VInv, Help PROVE VInv'
    OBVIOUS
<1>1. ~Opens(argv_index) /\ ~IsValue(argv_index)
    BY DEF Help, Opens, IsValue, IsHelp, Element
<1> QED BY <1>1, PassLemma DEF Help

\* A value goes to the argument that is expected there; nothing is open then.
LEMMA PlaceValues ==
    ASSUME IInv, VInv, Parsing, UNCHANGED input, NextElement, UNCHANGED letters,
           NEW location, Place(location, Whole),
           location = argv_index \/ (location = LAST /\ argv_index = Len(argv)),
           OnlyNamed => \A a \in Arguments : ~BelongsTo(a, argv_index)
    PROVE  VInv'
<1>1. argv_index' = argv_index + 1 /\ current' = 0
    BY DEF NextElement, Place
<1>2. ASSUME NEW a \in Arguments PROVE Ordered(a)' /\ (OnlyNamed => Reached(a)')
    <2>1. values[a] \in Seq(Words) /\ Ordered(a) /\ (OnlyNamed => Reached(a))
        BY AtElement DEF ValuesOK
    <2>2. CASE a \in Positional(location)
        <3>1. values'[a] = Append(values[a], Whole)
            BY <2>2 DEF Place
        <3>2. PlacedAt(a, argv_index)
            BY <2>2 DEF PlacedAt
        <3> QED BY <1>1, <2>1, <3>1, <3>2, AtElement, AppendLemma
    <2>3. CASE a \notin Positional(location)
        <3>1. values'[a] = values[a]
            BY <2>3 DEF Place
        <3> QED BY <1>1, <2>1, <3>1, AtElement, KeepLemma
    <2> QED BY <2>2, <2>3
<1>3. ValuesOK'
    BY <1>2, SameLine, UnchangedInput DEF ValuesOK
<1>4. CurrentOK'
    BY <1>1, AtElement, SameLine, UnchangedInput DEF CurrentOK
<1> QED BY <1>3, <1>4, NextElementLemma

LEMMA LastElementValues == IInv /\ VInv /\ LastElement => VInv'
<1> SUFFICES ASSUME IInv, VInv, LastElement PROVE VInv'
    OBVIOUS
<1>1. Parsing /\ UNCHANGED input /\ status = "parse" /\ IsLast
    BY DEF LastElement, Parsing
<1>2. CASE EndFails
    BY <1>1, <1>2, ClosingFails
<1>3. CASE Place(LAST, Whole) /\ NextElement /\ UNCHANGED letters
    <2>1. ~OnlyNamed /\ argv_index = Len(argv)
        BY <1>1, OnlyNamedFacts DEF IsLast
    <2> QED BY <1>1, <1>3, <2>1, PlaceValues
<1> QED BY <1>2, <1>3 DEF LastElement

\* The argument that the element belongs to takes a part of it.
LEMMA TakeValues ==
    ASSUME IInv, VInv, Parsing, UNCHANGED input, NextElement, UNCHANGED letters,
           NEW a \in Arguments, NEW value \in {Whole, Part}, Take(a, value),
           BelongsTo(a, argv_index),
           OnlyNamed => \A b \in Arguments : BelongsTo(b, argv_index) => b = a
    PROVE  VInv'
<1>1. argv_index' = argv_index + 1 /\ current' \in {0, a} /\ (OnlyNamed => current' = a)
    BY OnlyNamedFacts DEF NextElement, Take
<1>2. /\ \A b \in Arguments : b # a => values'[b] = values[b]
      /\ values'[a] = Append(values[a], value)
    BY DEF Take, IInv, IType
<1>3. ASSUME NEW b \in Arguments PROVE Ordered(b)' /\ (OnlyNamed => Reached(b)')
    <2>1. values[b] \in Seq(Words) /\ Ordered(b) /\ (OnlyNamed => Reached(b))
        BY AtElement DEF ValuesOK
    <2>2. CASE b = a
        <3>1. value \in Words /\ value[1] = argv_index
            BY AtElement
        <3> QED BY <1>1, <1>2, <2>1, <2>2, <3>1, AtElement, AppendLemma
    <2>3. CASE b # a
        BY <1>1, <1>2, <2>1, <2>3, AtElement, KeepLemma
    <2> QED BY <2>2, <2>3
<1>4. ValuesOK'
    BY <1>3, SameLine, UnchangedInput DEF ValuesOK
<1>5. argv_index' - 1 = argv_index
    BY <1>1, AtElement
<1>6. CurrentOK'
    BY <1>1, <1>5, SameLine, UnchangedInput DEF CurrentOK
<1> QED BY <1>4, <1>6, NextElementLemma

LEMMA ValueValues == IInv /\ VInv /\ Value => VInv'
<1> SUFFICES ASSUME IInv, VInv, Value PROVE VInv'
    OBVIOUS
<1>1. Parsing /\ UNCHANGED input /\ status = "parse"
    BY DEF Value, Parsing
<1>2. ~Opens(argv_index)
    BY DEF Value, Opens, Element
<1>3. \A a : BelongsTo(a, argv_index) <=> BelongsTo(a, argv_index - 1)
    BY <1>1, <1>2, AtElement, NotOpened
<1>4. /\ current # 0 => BelongsTo(current, argv_index)
      /\ OnlyNamed => \A a \in Arguments : BelongsTo(a, argv_index) => a = current
    BY <1>1, <1>3, AtElement DEF CurrentOK
<1>5. CASE End("too_many")
    BY <1>1, <1>5, FailLemma
<1>6. CASE AddValue(current, Whole) /\ NextElement /\ UNCHANGED letters
    <2>1. CASE Takes(current) /\ Take(current, Whole)
        <3>1. current \in Arguments /\ current # 0
            BY <2>1 DEF Takes, IInv, IType
        <3> QED BY <1>1, <1>4, <1>6, <2>1, <3>1, TakeValues
    <2>2. CASE ~Takes(current) /\ Place(argv_index, Whole)
        <3>1. ASSUME OnlyNamed, NEW a \in Arguments PROVE ~BelongsTo(a, argv_index)
            <4>1. a # 0
                BY <3>1, ArgumentTypes DEF IInv
            <4>2. current \in Arguments => ~Full(current, Len(values[current]))
                BY <3>1, OnlyNamedFacts
            <4>3. a # current
                BY <2>2, <4>1, <4>2 DEF Takes
            <4> QED BY <1>4, <3>1, <4>3
        <3> QED BY <1>1, <1>6, <2>2, <3>1, PlaceValues
    <2> QED BY <1>6, <2>1, <2>2 DEF AddValue
<1> QED BY <1>5, <1>6 DEF Value

\* An option: what it opens is what its element belongs to.
LEMMA OpenNamedValues ==
    ASSUME IInv, VInv, Parsing, UNCHANGED input, Opens(argv_index), Len(Element.names) = 1,
           NEW a \in Named(Element.names[1]), OpenNamed(a)
    PROVE  VInv'
<1>1. NextElement /\ UNCHANGED letters /\ argv_index' = argv_index + 1 /\ argv_index' - 1 = argv_index
    BY AtElement DEF OpenNamed, NextElement
<1>2. a \in Arguments
    BY DEF Named
<1>3. \A b : BelongsTo(b, argv_index) <=> b \in Named(Element.names[1])
    BY AtElement, OpenedHere DEF Element
<1>4. BelongsTo(a, argv_index) /\ \A b : BelongsTo(b, argv_index) => b = a
    BY <1>3, AtElement, NamedOnce
<1>5. ASSUME Element.tail = "none" \/ ~OnlyNamed, UNCHANGED values PROVE ValuesOK'
    <2>1. Element.tail = "none" => ~IsValue(argv_index)
        BY DEF IsValue, Opens, Element
    <2> QED BY <1>1, <1>5, <2>1, AtElement, KeepLemma, SameLine, UnchangedInput DEF ValuesOK
<1>6. CASE Element.tail = "none" /\ current' = a /\ UNCHANGED values
    <2>1. CurrentOK'
        BY <1>1, <1>4, <1>6, SameLine, UnchangedInput DEF CurrentOK
    <2> QED BY <1>1, <1>5, <1>6, <2>1, NextElementLemma
<1>7. CASE Full(a, Len(values[a])) /\ current' = 0 /\ UNCHANGED values
    <2>1. ~OnlyNamed
        BY <1>2, <1>7, OnlyNamedFacts
    <2>2. CurrentOK'
        BY <1>7, <2>1, SameLine DEF CurrentOK
    <2> QED BY <1>1, <1>5, <1>7, <2>1, <2>2, NextElementLemma
<1>8. CASE Take(a, Part)
    BY <1>1, <1>2, <1>4, <1>8, TakeValues
<1> QED BY <1>6, <1>7, <1>8 DEF OpenNamed

LEMMA OpenOptionValues == IInv /\ VInv /\ OpenOption => VInv'
<1> SUFFICES ASSUME IInv, VInv, OpenOption PROVE VInv'
    OBVIOUS
<1>1. Parsing /\ UNCHANGED input /\ status = "parse"
    BY DEF OpenOption, Parsing
<1>2. Opens(argv_index)
    BY DEF OpenOption, Opens, Option, Element
<1>3. CASE EndFails
    BY <1>1, <1>3, ClosingFails
<1>4. CASE Positional(argv_index) # {} /\ Place(argv_index, Whole) /\ NextElement /\ UNCHANGED letters
    BY <1>1, <1>4, OnlyNamedFacts, PlaceValues
<1>5. CASE Len(Element.names) = 1 /\ OpenLong(Element.names[1])
    <2>1. CASE End("unrecognized") \/ End("malformed")
        BY <1>1, <2>1, FailLemma
    <2>2. ASSUME NEW a \in Named(Element.names[1]), OpenNamed(a) PROVE VInv'
        BY <1>1, <1>2, <1>5, <2>2, OpenNamedValues
    <2> QED BY <1>5, <2>1, <2>2 DEF OpenLong
<1>6. CASE Len(Element.names) # 1 /\ OpenGroup
    <2>1. letters' = Element.names /\ current' = 0 /\ UNCHANGED values
        BY <1>6 DEF OpenGroup
    <2>2. CASE Element.names = <<>>
        <3>1. NextElement /\ argv_index' = argv_index + 1 /\ argv_index' - 1 = argv_index
            BY <1>1, <1>6, <2>2, AtElement DEF OpenGroup, NextElement
        <3>2. ~IsValue(argv_index) /\ \A a : ~BelongsTo(a, argv_index)
            BY <1>1, <1>2, <1>6, AtElement, OpenedHere DEF IsValue, Opens, Element
        <3>3. ValuesOK'
            BY <1>1, <2>1, <3>1, <3>2, AtElement, KeepLemma, SameLine, UnchangedInput DEF ValuesOK
        <3>4. CurrentOK'
            BY <1>1, <2>1, <3>1, <3>2, SameLine, UnchangedInput DEF CurrentOK
        <3>5. letters' = letters
            BY <1>1, <2>1, <2>2 DEF Parsing
        <3> QED BY <1>1, <3>1, <3>3, <3>4, <3>5, NextElementLemma
    <2>3. CASE Element.names # <<>>
        <3>1. UNCHANGED <<argv_index, status>>
            BY <1>6, <2>3 DEF OpenGroup
        <3>2. ValuesOK'
            BY <1>1, <2>1, <3>1, AtElement, StayLemma
        <3>3. Element' = Element
            BY <1>1, <3>1, UnchangedInput DEF Element
        <3>4. GroupOK'
            BY <1>1, <1>2, <1>6, <2>1, <3>1, <3>3, SameLine, UnchangedInput, AtElement DEF GroupOK
        <3>5. argv_index' \in 1..(Len(argv') + 1) /\ ~Duplicate'
            BY <1>1, <3>1, SameLine, UnchangedInput, AtElement DEF VInv
        <3> QED BY <1>1, <2>1, <2>3, <3>1, <3>2, <3>4, <3>5 DEF VInv
    <2> QED BY <2>2, <2>3
<1> QED BY <1>3, <1>4, <1>5, <1>6 DEF OpenOption

LEMMA LetterValues == IInv /\ VInv /\ Letter => VInv'
<1> SUFFICES ASSUME IInv, VInv, Letter PROVE VInv'
    OBVIOUS
<1>1. UNCHANGED input /\ status = "parse" /\ letters # <<>>
    BY DEF Letter
<1>2. /\ argv_index \in Nat \ {0} /\ Len(argv) \in Nat /\ argv_index <= Len(argv) /\ argv # <<>>
      /\ current = 0 /\ Opens(argv_index) /\ Len(Element.names) # 1 /\ ValuesOK /\ ~Duplicate
    BY <1>1 DEF VInv, GroupOK, IInv, IType
<1>3. CASE End("unrecognized") \/ End("too_few") \/ End("too_many")
    BY <1>1, <1>3, FailLemma
<1>4. CASE /\ letters' = Tail(letters) /\ UNCHANGED <<current, values, status>>
           /\ argv_index' = IF Len(letters) = 1 THEN argv_index + 1 ELSE argv_index
    <2>1. letters \in Seq(STRING) /\ Len(letters) \in Nat \ {0}
        BY <1>1 DEF IInv, IType
    <2>2. CASE Len(letters) = 1
        <3>1. letters' = <<>> /\ argv_index' = argv_index + 1 /\ argv_index' - 1 = argv_index
            BY <1>2, <1>4, <2>1, <2>2
        <3>2. ~IsValue(argv_index) /\ \A a : ~BelongsTo(a, argv_index)
            BY <1>2, OpenedHere DEF IsValue, Opens, Element
        <3>3. \A a \in Arguments : values[a] \in Seq(Words)
            BY ArgumentTypes DEF IInv
        <3>4. ValuesOK'
            BY <1>1, <1>2, <1>4, <3>1, <3>2, <3>3, KeepLemma, SameLine, UnchangedInput DEF ValuesOK
        <3>5. CurrentOK'
            BY <1>1, <1>2, <1>4, <3>1, <3>2, SameLine, UnchangedInput DEF CurrentOK
        <3>6. argv_index' \in 1..(Len(argv') + 1) /\ ~Duplicate'
            BY <1>1, <1>2, <3>1, SameLine, UnchangedInput
        <3> QED BY <1>1, <1>4, <3>1, <3>4, <3>5, <3>6 DEF VInv
    <2>3. CASE Len(letters) # 1
        <3>1. letters' # <<>> /\ UNCHANGED <<argv_index, values>>
            <4>1. Len(Tail(letters)) = Len(letters) - 1
                BY <1>1, <2>1
            <4>2. Len(Tail(letters)) # 0
                BY <2>1, <2>3, <4>1
            <4>3. Len(<<>>) = 0
                OBVIOUS
            <4>4. Tail(letters) # <<>>
                BY <4>2, <4>3
            <4> QED BY <1>4, <2>3, <4>4
        <3>2. ValuesOK'
            BY <1>1, <1>2, <3>1, StayLemma
        <3>3. Element' = Element
            BY <1>1, <3>1, UnchangedInput DEF Element
        <3>4. GroupOK'
            BY <1>1, <1>2, <1>4, <3>1, <3>3, SameLine, UnchangedInput DEF GroupOK
        <3>5. argv_index' \in 1..(Len(argv') + 1) /\ ~Duplicate'
            BY <1>1, <1>2, <3>1, SameLine, UnchangedInput DEF VInv
        <3> QED BY <1>1, <1>4, <3>1, <3>2, <3>4, <3>5 DEF VInv
    <2> QED BY <2>2, <2>3
<1> QED BY <1>3, <1>4 DEF Letter

\* The line is read, or nothing is read yet.
LEMMA ReadLemma ==
    ASSUME IInv, VInv, UNCHANGED input, UNCHANGED <<argv_index, values>>,
           status \in {"parse", "check"}, status' \in {"check", "ok"}
    PROVE  VInv'
<1>1. ValuesOK /\ ValuesOK'
    BY StayLemma DEF VInv
<1>2. argv_index' \in 1..(Len(argv') + 1) /\ (argv' = <<>> \/ ~Duplicate')
    BY SameLine, UnchangedInput DEF VInv
<1> QED BY <1>1, <1>2 DEF VInv

LEMMA EndOfLineValues == IInv /\ VInv /\ EndOfLine => VInv'
<1> SUFFICES ASSUME IInv, VInv, EndOfLine PROVE VInv'
    OBVIOUS
<1>1. UNCHANGED input /\ status = "parse"
    BY DEF EndOfLine, AtEnd
<1>2. CASE EndFails
    BY <1>1, <1>2, ClosingFails
<1>3. CASE status' \in {"check", "ok"} /\ UNCHANGED <<argv_index, values>>
    BY <1>1, <1>3, ReadLemma
<1> QED BY <1>2, <1>3 DEF EndOfLine, End

LEMMA CheckValues == IInv /\ VInv /\ Check => VInv'
<1> SUFFICES ASSUME IInv, VInv, Check PROVE VInv'
    OBVIOUS
<1>1. UNCHANGED input /\ status = "check"
    BY DEF Check
<1>2. CASE End("positional") \/ End("required") \/ End("expected")
    BY <1>1, <1>2, FailLemma
<1>3. CASE End("ok")
    BY <1>1, <1>3, ReadLemma DEF End
<1> QED BY <1>2, <1>3 DEF Check

LEMMA BuildNamesValues == IInv /\ VInv /\ BuildNames => VInv'
<1> SUFFICES ASSUME IInv, VInv, BuildNames PROVE VInv'
    OBVIOUS
<1>1. /\ UNCHANGED input /\ UNCHANGED <<argv_index, current, letters, values>> /\ status = "names"
      /\ status' = IF argv # <<>> /\ Duplicate THEN "duplicate" ELSE "parse"
    BY DEF BuildNames, End
<1>2. argv_index = 1 /\ current = 0 /\ letters = <<>> /\ \A a \in Arguments : values[a] = <<>>
    BY <1>1 DEF VInv
<1>3. argv_index' \in 1..(Len(argv') + 1)
    BY <1>1, UnchangedInput DEF VInv
<1>4. argv' = <<>> \/ ~Duplicate' \/ status' = "duplicate"
    BY <1>1, SameLine, UnchangedInput
<1>5. ValuesOK'
    <2>1. \A a \in Arguments' : DOMAIN values'[a] = {}
        BY <1>1, <1>2, UnchangedInput
    <2>2. argv_index' = 1
        BY <1>1, <1>2
    <2> QED BY <2>1, <2>2 DEF ValuesOK, Ordered, Reached
<1>6. CurrentOK'
    <2>1. argv_index' - 1 = 0 /\ current' = 0
        BY <1>1, <1>2
    <2>2. \A a : ~BelongsTo(a, 0)'
        BY <1>1, NothingBefore, SameLine
    <2> QED BY <2>1, <2>2 DEF CurrentOK
<1> QED BY <1>1, <1>2, <1>3, <1>4, <1>5, <1>6 DEF VInv

LEMMA StutterValues ==
    ASSUME IInv, VInv, UNCHANGED vars PROVE VInv'
<1>1. UNCHANGED input /\ UNCHANGED <<argv_index, current, letters, values, found, status>>
    BY DEF vars, input
<1>2. ValuesOK => ValuesOK'
    BY <1>1, StayLemma
<1>3. CurrentOK => CurrentOK'
    BY <1>1, SameLine, UnchangedInput DEF CurrentOK
<1>4. GroupOK => GroupOK'
    BY <1>1, SameLine, UnchangedInput DEF GroupOK, Element
<1> QED BY <1>1, <1>2, <1>3, <1>4, SameLine, UnchangedInput DEF VInv

LEMMA ValuesInductive == (Init => VInv) /\ (IInv /\ VInv /\ [Next]_vars => VInv')
<1>1. Init => VInv
    <2> SUFFICES ASSUME Init PROVE VInv
        OBVIOUS
    <2>1. argv \in Seq(Token)
        BY InitLemma DEF IInv, IType
    <2>2. argv_index \in 1..(Len(argv) + 1)
        BY <2>1 DEF Init
    <2> QED BY <2>2 DEF Init, VInv
<1>2. IInv /\ VInv /\ [Next]_vars => VInv'
    BY BuildNamesValues, SkipEmptyValues, HelpValues, LastElementValues, ValueValues,
       OpenOptionValues, LetterValues, EndOfLineValues, CheckValues, StutterValues DEF Next
<1> QED BY <1>1, <1>2

\* Whatever the parser's arguments are, on every command line without a dashed
\* name a value goes to the argument that its element belongs to, or to one
\* that expects a value there or at the end, and without counts and places none
\* is lost (cli-parser.hpp:296-354, :416-499).
THEOREM ValuesTheorem == Spec => []ValuesReachTheirNames
<1>1. VInv => ValuesReachTheirNames
    BY DEF VInv, ValuesOK, Ordered, Reached, ValuesReachTheirNames
<1> QED BY <1>1, InitLemma, NextLemma, ValuesInductive, PTL DEF Spec

-----------------------------------------------------------------------------
\* The types.  What IInv and VInv leave open: values come from the line, a
\* group of letters leaves nothing open, and a line that was read to its end
\* has its last argument closed.
Elements == (1..Len(argv)) \X {"whole", "after", "mangled"}
TInv ==
    /\ parser \in Parsers /\ argv \in CommandLines
    /\ letters # <<>> => current = 0
    /\ \A a \in Arguments : values[a] \in Seq(Elements)
    /\ status \in {"names", "parse", "check", "ok", "duplicate", "too_few", "too_many",
                   "unrecognized", "malformed", "positional", "required", "expected"}
    /\ status = "check" => current = 0

LEMMA EndTypes ==
    ASSUME TInv, UNCHANGED input, NEW result, End(result),
           result \in {"parse", "ok", "duplicate", "too_few", "too_many",
                       "unrecognized", "malformed", "positional", "required", "expected"}
    PROVE  TInv'
BY UnchangedInput DEF TInv, End, Elements

LEMMA EndFailsTypes ==
    ASSUME TInv, UNCHANGED input, EndFails
    PROVE  TInv'
BY EndTypes DEF EndFails

\* A step that reads on.
LEMMA ReadTypes ==
    ASSUME TInv, UNCHANGED input, status' = "parse", letters' # <<>> => current' = 0,
           \A a \in Arguments : values'[a] \in Seq(Elements)
    PROVE  TInv'
BY UnchangedInput DEF TInv, Elements

LEMMA ReadElements ==
    ASSUME IInv, Parsing
    PROVE  Whole \in Elements /\ Part \in Elements /\ status = "parse" /\ letters = <<>>
<1>1. argv_index \in 1..Len(argv)
    BY DEF Parsing, IInv, IType
<1> QED BY <1>1 DEF Parsing, Whole, Part, Elements

LEMMA Appended ==
    ASSUME NEW S, NEW s \in Seq(S), NEW x \in S
    PROVE  Append(s, x) \in Seq(S)
OBVIOUS

LEMMA PlaceTypes ==
    ASSUME IInv, TInv, UNCHANGED input, Parsing, NEW location, Place(location, Whole),
           NextElement, UNCHANGED letters
    PROVE  TInv'
<1>1. \A a \in Arguments : values'[a] = values[a] \/ values'[a] = Append(values[a], Whole)
    BY DEF Place
<1>2. \A a \in Arguments : values[a] \in Seq(Elements) /\ Whole \in Elements
    BY ReadElements DEF TInv
<1>3. \A a \in Arguments : values'[a] \in Seq(Elements)
    BY <1>1, <1>2, Appended
<1>4. status' = "parse" /\ letters' = <<>>
    BY ReadElements DEF NextElement
<1> QED BY <1>3, <1>4, ReadTypes

LEMMA TakeTypes ==
    ASSUME IInv, TInv, UNCHANGED input, Parsing, NEW a, NEW value \in Elements, Take(a, value),
           NextElement, UNCHANGED letters
    PROVE  TInv'
<1>1. \A b \in Arguments : values'[b] = values[b] \/ values'[b] = Append(values[b], value)
    BY DEF Take, IInv, IType
<1>2. \A b \in Arguments : values[b] \in Seq(Elements)
    BY DEF TInv
<1>3. \A b \in Arguments : values'[b] \in Seq(Elements)
    BY <1>1, <1>2, Appended
<1>4. status' = "parse" /\ letters' = <<>>
    BY ReadElements DEF NextElement
<1> QED BY <1>3, <1>4, ReadTypes

LEMMA SkipTypes == IInv /\ TInv /\ (SkipEmpty \/ Help) => TInv'
<1> SUFFICES ASSUME IInv, TInv, SkipEmpty \/ Help PROVE TInv'
    OBVIOUS
<1>1. UNCHANGED input /\ UNCHANGED <<current, letters, values>> /\ status' = "parse"
    BY DEF SkipEmpty, Help, Parsing, NextElement
<1> QED BY <1>1, ReadTypes DEF TInv

LEMMA LastElementTypes == IInv /\ TInv /\ LastElement => TInv'
BY EndFailsTypes, PlaceTypes DEF LastElement

LEMMA ValueStepTypes == IInv /\ TInv /\ Value => TInv'
<1> SUFFICES ASSUME IInv, TInv, Value PROVE TInv'
    OBVIOUS
<1>1. UNCHANGED input /\ Parsing
    BY DEF Value
<1>2. CASE End("too_many")
    BY <1>1, <1>2, EndTypes
<1>3. CASE AddValue(current, Whole) /\ NextElement /\ UNCHANGED letters
    BY <1>1, <1>3, PlaceTypes, TakeTypes, ReadElements DEF AddValue
<1> QED BY <1>2, <1>3 DEF Value

LEMMA OpenOptionTypes == IInv /\ TInv /\ OpenOption => TInv'
<1> SUFFICES ASSUME IInv, TInv, OpenOption PROVE TInv'
    OBVIOUS
<1>1. UNCHANGED input /\ Parsing /\ status = "parse" /\ letters = <<>>
    BY DEF OpenOption, Parsing
<1>2. CASE EndFails
    BY <1>1, <1>2, EndFailsTypes
<1>3. CASE Place(argv_index, Whole) /\ NextElement /\ UNCHANGED letters
    BY <1>1, <1>3, PlaceTypes
<1>4. ASSUME NEW name, OpenLong(name)
      PROVE  TInv'
    <2>1. CASE End("unrecognized") \/ End("malformed")
        BY <1>1, <2>1, EndTypes
    <2>2. ASSUME NEW a, OpenNamed(a)
          PROVE  TInv'
        <3>1. CASE UNCHANGED values
            BY <1>1, <2>2, <3>1, ReadTypes DEF OpenNamed, NextElement, TInv
        <3>2. CASE Take(a, Part)
            BY <1>1, <2>2, <3>2, TakeTypes, ReadElements DEF OpenNamed
        <3> QED BY <2>2, <3>1, <3>2 DEF OpenNamed
    <2> QED BY <1>4, <2>1, <2>2 DEF OpenLong
<1>5. CASE OpenGroup
    <2>1. status' = "parse" /\ current' = 0 /\ UNCHANGED values
        BY <1>1, <1>5 DEF OpenGroup, NextElement
    <2> QED BY <1>1, <2>1, ReadTypes DEF TInv
<1> QED BY <1>2, <1>3, <1>4, <1>5 DEF OpenOption

LEMMA LetterTypes == IInv /\ TInv /\ Letter => TInv'
<1> SUFFICES ASSUME IInv, TInv, Letter PROVE TInv'
    OBVIOUS
<1>1. UNCHANGED input /\ status = "parse" /\ letters # <<>>
    BY DEF Letter
<1>2. CASE End("unrecognized") \/ End("too_few") \/ End("too_many")
    BY <1>1, <1>2, EndTypes
<1>3. CASE UNCHANGED <<current, values, status>>
    BY <1>1, <1>3, ReadTypes DEF TInv
<1> QED BY <1>2, <1>3 DEF Letter

LEMMA EndOfLineTypes == TInv /\ EndOfLine => TInv'
<1> SUFFICES ASSUME TInv, EndOfLine PROVE TInv'
    OBVIOUS
<1>1. UNCHANGED input
    BY DEF EndOfLine
<1>2. CASE End("ok")
    BY <1>1, <1>2, EndTypes
<1>3. CASE EndFails
    BY <1>1, <1>3, EndFailsTypes
<1>4. CASE status' = "check" /\ current' = 0 /\ UNCHANGED <<argv_index, letters, values, found>>
    BY <1>1, <1>4, UnchangedInput DEF TInv, Elements
<1> QED BY <1>2, <1>3, <1>4 DEF EndOfLine

LEMMA EnterTypes == TInv /\ (BuildNames \/ Check) => TInv'
<1> SUFFICES ASSUME TInv, BuildNames \/ Check PROVE TInv'
    OBVIOUS
<1>1. UNCHANGED input
    BY DEF BuildNames, Check
<1>2. \E result \in {"parse", "duplicate", "positional", "required", "expected", "ok"} : End(result)
    BY DEF BuildNames, Check
<1> QED BY <1>1, <1>2, EndTypes

\* Every state of every parse has the types of the model, whatever the parser
\* and the command line: in particular the walk over argv, which the code does
\* by index (cli-parser.hpp:288-357), never passes the element behind the last.
THEOREM TypeTheorem == Spec => []TypeOK
<1>1. Init => TInv
    <2> SUFFICES ASSUME Init PROVE TInv
        OBVIOUS
    <2>1. \A a \in Arguments : values[a] = <<>>
        BY DEF Init
    <2> QED BY <2>1 DEF Init, TInv
<1>2. IInv /\ TInv /\ [Next]_vars => TInv'
    <2>1. TInv /\ UNCHANGED vars => TInv'
        BY UnchangedInput DEF TInv, vars, input, Elements
    <2> QED BY <2>1, EnterTypes, SkipTypes, LastElementTypes, ValueStepTypes, OpenOptionTypes,
               LetterTypes, EndOfLineTypes DEF Next
<1>3. IInv /\ VInv /\ TInv => TypeOK
    <2> SUFFICES ASSUME IInv, VInv, TInv PROVE TypeOK
        OBVIOUS
    <2>1. values \in [Arguments -> Seq(Elements)]
        BY DEF IInv, IType, TInv
    <2> QED BY <2>1 DEF IInv, IType, VInv, TInv, TypeOK, Elements
<1> QED BY <1>1, <1>2, <1>3, InitLemma, NextLemma, ValuesInductive, PTL DEF Spec

-----------------------------------------------------------------------------
\* How far the parse is: which loop of it, and within an element how many
\* letters are still to do, an element that was not begun counting as one more.
Stage ==
    CASE status = "names" -> 0
      [] status = "parse" -> 1
      [] status = "check" -> 2
      [] OTHER -> 3
LettersLeft == IF letters = <<>> THEN Len(Element.names) + 1 ELSE Len(letters)
OneFurther ==
    \/ argv_index' = argv_index + 1
    \/ /\ argv_index' = argv_index
       /\ LettersLeft \in Nat /\ LettersLeft' \in Nat /\ LettersLeft' < LettersLeft
Further ==
    \/ Stage' > Stage
    \/ status = "parse" /\ UNCHANGED <<argv, status>> /\ argv_index <= Len(argv) /\ OneFurther

LEMMA EndFurther ==
    ASSUME NEW result, End(result),
           \/ status = "names" /\ result \in {"parse", "duplicate"}
           \/ /\ status \in {"parse", "check"}
              /\ result \in {"ok", "too_few", "too_many", "unrecognized", "malformed",
                             "positional", "required", "expected"}
    PROVE  Further
BY DEF End, Stage, Further

LEMMA EndFailsFurther == ASSUME status = "parse", EndFails PROVE Further
BY EndFurther DEF EndFails

LEMMA NextElementFurther ==
    ASSUME Parsing, UNCHANGED input, NextElement
    PROVE  Further
BY DEF Parsing, NextElement, Further, OneFurther, input

LEMMA OpenOptionFurther == ASSUME IInv, OpenOption PROVE Further
<1>1. Parsing /\ UNCHANGED input /\ status = "parse" /\ letters = <<>>
    BY DEF OpenOption, Parsing
<1>2. CASE EndFails
    BY <1>1, <1>2, EndFailsFurther
<1>3. CASE NextElement
    BY <1>1, <1>3, NextElementFurther
<1>4. ASSUME NEW name, OpenLong(name), ~ NextElement
      PROVE  Further
    <2>1. End("unrecognized") \/ End("malformed")
        BY <1>4 DEF OpenLong, OpenNamed
    <2> QED BY <1>1, <2>1, EndFurther
<1>5. CASE OpenGroup /\ ~ NextElement
    <2>1. letters' = Element.names /\ letters' # <<>> /\ UNCHANGED <<argv_index, status, argv>>
        BY <1>1, <1>5 DEF OpenGroup, input
    <2>2. argv_index <= Len(argv) /\ Element \in Token
        BY <1>1 DEF Parsing, Element, IInv, IType
    <2>3. Len(Element.names) \in Nat
        BY <2>2 DEF Token
    <2>4. LettersLeft = Len(Element.names) + 1 /\ LettersLeft' = Len(Element.names)
        BY <1>1, <2>1 DEF LettersLeft
    <2>5. OneFurther
        BY <2>1, <2>3, <2>4 DEF OneFurther
    <2> QED BY <1>1, <2>1, <2>2, <2>5 DEF Further
<1> QED BY <1>2, <1>3, <1>4, <1>5 DEF OpenOption

LEMMA LetterFurther == ASSUME IInv, VInv, Letter PROVE Further
<1>1. UNCHANGED input /\ status = "parse" /\ letters # <<>>
    BY DEF Letter
<1>2. CASE End("unrecognized") \/ End("too_few") \/ End("too_many")
    BY <1>1, <1>2, EndFurther
<1>3. CASE /\ letters' = Tail(letters)
           /\ argv_index' = IF Len(letters) = 1 THEN argv_index + 1 ELSE argv_index
           /\ UNCHANGED <<current, values, status>>
    <2>1. argv_index <= Len(argv)
        BY <1>1 DEF VInv, GroupOK
    <2>2. letters \in Seq(STRING) /\ Len(letters) \in Nat \ {0}
        BY <1>1 DEF IInv, IType
    <2>3. CASE Len(letters) # 1
        <3>1. Len(letters') = Len(letters) - 1 /\ letters' # <<>>
            <4>1. letters' = Tail(letters)
                BY <1>3
            <4>2. Len(Tail(letters)) = Len(letters) - 1
                BY <1>1, <2>2
            <4>3. Len(<<>>) = 0
                OBVIOUS
            <4>4. Tail(letters) # <<>>
                BY <2>2, <2>3, <4>2, <4>3
            <4> QED BY <4>1, <4>2, <4>4
        <3>2. LettersLeft = Len(letters) /\ LettersLeft' = Len(letters) - 1
            BY <1>1, <3>1 DEF LettersLeft
        <3>3. OneFurther
            BY <1>3, <2>2, <2>3, <3>2 DEF OneFurther
        <3> QED BY <1>1, <1>3, <2>1, <3>3 DEF Further, input
    <2>4. CASE Len(letters) = 1
        BY <1>1, <1>3, <2>1, <2>4 DEF Further, OneFurther, input
    <2> QED BY <2>3, <2>4
<1> QED BY <1>2, <1>3 DEF Letter

LEMMA EndOfLineFurther == ASSUME EndOfLine PROVE Further
<1>1. status = "parse"
    BY DEF EndOfLine, AtEnd
<1>2. CASE End("ok")
    BY <1>1, <1>2, EndFurther
<1>3. CASE EndFails
    BY <1>1, <1>3, EndFailsFurther
<1>4. CASE status' = "check"
    BY <1>1, <1>4 DEF Further, Stage
<1> QED BY <1>2, <1>3, <1>4 DEF EndOfLine

\* The parse comes to an end on every command line: each step begins the next
\* loop or ends with a result, or does one element or one letter of a group,
\* and none of them twice; no kind of element is looked at for ever, whichever
\* options are open (cli-parser.hpp:288-357).
ReadsOn == [][Further]_vars

THEOREM ProgressTheorem == Spec => ReadsOn
<1>1. IInv /\ VInv /\ [Next]_vars => [Further]_vars
    <2> SUFFICES ASSUME IInv, VInv, Next PROVE Further
        OBVIOUS
    <2>1. CASE BuildNames
        BY <2>1, EndFurther DEF BuildNames
    <2>2. CASE SkipEmpty \/ Help
        BY <2>2, NextElementFurther DEF SkipEmpty, Help
    <2>3. CASE LastElement
        <3>1. Parsing /\ status = "parse" /\ UNCHANGED input /\ (EndFails \/ NextElement)
            BY <2>3 DEF LastElement, Parsing
        <3> QED BY <3>1, EndFailsFurther, NextElementFurther
    <2>4. CASE Value
        <3>1. Parsing /\ status = "parse" /\ UNCHANGED input /\ (End("too_many") \/ NextElement)
            BY <2>4 DEF Value, Parsing
        <3> QED BY <3>1, EndFurther, NextElementFurther
    <2>5. CASE Check
        <3>1. status = "check" /\ \E result \in {"positional", "required", "expected", "ok"} : End(result)
            BY <2>5 DEF Check
        <3> QED BY <3>1, EndFurther
    <2> QED BY <2>1, <2>2, <2>3, <2>4, <2>5, OpenOptionFurther, LetterFurther, EndOfLineFurther DEF Next
<1> QED BY <1>1, InitLemma, NextLemma, ValuesInductive, PTL DEF Spec, ReadsOn
=============================================================================
