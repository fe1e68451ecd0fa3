---------------------------- MODULE MCArgParser ----------------------------
(* The parser of main(), one that counts, two that place and one with a     *)
(* name given twice, on all command lines of up to three elements and on    *)
(* longer ones of the elements that take or close values, for TLC.          *)
EXTENDS ArgParser

MCArgument(names, required, position, count) ==
    [names |-> names, required |-> required, position |-> position, count |-> count]
MCNamed(names, required) == MCArgument(names, required, DONT_CARE, ANY)
MCMain ==
    [arguments |-> << MCNamed(<<"vmentry">>, FALSE), MCNamed(<<"bin">>, TRUE),
                      MCNamed(<<"overwrite">>, FALSE), MCNamed(<<"out">>, FALSE),
                      MCNamed(<<"h", "help">>, FALSE) >>, help_enabled |-> TRUE]
MCCounted ==
    [arguments |-> << MCArgument(<<"b", "bin">>, TRUE, DONT_CARE, 1),
                      MCArgument(<<"v", "vmentry">>, FALSE, DONT_CARE, 0),
                      MCArgument(<<"out">>, FALSE, DONT_CARE, 2) >>, help_enabled |-> FALSE]
MCPlaced(location) ==
    [arguments |-> << MCArgument(<<"b", "bin">>, TRUE, 2, 1),
                      MCArgument(<<"v", "vmentry">>, FALSE, location, ANY),
                      MCArgument(<<"out">>, FALSE, 3, 1) >>, help_enabled |-> FALSE]
MCTwice == [arguments |-> << MCNamed(<<"bin">>, FALSE), MCNamed(<<"b", "bin">>, FALSE) >>,
            help_enabled |-> FALSE]
MCParsers == {MCMain, MCCounted, MCPlaced(LAST), MCPlaced(DONT_CARE), MCTwice}

MCNoPart == [dash |-> FALSE, text |-> ""]
MCToken(kind, names, tail, text) ==
    [kind |-> kind, names |-> names, tail |-> tail, text |-> text, part |-> MCNoPart]
MCWith(token, dash, text) == [token EXCEPT !.part = [dash |-> dash, text |-> text]]
MCLong(name, tail) ==
    MCToken("long", <<name>>, tail, IF tail = "none" THEN name ELSE "other text")
MCWord == MCToken("word", <<>>, "none", "value")
MCTakers == {MCWord, MCLong("bin", "none"), MCLong("bin", "equal"), MCLong("out", "none")}
MCGroups == {MCToken("short", names, "none", "other text") : names \in {<<"b", "v">>, <<"v", "v">>, <<>>}}
MCTokens ==
    MCTakers \cup MCGroups
      \cup {MCToken("empty", <<>>, "none", ""), MCToken("number", <<>>, "none", "5")}
      \cup {MCLong("bin", "dashed"), MCLong("bin", "other"), MCLong("vmentry", "none"),
            MCLong("help", "none"), MCLong("unknown", "none")}
      \cup {MCToken("short", <<"h">>, "none", "h"), MCToken("short", <<"b">>, "equal", "other text"),
            MCWith(MCToken("short", <<"b">>, "equal", "other text"), TRUE, "bin")}
MCCommandLines == UNION {[1..n -> MCTokens] : n \in 0..3} \cup [1..4 -> MCTakers \cup MCGroups]
=============================================================================
