-------------------------------- MODULE Script --------------------------------
(***************************************************************************)
(* What commands become on their way through a file: the events of         *)
(* record_command (rdpdo.rs) and recorder.rs, the lines convert_to_script  *)
(* writes of them, and the commands script.rs and provision.rs read from   *)
(* lines.  Text is a sequence of atoms; the atoms "sp", "tab", "nl",       *)
(* "quote", "back", "open", "close" and "hash" are the characters these    *)
(* treat specially.                                                        *)
(***************************************************************************)
EXTENDS Grammar

CONSTANTS
    Vars        \* name between braces -> text: {width}, {server}, {env:...}

-------------------------------------------------------------------------------
\* record_command, which run calls for all but the modifiers.

NotRecorded == {"play", "convert", "diff", "help", "session", "retry", "soft"}

\* The tokens a verb is written as.
Lead(verb) ==
    CASE verb = "baseline update" -> << <<"baseline">>, <<"update">> >>
      [] verb = "baseline list"   -> << <<"baseline">>, <<"list">> >>
      [] verb = "baseline check"  -> << <<"baseline">>, <<"check">> >>
      [] verb = "monitor list"    -> << <<"monitor">>, <<"list">> >>
      [] verb = "monitor set"     -> << <<"monitor">>, <<"set">> >>
      [] OTHER                    -> << <<verb>> >>

\* One value as the recorder prints it: flags are left out.
Printed(slot, value) ==
    CASE slot.kind \in {"flags", "pair"}                -> <<>>
      [] slot.kind = "hold" /\ value # NoNumber         -> << <<"--hold-ms">>, Numeral(value) >>
      [] slot.kind = "hold" /\ value = NoNumber         -> <<>>
      [] slot.kind \in {"arg", "button", "layout"}      -> <<value>>
      [] slot.kind \in {"region", "topic"}              -> IF value = Absent THEN <<>> ELSE <<value>>
      [] OTHER -> IF value = NoNumber THEN <<>> ELSE <<Numeral(value)>>

PrintedAll(c) ==
    FlattenSeq([i \in DOMAIN c.args |-> Printed(Slots[c.verb][i], c.args[i])])

Redacted == <<"***">>
OrElse(token, default) == IF token = Absent THEN default ELSE token

\* An interval given in seconds, in milliseconds.
Interval(token) == Numeral(IF token = Absent THEN 1000 * One ELSE 1000 * Number(token))

MutRecordedArgs(c) == PrintedAll(c)

RecordedArgs(c) ==
    CASE c.verb = "type-password"         -> <<Redacted>>
      [] c.verb \in {"unlock", "login"}   -> <<c.args[1], Redacted>>
      [] c.verb \in {"find-color", "baseline check"} -> <<c.args[1]>>
      [] c.verb = "calibrate"  -> <<OrElse(c.args[1]["--grid"], <<"4x4">>)>>
      [] c.verb = "timelapse"  -> <<c.args[1], Interval(c.args[2]["--interval"]),
                                    OrElse(c.args[2]["--count"], Numeral(0))>>
      [] OTHER                 -> PrintedAll(c)

\* RecordedEvent, as the tokens to_command_tokens makes of it again.
Event(c, t) == [t |-> t, tokens |-> Lead(c.verb) \o RecordedArgs(c)]

-------------------------------------------------------------------------------
\* convert_to_script.

Has(text, atom) == \E i \in DOMAIN text : text[i] = atom

MutWritten(arg) == <<"sp">> \o arg

\* A quote inside an argument is escaped, which tokenize_line does not undo.
Written(arg) ==
    IF Has(arg, "sp") \/ Has(arg, "quote")
    THEN <<"sp", "quote">>
         \o FlattenSeq([i \in DOMAIN arg |-> IF arg[i] = "quote" THEN <<"back", "quote">> ELSE <<arg[i]>>])
         \o <<"quote">>
    ELSE <<"sp">> \o arg

Line(event) ==
    event.tokens[1]
    \o FlattenSeq([i \in 1..(Len(event.tokens) - 1) |-> Written(event.tokens[i + 1])])
    \o <<"nl">>

ConvertToScript(recording) ==
    <<"hash", "nl">> \o FlattenSeq([i \in DOMAIN recording |-> Line(recording[i])])

-------------------------------------------------------------------------------
\* script.rs and provision.rs: lines into commands.

\* content.lines(): what stands before each line's end.
Lines(text) ==
    LET step(acc, c) == IF c = "nl" THEN [done |-> Append(acc.done, acc.line), line |-> <<>>]
                        ELSE [acc EXCEPT !.line = Append(@, c)]
        end == FoldLeft(step, [done |-> <<>>, line |-> <<>>], text)
    IN  IF end.line = <<>> THEN end.done ELSE Append(end.done, end.line)

Blank(c) == c \in {"sp", "tab"}

Trim(line) ==
    LET solid == {i \in DOMAIN line : ~Blank(line[i])}
    IN  IF solid = {} THEN <<>> ELSE SubSeq(line, Min(solid), Max(solid))

\* substitute_vars: a name in braces that is known is replaced, what it stands for
\* is not looked at again; a brace left open stays.
SubstituteVars(line) ==
    LET step(acc, c) ==
          CASE acc.open /\ c = "close" ->
                 [out  |-> acc.out \o (IF acc.name \in DOMAIN Vars THEN Vars[acc.name]
                                       ELSE <<"open">> \o acc.name \o <<"close">>),
                  name |-> <<>>, open |-> FALSE]
            [] acc.open /\ c # "close" -> [acc EXCEPT !.name = Append(@, c)]
            [] ~acc.open /\ c = "open" -> [acc EXCEPT !.open = TRUE]
            [] OTHER                   -> [acc EXCEPT !.out = Append(@, c)]
        end == FoldLeft(step, [out |-> <<>>, name |-> <<>>, open |-> FALSE], line)
    IN  IF end.open THEN end.out \o <<"open">> \o end.name ELSE end.out

\* tokenize_line: quotes group, nothing escapes, empty tokens vanish.
TokenizeLine(line) ==
    LET flushed(acc) == IF acc.token = <<>> THEN acc.tokens ELSE Append(acc.tokens, acc.token)
        step(acc, c) ==
          CASE c = "quote" -> [acc EXCEPT !.quoted = ~@]
            [] Blank(c) /\ ~acc.quoted -> [acc EXCEPT !.tokens = flushed(acc), !.token = <<>>]
            [] OTHER -> [acc EXCEPT !.token = Append(@, c)]
    IN  flushed(FoldLeft(step, [tokens |-> <<>>, token |-> <<>>, quoted |-> FALSE], line))

\* The lines of a text that are neither blank nor comments, trimmed.
Trimmed(lines) == [i \in DOMAIN lines |-> Trim(lines[i])]

Wanted(text) == SelectSeq(Trimmed(Lines(text)), LAMBDA l : l # <<>> /\ l[1] # "hash")

\* All the commands of these lines, or that one of them is in error.
Together(parsed) ==
    [ok |-> \A i \in DOMAIN parsed : parsed[i].ok,
     commands |-> FlattenSeq([i \in DOMAIN parsed |-> parsed[i].commands])]

ParseLines(lines) ==
    Together([i \in DOMAIN lines |-> ParseCommands(TokenizeLine(lines[i]))])

SubstituteAll(lines) == [i \in DOMAIN lines |-> SubstituteVars(lines[i])]

ParseScript(text) == ParseLines(SubstituteAll(Wanted(text)))

\* provision.rs: a profile's placeholders are replaced in the text, in an order the
\* map of them happens to have, before it is cut into lines and tokens.
Placeholder(name) == <<"open", name, "close">>

PutFor(text, pattern, value) ==
    LET starts == {i \in DOMAIN text : i + Len(pattern) - 1 <= Len(text)
                                     /\ SubSeq(text, i, i + Len(pattern) - 1) = pattern}
        inside(i) == \E s \in starts : s <= i /\ i < s + Len(pattern)
    IN  FlattenSeq([i \in DOMAIN text |-> IF i \in starts THEN value
                                         ELSE IF inside(i) THEN <<>> ELSE <<text[i]>>])

SubstitutePlaceholders(script, names, values) ==
    FoldLeft(LAMBDA text, n : PutFor(text, Placeholder(n), values[n]), script, names)

ProfileCommands(script, names, values) ==
    ParseLines(Wanted(SubstitutePlaceholders(script, names, values)))
===============================================================================
