------------------------------- MODULE Injector -------------------------------
(***************************************************************************)
(* input.rs: the keys, buttons and pointer position a session believes the *)
(* server has, and the events every gesture becomes.  A batch is what one  *)
(* write carries; a gesture is a sequence of batches of operations, which  *)
(* are applied one by one.                                                 *)
(***************************************************************************)
EXTENDS Integers, Sequences, SequencesExt

CONSTANTS
    Layout,     \* typable character -> [key, shift]: the US table of ascii_to_scancode
    KeyNames    \* key name -> key: key_name_table

LSHIFT == "shift"

\* No character is typed by the shift key itself.
ASSUME LayoutAssumption ==
    \A c \in DOMAIN Layout : Layout[c].shift \in BOOLEAN /\ Layout[c].key # LSHIFT

Unicode(c) == "u+" \o c

Press(k)   == [do |-> "press",   on |-> k]
Release(k) == [do |-> "release", on |-> k]
Push(b)    == [do |-> "push",    on |-> b]
LetGo(b)   == [do |-> "let",     on |-> b]
MoveTo(p)  == [do |-> "move",    on |-> p]
Turn(d)    == [do |-> "turn",    on |-> d]

\* Nothing held, the pointer at p.
Untouched(p) == [keys |-> {}, buttons |-> {}, at |-> p]

\* What one operation makes of a keyboard and a mouse: of the injector's own
\* picture of them, and of the server's when it is an event that arrives there.
After(s, op) ==
    CASE op.do = "press"   -> [s EXCEPT !.keys    = @ \cup {op.on}]
      [] op.do = "release" -> [s EXCEPT !.keys    = @ \ {op.on}]
      [] op.do = "push"    -> [s EXCEPT !.buttons = @ \cup {op.on}]
      [] op.do = "let"     -> [s EXCEPT !.buttons = @ \ {op.on}]
      [] op.do = "move"    -> [s EXCEPT !.at      = op.on]
      [] op.do = "turn"    -> s

\* The events the library's Database makes of an operation: a key believed held
\* is let go before it is pressed again, what changes nothing is not sent.
Events(s, op) ==
    CASE op.do = "press"   /\ op.on \in s.keys       -> <<Release(op.on), op>>
      [] op.do = "release" /\ op.on \notin s.keys    -> <<>>
      [] op.do = "push"    /\ op.on \in s.buttons    -> <<>>
      [] op.do = "let"     /\ op.on \notin s.buttons -> <<>>
      [] op.do = "move"    /\ op.on = s.at           -> <<>>
      [] OTHER                                       -> <<op>>

-------------------------------------------------------------------------------
\* The gestures.

Stroke(c) ==
    LET s == Layout[c]
    IN  IF s.shift
        THEN <<Press(LSHIFT), Press(s.key), Release(s.key), Release(LSHIFT)>>
        ELSE <<Press(s.key), Release(s.key)>>

\* A character that has no scancode is left out: it makes no batch.
TypeText(text) ==
    [i \in DOMAIN text |-> IF text[i] \in DOMAIN Layout THEN Stroke(text[i]) ELSE <<>>]

TypeUnicode(text) ==
    [i \in DOMAIN text |-> <<Press(Unicode(text[i])), Release(Unicode(text[i]))>>]

ComboDown(a) ==
    [i \in DOMAIN a.modifiers |-> Press(a.modifiers[i])] \o <<Press(a.key)>>

ComboUp(a) ==
    LET back == Reverse(a.modifiers)
    IN  <<Release(a.key)>> \o [i \in DOMAIN back |-> Release(back[i])]

Combo(a) == ComboDown(a) \o ComboUp(a)

MouseClick(b) == <<Push(b), LetGo(b)>>

MouseDrag(from, to) ==
    << <<MoveTo(from)>>, <<Push("left")>>, <<MoveTo(to)>>, <<LetGo("left")>> >>

Scroll(direction, notches) == [i \in 1..notches |-> <<Turn(direction)>>]

-------------------------------------------------------------------------------
\* parse_key_spec: a spec is the sequence of its parts between the dashes.  The
\* last is a character of the layout, without its shift, or a name; the others
\* are names.

Named(part) == part \in DOMAIN KeyNames
Character(part) == part \in DOMAIN Layout

KeySpecOk(spec) ==
    /\ Named(Last(spec)) \/ Character(Last(spec))
    /\ \A i \in 1..(Len(spec) - 1) : Named(spec[i])

ParseKeySpec(spec) ==
    [modifiers |-> [i \in 1..(Len(spec) - 1) |-> KeyNames[spec[i]]],
     key |-> IF Character(Last(spec)) THEN Layout[Last(spec)].key
                                      ELSE KeyNames[Last(spec)]]
===============================================================================
