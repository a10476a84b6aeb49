------------------------------ MODULE InputProofs ------------------------------
(* Proofs about the input commands, for any commands, layout, desktop and     *)
(* number of sessions.                                                        *)
EXTENDS InputProperties, SequenceTheorems, FiniteSetTheorems, WellFoundedInduction, TLAPS

------------------------------------------------------------------------------
(* Sequences of anything. *)

IsSeq(s) == \E n \in Nat : s = [i \in 1..n |-> s[i]]

\* What IsSeq gives: a length, the indices up to it, and a set the elements are from.
LEMMA SeqFacts ==
  ASSUME NEW s, IsSeq(s)
  PROVE  Len(s) \in Nat /\ DOMAIN s = 1..Len(s) /\ s \in Seq({s[i] : i \in DOMAIN s})
         /\ (s = <<>> <=> Len(s) = 0)
<1>1. PICK n \in Nat : s = [i \in 1..n |-> s[i]]
  BY DEF IsSeq
<1> DEFINE S == {s[i] : i \in DOMAIN s}
<1>2. DOMAIN s = 1..n
  BY <1>1
<1>3. s \in [1..n -> S]
  BY <1>1, <1>2
<1>4. s \in Seq(S)
  BY <1>3, SeqDef
<1> HIDE DEF S
<1>5. Len(s) \in Nat /\ DOMAIN s = 1..Len(s)
  BY <1>4, LenProperties
<1>6. s = <<>> <=> Len(s) = 0
  BY <1>4, EmptySeq
<1> QED BY <1>4, <1>5, <1>6 DEF S

\* A sequence over some set, or one given index by index.
LEMMA SeqIsSeq ==
  ASSUME NEW S, NEW s \in Seq(S)
  PROVE  IsSeq(s)
<1>1. Len(s) \in Nat /\ s \in [1..Len(s) -> S]
  BY LenProperties
<1>2. s = [i \in 1..Len(s) |-> s[i]]
  BY <1>1
<1> QED BY <1>1, <1>2 DEF IsSeq

\* A function on 1..n is a sequence of length n.
LEMMA DomainIsSeq ==
  ASSUME NEW s, NEW n \in Nat, s = [i \in 1..n |-> s[i]]
  PROVE  IsSeq(s) /\ Len(s) = n /\ DOMAIN s = 1..n
<1>1. IsSeq(s)
  BY DEF IsSeq
<1>2. DOMAIN s = 1..n
  <2> DEFINE t == [i \in 1..n |-> s[i]]
  <2>1. DOMAIN t = 1..n
    OBVIOUS
  <2> HIDE DEF t
  <2>2. s = t
    BY DEF t
  <2> QED BY <2>1, <2>2
<1>3. Len(s) \in Nat /\ 1..Len(s) = 1..n
  BY <1>1, <1>2, SeqFacts
<1>4. Len(s) = n
  <2>1. ASSUME Len(s) < n PROVE FALSE
    <3>1. n \in 1..n /\ n \notin 1..Len(s)
      BY <1>3, <2>1
    <3> QED BY <1>3, <3>1
  <2>2. ASSUME n < Len(s) PROVE FALSE
    <3>1. Len(s) \in 1..Len(s) /\ Len(s) \notin 1..n
      BY <1>3, <2>2
    <3> QED BY <1>3, <3>1
  <2> QED BY <1>3, <2>1, <2>2
<1> QED BY <1>1, <1>2, <1>4

\* Two sequences joined.
LEMMA Joined ==
  ASSUME NEW s, NEW t, IsSeq(s), IsSeq(t)
  PROVE  /\ IsSeq(s \o t) /\ Len(s \o t) = Len(s) + Len(t)
         /\ DOMAIN (s \o t) = 1..(Len(s) + Len(t))
         /\ \A i \in 1..Len(s) : (s \o t)[i] = s[i]
         /\ \A i \in 1..Len(t) : (s \o t)[Len(s) + i] = t[i]
<1> DEFINE S == {s[i] : i \in DOMAIN s} \cup {t[i] : i \in DOMAIN t}
<1>1. s \in Seq(S) /\ t \in Seq(S) /\ Len(s) \in Nat /\ Len(t) \in Nat
  <2>1. /\ s \in Seq({s[i] : i \in DOMAIN s}) /\ Len(s) \in Nat
        /\ t \in Seq({t[i] : i \in DOMAIN t}) /\ Len(t) \in Nat
    BY SeqFacts
  <2> QED BY <2>1, SeqMonotonic
<1> HIDE DEF S
<1>2. /\ s \o t \in Seq(S) /\ Len(s \o t) = Len(s) + Len(t)
      /\ \A i \in 1 .. Len(s) + Len(t) : (s \o t)[i] = IF i <= Len(s) THEN s[i] ELSE t[i - Len(s)]
  BY <1>1, ConcatProperties
<1>3. DOMAIN (s \o t) = 1..(Len(s) + Len(t))
  BY <1>2, LenProperties
<1>4. ASSUME NEW i \in 1..Len(s) PROVE (s \o t)[i] = s[i]
  BY <1>1, <1>2
<1>5. ASSUME NEW i \in 1..Len(t) PROVE (s \o t)[Len(s) + i] = t[i]
  <2>1. Len(s) + i \in 1..(Len(s) + Len(t)) /\ ~(Len(s) + i <= Len(s)) /\ Len(s) + i - Len(s) = i
    BY <1>1
  <2> QED BY <1>2, <2>1
<1> QED BY <1>2, <1>3, <1>4, <1>5, SeqIsSeq

\* A sequence and one more element.
LEMMA Appended ==
  ASSUME NEW s, IsSeq(s), NEW e
  PROVE  /\ IsSeq(Append(s, e)) /\ Len(Append(s, e)) = Len(s) + 1
         /\ DOMAIN Append(s, e) = 1..(Len(s) + 1)
         /\ \A i \in 1..Len(s) : Append(s, e)[i] = s[i]
         /\ Append(s, e)[Len(s) + 1] = e
<1> DEFINE S == {s[i] : i \in DOMAIN s} \cup {e}
<1>1. s \in Seq(S) /\ e \in S /\ Len(s) \in Nat
  <2>1. s \in Seq({s[i] : i \in DOMAIN s}) /\ Len(s) \in Nat
    BY SeqFacts
  <2> QED BY <2>1, SeqMonotonic
<1> HIDE DEF S
<1>2. /\ Append(s, e) \in Seq(S) /\ Len(Append(s, e)) = Len(s) + 1
      /\ \A i \in 1..Len(s) : Append(s, e)[i] = s[i]
      /\ Append(s, e)[Len(s) + 1] = e
  BY <1>1, AppendProperties
<1> QED BY <1>2, SeqIsSeq, LenProperties

\* A sequence cut short.
LEMMA CutShort ==
  ASSUME NEW s, IsSeq(s), NEW n \in 0..Len(s)
  PROVE  /\ IsSeq(SubSeq(s, 1, n)) /\ Len(SubSeq(s, 1, n)) = n
         /\ \A i \in 1..n : SubSeq(s, 1, n)[i] = s[i]
<1> DEFINE S == {s[i] : i \in DOMAIN s}
<1>1. Len(s) \in Nat /\ DOMAIN s = 1..Len(s)
  BY SeqFacts
<1>2. \A i \in 1..n : s[i] \in S
  BY <1>1
<1> HIDE DEF S
<1>3. /\ SubSeq(s, 1, n) \in Seq(S)
      /\ Len(SubSeq(s, 1, n)) = IF 1 <= n THEN n - 1 + 1 ELSE 0
      /\ \A i \in 1 .. n - 1 + 1 : SubSeq(s, 1, n)[i] = s[1 + i - 1]
  BY <1>1, <1>2, SubSeqProperties
<1>4. Len(SubSeq(s, 1, n)) = n
  BY <1>1, <1>3
<1>5. \A i \in 1..n : SubSeq(s, 1, n)[i] = s[i]
  BY <1>1, <1>3
<1> QED BY <1>3, <1>4, <1>5, SeqIsSeq

\* The short sequences, element by element.
LEMMA Single ==
  ASSUME NEW e
  PROVE  IsSeq(<<e>>) /\ Len(<<e>>) = 1 /\ DOMAIN <<e>> = 1..1 /\ <<e>>[1] = e
<1>1. <<e>> \in Seq({e})
  OBVIOUS
<1>2. IsSeq(<<e>>)
  BY <1>1, SeqIsSeq
<1> QED BY <1>2

LEMMA Pair ==
  ASSUME NEW d, NEW e
  PROVE  /\ IsSeq(<<d, e>>) /\ Len(<<d, e>>) = 2 /\ DOMAIN <<d, e>> = 1..2
         /\ <<d, e>>[1] = d /\ <<d, e>>[2] = e
<1>1. <<d, e>> \in Seq({d, e})
  OBVIOUS
<1>2. IsSeq(<<d, e>>)
  BY <1>1, SeqIsSeq
<1> QED BY <1>2

LEMMA Quadruple ==
  ASSUME NEW a, NEW b, NEW c, NEW d
  PROVE  /\ IsSeq(<<a, b, c, d>>) /\ Len(<<a, b, c, d>>) = 4 /\ DOMAIN <<a, b, c, d>> = 1..4
         /\ <<a, b, c, d>>[1] = a /\ <<a, b, c, d>>[2] = b
         /\ <<a, b, c, d>>[3] = c /\ <<a, b, c, d>>[4] = d
<1>1. <<a, b, c, d>> \in Seq({a, b, c, d})
  OBVIOUS
<1>2. IsSeq(<<a, b, c, d>>)
  BY <1>1, SeqIsSeq
<1> QED BY <1>2

LEMMA Nothing ==
  IsSeq(<<>>) /\ Len(<<>>) = 0 /\ DOMAIN <<>> = {}
<1>1. <<>> \in Seq({})
  OBVIOUS
<1>2. IsSeq(<<>>)
  BY <1>1, SeqIsSeq
<1> QED BY <1>2

------------------------------------------------------------------------------
(* What the gestures are made of. *)

\* The release of k is in the batch after its first n operations.
\* Induction up to n, over the set of those for which it holds: of the ones for
\* which it does not, the least is the one after one for which it does.
LEMMA UpTo ==
  ASSUME NEW n \in Nat, NEW S, 0 \in S, \A i \in 1..n : i - 1 \in S => i \in S
  PROVE  n \in S
<1> DEFINE T == {i \in 0..n : i \notin S}
           below == {0..x : x \in T}
           R == StrictSubsetOrdering(Nat)
<1> SUFFICES ASSUME T # {} PROVE FALSE
  OBVIOUS
<1>1. below \subseteq FiniteSubsetsOf(Nat)
  <2>1. \A x \in T : IsFiniteSet(0..x)
    BY FS_Interval
  <2> QED BY <2>1 DEF FiniteSubsetsOf
<1>2. below # {}
  OBVIOUS
<1>3. PICK least \in below : \A other \in below : ~(<<other, least>> \in R)
  <2>1. IsWellFoundedOn(R, FiniteSubsetsOf(Nat))
    BY FS_StrictSubsetOrderingWellFounded
  <2> HIDE DEF below, R
  <2> QED BY <1>1, <1>2, <2>1, WFMin
<1>4. PICK x \in T : least = 0..x
  OBVIOUS
<1>5. x \in 1..n
  OBVIOUS
<1>6. x - 1 \in T
  BY <1>5
<1>7. 0..(x - 1) \in below
  <2> HIDE DEF T
  <2> QED BY <1>6
<1>8. 0..(x - 1) \subseteq 0..x /\ 0..(x - 1) # 0..x
  <2>1. x \in 0..x /\ x \notin 0..(x - 1) /\ 0..(x - 1) \subseteq 0..x
    BY <1>5
  <2> QED BY <2>1
<1>9. <<0..(x - 1), 0..x>> \in R
  <2>1. 0..(x - 1) \in SUBSET Nat /\ 0..x \in SUBSET Nat
    BY <1>5
  <2>2. \A A, B \in SUBSET Nat : A \subseteq B /\ A # B => <<A, B>> \in StrictSubsetOrdering(Nat)
    BY Zenon DEF StrictSubsetOrdering
  <2> HIDE DEF R
  <2>3. <<0..(x - 1), 0..x>> \in StrictSubsetOrdering(Nat)
    BY <1>8, <2>1, <2>2, Zenon
  <2> QED BY <2>3 DEF R
<1> QED BY <1>3, <1>4, <1>7, <1>9

Releases(B, n, k) == \E j \in DOMAIN B : j > n /\ B[j].do = "release" /\ B[j].on = k

Operations == {"press", "release", "push", "let", "move", "turn"}

\* A batch of operations that lets go of every key that it presses, but for those
\* in K.
IsBatch(B, K) ==
    /\ IsSeq(B)
    /\ \A o \in DOMAIN B :
         /\ B[o].do \in Operations
         /\ B[o].do = "press" /\ B[o].on \notin K => Releases(B, o, B[o].on)

\* Every button is let go right after it was pushed.
Clicking(B) ==
    \A o \in DOMAIN B :
      /\ B[o].do = "push" => o + 1 \in DOMAIN B /\ B[o + 1].do = "let" /\ B[o + 1].on = B[o].on
      /\ B[o].do = "let" => o - 1 \in DOMAIN B /\ B[o - 1].do = "push" /\ B[o - 1].on = B[o].on

\* A gesture of such batches.
IsGesture(g, K) ==
    IsSeq(g) /\ \A b \in DOMAIN g : IsBatch(g[b], K) /\ Clicking(g[b])

\* A gesture that leaves the pointer where it is.
Still(g) == \A b \in DOMAIN g : \A o \in DOMAIN g[b] : g[b][o].do # "move"

\* A gesture of one batch.
LEMMA OneBatch ==
  ASSUME NEW B, NEW K, IsBatch(B, K), Clicking(B)
  PROVE  IsGesture(<<B>>, K) /\ DOMAIN <<B>> = 1..1 /\ <<B>>[1] = B
<1>1. IsSeq(<<B>>) /\ DOMAIN <<B>> = 1..1 /\ <<B>>[1] = B
  BY Single
<1> QED BY <1>1 DEF IsGesture

\* A batch of one operation that puts down no more than it may leave down.
LEMMA OneOperation ==
  ASSUME NEW op, NEW K, op.do \in {"press", "release", "move", "turn"}, op.do = "press" => op.on \in K
  PROVE  IsBatch(<<op>>, K) /\ Clicking(<<op>>)
<1>1. IsSeq(<<op>>) /\ DOMAIN <<op>> = 1..1 /\ <<op>>[1] = op
  BY Single
<1>2. \A o \in 1..1 : o = 1
  OBVIOUS
<1> HIDE DEF Releases
<1> QED BY <1>1, <1>2 DEF IsBatch, Clicking, Operations

\* A character lets go of everything it presses, shift last, and moves nothing.
LEMMA StrokeIsBatch ==
  ASSUME NEW c, NEW K
  PROVE  /\ IsBatch(Stroke(c), K) /\ Clicking(Stroke(c))
         /\ \A o \in DOMAIN Stroke(c) : Stroke(c)[o].do # "move"
<1> DEFINE s == Layout[c]
<1>1. CASE s.shift
  <2> DEFINE B == <<Press(LSHIFT), Press(s.key), Release(s.key), Release(LSHIFT)>>
  <2>1. /\ Stroke(c) = B /\ IsSeq(B) /\ DOMAIN B = 1..4
        /\ B[1] = Press(LSHIFT) /\ B[2] = Press(s.key)
        /\ B[3] = Release(s.key) /\ B[4] = Release(LSHIFT)
    BY <1>1, Quadruple DEF Stroke
  <2> HIDE DEF B, s
  <2>2. \A o \in DOMAIN B : o \in {1, 2, 3, 4}
    BY <2>1
  <2>3. 3 \in DOMAIN B /\ 4 \in DOMAIN B
    BY <2>1
  <2> QED BY <2>1, <2>2, <2>3 DEF IsBatch, Clicking, Releases, Operations, Press, Release
<1>2. CASE ~s.shift
  <2> DEFINE B == <<Press(s.key), Release(s.key)>>
  <2>1. /\ Stroke(c) = B /\ IsSeq(B) /\ DOMAIN B = 1..2
        /\ B[1] = Press(s.key) /\ B[2] = Release(s.key)
    BY <1>2, Pair DEF Stroke
  <2> HIDE DEF B, s
  <2>2. \A o \in DOMAIN B : o \in {1, 2}
    BY <2>1
  <2>3. 2 \in DOMAIN B
    BY <2>1
  <2> QED BY <2>1, <2>2, <2>3 DEF IsBatch, Clicking, Releases, Operations, Press, Release
<1> QED BY <1>1, <1>2

\* Typing is a stroke for each character, none for one that has no scancode.
LEMMA TextIsGesture ==
  ASSUME NEW text, IsSeq(text), NEW K
  PROVE  /\ IsGesture(TypeText(text), K) /\ DOMAIN TypeText(text) = DOMAIN text /\ Still(TypeText(text))
         /\ \A i \in DOMAIN text :
              TypeText(text)[i] = IF text[i] \in DOMAIN Layout THEN Stroke(text[i]) ELSE <<>>
<1> DEFINE g == TypeText(text)
<1>1. Len(text) \in Nat /\ DOMAIN text = 1..Len(text)
  BY SeqFacts
<1>2. DOMAIN g = 1..Len(text) /\ IsSeq(g)
  <2>1. g = [i \in 1..Len(text) |-> g[i]]
    BY <1>1 DEF TypeText
  <2> HIDE DEF g
  <2> QED BY <1>1, <2>1, DomainIsSeq
<1>3. \A i \in DOMAIN text : g[i] = IF text[i] \in DOMAIN Layout THEN Stroke(text[i]) ELSE <<>>
  BY DEF TypeText
<1> HIDE DEF g
<1>4. IsBatch(<<>>, K) /\ Clicking(<<>>)
  BY Nothing DEF IsBatch, Clicking
<1>5. ASSUME NEW b \in DOMAIN g
      PROVE  IsBatch(g[b], K) /\ Clicking(g[b]) /\ \A o \in DOMAIN g[b] : g[b][o].do # "move"
  BY <1>1, <1>2, <1>3, <1>4, StrokeIsBatch, Nothing
<1> QED BY <1>1, <1>2, <1>3, <1>5 DEF IsGesture, Still, g

\* And for unicode a key down and up for each.
LEMMA UnicodeIsGesture ==
  ASSUME NEW text, IsSeq(text), NEW K
  PROVE  /\ IsGesture(TypeUnicode(text), K) /\ DOMAIN TypeUnicode(text) = DOMAIN text
         /\ Still(TypeUnicode(text))
         /\ \A i \in DOMAIN text :
              TypeUnicode(text)[i] = <<Press(Unicode(text[i])), Release(Unicode(text[i]))>>
<1> DEFINE g == TypeUnicode(text)
<1>1. Len(text) \in Nat /\ DOMAIN text = 1..Len(text)
  BY SeqFacts
<1>2. DOMAIN g = 1..Len(text) /\ IsSeq(g)
  <2>1. g = [i \in 1..Len(text) |-> g[i]]
    BY <1>1 DEF TypeUnicode
  <2> HIDE DEF g
  <2> QED BY <1>1, <2>1, DomainIsSeq
<1>3. \A i \in DOMAIN text : g[i] = <<Press(Unicode(text[i])), Release(Unicode(text[i]))>>
  BY DEF TypeUnicode
<1> HIDE DEF g
<1>4. ASSUME NEW b \in DOMAIN g
      PROVE  IsBatch(g[b], K) /\ Clicking(g[b]) /\ \A o \in DOMAIN g[b] : g[b][o].do # "move"
  <2> DEFINE k == Unicode(text[b])
             B == <<Press(k), Release(k)>>
  <2>1. g[b] = B
    BY <1>1, <1>2, <1>3
  <2>2. IsSeq(B) /\ DOMAIN B = 1..2 /\ B[1] = Press(k) /\ B[2] = Release(k)
    BY Pair
  <2> HIDE DEF B, k
  <2>3. \A o \in DOMAIN B : o \in {1, 2}
    BY <2>2
  <2>4. 2 \in DOMAIN B
    BY <2>2
  <2> QED BY <2>1, <2>2, <2>3, <2>4 DEF IsBatch, Clicking, Releases, Operations, Press, Release
<1> QED BY <1>1, <1>2, <1>3, <1>4 DEF IsGesture, Still, g

\* What an operation does, and on what.
LEMMA Fields ==
  \A x : /\ Press(x).do = "press" /\ Press(x).on = x
         /\ Release(x).do = "release" /\ Release(x).on = x
         /\ Push(x).do = "push" /\ Push(x).on = x
         /\ LetGo(x).do = "let" /\ LetGo(x).on = x
         /\ MoveTo(x).do = "move" /\ MoveTo(x).on = x
         /\ Turn(x).do = "turn" /\ Turn(x).on = x
BY DEF Press, Release, Push, LetGo, MoveTo, Turn

\* The keys of a combination, in the order they go down, and the way back.
LEMMA DownShape ==
  ASSUME NEW a, IsSeq(a.modifiers)
  PROVE  LET n == Len(a.modifiers)
             B == ComboDown(a)
         IN  /\ n \in Nat /\ IsSeq(B) /\ Len(B) = n + 1 /\ DOMAIN B = 1..(n + 1)
             /\ \A i \in 1..n : B[i] = Press(a.modifiers[i])
             /\ B[n + 1] = Press(a.key)
<1> DEFINE n == Len(a.modifiers)
           s == [i \in DOMAIN a.modifiers |-> Press(a.modifiers[i])]
           t == <<Press(a.key)>>
<1>1. n \in Nat /\ DOMAIN a.modifiers = 1..n
  BY SeqFacts
<1>2. IsSeq(s) /\ Len(s) = n /\ \A i \in 1..n : s[i] = Press(a.modifiers[i])
  <2>1. s = [i \in 1..n |-> s[i]] /\ \A i \in 1..n : s[i] = Press(a.modifiers[i])
    BY <1>1
  <2> HIDE DEF s, n
  <2> QED BY <1>1, <2>1, DomainIsSeq
<1>3. IsSeq(t) /\ Len(t) = 1 /\ t[1] = Press(a.key)
  BY Single
<1>4. ComboDown(a) = s \o t
  BY DEF ComboDown
<1> HIDE DEF s, t, n
<1>5. 1 \in 1..Len(t)
  BY <1>3
<1>6. /\ IsSeq(s \o t) /\ Len(s \o t) = n + 1 /\ DOMAIN (s \o t) = 1..(n + 1)
      /\ \A i \in 1..n : (s \o t)[i] = s[i]
      /\ (s \o t)[n + 1] = t[1]
  <2>0. IsSeq(s) /\ IsSeq(t)
    BY <1>2, <1>3
  <2>1. /\ IsSeq(s \o t) /\ Len(s \o t) = Len(s) + Len(t) /\ DOMAIN (s \o t) = 1..(Len(s) + Len(t))
        /\ \A i \in 1..Len(s) : (s \o t)[i] = s[i]
        /\ \A i \in 1..Len(t) : (s \o t)[Len(s) + i] = t[i]
    BY <2>0, Joined, SMT
  <2> QED BY <1>2, <1>3, <1>5, <2>1
<1> QED BY <1>1, <1>2, <1>3, <1>4, <1>6 DEF n

\* combo_up: the key first, then the modifiers from the last to the first.
LEMMA UpShape ==
  ASSUME NEW a, IsSeq(a.modifiers)
  PROVE  LET n == Len(a.modifiers)
             B == ComboUp(a)
         IN  /\ n \in Nat /\ IsSeq(B) /\ Len(B) = n + 1 /\ DOMAIN B = 1..(n + 1)
             /\ B[1] = Release(a.key)
             /\ \A i \in 1..n : B[1 + i] = Release(a.modifiers[n - i + 1])
<1> DEFINE n == Len(a.modifiers)
           back == Reverse(a.modifiers)
           s == [i \in DOMAIN back |-> Release(back[i])]
           t == <<Release(a.key)>>
<1>1. n \in Nat /\ DOMAIN a.modifiers = 1..n
  BY SeqFacts
<1>2. DOMAIN back = 1..n /\ \A i \in 1..n : back[i] = a.modifiers[n - i + 1]
  BY DEF Reverse
<1>3. IsSeq(s) /\ Len(s) = n /\ \A i \in 1..n : s[i] = Release(a.modifiers[n - i + 1])
  <2> HIDE DEF back
  <2>1. s = [i \in 1..n |-> s[i]] /\ \A i \in 1..n : s[i] = Release(a.modifiers[n - i + 1])
    BY <1>1, <1>2
  <2> HIDE DEF s, n
  <2> QED BY <1>1, <2>1, DomainIsSeq
<1>4. IsSeq(t) /\ Len(t) = 1 /\ t[1] = Release(a.key)
  BY Single
<1>5. ComboUp(a) = t \o s
  BY DEF ComboUp
<1> HIDE DEF s, t, n
<1>6. 1 \in 1..Len(t)
  BY <1>4
<1>7. /\ IsSeq(t \o s) /\ Len(t \o s) = 1 + n /\ DOMAIN (t \o s) = 1..(1 + n)
      /\ (t \o s)[1] = t[1]
      /\ \A i \in 1..n : (t \o s)[1 + i] = s[i]
  <2>0. IsSeq(s) /\ IsSeq(t)
    BY <1>3, <1>4
  <2>1. /\ IsSeq(t \o s) /\ Len(t \o s) = Len(t) + Len(s) /\ DOMAIN (t \o s) = 1..(Len(t) + Len(s))
        /\ \A i \in 1..Len(t) : (t \o s)[i] = t[i]
        /\ \A i \in 1..Len(s) : (t \o s)[Len(t) + i] = s[i]
    BY <2>0, Joined, SMT
  <2> QED BY <1>3, <1>4, <1>6, <2>1
<1>8. 1 + n = n + 1
  BY <1>1
<1> QED BY <1>1, <1>3, <1>4, <1>5, <1>7, <1>8 DEF n

\* combo_events: the modifiers, the key, and all of it again backwards.
LEMMA ComboShape ==
  ASSUME NEW a, IsSeq(a.modifiers)
  PROVE  LET n == Len(a.modifiers)
             B == Combo(a)
         IN  /\ n \in Nat /\ IsSeq(B) /\ DOMAIN B = 1..(2 * n + 2)
             /\ \A i \in 1..n : B[i] = Press(a.modifiers[i])
             /\ B[n + 1] = Press(a.key)
             /\ B[n + 2] = Release(a.key)
             /\ \A i \in 1..n : B[n + 2 + i] = Release(a.modifiers[n - i + 1])
<1> DEFINE n == Len(a.modifiers)
           s == ComboDown(a)
           t == ComboUp(a)
<1>1. /\ n \in Nat /\ IsSeq(s) /\ Len(s) = n + 1
      /\ \A i \in 1..n : s[i] = Press(a.modifiers[i])
      /\ s[n + 1] = Press(a.key)
  BY DownShape
<1>2. /\ IsSeq(t) /\ Len(t) = n + 1 /\ t[1] = Release(a.key)
      /\ \A i \in 1..n : t[1 + i] = Release(a.modifiers[n - i + 1])
  BY UpShape
<1>3. Combo(a) = s \o t
  BY DEF Combo
<1> HIDE DEF s, t, n
<1>4. /\ IsSeq(s \o t) /\ DOMAIN (s \o t) = 1..((n + 1) + (n + 1))
      /\ \A i \in 1..(n + 1) : (s \o t)[i] = s[i]
      /\ \A i \in 1..(n + 1) : (s \o t)[n + 1 + i] = t[i]
  BY <1>1, <1>2, Joined
<1>5. (n + 1) + (n + 1) = 2 * n + 2 /\ n + 1 \in 1..(n + 1) /\ 1 \in 1..(n + 1)
      /\ (n + 1) + 1 = n + 2
      /\ \A i \in 1..n : i \in 1..(n + 1) /\ 1 + i \in 1..(n + 1) /\ n + 1 + (1 + i) = n + 2 + i
  BY <1>1
<1> QED BY <1>1, <1>2, <1>3, <1>4, <1>5 DEF n

\* A combination lets go of what it presses; its two halves only together.
LEMMA CombosAreBatches ==
  ASSUME NEW a, IsSeq(a.modifiers), NEW K
  PROVE  /\ IsBatch(Combo(a), K) /\ Clicking(Combo(a))
         /\ IsBatch(ComboUp(a), K) /\ Clicking(ComboUp(a))
         /\ IsBatch(ComboDown(a), ToSet(a.modifiers) \cup {a.key}) /\ Clicking(ComboDown(a))
         /\ \A k \in ToSet(a.modifiers) \cup {a.key} : Releases(ComboUp(a), 0, k)
<1> DEFINE n == Len(a.modifiers)
<1>0. n \in Nat /\ DOMAIN a.modifiers = 1..n
  BY SeqFacts
<1>1. IsBatch(Combo(a), K) /\ Clicking(Combo(a))
  <2> DEFINE B == Combo(a)
  <2>1. /\ IsSeq(B) /\ DOMAIN B = 1..(2 * n + 2)
        /\ \A i \in 1..n : B[i] = Press(a.modifiers[i])
        /\ B[n + 1] = Press(a.key)
        /\ B[n + 2] = Release(a.key)
        /\ \A i \in 1..n : B[n + 2 + i] = Release(a.modifiers[n - i + 1])
    BY ComboShape
  <2> HIDE DEF B, n
  <2>2. ASSUME NEW o \in DOMAIN B
        PROVE  \/ o \in 1..n \/ o = n + 1 \/ o = n + 2
               \/ \E i \in 1..n : o = n + 2 + i
    <3>1. CASE o > n + 2
      <4>1. o - (n + 2) \in 1..n /\ o = n + 2 + (o - (n + 2))
        BY <1>0, <2>1, <3>1
      <4> QED BY <4>1
    <3>2. CASE ~(o > n + 2)
      BY <1>0, <2>1, <3>2
    <3> QED BY <3>1, <3>2
  <2>3. ASSUME NEW o \in DOMAIN B
        PROVE  B[o].do \in {"press", "release"}
    <3>1. CASE o \in 1..n \/ o = n + 1 \/ o = n + 2
      BY <2>1, <3>1, Fields
    <3>2. CASE \E i \in 1..n : o = n + 2 + i
      BY <2>1, <3>2, Fields
    <3> QED BY <2>2, <3>1, <3>2
  <2>4. ASSUME NEW o \in DOMAIN B, B[o].do = "press"
        PROVE  Releases(B, o, B[o].on)
    <3>1. CASE o \in 1..n
      <4>1. n - o + 1 \in 1..n /\ n - (n - o + 1) + 1 = o
            /\ n + 2 + (n - o + 1) \in DOMAIN B /\ n + 2 + (n - o + 1) > o
        BY <1>0, <2>1, <3>1
      <4>2. B[n + 2 + (n - o + 1)] = Release(a.modifiers[o])
        BY <2>1, <4>1
      <4>3. B[o] = Press(a.modifiers[o])
        BY <2>1, <3>1
      <4> QED BY <4>1, <4>2, <4>3 DEF Releases, Press, Release
    <3>2. CASE o = n + 1
      <4>1. n + 2 \in DOMAIN B /\ n + 2 > o
        BY <1>0, <2>1, <3>2
      <4> QED BY <2>1, <3>2, <4>1 DEF Releases, Press, Release
    <3>3. CASE o \notin 1..n /\ o # n + 1
      <4>1. CASE o = n + 2
        BY <2>1, <2>4, <4>1, Fields
      <4>2. CASE \E i \in 1..n : o = n + 2 + i
        BY <2>1, <2>4, <4>2, Fields
      <4> QED BY <2>2, <3>3, <4>1, <4>2
    <3> QED BY <3>1, <3>2, <3>3
  <2>5. IsBatch(B, K)
    BY <2>1, <2>3, <2>4 DEF IsBatch, Operations
  <2>6. Clicking(B)
    BY <2>3 DEF Clicking
  <2> QED BY <2>5, <2>6 DEF B
<1>2. /\ IsBatch(ComboUp(a), K) /\ Clicking(ComboUp(a))
      /\ \A k \in ToSet(a.modifiers) \cup {a.key} : Releases(ComboUp(a), 0, k)
  <2> DEFINE B == ComboUp(a)
  <2>1. /\ IsSeq(B) /\ DOMAIN B = 1..(n + 1)
        /\ B[1] = Release(a.key)
        /\ \A i \in 1..n : B[1 + i] = Release(a.modifiers[n - i + 1])
    BY UpShape
  <2> HIDE DEF B, n
  <2>2. ASSUME NEW o \in DOMAIN B PROVE B[o].do = "release"
    <3>1. o = 1 \/ (o - 1 \in 1..n /\ o = 1 + (o - 1))
      BY <1>0, <2>1
    <3>2. CASE o = 1
      BY <2>1, <3>2, Fields
    <3>3. CASE o - 1 \in 1..n /\ o = 1 + (o - 1)
      <4>1. B[1 + (o - 1)] = Release(a.modifiers[n - (o - 1) + 1])
        BY <2>1, <3>3
      <4> QED BY <3>3, <4>1, Fields
    <3> QED BY <3>1, <3>2, <3>3
  <2>3. IsBatch(B, K) /\ Clicking(B)
    BY <2>1, <2>2 DEF IsBatch, Clicking, Operations
  <2>4. ASSUME NEW k \in ToSet(a.modifiers) PROVE Releases(B, 0, k)
    <3>1. PICK i \in 1..n : k = a.modifiers[i]
      BY <1>0 DEF ToSet
    <3>2. n - i + 1 \in 1..n /\ n - (n - i + 1) + 1 = i
          /\ 1 + (n - i + 1) \in DOMAIN B /\ 1 + (n - i + 1) > 0
      BY <1>0, <2>1
    <3>3. B[1 + (n - i + 1)] = Release(k)
      BY <2>1, <3>1, <3>2
    <3> QED BY <3>2, <3>3 DEF Releases, Release
  <2>5. Releases(B, 0, a.key)
    <3>1. 1 \in DOMAIN B /\ 1 > 0
      BY <1>0, <2>1
    <3> QED BY <2>1, <3>1 DEF Releases, Release
  <2> QED BY <2>3, <2>4, <2>5 DEF B
<1>3. IsBatch(ComboDown(a), ToSet(a.modifiers) \cup {a.key}) /\ Clicking(ComboDown(a))
  <2> DEFINE B == ComboDown(a)
  <2>1. /\ IsSeq(B) /\ DOMAIN B = 1..(n + 1)
        /\ \A i \in 1..n : B[i] = Press(a.modifiers[i])
        /\ B[n + 1] = Press(a.key)
    BY DownShape
  <2> HIDE DEF B
  <2>2. ASSUME NEW o \in DOMAIN B
        PROVE  B[o].do = "press" /\ B[o].on \in ToSet(a.modifiers) \cup {a.key}
    <3>1. o \in 1..n \/ o = n + 1
      BY <1>0, <2>1
    <3>2. \A i \in 1..n : a.modifiers[i] \in ToSet(a.modifiers)
      BY <1>0 DEF ToSet
    <3> HIDE DEF n
    <3>3. CASE o \in 1..n
      BY <2>1, <3>2, <3>3, Fields
    <3>4. CASE o = n + 1
      BY <2>1, <3>4, Fields
    <3> QED BY <3>1, <3>3, <3>4
  <2>3. IsBatch(B, ToSet(a.modifiers) \cup {a.key}) /\ Clicking(B)
    BY <2>1, <2>2 DEF IsBatch, Clicking, Operations
  <2> QED BY <2>3 DEF B
<1> QED BY <1>1, <1>2, <1>3

\* A click is a push and a let, a double click two of them.
LEMMA ClickIsBatch ==
  ASSUME NEW b, NEW K
  PROVE  LET B == MouseClick(b)
         IN  /\ IsBatch(B, K) /\ Clicking(B) /\ IsSeq(B) /\ Len(B) = 2 /\ DOMAIN B = 1..2
             /\ B[1] = Push(b) /\ B[2] = LetGo(b)
<1> DEFINE B == MouseClick(b)
<1>1. IsSeq(B) /\ Len(B) = 2 /\ DOMAIN B = 1..2 /\ B[1] = Push(b) /\ B[2] = LetGo(b)
  BY Pair DEF MouseClick
<1> HIDE DEF B
<1>2. \A o \in DOMAIN B : o \in {1, 2}
  BY <1>1
<1>3. IsBatch(B, K)
  BY <1>1, <1>2, Fields DEF IsBatch, Operations
<1>4. Clicking(B)
  BY <1>1, <1>2, Fields DEF Clicking
<1> QED BY <1>1, <1>3, <1>4 DEF B

LEMMA DoubleIsBatch ==
  ASSUME NEW b, NEW K
  PROVE  LET B == MouseClick(b) \o MouseClick(b)
         IN  /\ IsBatch(B, K) /\ Clicking(B) /\ DOMAIN B = 1..4
             /\ B[1] = Push(b) /\ B[2] = LetGo(b) /\ B[3] = Push(b) /\ B[4] = LetGo(b)
<1> DEFINE C == MouseClick(b)
           B == C \o C
<1>1. IsSeq(C) /\ Len(C) = 2 /\ C[1] = Push(b) /\ C[2] = LetGo(b)
  BY ClickIsBatch
<1> HIDE DEF C
<1>2. /\ IsSeq(C \o C) /\ DOMAIN (C \o C) = 1..(Len(C) + Len(C))
      /\ \A i \in 1..Len(C) : (C \o C)[i] = C[i]
      /\ \A i \in 1..Len(C) : (C \o C)[Len(C) + i] = C[i]
  <2>1. IsSeq(C)
    BY <1>1
  <2> QED BY <2>1, Joined, SMT
<1>3. /\ IsSeq(B) /\ DOMAIN B = 1..4
      /\ B[1] = Push(b) /\ B[2] = LetGo(b) /\ B[3] = Push(b) /\ B[4] = LetGo(b)
  <2>1. 1 \in 1..Len(C) /\ 2 \in 1..Len(C) /\ Len(C) + 1 = 3 /\ Len(C) + 2 = 4 /\ Len(C) + Len(C) = 4
    BY <1>1
  <2> QED BY <1>1, <1>2, <2>1
<1> HIDE DEF B
<1>4. \A o \in DOMAIN B : o \in {1, 2, 3, 4}
  BY <1>3
<1>5. IsBatch(B, K)
  BY <1>3, <1>4, Fields DEF IsBatch, Operations
<1>6. Clicking(B)
  BY <1>3, <1>4, Fields DEF Clicking
<1> QED BY <1>3, <1>5, <1>6 DEF B, C

\* Scrolling is one turn a batch.
LEMMA ScrollIsGesture ==
  ASSUME NEW d, NEW n \in Nat, NEW K
  PROVE  /\ IsGesture(Scroll(d, n), K) /\ DOMAIN Scroll(d, n) = 1..n
         /\ \A i \in 1..n : Scroll(d, n)[i] = <<Turn(d)>>
<1> DEFINE g == Scroll(d, n)
<1>1. \A i \in 1..n : g[i] = <<Turn(d)>>
  BY DEF Scroll
<1>2. g = [i \in 1..n |-> g[i]]
  BY DEF Scroll
<1> HIDE DEF g
<1>3. IsSeq(g) /\ DOMAIN g = 1..n
  BY <1>2, DomainIsSeq
<1>4. IsBatch(<<Turn(d)>>, K) /\ Clicking(<<Turn(d)>>)
  BY OneOperation, Fields
<1>5. IsGesture(g, K)
  BY <1>1, <1>3, <1>4 DEF IsGesture
<1> QED BY <1>1, <1>3, <1>5 DEF g

\* The batches of a drag: its button is down from the second to the fourth.
LEMMA DragShape ==
  ASSUME NEW p, NEW q
  PROVE  LET g == MouseDrag(p, q)
         IN  /\ IsSeq(g) /\ Len(g) = 4 /\ DOMAIN g = 1..4
             /\ g[1] = <<MoveTo(p)>> /\ g[2] = <<Push("left")>>
             /\ g[3] = <<MoveTo(q)>> /\ g[4] = <<LetGo("left")>>
BY Quadruple DEF MouseDrag

------------------------------------------------------------------------------
(* The steps of the commands. *)

Kinds == {"generate", "wait", "open", "baseline", "measure", "save"}

\* The keys that step p of command c puts down and leaves down.
Leaves(c, p) ==
    IF c.do = "keydown" THEN {ParseKeySpec(c.spec).key}
    ELSE IF c.do = "key" /\ c.hold /\ p = 1 THEN HeldKeys(c)
    ELSE {}

StepOk(c, p, s) ==
    /\ s.step \in Kinds
    /\ s.step = "generate" =>
         /\ c.do # "drag" => IsGesture(s.gesture, Leaves(c, p))
         /\ s.pumped \in BOOLEAN
         /\ s.pumped => c.do \notin {"drag", "key", "keydown"} /\ Still(s.gesture)
    /\ s.step = "measure" => s.target \in Int
    /\ s.step \in Kinds \ {"generate", "wait"} => c.do = "calibrate"

ProgramOk(c) ==
    /\ IsSeq(Program(c)) /\ Len(Program(c)) > 0
    /\ \A p \in DOMAIN Program(c) : StepOk(c, p, Program(c)[p])

\* The fields of the steps.
LEMMA StepFields ==
  /\ \A g : /\ Generating(g).step = "generate" /\ Generating(g).gesture = g
            /\ Generating(g).pumped = FALSE
            /\ GeneratingPumped(g).step = "generate" /\ GeneratingPumped(g).gesture = g
            /\ GeneratingPumped(g).pumped = TRUE
  /\ Waiting.step = "wait"
BY DEF Generating, GeneratingPumped, Waiting

\* All parts of a spec but the last are modifiers.
LEMMA SpecFacts ==
  ASSUME NEW spec, IsSeq(spec), spec # <<>>
  PROVE  LET a == ParseKeySpec(spec)
         IN  IsSeq(a.modifiers) /\ Len(a.modifiers) = Len(spec) - 1
<1> DEFINE a == ParseKeySpec(spec)
           n == Len(spec) - 1
<1>1. n \in Nat
  BY SeqFacts
<1>2. a.modifiers = [i \in 1..n |-> KeyNames[spec[i]]]
  BY DEF ParseKeySpec
<1>3. a.modifiers = [i \in 1..n |-> a.modifiers[i]]
  BY <1>2
<1> HIDE DEF a, n
<1>4. IsSeq(a.modifiers) /\ Len(a.modifiers) = n
  BY <1>1, <1>3, DomainIsSeq
<1> QED BY <1>4 DEF a, n

\* The commands by verb, and what each is given.
LEMMA CommandTypes ==
  ASSUME NEW c \in Commands
  PROVE  /\ c.do \in {"type", "utype", "key", "keydown", "keyup", "move", "click", "doubleclick",
                      "drag", "scroll", "mouse-hide", "calibrate"}
         /\ c.do \in {"type", "utype"} => IsSeq(c.text)
         /\ c.do \in {"key", "keydown", "keyup"} => IsSeq(c.spec) /\ c.spec # <<>>
         /\ c.do = "key" => c.hold \in BOOLEAN
         /\ c.do = "scroll" => c.notches \in Nat
         /\ c.do = "calibrate" => c.cols \in Nat \ {0} /\ IsSeq(c.shell) /\ c.deploy \in BOOLEAN
<1>1. c \in Keyboard \cup Mouse
  BY CommandsAssumption
<1>2. \A s \in Seq(STRING) : IsSeq(s)
  BY SeqIsSeq
<1>3. CASE c \in [do : {"type", "utype"}, text : Seq(STRING)]
  BY <1>2, <1>3
<1>4. CASE c \in [do : {"key"}, spec : Seq(STRING) \ {<<>>}, hold : BOOLEAN]
  BY <1>2, <1>4
<1>5. CASE c \in [do : {"keydown", "keyup"}, spec : Seq(STRING) \ {<<>>}]
  BY <1>2, <1>5
<1>6. CASE c \in Mouse
  BY <1>2, <1>6 DEF Mouse
<1> QED BY <1>1, <1>3, <1>4, <1>5, <1>6 DEF Keyboard

\* The programs of one and of two gestures, with a wait after them or without.
LEMMA AloneOk ==
  ASSUME NEW c, NEW x, StepOk(c, 1, x)
  PROVE  LET P == <<x>> IN IsSeq(P) /\ Len(P) > 0 /\ \A p \in DOMAIN P : StepOk(c, p, P[p])
<1> DEFINE P == <<x>>
<1>1. IsSeq(P) /\ Len(P) = 1 /\ DOMAIN P = 1..1 /\ P[1] = x
  BY Single
<1> HIDE DEF P
<1>2. \A p \in DOMAIN P : p = 1
  BY <1>1
<1> QED BY <1>1, <1>2 DEF P

\* Waiting is a step of any command; so are gestures that leave down what they may.
LEMMA WaitOk ==
  ASSUME NEW c, NEW p
  PROVE  StepOk(c, p, Waiting)
BY StepFields DEF StepOk, Kinds

\* A gesture and the wait after it.
LEMMA ThenWaitOk ==
  ASSUME NEW c, NEW x, StepOk(c, 1, x)
  PROVE  LET P == <<x, Waiting>> IN IsSeq(P) /\ Len(P) > 0 /\ \A p \in DOMAIN P : StepOk(c, p, P[p])
<1> DEFINE P == <<x, Waiting>>
<1>1. IsSeq(P) /\ Len(P) = 2 /\ DOMAIN P = 1..2 /\ P[1] = x /\ P[2] = Waiting
  BY Pair
<1> HIDE DEF P
<1>2. \A p \in DOMAIN P : p \in {1, 2}
  BY <1>1
<1> QED BY <1>1, <1>2, WaitOk DEF P

LEMMA Triple ==
  ASSUME NEW a, NEW b, NEW c
  PROVE  /\ IsSeq(<<a, b, c>>) /\ Len(<<a, b, c>>) = 3 /\ DOMAIN <<a, b, c>> = 1..3
         /\ <<a, b, c>>[1] = a /\ <<a, b, c>>[2] = b /\ <<a, b, c>>[3] = c
<1>1. <<a, b, c>> \in Seq({a, b, c})
  OBVIOUS
<1>2. IsSeq(<<a, b, c>>)
  BY <1>1, SeqIsSeq
<1> QED BY <1>2

\* Two gestures and the wait after them.
LEMMA TwiceOk ==
  ASSUME NEW c, NEW x, NEW y, StepOk(c, 1, x), StepOk(c, 2, y)
  PROVE  LET P == <<x, y, Waiting>> IN IsSeq(P) /\ Len(P) > 0 /\ \A p \in DOMAIN P : StepOk(c, p, P[p])
<1> DEFINE P == <<x, y, Waiting>>
<1>1. IsSeq(P) /\ Len(P) = 3 /\ DOMAIN P = 1..3 /\ P[1] = x /\ P[2] = y /\ P[3] = Waiting
  BY Triple
<1> HIDE DEF P
<1>2. \A p \in DOMAIN P : p \in {1, 2, 3}
  BY <1>1
<1> QED BY <1>1, <1>2, WaitOk DEF P

\* A gesture that lets go of what it presses.
LEMMA GeneratingOk ==
  ASSUME NEW c, NEW p, NEW g, c.do = "drag" \/ IsGesture(g, Leaves(c, p))
  PROVE  StepOk(c, p, Generating(g))
<1>1. /\ Generating(g).step = "generate" /\ Generating(g).gesture = g
      /\ Generating(g).pumped = FALSE
  BY StepFields
<1> QED BY <1>1 DEF StepOk, Kinds

\* One with a pause after each batch: nothing moves in it and no key is left down.
LEMMA PumpedOk ==
  ASSUME NEW c, NEW p, NEW g, IsGesture(g, Leaves(c, p)), Still(g),
         c.do \notin {"drag", "key", "keydown"}
  PROVE  StepOk(c, p, GeneratingPumped(g))
<1>1. /\ GeneratingPumped(g).step = "generate" /\ GeneratingPumped(g).gesture = g
      /\ GeneratingPumped(g).pumped = TRUE
  BY StepFields
<1> QED BY <1>1 DEF StepOk, Kinds

\* A combination held or not.
LEMMA KeyOk ==
  ASSUME NEW c \in Commands, c.do = "key"
  PROVE  /\ ProgramOk(c)
         /\ c.hold => /\ Len(Program(c)) = 4 /\ Program(c)[2].step = "wait" /\ Program(c)[4].step = "wait"
                      /\ Program(c)[3].step = "generate" /\ Len(Program(c)[3].gesture) = 1
                      /\ \A k \in HeldKeys(c) : Releases(Program(c)[3].gesture[1], 0, k)
<1> DEFINE a == ParseKeySpec(c.spec)
<1>1. IsSeq(a.modifiers) /\ c.hold \in BOOLEAN
  BY CommandTypes, SpecFacts
<1>2. Program(c) = KeySteps(c)
  BY DEF Program
<1>3. CASE ~c.hold
  <2>1. Program(c) = <<Generating(<<Combo(a)>>), Waiting>>
    BY <1>2, <1>3 DEF KeySteps
  <2> HIDE DEF a
  <2>2. IsGesture(<<Combo(a)>>, Leaves(c, 1))
    BY <1>1, CombosAreBatches, OneBatch
  <2>3. StepOk(c, 1, Generating(<<Combo(a)>>))
    BY <2>2, GeneratingOk
  <2> QED BY <1>3, <2>1, <2>3, ThenWaitOk DEF ProgramOk
<1>4. CASE c.hold
  <2> DEFINE x == Generating(<<ComboDown(a)>>)
             y == Generating(<<ComboUp(a)>>)
             P == <<x, Waiting, y, Waiting>>
  <2>1. Program(c) = P
    BY <1>2, <1>4 DEF KeySteps
  <2>2. HeldKeys(c) = ToSet(a.modifiers) \cup {a.key}
    BY <1>4 DEF HeldKeys
  <2>3. Leaves(c, 1) = HeldKeys(c)
    BY <1>4 DEF Leaves
  <2> HIDE DEF a
  <2>4. IsGesture(<<ComboDown(a)>>, Leaves(c, 1))
    BY <1>1, <2>2, <2>3, CombosAreBatches, OneBatch
  <2>5. IsGesture(<<ComboUp(a)>>, Leaves(c, 3))
    BY <1>1, CombosAreBatches, OneBatch
  <2>6. StepOk(c, 1, x) /\ StepOk(c, 3, y)
    BY <2>4, <2>5, GeneratingOk
  <2>7. y.step = "generate" /\ y.gesture = <<ComboUp(a)>>
    BY StepFields
  <2>8. Len(<<ComboUp(a)>>) = 1 /\ <<ComboUp(a)>>[1] = ComboUp(a)
    OBVIOUS
  <2>9. \A k \in HeldKeys(c) : Releases(ComboUp(a), 0, k)
    BY <1>1, <2>2, CombosAreBatches
  <2>10. /\ IsSeq(P) /\ Len(P) = 4 /\ DOMAIN P = 1..4
         /\ P[1] = x /\ P[2] = Waiting /\ P[3] = y /\ P[4] = Waiting
    <3> HIDE DEF x, y
    <3> QED BY Quadruple
  <2> HIDE DEF P, x, y
  <2>11. \A p \in DOMAIN P : p \in {1, 2, 3, 4}
    BY <2>10
  <2>12. ProgramOk(c)
    BY <2>1, <2>6, <2>10, <2>11, WaitOk DEF ProgramOk
  <2> QED BY <2>1, <2>7, <2>8, <2>9, <2>10, <2>12, StepFields
<1> QED BY <1>1, <1>3, <1>4

\* Every element of a sequence, and of two sequences joined.
Steps(P, c) == IsSeq(P) /\ \A p \in DOMAIN P : StepOk(c, 1, P[p])

\* Two lists of steps, one after the other.
LEMMA JoinedSteps ==
  ASSUME NEW P, NEW Q, NEW c, Steps(P, c), Steps(Q, c)
  PROVE  /\ Steps(P \o Q, c) /\ Len(P \o Q) = Len(P) + Len(Q) /\ Len(P) \in Nat /\ Len(Q) \in Nat
         /\ DOMAIN (P \o Q) = 1..(Len(P) + Len(Q))
         /\ \A i \in 1..Len(P) : (P \o Q)[i] = P[i]
         /\ \A i \in 1..Len(Q) : (P \o Q)[Len(P) + i] = Q[i]
<1>1. IsSeq(P) /\ IsSeq(Q)
  BY DEF Steps
<1>2. /\ IsSeq(P \o Q) /\ Len(P \o Q) = Len(P) + Len(Q) /\ DOMAIN (P \o Q) = 1..(Len(P) + Len(Q))
      /\ \A i \in 1..Len(P) : (P \o Q)[i] = P[i]
      /\ \A i \in 1..Len(Q) : (P \o Q)[Len(P) + i] = Q[i]
  BY <1>1, Joined, SMT
<1>3. /\ Len(P) \in Nat /\ Len(Q) \in Nat
      /\ DOMAIN P = 1..Len(P) /\ DOMAIN Q = 1..Len(Q)
  BY <1>1, SeqFacts
<1>4. ASSUME NEW p \in 1..(Len(P) + Len(Q)) PROVE StepOk(c, 1, (P \o Q)[p])
  <2>1. CASE p \in 1..Len(P)
    BY <1>2, <1>3, <2>1 DEF Steps
  <2>2. CASE p \notin 1..Len(P)
    <3>1. p - Len(P) \in 1..Len(Q) /\ p = Len(P) + (p - Len(P))
      BY <1>3, <2>2
    <3>2. (P \o Q)[p] = Q[p - Len(P)]
      BY <1>2, <3>1
    <3> QED BY <1>3, <3>1, <3>2 DEF Steps
  <2> QED BY <2>1, <2>2
<1> QED BY <1>2, <1>3, <1>4 DEF Steps

\* Opening the page measures nothing and saves nothing.
LEMMA DeploySteps ==
  ASSUME NEW c \in Commands, c.do = "calibrate"
  PROVE  Steps(Deploy(c), c) /\ \A p \in DOMAIN Deploy(c) : Deploy(c)[p].step \notin {"measure", "save"}
<1> DEFINE enter == ParseKeySpec(<<"enter">>)
           full == ParseKeySpec(<<"f11">>)
           x == GeneratingPumped(TypeText(c.shell))
           y == Generating(<<Combo(enter)>>)
           z == [step |-> "open"]
           w == Generating(<<Combo(full)>>)
           P == <<Waiting, x, y, Waiting, z, w, Waiting>>
<1>1. CASE ~c.deploy
  <2>1. Deploy(c) = <<>>
    BY <1>1 DEF Deploy
  <2> QED BY <2>1, Nothing DEF Steps
<1>2. CASE c.deploy
  <2>1. Deploy(c) = P
    BY <1>2 DEF Deploy
  <2>2. IsSeq(enter.modifiers) /\ IsSeq(full.modifiers)
    <3>1. \A e : IsSeq(<<e>>) /\ <<e>> # <<>>
      BY Single, Nothing
    <3> QED BY <3>1, SpecFacts
  <2> HIDE DEF enter, full
  <2>3. IsSeq(c.shell)
    BY CommandTypes
  <2>4. StepOk(c, 1, x)
    BY <2>3, TextIsGesture, PumpedOk
  <2>5. StepOk(c, 1, y) /\ StepOk(c, 1, w)
    <3>1. IsGesture(<<Combo(enter)>>, Leaves(c, 1)) /\ IsGesture(<<Combo(full)>>, Leaves(c, 1))
      BY <2>2, CombosAreBatches, OneBatch
    <3> QED BY <3>1, GeneratingOk
  <2>6. StepOk(c, 1, z) /\ z.step = "open"
    BY DEF StepOk, Kinds
  <2>7. x.step = "generate" /\ y.step = "generate" /\ w.step = "generate" /\ Waiting.step = "wait"
    BY StepFields
  <2> HIDE DEF x, y, z, w
  <2>8. /\ DOMAIN P = 1..7 /\ IsSeq(P)
        /\ P[1] = Waiting /\ P[2] = x /\ P[3] = y /\ P[4] = Waiting /\ P[5] = z /\ P[6] = w /\ P[7] = Waiting
    <3>1. P \in Seq({Waiting, x, y, z, w})
      OBVIOUS
    <3>2. IsSeq(P)
      BY <3>1, SeqIsSeq
    <3> QED BY <3>2
  <2> HIDE DEF P
  <2>9. \A p \in DOMAIN P : p \in {1, 2, 3, 4, 5, 6, 7}
    BY <2>8
  <2> QED BY <2>1, <2>4, <2>5, <2>6, <2>7, <2>8, <2>9, WaitOk DEF Steps
<1> QED BY <1>1, <1>2

\* Four steps for each point: which point the i-th is of, and which step of it.
LEMMA Quarters ==
  ASSUME NEW n \in Nat, NEW i \in 1..(4 * n)
  PROVE  (i + 3) \div 4 \in 1..n /\ 1 + ((i - 1) % 4) \in 1..4
         /\ (i = 4 * n => 1 + ((i - 1) % 4) = 4)
OBVIOUS

\* The points of a grid end with the measurement of the last of them.
LEMMA PointsAreSteps ==
  ASSUME NEW targets, NEW n \in Nat, DOMAIN targets = 1..n, Len(targets) = n,
         \A i \in 1..n : targets[i] \in Int, NEW c, c.do = "calibrate"
  PROVE  LET P == PointSteps(targets)
         IN  /\ Steps(P, c) /\ Len(P) = 4 * n
             /\ n > 0 => P[4 * n].step = "measure"
             /\ \A p \in DOMAIN P : P[p].step # "save"
<1> DEFINE P == PointSteps(targets)
<1>1. \A i \in 1..(4 * n) : P[i] = PointStep(targets[(i + 3) \div 4], 1 + ((i - 1) % 4))
  BY DEF PointSteps
<1>2. P = [i \in 1..(4 * n) |-> P[i]] /\ 4 * n \in Nat
  BY DEF PointSteps
<1> HIDE DEF P
<1>3. IsSeq(P) /\ DOMAIN P = 1..(4 * n) /\ Len(P) = 4 * n
  BY <1>2, DomainIsSeq
<1>4. ASSUME NEW t \in Int, NEW k \in 1..4
      PROVE  /\ StepOk(c, 1, PointStep(t, k)) /\ PointStep(t, k).step # "save"
             /\ k = 4 => PointStep(t, k).step = "measure"
  <2>1. CASE k = 1
    <3>1. PointStep(t, k) = Generating(<< <<MoveTo(t)>> >>)
      BY <2>1 DEF PointStep
    <3>2. IsGesture(<< <<MoveTo(t)>> >>, Leaves(c, 1))
      BY OneOperation, OneBatch, Fields
    <3>3. StepOk(c, 1, Generating(<< <<MoveTo(t)>> >>))
      BY <3>2, GeneratingOk
    <3> QED BY <2>1, <3>1, <3>3, StepFields
  <2>2. CASE k = 2
    <3>1. PointStep(t, k) = Generating(<<MouseClick("left")>>)
      BY <2>2 DEF PointStep
    <3>2. IsGesture(<<MouseClick("left")>>, Leaves(c, 1))
      BY ClickIsBatch, OneBatch
    <3>3. StepOk(c, 1, Generating(<<MouseClick("left")>>))
      BY <3>2, GeneratingOk
    <3> QED BY <2>2, <3>1, <3>3, StepFields
  <2>3. CASE k = 3
    BY <2>3, WaitOk, StepFields DEF PointStep
  <2>4. CASE k = 4
    <3>1. PointStep(t, k) = [step |-> "measure", target |-> t]
      BY <2>4 DEF PointStep
    <3> QED BY <3>1, <2>4 DEF StepOk, Kinds
  <2> QED BY <2>1, <2>2, <2>3, <2>4
<1>5. ASSUME NEW i \in 1..(4 * n)
      PROVE  /\ StepOk(c, 1, P[i]) /\ P[i].step # "save"
             /\ i = 4 * n => P[i].step = "measure"
  <2>1. (i + 3) \div 4 \in 1..n /\ 1 + ((i - 1) % 4) \in 1..4 /\ (i = 4 * n => 1 + ((i - 1) % 4) = 4)
    BY Quarters
  <2> DEFINE k == 1 + ((i - 1) % 4)
             t == targets[(i + 3) \div 4]
  <2>2. t \in Int /\ k \in 1..4 /\ P[i] = PointStep(t, k) /\ (i = 4 * n => k = 4)
    BY <1>1, <2>1
  <2> HIDE DEF k, t
  <2> QED BY <1>4, <2>2
<1>6. n > 0 => 4 * n \in 1..(4 * n)
  OBVIOUS
<1> QED BY <1>3, <1>5, <1>6 DEF Steps, P

\* A calibration saves right after it has measured.
LEMMA GridOk ==
  ASSUME NEW c \in Commands, c.do = "calibrate"
  PROVE  LET P == Program(c)
         IN  /\ ProgramOk(c)
             /\ \A p \in DOMAIN P : P[p].step = "save" => p > 1 /\ P[p - 1].step = "measure"
<1> DEFINE D == Deploy(c)
           b == <<[step |-> "baseline"]>>
           T == GridTargets(c.cols)
           Q == PointSteps(T)
           v == <<[step |-> "save"]>>
<1>1. c.cols \in Nat \ {0}
  BY CommandTypes
<1>2. DOMAIN T = 1..c.cols /\ Len(T) = c.cols /\ \A i \in 1..c.cols : T[i] \in Int
  <2>1. \A i \in 1..c.cols : T[i] = (Width * (2 * i - 1)) \div (2 * c.cols)
    BY DEF GridTargets
  <2>2. \A i \in 1..c.cols : T[i] \in Int
    <3>1. ASSUME NEW i \in 1..c.cols PROVE T[i] \in Int
      <4>1. 2 * c.cols \in Nat \ {0} /\ 2 * i - 1 \in Int /\ Width \in Int
        BY <1>1, WidthAssumption
      <4>2. Width * (2 * i - 1) \in Int
        BY <4>1
      <4> QED BY <2>1, <4>1, <4>2
    <3> QED BY <3>1
  <2>3. T = [i \in 1..c.cols |-> T[i]]
    BY DEF GridTargets
  <2> HIDE DEF T
  <2> QED BY <1>1, <2>2, <2>3, DomainIsSeq
<1>3. Program(c) = D \o b \o Q \o v
  BY DEF Program, GridSteps
<1>4. Steps(D, c) /\ \A p \in DOMAIN D : D[p].step \notin {"measure", "save"}
  BY DeploySteps
<1>5. StepOk(c, 1, [step |-> "baseline"]) /\ StepOk(c, 1, [step |-> "save"])
  BY DEF StepOk, Kinds
<1>6. /\ Steps(b, c) /\ Len(b) = 1 /\ b[1].step = "baseline"
      /\ Steps(v, c) /\ Len(v) = 1 /\ v[1].step = "save"
  BY <1>5, Single DEF Steps
<1> HIDE DEF T
<1>7. /\ Steps(Q, c) /\ Len(Q) = 4 * c.cols /\ Q[4 * c.cols].step = "measure"
      /\ \A p \in DOMAIN Q : Q[p].step # "save"
  BY <1>1, <1>2, PointsAreSteps
<1> HIDE DEF D, b, Q, v
<1> DEFINE d == Len(D)
           n == 4 * c.cols
           Db == D \o b
           DbQ == Db \o Q
<1>8. /\ Steps(Db, c) /\ Len(Db) = d + 1 /\ d \in Nat
      /\ \A i \in 1..d : Db[i] = D[i]
      /\ Db[d + 1] = b[1]
  <2>1. /\ Steps(Db, c) /\ Len(Db) = Len(D) + Len(b) /\ Len(D) \in Nat
        /\ \A i \in 1..Len(D) : Db[i] = D[i]
        /\ \A i \in 1..Len(b) : Db[Len(D) + i] = b[i]
    <3>1. Steps(D, c) /\ Steps(b, c)
      BY <1>4, <1>6
    <3> QED BY <3>1, JoinedSteps, SMT DEF Db
  <2>2. 1 \in 1..Len(b)
    BY <1>6
  <2> QED BY <1>6, <2>1, <2>2
<1> HIDE DEF Db
<1>9. /\ Steps(DbQ, c) /\ Len(DbQ) = d + 1 + n
      /\ \A i \in 1..(d + 1) : DbQ[i] = Db[i]
      /\ \A i \in 1..n : DbQ[d + 1 + i] = Q[i]
  <2>1. Steps(Db, c) /\ Steps(Q, c)
    BY <1>7, <1>8
  <2>2. /\ Steps(DbQ, c) /\ Len(DbQ) = Len(Db) + Len(Q)
        /\ \A i \in 1..Len(Db) : DbQ[i] = Db[i]
        /\ \A i \in 1..Len(Q) : DbQ[Len(Db) + i] = Q[i]
    BY <2>1, JoinedSteps, SMT DEF DbQ
  <2> QED BY <1>7, <1>8, <2>2
<1> HIDE DEF DbQ
<1>10. /\ Steps(DbQ \o v, c) /\ Len(DbQ \o v) = d + 1 + n + 1
       /\ DOMAIN (DbQ \o v) = 1..(d + 1 + n + 1)
       /\ \A i \in 1..(d + 1 + n) : (DbQ \o v)[i] = DbQ[i]
  <2>1. /\ Steps(DbQ \o v, c) /\ Len(DbQ \o v) = Len(DbQ) + Len(v)
        /\ DOMAIN (DbQ \o v) = 1..(Len(DbQ) + Len(v))
        /\ \A i \in 1..Len(DbQ) : (DbQ \o v)[i] = DbQ[i]
    <3>1. Steps(DbQ, c) /\ Steps(v, c)
      BY <1>6, <1>9
    <3> QED BY <3>1, JoinedSteps, SMT
  <2> QED BY <1>6, <1>9, <2>1
<1> DEFINE P == DbQ \o v
<1>11. Program(c) = P
  BY <1>3 DEF DbQ, Db
<1> HIDE DEF P
<1>12. n \in Nat /\ n >= 4 /\ DOMAIN P = 1..(d + 1 + n + 1)
  BY <1>1, <1>10 DEF P
<1>13. P[d + 1 + n].step = "measure"
  <2>1. d + 1 + n \in 1..(d + 1 + n) /\ n \in 1..n
    BY <1>8, <1>12
  <2> QED BY <1>7, <1>9, <1>10, <2>1 DEF P
<1>14. ASSUME NEW p \in DOMAIN P, p # d + 1 + n + 1 PROVE P[p].step # "save"
  <2>1. p \in 1..(d + 1 + n) /\ P[p] = DbQ[p]
    <3>1. p \in 1..(d + 1 + n)
      BY <1>8, <1>12, <1>14
    <3> QED BY <1>10, <3>1 DEF P
  <2>2. CASE p \in 1..d
    <3>1. p \in 1..(d + 1) /\ DOMAIN D = 1..d
      BY <1>4, <1>8, <2>2, SeqFacts DEF Steps
    <3> QED BY <1>4, <1>8, <1>9, <2>1, <2>2, <3>1
  <2>3. CASE p = d + 1
    <3>1. p \in 1..(d + 1)
      BY <1>8, <2>3
    <3> QED BY <1>6, <1>8, <1>9, <2>1, <2>3, <3>1
  <2>4. CASE p > d + 1
    <3>1. p - (d + 1) \in 1..n /\ p = d + 1 + (p - (d + 1)) /\ DOMAIN Q = 1..n
      BY <1>7, <1>8, <1>12, <2>1, <2>4, SeqFacts DEF Steps
    <3>2. DbQ[p] = Q[p - (d + 1)]
      BY <1>9, <3>1
    <3> QED BY <1>7, <2>1, <3>1, <3>2
  <2> QED BY <1>8, <2>1, <2>2, <2>3, <2>4
<1>15. ProgramOk(c)
  <2>1. Leaves(c, 1) = {} /\ \A p : Leaves(c, p) = {}
    BY DEF Leaves
  <2>2. \A p \in DOMAIN P : StepOk(c, 1, P[p])
    BY <1>10 DEF Steps, P
  <2>3. ASSUME NEW p \in DOMAIN P PROVE StepOk(c, p, P[p])
    BY <2>1, <2>2 DEF StepOk
  <2>4. IsSeq(P) /\ Len(P) > 0
    BY <1>8, <1>10, <1>12 DEF Steps, P
  <2> QED BY <1>11, <2>3, <2>4 DEF ProgramOk
<1>16. d + 1 + n + 1 > 1 /\ (d + 1 + n + 1) - 1 = d + 1 + n
  BY <1>8, <1>12
<1> QED BY <1>11, <1>13, <1>14, <1>15, <1>16

\* Moving is a gesture of one operation.
LEMMA MoveIsGesture ==
  ASSUME NEW p, NEW K
  PROVE  IsGesture(<< <<MoveTo(p)>> >>, K)
BY OneOperation, OneBatch, Fields

\* The steps of every command are as they should be.
LEMMA ProgramsOk ==
  ASSUME NEW c \in Commands
  PROVE  ProgramOk(c)
<1>1. CASE c.do \in {"type", "utype"}
  <2> DEFINE g == IF c.do = "type" THEN TypeText(c.text) ELSE TypeUnicode(c.text)
  <2>1. Program(c) = <<GeneratingPumped(g), Waiting>>
    BY <1>1 DEF Program, Typing
  <2>2. IsSeq(c.text)
    BY <1>1, CommandTypes
  <2>3. IsGesture(g, Leaves(c, 1)) /\ Still(g)
    BY <2>2, TextIsGesture, UnicodeIsGesture
  <2> HIDE DEF g
  <2>4. StepOk(c, 1, GeneratingPumped(g))
    BY <1>1, <2>3, PumpedOk
  <2> QED BY <2>1, <2>4, ThenWaitOk DEF ProgramOk
<1>2. CASE c.do = "key"
  BY <1>2, KeyOk
<1>3. CASE c.do = "keydown"
  <2> DEFINE op == Press(ParseKeySpec(c.spec).key)
  <2>1. Program(c) = <<Generating(<< <<op>> >>)>>
    BY <1>3 DEF Program
  <2>2. op.do = "press" /\ op.on \in Leaves(c, 1)
    BY <1>3, Fields DEF Leaves
  <2> HIDE DEF op
  <2>3. IsGesture(<< <<op>> >>, Leaves(c, 1))
    BY <2>2, OneOperation, OneBatch
  <2>4. StepOk(c, 1, Generating(<< <<op>> >>))
    BY <2>3, GeneratingOk
  <2> QED BY <2>1, <2>4, AloneOk DEF ProgramOk
<1>4. CASE c.do = "keyup"
  <2> DEFINE op == Release(ParseKeySpec(c.spec).key)
  <2>1. Program(c) = <<Generating(<< <<op>> >>)>>
    BY <1>4 DEF Program
  <2>2. op.do = "release"
    BY Fields
  <2> HIDE DEF op
  <2>3. IsGesture(<< <<op>> >>, Leaves(c, 1))
    BY <2>2, OneOperation, OneBatch
  <2>4. StepOk(c, 1, Generating(<< <<op>> >>))
    BY <2>3, GeneratingOk
  <2> QED BY <2>1, <2>4, AloneOk DEF ProgramOk
<1>5. CASE c.do = "move"
  <2> DEFINE g == << <<MoveTo(Target(c.to))>> >>
  <2>1. Program(c) = <<Generating(g)>>
    BY <1>5 DEF Program
  <2>2. IsGesture(g, Leaves(c, 1))
    BY MoveIsGesture
  <2> HIDE DEF g
  <2>3. StepOk(c, 1, Generating(g))
    BY <2>2, GeneratingOk
  <2> QED BY <2>1, <2>3, AloneOk DEF ProgramOk
<1>6. CASE c.do = "mouse-hide"
  <2> DEFINE g == << <<MoveTo(MaxU16)>> >>
  <2>1. Program(c) = <<Generating(g), Waiting>>
    BY <1>6 DEF Program
  <2>2. IsGesture(g, Leaves(c, 1))
    BY MoveIsGesture
  <2> HIDE DEF g
  <2>3. StepOk(c, 1, Generating(g))
    BY <2>2, GeneratingOk
  <2> QED BY <2>1, <2>3, ThenWaitOk DEF ProgramOk
<1>7. CASE c.do \in {"click", "doubleclick"}
  <2> DEFINE g == << <<MoveTo(Target(c.to))>> >>
             B == IF c.do = "click" THEN MouseClick(c.button) ELSE MouseClick("left") \o MouseClick("left")
  <2>1. Program(c) = <<Generating(g), Generating(<<B>>), Waiting>>
    BY <1>7 DEF Program, ClickSteps
  <2>2. IsGesture(g, Leaves(c, 1))
    BY MoveIsGesture
  <2>3. IsGesture(<<B>>, Leaves(c, 2))
    BY ClickIsBatch, DoubleIsBatch, OneBatch
  <2> HIDE DEF g, B
  <2>4. StepOk(c, 1, Generating(g)) /\ StepOk(c, 2, Generating(<<B>>))
    BY <2>2, <2>3, GeneratingOk
  <2> QED BY <2>1, <2>4, TwiceOk DEF ProgramOk
<1>8. CASE c.do = "drag"
  <2> DEFINE g == MouseDrag(Target(c.from), Target(c.to))
  <2>1. Program(c) = <<Generating(g), Waiting>>
    BY <1>8 DEF Program, DragSteps
  <2> HIDE DEF g
  <2>2. StepOk(c, 1, Generating(g))
    BY <1>8, GeneratingOk
  <2> QED BY <2>1, <2>2, ThenWaitOk DEF ProgramOk
<1>9. CASE c.do = "scroll"
  <2> DEFINE g == Scroll(c.direction, c.notches)
  <2>1. Program(c) = <<Generating(g), Waiting>>
    BY <1>9 DEF Program
  <2>2. IsGesture(g, Leaves(c, 1))
    BY <1>9, CommandTypes, ScrollIsGesture
  <2> HIDE DEF g
  <2>3. StepOk(c, 1, Generating(g))
    BY <2>2, GeneratingOk
  <2> QED BY <2>1, <2>3, ThenWaitOk DEF ProgramOk
<1>10. CASE c.do = "calibrate"
  BY <1>10, GridOk
<1> QED BY <1>1, <1>2, <1>3, <1>4, <1>5, <1>6, <1>7, <1>8, <1>9, <1>10, CommandTypes

\* A drag has one gesture.
LEMMA DragProgram ==
  ASSUME NEW c, c.do = "drag"
  PROVE  /\ Len(Program(c)) = 2 /\ Program(c)[2].step = "wait"
         /\ Program(c)[1].step = "generate" /\ ~Program(c)[1].pumped
         /\ Program(c)[1].gesture = MouseDrag(Target(c.from), Target(c.to))
<1> DEFINE g == MouseDrag(Target(c.from), Target(c.to))
<1>1. Program(c) = <<Generating(g), Waiting>>
  BY DEF Program, DragSteps
<1> HIDE DEF g
<1>2. /\ Generating(g).step = "generate" /\ Generating(g).gesture = g /\ Generating(g).pumped = FALSE
      /\ Waiting.step = "wait"
  BY StepFields
<1> QED BY <1>1, <1>2, Pair DEF g

\* The program of a command stays as it is while the offset does.
LEMMA SameProgram ==
  ASSUME NEW c, cmd' = c, offset' = offset
  PROVE  Program(cmd)' = Program(c)
BY DEF Program, ClickSteps, DragSteps, Target

\* The batch that operations are taken from.
LEMMA BatchFacts ==
  ASSUME NEW c \in Commands, NEW p \in DOMAIN Program(c), Program(c)[p].step = "generate",
         NEW b \in Nat \ {0}, b <= Len(Program(c)[p].gesture)
  PROVE  LET g == Program(c)[p].gesture
         IN  /\ IsSeq(g) /\ b \in DOMAIN g /\ IsSeq(g[b])
             /\ c.do # "drag" => IsBatch(g[b], Leaves(c, p)) /\ Clicking(g[b])
             /\ c.do = "drag" => p = 1 /\ b \in 1..4
             /\ \A o \in DOMAIN g[b] : g[b][o].do \in Operations
<1> DEFINE g == Program(c)[p].gesture
<1>1. ProgramOk(c)
  BY ProgramsOk
<1>2. CASE c.do # "drag"
  <2>1. IsGesture(g, Leaves(c, p))
    BY <1>1, <1>2 DEF ProgramOk, StepOk
  <2>2. IsSeq(g) /\ b \in DOMAIN g
    <3>1. IsSeq(g)
      BY <2>1 DEF IsGesture
    <3> HIDE DEF g
    <3>2. DOMAIN g = 1..Len(g) /\ Len(g) \in Nat
      BY <3>1, SeqFacts
    <3> QED BY <3>1, <3>2 DEF g
  <2> HIDE DEF g
  <2>3. IsBatch(g[b], Leaves(c, p)) /\ Clicking(g[b])
    BY <2>1, <2>2 DEF IsGesture
  <2>4. IsSeq(g[b]) /\ \A o \in DOMAIN g[b] : g[b][o].do \in Operations
    BY <2>3 DEF IsBatch
  <2> QED BY <1>2, <2>2, <2>3, <2>4 DEF g
<1>3. CASE c.do = "drag"
  <2> DEFINE q == Target(c.from)
             r == Target(c.to)
  <2>1. /\ Len(Program(c)) = 2 /\ Program(c)[2].step = "wait"
        /\ Program(c)[1].gesture = MouseDrag(q, r)
    BY <1>3, DragProgram
  <2>2. p \in {1, 2}
    <3>1. IsSeq(Program(c))
      BY <1>1 DEF ProgramOk
    <3>2. DOMAIN Program(c) = 1..2
      BY <2>1, <3>1, SeqFacts
    <3> QED BY <3>2
  <2>3. p = 1 /\ g = MouseDrag(q, r)
    BY <2>1, <2>2
  <2> HIDE DEF g, q, r
  <2>4. /\ IsSeq(g) /\ Len(g) = 4 /\ DOMAIN g = 1..4
        /\ g[1] = <<MoveTo(q)>> /\ g[2] = <<Push("left")>>
        /\ g[3] = <<MoveTo(r)>> /\ g[4] = <<LetGo("left")>>
    BY <2>3, DragShape
  <2>5. b \in 1..4 /\ b \in {1, 2, 3, 4}
    BY <2>4 DEF g
  <2>6. \A x : IsSeq(<<x>>) /\ DOMAIN <<x>> = 1..1 /\ <<x>>[1] = x
    BY Single
  <2>7. \A o \in 1..1 : o = 1
    OBVIOUS
  <2>8. IsSeq(g[b]) /\ \A o \in DOMAIN g[b] : g[b][o].do \in Operations
    <3>1. PICK x : g[b] = <<x>> /\ x.do \in Operations
      BY <2>4, <2>5, Fields DEF Operations
    <3> QED BY <3>1, <2>6, <2>7
  <2> QED BY <1>3, <2>3, <2>4, <2>5, <2>8 DEF g
<1> QED BY <1>2, <1>3

\* A batch that is not empty has a first operation.
LEMMA FirstFits ==
  ASSUME NEW c \in Commands, NEW p \in DOMAIN Program(c), Program(c)[p].step = "generate",
         NEW b \in Nat \ {0}, b <= Len(Program(c)[p].gesture), Program(c)[p].gesture[b] # <<>>
  PROVE  1 \in DOMAIN Program(c)[p].gesture[b]
<1> DEFINE B == Program(c)[p].gesture[b]
<1>1. IsSeq(B)
  BY BatchFacts
<1> HIDE DEF B
<1>2. B # <<>>
  BY DEF B
<1>3. Len(B) \in Nat /\ DOMAIN B = 1..Len(B) /\ Len(B) # 0
  BY <1>1, <1>2, SeqFacts
<1>4. 1 \in DOMAIN B
  BY <1>3
<1> QED BY <1>4 DEF B

------------------------------------------------------------------------------
(* Types. *)

IsPicture(s) == s = [keys |-> s.keys, buttons |-> s.buttons, at |-> s.at]

Fits ==
    phase # "idle" /\ pos \in DOMAIN Program(cmd) /\ Here.step = "generate"
      /\ next.batch <= Len(Here.gesture)
      => IF Batch = <<>> THEN next.op = 1 ELSE next.op \in DOMAIN Batch

TypeOK ==
    /\ up \in BOOLEAN /\ phase \in {"idle", "step", "pump"}
    /\ phase # "idle" => cmd \in Commands
    /\ pos \in Nat \ {0} /\ next \in [batch : Nat \ {0}, op : Nat \ {0}]
    /\ IsSeq(made) /\ sent \in 0..Len(made)
    /\ \A i \in 1..Len(made) : made[i] = End \/ made[i].do \in Operations
    /\ IsSeq(log) /\ (up => Len(log) = sent)
    /\ IsPicture(db) /\ IsPicture(srv)
    /\ ghost = [before |-> ghost.before, kept |-> ghost.kept, stranded |-> ghost.stranded]
    /\ Fits

\* At first the types are right.
LEMMA TypeInit == Init => TypeOK
<1> SUFFICES ASSUME Init PROVE TypeOK
  OBVIOUS
<1>1. /\ up = TRUE /\ phase = "idle" /\ pos = 1 /\ next = First /\ made = <<>> /\ sent = 0 /\ log = <<>>
      /\ db = Untouched(0) /\ srv = Untouched(Unknown)
      /\ ghost = [before |-> {}, kept |-> {}, stranded |-> {}]
  BY DEF Init
<1>2. IsSeq(made) /\ Len(made) = 0 /\ IsSeq(log) /\ Len(log) = 0
  BY <1>1, Nothing
<1>3. Fits
  BY <1>1 DEF Fits
<1>4. IsPicture(db) /\ IsPicture(srv)
  BY <1>1 DEF IsPicture, Untouched
<1>5. next \in [batch : Nat \ {0}, op : Nat \ {0}]
  BY <1>1 DEF First
<1>6. sent \in 0..Len(made) /\ Len(log) = sent
  BY <1>1, <1>2
<1> QED BY <1>1, <1>2, <1>3, <1>4, <1>5, <1>6 DEF TypeOK

\* What the library makes of an operation.
LEMMA EventsFacts ==
  ASSUME NEW s, NEW op, op.do \in Operations
  PROVE  /\ op.do = "press" => Events(s, op) = IF op.on \in s.keys THEN <<Release(op.on), op>> ELSE <<op>>
         /\ op.do = "release" => Events(s, op) = IF op.on \in s.keys THEN <<op>> ELSE <<>>
         /\ op.do = "push" => Events(s, op) = IF op.on \in s.buttons THEN <<>> ELSE <<op>>
         /\ op.do = "let" => Events(s, op) = IF op.on \in s.buttons THEN <<op>> ELSE <<>>
         /\ op.do = "move" => Events(s, op) = IF op.on = s.at THEN <<>> ELSE <<op>>
         /\ op.do = "turn" => Events(s, op) = <<op>>
<1>1. op.do = "press" => Events(s, op) = IF op.on \in s.keys THEN <<Release(op.on), op>> ELSE <<op>>
  BY DEF Events
<1>2. op.do = "release" => Events(s, op) = IF op.on \in s.keys THEN <<op>> ELSE <<>>
  BY DEF Events
<1>3. op.do = "push" => Events(s, op) = IF op.on \in s.buttons THEN <<>> ELSE <<op>>
  BY DEF Events
<1>4. op.do = "let" => Events(s, op) = IF op.on \in s.buttons THEN <<op>> ELSE <<>>
  BY DEF Events
<1>5. op.do = "move" => Events(s, op) = IF op.on = s.at THEN <<>> ELSE <<op>>
  BY DEF Events
<1>6. op.do = "turn" => Events(s, op) = <<op>>
  BY DEF Events
<1> QED BY <1>1, <1>2, <1>3, <1>4, <1>5, <1>6

\* A step whose operations are being applied.
LEMMA MakingFacts ==
  ASSUME TypeOK, Making
  PROVE  /\ phase = "step" /\ cmd \in Commands
         /\ pos \in DOMAIN Program(cmd) /\ Program(cmd)[pos].step = "generate"
         /\ Here = Program(cmd)[pos]
         /\ next.batch \in Nat \ {0} /\ next.batch <= Len(Here.gesture)
         /\ IsSeq(Here.gesture) /\ next.batch \in DOMAIN Here.gesture
         /\ IsSeq(Batch) /\ \A o \in DOMAIN Batch : Batch[o].do \in Operations
         /\ cmd.do # "drag" => IsBatch(Batch, Leaves(cmd, pos)) /\ Clicking(Batch)
         /\ cmd.do = "drag" => pos = 1 /\ next.batch \in 1..4
<1>1. /\ phase = "step" /\ cmd \in Commands
      /\ pos \in DOMAIN Program(cmd) /\ Program(cmd)[pos].step = "generate"
      /\ Here = Program(cmd)[pos]
      /\ next.batch \in Nat \ {0} /\ next.batch <= Len(Here.gesture)
  BY DEF TypeOK, Making, AtStep, Here
<1>2. Batch = Program(cmd)[pos].gesture[next.batch]
  BY DEF Batch, Here
<1> QED BY <1>1, <1>2, BatchFacts

\* What a step of Generate adds.
LEMMA GenerateFacts ==
  ASSUME TypeOK, Generate
  PROVE  LET op  == Batch[next.op]
             new == Events(db, op)
             m   == Len(made)
             n   == m + Len(new)
         IN  /\ Making /\ op.do \in Operations /\ next.op \in DOMAIN Batch
             /\ IsSeq(made') /\ m \in Nat /\ Len(new) \in 0..2 /\ IsSeq(new) /\ DOMAIN new = 1..Len(new)
             /\ Len(made') = IF LastOfBatch THEN n + 1 ELSE n
             /\ \A i \in 1..m : made'[i] = made[i]
             /\ \A j \in 1..Len(new) : made'[m + j] = Event(new[j])
             /\ LastOfBatch => made'[n + 1] = End
<1> DEFINE op  == Batch[next.op]
           new == Events(db, op)
           u   == [i \in DOMAIN new |-> Event(new[i])]
           e   == IF LastOfBatch THEN <<End>> ELSE <<>>
<1>1. Making /\ op.do \in Operations /\ next.op \in DOMAIN Batch
  <2>1. Making /\ Batch # <<>>
    BY DEF Generate
  <2>2. next.op \in DOMAIN Batch
    BY <2>1, MakingFacts DEF TypeOK, Fits
  <2> QED BY <2>1, <2>2, MakingFacts
<1>2. made' = made \o (u \o e)
  BY DEF Generate, Added
<1>3. IsSeq(made)
  BY DEF TypeOK
<1> HIDE DEF op
<1>4. IsSeq(new) /\ Len(new) \in 0..2
  <2>1. new \in {<<>>, <<op>>, <<Release(op.on), op>>}
    BY <1>1, EventsFacts DEF Operations
  <2> HIDE DEF new
  <2>2. CASE new = <<>>
    BY <2>2, Nothing
  <2>3. CASE new = <<op>>
    BY <2>3, Single
  <2>4. CASE new = <<Release(op.on), op>>
    BY <2>4, Pair
  <2> QED BY <2>1, <2>2, <2>3, <2>4
<1> HIDE DEF new
<1>5. DOMAIN new = 1..Len(new)
  BY <1>4, SeqFacts
<1>6. IsSeq(u) /\ Len(u) = Len(new) /\ \A j \in 1..Len(new) : u[j] = Event(new[j])
  <2>1. u = [i \in 1..Len(new) |-> u[i]] /\ \A j \in 1..Len(new) : u[j] = Event(new[j])
    BY <1>5
  <2>2. Len(new) \in Nat
    BY <1>4
  <2> HIDE DEF u
  <2> QED BY <2>1, <2>2, DomainIsSeq
<1>7. IsSeq(e) /\ Len(e) = (IF LastOfBatch THEN 1 ELSE 0) /\ (LastOfBatch => e[1] = End)
  BY Single, Nothing
<1> HIDE DEF u, e
<1>8. /\ IsSeq(u \o e) /\ Len(u \o e) = Len(u) + Len(e)
      /\ \A i \in 1..Len(u) : (u \o e)[i] = u[i]
      /\ \A i \in 1..Len(e) : (u \o e)[Len(u) + i] = e[i]
  <2>1. IsSeq(u) /\ IsSeq(e)
    BY <1>6, <1>7
  <2> QED BY <2>1, Joined, SMT
<1> DEFINE t == u \o e
<1> HIDE DEF t
<1>9. /\ IsSeq(made \o t) /\ Len(made \o t) = Len(made) + Len(t)
      /\ \A i \in 1..Len(made) : (made \o t)[i] = made[i]
      /\ \A i \in 1..Len(t) : (made \o t)[Len(made) + i] = t[i]
  <2>1. IsSeq(made) /\ IsSeq(t)
    BY <1>3, <1>8 DEF t
  <2> QED BY <2>1, Joined, SMT
<1>10. Len(made) \in Nat
  BY <1>3, SeqFacts
<1>11. made' = made \o t
  BY <1>2 DEF t
<1>12. Len(t) = IF LastOfBatch THEN Len(new) + 1 ELSE Len(new)
  BY <1>4, <1>6, <1>7, <1>8 DEF t
<1>13. ASSUME NEW j \in 1..Len(new) PROVE made'[Len(made) + j] = Event(new[j])
  <2>1. j \in 1..Len(u) /\ j \in 1..Len(t)
    BY <1>4, <1>6, <1>12
  <2> QED BY <1>6, <1>8, <1>9, <1>11, <2>1 DEF t
<1>14. ASSUME LastOfBatch PROVE made'[Len(made) + Len(new) + 1] = End
  <2>1. Len(u) + 1 \in 1..Len(t) /\ 1 \in 1..Len(e) /\ Len(made) + (Len(u) + 1) = Len(made) + Len(new) + 1
    BY <1>4, <1>6, <1>7, <1>10, <1>12, <1>14
  <2>2. t[Len(u) + 1] = End
    BY <1>7, <1>8, <1>14, <2>1 DEF t
  <2>3. made'[Len(made) + (Len(u) + 1)] = t[Len(u) + 1]
    BY <1>9, <1>11, <2>1
  <2> QED BY <2>1, <2>2, <2>3
<1>15. Len(made') = IF LastOfBatch THEN Len(made) + Len(new) + 1 ELSE Len(made) + Len(new)
  BY <1>4, <1>9, <1>10, <1>11, <1>12
<1> QED BY <1>1, <1>4, <1>5, <1>9, <1>10, <1>11, <1>13, <1>14, <1>15 DEF op, new

\* What is at hand stays there while a step goes on, and is there when one starts.
LEMMA FitsStays ==
  ASSUME TypeOK, phase # "idle", cmd' = cmd, offset' = offset, UNCHANGED progress
  PROVE  Fits'
<1>1. Program(cmd)' = Program(cmd)
  BY SameProgram
<1> QED BY <1>1 DEF TypeOK, Fits, Here, Batch, progress

LEMMA FitsFirst ==
  ASSUME NEW c \in Commands, cmd' = c, offset' = offset, next' = First
  PROVE  Fits'
<1>1. Program(cmd)' = Program(c)
  BY SameProgram
<1> SUFFICES ASSUME pos' \in DOMAIN Program(c), Program(c)[pos'].step = "generate",
                    1 <= Len(Program(c)[pos'].gesture), Program(c)[pos'].gesture[1] # <<>>
             PROVE  1 \in DOMAIN Program(c)[pos'].gesture[1]
  BY <1>1 DEF Fits, Here, Batch, First
<1> QED BY FirstFits

\* An operation makes a picture of a picture, field by field.
LEMMA PicturesStay ==
  ASSUME NEW s, IsPicture(s), NEW op, op.do \in Operations
  PROVE  IsPicture(After(s, op))
         /\ After(s, op).keys = (IF op.do = "press" THEN s.keys \cup {op.on}
                                 ELSE IF op.do = "release" THEN s.keys \ {op.on} ELSE s.keys)
         /\ After(s, op).buttons = (IF op.do = "push" THEN s.buttons \cup {op.on}
                                    ELSE IF op.do = "let" THEN s.buttons \ {op.on} ELSE s.buttons)
         /\ After(s, op).at = (IF op.do = "move" THEN op.on ELSE s.at)
<1> DEFINE k == s.keys
           b == s.buttons
           p == s.at
<1>1. s = [keys |-> k, buttons |-> b, at |-> p]
  BY DEF IsPicture
<1> HIDE DEF k, b, p
<1>2. CASE op.do = "press"
  <2>1. After(s, op) = [s EXCEPT !.keys = @ \cup {op.on}]
    BY <1>2 DEF After
  <2>2. After(s, op) = [keys |-> k \cup {op.on}, buttons |-> b, at |-> p]
    BY <1>1, <2>1
  <2> QED BY <1>1, <1>2, <2>2 DEF IsPicture
<1>3. CASE op.do = "release"
  <2>1. After(s, op) = [s EXCEPT !.keys = @ \ {op.on}]
    BY <1>3 DEF After
  <2>2. After(s, op) = [keys |-> k \ {op.on}, buttons |-> b, at |-> p]
    BY <1>1, <2>1
  <2> QED BY <1>1, <1>3, <2>2 DEF IsPicture
<1>4. CASE op.do = "push"
  <2>1. After(s, op) = [s EXCEPT !.buttons = @ \cup {op.on}]
    BY <1>4 DEF After
  <2>2. After(s, op) = [keys |-> k, buttons |-> b \cup {op.on}, at |-> p]
    BY <1>1, <2>1
  <2> QED BY <1>1, <1>4, <2>2 DEF IsPicture
<1>5. CASE op.do = "let"
  <2>1. After(s, op) = [s EXCEPT !.buttons = @ \ {op.on}]
    BY <1>5 DEF After
  <2>2. After(s, op) = [keys |-> k, buttons |-> b \ {op.on}, at |-> p]
    BY <1>1, <2>1
  <2> QED BY <1>1, <1>5, <2>2 DEF IsPicture
<1>6. CASE op.do = "move"
  <2>1. After(s, op) = [s EXCEPT !.at = op.on]
    BY <1>6 DEF After
  <2>2. After(s, op) = [keys |-> k, buttons |-> b, at |-> op.on]
    BY <1>1, <2>1
  <2> QED BY <1>1, <1>6, <2>2 DEF IsPicture
<1>7. CASE op.do = "turn"
  <2>1. After(s, op) = s
    BY <1>7 DEF After
  <2> QED BY <1>7, <2>1
<1> QED BY <1>2, <1>3, <1>4, <1>5, <1>6, <1>7 DEF Operations

\* The types stay right while events are made,
LEMMA GenerateTypes == TypeOK /\ Generate => TypeOK'
<1> SUFFICES ASSUME TypeOK, Generate PROVE TypeOK'
  OBVIOUS
<1> DEFINE op  == Batch[next.op]
           new == Events(db, op)
           m   == Len(made)
           n   == m + Len(new)
<1>1. /\ Making /\ op.do \in Operations /\ next.op \in DOMAIN Batch
      /\ IsSeq(made') /\ m \in Nat /\ Len(new) \in 0..2
      /\ Len(made') = IF LastOfBatch THEN n + 1 ELSE n
      /\ \A i \in 1..m : made'[i] = made[i]
      /\ \A j \in 1..Len(new) : made'[m + j] = Event(new[j])
      /\ LastOfBatch => made'[n + 1] = End
  BY GenerateFacts
<1>2. /\ db' = After(db, op) /\ UNCHANGED <<srv, up, offset, cmd, pos, sent, phase, log, ghost>>
      /\ next' = IF LastOfBatch THEN [batch |-> next.batch + 1, op |-> 1] ELSE [next EXCEPT !.op = @ + 1]
  BY DEF Generate, FollowingBatch
<1>3. \A j \in 1..Len(new) : new[j].do \in Operations
  <2>1. new \in {<<>>, <<op>>, <<Release(op.on), op>>}
    BY <1>1, EventsFacts DEF Operations
  <2>2. Release(op.on).do \in Operations
    BY Fields DEF Operations
  <2> HIDE DEF op, new
  <2>3. \A x, y : /\ Len(<<>>) = 0 /\ Len(<<x>>) = 1 /\ Len(<<x, y>>) = 2
                  /\ <<x>>[1] = x /\ <<x, y>>[1] = x /\ <<x, y>>[2] = y
    OBVIOUS
  <2>4. \A j \in 1..1 : j = 1
    OBVIOUS
  <2>5. \A j \in 1..2 : j \in {1, 2}
    OBVIOUS
  <2>6. CASE new = <<>>
    BY <2>6, <2>3
  <2>7. CASE new = <<op>>
    BY <1>1, <2>3, <2>4, <2>7
  <2>8. CASE new = <<Release(op.on), op>>
    BY <1>1, <2>2, <2>3, <2>5, <2>8
  <2> QED BY <2>1, <2>6, <2>7, <2>8
<1> HIDE DEF op, new
<1>4. ASSUME NEW i \in 1..Len(made') PROVE made'[i] = End \/ made'[i].do \in Operations
  <2>1. CASE i \in 1..m
    BY <1>1, <2>1 DEF TypeOK
  <2>2. CASE i \in (m + 1)..n
    <3>1. i - m \in 1..Len(new) /\ i = m + (i - m)
      BY <1>1, <2>2
    <3>2. made'[i] = Event(new[i - m])
      BY <1>1, <3>1
    <3> QED BY <1>3, <3>1, <3>2 DEF Event
  <2>3. CASE i = n + 1 /\ LastOfBatch
    BY <1>1, <2>3
  <2> QED BY <1>1, <2>1, <2>2, <2>3
<1>5. IsPicture(db') 
  BY <1>1, <1>2, PicturesStay DEF TypeOK
<1>6. next' \in [batch : Nat \ {0}, op : Nat \ {0}]
  BY <1>2 DEF TypeOK
<1>7. sent' \in 0..Len(made')
  BY <1>1, <1>2 DEF TypeOK
<1>8. Fits'
  <2>1. /\ cmd \in Commands /\ pos \in DOMAIN Program(cmd) /\ Program(cmd)[pos].step = "generate"
        /\ Here = Program(cmd)[pos] /\ IsSeq(Batch)
    BY <1>1, MakingFacts
  <2>2. Program(cmd)' = Program(cmd)
    BY <1>2, SameProgram
  <2>3. Here' = Here
    BY <1>2, <2>2 DEF Here
  <2>4. CASE LastOfBatch
    <3>1. next'.batch \in Nat \ {0} /\ next'.op = 1
      BY <1>2, <1>6, <2>4
    <3> SUFFICES ASSUME next'.batch <= Len(Here.gesture), Batch' # <<>>
                 PROVE  1 \in DOMAIN Batch'
      BY <2>3, <3>1 DEF Fits
    <3>2. Batch' = Program(cmd)[pos].gesture[next'.batch]
      BY <2>1, <2>3 DEF Batch
    <3> QED BY <2>1, <3>1, <3>2, FirstFits
  <2>5. CASE ~LastOfBatch
    <3>1. next'.batch = next.batch /\ next'.op = next.op + 1
      BY <1>2, <2>5 DEF TypeOK
    <3>2. Batch' = Batch
      BY <2>3, <3>1 DEF Batch
    <3>3. DOMAIN Batch = 1..Len(Batch) /\ Len(Batch) \in Nat /\ next.op # Len(Batch)
      BY <2>1, <2>5, SeqFacts DEF LastOfBatch
    <3>4. next.op + 1 \in DOMAIN Batch
      BY <1>1, <3>3
    <3> QED BY <3>1, <3>2, <3>4 DEF Fits
  <2> QED BY <2>4, <2>5
<1> QED BY <1>1, <1>2, <1>4, <1>5, <1>6, <1>7, <1>8 DEF TypeOK, IsPicture

\* when a command fails,
LEMMA FailTypes ==
  ASSUME TypeOK, Fail, UNCHANGED up, phase # "idle"
  PROVE  TypeOK'
<1>1. /\ phase' = "idle" /\ made' = SubSeq(made, 1, sent)
      /\ UNCHANGED <<db, srv, offset, cmd, pos, next, sent, log, up>>
      /\ ghost' = [ghost EXCEPT
           !.kept = IF cmd.do = "key" THEN @ \cup (srv.keys \cap HeldKeys(cmd)) ELSE @,
           !.stranded = @ \cup Unsent("release")]
  BY DEF Fail, progress
<1>2. /\ IsSeq(made') /\ Len(made') = sent /\ \A i \in 1..sent : made'[i] = made[i]
  BY <1>1, CutShort DEF TypeOK
<1>3. \A i \in 1..Len(made') : made'[i] = End \/ made'[i].do \in Operations
  <2>1. \A i \in 1..sent : i \in 1..Len(made)
    BY DEF TypeOK
  <2> QED BY <1>2, <2>1 DEF TypeOK
<1>4. ghost' = [before |-> ghost'.before, kept |-> ghost'.kept, stranded |-> ghost'.stranded]
  <2> DEFINE b == ghost.before
             k == ghost.kept
             s == ghost.stranded
             x == IF cmd.do = "key" THEN k \cup (srv.keys \cap HeldKeys(cmd)) ELSE k
             y == s \cup Unsent("release")
  <2>1. ghost = [before |-> b, kept |-> k, stranded |-> s]
    BY DEF TypeOK
  <2>2. ghost' = [ghost EXCEPT !.kept = x, !.stranded = y]
    BY <1>1
  <2> HIDE DEF b, k, s, x, y
  <2>3. ghost' = [before |-> b, kept |-> x, stranded |-> y]
    BY <2>1, <2>2
  <2> QED BY <2>3
<1>5. sent' \in 0..Len(made')
  BY <1>1, <1>2 DEF TypeOK
<1> QED BY <1>1, <1>2, <1>3, <1>4, <1>5 DEF TypeOK, IsPicture, Fits

\* The next event gets there.
LEMMA ArrivesFacts ==
  ASSUME TypeOK, Sending, Upcoming # End, Arrives(Upcoming)
  PROVE  LET e == made[sent + 1]
         IN  /\ Upcoming = e /\ sent + 1 \in 1..Len(made) /\ e.do \in Operations
             /\ srv' = After(srv, e) /\ IsPicture(srv')
             /\ ghost' = [before   |-> ghost.before,
                          kept     |-> IF e.do = "press" /\ cmd.do = "keydown" THEN ghost.kept \cup {e.on}
                                       ELSE IF e.do = "release" THEN ghost.kept \ {e.on} ELSE ghost.kept,
                          stranded |-> IF e.do = "release" THEN ghost.stranded \ {e.on} ELSE ghost.stranded]
             /\ IsSeq(log') /\ Len(log') = Len(log) + 1
             /\ \A i \in 1..Len(log) : log'[i] = log[i]
             /\ log'[Len(log) + 1] = [under |-> srv.keys, at |-> srv.at]
<1> DEFINE e == made[sent + 1]
<1>1. Len(made) \in Nat /\ sent \in Nat /\ sent # Len(made) /\ sent <= Len(made)
  BY SeqFacts DEF TypeOK, Sending, AllSent
<1>2. Upcoming = e /\ sent + 1 \in 1..Len(made)
  BY <1>1 DEF Upcoming
<1>3. e.do \in Operations
  BY <1>2 DEF TypeOK
<1>4. /\ srv' = After(srv, e)
      /\ log' = Append(log, [under |-> srv.keys, at |-> srv.at])
      /\ ghost' = Ghosts(e)
  BY <1>2 DEF Arrives
<1> HIDE DEF e
<1>5. IsPicture(srv')
  <2>1. IsPicture(srv)
    BY DEF TypeOK
  <2>2. IsPicture(After(srv, e))
    BY <1>3, <2>1, PicturesStay
  <2> QED BY <1>4, <2>2
<1>6. ghost' = [before   |-> ghost.before,
                kept     |-> IF e.do = "press" /\ cmd.do = "keydown" THEN ghost.kept \cup {e.on}
                             ELSE IF e.do = "release" THEN ghost.kept \ {e.on} ELSE ghost.kept,
                stranded |-> IF e.do = "release" THEN ghost.stranded \ {e.on} ELSE ghost.stranded]
  <2> DEFINE b == ghost.before
             k == ghost.kept
             s == ghost.stranded
  <2>1. ghost = [before |-> b, kept |-> k, stranded |-> s]
    BY DEF TypeOK
  <2> HIDE DEF b, k, s
  <2>2. CASE e.do = "press" /\ cmd.do = "keydown"
    <3>1. ghost' = [ghost EXCEPT !.kept = @ \cup {e.on}]
      BY <1>4, <2>2 DEF Ghosts
    <3>2. ghost' = [before |-> b, kept |-> k \cup {e.on}, stranded |-> s]
      BY <2>1, <3>1
    <3> QED BY <2>2, <3>2 DEF b, k, s
  <2>3. CASE e.do = "release"
    <3>1. ghost' = [ghost EXCEPT !.kept = @ \ {e.on}, !.stranded = @ \ {e.on}]
      BY <1>4, <2>3 DEF Ghosts
    <3>2. ghost' = [before |-> b, kept |-> k \ {e.on}, stranded |-> s \ {e.on}]
      BY <2>1, <3>1
    <3> QED BY <2>3, <3>2 DEF b, k, s
  <2>4. CASE ~(e.do = "press" /\ cmd.do = "keydown") /\ e.do # "release"
    <3>1. ghost' = ghost
      BY <1>4, <2>4 DEF Ghosts
    <3> QED BY <2>1, <2>4, <3>1 DEF b, k, s
  <2> QED BY <2>2, <2>3, <2>4
<1>7. /\ IsSeq(log') /\ Len(log') = Len(log) + 1
      /\ \A i \in 1..Len(log) : log'[i] = log[i]
      /\ log'[Len(log) + 1] = [under |-> srv.keys, at |-> srv.at]
  <2>1. IsSeq(log)
    BY DEF TypeOK
  <2> QED BY <1>4, <2>1, Appended
<1> QED BY <1>2, <1>3, <1>4, <1>5, <1>6, <1>7 DEF e

\* when an event is sent,
LEMMA SendTypes == TypeOK /\ Send => TypeOK'
<1> SUFFICES ASSUME TypeOK, Send PROVE TypeOK'
  OBVIOUS
<1>1. /\ Sending /\ Upcoming # End /\ sent' = sent + 1
      /\ UNCHANGED <<db, up, offset, cmd, pos, next, made, phase>>
      /\ IF up THEN Arrives(Upcoming) ELSE UNCHANGED <<srv, log, ghost>>
  BY DEF Send, progress
<1>2. phase # "idle"
  BY <1>1 DEF Sending, Made, AtStep
<1>3. Fits'
  BY <1>1, <1>2, FitsStays DEF progress
<1>4. sent' \in 0..Len(made')
  BY <1>1, SeqFacts DEF TypeOK, Sending, AllSent
<1>5. CASE up
  <2>1. IsPicture(srv') /\ IsSeq(log') /\ Len(log') = Len(log) + 1
        /\ ghost' = [before |-> ghost'.before, kept |-> ghost'.kept, stranded |-> ghost'.stranded]
    BY <1>1, <1>5, ArrivesFacts
  <2>2. Len(log') = sent'
    BY <1>1, <1>5, <2>1 DEF TypeOK
  <2> QED BY <1>1, <1>3, <1>4, <2>1, <2>2 DEF TypeOK, IsPicture
<1>6. CASE ~up
  BY <1>1, <1>3, <1>4, <1>6 DEF TypeOK, IsPicture
<1> QED BY <1>5, <1>6

\* The session is in no other step than before, or at the start of one.
LEMMA OnwardTypes ==
  ASSUME TypeOK, phase # "idle", UNCHANGED <<db, srv, up, offset, cmd, made, sent, log, ghost>>,
         phase' \in {"idle", "step", "pump"}, Onward \/ UNCHANGED progress
  PROVE  TypeOK'
<1>1. cmd \in Commands
  BY DEF TypeOK
<1>2. CASE Onward
  <2>1. pos' = pos + 1 /\ next' = First
    BY <1>2 DEF Onward, AtStart
  <2>2. pos' \in Nat \ {0} /\ next' \in [batch : Nat \ {0}, op : Nat \ {0}]
    BY <2>1 DEF TypeOK, First
  <2>3. Fits'
    BY <1>1, <2>1, FitsFirst
  <2> QED BY <1>1, <2>2, <2>3 DEF TypeOK, IsPicture
<1>3. CASE UNCHANGED progress
  <2>1. Fits'
    BY <1>3, FitsStays
  <2>2. UNCHANGED <<pos, next>>
    BY <1>3 DEF progress
  <2> QED BY <1>1, <2>1, <2>2 DEF TypeOK, IsPicture
<1> QED BY <1>2, <1>3

\* and in every step.
LEMMA TypeStep == TypeOK /\ [Next]_vars => TypeOK'
<1> SUFFICES ASSUME TypeOK, [Next]_vars PROVE TypeOK'
  OBVIOUS
<1>1. ASSUME NEW c \in Commands, Begin(c) PROVE TypeOK'
  <2>1. /\ cmd' = c /\ log' = <<>> /\ pos' = 1 /\ next' = First /\ made' = <<>> /\ sent' = 0
        /\ phase' \in {phase, "step"} /\ UNCHANGED <<db, srv, up, offset>>
        /\ ghost' = [ghost EXCEPT !.before = srv.keys]
    BY <1>1 DEF Begin, AtStart
  <2>2. IsSeq(made') /\ Len(made') = 0 /\ IsSeq(log') /\ Len(log') = 0
    BY <2>1, Nothing
  <2>3. Fits'
    BY <2>1, FitsFirst
  <2>4. ghost' = [before |-> ghost'.before, kept |-> ghost'.kept, stranded |-> ghost'.stranded]
    BY <2>1 DEF TypeOK
  <2>5. next' \in [batch : Nat \ {0}, op : Nat \ {0}] /\ sent' \in 0..Len(made') /\ Len(log') = sent'
    BY <2>1, <2>2 DEF First
  <2> QED BY <2>1, <2>2, <2>3, <2>4, <2>5 DEF TypeOK, IsPicture
<1>2. CASE LeaveOut
  <2>1. /\ Making /\ Batch = <<>> /\ next' = [batch |-> next.batch + 1, op |-> 1]
        /\ UNCHANGED <<db, srv, up, offset, cmd, pos, made, sent, phase, log, ghost>>
    BY <1>2 DEF LeaveOut, events, FollowingBatch
  <2>2. next'.batch \in Nat \ {0} /\ next'.op = 1 /\ next' \in [batch : Nat \ {0}, op : Nat \ {0}]
    BY <2>1 DEF TypeOK
  <2>3. Fits'
    <3>1. /\ cmd \in Commands /\ pos \in DOMAIN Program(cmd) /\ Program(cmd)[pos].step = "generate"
          /\ Here = Program(cmd)[pos]
      BY <2>1, MakingFacts
    <3>2. Program(cmd)' = Program(cmd)
      BY <2>1, SameProgram
    <3>3. Here' = Here
      BY <2>1, <3>2 DEF Here
    <3> SUFFICES ASSUME next'.batch <= Len(Here.gesture), Batch' # <<>>
                 PROVE  1 \in DOMAIN Batch'
      BY <2>2, <3>3 DEF Fits
    <3>4. Batch' = Program(cmd)[pos].gesture[next'.batch]
      BY <3>1, <3>3 DEF Batch
    <3> QED BY <2>2, <3>1, <3>4, FirstFits
  <2> QED BY <2>1, <2>2, <2>3 DEF TypeOK, IsPicture
<1>3. CASE Written
  <2>1. /\ Sending /\ sent' = sent + 1 /\ log' = Append(log, [under |-> srv.keys, at |-> srv.at])
        /\ UNCHANGED <<db, srv, up, offset, cmd, pos, next, made, ghost>>
        /\ phase' \in {"pump", "step"}
    BY <1>3 DEF Written, progress
  <2>2. phase # "idle"
    BY <2>1 DEF Sending, Made, AtStep
  <2>3. Fits'
    BY <2>1, <2>2, FitsStays DEF progress
  <2>4. sent' \in 0..Len(made')
    BY <2>1, SeqFacts DEF TypeOK, Sending, AllSent
  <2>5. IsSeq(log') /\ Len(log') = Len(log) + 1
    BY <2>1, Appended DEF TypeOK
  <2>6. up' => Len(log') = sent'
    BY <2>1, <2>5 DEF TypeOK
  <2> QED BY <2>1, <2>2, <2>3, <2>4, <2>5, <2>6 DEF TypeOK, IsPicture
<1>4. CASE StepDone \/ OpenPage \/ TakeBaseline \/ Measure \/ SaveProfile
  <2>1. /\ Onward /\ phase # "idle" /\ UNCHANGED <<db, srv, up, offset, cmd, made, sent, phase, log, ghost>>
    BY <1>4 DEF StepDone, OpenPage, TakeBaseline, Measure, SaveProfile, Made, AtStep, events
  <2> QED BY <2>1, OnwardTypes DEF TypeOK
<1>5. CASE Pump
  <2>1. /\ phase # "idle" /\ phase' = "step" /\ UNCHANGED <<db, srv, up, offset, cmd, made, sent, log, ghost>>
        /\ UNCHANGED progress
    BY <1>5 DEF Pump, Hear, events
  <2> QED BY <2>1, OnwardTypes
<1>6. CASE AwaitServer
  <2>1. /\ Onward /\ phase # "idle" /\ UNCHANGED <<db, srv, up, offset, cmd, made, sent, phase, log, ghost>>
    BY <1>6 DEF AwaitServer, Hear, AtStep, events
  <2> QED BY <2>1, OnwardTypes DEF TypeOK
<1>7. CASE Finish
  <2>1. /\ phase # "idle" /\ phase' = "idle" /\ UNCHANGED <<db, srv, up, offset, cmd, made, sent, log, ghost>>
        /\ UNCHANGED progress
    BY <1>7 DEF Finish, events
  <2> QED BY <2>1, OnwardTypes
<1>8. CASE HearFails \/ WriteFails
  <2>1. Fail /\ UNCHANGED up /\ phase # "idle"
    BY <1>8 DEF HearFails, WriteFails, Sending, Made, AtStep
  <2> QED BY <2>1, FailTypes
<1>9. CASE ServerGoes
  <2>1. /\ up' = FALSE /\ phase # "idle" /\ UNCHANGED <<db, srv, offset, command, log, ghost>>
    BY <1>9 DEF ServerGoes
  <2>2. UNCHANGED <<cmd, pos, next, made, sent, phase>> /\ UNCHANGED progress
    BY <2>1 DEF command, progress, events
  <2>3. Fits'
    BY <2>1, <2>2, FitsStays
  <2> QED BY <2>1, <2>2, <2>3 DEF TypeOK, IsPicture
<1>10. CASE NewSession
  <2>1. /\ phase = "idle" /\ phase' = phase /\ up' = TRUE /\ db' = Untouched(0) /\ srv' = Untouched(Unknown)
        /\ pos' = 1 /\ next' = First /\ made' = <<>> /\ sent' = 0 /\ log' = <<>>
        /\ ghost' = [before |-> {}, kept |-> {}, stranded |-> {}]
    BY <1>10 DEF NewSession, AtStart
  <2>2. IsSeq(made') /\ Len(made') = 0 /\ IsSeq(log') /\ Len(log') = 0
    BY <2>1, Nothing
  <2>3. next' \in [batch : Nat \ {0}, op : Nat \ {0}] /\ sent' \in 0..Len(made') /\ Len(log') = sent'
    BY <2>1, <2>2 DEF First
  <2>4. IsPicture(db') /\ IsPicture(srv')
    BY <2>1 DEF IsPicture, Untouched
  <2>5. Fits'
    BY <2>1 DEF Fits
  <2> QED BY <2>1, <2>2, <2>3, <2>4, <2>5 DEF TypeOK, IsPicture
<1>11. CASE UNCHANGED vars
  <2>1. UNCHANGED <<db, srv, up, offset, cmd, pos, next, made, sent, phase, log, ghost>>
    BY <1>11 DEF vars, command, progress, events
  <2>2. Fits'
    <3>1. CASE phase = "idle"
      BY <2>1, <3>1 DEF Fits
    <3>2. CASE phase # "idle"
      BY <2>1, <3>2, FitsStays DEF progress
    <3> QED BY <3>1, <3>2
  <2> QED BY <2>1, <2>2 DEF TypeOK, IsPicture
<1> QED BY <1>1, <1>2, <1>3, <1>4, <1>5, <1>6, <1>7, <1>8, <1>9, <1>10, <1>11, GenerateTypes, SendTypes DEF Next

\* What the library makes of an operation are operations.
LEMMA EventsTypes ==
  ASSUME NEW s, NEW op, op.do \in Operations
  PROVE  \A j \in 1..Len(Events(s, op)) : Events(s, op)[j].do \in Operations
<1> DEFINE new == Events(s, op)
<1>1. new \in {<<>>, <<op>>, <<Release(op.on), op>>}
  BY EventsFacts DEF Operations
<1>2. Release(op.on).do \in Operations
  BY Fields DEF Operations
<1> HIDE DEF new
<1>3. \A x, y : /\ Len(<<>>) = 0 /\ Len(<<x>>) = 1 /\ Len(<<x, y>>) = 2
                /\ <<x>>[1] = x /\ <<x, y>>[1] = x /\ <<x, y>>[2] = y
  OBVIOUS
<1>4. (\A j \in 1..1 : j = 1) /\ (\A j \in 1..2 : j \in {1, 2})
  OBVIOUS
<1>5. CASE new = <<>>
  BY <1>5, <1>3 DEF new
<1>6. CASE new = <<op>>
  BY <1>3, <1>4, <1>6 DEF new
<1>7. CASE new = <<Release(op.on), op>>
  BY <1>2, <1>3, <1>4, <1>7 DEF new
<1> QED BY <1>1, <1>5, <1>6, <1>7

\* What a step of Generate leaves of the state.
LEMMA GenerateMoves ==
  ASSUME TypeOK, Generate
  PROVE  LET op == Batch[next.op]
         IN  /\ UNCHANGED <<srv, up, offset, cmd, pos, sent, phase, log, ghost, outcome>>
             /\ Program(cmd)' = Program(cmd) /\ Here' = Here
             /\ LastOfBatch => next' = [batch |-> next.batch + 1, op |-> 1] /\ next.op = Len(Batch)
                               /\ next'.batch = next.batch + 1 /\ next'.op = 1
             /\ ~LastOfBatch => /\ next'.batch = next.batch /\ next'.op = next.op + 1
                                /\ Batch' = Batch /\ Making' /\ next.op + 1 \in DOMAIN Batch
             /\ Making' \/ Made'
             /\ IsPicture(db')
             /\ db'.keys = (IF op.do = "press" THEN db.keys \cup {op.on}
                            ELSE IF op.do = "release" THEN db.keys \ {op.on} ELSE db.keys)
             /\ db'.buttons = (IF op.do = "push" THEN db.buttons \cup {op.on}
                               ELSE IF op.do = "let" THEN db.buttons \ {op.on} ELSE db.buttons)
             /\ db'.at = (IF op.do = "move" THEN op.on ELSE db.at)
             /\ next.op \in Nat /\ DOMAIN Batch = 1..Len(Batch) /\ Len(Batch) \in Nat
<1> DEFINE op == Batch[next.op]
<1>1. /\ db' = After(db, op) /\ UNCHANGED <<srv, up, offset, cmd, pos, sent, phase, log, ghost, outcome>>
      /\ next' = IF LastOfBatch THEN [batch |-> next.batch + 1, op |-> 1] ELSE [next EXCEPT !.op = @ + 1]
  BY DEF Generate, FollowingBatch
<1>2. Making /\ op.do \in Operations /\ next.op \in DOMAIN Batch
  BY GenerateFacts
<1>3. /\ phase = "step" /\ cmd \in Commands
      /\ pos \in DOMAIN Program(cmd) /\ Program(cmd)[pos].step = "generate"
      /\ Here = Program(cmd)[pos] /\ IsSeq(Here.gesture)
      /\ next.batch \in Nat \ {0} /\ next.batch <= Len(Here.gesture)
      /\ IsSeq(Batch)
  BY <1>2, MakingFacts
<1>4. Program(cmd)' = Program(cmd)
  BY <1>1, SameProgram
<1>5. Here' = Here
  BY <1>1, <1>4 DEF Here
<1>6. DOMAIN Batch = 1..Len(Batch) /\ Len(Batch) \in Nat /\ next.op \in Nat /\ Len(Here.gesture) \in Nat
  BY <1>3, SeqFacts DEF TypeOK
<1>7. AtStep("generate")'
  BY <1>1, <1>3, <1>4, <1>5 DEF AtStep
<1>8. ASSUME LastOfBatch
      PROVE  next' = [batch |-> next.batch + 1, op |-> 1] /\ next.op = Len(Batch)
             /\ next'.batch = next.batch + 1 /\ next'.op = 1
  BY <1>1, <1>8 DEF LastOfBatch
<1>9. ASSUME ~LastOfBatch
      PROVE  /\ next'.batch = next.batch /\ next'.op = next.op + 1
             /\ Batch' = Batch /\ Making' /\ next.op + 1 \in DOMAIN Batch
  <2>1. next'.batch = next.batch /\ next'.op = next.op + 1
    BY <1>1, <1>9 DEF TypeOK
  <2>2. Batch' = Batch
    BY <1>5, <2>1 DEF Batch
  <2>3. Making'
    BY <1>3, <1>5, <1>7, <2>1 DEF Making
  <2>4. next.op + 1 \in DOMAIN Batch
    BY <1>2, <1>6, <1>9 DEF LastOfBatch
  <2> QED BY <2>1, <2>2, <2>3, <2>4
<1>10. Making' \/ Made'
  <2>1. next'.batch \in Nat
    BY <1>3, <1>8, <1>9
  <2> QED BY <1>5, <1>6, <1>7, <2>1 DEF Making, Made
<1>11. /\ IsPicture(db')
       /\ db'.keys = (IF op.do = "press" THEN db.keys \cup {op.on}
                      ELSE IF op.do = "release" THEN db.keys \ {op.on} ELSE db.keys)
       /\ db'.buttons = (IF op.do = "push" THEN db.buttons \cup {op.on}
                         ELSE IF op.do = "let" THEN db.buttons \ {op.on} ELSE db.buttons)
       /\ db'.at = (IF op.do = "move" THEN op.on ELSE db.at)
  BY <1>1, <1>2, PicturesStay DEF TypeOK
<1> QED BY <1>1, <1>4, <1>5, <1>6, <1>8, <1>9, <1>10, <1>11 DEF op

------------------------------------------------------------------------------
(* The course of the server.  What is generated and not yet sent will get      *)
(* there in the order it was made: a course is what the server has, and what    *)
(* the ghosts say of it, before and after every event of the command.           *)

\* The state after event e of command c, v being the one before.
Later(c, v, e) ==
    [keys     |-> IF e.do = "press" THEN v.keys \cup {e.on}
                  ELSE IF e.do = "release" THEN v.keys \ {e.on} ELSE v.keys,
     buttons  |-> IF e.do = "push" THEN v.buttons \cup {e.on}
                  ELSE IF e.do = "let" THEN v.buttons \ {e.on} ELSE v.buttons,
     at       |-> IF e.do = "move" THEN e.on ELSE v.at,
     kept     |-> IF e.do = "press" /\ c.do = "keydown" THEN v.kept \cup {e.on}
                  ELSE IF e.do = "release" THEN v.kept \ {e.on} ELSE v.kept,
     stranded |-> IF e.do = "release" THEN v.stranded \ {e.on} ELSE v.stranded]

Current ==
    [keys |-> srv.keys, buttons |-> srv.buttons, at |-> srv.at,
     kept |-> ghost.kept, stranded |-> ghost.stranded]

Course(view) ==
    /\ view[0].keys = ghost.before
    /\ view[sent] = Current
    /\ \A i \in 1..Len(made) : view[i] = Later(cmd, view[i - 1], made[i])
    /\ \A i \in 1..sent : log[i] = [under |-> view[i - 1].keys, at |-> view[i - 1].at]

There(at, p) == at = p \/ (at = Unknown /\ p = 0)

\* Between two batches.
Boundary(i) == i = 0 \/ made[i].do = "end"

\* The key-up of k is still to come, in the batch under way or when a hold is let go.
Held(k) == cmd.do = "key" /\ cmd.hold /\ pos <= 2 /\ k \in HeldKeys(cmd)
Owed(k) == (Making /\ Releases(Batch, next.op - 1, k)) \/ Held(k)

\* The buttons that the gesture under way has down.
Down ==
    IF ~Making THEN {}
    ELSE IF cmd.do = "drag" THEN (IF next.batch \in {3, 4} THEN {"left"} ELSE {})
    ELSE IF next.op > 1 /\ Batch[next.op - 1].do = "push" THEN {Batch[next.op - 1].on}
    ELSE {}

\* The keys that the first n events press or let go.
Handled(n) == {made[j].on : j \in {l \in 1..n : made[l].do \in {"press", "release"}}}

\* Of the keys held when the command began, those that it has not touched so far.
Spared == ghost.before \ Handled(Len(made))

\* After all that was generated the server is as the injector believes, but for
\* keys whose key-up was lost; what it holds is there to stay, was there before
\* and not touched, or is about to be let go.
AtLast(f) ==
    /\ db.keys \subseteq f.keys
    /\ f.keys \ db.keys \subseteq f.stranded
    /\ f.buttons = db.buttons /\ db.buttons = Down
    /\ There(f.at, db.at)
    /\ \A k \in f.keys : k \in f.kept \/ (k \in db.keys /\ Owed(k))
    /\ cmd.do # "keydown" => \A k \in f.keys : k \in Spared \/ (k \in db.keys /\ Owed(k))

\* Between two batches no button is down, but in a drag, and no key but those to
\* stay and those a hold has down; what the injector believes held is held there
\* and then, or about to be let go; what it does not is let go by what follows.
AtBoundary(view, i) ==
    /\ cmd.do # "drag" => view[i].buttons = {}
    /\ \A k \in view[i].keys : k \in view[i].kept \/ (cmd.do = "key" /\ k \in HeldKeys(cmd))
    /\ cmd.do # "keydown" => \A k \in db.keys : k \in view[i].keys \/ Owed(k)
    /\ \A k \in view[i].keys :
         \/ k \in db.keys \/ k \in view[i].stranded
         \/ \E j \in 1..Len(made) : j > i /\ made[j].do = "release" /\ made[j].on = k

Clean(view) ==
    /\ AtLast(view[Len(made)])
    /\ \A i \in 0..Len(made) : Boundary(i) => AtBoundary(view, i)

\* While typing goes on the pointer stays.
Pumping == pos \in DOMAIN Program(cmd) /\ Here.step = "generate" /\ Here.pumped
Level(view) == Pumping => \A i \in sent..Len(made) : Boundary(i) => There(view[i].at, db.at)

\* Where a command may be.
Control ==
    /\ Making \/ Made \/ phase = "pump" \/ sent = Len(made)
    /\ (Making /\ next.op > 1) \/ Boundary(Len(made))
    /\ phase = "pump" => /\ Boundary(sent) /\ cmd.do \notin {"drag", "key", "keydown"}
                         /\ Pumping /\ next.batch > Len(Here.gesture)

Live == phase # "idle" /\ up

\* A course stays one while nothing is made and nothing sent.
LEMMA CourseStays ==
  ASSUME NEW view, Course(view), UNCHANGED <<srv, cmd, made, sent, log, ghost>>
  PROVE  Course(view)'
BY DEF Course, Current

\* The course goes on with the events that a step of Generate adds.
LEMMA CourseGrows ==
  ASSUME TypeOK, Generate, NEW view, Course(view)
  PROVE  LET new == Events(db, Batch[next.op])
             m   == Len(made)
         IN  \E w : /\ Course(w)'
                    /\ \A i \in 0..m : w[i] = view[i]
                    /\ \A j \in 1..Len(new) : w[m + j] = Later(cmd, w[m + j - 1], new[j])
                    /\ LastOfBatch => w[m + Len(new) + 1] = Later(cmd, w[m + Len(new)], End)
<1> DEFINE new == Events(db, Batch[next.op])
           m   == Len(made)
           n   == m + Len(new)
           l   == Len(made')
<1>1. /\ m \in Nat /\ Len(new) \in 0..2
      /\ l = (IF LastOfBatch THEN n + 1 ELSE n)
      /\ \A i \in 1..m : made'[i] = made[i]
      /\ \A j \in 1..Len(new) : made'[m + j] = Event(new[j])
      /\ LastOfBatch => made'[n + 1] = End
  BY GenerateFacts
<1>2. UNCHANGED <<srv, cmd, sent, log, ghost>>
  BY GenerateMoves
<1>3. sent \in 0..m
  BY DEF TypeOK
<1> HIDE DEF new
<1>4. \A j \in 1..Len(new) : \A v : Later(cmd, v, Event(new[j])) = Later(cmd, v, new[j])
  BY DEF Later, Event
<1>5. PICK w : /\ \A i \in 0..m : w[i] = view[i]
               /\ \A i \in (m + 1)..l : w[i] = Later(cmd, w[i - 1], made'[i])
  <2> DEFINE a == Later(cmd, view[m], made'[m + 1])
             b == Later(cmd, a, made'[m + 2])
             d == Later(cmd, b, made'[m + 3])
             w == [i \in 0..(m + 3) |-> IF i <= m THEN view[i] ELSE IF i = m + 1 THEN a
                                        ELSE IF i = m + 2 THEN b ELSE d]
  <2>1. /\ \A i \in 0..m : w[i] = view[i]
        /\ w[m + 1] = a /\ w[m + 2] = b /\ w[m + 3] = d
    <3> HIDE DEF a, b, d
    <3> QED BY <1>1
  <2>2. w[m] = view[m]
    BY <1>1, <2>1
  <2> HIDE DEF w
  <2>3. /\ w[m + 1] = Later(cmd, w[m], made'[m + 1])
        /\ w[m + 2] = Later(cmd, w[m + 1], made'[m + 2])
        /\ w[m + 3] = Later(cmd, w[m + 2], made'[m + 3])
    BY <2>1, <2>2
  <2> HIDE DEF a, b, d
  <2>4. ASSUME NEW i \in (m + 1)..l PROVE w[i] = Later(cmd, w[i - 1], made'[i])
    <3>0. l \in Nat /\ l <= m + 3 /\ m \in Nat
      BY <1>1
    <3> HIDE DEF l, m
    <3>1. i \in {m + 1, m + 2, m + 3} /\ (m + 1) - 1 = m /\ (m + 2) - 1 = m + 1 /\ (m + 3) - 1 = m + 2
      BY <3>0
    <3> QED BY <2>3, <3>1
  <2> QED BY <2>1, <2>4
<1>6. Course(w)'
  <2>1. w[0].keys = ghost.before
    BY <1>1, <1>5 DEF Course
  <2>2. w[sent] = Current /\ Current' = Current
    BY <1>2, <1>3, <1>5 DEF Course, Current
  <2>3. ASSUME NEW i \in 1..l PROVE w[i] = Later(cmd, w[i - 1], made'[i])
    <3>1. CASE i \in 1..m
      <4>1. w[i] = view[i] /\ w[i - 1] = view[i - 1] /\ made'[i] = made[i]
        BY <1>1, <1>5, <3>1
      <4> QED BY <3>1, <4>1 DEF Course
    <3>2. CASE i \notin 1..m
      <4>1. i \in (m + 1)..l
        BY <1>1, <3>2
      <4> QED BY <1>5, <4>1
    <3> QED BY <3>1, <3>2
  <2>4. ASSUME NEW i \in 1..sent PROVE log[i] = [under |-> w[i - 1].keys, at |-> w[i - 1].at]
    <3>1. i - 1 \in 0..m
      BY <1>1, <1>3
    <3> QED BY <1>5, <3>1 DEF Course
  <2> QED BY <1>2, <2>1, <2>2, <2>3, <2>4 DEF Course
<1>7. ASSUME NEW j \in 1..Len(new) PROVE w[m + j] = Later(cmd, w[m + j - 1], new[j])
  <2>1. m + j \in (m + 1)..l
    BY <1>1
  <2>2. w[m + j] = Later(cmd, w[m + j - 1], made'[m + j])
    BY <1>5, <2>1
  <2> QED BY <1>1, <1>4, <2>2
<1>8. ASSUME LastOfBatch PROVE w[n + 1] = Later(cmd, w[n], End)
  <2>1. n + 1 \in (m + 1)..l /\ n + 1 - 1 = n
    BY <1>1, <1>8
  <2> QED BY <1>1, <1>5, <1>8, <2>1
<1> QED BY <1>5, <1>6, <1>7, <1>8 DEF new

\* A course stays clean while nothing is made and no key that was owed is kept.
LEMMA CleanStays ==
  ASSUME NEW view, Clean(view), UNCHANGED <<db, cmd, made>>, ghost'.before = ghost.before,
         \A k : Owed(k) => Owed(k)', Down' = Down
  PROVE  Clean(view)'
<1>1. AtLast(view[Len(made)])'
  <2>1. Spared' = Spared
    BY DEF Spared, Handled
  <2> QED BY <2>1 DEF Clean, AtLast
<1>2. ASSUME NEW i \in 0..Len(made), Boundary(i)' PROVE AtBoundary(view, i)'
  <2>1. AtBoundary(view, i)
    BY <1>2 DEF Clean, Boundary
  <2> QED BY <2>1 DEF AtBoundary
<1> QED BY <1>1, <1>2 DEF Clean

\* What is owed after an operation is still owed once it is applied.
LEMMA OwedLater ==
  ASSUME TypeOK, Generate, NEW k, Releases(Batch, next.op, k) \/ Held(k)
  PROVE  Owed(k)' /\ (LastOfBatch => Held(k))
<1>1. Held(k)' <=> Held(k)
  BY GenerateMoves DEF Held
<1>2. CASE Held(k)
  BY <1>1, <1>2 DEF Owed
<1>3. CASE Releases(Batch, next.op, k)
  <2>1. PICK j \in DOMAIN Batch : j > next.op /\ Batch[j].do = "release" /\ Batch[j].on = k
    BY <1>3 DEF Releases
  <2>2. ~LastOfBatch
    BY <2>1, GenerateMoves DEF LastOfBatch
  <2>3. Batch' = Batch /\ Making' /\ next'.op = next.op + 1 /\ next.op \in Nat /\ DOMAIN Batch = 1..Len(Batch)
    BY <2>2, GenerateMoves
  <2>4. j > next'.op - 1
    BY <2>1, <2>3
  <2> QED BY <2>1, <2>2, <2>3, <2>4 DEF Owed, Releases
<1> QED BY <1>2, <1>3

\* What is owed is owed still, but for what the operation lets go.
LEMMA OwedStill ==
  ASSUME TypeOK, Generate, NEW k, Owed(k), ~(Batch[next.op].do = "release" /\ Batch[next.op].on = k)
  PROVE  Releases(Batch, next.op, k) \/ Held(k)
<1>1. SUFFICES ASSUME Releases(Batch, next.op - 1, k) PROVE Releases(Batch, next.op, k)
  BY DEF Owed
<1>2. PICK j \in DOMAIN Batch : j > next.op - 1 /\ Batch[j].do = "release" /\ Batch[j].on = k
  BY <1>1 DEF Releases
<1>3. j # next.op /\ next.op \in Nat /\ DOMAIN Batch = 1..Len(Batch)
  BY <1>2, GenerateMoves
<1>4. j > next.op
  BY <1>2, <1>3
<1> QED BY <1>2, <1>4 DEF Releases

\* The key-up of a key that an operation presses follows.
LEMMA OwedPress ==
  ASSUME TypeOK, Generate, Batch[next.op].do = "press", cmd.do # "keydown"
  PROVE  Releases(Batch, next.op, Batch[next.op].on) \/ Held(Batch[next.op].on)
<1>1. Making /\ next.op \in DOMAIN Batch
  BY GenerateFacts
<1>2. cmd.do # "drag"
  <2> SUFFICES ASSUME cmd.do = "drag" PROVE FALSE
    OBVIOUS
  <2>1. pos = 1 /\ next.batch \in 1..4 /\ Here = Program(cmd)[pos]
    BY <1>1, MakingFacts
  <2>2. Batch = MouseDrag(Target(cmd.from), Target(cmd.to))[next.batch]
    BY <2>1, DragProgram DEF Batch
  <2>3. next.batch \in {1, 2, 3, 4}
    BY <2>1
  <2>4. PICK x : Batch = <<x>> /\ x.do # "press"
    BY <2>2, <2>3, DragShape, Fields
  <2>5. next.op = 1
    BY <1>1, <2>4
  <2> QED BY <2>4, <2>5
<1>3. IsBatch(Batch, Leaves(cmd, pos))
  BY <1>1, <1>2, MakingFacts
<1>4. CASE Batch[next.op].on \notin Leaves(cmd, pos)
  BY <1>1, <1>3, <1>4 DEF IsBatch
<1>5. CASE Batch[next.op].on \in Leaves(cmd, pos)
  BY <1>5 DEF Leaves, Held
<1> QED BY <1>4, <1>5

\* What a step of Generate handles: at most the key of its operation.
LEMMA HandledNext ==
  ASSUME TypeOK, Generate
  PROVE  LET op == Batch[next.op]
             n  == Len(made) + Len(Events(db, op))
             touched == IF op.do = "press" \/ (op.do = "release" /\ op.on \in db.keys)
                        THEN {op.on} ELSE {}
         IN  /\ \A i \in 0..Len(made) : Handled(i)' = Handled(i)
             /\ Handled(Len(made))' = Handled(Len(made)) \cup touched
             /\ \A i \in Nat : i < n => Handled(i)' \subseteq Handled(Len(made)) \cup {op.on}
             /\ Spared' = Spared \ touched
             /\ \A i \in 1..Len(made') : i \notin 1..Len(made) /\ made'[i].do \in {"press", "release"} =>
                  made'[i].on = op.on /\ op.do \in {"press", "release"}
                  /\ (op.do = "release" => made'[i].do = "release")
<1> DEFINE op  == Batch[next.op]
           new == Events(db, op)
           m   == Len(made)
           n   == m + Len(new)
           l   == Len(made')
           touched == IF op.do = "press" \/ (op.do = "release" /\ op.on \in db.keys) THEN {op.on} ELSE {}
<1>1. /\ m \in Nat /\ Len(new) \in 0..2
      /\ l = (IF LastOfBatch THEN n + 1 ELSE n)
      /\ \A i \in 1..m : made'[i] = made[i]
      /\ \A j \in 1..Len(new) : made'[m + j] = Event(new[j])
      /\ LastOfBatch => made'[n + 1] = End
      /\ op.do \in Operations
  BY GenerateFacts
<1>2. ghost' = ghost
  BY GenerateMoves
<1>3. /\ op.do = "press"   => new = (IF op.on \in db.keys THEN <<Release(op.on), op>> ELSE <<op>>)
      /\ op.do = "release" => new = (IF op.on \in db.keys THEN <<op>> ELSE <<>>)
      /\ op.do \notin {"press", "release"} => new = <<>> \/ new = <<op>>
  <2>1. op.do \in Operations
    BY <1>1
  <2> HIDE DEF op
  <2>2. PICK e : e = Events(db, op)
    OBVIOUS
  <2>3. /\ op.do = "press"   => e = IF op.on \in db.keys THEN <<Release(op.on), op>> ELSE <<op>>
        /\ op.do = "release" => e = IF op.on \in db.keys THEN <<op>> ELSE <<>>
        /\ op.do = "push" => e = IF op.on \in db.buttons THEN <<>> ELSE <<op>>
        /\ op.do = "let" => e = IF op.on \in db.buttons THEN <<op>> ELSE <<>>
        /\ op.do = "move" => e = IF op.on = db.at THEN <<>> ELSE <<op>>
        /\ op.do = "turn" => e = <<op>>
    BY <2>1, <2>2, EventsFacts
  <2>4. op.do \in {"press", "release", "push", "let", "move", "turn"}
    BY <2>1 DEF Operations
  <2> QED BY <2>2, <2>3, <2>4
<1> HIDE DEF op, new
<1>4. /\ \A j \in 1..Len(new) : new[j].do \in {"press", "release"} =>
           /\ new[j].on = op.on /\ op.do \in {"press", "release"}
           /\ op.do = "release" => new[j].do = "release"
           /\ touched = {op.on}
      /\ touched # {} => Len(new) \in 1..Len(new) /\ new[Len(new)] = op /\ op.do \in {"press", "release"}
  <2>1. Release(op.on).do = "release" /\ Release(op.on).on = op.on
    BY Fields
  <2>2. CASE new = <<>>
    <3>1. Len(new) = 0
      BY <2>2, Nothing
    <3>2. touched = {}
      <4>1. \A x, y : <<>> # <<x>> /\ <<>> # <<x, y>>
        <5>1. \A x, y : Len(<<>>) = 0 /\ Len(<<x>>) = 1 /\ Len(<<x, y>>) = 2
          OBVIOUS
        <5> QED BY <5>1
      <4> QED BY <1>3, <2>2, <4>1
    <3>3. \A j \in 1..0 : FALSE
      OBVIOUS
    <3> QED BY <3>1, <3>2, <3>3
  <2>3. CASE new = <<op>>
    <3>1. Len(new) = 1 /\ new[1] = op /\ \A j \in 1..1 : j = 1
      BY <2>3, Single
    <3>2. op.do \in {"press", "release"} => touched = {op.on}
      <4>1. \A x : <<>> # <<x>>
        <5>1. \A x : Len(<<>>) = 0 /\ Len(<<x>>) = 1
          OBVIOUS
        <5> QED BY <5>1
      <4> QED BY <1>3, <2>3, <4>1
    <3> HIDE DEF touched
    <3>3. touched # {} => op.do \in {"press", "release"}
      BY DEF touched
    <3> QED BY <3>1, <3>2, <3>3
  <2>4. CASE new = <<Release(op.on), op>> /\ op.do = "press"
    <3>1. Len(new) = 2 /\ new[1] = Release(op.on) /\ new[2] = op /\ \A j \in 1..2 : j \in {1, 2}
      BY <2>4, Pair
    <3>2. touched = {op.on}
      BY <2>4
    <3> HIDE DEF touched
    <3> QED BY <2>1, <2>4, <3>1, <3>2
  <2> HIDE DEF touched
  <2> QED BY <1>1, <1>3, <2>2, <2>3, <2>4 DEF Operations
<1>5. \A i \in 0..m : Handled(i)' = Handled(i)
  <2> SUFFICES ASSUME NEW i \in 0..m PROVE Handled(i)' = Handled(i)
    OBVIOUS
  <2>1. \A j \in 1..i : made'[j] = made[j]
    BY <1>1
  <2> QED BY <2>1 DEF Handled
<1>6. ASSUME NEW i \in 1..l, i \notin 1..m, made'[i].do \in {"press", "release"}
      PROVE  /\ made'[i].on = op.on /\ op.do \in {"press", "release"} /\ touched = {op.on}
             /\ op.do = "release" => made'[i].do = "release"
  <2>1. CASE i \in (m + 1)..n
    <3>1. i - m \in 1..Len(new) /\ m + (i - m) = i
      BY <1>1, <2>1
    <3>2. made'[i] = Event(new[i - m])
      BY <1>1, <3>1
    <3>3. made'[i].do = new[i - m].do /\ made'[i].on = new[i - m].on
      BY <3>2 DEF Event
    <3> HIDE DEF touched
    <3> QED BY <1>4, <1>6, <3>1, <3>3
  <2>2. CASE i \notin (m + 1)..n
    <3>1. i = n + 1 /\ LastOfBatch
      BY <1>1, <1>6, <2>2
    <3> QED BY <1>1, <1>6, <3>1 DEF End
  <2> QED BY <2>1, <2>2
<1>7. touched # {} => \E i \in 1..l : made'[i].on = op.on /\ made'[i].do \in {"press", "release"}
  <2> SUFFICES ASSUME touched # {}
               PROVE  \E i \in 1..l : made'[i].on = op.on /\ made'[i].do \in {"press", "release"}
    OBVIOUS
  <2>1. Len(new) \in 1..Len(new) /\ new[Len(new)] = op /\ op.do \in {"press", "release"}
    BY <1>4
  <2>2. n \in 1..l /\ made'[n] = Event(new[Len(new)])
    BY <1>1, <2>1
  <2> QED BY <2>1, <2>2 DEF Event
<1>8. Handled(Len(made))' = Handled(m) \cup touched
  <2>1. Handled(Len(made))' = {made'[j].on : j \in {i \in 1..l : made'[i].do \in {"press", "release"}}}
    BY DEF Handled
  <2>2. Handled(m) = {made[j].on : j \in {i \in 1..m : made[i].do \in {"press", "release"}}}
    BY DEF Handled
  <2>3. \A i \in 1..m : i \in 1..l
    BY <1>1
  <2>4. touched \subseteq {op.on}
    OBVIOUS
  <2> HIDE DEF l, touched
  <2>5. ASSUME NEW x \in Handled(Len(made))' PROVE x \in Handled(m) \cup touched
    <3>1. PICK i \in 1..l : made'[i].do \in {"press", "release"} /\ x = made'[i].on
      BY <2>1, <2>5
    <3>2. CASE i \in 1..m
      <4>1. made'[i] = made[i]
        BY <1>1, <3>2
      <4> QED BY <2>2, <3>1, <3>2, <4>1
    <3>3. CASE i \notin 1..m
      BY <1>6, <3>1, <3>3
    <3> QED BY <3>2, <3>3
  <2>6. ASSUME NEW x \in Handled(m) PROVE x \in Handled(Len(made))'
    <3>1. PICK i \in 1..m : made[i].do \in {"press", "release"} /\ x = made[i].on
      BY <2>2, <2>6
    <3>2. i \in 1..l /\ made'[i] = made[i]
      BY <1>1, <2>3, <3>1
    <3> QED BY <2>1, <3>1, <3>2
  <2>7. ASSUME NEW x \in touched PROVE x \in Handled(Len(made))'
    <3>1. PICK i \in 1..l : made'[i].on = op.on /\ made'[i].do \in {"press", "release"}
      BY <1>7, <2>7
    <3> QED BY <2>1, <2>4, <2>7, <3>1
  <2> QED BY <2>5, <2>6, <2>7
<1>9. ASSUME NEW h \in Nat, h < n PROVE Handled(h)' \subseteq Handled(m) \cup {op.on}
  <2>0. Handled(h)' = {made'[j].on : j \in {i \in 1..h : made'[i].do \in {"press", "release"}}}
    BY DEF Handled
  <2> SUFFICES ASSUME NEW i \in 1..h, made'[i].do \in {"press", "release"}
               PROVE  made'[i].on \in Handled(m) \cup {op.on}
    BY <2>0
  <2>1. CASE i \in 1..m
    <3>1. made'[i] = made[i]
      BY <1>1, <2>1
    <3> QED BY <2>1, <3>1 DEF Handled
  <2>2. CASE i \notin 1..m
    <3>1. i \in 1..l
      BY <1>1, <1>9
    <3> QED BY <1>6, <2>2, <3>1
  <2> QED BY <2>1, <2>2
<1>10. Spared' = Spared \ touched
  <2> HIDE DEF touched
  <2> QED BY <1>2, <1>8 DEF Spared
<1> HIDE DEF touched, n, m, l
<1>11. /\ \A i \in 0..m : Handled(i)' = Handled(i)
       /\ Handled(Len(made))' = Handled(m) \cup touched
       /\ \A i \in Nat : i < n => Handled(i)' \subseteq Handled(m) \cup {op.on}
       /\ Spared' = Spared \ touched
       /\ \A i \in 1..l : i \notin 1..m /\ made'[i].do \in {"press", "release"} =>
            made'[i].on = op.on /\ op.do \in {"press", "release"}
            /\ (op.do = "release" => made'[i].do = "release")
  BY <1>5, <1>6, <1>8, <1>9, <1>10
<1> QED BY <1>11 DEF op, new, touched, n, m, l

\* The batch of a drag that is under way.
LEMMA DragBatch ==
  ASSUME TypeOK, Generate, cmd.do = "drag"
  PROVE  /\ LastOfBatch /\ next.op = 1 /\ next.batch \in {1, 2, 3, 4} /\ pos = 1
         /\ Len(Here.gesture) = 4
         /\ Batch[1] = CASE next.batch = 1 -> MoveTo(Target(cmd.from))
                         [] next.batch = 2 -> Push("left")
                         [] next.batch = 3 -> MoveTo(Target(cmd.to))
                         [] next.batch = 4 -> LetGo("left")
<1> DEFINE p == Target(cmd.from)
           q == Target(cmd.to)
<1>1. Making /\ next.op \in DOMAIN Batch
  BY GenerateFacts
<1>2. pos = 1 /\ next.batch \in 1..4 /\ Here = Program(cmd)[pos]
  BY <1>1, MakingFacts
<1>3. Here.gesture = MouseDrag(p, q) /\ Batch = MouseDrag(p, q)[next.batch]
  BY <1>2, DragProgram DEF Batch
<1>4. next.batch \in {1, 2, 3, 4}
  BY <1>2
<1> HIDE DEF p, q
<1> DEFINE x == CASE next.batch = 1 -> MoveTo(p)
                  [] next.batch = 2 -> Push("left")
                  [] next.batch = 3 -> MoveTo(q)
                  [] next.batch = 4 -> LetGo("left")
<1>5. Batch = <<x>> /\ Len(MouseDrag(p, q)) = 4
  BY <1>3, <1>4, DragShape
<1> HIDE DEF x
<1>6. Batch[1] = x /\ Len(Batch) = 1 /\ next.op = 1
  BY <1>1, <1>5
<1> QED BY <1>2, <1>3, <1>4, <1>5, <1>6 DEF x, p, q, LastOfBatch

\* The injector holds the buttons that the gesture has down.
LEMMA DownNext ==
  ASSUME TypeOK, Generate, db.buttons = Down
  PROVE  db'.buttons = Down' /\ (LastOfBatch /\ cmd.do # "drag" => Down' = {})
<1> DEFINE op == Batch[next.op]
<1>0. Making /\ next.op \in DOMAIN Batch /\ op.do \in Operations
  BY GenerateFacts
<1>1. /\ cmd' = cmd /\ next.op \in Nat /\ DOMAIN Batch = 1..Len(Batch) /\ Len(Batch) \in Nat
      /\ db'.buttons = (IF op.do = "push" THEN db.buttons \cup {op.on}
                        ELSE IF op.do = "let" THEN db.buttons \ {op.on} ELSE db.buttons)
      /\ LastOfBatch => next.op = Len(Batch) /\ next'.batch = next.batch + 1 /\ next'.op = 1
      /\ ~LastOfBatch => Batch' = Batch /\ Making' /\ next'.op = next.op + 1
  BY GenerateMoves
<1>2. CASE cmd.do # "drag"
  <2>1. Clicking(Batch)
    BY <1>0, <1>2, MakingFacts
  <2>2. LastOfBatch => Down' = {}
    BY <1>1, <1>2 DEF Down
  <2>3. ~LastOfBatch => Down' = IF op.do = "push" THEN {op.on} ELSE {}
    <3> SUFFICES ASSUME ~LastOfBatch PROVE Down' = IF op.do = "push" THEN {op.on} ELSE {}
      OBVIOUS
    <3>1. next'.op > 1 /\ next'.op - 1 = next.op /\ Making' /\ Batch' = Batch
      BY <1>0, <1>1
    <3> QED BY <1>1, <1>2, <3>1 DEF Down
  <2>4. Down = IF next.op > 1 /\ Batch[next.op - 1].do = "push" THEN {Batch[next.op - 1].on} ELSE {}
    BY <1>0, <1>2 DEF Down
  <2>5. CASE op.do = "push"
    <3>1. next.op + 1 \in DOMAIN Batch
      BY <1>0, <2>1, <2>5 DEF Clicking
    <3>2. ~LastOfBatch
      BY <1>0, <1>1, <3>1
    <3>3. Down = {}
      <4>1. ASSUME next.op > 1, Batch[next.op - 1].do = "push" PROVE FALSE
        <5>1. next.op - 1 \in DOMAIN Batch /\ (next.op - 1) + 1 = next.op
          BY <1>0, <1>1, <4>1
        <5>2. Batch[(next.op - 1) + 1].do = "let"
          BY <2>1, <4>1, <5>1 DEF Clicking
        <5> QED BY <2>5, <5>1, <5>2
      <4> QED BY <2>4, <4>1
    <3> QED BY <1>1, <2>2, <2>3, <2>5, <3>2, <3>3
  <2>6. CASE op.do = "let"
    <3>1. next.op - 1 \in DOMAIN Batch /\ Batch[next.op - 1].do = "push" /\ Batch[next.op - 1].on = op.on
      BY <1>0, <2>1, <2>6 DEF Clicking
    <3>2. Down = {op.on}
      BY <1>0, <1>1, <2>4, <3>1
    <3>3. db'.buttons = {}
      BY <1>1, <2>6, <3>2
    <3> QED BY <1>2, <2>2, <2>3, <2>6, <3>3
  <2>7. CASE op.do \notin {"push", "let"}
    <3>1. Down = {}
      <4>1. ASSUME next.op > 1, Batch[next.op - 1].do = "push" PROVE FALSE
        <5>1. next.op - 1 \in DOMAIN Batch /\ (next.op - 1) + 1 = next.op
          BY <1>0, <1>1, <4>1
        <5>2. Batch[(next.op - 1) + 1].do = "let"
          BY <2>1, <4>1, <5>1 DEF Clicking
        <5> QED BY <2>7, <5>1, <5>2
      <4> QED BY <2>4, <4>1
    <3>2. db'.buttons = {}
      BY <1>1, <2>7, <3>1
    <3> QED BY <1>2, <2>2, <2>3, <2>7, <3>2
  <2> QED BY <2>5, <2>6, <2>7
<1>3. CASE cmd.do = "drag"
  <2>1. /\ LastOfBatch /\ next.op = 1 /\ next.batch \in {1, 2, 3, 4} /\ Len(Here.gesture) = 4
        /\ op = CASE next.batch = 1 -> MoveTo(Target(cmd.from))
                  [] next.batch = 2 -> Push("left")
                  [] next.batch = 3 -> MoveTo(Target(cmd.to))
                  [] next.batch = 4 -> LetGo("left")
    BY <1>3, DragBatch
  <2>2. next'.batch = next.batch + 1 /\ Here' = Here /\ (Making' \/ Made')
    BY <2>1, GenerateMoves
  <2>3. Making' <=> next'.batch <= 4
    BY <2>1, <2>2 DEF Making, Made
  <2>4. Down' = IF next'.batch \in {3, 4} THEN {"left"} ELSE {}
    BY <1>1, <1>3, <2>1, <2>2, <2>3 DEF Down
  <2>5. Down = IF next.batch \in {3, 4} THEN {"left"} ELSE {}
    BY <1>0, <1>3 DEF Down
  <2> HIDE DEF op
  <2>6. CASE next.batch = 1
    BY <1>1, <1>3, <2>1, <2>2, <2>4, <2>5, <2>6, Fields
  <2>7. CASE next.batch = 2
    BY <1>1, <1>3, <2>1, <2>2, <2>4, <2>5, <2>7, Fields
  <2>8. CASE next.batch = 3
    BY <1>1, <1>3, <2>1, <2>2, <2>4, <2>5, <2>8, Fields
  <2>9. CASE next.batch = 4
    BY <1>1, <1>3, <2>1, <2>2, <2>4, <2>5, <2>9, Fields
  <2> QED BY <2>1, <2>6, <2>7, <2>8, <2>9
<1> QED BY <1>2, <1>3

\* The end of the course, f before an operation and g after it.
Grows(f, g, op) ==
    /\ g.keys = (IF op.do = "press" THEN f.keys \cup {op.on}
                 ELSE IF op.do = "release" /\ op.on \in db.keys THEN f.keys \ {op.on} ELSE f.keys)
    /\ g.buttons = (IF op.do = "push" THEN f.buttons \cup {op.on}
                    ELSE IF op.do = "let" THEN f.buttons \ {op.on} ELSE f.buttons)
    /\ There(f.at, db.at) => There(g.at, IF op.do = "move" THEN op.on ELSE db.at)
    /\ g.at = f.at \/ op.do = "move"
    /\ \A k : k \in f.kept /\ k # op.on => k \in g.kept
    /\ op.do # "press" /\ ~(op.do = "release" /\ op.on \in db.keys) => g.kept = f.kept
    /\ op.do = "press" /\ cmd.do = "keydown" => op.on \in g.kept
    /\ \A k : k \in f.stranded /\ k # op.on => k \in g.stranded
    /\ op.do # "press" /\ ~(op.do = "release" /\ op.on \in db.keys) => g.stranded = f.stranded

\* What an operation adds to a course: the last picture grows by that operation, as the
\* injector's own does, whether the Database sends it, leaves it out or lets go first.
LEMMA GrowsBy ==
  ASSUME TypeOK, Generate, NEW w,
         \A j \in 1..Len(Events(db, Batch[next.op])) :
           w[Len(made) + j] = Later(cmd, w[Len(made) + j - 1], Events(db, Batch[next.op])[j]),
         LastOfBatch => w[Len(made) + Len(Events(db, Batch[next.op])) + 1]
                          = Later(cmd, w[Len(made) + Len(Events(db, Batch[next.op]))], End),
         w[Len(made)].buttons = db.buttons
  PROVE  Grows(w[Len(made)], w[Len(made')], Batch[next.op])
<1> DEFINE op  == Batch[next.op]
           new == Events(db, op)
           m   == Len(made)
           f   == w[m]
           g   == w[m + Len(new)]
           h   == w[Len(made')]
<1>1. /\ op.do \in Operations /\ m \in Nat /\ Len(new) \in 0..2
      /\ Len(made') = (IF LastOfBatch THEN m + Len(new) + 1 ELSE m + Len(new))
  BY GenerateFacts
<1>2. /\ h.keys = g.keys /\ h.buttons = g.buttons /\ h.at = g.at
      /\ h.kept = g.kept /\ h.stranded = g.stranded
  <2>1. CASE LastOfBatch
    <3>1. h = Later(cmd, g, End) /\ End.do = "end"
      BY <1>1, <2>1 DEF End
    <3> HIDE DEF h, g
    <3> QED BY <3>1 DEF Later
  <2>2. CASE ~LastOfBatch
    BY <1>1, <2>2
  <2> QED BY <2>1, <2>2
<1>3. \/ new = <<>> /\ g = f
      \/ new = <<op>> /\ g = Later(cmd, f, op)
      \/ new = <<Release(op.on), op>> /\ g = Later(cmd, Later(cmd, f, Release(op.on)), op)
  <2>1. new \in {<<>>, <<op>>, <<Release(op.on), op>>}
    BY <1>1, EventsFacts DEF Operations
  <2>2. \A j \in 1..Len(new) : w[m + j] = Later(cmd, w[m + j - 1], new[j])
    OBVIOUS
  <2> HIDE DEF new, op
  <2>3. CASE new = <<>>
    <3>1. Len(new) = 0
      BY <2>3, Nothing
    <3> QED BY <1>1, <2>3, <3>1
  <2>4. CASE new = <<op>>
    <3>1. Len(new) = 1 /\ new[1] = op /\ 1 \in 1..Len(new) /\ m + 1 - 1 = m
      BY <1>1, <2>4, Single
    <3> QED BY <2>2, <2>4, <3>1
  <2>5. CASE new = <<Release(op.on), op>>
    <3>1. /\ Len(new) = 2 /\ new[1] = Release(op.on) /\ new[2] = op
          /\ 1 \in 1..Len(new) /\ 2 \in 1..Len(new) /\ m + 1 - 1 = m /\ m + 2 - 1 = m + 1
      BY <1>1, <2>5, Pair
    <3>2. w[m + 1] = Later(cmd, w[m], Release(op.on)) /\ w[m + 2] = Later(cmd, w[m + 1], op)
      BY <2>2, <3>1
    <3> QED BY <2>5, <3>1, <3>2
  <2> QED BY <2>1, <2>3, <2>4, <2>5
<1>4. Grows(f, g, op)
  <2> DEFINE rel == Release(op.on)
             mid == Later(cmd, f, rel)
  <2>1. rel.do = "release" /\ rel.on = op.on
    BY Fields
  <2>2. /\ mid.keys = f.keys \ {op.on} /\ mid.buttons = f.buttons /\ mid.at = f.at
        /\ mid.kept = f.kept \ {op.on} /\ mid.stranded = f.stranded \ {op.on}
    <3> HIDE DEF rel, f
    <3>1. /\ mid.keys = (IF rel.do = "press" THEN f.keys \cup {rel.on}
                         ELSE IF rel.do = "release" THEN f.keys \ {rel.on} ELSE f.keys)
          /\ mid.buttons = (IF rel.do = "push" THEN f.buttons \cup {rel.on}
                            ELSE IF rel.do = "let" THEN f.buttons \ {rel.on} ELSE f.buttons)
          /\ mid.at = (IF rel.do = "move" THEN rel.on ELSE f.at)
          /\ mid.kept = (IF rel.do = "press" /\ cmd.do = "keydown" THEN f.kept \cup {rel.on}
                         ELSE IF rel.do = "release" THEN f.kept \ {rel.on} ELSE f.kept)
          /\ mid.stranded = (IF rel.do = "release" THEN f.stranded \ {rel.on} ELSE f.stranded)
      BY DEF Later
    <3> QED BY <2>1, <3>1
  <2> DEFINE one == Later(cmd, f, op)
             two == Later(cmd, mid, op)
  <2>3. /\ one.keys = (IF op.do = "press" THEN f.keys \cup {op.on}
                       ELSE IF op.do = "release" THEN f.keys \ {op.on} ELSE f.keys)
        /\ one.buttons = (IF op.do = "push" THEN f.buttons \cup {op.on}
                          ELSE IF op.do = "let" THEN f.buttons \ {op.on} ELSE f.buttons)
        /\ one.at = (IF op.do = "move" THEN op.on ELSE f.at)
        /\ one.kept = (IF op.do = "press" /\ cmd.do = "keydown" THEN f.kept \cup {op.on}
                       ELSE IF op.do = "release" THEN f.kept \ {op.on} ELSE f.kept)
        /\ one.stranded = (IF op.do = "release" THEN f.stranded \ {op.on} ELSE f.stranded)
    BY DEF Later
  <2>4. op.do = "press" =>
          /\ two.keys = mid.keys \cup {op.on} /\ two.buttons = mid.buttons /\ two.at = mid.at
          /\ two.kept = (IF cmd.do = "keydown" THEN mid.kept \cup {op.on} ELSE mid.kept)
          /\ two.stranded = mid.stranded
    <3> HIDE DEF mid, op
    <3> QED BY DEF Later
  <2>5. new = CASE op.do = "press"   -> IF op.on \in db.keys THEN <<rel, op>> ELSE <<op>>
                [] op.do = "release" -> IF op.on \in db.keys THEN <<op>> ELSE <<>>
                [] op.do = "push"    -> IF op.on \in db.buttons THEN <<>> ELSE <<op>>
                [] op.do = "let"     -> IF op.on \in db.buttons THEN <<op>> ELSE <<>>
                [] op.do = "move"    -> IF op.on = db.at THEN <<>> ELSE <<op>>
                [] op.do = "turn"    -> <<op>>
    BY <1>1, EventsFacts DEF Operations
  <2>6. f.buttons = db.buttons
    OBVIOUS
  <2>7. \A x, y, z : <<>> # <<x>> /\ <<>> # <<x, y>> /\ <<z>> # <<x, y>>
    <3>1. \A x, y : Len(<<>>) = 0 /\ Len(<<x>>) = 1 /\ Len(<<x, y>>) = 2
      OBVIOUS
    <3> QED BY <3>1
  <2>8. \/ new = <<>> /\ g = f
        \/ new = <<op>> /\ g = one
        \/ new = <<rel, op>> /\ g = two
    BY <1>3
  <2> HIDE DEF one, two, mid, rel, new, f, g, op
  <2>9. CASE op.do = "press"
    BY <2>2, <2>3, <2>4, <2>5, <2>7, <2>8, <2>9 DEF Grows
  <2>10. CASE op.do = "release"
    BY <2>3, <2>5, <2>7, <2>8, <2>10 DEF Grows
  <2>11. CASE op.do = "push"
    BY <2>3, <2>5, <2>6, <2>7, <2>8, <2>11 DEF Grows
  <2>12. CASE op.do = "let"
    BY <2>3, <2>5, <2>6, <2>7, <2>8, <2>12 DEF Grows
  <2>13. CASE op.do = "move"
    BY <2>3, <2>5, <2>7, <2>8, <2>13 DEF Grows, There
  <2>14. CASE op.do = "turn"
    BY <2>3, <2>5, <2>7, <2>8, <2>14 DEF Grows
  <2> QED BY <1>1, <2>9, <2>10, <2>11, <2>12, <2>13, <2>14 DEF Operations
<1> HIDE DEF op, f, g, h
<1>5. Grows(f, h, op)
  BY <1>2, <1>4 DEF Grows
<1> QED BY <1>5 DEF op, f, h

\* What the server holds after an operation, and what is owed of it.
LEMMA GrowsOwing ==
  ASSUME TypeOK, Generate, NEW f, NEW g, AtLast(f), Grows(f, g, Batch[next.op])
  PROVE  /\ db'.keys \subseteq g.keys
         /\ g.keys \ db'.keys \subseteq g.stranded
         /\ g.buttons = db'.buttons /\ db'.buttons = Down'
         /\ There(g.at, db'.at)
         /\ \A k \in g.keys :
              k \in g.kept \/ (k \in db'.keys /\ (Releases(Batch, next.op, k) \/ Held(k)))
         /\ cmd.do # "keydown" => \A k \in g.keys :
              k \in Spared' \/ (k \in db'.keys /\ (Releases(Batch, next.op, k) \/ Held(k)))
<1> DEFINE op == Batch[next.op]
<1>1. /\ db'.keys = (IF op.do = "press" THEN db.keys \cup {op.on}
                     ELSE IF op.do = "release" THEN db.keys \ {op.on} ELSE db.keys)
      /\ db'.buttons = (IF op.do = "push" THEN db.buttons \cup {op.on}
                        ELSE IF op.do = "let" THEN db.buttons \ {op.on} ELSE db.buttons)
      /\ db'.at = (IF op.do = "move" THEN op.on ELSE db.at)
  BY GenerateMoves
<1>2. \A k : Owed(k) /\ ~(op.do = "release" /\ op.on = k) => Releases(Batch, next.op, k) \/ Held(k)
  BY OwedStill
<1>3. op.do = "press" /\ cmd.do # "keydown" => Releases(Batch, next.op, op.on) \/ Held(op.on)
  BY OwedPress
<1>4. db'.buttons = Down'
  BY DownNext DEF AtLast
<1>12. Spared' = Spared \ (IF op.do = "press" \/ (op.do = "release" /\ op.on \in db.keys)
                            THEN {op.on} ELSE {})
  BY HandledNext
<1> HIDE DEF op
<1>5. Grows(f, g, op)
  BY DEF op
<1>6. db'.keys \subseteq g.keys
  <2>1. db.keys \subseteq f.keys
    BY DEF AtLast
  <2>2. g.keys = (IF op.do = "press" THEN f.keys \cup {op.on}
                  ELSE IF op.do = "release" /\ op.on \in db.keys THEN f.keys \ {op.on} ELSE f.keys)
    BY <1>5 DEF Grows
  <2> QED BY <1>1, <2>1, <2>2
<1>7. ASSUME NEW k \in g.keys, k \notin db'.keys PROVE k \in g.stranded
  <2>1. k # op.on \/ (op.do # "press" /\ ~(op.do = "release" /\ op.on \in db.keys))
    BY <1>1, <1>5, <1>7 DEF Grows
  <2>2. k \in f.keys /\ k \notin db.keys
    BY <1>1, <1>5, <1>7, <2>1 DEF Grows
  <2>3. k \in f.stranded
    BY <2>2 DEF AtLast
  <2> QED BY <1>5, <2>1, <2>3 DEF Grows
<1>8. g.buttons = db'.buttons
  BY <1>1, <1>5 DEF Grows, AtLast
<1>9. There(g.at, db'.at)
  BY <1>1, <1>5 DEF Grows, AtLast
<1>10. ASSUME NEW k \in g.keys
       PROVE  k \in g.kept \/ (k \in db'.keys /\ (Releases(Batch, next.op, k) \/ Held(k)))
  <2>1. CASE op.do = "press" /\ k = op.on
    <3>1. CASE cmd.do = "keydown"
      BY <1>5, <2>1, <3>1 DEF Grows
    <3>2. CASE cmd.do # "keydown"
      BY <1>1, <1>3, <2>1, <3>2
    <3> QED BY <3>1, <3>2
  <2>2. CASE ~(op.do = "press" /\ k = op.on)
    <3>1. k \in f.keys /\ (k # op.on \/ (op.do # "press" /\ ~(op.do = "release" /\ op.on \in db.keys)))
      BY <1>5, <1>10, <2>2 DEF Grows
    <3>2. CASE k \in f.kept
      BY <1>5, <3>1, <3>2 DEF Grows
    <3>3. CASE k \in db.keys /\ Owed(k)
      <4>1. ~(op.do = "release" /\ op.on = k)
        BY <3>1, <3>3
      <4>2. k \in db'.keys
        BY <1>1, <3>3, <4>1
      <4> QED BY <1>2, <3>3, <4>1, <4>2
    <3> QED BY <3>1, <3>2, <3>3 DEF AtLast
  <2> QED BY <2>1, <2>2
<1>11. ASSUME cmd.do # "keydown", NEW k \in g.keys
       PROVE  k \in Spared' \/ (k \in db'.keys /\ (Releases(Batch, next.op, k) \/ Held(k)))
  <2>1. CASE op.do = "press" /\ k = op.on
    BY <1>1, <1>3, <1>11, <2>1
  <2>2. CASE ~(op.do = "press" /\ k = op.on)
    <3>1. k \in f.keys /\ (k # op.on \/ (op.do # "press" /\ ~(op.do = "release" /\ op.on \in db.keys)))
      BY <1>5, <1>11, <2>2 DEF Grows
    <3>2. CASE k \in db.keys /\ Owed(k)
      <4>1. ~(op.do = "release" /\ op.on = k)
        BY <3>1, <3>2
      <4>2. k \in db'.keys
        BY <1>1, <3>2, <4>1
      <4> QED BY <1>2, <3>2, <4>1, <4>2
    <3>3. CASE k \in Spared
      BY <1>12, <3>1, <3>3
    <3> QED BY <1>11, <3>1, <3>2, <3>3 DEF AtLast
  <2> QED BY <2>1, <2>2
<1> QED BY <1>4, <1>6, <1>7, <1>8, <1>9, <1>10, <1>11

\* A course that grows by the next operation stays clean,
LEMMA GenerateClean ==
  ASSUME TypeOK, Generate, NEW view, Clean(view), NEW w, \A i \in 0..Len(made) : w[i] = view[i],
         Grows(view[Len(made)], w[Len(made')], Batch[next.op])
  PROVE  Clean(w)'
<1> DEFINE op  == Batch[next.op]
           new == Events(db, op)
           m   == Len(made)
           n   == m + Len(new)
           l   == Len(made')
           f   == view[m]
           g   == w[l]
<1>1. /\ m \in Nat /\ Len(new) \in 0..2 /\ l = (IF LastOfBatch THEN n + 1 ELSE n)
      /\ \A i \in 1..m : made'[i] = made[i]
      /\ \A j \in 1..Len(new) : made'[m + j] = Event(new[j])
      /\ LastOfBatch => made'[n + 1] = End
      /\ op.do \in Operations
  BY GenerateFacts
<1>2. /\ UNCHANGED <<cmd, ghost>>
      /\ db'.keys = (IF op.do = "press" THEN db.keys \cup {op.on}
                     ELSE IF op.do = "release" THEN db.keys \ {op.on} ELSE db.keys)
  BY GenerateMoves
<1>3. /\ db'.keys \subseteq g.keys
      /\ g.keys \ db'.keys \subseteq g.stranded
      /\ g.buttons = db'.buttons /\ db'.buttons = Down'
      /\ There(g.at, db'.at)
      /\ \A k \in g.keys :
           k \in g.kept \/ (k \in db'.keys /\ (Releases(Batch, next.op, k) \/ Held(k)))
      /\ cmd.do # "keydown" => \A k \in g.keys :
           k \in Spared' \/ (k \in db'.keys /\ (Releases(Batch, next.op, k) \/ Held(k)))
  BY GrowsOwing DEF Clean
<1>4. \A k : Releases(Batch, next.op, k) \/ Held(k) => Owed(k)' /\ (LastOfBatch => Held(k))
  BY OwedLater
<1>5. \A k : Owed(k) /\ ~(op.do = "release" /\ op.on = k) => Releases(Batch, next.op, k) \/ Held(k)
  BY OwedStill
<1>6. op.do = "press" /\ cmd.do # "keydown" => Releases(Batch, next.op, op.on) \/ Held(op.on)
  BY OwedPress
<1>7. LastOfBatch /\ cmd.do # "drag" => Down' = {}
  BY DownNext DEF Clean, AtLast
<1>8. op.do = "release" /\ op.on \in db.keys => n \in 1..l /\ n > m /\ made'[n].do = "release" /\ made'[n].on = op.on
  <2> SUFFICES ASSUME op.do = "release", op.on \in db.keys
               PROVE  n \in 1..l /\ n > m /\ made'[n].do = "release" /\ made'[n].on = op.on
    OBVIOUS
  <2>1. new = <<op>>
    BY <1>1, EventsFacts
  <2>2. Len(new) = 1 /\ new[1] = op
    BY <2>1, Single
  <2>3. made'[n] = Event(op)
    BY <1>1, <2>2
  <2> QED BY <1>1, <2>2, <2>3 DEF Event
<1>9. \A j \in 1..Len(new) : new[j].do \in Operations
  BY <1>1, EventsTypes
<1> HIDE DEF op, new, g, f
<1>10. AtLast(w[Len(made)])'
  <2>1. AtLast(w[Len(made)])' <=>
          /\ db'.keys \subseteq g.keys
          /\ g.keys \ db'.keys \subseteq g.stranded
          /\ g.buttons = db'.buttons /\ db'.buttons = Down'
          /\ There(g.at, db'.at)
          /\ \A k \in g.keys : k \in g.kept \/ (k \in db'.keys /\ Owed(k)')
          /\ cmd.do # "keydown" => \A k \in g.keys : k \in Spared' \/ (k \in db'.keys /\ Owed(k)')
    BY <1>2 DEF AtLast, g
  <2> QED BY <1>3, <1>4, <2>1
<1>11. ASSUME NEW i \in 0..l, Boundary(i)' PROVE AtBoundary(w, i)'
  <2>1. AtBoundary(w, i)' <=>
          /\ cmd.do # "drag" => w[i].buttons = {}
          /\ \A k \in w[i].keys : k \in w[i].kept \/ (cmd.do = "key" /\ k \in HeldKeys(cmd))
          /\ cmd.do # "keydown" => \A k \in db'.keys : k \in w[i].keys \/ Owed(k)'
          /\ \A k \in w[i].keys :
               \/ k \in db'.keys \/ k \in w[i].stranded
               \/ \E j \in 1..l : j > i /\ made'[j].do = "release" /\ made'[j].on = k
    BY <1>2 DEF AtBoundary
  <2>2. CASE i \in 0..m
    <3>1. Boundary(i)
      <4>1. i = 0 \/ made'[i] = made[i]
        BY <1>1, <2>2
      <4> QED BY <1>11, <4>1 DEF Boundary
    <3>2. AtBoundary(view, i) /\ w[i] = view[i]
      BY <2>2, <3>1 DEF Clean
    <3>3. ASSUME cmd.do # "keydown", NEW k \in db'.keys PROVE k \in w[i].keys \/ Owed(k)'
      <4>1. CASE op.do = "press" /\ k = op.on
        BY <1>4, <1>6, <3>3, <4>1
      <4>2. CASE ~(op.do = "press" /\ k = op.on)
        <5>1. k \in db.keys /\ ~(op.do = "release" /\ op.on = k)
          BY <1>2, <3>3, <4>2
        <5>2. k \in w[i].keys \/ Owed(k)
          BY <3>2, <3>3, <5>1 DEF AtBoundary
        <5> QED BY <1>4, <1>5, <5>1, <5>2
      <4> QED BY <4>1, <4>2
    <3>4. ASSUME NEW k \in w[i].keys
          PROVE  \/ k \in db'.keys \/ k \in w[i].stranded
                 \/ \E j \in 1..l : j > i /\ made'[j].do = "release" /\ made'[j].on = k
      <4>1. CASE k \in db.keys
        <5>1. CASE op.do = "release" /\ op.on = k
          BY <1>1, <1>8, <2>2, <4>1, <5>1
        <5>2. CASE ~(op.do = "release" /\ op.on = k)
          BY <1>2, <4>1, <5>2
        <5> QED BY <5>1, <5>2
      <4>2. CASE \E j \in 1..m : j > i /\ made[j].do = "release" /\ made[j].on = k
        <5>1. PICK j \in 1..m : j > i /\ made[j].do = "release" /\ made[j].on = k
          BY <4>2
        <5>2. j \in 1..l /\ made'[j] = made[j]
          BY <1>1
        <5> QED BY <5>1, <5>2
      <4> QED BY <3>2, <3>4, <4>1, <4>2 DEF AtBoundary
    <3> QED BY <2>1, <3>2, <3>3, <3>4 DEF AtBoundary
  <2>3. CASE i \notin 0..m
    <3>1. i = l /\ LastOfBatch
      <4>1. CASE i \in (m + 1)..n
        <5>1. i - m \in 1..Len(new) /\ i = m + (i - m)
          BY <1>1, <4>1
        <5>2. made'[i] = Event(new[i - m])
          BY <1>1, <5>1
        <5>3. made'[i].do \in Operations
          BY <1>9, <5>1, <5>2 DEF Event
        <5>4. i # 0
          BY <2>3, <1>1
        <5> QED BY <1>11, <5>3, <5>4 DEF Boundary, Operations
      <4> QED BY <1>1, <2>3, <4>1
    <3>2. w[i] = g
      BY <3>1 DEF g
    <3>3. \A k \in g.keys : k \in g.kept \/ Held(k)
      BY <1>3, <1>4, <3>1
    <3>4. \A k \in g.keys : k \in g.kept \/ (cmd.do = "key" /\ k \in HeldKeys(cmd))
      BY <3>3 DEF Held
    <3> QED BY <1>3, <1>7, <2>1, <3>1, <3>2, <3>4
  <2> QED BY <2>2, <2>3
<1> QED BY <1>10, <1>11 DEF Clean

\* and level: where a pause may end the command the pointer is where it is believed.
LEMMA GenerateLevel ==
  ASSUME TypeOK, Generate, NEW view, Clean(view), Level(view),
         NEW w, \A i \in 0..Len(made) : w[i] = view[i], Clean(w)'
  PROVE  Level(w)'
<1> DEFINE new == Events(db, Batch[next.op])
           m   == Len(made)
           n   == m + Len(new)
           l   == Len(made')
<1>1. /\ m \in Nat /\ Len(new) \in 0..2 /\ l = (IF LastOfBatch THEN n + 1 ELSE n)
      /\ \A i \in 1..m : made'[i] = made[i]
      /\ \A j \in 1..Len(new) : made'[m + j] = Event(new[j])
      /\ Making /\ next.op \in DOMAIN Batch /\ Batch[next.op].do \in Operations
  BY GenerateFacts
<1>2. /\ UNCHANGED <<cmd, pos, sent>> /\ Here' = Here /\ Program(cmd)' = Program(cmd)
      /\ db'.at = (IF Batch[next.op].do = "move" THEN Batch[next.op].on ELSE db.at)
  BY GenerateMoves
<1>3. sent \in 0..m
  BY DEF TypeOK
<1>4. \A j \in 1..Len(new) : new[j].do \in Operations
  BY <1>1, EventsTypes
<1> HIDE DEF new
<1> SUFFICES ASSUME Pumping, NEW i \in sent..l, Boundary(i)' PROVE There(w[i].at, db'.at)
  BY <1>2 DEF Level, Pumping, There
<1>5. db'.at = db.at
  <2>1. /\ pos \in DOMAIN Program(cmd) /\ Here = Program(cmd)[pos] /\ cmd \in Commands
        /\ Here.step = "generate" /\ Here.pumped /\ next.batch \in DOMAIN Here.gesture
    BY <1>1, MakingFacts DEF Pumping
  <2>2. Still(Here.gesture)
    BY <2>1, ProgramsOk DEF ProgramOk, StepOk
  <2> QED BY <1>1, <1>2, <2>1, <2>2 DEF Still, Batch
<1>6. CASE i \in 0..m
  <2>1. w[i] = view[i] /\ i \in sent..m
    BY <1>1, <1>3, <1>6
  <2>2. Boundary(i)
    <3>1. i = 0 \/ made'[i] = made[i]
      BY <1>1, <1>6
    <3> QED BY <3>1 DEF Boundary
  <2> QED BY <1>5, <2>1, <2>2 DEF Level
<1>7. CASE i \notin 0..m
  <2>1. CASE i \in (m + 1)..n
    <3>1. i - m \in 1..Len(new) /\ i = m + (i - m) /\ i # 0
      BY <1>1, <2>1
    <3>2. made'[i] = Event(new[i - m])
      BY <1>1, <3>1
    <3>3. made'[i].do \in Operations
      BY <1>4, <3>1, <3>2 DEF Event
    <3> QED BY <3>1, <3>3 DEF Boundary, Operations
  <2>2. CASE i \notin (m + 1)..n
    <3>1. i = l
      BY <1>1, <1>3, <1>7, <2>2
    <3> QED BY <3>1 DEF Clean, AtLast, There
  <2> QED BY <2>1, <2>2
<1> QED BY <1>6, <1>7

\* A step that leaves the command where it is, or its gesture.
LEMMA SameStep ==
  ASSUME UNCHANGED <<cmd, offset, pos, next>>
  PROVE  /\ Here' = Here /\ Batch' = Batch /\ Program(cmd)' = Program(cmd)
         /\ (phase' = phase => (Making' <=> Making) /\ (Made' <=> Made))
         /\ \A k : Held(k)' <=> Held(k)
<1>1. Program(cmd)' = Program(cmd)
  BY SameProgram
<1>2. Here' = Here
  BY <1>1 DEF Here
<1>3. Batch' = Batch
  BY <1>2 DEF Batch
<1>4. phase' = phase => (Making' <=> Making) /\ (Made' <=> Made)
  BY <1>1, <1>2 DEF Making, Made, AtStep
<1>5. \A k : Held(k)' <=> Held(k)
  BY DEF Held
<1> QED BY <1>1, <1>2, <1>3, <1>4, <1>5

\* Sending what is made keeps a course level.
LEMMA LevelStays ==
  ASSUME NEW view, Level(view), UNCHANGED <<cmd, offset, pos, next, db, made>>,
         sent \in Nat, sent' \in {sent, sent + 1}
  PROVE  Level(view)'
<1>1. Pumping' <=> Pumping
  BY SameStep DEF Pumping
<1>2. \A i \in sent'..Len(made) : i \in sent..Len(made)
  OBVIOUS
<1> QED BY <1>1, <1>2 DEF Level, Boundary

\* A step is making its events or has made them, not both.
LEMMA MadeNotMaking ==
  ASSUME TypeOK, Made
  PROVE  ~Making
<1>1. phase = "step" /\ cmd \in Commands /\ pos \in DOMAIN Program(cmd) /\ Program(cmd)[pos].step = "generate"
      /\ Here = Program(cmd)[pos] /\ next.batch > Len(Here.gesture) /\ next.batch \in Nat
  BY DEF TypeOK, Made, AtStep, Here
<1> SUFFICES ASSUME Making PROVE FALSE
  OBVIOUS
<1>2. IsSeq(Here.gesture) /\ next.batch <= Len(Here.gesture)
  BY MakingFacts
<1>3. Len(Here.gesture) \in Nat
  BY <1>2, SeqFacts
<1> QED BY <1>1, <1>2, <1>3

\* On to the next step of the command.
LEMMA OnwardKeeps ==
  ASSUME TypeOK, Control, phase = "step", ~Making, sent = Len(made), Onward,
         UNCHANGED <<db, srv, offset, cmd, made, sent, phase, log, ghost>>,
         NEW view, Course(view), Clean(view), Level(view)
  PROVE  Control' /\ Course(view)' /\ Clean(view)' /\ Level(view)'
<1>1. pos' = pos + 1 /\ next' = [batch |-> 1, op |-> 1] /\ next'.batch = 1 /\ next'.op = 1
  BY DEF Onward, AtStart, First
<1>2. Program(cmd)' = Program(cmd) /\ cmd \in Commands /\ pos \in Nat \ {0}
  BY SameProgram DEF TypeOK
<1>3. Control'
  <2>1. Boundary(Len(made))'
    BY DEF Control, Boundary
  <2> QED BY <2>1 DEF Control
<1>4. Down = {} /\ Down' = {}
  BY <1>1 DEF Down
<1>5. ASSUME NEW k, Owed(k) PROVE Owed(k)'
  <2>1. Held(k)
    BY <1>5 DEF Owed
  <2>2. cmd.do = "key" /\ cmd.hold /\ pos <= 2 /\ k \in HeldKeys(cmd)
    BY <2>1 DEF Held
  <2>3. CASE pos = 1
    BY <1>1, <2>2, <2>3 DEF Owed, Held
  <2>4. CASE pos = 2
    <3>1. /\ Len(Program(cmd)) = 4 /\ IsSeq(Program(cmd))
          /\ Program(cmd)[3].step = "generate" /\ Len(Program(cmd)[3].gesture) = 1
          /\ Releases(Program(cmd)[3].gesture[1], 0, k)
      BY <1>2, <2>2, KeyOk DEF ProgramOk
    <3>2. 3 \in DOMAIN Program(cmd)
      BY <3>1, SeqFacts
    <3>3. pos' = 3
      BY <1>1, <2>4
    <3>4. Here' = Program(cmd)[3]
      BY <1>2, <3>3 DEF Here
    <3>5. Making'
      BY <1>1, <1>2, <3>1, <3>2, <3>3, <3>4 DEF Making, AtStep
    <3>6. Batch' = Program(cmd)[3].gesture[1] /\ next'.op - 1 = 0
      BY <1>1, <3>4 DEF Batch
    <3> QED BY <3>1, <3>5, <3>6 DEF Owed
  <2> QED BY <1>2, <2>2, <2>3, <2>4
<1>6. Course(view)'
  BY CourseStays
<1>7. Clean(view)'
  BY <1>4, <1>5, CleanStays
<1>8. Level(view)'
  <2>1. There(view[Len(made)].at, db.at) /\ Len(made) \in Nat
    BY SeqFacts DEF Clean, AtLast, TypeOK
  <2>2. \A i \in sent..Len(made) : i = Len(made)
    BY <2>1
  <2> QED BY <2>1, <2>2 DEF Level, There
<1> QED BY <1>3, <1>6, <1>7, <1>8

\* A character left out changes nothing.
LEMMA LeaveOutKeeps ==
  ASSUME TypeOK, Control, LeaveOut, NEW view, Course(view), Clean(view), Level(view)
  PROVE  Control' /\ Course(view)' /\ Clean(view)' /\ Level(view)'
<1>1. /\ Making /\ Batch = <<>> /\ next' = [batch |-> next.batch + 1, op |-> 1]
      /\ UNCHANGED <<db, srv, up, offset, cmd, pos, made, sent, phase, log, ghost>>
  BY DEF LeaveOut, events, FollowingBatch
<1>2. next.op = 1 /\ next'.op = 1 /\ next'.batch = next.batch + 1 /\ next.batch \in Nat
  BY <1>1 DEF TypeOK, Fits, Making, AtStep
<1>3. Program(cmd)' = Program(cmd)
  BY <1>1, SameProgram
<1>4. Here' = Here
  BY <1>1, <1>3 DEF Here
<1>5. cmd.do # "drag"
  <2> SUFFICES ASSUME cmd.do = "drag" PROVE FALSE
    OBVIOUS
  <2>1. pos = 1 /\ next.batch \in 1..4 /\ Here = Program(cmd)[pos]
    BY <1>1, MakingFacts
  <2>2. Batch = MouseDrag(Target(cmd.from), Target(cmd.to))[next.batch]
    BY <2>1, DragProgram DEF Batch
  <2>3. next.batch \in {1, 2, 3, 4}
    BY <2>1
  <2>4. PICK x : Batch = <<x>>
    BY <2>2, <2>3, DragShape
  <2>5. Len(<<x>>) = 1 /\ Len(<<>>) = 0
    OBVIOUS
  <2> QED BY <1>1, <2>4, <2>5
<1>6. Down = {} /\ Down' = {}
  BY <1>1, <1>2, <1>5 DEF Down
<1>7. ASSUME NEW k, Owed(k) PROVE Owed(k)'
  <2>1. ~Releases(Batch, next.op - 1, k)
    BY <1>1, Nothing DEF Releases
  <2> QED BY <1>1, <1>7, <2>1 DEF Owed, Held
<1>8. Control'
  <2>1. Boundary(Len(made))'
    BY <1>1, <1>2 DEF Control, Boundary
  <2>2. Making' \/ Made'
    <3>1. Len(Here.gesture) \in Nat
      BY <1>1, MakingFacts, SeqFacts
    <3>2. AtStep("generate")'
      BY <1>1, <1>3, <1>4 DEF Making, AtStep
    <3> QED BY <1>2, <1>4, <3>1, <3>2 DEF Making, Made
  <2> QED BY <1>1, <2>1, <2>2 DEF Control, Making, AtStep
<1>9. Course(view)'
  BY <1>1, CourseStays
<1>10. Clean(view)'
  BY <1>1, <1>6, <1>7, CleanStays
<1>11. Level(view)'
  BY <1>1, <1>3, <1>4 DEF Level, Pumping, Boundary, There
<1> QED BY <1>8, <1>9, <1>10, <1>11

\* The next event gets there: the course is as it was.
LEMMA SendKeeps ==
  ASSUME TypeOK, Control, up, Send, NEW view, Course(view), Clean(view), Level(view)
  PROVE  Control' /\ Course(view)' /\ Clean(view)' /\ Level(view)'
<1> DEFINE e == made[sent + 1]
<1>1. /\ Sending /\ Upcoming # End /\ Arrives(Upcoming) /\ sent' = sent + 1
      /\ UNCHANGED <<db, up, offset, cmd, pos, next, made, phase>>
  BY DEF Send, progress
<1>2. /\ sent + 1 \in 1..Len(made) /\ e.do \in Operations
      /\ srv' = After(srv, e)
      /\ ghost' = [before   |-> ghost.before,
                   kept     |-> IF e.do = "press" /\ cmd.do = "keydown" THEN ghost.kept \cup {e.on}
                                ELSE IF e.do = "release" THEN ghost.kept \ {e.on} ELSE ghost.kept,
                   stranded |-> IF e.do = "release" THEN ghost.stranded \ {e.on} ELSE ghost.stranded]
      /\ Len(log') = Len(log) + 1
      /\ \A i \in 1..Len(log) : log'[i] = log[i]
      /\ log'[Len(log) + 1] = [under |-> srv.keys, at |-> srv.at]
  BY <1>1, ArrivesFacts
<1>3. Len(log) = sent /\ sent \in Nat
  BY DEF TypeOK
<1>4. Made /\ ~Making
  BY <1>1, MadeNotMaking DEF Sending
<1>5. Made' /\ ~Making' /\ \A k : Held(k)' <=> Held(k)
  BY <1>1, <1>4, SameStep
<1>6. phase = "step"
  BY <1>4 DEF Made, AtStep
<1>7. Control'
  BY <1>1, <1>4, <1>5, <1>6 DEF Control, Boundary
<1> HIDE DEF e
<1>8. Course(view)'
  <2>1. Current' = Later(cmd, Current, e)
    <3>1. /\ srv'.keys = (IF e.do = "press" THEN srv.keys \cup {e.on}
                          ELSE IF e.do = "release" THEN srv.keys \ {e.on} ELSE srv.keys)
          /\ srv'.buttons = (IF e.do = "push" THEN srv.buttons \cup {e.on}
                             ELSE IF e.do = "let" THEN srv.buttons \ {e.on} ELSE srv.buttons)
          /\ srv'.at = (IF e.do = "move" THEN e.on ELSE srv.at)
      BY <1>2, PicturesStay DEF TypeOK
    <3>2. /\ ghost'.kept = (IF e.do = "press" /\ cmd.do = "keydown" THEN ghost.kept \cup {e.on}
                            ELSE IF e.do = "release" THEN ghost.kept \ {e.on} ELSE ghost.kept)
          /\ ghost'.stranded = (IF e.do = "release" THEN ghost.stranded \ {e.on} ELSE ghost.stranded)
      BY <1>2
    <3> QED BY <3>1, <3>2 DEF Current, Later
  <2>2. view[sent + 1] = Later(cmd, view[sent], e) /\ sent + 1 - 1 = sent
    BY <1>2, <1>3 DEF Course, e
  <2>3. view[sent] = Current
    BY DEF Course
  <2>4. \A i \in 1..(sent + 1) : log'[i] = [under |-> view[i - 1].keys, at |-> view[i - 1].at]
    <3>1. ASSUME NEW i \in 1..(sent + 1)
          PROVE  log'[i] = [under |-> view[i - 1].keys, at |-> view[i - 1].at]
      <4>1. CASE i \in 1..sent
        BY <1>2, <1>3, <4>1 DEF Course
      <4>2. CASE i = sent + 1
        <5>0. i - 1 = sent
          BY <1>3, <4>2
        <5>1. view[i - 1].keys = srv.keys /\ view[i - 1].at = srv.at
          BY <2>3, <5>0 DEF Current
        <5> QED BY <1>2, <1>3, <4>2, <5>1
      <4> QED BY <1>3, <4>1, <4>2
    <3> QED BY <3>1
  <2>5. ghost'.before = ghost.before
    BY <1>2
  <2> QED BY <1>1, <2>1, <2>2, <2>3, <2>4, <2>5 DEF Course
<1>9. Clean(view)'
  <2>1. Down' = Down
    BY <1>4, <1>5 DEF Down
  <2>2. \A k : Owed(k) => Owed(k)'
    BY <1>4, <1>5 DEF Owed
  <2>3. ghost'.before = ghost.before
    BY <1>2
  <2> QED BY <1>1, <2>1, <2>2, <2>3, CleanStays
<1>10. Level(view)'
  BY <1>1, <1>3, LevelStays
<1> QED BY <1>7, <1>8, <1>9, <1>10

\* The end of a batch changes nothing but the pause that may follow it.
LEMMA WrittenKeeps ==
  ASSUME TypeOK, Control, up, Written, NEW view, Course(view), Clean(view), Level(view)
  PROVE  Control' /\ Course(view)' /\ Clean(view)' /\ Level(view)'
<1>1. /\ Sending /\ Upcoming = End /\ sent' = sent + 1
      /\ log' = Append(log, [under |-> srv.keys, at |-> srv.at])
      /\ UNCHANGED <<db, srv, up, offset, cmd, pos, next, made, ghost>>
      /\ phase' = IF Here.pumped THEN "pump" ELSE "step"
  BY DEF Written, progress
<1>2. sent + 1 \in 1..Len(made) /\ made[sent + 1] = End /\ sent \in Nat /\ Len(log) = sent
  BY <1>1, SeqFacts DEF TypeOK, Sending, AllSent, Upcoming
<1>3. /\ \A i \in 1..Len(log) : log'[i] = log[i]
      /\ log'[Len(log) + 1] = [under |-> srv.keys, at |-> srv.at]
  BY <1>1, Appended DEF TypeOK
<1>4. Made /\ ~Making /\ phase = "step" /\ cmd \in Commands
      /\ pos \in DOMAIN Program(cmd) /\ Here.step = "generate" /\ Here = Program(cmd)[pos]
      /\ next.batch > Len(Here.gesture)
  BY <1>1, MadeNotMaking DEF Sending, Made, AtStep, TypeOK, Here
<1>5. /\ Here' = Here /\ Program(cmd)' = Program(cmd) /\ \A k : Held(k)' <=> Held(k)
      /\ phase' = "step" => Made' /\ ~Making'
  BY <1>1, <1>4, SameStep
<1>6. ~Making'
  BY <1>1, <1>5 DEF Making, AtStep
<1>7. Control'
  <2>1. Boundary(sent)'
    BY <1>1, <1>2 DEF Boundary, End
  <2>2. Boundary(Len(made))'
    BY <1>1, <1>4 DEF Control, Boundary
  <2>3. Here.pumped => cmd.do \notin {"drag", "key", "keydown"}
    BY <1>4, ProgramsOk DEF ProgramOk, StepOk
  <2>4. Here.pumped \in BOOLEAN
    BY <1>4, ProgramsOk DEF ProgramOk, StepOk
  <2> QED BY <1>1, <1>4, <1>5, <1>6, <2>1, <2>2, <2>3, <2>4 DEF Control, Pumping
<1>8. Course(view)'
  <2>1. Current' = Later(cmd, Current, End)
    BY <1>1 DEF Current, Later, End
  <2>2. view[sent + 1] = Later(cmd, view[sent], End) /\ sent + 1 - 1 = sent
    BY <1>2 DEF Course
  <2>3. view[sent] = Current
    BY DEF Course
  <2>4. \A i \in 1..(sent + 1) : log'[i] = [under |-> view[i - 1].keys, at |-> view[i - 1].at]
    <3>1. ASSUME NEW i \in 1..(sent + 1)
          PROVE  log'[i] = [under |-> view[i - 1].keys, at |-> view[i - 1].at]
      <4>1. CASE i \in 1..sent
        BY <1>2, <1>3, <4>1 DEF Course
      <4>2. CASE i = sent + 1
        <5>0. i - 1 = sent
          BY <1>2, <4>2
        <5>1. view[i - 1].keys = srv.keys /\ view[i - 1].at = srv.at
          BY <2>3, <5>0 DEF Current
        <5> QED BY <1>2, <1>3, <4>2, <5>1
      <4> QED BY <1>2, <4>1, <4>2
    <3> QED BY <3>1
  <2> QED BY <1>1, <2>1, <2>2, <2>3, <2>4 DEF Course
<1>9. Clean(view)'
  <2>1. Down' = Down
    BY <1>4, <1>6 DEF Down
  <2>2. \A k : Owed(k) => Owed(k)'
    BY <1>4, <1>5 DEF Owed
  <2> QED BY <1>1, <2>1, <2>2, CleanStays
<1>10. Level(view)'
  BY <1>1, <1>2, LevelStays
<1> QED BY <1>7, <1>8, <1>9, <1>10

\* The pause after a batch is over.
LEMMA PumpKeeps ==
  ASSUME TypeOK, Control, Pump, NEW view, Course(view), Clean(view), Level(view)
  PROVE  Control' /\ Course(view)' /\ Clean(view)' /\ Level(view)' /\ Made'
<1>1. /\ phase = "pump" /\ phase' = "step"
      /\ UNCHANGED <<db, srv, up, offset, cmd, pos, next, made, sent, log, ghost>>
  BY DEF Pump, Hear, events, progress
<1>2. /\ Here' = Here /\ Program(cmd)' = Program(cmd) /\ \A k : Held(k)' <=> Held(k)
  BY <1>1, SameStep
<1>3. /\ Boundary(sent) /\ pos \in DOMAIN Program(cmd) /\ Here.step = "generate"
      /\ next.batch > Len(Here.gesture) /\ ~Making
  BY <1>1 DEF Control, Pumping, Making, AtStep
<1>4. Made'
  BY <1>1, <1>2, <1>3 DEF Made, AtStep
<1>5. ~Making'
  <2>1. TypeOK'
    BY TypeStep DEF Next
  <2>2. phase' # "idle" /\ cmd' \in Commands
    BY <1>1, <2>1 DEF TypeOK
  <2>3. IsSeq(Here.gesture)
    <3>1. cmd \in Commands /\ Here = Program(cmd)[pos]
      BY <1>1 DEF TypeOK, Here
    <3>2. StepOk(cmd, pos, Here)
      BY <1>3, <3>1, ProgramsOk DEF ProgramOk
    <3>3. cmd.do # "drag"
      BY <1>1 DEF Control
    <3> QED BY <1>3, <3>2, <3>3 DEF StepOk, IsGesture
  <2>4. Len(Here.gesture) \in Nat /\ next.batch \in Nat
    BY <2>3, SeqFacts DEF TypeOK
  <2> QED BY <1>1, <1>2, <1>3, <2>4 DEF Making
<1>6. Control'
  BY <1>1, <1>3, <1>4 DEF Control, Boundary
<1>7. Course(view)'
  BY <1>1, CourseStays
<1>8. Clean(view)'
  <2>1. Down' = Down
    BY <1>3, <1>5 DEF Down
  <2>2. \A k : Owed(k) => Owed(k)'
    BY <1>2, <1>3 DEF Owed
  <2> QED BY <1>1, <2>1, <2>2, CleanStays
<1>9. Level(view)'
  BY <1>1, LevelStays DEF TypeOK
<1> QED BY <1>4, <1>6, <1>7, <1>8, <1>9

\* When a command begins, what is there is its course: nothing is on its way.
LEMMA BeginKeeps ==
  ASSUME TypeOK, NothingSticks, There(srv.at, db.at), NEW c \in Commands, Begin(c), phase' # "idle"
  PROVE  Control' /\ \E v : Course(v)' /\ Clean(v)' /\ Level(v)' /\ v[0].keys = ghost'.before
<1>0. PICK v : v = [i \in {0} |-> Current']
  OBVIOUS
<1>1. /\ phase = "idle" /\ up /\ phase' = "step" /\ cmd' = c /\ log' = <<>> /\ made' = <<>> /\ sent' = 0
      /\ pos' = 1 /\ next' = [batch |-> 1, op |-> 1] /\ next'.batch = 1 /\ next'.op = 1
      /\ ghost' = [ghost EXCEPT !.before = srv.keys]
      /\ UNCHANGED <<db, srv, up, offset>>
  BY DEF Begin, AtStart, First
<1>2. ghost'.before = srv.keys /\ ghost'.kept = ghost.kept /\ ghost'.stranded = ghost.stranded
  <2> DEFINE k == ghost.kept
             s == ghost.stranded
             b == ghost.before
  <2>1. ghost = [before |-> b, kept |-> k, stranded |-> s]
    BY DEF TypeOK
  <2> HIDE DEF k, s, b
  <2>2. ghost' = [before |-> srv.keys, kept |-> k, stranded |-> s]
    BY <1>1, <2>1
  <2> QED BY <2>1, <2>2
<1>3. /\ srv.buttons = {} /\ db.buttons = {} /\ srv.keys \subseteq ghost.kept
      /\ db.keys \subseteq srv.keys /\ srv.keys \ db.keys \subseteq ghost.stranded
  BY <1>1 DEF NothingSticks, Idle
<1>4. /\ v[0] = Current' /\ v[0].keys = srv.keys /\ v[0].buttons = srv.buttons /\ v[0].at = srv.at
      /\ v[0].kept = ghost.kept /\ v[0].stranded = ghost.stranded
  BY <1>0, <1>1, <1>2 DEF Current
<1>5. Len(made') = 0
  BY <1>1
<1>6. Control'
  <2>1. Boundary(Len(made))'
    BY <1>5 DEF Boundary
  <2> QED BY <1>1, <1>5, <2>1 DEF Control
<1>7. Down' = {}
  BY <1>1 DEF Down
<1>8. Course(v)'
  <2>1. 1..0 = {}
    OBVIOUS
  <2> QED BY <1>1, <1>2, <1>4, <1>5, <2>1 DEF Course
<1>9. AtLast(v[Len(made)])'
  <2>1. Spared' = srv.keys
    <3>1. 1..0 = {}
      OBVIOUS
    <3> QED BY <1>2, <1>5, <3>1 DEF Spared, Handled
  <2> QED BY <1>1, <1>2, <1>3, <1>4, <1>5, <1>7, <2>1 DEF AtLast
<1>10. AtBoundary(v, 0)'
  BY <1>1, <1>2, <1>3, <1>4, <1>5 DEF AtBoundary
<1>11. Clean(v)'
  <2>1. \A i \in 0..0 : i = 0
    OBVIOUS
  <2> QED BY <1>5, <1>9, <1>10, <2>1 DEF Clean
<1>12. Level(v)'
  <2>1. \A i \in 0..0 : i = 0
    OBVIOUS
  <2> QED BY <1>1, <1>4, <1>5, <2>1 DEF Level, There
<1> QED BY <1>2, <1>4, <1>6, <1>8, <1>11, <1>12

\* When nothing more is to come the end of the course is the present.
LEMMA FinishClean ==
  ASSUME TypeOK, Control, Finish, NEW view, Course(view), Clean(view)
  PROVE  NothingSticks' /\ There(srv.at, db.at)' /\ sent = Len(made) /\ \A k : ~Owed(k)
<1>1. /\ phase = "step" /\ pos > Len(Program(cmd)) /\ UNCHANGED <<db, srv, ghost, made, sent>> /\ cmd \in Commands
  BY DEF Finish, events, TypeOK
<1>2. pos \notin DOMAIN Program(cmd) /\ Len(Program(cmd)) \in Nat
  <2>1. IsSeq(Program(cmd))
    BY <1>1, ProgramsOk DEF ProgramOk
  <2>2. DOMAIN Program(cmd) = 1..Len(Program(cmd)) /\ Len(Program(cmd)) \in Nat
    BY <2>1, SeqFacts
  <2> QED BY <1>1, <2>2
<1>3. ~Making /\ ~Made
  BY <1>2 DEF Making, Made, AtStep
<1>4. sent = Len(made) /\ view[Len(made)] = Current
  BY <1>1, <1>3 DEF Control, Course
<1>5. \A k : ~Owed(k)
  <2> SUFFICES ASSUME NEW k, Held(k) PROVE FALSE
    BY <1>3 DEF Owed
  <2>1. Len(Program(cmd)) = 4 /\ pos <= 2
    BY <1>1, KeyOk DEF Held
  <2> QED BY <1>1, <2>1 DEF TypeOK
<1>6. AtLast(Current)
  BY <1>4 DEF Clean
<1>7. /\ db.keys \subseteq srv.keys /\ srv.keys \ db.keys \subseteq ghost.stranded
      /\ srv.buttons = db.buttons /\ db.buttons = {}
      /\ There(srv.at, db.at) /\ srv.keys \subseteq ghost.kept
  BY <1>3, <1>5, <1>6 DEF AtLast, Current, Down
<1> QED BY <1>1, <1>4, <1>5, <1>7 DEF NothingSticks, There

\* A command that fails while it waits leaves down only what it may: nothing is held in
\* the batches already sent but what a hold put down, and that the ghosts have noted.
LEMMA FailClean ==
  ASSUME TypeOK, Control, HearFails, NEW view, Course(view), Clean(view), Level(view)
  PROVE  NothingSticks' /\ There(srv.at, db.at)'
<1>1. /\ phase = "pump" \/ AtStep("wait")
      /\ UNCHANGED <<db, srv>>
      /\ ghost' = [ghost EXCEPT
           !.kept = IF cmd.do = "key" THEN @ \cup (srv.keys \cap HeldKeys(cmd)) ELSE @,
           !.stranded = @ \cup Unsent("release")]
  BY DEF HearFails, Fail
<1> DEFINE x == IF cmd.do = "key" THEN ghost.kept \cup (srv.keys \cap HeldKeys(cmd)) ELSE ghost.kept
           y == ghost.stranded \cup Unsent("release")
<1>2. ghost'.kept = x /\ ghost'.stranded = y
  <2> DEFINE b == ghost.before
             k == ghost.kept
             s == ghost.stranded
  <2>1. ghost = [before |-> b, kept |-> k, stranded |-> s]
    BY DEF TypeOK
  <2>2. ghost' = [ghost EXCEPT !.kept = x, !.stranded = y]
    BY <1>1
  <2> HIDE DEF b, k, s, x, y
  <2>3. ghost' = [before |-> b, kept |-> x, stranded |-> y]
    BY <2>1, <2>2
  <2> QED BY <2>3
<1>3. ~Making /\ ~Made
  BY <1>1 DEF Making, Made, AtStep
<1>4. sent \in 0..Len(made) /\ Boundary(sent) /\ view[sent] = Current
      /\ (AtStep("wait") => sent = Len(made))
  BY <1>1, <1>3 DEF Control, TypeOK, Course, AtStep
<1>5. AtBoundary(view, sent)
  BY <1>4 DEF Clean
<1>6. /\ srv.keys \subseteq x
      /\ \A k \in srv.keys :
           \/ k \in db.keys \/ k \in ghost.stranded
           \/ \E j \in 1..Len(made) : j > sent /\ made[j].do = "release" /\ made[j].on = k
  BY <1>4, <1>5 DEF AtBoundary, Current
<1>7. srv.keys \ db.keys \subseteq y
  <2> SUFFICES ASSUME NEW k \in srv.keys, k \notin db.keys PROVE k \in y
    OBVIOUS
  <2>1. CASE \E j \in 1..Len(made) : j > sent /\ made[j].do = "release" /\ made[j].on = k
    <3>1. PICK j \in 1..Len(made) : j > sent /\ made[j].do = "release" /\ made[j].on = k
      BY <2>1
    <3>2. j \in (sent + 1)..Len(made)
      BY <3>1, <1>4, SeqFacts DEF TypeOK
    <3>3. k \in Unsent("release")
      BY <3>1, <3>2 DEF Unsent
    <3> QED BY <3>3
  <2> QED BY <1>6, <2>1
<1>8. db.buttons = {}
  BY <1>3 DEF Clean, AtLast, Down
<1>9. srv.buttons = {} /\ db.keys \subseteq srv.keys /\ There(srv.at, db.at)
  <2>1. CASE AtStep("wait")
    <3>1. AtLast(Current)
      BY <1>4, <2>1 DEF Clean
    <3> QED BY <1>8, <3>1 DEF AtLast, Current
  <2>2. CASE phase = "pump"
    <3>1. cmd.do \notin {"drag", "key", "keydown"}
      BY <2>2 DEF Control
    <3>2. \A k : ~Owed(k)
      BY <1>3, <3>1 DEF Owed, Held
    <3>3. srv.buttons = {} /\ db.keys \subseteq srv.keys
      BY <1>4, <1>5, <3>1, <3>2 DEF AtBoundary, Current
    <3>4. Pumping
      BY <2>2 DEF Control, Pumping
    <3>5. There(Current.at, db.at)
      <4>1. sent \in sent..Len(made)
        BY <1>4, SeqFacts DEF TypeOK
      <4> QED BY <1>4, <3>4, <4>1 DEF Level
    <3> QED BY <3>3, <3>5 DEF Current
  <2> QED BY <1>1, <2>1, <2>2
<1> HIDE DEF x, y
<1> QED BY <1>1, <1>2, <1>6, <1>7, <1>8, <1>9 DEF NothingSticks, There

------------------------------------------------------------------------------
(* What arrives is what is asked for. *)

\* The gesture that does what the command asks for.
Aim == IF cmd.do \in {"click", "doubleclick"} THEN 2 ELSE 1
Gesture == Program(cmd)[Aim].gesture

\* What it asks for, and where an operation stands in it.
Wanted(e) == e.do \in {"push", "let", "turn"} \/ (e.do = "press" /\ ~(cmd.do = "type" /\ e.on = LSHIFT))
Ordinal(b, o) == [batch |-> b, op |-> o]
Earlier(p, q) == p.batch < q.batch \/ (p.batch = q.batch /\ p.op < q.op)
Passed(p) == pos > Aim \/ (pos = Aim /\ Earlier(p, next))

\* What is pressed in the batch before this operation.
With(B, o) == {B[j].on : j \in {l \in DOMAIN B : l < o /\ B[l].do = "press"}}

\* Where a button goes down and comes up.
Spot(do) == IF cmd.do = "drag" /\ do = "push" THEN Target(cmd.from) ELSE Target(cmd.to)

\* An event that was wanted is one the gesture asks for, with the state it asks for.
AsWanted(view, n) ==
    LET b == made[n].of.batch
        o == made[n].of.op
    IN  /\ made[n].of = Ordinal(b, o)
        /\ pos >= Aim /\ Passed(made[n].of)
        /\ b \in DOMAIN Gesture /\ o \in DOMAIN Gesture[b]
        /\ Gesture[b][o].do = made[n].do /\ Gesture[b][o].on = made[n].on
        /\ made[n].do = "press" =>
             /\ With(Gesture[b], o) \ {made[n].on} \subseteq view[n - 1].keys
             /\ view[n - 1].keys \ {made[n].on}
                  \subseteq With(Gesture[b], o) \cup (ghost.before \ Handled(n - 1))
             /\ With(Gesture[b], o) \subseteq Handled(Len(made))
        /\ made[n].do \in {"push", "let"} => There(view[n - 1].at, Spot(made[n].do))

\* Such events come in the order asked for, and none is left out.
InStep(view) ==
    /\ \A n \in 1..Len(made) : Wanted(made[n]) => AsWanted(view, n)
    /\ \A n, m \in 1..Len(made) :
         n < m /\ Wanted(made[n]) /\ Wanted(made[m]) => Earlier(made[n].of, made[m].of)
    /\ \A b \in DOMAIN Gesture : \A o \in DOMAIN Gesture[b] :
         Wanted(Gesture[b][o]) /\ pos >= Aim /\ Passed(Ordinal(b, o)) =>
           \E n \in 1..Len(made) : Wanted(made[n]) /\ made[n].of = Ordinal(b, o)

\* What the gesture under way has done so far, f being the end of the course.
SoFar(f) ==
    /\ cmd.do \in {"type", "utype", "key", "keydown"} /\ pos = 1 /\ Making =>
         /\ \A j \in DOMAIN Batch :
              j < next.op /\ (\A l \in DOMAIN Batch : j <= l /\ l < next.op => Batch[l].do = "press")
                => Batch[j].on \in db.keys
         /\ With(Batch, next.op) \subseteq Handled(Len(made))
         /\ f.keys \subseteq Spared \cup With(Batch, next.op)
    /\ cmd.do \in {"click", "doubleclick"} => (pos = 1 /\ next.batch = 1) \/ db.at = Target(cmd.to)
    /\ cmd.do = "drag" /\ pos = 1 /\ next.batch \in {2, 3} => db.at = Target(cmd.from)
    /\ cmd.do = "drag" /\ pos = 1 /\ next.batch = 4 => db.at = Target(cmd.to)
    /\ cmd.do = "keyup" => (pos = 1 /\ next.batch = 1) \/ ParseKeySpec(cmd.spec).key \notin db.keys
    /\ cmd.do = "keydown" => (pos = 1 /\ next.batch = 1) \/ ParseKeySpec(cmd.spec).key \in db.keys

\* A command presses and lets go only keys of its own.
KeysOf(c) == IF c.do \in {"keydown", "keyup"} THEN {ParseKeySpec(c.spec).key} ELSE Touched(c)
ItsOwn ==
    \A n \in 1..Len(made) : made[n].do \in {"press", "release"} =>
      made[n].on \in KeysOf(cmd) /\ (cmd.do = "keyup" => made[n].do = "release")

Faithful(view) == cmd.do # "calibrate" => InStep(view) /\ SoFar(view[Len(made)]) /\ ItsOwn

\* The gestures of every command but calibrate.
GestureFor(c) ==
    LET a == ParseKeySpec(c.spec)
    IN  CASE c.do = "type"        -> TypeText(c.text)
          [] c.do = "utype"       -> TypeUnicode(c.text)
          [] c.do = "key"         -> IF c.hold THEN <<ComboDown(a)>> ELSE <<Combo(a)>>
          [] c.do = "keydown"     -> << <<Press(a.key)>> >>
          [] c.do = "keyup"       -> << <<Release(a.key)>> >>
          [] c.do = "move"        -> << <<MoveTo(Target(c.to))>> >>
          [] c.do = "click"       -> << MouseClick(c.button) >>
          [] c.do = "doubleclick" -> << MouseClick("left") \o MouseClick("left") >>
          [] c.do = "drag"        -> MouseDrag(Target(c.from), Target(c.to))
          [] c.do = "scroll"      -> Scroll(c.direction, c.notches)
          [] c.do = "mouse-hide"  -> << <<MoveTo(MaxU16)>> >>

\* The one gesture of a command that does what it asks for, and what the others are.
LEMMA GestureIs ==
  ASSUME cmd \in Commands, cmd.do # "calibrate"
  PROVE  /\ Aim \in DOMAIN Program(cmd) /\ Program(cmd)[Aim].step = "generate"
         /\ Gesture = GestureFor(cmd)
         /\ \A p \in DOMAIN Program(cmd) : Program(cmd)[p].step = "generate" /\ p # Aim =>
              \/ /\ p = 1 /\ cmd.do \in {"click", "doubleclick"}
                 /\ Program(cmd)[p].gesture = << <<MoveTo(Target(cmd.to))>> >>
              \/ /\ p = 3 /\ cmd.do = "key" /\ cmd.hold
                 /\ Program(cmd)[p].gesture = <<ComboUp(ParseKeySpec(cmd.spec))>>
<1> DEFINE P == Program(cmd)
           g == GestureFor(cmd)
           a == ParseKeySpec(cmd.spec)
<1>0. cmd.do = "key" => cmd.hold \in BOOLEAN
  BY CommandTypes
<1>1. ASSUME NEW x, P = <<x>>, x = Generating(g), Aim = 1
      PROVE  /\ Aim \in DOMAIN P /\ P[Aim].step = "generate" /\ P[Aim].gesture = g
             /\ \A p \in DOMAIN P : P[p].step = "generate" => p = Aim
  <2> HIDE DEF P, g
  <2>1. DOMAIN P = 1..1 /\ P[1] = x
    BY <1>1, Single
  <2> QED BY <1>1, <2>1, StepFields
<1>2. ASSUME NEW x, P = <<x, Waiting>>, x \in {Generating(g), GeneratingPumped(g)}, Aim = 1
      PROVE  /\ Aim \in DOMAIN P /\ P[Aim].step = "generate" /\ P[Aim].gesture = g
             /\ \A p \in DOMAIN P : P[p].step = "generate" => p = Aim
  <2> HIDE DEF P, g
  <2>1. DOMAIN P = 1..2 /\ P[1] = x /\ P[2] = Waiting
    BY <1>2, Pair
  <2>2. \A p \in 1..2 : p \in {1, 2}
    OBVIOUS
  <2> QED BY <1>2, <2>1, <2>2, StepFields
<1>3. CASE cmd.do \in {"type", "utype"}
  <2>1. P = <<GeneratingPumped(g), Waiting>> /\ Aim = 1
    BY <1>3 DEF Program, Typing, GestureFor, Aim
  <2> QED BY <1>2, <2>1 DEF Gesture
<1>4. CASE cmd.do = "key" /\ ~cmd.hold
  <2>1. P = <<Generating(g), Waiting>> /\ Aim = 1
    BY <1>4 DEF Program, KeySteps, GestureFor, Aim
  <2> QED BY <1>2, <2>1 DEF Gesture
<1>5. CASE cmd.do = "key" /\ cmd.hold
  <2> DEFINE x == Generating(g)
             y == Generating(<<ComboUp(a)>>)
  <2>1. P = <<x, Waiting, y, Waiting>> /\ Aim = 1
    BY <1>5 DEF Program, KeySteps, GestureFor, Aim
  <2>2. x.step = "generate" /\ x.gesture = g /\ y.gesture = <<ComboUp(a)>>
    BY StepFields
  <2> HIDE DEF P, x, y, g
  <2>3. DOMAIN P = 1..4 /\ P[1] = x /\ P[2] = Waiting /\ P[3] = y /\ P[4] = Waiting
    BY <2>1, Quadruple
  <2>4. \A p \in 1..4 : p \in {1, 2, 3, 4}
    OBVIOUS
  <2>5. \A p \in DOMAIN P : P[p].step = "generate" /\ p # 1 => p = 3
    BY <2>3, <2>4, StepFields
  <2>6. Gesture = g
    BY <2>1, <2>2, <2>3 DEF Gesture, P
  <2> QED BY <1>5, <2>1, <2>2, <2>3, <2>5, <2>6 DEF P, g
<1>6. CASE cmd.do \in {"keydown", "keyup", "move"}
  <2>1. P = <<Generating(g)>> /\ Aim = 1
    BY <1>6 DEF Program, GestureFor, Aim
  <2> QED BY <1>1, <2>1 DEF Gesture
<1>7. CASE cmd.do \in {"click", "doubleclick"}
  <2> DEFINE x == Generating(<< <<MoveTo(Target(cmd.to))>> >>)
             y == Generating(g)
  <2>1. P = <<x, y, Waiting>> /\ Aim = 2
    BY <1>7 DEF Program, ClickSteps, GestureFor, Aim
  <2>2. y.step = "generate" /\ y.gesture = g /\ x.gesture = << <<MoveTo(Target(cmd.to))>> >>
    BY StepFields
  <2> HIDE DEF P, x, y, g
  <2>3. DOMAIN P = 1..3 /\ P[1] = x /\ P[2] = y /\ P[3] = Waiting
    BY <2>1, Triple
  <2>4. \A p \in 1..3 : p \in {1, 2, 3}
    OBVIOUS
  <2>5. \A p \in DOMAIN P : P[p].step = "generate" /\ p # 2 => p = 1
    BY <2>3, <2>4, StepFields
  <2>6. Gesture = g
    BY <2>1, <2>2, <2>3 DEF Gesture, P
  <2> QED BY <1>7, <2>1, <2>2, <2>3, <2>5, <2>6 DEF P, g
<1>8. CASE cmd.do \in {"drag", "scroll", "mouse-hide"}
  <2>1. P = <<Generating(g), Waiting>> /\ Aim = 1
    BY <1>8 DEF Program, DragSteps, GestureFor, Aim
  <2> QED BY <1>2, <2>1 DEF Gesture
<1> QED BY <1>0, <1>3, <1>4, <1>5, <1>6, <1>7, <1>8, CommandTypes

\* Its batches and operations are numbered from 1.
LEMMA GestureNumbers ==
  ASSUME cmd \in Commands, cmd.do # "calibrate"
  PROVE  /\ IsSeq(Gesture)
         /\ \A b \in DOMAIN Gesture :
              /\ b \in Nat \ {0} /\ b <= Len(Gesture) /\ IsSeq(Gesture[b])
              /\ \A o \in DOMAIN Gesture[b] :
                   o \in Nat \ {0} /\ o <= Len(Gesture[b]) /\ Gesture[b][o].do \in Operations
<1>1. Aim \in DOMAIN Program(cmd) /\ Program(cmd)[Aim].step = "generate" /\ Gesture = GestureFor(cmd)
  BY GestureIs
<1>2. IsSeq(Gesture)
  <2>1. CASE cmd.do = "drag"
    BY <1>1, <2>1, DragShape DEF GestureFor
  <2>2. CASE cmd.do # "drag"
    BY <1>1, <2>2, ProgramsOk DEF ProgramOk, StepOk, IsGesture, Gesture
  <2> QED BY <2>1, <2>2
<1>3. DOMAIN Gesture = 1..Len(Gesture) /\ Len(Gesture) \in Nat
  BY <1>2, SeqFacts
<1>4. ASSUME NEW b \in DOMAIN Gesture
      PROVE  /\ b \in Nat \ {0} /\ b <= Len(Gesture) /\ IsSeq(Gesture[b])
             /\ \A o \in DOMAIN Gesture[b] :
                  o \in Nat \ {0} /\ o <= Len(Gesture[b]) /\ Gesture[b][o].do \in Operations
  <2>1. b \in Nat \ {0} /\ b <= Len(Gesture)
    BY <1>3
  <2>2. IsSeq(Gesture[b]) /\ \A o \in DOMAIN Gesture[b] : Gesture[b][o].do \in Operations
    BY <1>1, <2>1, BatchFacts DEF Gesture
  <2>3. DOMAIN Gesture[b] = 1..Len(Gesture[b]) /\ Len(Gesture[b]) \in Nat
    BY <2>2, SeqFacts
  <2> QED BY <2>1, <2>2, <2>3
<1> QED BY <1>2, <1>4

\* The first n operations of B press a key, the others let one go.
DownThenUp(B, n) == \A o \in DOMAIN B : B[o].do = (IF o <= n THEN "press" ELSE "release")

\* A character, operation by operation.
LEMMA StrokeShape ==
  ASSUME NEW c
  PROVE  LET B == Stroke(c)
             s == Layout[c]
         IN  /\ s.shift => /\ DOMAIN B = 1..4 /\ B[1] = Press(LSHIFT) /\ B[2] = Press(s.key)
                           /\ B[3] = Release(s.key) /\ B[4] = Release(LSHIFT)
             /\ ~s.shift => DOMAIN B = 1..2 /\ B[1] = Press(s.key) /\ B[2] = Release(s.key)
             /\ DownThenUp(B, IF s.shift THEN 2 ELSE 1)
<1> DEFINE B == Stroke(c)
           s == Layout[c]
<1>1. CASE s.shift
  <2>1. /\ DOMAIN B = 1..4 /\ B[1] = Press(LSHIFT) /\ B[2] = Press(s.key)
        /\ B[3] = Release(s.key) /\ B[4] = Release(LSHIFT)
    BY <1>1, Quadruple DEF Stroke
  <2> HIDE DEF B, s
  <2>2. \A o \in DOMAIN B : o \in {1, 2, 3, 4}
    BY <2>1
  <2>3. DownThenUp(B, 2)
    BY <2>1, <2>2, Fields DEF DownThenUp
  <2> QED BY <1>1, <2>1, <2>3 DEF B, s
<1>2. CASE ~s.shift
  <2>1. DOMAIN B = 1..2 /\ B[1] = Press(s.key) /\ B[2] = Release(s.key)
    BY <1>2, Pair DEF Stroke
  <2> HIDE DEF B, s
  <2>2. \A o \in DOMAIN B : o \in {1, 2}
    BY <2>1
  <2>3. DownThenUp(B, 1)
    BY <2>1, <2>2, Fields DEF DownThenUp
  <2> QED BY <1>2, <2>1, <2>3 DEF B, s
<1> QED BY <1>1, <1>2

\* A gesture of one batch.
LEMMA OnlyBatch ==
  ASSUME NEW g, NEW B, g = <<B>>
  PROVE  DOMAIN g = {1} /\ g[1] = B
<1>1. DOMAIN g = 1..1 /\ g[1] = B
  BY Single
<1> QED BY <1>1

\* The batch that presses a combination: its keys in order, each under those before.
LEMMA KeyShape ==
  ASSUME cmd \in Commands, cmd.do = "key"
  PROVE  LET a == ParseKeySpec(cmd.spec)
             n == Len(a.modifiers)
             B == Gesture[1]
         IN  /\ n \in Nat /\ IsSeq(a.modifiers) /\ DOMAIN Gesture = {1}
             /\ 1..(n + 1) \subseteq DOMAIN B /\ DownThenUp(B, n + 1)
             /\ \A i \in 1..n : B[i] = Press(a.modifiers[i])
             /\ B[n + 1] = Press(a.key)
<1> DEFINE a == ParseKeySpec(cmd.spec)
           n == Len(a.modifiers)
           B == Gesture[1]
<1>1. IsSeq(a.modifiers) /\ cmd.hold \in BOOLEAN
  BY CommandTypes, SpecFacts
<1>2. Gesture = IF cmd.hold THEN <<ComboDown(a)>> ELSE <<Combo(a)>>
  BY GestureIs DEF GestureFor
<1>3. n \in Nat
  BY <1>1, SeqFacts
<1> HIDE DEF a
<1>4. DOMAIN Gesture = {1} /\ B = IF cmd.hold THEN ComboDown(a) ELSE Combo(a)
  BY <1>2, OnlyBatch
<1>5. CASE cmd.hold
  <2>1. /\ DOMAIN B = 1..(n + 1)
        /\ \A i \in 1..n : B[i] = Press(a.modifiers[i])
        /\ B[n + 1] = Press(a.key)
    BY <1>1, <1>4, <1>5, DownShape
  <2> HIDE DEF B, n
  <2>2. ASSUME NEW o \in DOMAIN B PROVE B[o].do = "press" /\ o <= n + 1
    <3>1. o \in 1..n \/ o = n + 1
      BY <1>3, <2>1
    <3> QED BY <1>3, <2>1, <3>1, Fields
  <2>3. DownThenUp(B, n + 1)
    BY <2>2 DEF DownThenUp
  <2> QED BY <1>1, <1>3, <1>4, <2>1, <2>3 DEF B, n, a
<1>6. CASE ~cmd.hold
  <2>1. /\ DOMAIN B = 1..(2 * n + 2)
        /\ \A i \in 1..n : B[i] = Press(a.modifiers[i])
        /\ B[n + 1] = Press(a.key) /\ B[n + 2] = Release(a.key)
        /\ \A i \in 1..n : B[n + 2 + i] = Release(a.modifiers[n - i + 1])
    BY <1>1, <1>4, <1>6, ComboShape
  <2> HIDE DEF B, n
  <2>2. ASSUME NEW o \in DOMAIN B PROVE B[o].do = IF o <= n + 1 THEN "press" ELSE "release"
    <3>1. CASE o \in 1..n
      <4>1. o <= n + 1
        BY <1>3, <3>1
      <4> QED BY <2>1, <3>1, <4>1, Fields
    <3>2. CASE o = n + 1
      <4>1. o <= n + 1
        BY <1>3, <3>2
      <4> QED BY <2>1, <3>2, <4>1, Fields
    <3>3. CASE o = n + 2
      <4>1. ~(o <= n + 1)
        BY <1>3, <3>3
      <4> QED BY <2>1, <3>3, <4>1, Fields
    <3>4. CASE o > n + 2
      <4>1. o - (n + 2) \in 1..n /\ o = n + 2 + (o - (n + 2)) /\ ~(o <= n + 1)
        BY <1>3, <2>1, <3>4
      <4>2. B[n + 2 + (o - (n + 2))].do = "release"
        BY <2>1, <4>1, Fields
      <4> QED BY <4>1, <4>2
    <3> QED BY <1>3, <2>1, <3>1, <3>2, <3>3, <3>4
  <2>3. DownThenUp(B, n + 1)
    BY <2>2 DEF DownThenUp
  <2>4. 1..(n + 1) \subseteq DOMAIN B
    BY <1>3, <2>1
  <2> QED BY <1>1, <1>3, <1>4, <2>1, <2>3, <2>4 DEF B, n, a
<1> QED BY <1>1, <1>5, <1>6

\* What is pressed is pressed before anything is let go.
LEMMA KeyboardShape ==
  ASSUME cmd \in Commands, cmd.do \in {"type", "utype", "key", "keydown"}, NEW b \in DOMAIN Gesture
  PROVE  \E n \in Nat : DownThenUp(Gesture[b], n)
<1>1. Gesture = GestureFor(cmd)
  BY GestureIs
<1>2. CASE cmd.do = "type"
  <2>1. Gesture = TypeText(cmd.text) /\ IsSeq(cmd.text)
    BY <1>1, <1>2, CommandTypes DEF GestureFor
  <2>2. b \in DOMAIN cmd.text
        /\ Gesture[b] = IF cmd.text[b] \in DOMAIN Layout THEN Stroke(cmd.text[b]) ELSE <<>>
    BY <2>1, TextIsGesture
  <2>3. DownThenUp(<<>>, 0)
    BY Nothing DEF DownThenUp
  <2>4. \E n \in Nat : DownThenUp(Stroke(cmd.text[b]), n)
    <3>1. DownThenUp(Stroke(cmd.text[b]), IF Layout[cmd.text[b]].shift THEN 2 ELSE 1)
      BY StrokeShape
    <3>2. (IF Layout[cmd.text[b]].shift THEN 2 ELSE 1) \in Nat
      OBVIOUS
    <3> QED BY <3>1, <3>2
  <2> QED BY <2>2, <2>3, <2>4
<1>3. CASE cmd.do = "utype"
  <2>1. Gesture = TypeUnicode(cmd.text) /\ IsSeq(cmd.text)
    BY <1>1, <1>3, CommandTypes DEF GestureFor
  <2> DEFINE k == Unicode(cmd.text[b])
             B == <<Press(k), Release(k)>>
  <2>2. Gesture[b] = B
    BY <2>1, UnicodeIsGesture
  <2>3. DOMAIN B = 1..2 /\ B[1] = Press(k) /\ B[2] = Release(k)
    BY Pair
  <2> HIDE DEF B, k
  <2>4. \A o \in DOMAIN B : o \in {1, 2}
    BY <2>3
  <2>5. DownThenUp(B, 1)
    BY <2>3, <2>4, Fields DEF DownThenUp
  <2> QED BY <2>2, <2>5
<1>4. CASE cmd.do = "key"
  <2> DEFINE n == Len(ParseKeySpec(cmd.spec).modifiers)
  <2>1. n \in Nat /\ DOMAIN Gesture = {1} /\ DownThenUp(Gesture[1], n + 1)
    BY <1>4, KeyShape
  <2> HIDE DEF n
  <2> QED BY <2>1
<1>5. CASE cmd.do = "keydown"
  <2> DEFINE op == Press(ParseKeySpec(cmd.spec).key)
  <2>1. Gesture = << <<op>> >>
    BY <1>1, <1>5 DEF GestureFor
  <2>2. op.do = "press"
    BY Fields
  <2> HIDE DEF op
  <2>3. Gesture[b] = <<op>>
    BY <2>1, OnlyBatch
  <2>4. DOMAIN <<op>> = {1} /\ <<op>>[1] = op
    BY OnlyBatch
  <2>5. DownThenUp(<<op>>, 1)
    BY <2>2, <2>4 DEF DownThenUp
  <2> QED BY <2>3, <2>5
<1> QED BY <1>2, <1>3, <1>4, <1>5

\* Only typing and combinations press keys, only keys are let go with "release".
LEMMA MouseShape ==
  ASSUME cmd \in Commands, cmd.do \notin {"type", "utype", "key", "keydown", "calibrate"},
         NEW b \in DOMAIN Gesture, NEW o \in DOMAIN Gesture[b]
  PROVE  /\ Gesture[b][o].do # "press"
         /\ cmd.do = "keyup" => b = 1 /\ o = 1 /\ Gesture[b][o] = Release(ParseKeySpec(cmd.spec).key)
         /\ cmd.do \in {"move", "mouse-hide"} => Gesture[b][o].do = "move"
         /\ cmd.do = "click" => b = 1 /\ o \in {1, 2} /\ Gesture[b][1] = Push(cmd.button)
                                /\ Gesture[b][2] = LetGo(cmd.button) /\ DOMAIN Gesture[b] = 1..2
         /\ cmd.do = "doubleclick" => b = 1 /\ o \in {1, 2, 3, 4} /\ DOMAIN Gesture[b] = 1..4
              /\ Gesture[b][1] = Push("left") /\ Gesture[b][2] = LetGo("left")
              /\ Gesture[b][3] = Push("left") /\ Gesture[b][4] = LetGo("left")
         /\ cmd.do = "drag" => b \in {1, 2, 3, 4} /\ o = 1
              /\ Gesture[b][1] = CASE b = 1 -> MoveTo(Target(cmd.from))
                                   [] b = 2 -> Push("left")
                                   [] b = 3 -> MoveTo(Target(cmd.to))
                                   [] b = 4 -> LetGo("left")
         /\ cmd.do = "scroll" => b \in 1..cmd.notches /\ o = 1 /\ Gesture[b][1] = Turn(cmd.direction)
<1> DEFINE a == ParseKeySpec(cmd.spec)
<1>1. Gesture = GestureFor(cmd)
  BY GestureIs
<1>2. ASSUME NEW op, Gesture = << <<op>> >> PROVE b = 1 /\ o = 1 /\ Gesture[b][o] = op
  <2>1. b = 1 /\ Gesture[b] = <<op>>
    BY <1>2, OnlyBatch
  <2> QED BY <2>1, OnlyBatch
<1>3. CASE cmd.do = "keyup"
  <2>1. Gesture = << <<Release(a.key)>> >>
    BY <1>1, <1>3 DEF GestureFor
  <2> QED BY <1>2, <1>3, <2>1, Fields
<1>4. CASE cmd.do = "move"
  <2>1. Gesture = << <<MoveTo(Target(cmd.to))>> >>
    BY <1>1, <1>4 DEF GestureFor
  <2> QED BY <1>2, <1>4, <2>1, Fields
<1>5. CASE cmd.do = "mouse-hide"
  <2>1. Gesture = << <<MoveTo(MaxU16)>> >>
    BY <1>1, <1>5 DEF GestureFor
  <2> QED BY <1>2, <1>5, <2>1, Fields
<1>6. CASE cmd.do = "click"
  <2> DEFINE B == MouseClick(cmd.button)
  <2>1. Gesture = <<B>>
    BY <1>1, <1>6 DEF GestureFor
  <2>2. DOMAIN B = 1..2 /\ B[1] = Push(cmd.button) /\ B[2] = LetGo(cmd.button)
    BY ClickIsBatch
  <2> HIDE DEF B
  <2>3. b = 1 /\ Gesture[b] = B
    BY <2>1, OnlyBatch
  <2>4. o \in {1, 2}
    BY <2>2, <2>3
  <2> QED BY <1>6, <2>2, <2>3, <2>4, Fields
<1>7. CASE cmd.do = "doubleclick"
  <2> DEFINE B == MouseClick("left") \o MouseClick("left")
  <2>1. Gesture = <<B>>
    BY <1>1, <1>7 DEF GestureFor
  <2>2. /\ DOMAIN B = 1..4 /\ B[1] = Push("left") /\ B[2] = LetGo("left")
        /\ B[3] = Push("left") /\ B[4] = LetGo("left")
    BY DoubleIsBatch
  <2> HIDE DEF B
  <2>3. b = 1 /\ Gesture[b] = B
    BY <2>1, OnlyBatch
  <2>4. o \in {1, 2, 3, 4}
    BY <2>2, <2>3
  <2> QED BY <1>7, <2>2, <2>3, <2>4, Fields
<1>8. CASE cmd.do = "drag"
  <2> DEFINE p == Target(cmd.from)
             q == Target(cmd.to)
             x == CASE b = 1 -> MoveTo(p) [] b = 2 -> Push("left")
                    [] b = 3 -> MoveTo(q) [] b = 4 -> LetGo("left")
  <2>1. Gesture = MouseDrag(p, q)
    BY <1>1, <1>8 DEF GestureFor
  <2> HIDE DEF p, q
  <2>2. /\ DOMAIN Gesture = 1..4
        /\ Gesture[1] = <<MoveTo(p)>> /\ Gesture[2] = <<Push("left")>>
        /\ Gesture[3] = <<MoveTo(q)>> /\ Gesture[4] = <<LetGo("left")>>
    BY <2>1, DragShape
  <2>3. b \in {1, 2, 3, 4}
    BY <2>2
  <2>4. Gesture[b] = <<x>> /\ x.do # "press"
    BY <2>2, <2>3, Fields
  <2> HIDE DEF x
  <2>5. o = 1 /\ Gesture[b][1] = x
    BY <2>4, OnlyBatch
  <2> QED BY <1>8, <2>3, <2>4, <2>5 DEF x, p, q
<1>9. CASE cmd.do = "scroll"
  <2>1. Gesture = Scroll(cmd.direction, cmd.notches) /\ cmd.notches \in Nat
    BY <1>1, <1>9, CommandTypes DEF GestureFor
  <2>2. b \in 1..cmd.notches /\ Gesture[b] = <<Turn(cmd.direction)>>
    BY <2>1, ScrollIsGesture
  <2> DEFINE x == Turn(cmd.direction)
  <2>3. x.do = "turn"
    BY Fields
  <2> HIDE DEF x
  <2>4. o = 1 /\ Gesture[b][1] = x
    BY <2>2, OnlyBatch DEF x
  <2> QED BY <1>9, <2>2, <2>3, <2>4 DEF x
<1> QED BY <1>3, <1>4, <1>5, <1>6, <1>7, <1>8, <1>9, CommandTypes

\* The command keeps its gesture.
LEMMA SameGesture ==
  ASSUME UNCHANGED <<cmd, offset>>
  PROVE  /\ Aim' = Aim /\ Gesture' = Gesture
         /\ \A do : Spot(do)' = Spot(do)
         /\ \A e : Wanted(e)' <=> Wanted(e)
         /\ Target(cmd.to)' = Target(cmd.to) /\ Target(cmd.from)' = Target(cmd.from)
<1>1. Program(cmd)' = Program(cmd)
  BY SameProgram
<1>2. Aim' = Aim
  BY DEF Aim
<1>3. Gesture' = Gesture
  BY <1>1, <1>2 DEF Gesture
<1>4. Target(cmd.to)' = Target(cmd.to) /\ Target(cmd.from)' = Target(cmd.from)
  BY DEF Target
<1>5. \A do : Spot(do)' = Spot(do)
  BY <1>4 DEF Spot
<1>6. \A e : Wanted(e)' <=> Wanted(e)
  BY DEF Wanted
<1> QED BY <1>2, <1>3, <1>4, <1>5, <1>6

\* A step that generates nothing.
LEMMA FaithfulStays ==
  ASSUME NEW view, Faithful(view), UNCHANGED <<cmd, offset, made>>, ghost'.before = ghost.before,
         cmd.do # "calibrate" => \A n \in 1..Len(made) : Wanted(made[n]) /\ AsWanted(view, n) =>
           pos' >= Aim /\ Passed(made[n].of)',
         cmd.do # "calibrate" => \A b \in DOMAIN Gesture : \A o \in DOMAIN Gesture[b] :
           pos' >= Aim /\ Passed(Ordinal(b, o))' => pos >= Aim /\ Passed(Ordinal(b, o)),
         cmd.do # "calibrate" => SoFar(view[Len(made)])'
  PROVE  Faithful(view)'
<1>6. ASSUME cmd.do # "calibrate" PROVE ItsOwn'
  <2>1. KeysOf(cmd)' = KeysOf(cmd)
    BY DEF KeysOf, Touched, Pressed, Typed
  <2> QED BY <1>6, <2>1 DEF Faithful, ItsOwn
<1> SUFFICES ASSUME cmd.do # "calibrate" PROVE InStep(view)'
  BY <1>6 DEF Faithful
<1>1. InStep(view)
  BY DEF Faithful
<1>7. \A n : Handled(n)' = Handled(n)
  BY DEF Handled
<1>2. /\ Aim' = Aim /\ Gesture' = Gesture
      /\ \A do : Spot(do)' = Spot(do)
      /\ \A e : Wanted(e)' <=> Wanted(e)
  BY SameGesture
<1>3. ASSUME NEW n \in 1..Len(made), Wanted(made[n]) PROVE AsWanted(view, n)'
  <2>1. AsWanted(view, n)
    BY <1>1, <1>3 DEF InStep
  <2>2. pos' >= Aim /\ Passed(made[n].of)'
    BY <1>3, <2>1
  <2> QED BY <1>2, <1>7, <2>1, <2>2 DEF AsWanted
<1>4. ASSUME NEW b \in DOMAIN Gesture, NEW o \in DOMAIN Gesture[b],
             Wanted(Gesture[b][o]), pos' >= Aim, Passed(Ordinal(b, o))'
      PROVE  \E n \in 1..Len(made) : Wanted(made[n]) /\ made[n].of = Ordinal(b, o)
  <2>1. pos >= Aim /\ Passed(Ordinal(b, o))
    BY <1>4
  <2> QED BY <1>1, <1>4, <2>1 DEF InStep
<1>5. \A n, m \in 1..Len(made) :
        n < m /\ Wanted(made[n]) /\ Wanted(made[m]) => Earlier(made[n].of, made[m].of)
  BY <1>1 DEF InStep
<1> QED BY <1>2, <1>3, <1>4, <1>5 DEF InStep

\* Nothing of it moves on.
LEMMA FaithfulWaits ==
  ASSUME NEW view, Faithful(view), UNCHANGED <<cmd, offset, made, db, pos, next>>,
         ghost'.before = ghost.before, Making' => Making
  PROVE  Faithful(view)'
<1>1. Aim' = Aim /\ Target(cmd.to)' = Target(cmd.to) /\ Target(cmd.from)' = Target(cmd.from)
  BY SameGesture
<1>2. Batch' = Batch
  BY SameStep
<1>3. \A p : Passed(p)' <=> Passed(p)
  BY <1>1 DEF Passed
<1>6. Spared' = Spared /\ Handled(Len(made))' = Handled(Len(made))
  BY DEF Spared, Handled
<1>4. cmd.do # "calibrate" => SoFar(view[Len(made)])'
  BY <1>1, <1>2, <1>6 DEF Faithful, SoFar
<1>5. \A n \in 1..Len(made) : AsWanted(view, n) => pos' >= Aim /\ Passed(made[n].of)'
  BY <1>3 DEF AsWanted
<1> QED BY <1>3, <1>4, <1>5, FaithfulStays

\* On to the next step: what the gesture asks for is all made when its step is done.
LEMMA OnwardFaithful ==
  ASSUME TypeOK, phase = "step", Onward, UNCHANGED <<db, offset, cmd, made, ghost>>,
         Made \/ (pos \in DOMAIN Program(cmd) /\ Program(cmd)[pos].step # "generate"),
         NEW view, Faithful(view)
  PROVE  Faithful(view)'
<1>1. /\ pos' = pos + 1 /\ next' = [batch |-> 1, op |-> 1] /\ next'.batch = 1 /\ next'.op = 1
      /\ pos \in Nat \ {0} /\ next.batch \in Nat \ {0} /\ cmd \in Commands
  BY DEF Onward, AtStart, First, TypeOK
<1>2. Aim' = Aim /\ Target(cmd.to)' = Target(cmd.to) /\ Target(cmd.from)' = Target(cmd.from) /\ Aim \in Nat
  BY SameGesture DEF Aim
<1>3. \A p : pos >= Aim /\ Passed(p) => pos' >= Aim /\ Passed(p)'
  BY <1>1, <1>2 DEF Passed
<1>4. ASSUME cmd.do # "calibrate", NEW b \in DOMAIN Gesture, NEW o \in DOMAIN Gesture[b],
             pos' >= Aim, Passed(Ordinal(b, o))'
      PROVE  pos >= Aim /\ Passed(Ordinal(b, o))
  <2>1. b \in Nat \ {0} /\ o \in Nat \ {0} /\ b <= Len(Gesture) /\ Len(Gesture) \in Nat
    BY <1>1, <1>4, GestureNumbers, SeqFacts
  <2>2. ~Earlier(Ordinal(b, o), next')
    BY <1>1, <2>1 DEF Earlier, Ordinal
  <2>3. pos' > Aim
    BY <1>2, <1>4, <2>2 DEF Passed
  <2>4. CASE pos > Aim
    BY <1>1, <1>2, <2>4 DEF Passed
  <2>5. CASE pos = Aim
    <3>1. Program(cmd)[pos].step = "generate"
      BY <1>1, <1>4, <2>5, GestureIs
    <3>2. next.batch > Len(Gesture)
      BY <2>5, <3>1 DEF Made, Here, Gesture
    <3>3. Earlier(Ordinal(b, o), next)
      BY <1>1, <2>1, <3>2 DEF Earlier, Ordinal
    <3> QED BY <1>2, <2>5, <3>3 DEF Passed
  <2> QED BY <1>1, <1>2, <2>3, <2>4, <2>5
<1>5. ASSUME cmd.do # "calibrate" PROVE SoFar(view[Len(made)])'
  <2>1. pos' # 1
    BY <1>1
  <2>2. SoFar(view[Len(made)])
    BY <1>5 DEF Faithful
  <2>3. cmd.do \in {"click", "doubleclick", "keydown", "keyup"} => ~(pos = 1 /\ next.batch = 1)
    <3> SUFFICES ASSUME cmd.do \in {"click", "doubleclick", "keydown", "keyup"}, pos = 1, next.batch = 1 PROVE FALSE
      OBVIOUS
    <3> DEFINE g == Program(cmd)[1].gesture
    <3>1. Program(cmd)[1].step = "generate" /\ \E x : g = <<x>>
      <4>1. CASE cmd.do \in {"keydown", "keyup"}
        BY <1>1, <1>5, <4>1, GestureIs DEF Aim, Gesture, GestureFor
      <4>2. CASE cmd.do \in {"click", "doubleclick"}
        <5> DEFINE x == Generating(<< <<MoveTo(Target(cmd.to))>> >>)
                   y == Generating(GestureFor(cmd))
        <5>1. Program(cmd) = <<x, y, Waiting>>
          BY <4>2 DEF Program, ClickSteps, GestureFor
        <5>2. x.step = "generate" /\ x.gesture = << <<MoveTo(Target(cmd.to))>> >>
          BY StepFields
        <5> HIDE DEF x, y
        <5>3. Program(cmd)[1] = x
          BY <5>1, Triple
        <5> QED BY <5>2, <5>3
      <4> QED BY <4>1, <4>2
    <3>2. Len(g) = 1
      BY <3>1, Single
    <3>3. next.batch > Len(g)
      BY <3>1 DEF Made, Here
    <3> QED BY <3>2, <3>3
  <2> QED BY <1>2, <2>1, <2>2, <2>3 DEF SoFar
<1>6. \A n \in 1..Len(made) : AsWanted(view, n) => pos' >= Aim /\ Passed(made[n].of)'
  BY <1>3 DEF AsWanted
<1> QED BY <1>4, <1>5, <1>6, FaithfulStays

\* A character that has no scancode asks for nothing.
LEMMA LeaveOutFaithful ==
  ASSUME TypeOK, LeaveOut, NEW view, Faithful(view)
  PROVE  Faithful(view)'
<1>1. /\ Making /\ Batch = <<>> /\ next' = [batch |-> next.batch + 1, op |-> 1]
      /\ next'.batch = next.batch + 1 /\ next'.op = 1 /\ next.batch \in Nat /\ next.op = 1
      /\ UNCHANGED <<db, offset, cmd, pos, made, phase, ghost>>
  BY DEF LeaveOut, events, FollowingBatch, TypeOK, Fits, Making, AtStep
<1>2. Aim' = Aim /\ Target(cmd.to)' = Target(cmd.to) /\ Target(cmd.from)' = Target(cmd.from)
  BY <1>1, SameGesture
<1>3. /\ cmd \in Commands /\ Here = Program(cmd)[pos] /\ pos \in DOMAIN Program(cmd)
      /\ Program(cmd)[pos].step = "generate" /\ phase = "step"
      /\ cmd.do = "drag" => pos = 1 /\ next.batch \in 1..4
  BY <1>1, MakingFacts
<1>4. Aim \in Nat /\ pos \in Nat
  BY DEF Aim, TypeOK
<1>5. ASSUME cmd.do # "calibrate", NEW n \in 1..Len(made), AsWanted(view, n)
      PROVE  pos' >= Aim /\ Passed(made[n].of)'
  <2> DEFINE b == made[n].of.batch
             o == made[n].of.op
  <2>1. /\ made[n].of = Ordinal(b, o) /\ pos >= Aim /\ Passed(made[n].of)
        /\ b \in DOMAIN Gesture /\ o \in DOMAIN Gesture[b]
    BY <1>5 DEF AsWanted
  <2> HIDE DEF b, o
  <2>2. b \in Nat /\ o \in Nat
    BY <1>3, <1>5, <2>1, GestureNumbers
  <2>3. Earlier(Ordinal(b, o), next) => Earlier(Ordinal(b, o), next')
    BY <1>1, <2>2 DEF Earlier, Ordinal
  <2> QED BY <1>1, <1>2, <2>1, <2>3 DEF Passed
<1>6. ASSUME cmd.do # "calibrate", NEW b \in DOMAIN Gesture, NEW o \in DOMAIN Gesture[b],
             pos' >= Aim, Passed(Ordinal(b, o))'
      PROVE  pos >= Aim /\ Passed(Ordinal(b, o))
  <2>1. b \in Nat /\ o \in Nat \ {0}
    BY <1>3, <1>6, GestureNumbers
  <2>2. CASE pos > Aim
    BY <1>1, <1>2, <1>6, <2>2 DEF Passed
  <2>3. CASE pos = Aim
    <3>1. Earlier(Ordinal(b, o), next')
      BY <1>1, <1>2, <1>4, <1>6, <2>3 DEF Passed
    <3>2. b < next'.batch
      BY <1>1, <2>1, <3>1 DEF Earlier, Ordinal
    <3>3. b # next.batch
      BY <1>1, <1>3, <2>3, Nothing DEF Batch, Gesture
    <3>4. Earlier(Ordinal(b, o), next)
      BY <1>1, <2>1, <3>2, <3>3 DEF Earlier, Ordinal
    <3> QED BY <1>1, <1>2, <1>6, <2>3, <3>4 DEF Passed
  <2> QED BY <1>1, <1>2, <1>6, <2>2, <2>3 DEF Passed
<1>7. ASSUME cmd.do # "calibrate" PROVE SoFar(view[Len(made)])'
  <2>0. PICK f : f = view[Len(made)]
    OBVIOUS
  <2>1. SoFar(f)
    BY <1>7, <2>0 DEF Faithful
  <2>2. DOMAIN Batch = {}
    BY <1>1, Nothing
  <2>3. cmd.do \notin {"drag", "keydown", "keyup"}
    <3>1. cmd.do \in {"drag", "keydown", "keyup"} => pos = Aim
      <4>1. Aim = 1 \/ cmd.do \notin {"drag", "keydown", "keyup"}
        BY DEF Aim
      <4> QED BY <1>3, <1>7, <4>1, GestureIs
    <3>2. CASE cmd.do = "drag"
      <4>1. Batch = MouseDrag(Target(cmd.from), Target(cmd.to))[next.batch] /\ next.batch \in {1, 2, 3, 4}
        BY <1>3, <3>1, <3>2, DragProgram DEF Batch
      <4>2. PICK x : Batch = <<x>>
        BY <4>1, DragShape
      <4> QED BY <1>1, <4>2, Single, Nothing
    <3>3. CASE cmd.do = "keyup"
      <4>1. Gesture = << <<Release(ParseKeySpec(cmd.spec).key)>> >> /\ Here.gesture = Gesture
        BY <1>3, <1>7, <3>1, <3>3, GestureIs DEF GestureFor, Gesture
      <4>2. next.batch \in DOMAIN Gesture
        BY <1>1, <4>1, MakingFacts
      <4>3. Batch = <<Release(ParseKeySpec(cmd.spec).key)>>
        BY <4>1, <4>2, OnlyBatch DEF Batch
      <4> QED BY <1>1, <4>3, Single, Nothing
    <3>4. CASE cmd.do = "keydown"
      <4>1. Gesture = << <<Press(ParseKeySpec(cmd.spec).key)>> >> /\ Here.gesture = Gesture
        BY <1>3, <1>7, <3>1, <3>4, GestureIs DEF GestureFor, Gesture
      <4>2. next.batch \in DOMAIN Gesture
        BY <1>1, <4>1, MakingFacts
      <4>3. Batch = <<Press(ParseKeySpec(cmd.spec).key)>>
        BY <4>1, <4>2, OnlyBatch DEF Batch
      <4> QED BY <1>1, <4>3, Single, Nothing
    <3> QED BY <3>2, <3>3, <3>4
  <2>4. cmd.do \in {"click", "doubleclick"} => db.at = Target(cmd.to)
    <3> SUFFICES ASSUME cmd.do \in {"click", "doubleclick"}, pos = 1, next.batch = 1 PROVE FALSE
      BY <2>1 DEF SoFar
    <3>1. Here.gesture = << <<MoveTo(Target(cmd.to))>> >>
      BY <1>3, <1>7, GestureIs DEF Aim
    <3>2. Batch = <<MoveTo(Target(cmd.to))>>
      BY <3>1, OnlyBatch DEF Batch
    <3> QED BY <1>1, <3>2, Single, Nothing
  <2>5. ASSUME cmd.do \in {"type", "utype", "key", "keydown"}, pos = 1, Making'
        PROVE  /\ \A j \in (DOMAIN Batch)' : ~(j < next'.op)
               /\ f.keys \subseteq Spared
    <3>1. f.keys \subseteq Spared \cup With(Batch, next.op)
      BY <1>1, <2>1, <2>5 DEF SoFar
    <3>2. With(Batch, next.op) = {}
      BY <2>2 DEF With
    <3>3. (DOMAIN Batch)' \subseteq Nat \ {0}
      <4>1. Gesture' = Gesture /\ Aim' = Aim /\ Aim = 1
        BY <1>1, <2>5, SameGesture DEF Aim
      <4>2. Batch' = Gesture[next'.batch] /\ next'.batch \in DOMAIN Gesture
        <5>1. Program(cmd)' = Program(cmd) /\ Here' = Gesture' => TRUE
          OBVIOUS
        <5>2. Here'.gesture = Gesture
          <6>1. Program(cmd)' = Program(cmd)
            BY <1>1, SameProgram
          <6> QED BY <1>1, <2>5, <4>1, <6>1 DEF Here, Gesture
        <5>3. next'.batch <= Len(Gesture)
          BY <2>5, <5>2 DEF Making
        <5>4. IsSeq(Gesture)
          BY <1>3, <1>7, GestureNumbers
        <5>5. DOMAIN Gesture = 1..Len(Gesture) /\ Len(Gesture) \in Nat
          BY <5>4, SeqFacts
        <5> QED BY <1>1, <5>2, <5>3, <5>5 DEF Batch
      <4> QED BY <1>3, <1>7, <4>2, GestureNumbers
    <3> QED BY <1>1, <3>1, <3>2, <3>3
  <2>6. cmd.do \in {"type", "utype", "key", "keydown"} /\ pos = 1 /\ Making' =>
          /\ \A j \in (DOMAIN Batch)' : ~(j < next'.op)
          /\ f.keys \subseteq Spared \cup With(Batch', next'.op)
    BY <2>5
  <2>7. SoFar(f)'
    <3> USE <1>1, <1>2
    <3>1. cmd'.do \in {"type", "utype", "key", "keydown"} /\ pos' = 1 /\ Making' =>
            \A j \in (DOMAIN Batch)' : ~(j < next'.op)
      BY <2>6
    <3>2. cmd'.do \in {"type", "utype", "key", "keydown"} /\ pos' = 1 /\ Making' =>
            (f.keys \subseteq Spared \cup With(Batch, next.op))'
      <4>1. Spared' = Spared
        BY DEF Spared, Handled
      <4> QED BY <2>5, <4>1
    <3>5. cmd'.do \in {"type", "utype", "key", "keydown"} /\ pos' = 1 /\ Making' =>
            (With(Batch, next.op) \subseteq Handled(Len(made)))'
      BY <2>6 DEF With
    <3>3. cmd'.do \in {"click", "doubleclick"} => db'.at = Target(cmd.to)'
      BY <2>4
    <3>4. cmd'.do \notin {"drag", "keydown", "keyup"}
      BY <2>3
    <3> QED BY <3>1, <3>2, <3>3, <3>4, <3>5 DEF SoFar
  <2> QED BY <1>1, <2>0, <2>7
<1> QED BY <1>1, <1>5, <1>6, <1>7, FaithfulStays

\* Where the gesture that is asked for is under way, and what else is generated.
LEMMA Underway ==
  ASSUME TypeOK, Making, cmd.do # "calibrate"
  PROVE  \/ /\ pos = Aim /\ Here.gesture = Gesture /\ Batch = Gesture[next.batch]
            /\ next.batch \in DOMAIN Gesture
         \/ /\ pos = 1 /\ Aim = 2 /\ cmd.do \in {"click", "doubleclick"}
            /\ Batch = <<MoveTo(Target(cmd.to))>> /\ next.batch = 1
         \/ /\ pos = 3 /\ Aim = 1 /\ cmd.do = "key"
            /\ \A o \in DOMAIN Batch : Batch[o].do = "release"
<1>1. /\ cmd \in Commands /\ pos \in DOMAIN Program(cmd) /\ Program(cmd)[pos].step = "generate"
      /\ Here = Program(cmd)[pos] /\ next.batch \in DOMAIN Here.gesture
      /\ Batch = Here.gesture[next.batch]
  BY MakingFacts DEF Batch
<1>2. CASE pos = Aim
  BY <1>1, <1>2 DEF Gesture
<1>3. CASE pos = 1 /\ pos # Aim /\ cmd.do \in {"click", "doubleclick"}
           /\ Here.gesture = << <<MoveTo(Target(cmd.to))>> >>
  BY <1>1, <1>3, OnlyBatch DEF Aim
<1>4. CASE pos = 3 /\ pos # Aim /\ cmd.do = "key" /\ Here.gesture = <<ComboUp(ParseKeySpec(cmd.spec))>>
  <2> DEFINE a == ParseKeySpec(cmd.spec)
  <2>1. IsSeq(a.modifiers)
    BY <1>1, <1>4, CommandTypes, SpecFacts
  <2>2. Batch = ComboUp(a)
    BY <1>1, <1>4, OnlyBatch
  <2> DEFINE n == Len(a.modifiers)
  <2>3. /\ n \in Nat /\ DOMAIN Batch = 1..(n + 1) /\ Batch[1] = Release(a.key)
        /\ \A i \in 1..n : Batch[1 + i] = Release(a.modifiers[n - i + 1])
    BY <2>1, <2>2, UpShape
  <2> HIDE DEF n, a
  <2>4. ASSUME NEW o \in DOMAIN Batch PROVE Batch[o].do = "release"
    <3>1. CASE o = 1
      BY <2>3, <3>1, Fields
    <3>2. CASE o # 1
      <4>1. o - 1 \in 1..n /\ o = 1 + (o - 1)
        BY <2>3, <3>2
      <4> QED BY <2>3, <4>1, Fields
    <3> QED BY <3>1, <3>2
  <2> QED BY <1>4, <2>4 DEF Aim
<1> QED BY <1>1, <1>2, <1>3, <1>4, GestureIs

\* The keys asked for are among those the command touches.
LEMMA AskedTouched ==
  ASSUME NEW c, NEW i \in DOMAIN Pressed(c)
  PROVE  Pressed(c)[i].on \in Touched(c) /\ Pressed(c)[i].with \subseteq Touched(c)
BY DEF Touched

\* So are those of a combination.
LEMMA ComboTouched ==
  ASSUME cmd \in Commands, cmd.do = "key"
  PROVE  LET a == ParseKeySpec(cmd.spec)
         IN  a.key \in Touched(cmd) /\ \A i \in 1..Len(a.modifiers) : a.modifiers[i] \in Touched(cmd)
<1> DEFINE a == ParseKeySpec(cmd.spec)
           n == Len(a.modifiers)
<1>1. n \in Nat
  BY KeyShape
<1>2. /\ DOMAIN Pressed(cmd) = 1..(n + 1)
      /\ \A i \in 1..(n + 1) : Pressed(cmd)[i].on = (IF i <= n THEN a.modifiers[i] ELSE a.key)
  BY DEF Pressed
<1> HIDE DEF n, a
<1>3. \A i \in 1..n : i \in 1..(n + 1) /\ i <= n
  BY <1>1
<1>4. n + 1 \in 1..(n + 1) /\ ~(n + 1 <= n)
  BY <1>1
<1>5. Pressed(cmd)[n + 1].on = a.key /\ \A i \in 1..n : Pressed(cmd)[i].on = a.modifiers[i]
  BY <1>2, <1>3, <1>4
<1>6. a.key \in Touched(cmd) /\ \A i \in 1..n : a.modifiers[i] \in Touched(cmd)
  BY <1>2, <1>3, <1>4, <1>5, AskedTouched
<1> QED BY <1>6 DEF n, a

\* A gesture presses and lets go of keys of its command only.
LEMMA GestureOwn ==
  ASSUME cmd \in Commands, cmd.do # "calibrate", NEW b \in DOMAIN Gesture, NEW o \in DOMAIN Gesture[b],
         Gesture[b][o].do \in {"press", "release"}
  PROVE  Gesture[b][o].on \in KeysOf(cmd) /\ (cmd.do = "keyup" => Gesture[b][o].do = "release")
<1> DEFINE a == ParseKeySpec(cmd.spec)
           t == cmd.text
<1>1. Gesture = GestureFor(cmd)
  BY GestureIs
<1>2. CASE cmd.do = "type"
  <2>1. Gesture = TypeText(t) /\ IsSeq(t)
    BY <1>1, <1>2, CommandTypes DEF GestureFor
  <2>2. b \in DOMAIN t /\ Gesture[b] = IF t[b] \in DOMAIN Layout THEN Stroke(t[b]) ELSE <<>>
    BY <2>1, TextIsGesture
  <2>3. t[b] \in DOMAIN Layout /\ Gesture[b] = Stroke(t[b])
    BY <2>2, Nothing
  <2>4. Layout[t[b]].shift \in BOOLEAN
    BY <2>3, LayoutAssumption
  <2>5. b \in DOMAIN Pressed(cmd) /\ Pressed(cmd)[b].on = Layout[t[b]].key
        /\ Pressed(cmd)[b].with = IF Layout[t[b]].shift THEN {LSHIFT} ELSE {}
    BY <1>2, <2>2, <2>3 DEF Pressed, Typed
  <2>6. Layout[t[b]].key \in Touched(cmd) /\ (Layout[t[b]].shift => LSHIFT \in Touched(cmd))
    BY <2>5, AskedTouched
  <2>7. KeysOf(cmd) = Touched(cmd)
    BY <1>2 DEF KeysOf
  <2> DEFINE B == Stroke(t[b])
             s == Layout[t[b]]
  <2>8. /\ s.shift => /\ DOMAIN B = 1..4 /\ B[1] = Press(LSHIFT) /\ B[2] = Press(s.key)
                      /\ B[3] = Release(s.key) /\ B[4] = Release(LSHIFT)
        /\ ~s.shift => DOMAIN B = 1..2 /\ B[1] = Press(s.key) /\ B[2] = Release(s.key)
    BY StrokeShape
  <2> HIDE DEF B
  <2>9. o \in DOMAIN B
    BY <2>3 DEF B
  <2>10. /\ s.shift => o \in {1, 2, 3, 4}
         /\ ~s.shift => o \in {1, 2}
    BY <2>8, <2>9
  <2>11. B[o].on = s.key \/ (s.shift /\ B[o].on = LSHIFT)
    BY <2>4, <2>8, <2>10, Fields
  <2> QED BY <1>2, <2>3, <2>6, <2>7, <2>11 DEF B
<1>3. CASE cmd.do = "utype"
  <2>1. Gesture = TypeUnicode(t) /\ IsSeq(t)
    BY <1>1, <1>3, CommandTypes DEF GestureFor
  <2>2. b \in DOMAIN t /\ Gesture[b] = <<Press(Unicode(t[b])), Release(Unicode(t[b]))>>
    BY <2>1, UnicodeIsGesture
  <2>3. b \in DOMAIN Pressed(cmd) /\ Pressed(cmd)[b].on = Unicode(t[b])
    BY <1>3, <2>2 DEF Pressed
  <2>4. Unicode(t[b]) \in KeysOf(cmd)
    BY <1>3, <2>3, AskedTouched DEF KeysOf
  <2> DEFINE k == Unicode(t[b])
             B == <<Press(k), Release(k)>>
  <2>5. DOMAIN B = 1..2 /\ B[1] = Press(k) /\ B[2] = Release(k) /\ Gesture[b] = B
    BY <2>2, Pair
  <2> HIDE DEF B, k
  <2>6. o \in {1, 2}
    BY <2>5
  <2>7. Gesture[b][o].on = k
    BY <2>5, <2>6, Fields
  <2> QED BY <1>3, <2>4, <2>7 DEF k
<1>4. CASE cmd.do = "key"
  <2>1. Gesture = IF cmd.hold THEN <<ComboDown(a)>> ELSE <<Combo(a)>>
    BY <1>1, <1>4 DEF GestureFor
  <2>2. IsSeq(a.modifiers) /\ cmd.hold \in BOOLEAN
    BY <1>4, CommandTypes, SpecFacts
  <2>3. a.key \in Touched(cmd) /\ \A i \in 1..Len(a.modifiers) : a.modifiers[i] \in Touched(cmd)
    BY <1>4, ComboTouched
  <2> DEFINE n == Len(a.modifiers)
             B == Gesture[b]
  <2> HIDE DEF a
  <2>4. B = IF cmd.hold THEN ComboDown(a) ELSE Combo(a)
    BY <2>1, <2>2, OnlyBatch
  <2>5. n \in Nat
    BY <2>2, SeqFacts
  <2>6. CASE cmd.hold
    <3>1. /\ DOMAIN B = 1..(n + 1)
          /\ \A i \in 1..n : B[i] = Press(a.modifiers[i])
          /\ B[n + 1] = Press(a.key)
      BY <2>2, <2>4, <2>6, DownShape
    <3>2. o \in DOMAIN B
      OBVIOUS
    <3> HIDE DEF B
    <3>3. B[o].on \in Touched(cmd)
      <4> HIDE DEF n
      <4>1. o \in 1..n \/ o = n + 1
        BY <2>5, <3>1, <3>2
      <4> QED BY <2>3, <3>1, <4>1, Fields DEF n
    <3> QED BY <1>4, <3>3 DEF B, KeysOf
  <2>7. CASE ~cmd.hold
    <3>1. /\ DOMAIN B = 1..(2 * n + 2)
          /\ \A i \in 1..n : B[i] = Press(a.modifiers[i])
          /\ B[n + 1] = Press(a.key) /\ B[n + 2] = Release(a.key)
          /\ \A i \in 1..n : B[n + 2 + i] = Release(a.modifiers[n - i + 1])
      BY <2>2, <2>4, <2>7, ComboShape
    <3>2. o \in DOMAIN B
      OBVIOUS
    <3> HIDE DEF B, n
    <3>3. B[o].on \in Touched(cmd)
      <4>0. \A i \in 1..n : a.modifiers[i] \in Touched(cmd)
        BY <2>3 DEF n
      <4>1. CASE o \in 1..n
        BY <3>1, <4>0, <4>1, Fields
      <4>2. CASE o = n + 1 \/ o = n + 2
        BY <2>3, <3>1, <4>2, Fields
      <4>3. CASE o > n + 2
        <5>1. o - (n + 2) \in 1..n /\ o = n + 2 + (o - (n + 2)) /\ n - (o - (n + 2)) + 1 \in 1..n
          BY <2>5, <3>1, <3>2, <4>3
        <5> QED BY <3>1, <4>0, <5>1, Fields
      <4> QED BY <2>5, <3>1, <3>2, <4>1, <4>2, <4>3
    <3> QED BY <1>4, <3>3 DEF B, KeysOf
  <2> QED BY <2>2, <2>6, <2>7
<1>5. CASE cmd.do = "keydown"
  <2> DEFINE op == Press(a.key)
  <2>1. Gesture = << <<op>> >>
    BY <1>1, <1>5 DEF GestureFor
  <2>2. op.on = a.key
    BY Fields
  <2> HIDE DEF op
  <2>3. Gesture[b] = <<op>>
    BY <2>1, OnlyBatch
  <2>4. Gesture[b][o] = op
    BY <2>3, OnlyBatch
  <2> QED BY <1>5, <2>2, <2>4 DEF KeysOf
<1>6. CASE cmd.do = "keyup"
  <2>1. Gesture[b][o] = Release(a.key)
    BY <1>6, MouseShape
  <2> QED BY <1>6, <2>1, Fields DEF KeysOf
<1>7. CASE cmd.do \in {"move", "mouse-hide", "click", "doubleclick", "drag", "scroll"}
  <2>1. Gesture[b][o].do \notin {"press", "release"}
    <3>1. CASE cmd.do \in {"move", "mouse-hide"}
      <4>1. Gesture[b][o].do = "move"
        BY <3>1, MouseShape
      <4> QED BY <4>1
    <3>2. CASE cmd.do = "click"
      <4>1. o \in {1, 2} /\ Gesture[b][1] = Push(cmd.button) /\ Gesture[b][2] = LetGo(cmd.button)
        BY <3>2, MouseShape
      <4> QED BY <4>1, Fields
    <3>3. CASE cmd.do = "doubleclick"
      <4>1. /\ o \in {1, 2, 3, 4} /\ Gesture[b][1] = Push("left") /\ Gesture[b][2] = LetGo("left")
            /\ Gesture[b][3] = Push("left") /\ Gesture[b][4] = LetGo("left")
        BY <3>3, MouseShape
      <4> QED BY <4>1, Fields
    <3>4. CASE cmd.do = "drag"
      <4>1. /\ b \in {1, 2, 3, 4} /\ o = 1
            /\ Gesture[b][1] = CASE b = 1 -> MoveTo(Target(cmd.from))
                                 [] b = 2 -> Push("left")
                                 [] b = 3 -> MoveTo(Target(cmd.to))
                                 [] b = 4 -> LetGo("left")
        BY <3>4, MouseShape
      <4> QED BY <4>1, Fields
    <3>5. CASE cmd.do = "scroll"
      <4>1. o = 1 /\ Gesture[b][1] = Turn(cmd.direction)
        BY <3>5, MouseShape
      <4> QED BY <4>1, Fields
    <3> QED BY <1>7, <3>1, <3>2, <3>3, <3>4, <3>5
  <2> QED BY <2>1
<1> QED BY <1>2, <1>3, <1>4, <1>5, <1>6, <1>7, CommandTypes

\* So does every step of it.
LEMMA OwnKeys ==
  ASSUME TypeOK, Making, cmd.do # "calibrate", next.op \in DOMAIN Batch,
         Batch[next.op].do \in {"press", "release"}
  PROVE  Batch[next.op].on \in KeysOf(cmd) /\ (cmd.do = "keyup" => Batch[next.op].do = "release")
<1>1. cmd \in Commands
  BY MakingFacts
<1>2. CASE Batch = Gesture[next.batch] /\ next.batch \in DOMAIN Gesture
  BY <1>1, <1>2, GestureOwn
<1>3. CASE Batch = <<MoveTo(Target(cmd.to))>>
  <2>1. next.op = 1 /\ Batch[1] = MoveTo(Target(cmd.to))
    BY <1>3, OnlyBatch
  <2>2. Batch[next.op].do = "move"
    BY <2>1, Fields
  <2> QED BY <2>2
<1>4. CASE pos = 3 /\ pos # Aim /\ cmd.do = "key"
  <2> DEFINE a == ParseKeySpec(cmd.spec)
             n == Len(a.modifiers)
             x == next.op
  <2>1. IsSeq(a.modifiers) /\ Here.gesture = <<ComboUp(a)>>
    <3>1. pos \in DOMAIN Program(cmd) /\ Program(cmd)[pos].step = "generate" /\ Here = Program(cmd)[pos]
      BY MakingFacts
    <3>2. Program(cmd)[pos].gesture = <<ComboUp(ParseKeySpec(cmd.spec))>>
      BY <1>1, <1>4, <3>1, GestureIs
    <3> QED BY <1>1, <1>4, <3>1, <3>2, CommandTypes, SpecFacts
  <2>2. Batch = ComboUp(a)
    <3>1. next.batch \in DOMAIN Here.gesture
      BY MakingFacts
    <3> HIDE DEF a
    <3> QED BY <2>1, <3>1, OnlyBatch DEF Batch
  <2>3. a.key \in Touched(cmd) /\ \A i \in 1..n : a.modifiers[i] \in Touched(cmd)
    BY <1>1, <1>4, ComboTouched
  <2>4. /\ n \in Nat /\ DOMAIN Batch = 1..(n + 1) /\ Batch[1] = Release(a.key)
        /\ \A i \in 1..n : Batch[1 + i] = Release(a.modifiers[n - i + 1])
    BY <2>1, <2>2, UpShape
  <2> HIDE DEF n, a
  <2>5. Batch[x].on \in Touched(cmd)
    <3>1. CASE x = 1
      BY <2>3, <2>4, <3>1, Fields
    <3>2. CASE x # 1
      <4>1. x - 1 \in 1..n /\ x = 1 + (x - 1) /\ n - (x - 1) + 1 \in 1..n
        BY <2>4, <3>2
      <4> QED BY <2>3, <2>4, <4>1, Fields
    <3> QED BY <3>1, <3>2
  <2> QED BY <1>4, <2>5 DEF KeysOf
<1> QED BY <1>2, <1>3, <1>4, Underway

\* An event that is wanted comes of an operation that is, and comes last of its events.
LEMMA WantedNew ==
  ASSUME TypeOK, Generate, db.buttons = Down
  PROVE  LET op  == Batch[next.op]
             new == Events(db, op)
         IN  /\ \A j \in 1..Len(new) : Wanted(new[j]) => j = Len(new) /\ Wanted(op)
             /\ Wanted(op) => /\ Len(new) \in {1, 2} /\ new[Len(new)] = op
                              /\ Len(new) = 2 => new[1] = Release(op.on)
<1> DEFINE op  == Batch[next.op]
           new == Events(db, op)
<1>0. Making /\ next.op \in DOMAIN Batch /\ op.do \in Operations
  BY GenerateFacts
<1>1. op.do = "push" => op.on \notin Down
  <2> SUFFICES ASSUME op.do = "push", op.on \in Down PROVE FALSE
    OBVIOUS
  <2>1. CASE cmd.do = "drag"
    BY <1>0, <2>1, DragBatch, Fields DEF Down
  <2>2. CASE cmd.do # "drag"
    <3>1. next.op > 1 /\ Batch[next.op - 1].do = "push"
      BY <2>2 DEF Down
    <3>2. Clicking(Batch) /\ next.op \in Nat /\ DOMAIN Batch = 1..Len(Batch) /\ Len(Batch) \in Nat
      BY <1>0, <2>2, MakingFacts, GenerateMoves
    <3>3. next.op - 1 \in DOMAIN Batch /\ (next.op - 1) + 1 = next.op
      BY <1>0, <3>1, <3>2
    <3>4. Batch[(next.op - 1) + 1].do = "let"
      BY <3>1, <3>2, <3>3 DEF Clicking
    <3> QED BY <3>3, <3>4
  <2> QED BY <2>1, <2>2
<1>2. op.do = "let" => op.on \in Down
  <2> SUFFICES ASSUME op.do = "let" PROVE op.on \in Down
    OBVIOUS
  <2>1. CASE cmd.do = "drag"
    BY <1>0, <2>1, DragBatch, Fields DEF Down
  <2>2. CASE cmd.do # "drag"
    <3>1. Clicking(Batch) /\ next.op \in Nat /\ DOMAIN Batch = 1..Len(Batch) /\ Len(Batch) \in Nat
      BY <1>0, <2>2, MakingFacts, GenerateMoves
    <3>2. next.op - 1 \in DOMAIN Batch /\ Batch[next.op - 1].do = "push" /\ Batch[next.op - 1].on = op.on
      BY <1>0, <3>1 DEF Clicking
    <3>3. next.op > 1
      BY <3>1, <3>2
    <3> QED BY <1>0, <2>2, <3>2, <3>3 DEF Down
  <2> QED BY <2>1, <2>2
<1> HIDE DEF op
<1>3. CASE new = <<op>>
  <2>1. Len(new) = 1 /\ new[1] = op
    BY <1>3, Single
  <2>2. \A j \in 1..1 : j = 1
    OBVIOUS
  <2> QED BY <2>1, <2>2 DEF op
<1>4. CASE new = <<Release(op.on), op>>
  <2>1. Len(new) = 2 /\ new[1] = Release(op.on) /\ new[2] = op
    BY <1>4, Pair
  <2>2. \A j \in 1..2 : j = 1 \/ j = 2
    OBVIOUS
  <2>3. ~Wanted(Release(op.on))
    BY Fields DEF Wanted
  <2> HIDE DEF new
  <2> QED BY <2>1, <2>2, <2>3 DEF op, new
<1>5. CASE new = <<>> /\ op.do \in {"release", "move"}
  <2>1. Len(new) = 0 /\ ~Wanted(op)
    BY <1>5, Nothing DEF Wanted
  <2>2. \A j \in 1..0 : FALSE
    OBVIOUS
  <2> HIDE DEF new
  <2> QED BY <2>1, <2>2 DEF op, new
<1>6. \/ new = <<op>> \/ new = <<Release(op.on), op>>
      \/ new = <<>> /\ op.do \in {"release", "move"}
  <2>1. op.do = "press" \/ op.do = "release" \/ op.do = "push" \/ op.do = "let" \/ op.do = "move" \/ op.do = "turn"
    BY <1>0 DEF op, Operations
  <2>2. op.do \in Operations /\ (op.do = "push" => op.on \notin db.buttons) /\ (op.do = "let" => op.on \in db.buttons)
    BY <1>0, <1>1, <1>2 DEF op
  <2> QED BY <2>1, <2>2, EventsFacts
<1> QED BY <1>3, <1>4, <1>5, <1>6

\* Just before it gets there the server is as it was after all that went before,
\* but for the key of the event itself.
LEMMA JustBefore ==
  ASSUME TypeOK, Generate, db.buttons = Down, Wanted(Batch[next.op]), NEW w,
         \A j \in 1..Len(Events(db, Batch[next.op])) :
           w[Len(made) + j] = Later(cmd, w[Len(made) + j - 1], Events(db, Batch[next.op])[j])
  PROVE  LET op == Batch[next.op]
             f  == w[Len(made)]
             v  == w[Len(made) + Len(Events(db, op)) - 1]
         IN  v.at = f.at /\ v.keys \subseteq f.keys /\ f.keys \ {op.on} \subseteq v.keys
<1> DEFINE op  == Batch[next.op]
           new == Events(db, op)
           m   == Len(made)
<1>1. Len(new) \in {1, 2} /\ (Len(new) = 2 => new[1] = Release(op.on)) /\ m \in Nat
  BY WantedNew, GenerateFacts
<1>2. CASE Len(new) = 1
  <2>1. m + Len(new) - 1 = m
    BY <1>1, <1>2
  <2> QED BY <2>1
<1>3. CASE Len(new) = 2
  <2>0. 1 \in 1..Len(new)
    BY <1>3
  <2> HIDE DEF new, m, op
  <2>1. m + Len(new) - 1 = m + 1 /\ m + 1 - 1 = m
    BY <1>1, <1>3
  <2>2. w[m + 1] = Later(cmd, w[m + 1 - 1], new[1])
    BY <2>0 DEF m, new, op
  <2>3. w[m + 1] = Later(cmd, w[m], Release(op.on))
    BY <1>1, <1>3, <2>1, <2>2
  <2>4. Release(op.on).do = "release" /\ Release(op.on).on = op.on
    BY Fields
  <2>5. w[m + 1].at = w[m].at /\ w[m + 1].keys = w[m].keys \ {op.on}
    BY <2>3, <2>4 DEF Later
  <2> QED BY <2>1, <2>5 DEF m, new, op
<1> QED BY <1>1, <1>2, <1>3

\* What is pressed before the operation at hand is held, in the injector's belief.
LEMMA PressedHeld ==
  ASSUME TypeOK, Generate, cmd.do # "calibrate", NEW f, SoFar(f), Batch[next.op].do = "press"
  PROVE  /\ cmd.do \in {"type", "utype", "key", "keydown"} /\ pos = 1
         /\ With(Batch, next.op) \subseteq db.keys
         /\ With(Batch, next.op) \subseteq Handled(Len(made))
         /\ f.keys \subseteq Spared \cup With(Batch, next.op)
<1>1. Making /\ next.op \in DOMAIN Batch /\ next.op \in Nat /\ cmd \in Commands
      /\ DOMAIN Batch = 1..Len(Batch) /\ Len(Batch) \in Nat
  BY GenerateFacts, GenerateMoves, MakingFacts
<1>2. pos = Aim /\ Batch = Gesture[next.batch] /\ next.batch \in DOMAIN Gesture
  <2>1. Batch = <<MoveTo(Target(cmd.to))>> => FALSE
    <3> SUFFICES ASSUME Batch = <<MoveTo(Target(cmd.to))>> PROVE FALSE
      OBVIOUS
    <3>1. next.op = 1 /\ Batch[1] = MoveTo(Target(cmd.to))
      BY <1>1, OnlyBatch
    <3> QED BY <3>1, Fields
  <2> QED BY <1>1, <2>1, Underway
<1>3. cmd.do \in {"type", "utype", "key", "keydown"}
  BY <1>1, <1>2, MouseShape
<1>4. PICK n \in Nat : DownThenUp(Batch, n)
  BY <1>1, <1>2, <1>3, KeyboardShape
<1>5. next.op <= n
  BY <1>1, <1>4 DEF DownThenUp
<1>6. \A l \in DOMAIN Batch : l < next.op => Batch[l].do = "press"
  <2> SUFFICES ASSUME NEW l \in DOMAIN Batch, l < next.op PROVE Batch[l].do = "press"
    OBVIOUS
  <2>1. l <= n
    BY <1>1, <1>5
  <2> QED BY <1>4, <2>1 DEF DownThenUp
<1>7. pos = 1
  BY <1>2, <1>3 DEF Aim
<1>8. \A j \in DOMAIN Batch : j < next.op => Batch[j].on \in db.keys
  BY <1>1, <1>3, <1>6, <1>7 DEF SoFar
<1>9. With(Batch, next.op) \subseteq db.keys
  BY <1>8 DEF With
<1>10. With(Batch, next.op) \subseteq Handled(Len(made)) /\ f.keys \subseteq Spared \cup With(Batch, next.op)
  BY <1>1, <1>3, <1>7 DEF SoFar
<1> QED BY <1>3, <1>7, <1>9, <1>10

\* Where a button goes down or comes up the pointer is at its place.
LEMMA AtSpot ==
  ASSUME TypeOK, Generate, cmd.do # "calibrate", NEW f, SoFar(f), AtLast(f),
         Batch[next.op].do \in {"push", "let"}
  PROVE  There(f.at, Spot(Batch[next.op].do))
<1> DEFINE op == Batch[next.op]
<1>1. Making /\ next.op \in DOMAIN Batch /\ cmd \in Commands /\ next.batch \in Nat \ {0}
  BY GenerateFacts, MakingFacts
<1>2. pos = Aim /\ Batch = Gesture[next.batch] /\ next.batch \in DOMAIN Gesture
  <2>1. Batch = <<MoveTo(Target(cmd.to))>> => FALSE
    <3> SUFFICES ASSUME Batch = <<MoveTo(Target(cmd.to))>> PROVE FALSE
      OBVIOUS
    <3>1. next.op = 1 /\ Batch[1] = MoveTo(Target(cmd.to))
      BY <1>1, OnlyBatch
    <3> QED BY <3>1, Fields
  <2> QED BY <1>1, <2>1, Underway
<1>3. cmd.do \notin {"type", "utype", "key", "keydown"}
  <2> SUFFICES ASSUME cmd.do \in {"type", "utype", "key", "keydown"} PROVE FALSE
    OBVIOUS
  <2>1. PICK n \in Nat : DownThenUp(Batch, n)
    BY <1>1, <1>2, KeyboardShape
  <2> QED BY <1>1, <2>1 DEF DownThenUp
<1>4. There(f.at, db.at)
  BY DEF AtLast
<1>5. CASE cmd.do = "drag"
  <2>1. /\ pos = 1 /\ next.batch \in {1, 2, 3, 4}
        /\ op = CASE next.batch = 1 -> MoveTo(Target(cmd.from))
                  [] next.batch = 2 -> Push("left")
                  [] next.batch = 3 -> MoveTo(Target(cmd.to))
                  [] next.batch = 4 -> LetGo("left")
    BY <1>5, DragBatch
  <2> HIDE DEF op
  <2>2. op.do \in {"push", "let"}
    BY DEF op
  <2>3. (next.batch = 2 /\ op.do = "push") \/ (next.batch = 4 /\ op.do = "let")
    BY <2>1, <2>2, Fields
  <2>4. db.at = Spot(op.do)
    BY <1>5, <2>1, <2>3 DEF SoFar, Spot
  <2> QED BY <1>4, <2>4 DEF op
<1>6. CASE cmd.do \in {"click", "doubleclick"}
  BY <1>2, <1>4, <1>6 DEF SoFar, Spot, Aim
<1>7. cmd.do \in {"drag", "click", "doubleclick"}
  <2>1. cmd.do = "keyup" => op.do = "release"
    BY <1>1, <1>2, <1>3, MouseShape, Fields
  <2>2. cmd.do \in {"move", "mouse-hide"} => op.do = "move"
    BY <1>1, <1>2, <1>3, MouseShape
  <2>3. cmd.do = "scroll" => op.do = "turn"
    BY <1>1, <1>2, <1>3, MouseShape, Fields
  <2> HIDE DEF op
  <2> QED BY <1>1, <1>3, <2>1, <2>2, <2>3, CommandTypes DEF op
<1> QED BY <1>5, <1>6, <1>7

\* The operation that is generated takes the place of the next one.
LEMMA NextPassed ==
  ASSUME TypeOK, Generate, cmd.do # "calibrate"
  PROVE  /\ next = Ordinal(next.batch, next.op) /\ Earlier(next, next')
         /\ \A b \in DOMAIN Gesture : \A o \in DOMAIN Gesture[b] :
              /\ Passed(Ordinal(b, o)) => Passed(Ordinal(b, o))'
              /\ pos = Aim /\ Passed(Ordinal(b, o))' =>
                   \/ Passed(Ordinal(b, o))
                   \/ b = next.batch /\ o = next.op
<1>1. /\ UNCHANGED <<cmd, offset, pos>> /\ Making /\ cmd \in Commands
      /\ next.batch \in Nat /\ next.op \in Nat /\ next = Ordinal(next.batch, next.op)
      /\ LastOfBatch => next.op = Len(Batch) /\ next'.batch = next.batch + 1 /\ next'.op = 1
      /\ ~LastOfBatch => next'.batch = next.batch /\ next'.op = next.op + 1
  <2>1. Making
    BY GenerateFacts
  <2>2. cmd \in Commands
    BY <2>1, MakingFacts
  <2>3. next = Ordinal(next.batch, next.op) /\ next.batch \in Nat
    BY DEF TypeOK, Ordinal
  <2> QED BY <2>1, <2>2, <2>3, GenerateMoves
<1>2. Aim' = Aim /\ Aim \in Nat /\ pos \in Nat
  BY <1>1, SameGesture DEF Aim, TypeOK
<1>3. Earlier(next, next')
  BY <1>1 DEF Earlier
<1>4. ASSUME NEW b \in DOMAIN Gesture, NEW o \in DOMAIN Gesture[b]
      PROVE  /\ Passed(Ordinal(b, o)) => Passed(Ordinal(b, o))'
             /\ pos = Aim /\ Passed(Ordinal(b, o))' =>
                  Passed(Ordinal(b, o)) \/ (b = next.batch /\ o = next.op)
  <2>1. b \in Nat /\ o \in Nat /\ o <= Len(Gesture[b])
    BY <1>1, <1>4, GestureNumbers
  <2> DEFINE p == Ordinal(b, o)
  <2>2. p.batch = b /\ p.op = o
    BY DEF Ordinal
  <2> HIDE DEF p
  <2>3. Earlier(p, next) => Earlier(p, next')
    BY <1>1, <2>1, <2>2 DEF Earlier
  <2>4. ASSUME pos = Aim, Earlier(p, next') PROVE Earlier(p, next) \/ (b = next.batch /\ o = next.op)
    <3>1. Batch = Gesture[next.batch]
      BY <1>1, <2>4, Underway
    <3>2. CASE LastOfBatch
      <4>1. b <= next.batch
        BY <1>1, <2>1, <2>2, <2>4, <3>2 DEF Earlier
      <4>2. b = next.batch => o <= next.op
        BY <1>1, <2>1, <3>1, <3>2
      <4> QED BY <1>1, <2>1, <2>2, <4>1, <4>2 DEF Earlier
    <3>3. CASE ~LastOfBatch
      BY <1>1, <2>1, <2>2, <2>4, <3>3 DEF Earlier
    <3> QED BY <3>2, <3>3
  <2>5. Passed(p)' <=> pos > Aim \/ (pos = Aim /\ Earlier(p, next'))
    BY <1>1, <1>2 DEF Passed, p
  <2>6. Passed(p) <=> pos > Aim \/ (pos = Aim /\ Earlier(p, next))
    BY DEF Passed
  <2> QED BY <1>2, <2>3, <2>4, <2>5, <2>6 DEF p
<1> QED BY <1>1, <1>3, <1>4

\* What the gesture has done so far, one operation later.
LEMMA GenerateSoFar ==
  ASSUME TypeOK, Generate, cmd.do # "calibrate", NEW f, NEW g, SoFar(f), AtLast(f),
         Grows(f, g, Batch[next.op])
  PROVE  SoFar(g)'
<1> DEFINE op == Batch[next.op]
<1>1. Making /\ next.op \in DOMAIN Batch /\ cmd \in Commands /\ next.batch \in Nat \ {0}
  BY GenerateFacts, MakingFacts
<1>2. /\ UNCHANGED <<cmd, offset, pos, ghost, phase>> /\ Here' = Here
      /\ next.op \in Nat \ {0} /\ DOMAIN Batch = 1..Len(Batch) /\ Len(Batch) \in Nat
      /\ LastOfBatch => next.op = Len(Batch) /\ next'.batch = next.batch + 1 /\ next'.op = 1
      /\ ~LastOfBatch => next'.batch = next.batch /\ next'.op = next.op + 1 /\ Batch' = Batch
      /\ db'.keys = (IF op.do = "press" THEN db.keys \cup {op.on}
                     ELSE IF op.do = "release" THEN db.keys \ {op.on} ELSE db.keys)
      /\ db'.at = (IF op.do = "move" THEN op.on ELSE db.at)
  BY <1>1, GenerateMoves
<1>14. /\ Spared' = Spared \ (IF op.do = "press" \/ (op.do = "release" /\ op.on \in db.keys)
                             THEN {op.on} ELSE {})
       /\ Handled(Len(made)) \subseteq Handled(Len(made))'
       /\ op.do = "press" => op.on \in Handled(Len(made))'
  BY HandledNext
<1>3. Target(cmd.to)' = Target(cmd.to) /\ Target(cmd.from)' = Target(cmd.from) /\ Gesture' = Gesture
      /\ Aim' = Aim
  BY <1>2, SameGesture
<1>4. ASSUME cmd.do \in {"type", "utype", "key", "keydown"}, pos = 1
      PROVE  Aim = 1 /\ Here.gesture = Gesture /\ Batch = Gesture[next.batch] /\ next.batch \in DOMAIN Gesture
  BY <1>1, <1>4, Underway DEF Aim
<1>5. ASSUME cmd.do \in {"type", "utype", "key", "keydown"}, pos = 1, Making'
      PROVE  /\ \A j \in (DOMAIN Batch)' :
                  j < next'.op /\ (\A l \in (DOMAIN Batch)' : j <= l /\ l < next'.op => Batch'[l].do = "press")
                    => Batch'[j].on \in db'.keys
             /\ (With(Batch, next.op) \subseteq Handled(Len(made)))'
             /\ (g.keys \subseteq Spared \cup With(Batch, next.op))'
  <2>1. /\ \A j \in DOMAIN Batch :
             j < next.op /\ (\A l \in DOMAIN Batch : j <= l /\ l < next.op => Batch[l].do = "press")
               => Batch[j].on \in db.keys
        /\ With(Batch, next.op) \subseteq Handled(Len(made))
        /\ f.keys \subseteq Spared \cup With(Batch, next.op)
    BY <1>1, <1>5 DEF SoFar
  <2>2. CASE ~LastOfBatch
    <3>1. Batch' = Batch /\ next'.op = next.op + 1
      BY <1>2, <2>2
    <3>2. ASSUME NEW j \in DOMAIN Batch, j < next.op + 1,
                 \A l \in DOMAIN Batch : j <= l /\ l < next.op + 1 => Batch[l].do = "press"
          PROVE  Batch[j].on \in db'.keys
      <4>1. j \in Nat /\ next.op <= next.op /\ next.op < next.op + 1 /\ j <= next.op
        BY <1>2, <3>2
      <4>2. op.do = "press"
        BY <1>1, <3>2, <4>1
      <4>3. CASE j = next.op
        BY <1>2, <4>2, <4>3
      <4>4. CASE j # next.op
        <5>1. j < next.op
          BY <1>2, <4>1, <4>4
        <5>2. \A l \in DOMAIN Batch : l < next.op => l < next.op + 1
          BY <1>2
        <5>3. Batch[j].on \in db.keys
          BY <2>1, <3>2, <5>1, <5>2
        <5> QED BY <1>2, <4>2, <5>3
      <4> QED BY <4>3, <4>4
    <3>5. With(Batch, next.op + 1) \subseteq Handled(Len(made))'
      <4>1. ASSUME NEW j \in DOMAIN Batch, j < next.op + 1, Batch[j].do = "press"
            PROVE  Batch[j].on \in Handled(Len(made))'
        <5>1. CASE j = next.op
          BY <1>14, <4>1, <5>1
        <5>2. CASE j # next.op
          <6>1. j < next.op
            BY <1>2, <4>1, <5>2
          <6>2. Batch[j].on \in With(Batch, next.op)
            BY <4>1, <6>1 DEF With
          <6> QED BY <1>14, <2>1, <6>2
        <5> QED BY <5>1, <5>2
      <4> QED BY <4>1 DEF With
    <3>3. g.keys \subseteq Spared' \cup With(Batch, next.op + 1)
      <4>1. With(Batch, next.op) \subseteq With(Batch, next.op + 1)
        BY <1>2 DEF With
      <4>2. op.do = "press" => op.on \in With(Batch, next.op + 1)
        BY <1>1, <1>2 DEF With
      <4> HIDE DEF op
      <4>3. g.keys = (IF op.do = "press" THEN f.keys \cup {op.on}
                      ELSE IF op.do = "release" /\ op.on \in db.keys THEN f.keys \ {op.on} ELSE f.keys)
        BY DEF Grows, op
      <4> QED BY <1>14, <2>1, <4>1, <4>2, <4>3
    <3>4. (g.keys \subseteq Spared \cup With(Batch, next.op))'
      BY <1>2, <3>1, <3>3 DEF With
    <3>6. (With(Batch, next.op) \subseteq Handled(Len(made)))'
      BY <1>2, <3>1, <3>5 DEF With
    <3> QED BY <3>1, <3>2, <3>4, <3>6
  <2>3. CASE LastOfBatch
    <3>1. Batch' = Gesture[next'.batch] /\ next'.batch \in DOMAIN Gesture /\ next'.op = 1
      <4>1. next'.batch <= Len(Gesture) /\ Here'.gesture = Gesture
        BY <1>2, <1>4, <1>5 DEF Making
      <4>2. IsSeq(Gesture)
        BY <1>1, GestureNumbers
      <4>3. DOMAIN Gesture = 1..Len(Gesture) /\ Len(Gesture) \in Nat
        BY <4>2, SeqFacts
      <4> QED BY <1>1, <1>2, <2>3, <4>1, <4>3 DEF Batch
    <3>2. \A j \in (DOMAIN Batch)' : ~(j < next'.op)
      <4>1. \A j \in DOMAIN Gesture[next'.batch] : j \in Nat \ {0}
        BY <1>1, <3>1, GestureNumbers
      <4> QED BY <3>1, <4>1
    <3>3. cmd.do \in {"type", "utype"}
      <4>1. ASSUME cmd.do = "key" \/ cmd.do = "keydown" PROVE DOMAIN Gesture = {1}
        <5>1. CASE cmd.do = "key"
          BY <1>1, <5>1, KeyShape
        <5>2. CASE cmd.do = "keydown"
          BY <1>1, <5>2, GestureIs, OnlyBatch DEF GestureFor
        <5> QED BY <4>1, <5>1, <5>2
      <4> QED BY <1>1, <1>2, <1>4, <1>5, <2>3, <3>1, <4>1
    <3>4. g.keys \subseteq Spared'
      <4>1. \A k \in g.keys : k \in Spared' \/ Releases(Batch, next.op, k) \/ Held(k)
        BY <3>3, GrowsOwing
      <4>2. \A k : ~Held(k)
        BY <3>3 DEF Held
      <4>3. \A k : ~Releases(Batch, next.op, k)
        BY <1>2, <2>3 DEF Releases
      <4> QED BY <4>1, <4>2, <4>3
    <3>5. (g.keys \subseteq Spared \cup With(Batch, next.op))'
      BY <1>2, <3>4 DEF With
    <3>6. (With(Batch, next.op) \subseteq Handled(Len(made)))'
      BY <3>2 DEF With
    <3> QED BY <3>2, <3>5, <3>6
  <2> QED BY <2>2, <2>3
<1>6. ASSUME cmd.do \in {"click", "doubleclick"}
      PROVE  db'.at = Target(cmd.to)
  <2>1. CASE pos = 1
    <3>1. Batch = <<MoveTo(Target(cmd.to))>>
      BY <1>1, <1>6, <2>1, Underway DEF Aim
    <3>2. op = MoveTo(Target(cmd.to))
      BY <1>1, <3>1, OnlyBatch
    <3> QED BY <1>2, <3>2, Fields
  <2>2. CASE pos # 1
    <3>1. db.at = Target(cmd.to)
      BY <1>6, <2>2 DEF SoFar
    <3>2. op.do # "move"
      <4>1. Batch = Gesture[next.batch] /\ next.batch \in DOMAIN Gesture
        BY <1>1, <1>6, <2>2, Underway DEF Aim
      <4>2. CASE cmd.do = "click"
        <5>1. next.op \in {1, 2} /\ Batch[1] = Push(cmd.button) /\ Batch[2] = LetGo(cmd.button)
          BY <1>1, <4>1, <4>2, MouseShape
        <5> QED BY <5>1, Fields
      <4>3. CASE cmd.do = "doubleclick"
        <5>1. /\ next.op \in {1, 2, 3, 4} /\ Batch[1] = Push("left") /\ Batch[2] = LetGo("left")
              /\ Batch[3] = Push("left") /\ Batch[4] = LetGo("left")
          BY <1>1, <4>1, <4>3, MouseShape
        <5> QED BY <5>1, Fields
      <4> QED BY <1>6, <4>2, <4>3
    <3> QED BY <1>2, <3>1, <3>2
  <2> QED BY <2>1, <2>2
<1>7. ASSUME cmd.do = "drag"
      PROVE  /\ next'.batch \in {2, 3} => db'.at = Target(cmd.from)
             /\ next'.batch = 4 => db'.at = Target(cmd.to)
  <2>1. /\ pos = 1 /\ next.batch \in {1, 2, 3, 4} /\ LastOfBatch
        /\ op = CASE next.batch = 1 -> MoveTo(Target(cmd.from))
                  [] next.batch = 2 -> Push("left")
                  [] next.batch = 3 -> MoveTo(Target(cmd.to))
                  [] next.batch = 4 -> LetGo("left")
    BY <1>7, DragBatch
  <2>2. next.batch \in {2, 3} => db.at = Target(cmd.from)
    BY <1>7, <2>1 DEF SoFar
  <2> HIDE DEF op
  <2>3. next'.batch = next.batch + 1
    BY <1>2, <2>1
  <2>4. CASE next.batch = 1
    BY <1>2, <2>1, <2>3, <2>4, Fields
  <2>5. CASE next.batch = 2
    BY <1>2, <2>1, <2>2, <2>3, <2>5, Fields
  <2>6. CASE next.batch = 3
    BY <1>2, <2>1, <2>3, <2>6, Fields
  <2>7. CASE next.batch = 4
    BY <2>3, <2>7
  <2> QED BY <2>1, <2>4, <2>5, <2>6, <2>7
<1>8. ASSUME cmd.do = "keyup"
      PROVE  ParseKeySpec(cmd.spec).key \notin db'.keys
  <2>1. Batch = Gesture[next.batch] /\ next.batch \in DOMAIN Gesture
    BY <1>1, <1>8, Underway
  <2>2. op = Release(ParseKeySpec(cmd.spec).key)
    BY <1>1, <1>8, <2>1, MouseShape
  <2> QED BY <1>2, <2>2, Fields
<1>15. ASSUME cmd.do = "keydown"
       PROVE  ParseKeySpec(cmd.spec).key \in db'.keys
  <2> DEFINE x == Press(ParseKeySpec(cmd.spec).key)
  <2>1. Batch = Gesture[next.batch] /\ next.batch \in DOMAIN Gesture
    BY <1>1, <1>15, Underway
  <2>2. Gesture = << <<x>> >>
    BY <1>1, <1>15, GestureIs DEF GestureFor
  <2>3. x.do = "press" /\ x.on = ParseKeySpec(cmd.spec).key
    BY Fields
  <2> HIDE DEF x
  <2>4. op = x
    <3>1. Batch = <<x>>
      BY <2>1, <2>2, OnlyBatch
    <3> QED BY <1>1, <3>1, OnlyBatch
  <2> QED BY <1>2, <2>3, <2>4
<1> HIDE DEF op
<1> USE <1>2, <1>3
<1>9. cmd'.do \in {"type", "utype", "key", "keydown"} /\ pos' = 1 /\ Making' =>
         \A j \in (DOMAIN Batch)' :
           j < next'.op /\ (\A l \in (DOMAIN Batch)' : j <= l /\ l < next'.op => Batch'[l].do = "press")
             => Batch'[j].on \in db'.keys
  BY <1>5
<1>10. cmd'.do \in {"type", "utype", "key", "keydown"} /\ pos' = 1 /\ Making' =>
         (With(Batch, next.op) \subseteq Handled(Len(made)) /\ g.keys \subseteq Spared \cup With(Batch, next.op))'
  BY <1>5
<1>11. cmd'.do \in {"click", "doubleclick"} => db'.at = Target(cmd.to)'
  BY <1>6
<1>12. cmd'.do = "drag" => /\ next'.batch \in {2, 3} => db'.at = Target(cmd.from)'
                           /\ next'.batch = 4 => db'.at = Target(cmd.to)'
  BY <1>7
<1>13. cmd'.do = "keyup" => ParseKeySpec(cmd'.spec).key \notin db'.keys
  BY <1>8
<1>16. cmd'.do = "keydown" => ParseKeySpec(cmd'.spec).key \in db'.keys
  BY <1>15
<1> QED BY <1>9, <1>10, <1>11, <1>12, <1>13, <1>16 DEF SoFar

\* What a step of Generate adds is what was asked for, and comes when it was.
LEMMA GenerateFaithful ==
  ASSUME TypeOK, Generate, NEW view, Clean(view), Faithful(view), NEW w,
         \A i \in 0..Len(made) : w[i] = view[i],
         \A j \in 1..Len(Events(db, Batch[next.op])) :
           w[Len(made) + j] = Later(cmd, w[Len(made) + j - 1], Events(db, Batch[next.op])[j]),
         Grows(view[Len(made)], w[Len(made')], Batch[next.op])
  PROVE  Faithful(w)'
<1> DEFINE op  == Batch[next.op]
           new == Events(db, op)
           m   == Len(made)
           n   == m + Len(new)
           l   == Len(made')
           f   == view[m]
<1> SUFFICES ASSUME cmd.do # "calibrate" PROVE Faithful(w)'
  <2>1. cmd' = cmd
    BY GenerateMoves
  <2> QED BY <2>1 DEF Faithful
<1>1. /\ m \in Nat /\ Len(new) \in 0..2 /\ l = (IF LastOfBatch THEN n + 1 ELSE n)
      /\ \A i \in 1..m : made'[i] = made[i]
      /\ \A j \in 1..Len(new) : made'[m + j] = Event(new[j])
      /\ LastOfBatch => made'[n + 1] = End
      /\ op.do \in Operations /\ next.op \in DOMAIN Batch /\ Making
  BY GenerateFacts
<1>2. UNCHANGED <<cmd, offset, pos, ghost>> /\ cmd \in Commands
  BY <1>1, GenerateMoves, MakingFacts
<1>3. /\ Aim' = Aim /\ Gesture' = Gesture
      /\ \A do : Spot(do)' = Spot(do)
      /\ \A e : Wanted(e)' <=> Wanted(e)
  BY <1>2, SameGesture
<1>4. AtLast(f) /\ db.buttons = Down /\ InStep(view) /\ SoFar(f)
  BY DEF Clean, AtLast, Faithful
<1>5. /\ \A j \in 1..Len(new) : Wanted(new[j]) => j = Len(new) /\ Wanted(op)
      /\ Wanted(op) => Len(new) \in {1, 2} /\ new[Len(new)] = op
  BY <1>4, WantedNew
<1>6. /\ next = Ordinal(next.batch, next.op) /\ Earlier(next, next')
      /\ \A b \in DOMAIN Gesture : \A o \in DOMAIN Gesture[b] :
           /\ Passed(Ordinal(b, o)) => Passed(Ordinal(b, o))'
           /\ pos = Aim /\ Passed(Ordinal(b, o))' => Passed(Ordinal(b, o)) \/ (b = next.batch /\ o = next.op)
  BY NextPassed
<1>7. Wanted(op) => /\ pos = Aim /\ Batch = Gesture[next.batch] /\ next.batch \in DOMAIN Gesture
                    /\ next.op \in DOMAIN Gesture[next.batch]
  <2> SUFFICES ASSUME Wanted(op) PROVE pos = Aim /\ Batch = Gesture[next.batch] /\ next.batch \in DOMAIN Gesture
    BY <1>1
  <2>1. op.do \notin {"move", "release"}
    BY DEF Wanted
  <2>2. Batch = <<MoveTo(Target(cmd.to))>> => FALSE
    <3> SUFFICES ASSUME Batch = <<MoveTo(Target(cmd.to))>> PROVE FALSE
      OBVIOUS
    <3>1. next.op = 1 /\ Batch[1] = MoveTo(Target(cmd.to))
      BY <1>1, OnlyBatch
    <3> QED BY <2>1, <3>1, Fields
  <2> QED BY <1>1, <2>1, <2>2, Underway
<1>8. \A e : Wanted(Event(e)) <=> Wanted(e)
  BY DEF Wanted, Event
<1>9. ~Wanted(End)
  BY DEF Wanted, End
<1>10. ASSUME NEW i \in 1..l, Wanted(made'[i])
       PROVE  i \in 1..m \/ (i = n /\ i \notin 1..m /\ Wanted(op) /\ made'[i] = Event(op))
  <2>1. CASE i \in 1..m
    BY <2>1
  <2>2. CASE i \in (m + 1)..n
    <3>1. i - m \in 1..Len(new) /\ m + (i - m) = i
      BY <1>1, <2>2
    <3>2. made'[i] = Event(new[i - m])
      BY <1>1, <3>1
    <3>3. Wanted(new[i - m])
      BY <1>8, <1>10, <3>2
    <3>4. i - m = Len(new) /\ Wanted(op)
      BY <1>5, <3>1, <3>3
    <3>5. new[i - m] = op
      BY <1>5, <3>4
    <3>6. i = n /\ i \notin 1..m
      BY <1>1, <2>2, <3>4
    <3> QED BY <3>2, <3>4, <3>5, <3>6
  <2>3. CASE i \notin 1..m /\ i \notin (m + 1)..n
    <3>1. i = n + 1 /\ LastOfBatch
      BY <1>1, <2>3
    <3> QED BY <1>1, <1>9, <1>10, <3>1
  <2> QED BY <2>1, <2>2, <2>3
<1>11. Wanted(op) => n \in 1..l /\ n \notin 1..m /\ made'[n] = Event(op) /\ n - 1 \in Nat
  <2> SUFFICES ASSUME Wanted(op) PROVE n \in 1..l /\ n \notin 1..m /\ made'[n] = Event(op) /\ n - 1 \in Nat
    OBVIOUS
  <2>1. Len(new) \in 1..Len(new) /\ Len(new) > 0
    <3>1. PICK c : c = Len(new)
      OBVIOUS
    <3>2. c \in {1, 2}
      BY <1>5, <3>1
    <3>3. c \in 1..c /\ c > 0
      BY <3>2
    <3> QED BY <3>1, <3>3
  <2>2. made'[n] = Event(op)
    BY <1>1, <1>5, <2>1
  <2> QED BY <1>1, <2>1, <2>2
<1>12. ASSUME NEW i \in 1..m, Wanted(made[i])
       PROVE  AsWanted(w, i)'
  <2>1. AsWanted(view, i)
    BY <1>4, <1>12 DEF InStep
  <2>2. w[i - 1] = view[i - 1] /\ made'[i] = made[i]
    BY <1>1
  <2>3. PICK b, o : b = made[i].of.batch /\ o = made[i].of.op
    OBVIOUS
  <2>4. /\ made[i].of = Ordinal(b, o) /\ pos >= Aim /\ Passed(Ordinal(b, o))
        /\ b \in DOMAIN Gesture /\ o \in DOMAIN Gesture[b]
    BY <2>1, <2>3 DEF AsWanted
  <2>5. Passed(Ordinal(b, o))'
    BY <1>6, <2>4
  <2>6. Passed(Ordinal(b, o))' = Passed(made[i].of)'
    BY <2>2, <2>4 DEF Passed
  <2>7. Handled(i - 1)' = Handled(i - 1) /\ Handled(Len(made)) \subseteq Handled(Len(made))'
    <3>1. i - 1 \in 0..m
      BY <1>1
    <3> QED BY <3>1, HandledNext
  <2>8. made[i].do = "press" =>
          With(Gesture[b], o) \subseteq Handled(Len(made))'
    BY <2>1, <2>3, <2>7 DEF AsWanted
  <2> QED BY <1>2, <1>3, <2>1, <2>2, <2>3, <2>4, <2>5, <2>6, <2>7, <2>8 DEF AsWanted
<1>13. PICK q : q = n
  OBVIOUS
<1>14. ASSUME Wanted(op)
       PROVE  AsWanted(w, q)'
  <2>1. w[q - 1].at = f.at /\ w[q - 1].keys \subseteq f.keys /\ f.keys \ {op.on} \subseteq w[q - 1].keys
    <3>1. w[m] = f
      BY <1>1
    <3>2. w[n - 1].at = w[m].at /\ w[n - 1].keys \subseteq w[m].keys /\ w[m].keys \ {op.on} \subseteq w[n - 1].keys
      BY <1>4, <1>14, JustBefore
    <3> QED BY <1>13, <3>1, <3>2
  <2>2. made'[q].do = op.do /\ made'[q].on = op.on /\ made'[q].of = next
    BY <1>11, <1>13, <1>14 DEF Event
  <2>3. /\ pos = Aim /\ Batch = Gesture[next.batch] /\ next.batch \in DOMAIN Gesture
        /\ next.op \in DOMAIN Gesture[next.batch]
    BY <1>7, <1>14
  <2>4. op.do = "press" =>
          /\ With(Batch, next.op) \ {op.on} \subseteq w[q - 1].keys
          /\ w[q - 1].keys \ {op.on} \subseteq With(Batch, next.op) \cup (ghost.before \ Handled(q - 1)')
          /\ With(Batch, next.op) \subseteq Handled(Len(made))'
    <3> SUFFICES ASSUME op.do = "press"
                 PROVE  /\ With(Batch, next.op) \ {op.on} \subseteq w[q - 1].keys
                        /\ w[q - 1].keys \ {op.on}
                             \subseteq With(Batch, next.op) \cup (ghost.before \ Handled(q - 1)')
                        /\ With(Batch, next.op) \subseteq Handled(Len(made))'
      OBVIOUS
    <3>1. /\ With(Batch, next.op) \subseteq db.keys /\ f.keys \subseteq Spared \cup With(Batch, next.op)
          /\ With(Batch, next.op) \subseteq Handled(Len(made))
      BY <1>4, PressedHeld
    <3>2. db.keys \subseteq f.keys
      BY <1>4 DEF AtLast
    <3>3. /\ Handled(Len(made)) \subseteq Handled(Len(made))'
          /\ Handled(q - 1)' \subseteq Handled(Len(made)) \cup {op.on}
      <4>1. q - 1 \in Nat /\ q - 1 < n
        BY <1>1, <1>11, <1>13, <1>14
      <4> QED BY <4>1, HandledNext
    <3>4. Spared = ghost.before \ Handled(Len(made))
      BY DEF Spared
    <3> QED BY <2>1, <3>1, <3>2, <3>3, <3>4
  <2>5. op.do \in {"push", "let"} => There(w[q - 1].at, Spot(op.do))
    BY <1>4, <2>1, AtSpot
  <2>6. PICK b, o, d, k : b = next.batch /\ o = next.op /\ d = op.do /\ k = op.on
    OBVIOUS
  <2>7. /\ made'[q].do = d /\ made'[q].on = k /\ made'[q].of = Ordinal(b, o)
        /\ made'[q].of.batch = b /\ made'[q].of.op = o
    BY <1>6, <2>2, <2>6
  <2>8. Gesture[b][o].do = d /\ Gesture[b][o].on = k /\ b \in DOMAIN Gesture /\ o \in DOMAIN Gesture[b]
    BY <2>3, <2>6
  <2>9. pos' >= Aim' /\ Passed(made[q].of)'
    <3>1. Aim \in Nat
      BY DEF Aim
    <3>2. pos' = Aim' /\ Earlier(made'[q].of, next')
      BY <1>2, <1>3, <1>6, <2>2, <2>3
    <3> QED BY <1>3, <3>1, <3>2 DEF Passed
  <2>10. d = "press" => /\ With(Gesture[b], o) \ {k} \subseteq w[q - 1].keys
                        /\ w[q - 1].keys \ {k} \subseteq With(Gesture[b], o) \cup (ghost.before \ Handled(q - 1)')
                        /\ With(Gesture[b], o) \subseteq Handled(Len(made))'
    BY <2>3, <2>4, <2>6
  <2>11. d \in {"push", "let"} => There(w[q - 1].at, Spot(d))
    BY <2>5, <2>6
  <2>12. Spot(d)' = Spot(d)
    BY <1>3
  <2> QED BY <1>2, <1>3, <2>7, <2>8, <2>9, <2>10, <2>11, <2>12 DEF AsWanted
<1>15. \A i \in 1..l : Wanted(made'[i]) => AsWanted(w, i)'
  <2> SUFFICES ASSUME NEW i \in 1..l, Wanted(made'[i]) PROVE AsWanted(w, i)'
    OBVIOUS
  <2>1. CASE i \in 1..m
    BY <1>1, <1>12, <2>1
  <2>2. CASE i \notin 1..m
    BY <1>10, <1>13, <1>14, <2>2
  <2> QED BY <2>1, <2>2
<1>16. ASSUME NEW i \in 1..l, NEW j \in 1..l, i < j, Wanted(made'[i]), Wanted(made'[j])
       PROVE  Earlier(made'[i].of, made'[j].of)
  <2>1. i \in 1..m
    <3> HIDE DEF n, m, l
    <3>1. CASE j \in 1..m
      BY <1>1, <1>16, <3>1
    <3>2. CASE j \notin 1..m
      <4>1. j = n /\ j \notin 1..m
        BY <1>10, <1>16, <3>2
      <4>2. i # n
        BY <1>16, <4>1
      <4> QED BY <1>10, <1>16, <4>2
    <3> QED BY <3>1, <3>2
  <2>2. made'[i] = made[i]
    BY <1>1, <2>1
  <2>3. CASE j \in 1..m
    <3>1. made'[j] = made[j]
      BY <1>1, <2>3
    <3> QED BY <1>4, <1>16, <2>1, <2>2, <2>3, <3>1 DEF InStep
  <2>4. CASE j \notin 1..m
    <3>1. Wanted(op) /\ made'[j] = Event(op)
      BY <1>10, <1>16, <2>4
    <3>2. made'[j].of = next
      BY <3>1 DEF Event
    <3>3. AsWanted(view, i)
      BY <1>4, <1>16, <2>1, <2>2 DEF InStep
    <3>4. Earlier(made[i].of, next)
      BY <1>7, <3>1, <3>3 DEF AsWanted, Passed, Aim, TypeOK
    <3> QED BY <2>2, <3>2, <3>4
  <2> QED BY <2>3, <2>4
<1>17. ASSUME NEW b \in DOMAIN Gesture, NEW o \in DOMAIN Gesture[b],
              Wanted(Gesture[b][o]), pos >= Aim, Passed(Ordinal(b, o))'
       PROVE  \E i \in 1..l : Wanted(made'[i]) /\ made'[i].of = Ordinal(b, o)
  <2>1. CASE Passed(Ordinal(b, o))
    <3>1. PICK i \in 1..m : Wanted(made[i]) /\ made[i].of = Ordinal(b, o)
      BY <1>4, <1>17, <2>1 DEF InStep
    <3>2. i \in 1..l /\ made'[i] = made[i]
      BY <1>1
    <3> QED BY <3>1, <3>2
  <2>2. CASE ~Passed(Ordinal(b, o))
    <3>1. pos = Aim
      BY <1>17, <2>2 DEF Passed, Aim, TypeOK
    <3>2. b = next.batch /\ o = next.op
      BY <1>6, <1>17, <2>2, <3>1
    <3>3. Batch = Gesture[next.batch]
      BY <1>1, <3>1, Underway
    <3>4. Wanted(op)
      BY <1>17, <3>2, <3>3
    <3>5. n \in 1..l /\ made'[n] = Event(op)
      BY <1>11, <3>4
    <3>6. Wanted(made'[n]) /\ made'[n].of = Ordinal(b, o)
      BY <1>6, <1>8, <3>2, <3>4, <3>5 DEF Event
    <3> QED BY <3>5, <3>6
  <2> QED BY <2>1, <2>2
<1>18. SoFar(w[Len(made)])'
  <2>1. PICK g : g = w[l]
    OBVIOUS
  <2>2. SoFar(g)'
    BY <1>4, <2>1, GenerateSoFar
  <2> QED BY <2>1, <2>2
<1>19. InStep(w)'
  BY <1>2, <1>3, <1>15, <1>16, <1>17 DEF InStep
<1>20. ItsOwn'
  <2> SUFFICES ASSUME NEW i \in 1..l, made'[i].do \in {"press", "release"}
               PROVE  made'[i].on \in KeysOf(cmd) /\ (cmd.do = "keyup" => made'[i].do = "release")
    <3>1. KeysOf(cmd)' = KeysOf(cmd)
      BY <1>2 DEF KeysOf, Touched, Pressed, Typed
    <3> QED BY <1>2, <3>1 DEF ItsOwn
  <2>1. CASE i \in 1..m
    <3>1. made'[i] = made[i]
      BY <1>1, <2>1
    <3> QED BY <2>1, <3>1 DEF Faithful, ItsOwn
  <2>2. CASE i \notin 1..m
    <3>1. made'[i].on = op.on /\ op.do \in {"press", "release"} /\ (op.do = "release" => made'[i].do = "release")
      BY <2>2, HandledNext
    <3>2. op.on \in KeysOf(cmd) /\ (cmd.do = "keyup" => op.do = "release")
      BY <1>1, <3>1, OwnKeys
    <3> QED BY <3>1, <3>2
  <2> QED BY <2>1, <2>2
<1> QED BY <1>18, <1>19, <1>20 DEF Faithful

\* Ordinals are numbers from 1.
LEMMA OrdinalsStart ==
  cmd \in Commands /\ cmd.do # "calibrate" =>
    \A b \in DOMAIN Gesture : \A o \in DOMAIN Gesture[b] : b \in Nat \ {0} /\ o \in Nat \ {0}
<1> SUFFICES ASSUME cmd \in Commands, cmd.do # "calibrate", NEW b \in DOMAIN Gesture, NEW o \in DOMAIN Gesture[b]
             PROVE  b \in Nat \ {0} /\ o \in Nat \ {0}
  OBVIOUS
<1> QED BY GestureNumbers

\* A command that begins has asked for nothing yet.
LEMMA BeginFaithful ==
  ASSUME TypeOK, NEW c \in Commands, Begin(c), phase' # "idle", NEW v, v[0].keys = ghost'.before
  PROVE  Faithful(v)'
<1> SUFFICES ASSUME c.do # "calibrate" PROVE Faithful(v)'
  BY DEF Begin, Faithful
<1>1. /\ cmd' = c /\ made' = <<>> /\ pos' = 1 /\ next'.batch = 1 /\ next'.op = 1 /\ offset' = offset
      /\ UNCHANGED db
  BY DEF Begin, AtStart, First
<1>2. Len(made') = 0
  BY <1>1
<1>3. (cmd \in Commands /\ cmd.do # "calibrate" =>
        \A b \in DOMAIN Gesture : \A o \in DOMAIN Gesture[b] : b \in Nat \ {0} /\ o \in Nat \ {0})'
  BY OrdinalsStart, PTL
<1>4. ASSUME NEW b \in DOMAIN Gesture', NEW o \in DOMAIN Gesture'[b], pos' >= Aim', Passed(Ordinal(b, o))'
      PROVE  FALSE
  <2>1. b \in Nat \ {0} /\ o \in Nat \ {0}
    BY <1>1, <1>3, <1>4
  <2>2. Aim' \in {1, 2}
    BY DEF Aim
  <2>3. ~Earlier(Ordinal(b, o), next')
    BY <1>1, <2>1 DEF Earlier, Ordinal
  <2> QED BY <1>1, <1>4, <2>2, <2>3 DEF Passed
<1>5. InStep(v)'
  <2>1. \A i \in 1..Len(made') : FALSE
    BY <1>2
  <2> QED BY <1>4, <2>1 DEF InStep
<1>6. Making' => \A j \in (DOMAIN Batch)' : ~(j < next'.op)
  <2> SUFFICES ASSUME Making', NEW j \in (DOMAIN Batch)' PROVE ~(j < next'.op)
    OBVIOUS
  <2>1. Program(cmd)' = Program(c)
    BY <1>1, SameProgram
  <2>2. /\ 1 \in DOMAIN Program(c) /\ Program(c)[1].step = "generate" /\ 1 <= Len(Program(c)[1].gesture)
        /\ Batch' = Program(c)[1].gesture[1]
    BY <1>1, <2>1 DEF Making, AtStep, Here, Batch
  <2>3. IsSeq(Program(c)[1].gesture[1])
    BY <2>2, BatchFacts
  <2>4. IsSeq(Batch')
    BY <2>2, <2>3
  <2>5. j \in Nat \ {0}
    <3>1. PICK s : s = Batch'
      OBVIOUS
    <3>2. DOMAIN s = 1..Len(s) /\ Len(s) \in Nat
      BY <2>4, <3>1, SeqFacts
    <3> QED BY <3>1, <3>2
  <2> QED BY <1>1, <2>5
<1>7. SoFar(v[0])'
  <2>1. cmd'.do \in {"type", "utype", "key", "keydown"} /\ pos' = 1 /\ Making' =>
          \A j \in (DOMAIN Batch)' : ~(j < next'.op)
    BY <1>6
  <2>2. Spared' = v[0].keys
    <3>1. Handled(Len(made))' = {}
      BY <1>2 DEF Handled
    <3> QED BY <3>1 DEF Spared
  <2>3. Making' => With(Batch, next.op)' = {}
    BY <1>6 DEF With
  <2> QED BY <1>1, <2>1, <2>2, <2>3 DEF SoFar
<1>8. ItsOwn'
  <2>1. \A i \in 1..Len(made') : FALSE
    BY <1>2
  <2> QED BY <2>1 DEF ItsOwn
<1> QED BY <1>1, <1>2, <1>5, <1>7, <1>8 DEF Faithful

-------------------------------------------------------------------------------
(* The invariant. *)

\* A course that bears out what the injector believes and what the command asks for.
Sound(view) == Course(view) /\ Clean(view) /\ Level(view) /\ Faithful(view)

\* A course stays sound while nothing happens to the command.
LEMMA SoundStays ==
  ASSUME NEW view, Sound(view), UNCHANGED <<db, srv, offset, cmd, pos, next, made, sent, phase, log, ghost>>
  PROVE  Sound(view)' /\ (Control => Control')
<1>1. /\ Here' = Here /\ Batch' = Batch /\ Program(cmd)' = Program(cmd)
      /\ (Making' <=> Making) /\ (Made' <=> Made) /\ \A k : Held(k)' <=> Held(k)
  BY SameStep
<1>2. Course(view)'
  BY CourseStays DEF Sound
<1>3. Down' = Down /\ \A k : Owed(k) => Owed(k)'
  <2>1. \A k : Releases(Batch, next.op - 1, k) => Releases(Batch', next'.op - 1, k)
    BY <1>1
  <2>2. ASSUME NEW k, Owed(k) PROVE Owed(k)'
    <3>1. CASE Making /\ Releases(Batch, next.op - 1, k)
      BY <1>1, <2>1, <3>1 DEF Owed, Releases
    <3>2. CASE Held(k)
      BY <1>1, <3>2 DEF Owed
    <3> QED BY <2>2, <3>1, <3>2 DEF Owed
  <2> QED BY <1>1, <2>2 DEF Down
<1>4. Clean(view)'
  BY <1>3, CleanStays DEF Sound
<1>5. Level(view)'
  BY <1>1 DEF Sound, Level, Pumping, Boundary
<1>6. Faithful(view)'
  BY <1>1, FaithfulWaits DEF Sound
<1>7. Control => Control'
  BY <1>1 DEF Control, Boundary, Pumping
<1> QED BY <1>2, <1>4, <1>5, <1>6, <1>7 DEF Sound

------------------------------------------------------------------------------
(* When a command succeeds. *)

\* Where in the gesture the operations of a kind that are asked for stand, in order.
Operation(p) == Gesture[p.batch][p.op]
Stands(p) == p = Ordinal(p.batch, p.op) /\ p.batch \in DOMAIN Gesture /\ p.op \in DOMAIN Gesture[p.batch]
Spots(do, I, spot) ==
    /\ \A i \in I : Stands(spot[i]) /\ Operation(spot[i]).do = do /\ Wanted(Operation(spot[i]))
    /\ \A p : Stands(p) /\ Operation(p).do = do /\ Wanted(Operation(p)) => \E i \in I : spot[i] = p
    /\ \A i, j \in I : i < j => Earlier(spot[i], spot[j])

\* The events of a kind that are asked for.
Hits(do) == {n \in 1..Len(made) : made[n].do = do /\ Wanted(made[n])}

\* When nothing more is to come they have all arrived, once and in order.
LEMMA AllArrived ==
  ASSUME TypeOK, cmd \in Commands, cmd.do # "calibrate", pos > Aim, NEW view, InStep(view),
         NEW do, NEW I, NEW spot, Spots(do, I, spot)
  PROVE  \E where \in [I -> 1..Len(made)] :
           /\ InOrder(where, Hits(do))
           /\ \A i \in I : /\ AsWanted(view, where[i]) /\ made[where[i]].of = spot[i]
                           /\ made[where[i]].do = do /\ made[where[i]].on = Operation(spot[i]).on
<1> DEFINE m == Len(made)
<1>1. m \in Nat
  BY SeqFacts DEF TypeOK
<1> HIDE DEF m
<1>2. ASSUME NEW n \in Hits(do)
      PROVE  /\ n \in 1..m /\ AsWanted(view, n) /\ Stands(made[n].of) /\ Operation(made[n].of).do = do
             /\ Wanted(Operation(made[n].of)) /\ made[n].do = do /\ made[n].on = Operation(made[n].of).on
  <2>1. n \in 1..m /\ made[n].do = do /\ Wanted(made[n])
    BY <1>2 DEF Hits, m
  <2>2. AsWanted(view, n)
    BY <2>1 DEF InStep, m
  <2>3. /\ Stands(made[n].of) /\ Operation(made[n].of).do = made[n].do
        /\ Operation(made[n].of).on = made[n].on
    BY <2>2 DEF AsWanted, Stands, Operation
  <2> QED BY <2>1, <2>2, <2>3 DEF Wanted
<1>3. ASSUME NEW i \in I PROVE \E n \in Hits(do) : made[n].of = spot[i]
  <2>1. Stands(spot[i]) /\ Operation(spot[i]).do = do /\ Wanted(Operation(spot[i]))
    BY <1>3 DEF Spots
  <2>2. PICK b, o : b = spot[i].batch /\ o = spot[i].op
    OBVIOUS
  <2>3. /\ spot[i] = Ordinal(b, o) /\ b \in DOMAIN Gesture /\ o \in DOMAIN Gesture[b]
        /\ Wanted(Gesture[b][o])
    BY <2>1, <2>2 DEF Stands, Operation
  <2>4. pos >= Aim /\ Passed(Ordinal(b, o))
    BY DEF Passed, Aim, TypeOK
  <2>5. PICK n \in 1..m : Wanted(made[n]) /\ made[n].of = Ordinal(b, o)
    BY <2>3, <2>4 DEF InStep, m
  <2>6. AsWanted(view, n)
    BY <2>5 DEF InStep, m
  <2>7. made[n].do = do
    BY <2>1, <2>3, <2>5, <2>6 DEF AsWanted, Operation
  <2> QED BY <2>3, <2>5, <2>7 DEF Hits, m
<1>4. ASSUME NEW n \in Hits(do) PROVE \E i \in I : spot[i] = made[n].of
  <2>1. Stands(made[n].of) /\ Operation(made[n].of).do = do /\ Wanted(Operation(made[n].of))
    BY <1>2
  <2> QED BY <2>1 DEF Spots
<1>5. ASSUME NEW n \in Hits(do), NEW k \in Hits(do), n < k PROVE Earlier(made[n].of, made[k].of)
  <2>1. /\ n \in 1..m /\ k \in 1..m /\ Wanted(made[n]) /\ Wanted(made[k])
    BY DEF Hits, m
  <2> QED BY <1>5, <2>1 DEF InStep, m
<1>6. ASSUME NEW p, NEW q, Stands(p), Stands(q), Earlier(p, q) PROVE p # q /\ ~Earlier(q, p)
  <2>1. /\ p.batch \in Nat /\ p.op \in Nat /\ q.batch \in Nat /\ q.op \in Nat
    BY <1>6, GestureNumbers DEF Stands
  <2> QED BY <1>6, <2>1 DEF Earlier
<1> DEFINE where == [i \in I |-> CHOOSE n \in Hits(do) : made[n].of = spot[i]]
<1>7. ASSUME NEW i \in I PROVE where[i] \in Hits(do) /\ made[where[i]].of = spot[i]
  BY <1>3
<1>8. DOMAIN where = I
  OBVIOUS
<1>9. where \in [I -> 1..m]
  BY <1>2, <1>7
<1> HIDE DEF where
<1>10. ASSUME NEW i \in I, NEW j \in I, i < j PROVE where[i] < where[j]
  <2>1. Earlier(spot[i], spot[j]) /\ Stands(spot[i]) /\ Stands(spot[j])
    BY <1>10 DEF Spots
  <2>2. where[i] # where[j]
    BY <1>6, <1>7, <2>1
  <2>3. ~(where[j] < where[i])
    BY <1>5, <1>6, <1>7, <2>1
  <2>4. where[i] \in 1..m /\ where[j] \in 1..m
    BY <1>2, <1>7
  <2> QED BY <1>1, <2>2, <2>3, <2>4
<1>11. ASSUME NEW n \in Hits(do) PROVE \E i \in I : where[i] = n
  <2>1. PICK i \in I : spot[i] = made[n].of
    BY <1>4
  <2>2. where[i] \in Hits(do) /\ made[where[i]].of = made[n].of
    BY <1>7, <2>1
  <2>3. where[i] \in 1..m /\ n \in 1..m /\ Stands(made[n].of)
    BY <1>2, <2>2
  <2>4. ~(where[i] < n) /\ ~(n < where[i])
    BY <1>5, <1>6, <2>2, <2>3
  <2> QED BY <1>1, <2>3, <2>4
<1>12. InOrder(where, Hits(do))
  BY <1>7, <1>8, <1>10, <1>11 DEF InOrder
<1>13. \A i \in I : /\ AsWanted(view, where[i]) /\ made[where[i]].of = spot[i]
                    /\ made[where[i]].do = do /\ made[where[i]].on = Operation(spot[i]).on
  BY <1>2, <1>7
<1> QED BY <1>9, <1>12, <1>13 DEF m

\* Where the keys that go down stand, each under those pressed before it.
PressedAt(spot) ==
    /\ Spots("press", DOMAIN Pressed(cmd), spot)
    /\ \A i \in DOMAIN Pressed(cmd) :
         /\ Operation(spot[i]).on = Pressed(cmd)[i].on
         /\ With(Gesture[spot[i].batch], spot[i].op) = Pressed(cmd)[i].with

\* The operation with a given ordinal.
LEMMA OrdinalFields ==
  ASSUME NEW b, NEW o
  PROVE  /\ Ordinal(b, o).batch = b /\ Ordinal(b, o).op = o
         /\ Operation(Ordinal(b, o)) = Gesture[b][o]
         /\ Stands(Ordinal(b, o)) <=> b \in DOMAIN Gesture /\ o \in DOMAIN Gesture[b]
BY DEF Ordinal, Operation, Stands

\* The key of a character, and what it goes down under.
LEMMA StrokeAt ==
  ASSUME NEW c \in DOMAIN Layout
  PROVE  LET B == Stroke(c)
             o == IF Layout[c].shift THEN 2 ELSE 1
         IN  /\ o \in DOMAIN B /\ B[o] = Press(Layout[c].key) /\ Layout[c].key # LSHIFT
             /\ With(B, o) = IF Layout[c].shift THEN {LSHIFT} ELSE {}
             /\ \A l \in DOMAIN B : B[l].do = "press" /\ B[l].on # LSHIFT => l = o
<1> DEFINE B == Stroke(c)
           s == Layout[c]
<1>1. s.shift \in BOOLEAN /\ s.key # LSHIFT
  BY LayoutAssumption
<1>2. CASE s.shift
  <2>1. /\ DOMAIN B = 1..4 /\ B[1] = Press(LSHIFT) /\ B[2] = Press(s.key)
        /\ B[3] = Release(s.key) /\ B[4] = Release(LSHIFT)
    BY <1>2, StrokeShape
  <2> HIDE DEF B, s
  <2>2. \A l \in DOMAIN B : l \in {1, 2, 3, 4}
    BY <2>1
  <2>3. \A l : l \in DOMAIN B /\ l < 2 /\ B[l].do = "press" <=> l = 1
    BY <2>1, <2>2, Fields
  <2>4. With(B, 2) = {B[1].on}
    BY <2>3 DEF With
  <2>5. \A l \in DOMAIN B : B[l].do = "press" /\ B[l].on # LSHIFT => l = 2
    BY <2>1, <2>2, Fields
  <2> QED BY <1>1, <1>2, <2>1, <2>4, <2>5, Fields DEF B, s
<1>3. CASE ~s.shift
  <2>1. DOMAIN B = 1..2 /\ B[1] = Press(s.key) /\ B[2] = Release(s.key)
    BY <1>3, StrokeShape
  <2> HIDE DEF B, s
  <2>2. \A l \in DOMAIN B : l \in {1, 2}
    BY <2>1
  <2>3. With(B, 1) = {}
    BY <2>2 DEF With
  <2>4. \A l \in DOMAIN B : B[l].do = "press" => l = 1
    BY <2>1, <2>2, Fields
  <2> QED BY <1>1, <1>3, <2>1, <2>3, <2>4 DEF B, s
<1> QED BY <1>1, <1>2, <1>3

\* Where the keys asked for are pressed: a text, character by character,
LEMMA TypePressed ==
  ASSUME cmd \in Commands, cmd.do = "type"
  PROVE  \E spot : PressedAt(spot)
<1> DEFINE t == cmd.text
           I == {j \in DOMAIN t : t[j] \in DOMAIN Layout}
           o(i) == IF Layout[t[i]].shift THEN 2 ELSE 1
           spot == [i \in I |-> Ordinal(i, o(i))]
<1>1. /\ Gesture = TypeText(t) /\ IsSeq(t)
  BY GestureIs, CommandTypes DEF GestureFor
<1>2. /\ DOMAIN Gesture = DOMAIN t
      /\ \A i \in DOMAIN t : Gesture[i] = IF t[i] \in DOMAIN Layout THEN Stroke(t[i]) ELSE <<>>
  BY <1>1, TextIsGesture
<1>3. /\ DOMAIN Pressed(cmd) = I
      /\ \A i \in I : /\ Pressed(cmd)[i].on = Layout[t[i]].key
                      /\ Pressed(cmd)[i].with = IF Layout[t[i]].shift THEN {LSHIFT} ELSE {}
  BY DEF Pressed, Typed
<1>4. \A i \in I : /\ o(i) \in DOMAIN Gesture[i] /\ Gesture[i][o(i)] = Press(Layout[t[i]].key)
                   /\ Layout[t[i]].key # LSHIFT
                   /\ With(Gesture[i], o(i)) = IF Layout[t[i]].shift THEN {LSHIFT} ELSE {}
                   /\ \A l \in DOMAIN Gesture[i] : Gesture[i][l].do = "press" /\ Gesture[i][l].on # LSHIFT
                        => l = o(i)
  BY <1>2, StrokeAt
<1>5. \A i \in I : i \in DOMAIN Gesture
  BY <1>2
<1>6. ASSUME NEW p, Stands(p), Operation(p).do = "press", Wanted(Operation(p))
      PROVE  p.batch \in I /\ p = Ordinal(p.batch, o(p.batch))
  <2>1. p = Ordinal(p.batch, p.op) /\ p.batch \in DOMAIN t /\ p.op \in DOMAIN Gesture[p.batch]
    BY <1>2, <1>6 DEF Stands
  <2>2. p.batch \in I
    BY <1>2, <2>1, Nothing
  <2>3. Operation(p).on # LSHIFT
    BY <1>6 DEF Wanted
  <2>4. p.op = o(p.batch)
    BY <1>4, <1>6, <2>1, <2>2, <2>3 DEF Operation
  <2> QED BY <2>1, <2>2, <2>4
<1>7. \A i \in I : spot[i] = Ordinal(i, o(i))
  OBVIOUS
<1> HIDE DEF spot, o, I, t
<1>8. ASSUME NEW i \in I
      PROVE  /\ Stands(spot[i]) /\ Operation(spot[i]) = Gesture[i][o(i)]
             /\ Operation(spot[i]).do = "press" /\ Wanted(Operation(spot[i]))
             /\ spot[i].batch = i /\ spot[i].op = o(i)
  <2>1. spot[i] = Ordinal(i, o(i))
    BY <1>7
  <2>2. /\ Stands(spot[i]) /\ Operation(spot[i]) = Gesture[i][o(i)]
        /\ spot[i].batch = i /\ spot[i].op = o(i)
    BY <1>4, <1>5, <2>1, OrdinalFields
  <2> QED BY <1>4, <2>2, Fields DEF Wanted
<1>9. Spots("press", I, spot)
  <2>1. \A i, j \in I : i < j => Earlier(spot[i], spot[j])
    BY <1>8 DEF Earlier
  <2>2. \A p : Stands(p) /\ Operation(p).do = "press" /\ Wanted(Operation(p)) => \E i \in I : spot[i] = p
    BY <1>6, <1>7
  <2> QED BY <1>8, <2>1, <2>2 DEF Spots
<1>10. \A i \in I : /\ Operation(spot[i]).on = Pressed(cmd)[i].on
                    /\ With(Gesture[spot[i].batch], spot[i].op) = Pressed(cmd)[i].with
  <2> SUFFICES ASSUME NEW i \in I
               PROVE  /\ Operation(spot[i]).on = Pressed(cmd)[i].on
                      /\ With(Gesture[spot[i].batch], spot[i].op) = Pressed(cmd)[i].with
    OBVIOUS
  <2>1. Operation(spot[i]).on = Layout[t[i]].key
    BY <1>4, <1>8, Fields
  <2>2. With(Gesture[spot[i].batch], spot[i].op) = IF Layout[t[i]].shift THEN {LSHIFT} ELSE {}
    BY <1>4, <1>8
  <2> QED BY <1>3, <2>1, <2>2
<1>11. PressedAt(spot)
  BY <1>3, <1>9, <1>10 DEF PressedAt
<1> QED BY <1>11

\* in unicode,
LEMMA UnicodePressed ==
  ASSUME cmd \in Commands, cmd.do = "utype"
  PROVE  \E spot : PressedAt(spot)
<1> DEFINE t == cmd.text
           I == DOMAIN t
           spot == [i \in I |-> Ordinal(i, 1)]
<1>1. Gesture = TypeUnicode(t) /\ IsSeq(t)
  BY GestureIs, CommandTypes DEF GestureFor
<1>2. /\ DOMAIN Gesture = I
      /\ \A i \in I : Gesture[i] = <<Press(Unicode(t[i])), Release(Unicode(t[i]))>>
  BY <1>1, UnicodeIsGesture
<1>3. /\ DOMAIN Pressed(cmd) = I
      /\ \A i \in I : Pressed(cmd)[i].on = Unicode(t[i]) /\ Pressed(cmd)[i].with = {}
  BY DEF Pressed
<1>4. \A i \in I : spot[i] = Ordinal(i, 1)
  OBVIOUS
<1> HIDE DEF spot, I, t
<1>5. ASSUME NEW i \in I
      PROVE  /\ 1 \in DOMAIN Gesture[i] /\ Gesture[i][1] = Press(Unicode(t[i]))
             /\ With(Gesture[i], 1) = {}
             /\ \A l \in DOMAIN Gesture[i] : Gesture[i][l].do = "press" => l = 1
  <2>1. /\ DOMAIN Gesture[i] = 1..2 /\ Gesture[i][1] = Press(Unicode(t[i]))
        /\ Gesture[i][2] = Release(Unicode(t[i]))
    BY <1>2, Pair
  <2>2. \A l \in DOMAIN Gesture[i] : l = 1 \/ l = 2
    BY <2>1
  <2>3. With(Gesture[i], 1) = {}
    BY <2>2 DEF With
  <2> QED BY <2>1, <2>2, <2>3, Fields
<1>6. ASSUME NEW i \in I
      PROVE  /\ Stands(spot[i]) /\ Operation(spot[i]) = Press(Unicode(t[i]))
             /\ Operation(spot[i]).do = "press" /\ Wanted(Operation(spot[i]))
             /\ spot[i].batch = i /\ spot[i].op = 1
  <2>1. /\ Stands(spot[i]) /\ Operation(spot[i]) = Gesture[i][1] /\ spot[i].batch = i /\ spot[i].op = 1
    BY <1>2, <1>4, <1>5, OrdinalFields
  <2> QED BY <1>5, <2>1, Fields DEF Wanted
<1>7. ASSUME NEW p, Stands(p), Operation(p).do = "press" PROVE \E i \in I : spot[i] = p
  BY <1>2, <1>4, <1>5, <1>7 DEF Stands, Operation
<1>8. Spots("press", I, spot)
  <2>1. \A i, j \in I : i < j => Earlier(spot[i], spot[j])
    BY <1>6 DEF Earlier
  <2> QED BY <1>6, <1>7, <2>1 DEF Spots
<1>9. PressedAt(spot)
  BY <1>3, <1>5, <1>6, <1>8, Fields DEF PressedAt
<1> QED BY <1>9

\* a combination, each modifier under those before it,
LEMMA KeyPressed ==
  ASSUME cmd \in Commands, cmd.do = "key"
  PROVE  \E spot : PressedAt(spot)
<1> DEFINE a == ParseKeySpec(cmd.spec)
           n == Len(a.modifiers)
           I == 1..(n + 1)
           B == Gesture[1]
           spot == [i \in I |-> Ordinal(1, i)]
<1>1. /\ n \in Nat /\ IsSeq(a.modifiers) /\ DOMAIN Gesture = {1}
      /\ 1..(n + 1) \subseteq DOMAIN B /\ DownThenUp(B, n + 1)
      /\ \A i \in 1..n : B[i] = Press(a.modifiers[i])
      /\ B[n + 1] = Press(a.key)
  BY KeyShape
<1>2. \A o \in DOMAIN B : o \in Nat \ {0}
  BY <1>1, GestureNumbers
<1>3. /\ DOMAIN Pressed(cmd) = I
      /\ \A i \in I : /\ Pressed(cmd)[i].on = (IF i <= n THEN a.modifiers[i] ELSE a.key)
                      /\ Pressed(cmd)[i].with = {a.modifiers[j] : j \in 1..(i - 1)}
  BY DEF Pressed
<1>4. \A i \in I : spot[i] = Ordinal(1, i)
  OBVIOUS
<1> HIDE DEF spot, a
<1>5. ASSUME NEW i \in I
      PROVE  /\ i \in DOMAIN B /\ B[i] = Press(IF i <= n THEN a.modifiers[i] ELSE a.key)
             /\ With(B, i) = {a.modifiers[j] : j \in 1..(i - 1)}
  <2> HIDE DEF B, n
  <2>1. i \in DOMAIN B /\ i \in Nat /\ i <= n + 1 /\ i >= 1
    BY <1>1
  <2>2. B[i] = Press(IF i <= n THEN a.modifiers[i] ELSE a.key)
    <3>1. CASE i <= n
      <4>1. i \in 1..n
        BY <1>1, <2>1, <3>1
      <4> QED BY <1>1, <3>1, <4>1
    <3>2. CASE ~(i <= n)
      <4>1. i = n + 1
        BY <1>1, <2>1, <3>2
      <4> QED BY <1>1, <3>2, <4>1
    <3> QED BY <3>1, <3>2
  <2>3. \A j : j \in DOMAIN B /\ j < i /\ B[j].do = "press" <=> j \in 1..(i - 1)
    <3>1. ASSUME NEW j \in 1..(i - 1) PROVE j \in DOMAIN B /\ j < i /\ B[j].do = "press"
      <4>1. j \in 1..n /\ j \in 1..(n + 1) /\ j < i
        BY <1>1, <2>1
      <4> QED BY <1>1, <4>1, Fields
    <3>2. \A j \in DOMAIN B : j < i => j \in 1..(i - 1)
      BY <1>2, <2>1 DEF B
    <3> QED BY <3>1, <3>2
  <2>4. \A j \in 1..(i - 1) : B[j].on = a.modifiers[j]
    <3>1. \A j \in 1..(i - 1) : j \in 1..n
      BY <1>1, <2>1
    <3> QED BY <1>1, <3>1, Fields
  <2>5. With(B, i) = {B[j].on : j \in 1..(i - 1)}
    BY <2>3 DEF With
  <2> QED BY <2>1, <2>2, <2>4, <2>5
<1>6. ASSUME NEW i \in I
      PROVE  /\ Stands(spot[i]) /\ Operation(spot[i]) = Press(IF i <= n THEN a.modifiers[i] ELSE a.key)
             /\ Operation(spot[i]).do = "press" /\ Wanted(Operation(spot[i]))
             /\ spot[i].batch = 1 /\ spot[i].op = i
  <2> HIDE DEF I, n
  <2>1. /\ Stands(spot[i]) /\ Operation(spot[i]) = B[i] /\ spot[i].batch = 1 /\ spot[i].op = i
    BY <1>1, <1>4, <1>5, OrdinalFields
  <2> QED BY <1>5, <2>1, Fields DEF Wanted
<1>7. ASSUME NEW p, Stands(p), Operation(p).do = "press" PROVE \E i \in I : spot[i] = p
  <2>1. p = Ordinal(1, p.op) /\ p.op \in DOMAIN B /\ B[p.op].do = "press"
    BY <1>1, <1>7 DEF Stands, Operation
  <2>2. p.op <= n + 1
    BY <1>1, <2>1 DEF DownThenUp
  <2>3. p.op \in I
    BY <1>1, <1>2, <2>1, <2>2
  <2> QED BY <1>4, <2>1, <2>3
<1>8. Spots("press", I, spot)
  <2>1. \A i, j \in I : i < j => Earlier(spot[i], spot[j])
    <3> HIDE DEF I
    <3> QED BY <1>6 DEF Earlier
  <2> HIDE DEF I
  <2> QED BY <1>6, <1>7, <2>1 DEF Spots
<1>9. PressedAt(spot)
  <2> HIDE DEF I, n, B
  <2>1. \A i \in I : Operation(spot[i]).on = IF i <= n THEN a.modifiers[i] ELSE a.key
    BY <1>6, Fields
  <2>2. \A i \in I : With(Gesture[spot[i].batch], spot[i].op) = With(B, i)
    BY <1>6 DEF B
  <2> QED BY <1>3, <1>5, <1>8, <2>1, <2>2 DEF PressedAt
<1> QED BY <1>9

\* one key,
LEMMA KeydownPressed ==
  ASSUME cmd \in Commands, cmd.do = "keydown"
  PROVE  \E spot : PressedAt(spot)
<1> DEFINE k == ParseKeySpec(cmd.spec).key
           e == [on |-> k, with |-> {}]
           spot == [i \in {1} |-> Ordinal(1, 1)]
<1>1. Gesture = << <<Press(k)>> >>
  BY GestureIs DEF GestureFor
<1>2. Pressed(cmd) = <<e>>
  BY DEF Pressed
<1>3. e.on = k /\ e.with = {} /\ spot[1] = Ordinal(1, 1)
  OBVIOUS
<1> HIDE DEF k, e, spot
<1>4. DOMAIN Pressed(cmd) = {1} /\ Pressed(cmd)[1] = e
  BY <1>2, OnlyBatch
<1>5. DOMAIN Gesture = {1} /\ DOMAIN Gesture[1] = {1} /\ Gesture[1][1] = Press(k)
  <2>1. DOMAIN Gesture = {1} /\ Gesture[1] = <<Press(k)>>
    BY <1>1, OnlyBatch
  <2> QED BY <2>1, OnlyBatch
<1>6. /\ Stands(spot[1]) /\ Operation(spot[1]) = Press(k) /\ spot[1].batch = 1 /\ spot[1].op = 1
      /\ Operation(spot[1]).do = "press" /\ Wanted(Operation(spot[1])) /\ Operation(spot[1]).on = k
  <2>1. /\ Stands(spot[1]) /\ Operation(spot[1]) = Press(k) /\ spot[1].batch = 1 /\ spot[1].op = 1
    BY <1>3, <1>5, OrdinalFields
  <2> QED BY <2>1, Fields DEF Wanted
<1>7. With(Gesture[1], 1) = {}
  BY <1>5 DEF With
<1>8. \A p : Stands(p) => p = spot[1]
  BY <1>3, <1>5 DEF Stands
<1>9. Spots("press", {1}, spot)
  BY <1>6, <1>8 DEF Spots
<1>10. PressedAt(spot)
  BY <1>3, <1>4, <1>6, <1>7, <1>9 DEF PressedAt
<1> QED BY <1>10

\* no key at all;
LEMMA NonePressed ==
  ASSUME cmd \in Commands, cmd.do \notin {"type", "utype", "key", "keydown", "calibrate"}
  PROVE  \E spot : PressedAt(spot)
<1>1. DOMAIN Pressed(cmd) = {}
  BY Nothing DEF Pressed
<1>2. \A p : Stands(p) => Operation(p).do # "press"
  BY MouseShape DEF Stands, Operation
<1>3. PressedAt(<<>>)
  BY <1>1, <1>2 DEF PressedAt, Spots
<1> QED BY <1>3

\* so for every command.
LEMMA AllPressed ==
  ASSUME cmd \in Commands, cmd.do # "calibrate"
  PROVE  \E spot : PressedAt(spot)
BY TypePressed, UnicodePressed, KeyPressed, KeydownPressed, NonePressed

\* Where the buttons go down, or come up, and where on the desktop.
ButtonsAt(do, list, spot) ==
    /\ Spots(do, DOMAIN list, spot)
    /\ \A i \in DOMAIN list : Operation(spot[i]).on = list[i].on /\ list[i].at = Spot(do)

\* Where the buttons asked for go down and up: once,
LEMMA OneButton ==
  ASSUME NEW do \in {"push", "let"}, NEW b, NEW p, Stands(p), Operation(p).do = do, Operation(p).on = b,
         \A q : Stands(q) /\ Operation(q).do = do => q = p
  PROVE  \E spot : ButtonsAt(do, << [on |-> b, at |-> Spot(do)] >>, spot)
<1> DEFINE x == [on |-> b, at |-> Spot(do)]
           spot == [i \in {1} |-> p]
<1>1. x.on = b /\ x.at = Spot(do) /\ spot[1] = p
  OBVIOUS
<1> HIDE DEF x, spot
<1>2. DOMAIN <<x>> = {1} /\ <<x>>[1] = x
  BY OnlyBatch
<1>3. Wanted(Operation(p))
  BY DEF Wanted
<1>4. Spots(do, {1}, spot)
  BY <1>1, <1>3 DEF Spots
<1>5. ButtonsAt(do, <<x>>, spot)
  BY <1>1, <1>2, <1>4 DEF ButtonsAt
<1> QED BY <1>5 DEF x, spot

\* or twice;
LEMMA TwoButtons ==
  ASSUME NEW do \in {"push", "let"}, NEW b, NEW p, NEW q, Stands(p), Operation(p).do = do, Operation(p).on = b,
         Stands(q), Operation(q).do = do, Operation(q).on = b, Earlier(p, q),
         \A r : Stands(r) /\ Operation(r).do = do => r = p \/ r = q
  PROVE  LET x == [on |-> b, at |-> Spot(do)]
         IN  ButtonsAt(do, <<x, x>>, [i \in {1, 2} |-> IF i = 1 THEN p ELSE q])
<1> DEFINE x == [on |-> b, at |-> Spot(do)]
           spot == [i \in {1, 2} |-> IF i = 1 THEN p ELSE q]
<1>1. x.on = b /\ x.at = Spot(do) /\ spot[1] = p /\ spot[2] = q
  OBVIOUS
<1> HIDE DEF x, spot
<1>2. DOMAIN <<x, x>> = {1, 2} /\ <<x, x>>[1] = x /\ <<x, x>>[2] = x
  <2>1. DOMAIN <<x, x>> = 1..2 /\ <<x, x>>[1] = x /\ <<x, x>>[2] = x
    BY Pair
  <2> QED BY <2>1
<1>3. Wanted(Operation(p)) /\ Wanted(Operation(q))
  BY DEF Wanted
<1>4. Spots(do, {1, 2}, spot)
  BY <1>1, <1>3 DEF Spots
<1>5. ButtonsAt(do, <<x, x>>, spot)
  BY <1>1, <1>2, <1>4 DEF ButtonsAt
<1> QED BY <1>5 DEF x, spot

\* The buttons of every command, those that go down and those that come up.
Buttons == /\ \E spot : ButtonsAt("push", Pushed(cmd), spot)
           /\ \E spot : ButtonsAt("let", LetUp(cmd), spot)

\* a click,
LEMMA ClickButtons ==
  ASSUME cmd \in Commands, cmd.do = "click"
  PROVE  Buttons
<1> DEFINE k == cmd.button
           p == Target(cmd.to)
           B == MouseClick(k)
<1>1. Gesture = <<B>>
  BY GestureIs DEF GestureFor
<1>2. DOMAIN B = 1..2 /\ B[1] = Push(k) /\ B[2] = LetGo(k)
  BY ClickIsBatch
<1>3. /\ Pushed(cmd) = << [on |-> k, at |-> p] >> /\ LetUp(cmd) = << [on |-> k, at |-> p] >>
      /\ Spot("push") = p /\ Spot("let") = p
  BY DEF Pushed, LetUp, Spot
<1> HIDE DEF B, k, p
<1>4. DOMAIN Gesture = {1} /\ Gesture[1] = B
  BY <1>1, OnlyBatch
<1>5. \A q : Stands(q) <=> q = Ordinal(1, 1) \/ q = Ordinal(1, 2)
  BY <1>2, <1>4 DEF Stands, Ordinal
<1>6. Operation(Ordinal(1, 1)) = Push(k) /\ Operation(Ordinal(1, 2)) = LetGo(k)
  BY <1>2, <1>4, OrdinalFields
<1>7. \E spot : ButtonsAt("push", << [on |-> k, at |-> Spot("push")] >>, spot)
  <2>1. PICK r : r = Ordinal(1, 1)
    OBVIOUS
  <2>2. /\ Stands(r) /\ Operation(r).do = "push" /\ Operation(r).on = k
        /\ \A q : Stands(q) /\ Operation(q).do = "push" => q = r
    BY <1>5, <1>6, <2>1, Fields
  <2> QED BY <2>2, OneButton
<1>8. \E spot : ButtonsAt("let", << [on |-> k, at |-> Spot("let")] >>, spot)
  <2>1. PICK r : r = Ordinal(1, 2)
    OBVIOUS
  <2>2. /\ Stands(r) /\ Operation(r).do = "let" /\ Operation(r).on = k
        /\ \A q : Stands(q) /\ Operation(q).do = "let" => q = r
    BY <1>5, <1>6, <2>1, Fields
  <2> QED BY <2>2, OneButton
<1> QED BY <1>3, <1>7, <1>8 DEF Buttons

\* a double click,
LEMMA DoubleButtons ==
  ASSUME cmd \in Commands, cmd.do = "doubleclick"
  PROVE  Buttons
<1> DEFINE p == Target(cmd.to)
           B == MouseClick("left") \o MouseClick("left")
           x == [on |-> "left", at |-> p]
           o(j) == Ordinal(1, j)
<1>1. Gesture = <<B>>
  BY GestureIs DEF GestureFor
<1>2. /\ DOMAIN B = 1..4 /\ B[1] = Push("left") /\ B[2] = LetGo("left")
      /\ B[3] = Push("left") /\ B[4] = LetGo("left")
  BY DoubleIsBatch
<1>3. /\ Pushed(cmd) = <<x, x>> /\ LetUp(cmd) = <<x, x>>
      /\ Spot("push") = p /\ Spot("let") = p
  BY DEF Pushed, LetUp, Spot
<1> HIDE DEF B, p
<1>4. DOMAIN Gesture = {1} /\ Gesture[1] = B
  BY <1>1, OnlyBatch
<1>5. \A q : Stands(q) <=> q \in {o(1), o(2), o(3), o(4)}
  <2>1. \A j : j \in DOMAIN B <=> j \in {1, 2, 3, 4}
    BY <1>2
  <2> QED BY <1>4, <2>1 DEF Stands, Ordinal
<1>6. /\ Operation(o(1)) = Push("left") /\ Operation(o(2)) = LetGo("left")
      /\ Operation(o(3)) = Push("left") /\ Operation(o(4)) = LetGo("left")
  BY <1>2, <1>4, OrdinalFields
<1>7. Earlier(o(1), o(3)) /\ Earlier(o(2), o(4))
  BY DEF Earlier, Ordinal
<1> HIDE DEF o
<1>8. ButtonsAt("push", <<x, x>>, [i \in {1, 2} |-> IF i = 1 THEN o(1) ELSE o(3)])
  <2>1. \A r : Stands(r) /\ Operation(r).do = "push" => r = o(1) \/ r = o(3)
    BY <1>5, <1>6, Fields
  <2> QED BY <1>3, <1>5, <1>6, <1>7, <2>1, Fields, TwoButtons
<1>9. ButtonsAt("let", <<x, x>>, [i \in {1, 2} |-> IF i = 1 THEN o(2) ELSE o(4)])
  <2>1. \A r : Stands(r) /\ Operation(r).do = "let" => r = o(2) \/ r = o(4)
    BY <1>5, <1>6, Fields
  <2> QED BY <1>3, <1>5, <1>6, <1>7, <2>1, Fields, TwoButtons
<1> QED BY <1>3, <1>8, <1>9 DEF Buttons

\* a drag, down at one place and up at the other,
LEMMA DragButtons ==
  ASSUME cmd \in Commands, cmd.do = "drag"
  PROVE  Buttons
<1> DEFINE p == Target(cmd.from)
           q == Target(cmd.to)
           o(b) == Ordinal(b, 1)
<1>1. Gesture = MouseDrag(p, q)
  BY GestureIs DEF GestureFor
<1>2. /\ Pushed(cmd) = << [on |-> "left", at |-> p] >> /\ LetUp(cmd) = << [on |-> "left", at |-> q] >>
      /\ Spot("push") = p /\ Spot("let") = q
  BY DEF Pushed, LetUp, Spot
<1> HIDE DEF p, q
<1>3. /\ DOMAIN Gesture = 1..4
      /\ Gesture[1] = <<MoveTo(p)>> /\ Gesture[2] = <<Push("left")>>
      /\ Gesture[3] = <<MoveTo(q)>> /\ Gesture[4] = <<LetGo("left")>>
  BY <1>1, DragShape
<1>4. /\ DOMAIN Gesture[1] = {1} /\ DOMAIN Gesture[2] = {1} /\ DOMAIN Gesture[3] = {1} /\ DOMAIN Gesture[4] = {1}
      /\ Gesture[1][1] = MoveTo(p) /\ Gesture[2][1] = Push("left")
      /\ Gesture[3][1] = MoveTo(q) /\ Gesture[4][1] = LetGo("left")
  BY <1>3, OnlyBatch
<1>5. \A r : Stands(r) <=> r \in {o(1), o(2), o(3), o(4)}
  <2>1. \A j : j \in DOMAIN Gesture <=> j \in {1, 2, 3, 4}
    BY <1>3
  <2> QED BY <1>4, <2>1 DEF Stands, Ordinal
<1>6. /\ Operation(o(1)) = MoveTo(p) /\ Operation(o(2)) = Push("left")
      /\ Operation(o(3)) = MoveTo(q) /\ Operation(o(4)) = LetGo("left")
  BY <1>4, OrdinalFields
<1> HIDE DEF o
<1>7. \E spot : ButtonsAt("push", << [on |-> "left", at |-> Spot("push")] >>, spot)
  <2>1. PICK r : r = o(2)
    OBVIOUS
  <2>2. /\ Stands(r) /\ Operation(r).do = "push" /\ Operation(r).on = "left"
        /\ \A t : Stands(t) /\ Operation(t).do = "push" => t = r
    BY <1>5, <1>6, <2>1, Fields
  <2> QED BY <2>2, OneButton
<1>8. \E spot : ButtonsAt("let", << [on |-> "left", at |-> Spot("let")] >>, spot)
  <2>1. PICK r : r = o(4)
    OBVIOUS
  <2>2. /\ Stands(r) /\ Operation(r).do = "let" /\ Operation(r).on = "left"
        /\ \A t : Stands(t) /\ Operation(t).do = "let" => t = r
    BY <1>5, <1>6, <2>1, Fields
  <2> QED BY <2>2, OneButton
<1> QED BY <1>2, <1>7, <1>8 DEF Buttons

\* or not at all;
LEMMA NoButtons ==
  ASSUME cmd \in Commands, cmd.do \notin {"click", "doubleclick", "drag", "calibrate"}
  PROVE  Buttons
<1>1. DOMAIN Pushed(cmd) = {} /\ DOMAIN LetUp(cmd) = {}
  BY Nothing DEF Pushed, LetUp
<1>2. ASSUME NEW b \in DOMAIN Gesture, NEW o \in DOMAIN Gesture[b]
      PROVE  Gesture[b][o].do \notin {"push", "let"}
  <2>1. CASE cmd.do \in {"type", "utype", "key", "keydown"}
    <3>1. PICK n \in Nat : DownThenUp(Gesture[b], n)
      BY <2>1, KeyboardShape
    <3> QED BY <3>1 DEF DownThenUp
  <2>2. CASE cmd.do = "keyup"
    <3>1. Gesture[b][o] = Release(ParseKeySpec(cmd.spec).key)
      BY <2>2, MouseShape
    <3> QED BY <3>1, Fields
  <2>3. CASE cmd.do \in {"move", "mouse-hide"}
    <3>1. Gesture[b][o].do = "move"
      BY <2>3, MouseShape
    <3> QED BY <3>1
  <2>4. CASE cmd.do = "scroll"
    <3>1. Gesture[b][o] = Turn(cmd.direction)
      BY <2>4, MouseShape
    <3> QED BY <3>1, Fields
  <2> QED BY <2>1, <2>2, <2>3, <2>4, CommandTypes
<1>3. ButtonsAt("push", Pushed(cmd), <<>>) /\ ButtonsAt("let", LetUp(cmd), <<>>)
  BY <1>1, <1>2 DEF ButtonsAt, Spots, Stands, Operation
<1> QED BY <1>3 DEF Buttons

\* so for every command.
LEMMA AllButtons ==
  ASSUME cmd \in Commands, cmd.do # "calibrate"
  PROVE  Buttons
BY ClickButtons, DoubleButtons, DragButtons, NoButtons

\* Where the wheel turns.
LEMMA AllTurns ==
  ASSUME cmd \in Commands, cmd.do # "calibrate"
  PROVE  \E spot : /\ Spots("turn", DOMAIN Turned(cmd), spot)
                   /\ \A i \in DOMAIN Turned(cmd) : Operation(spot[i]).on = Turned(cmd)[i]
<1>1. CASE cmd.do = "scroll"
  <2> DEFINE n == cmd.notches
             d == cmd.direction
             spot == [i \in 1..n |-> Ordinal(i, 1)]
  <2>1. Gesture = Scroll(d, n) /\ n \in Nat
    BY <1>1, GestureIs, CommandTypes DEF GestureFor
  <2>2. DOMAIN Gesture = 1..n /\ \A i \in 1..n : Gesture[i] = <<Turn(d)>>
    BY <2>1, ScrollIsGesture
  <2>3. DOMAIN Turned(cmd) = 1..n /\ \A i \in 1..n : Turned(cmd)[i] = d
    BY <1>1 DEF Turned
  <2>4. \A i \in 1..n : spot[i] = Ordinal(i, 1)
    OBVIOUS
  <2> HIDE DEF spot, d, n
  <2>5. \A i \in 1..n : DOMAIN Gesture[i] = {1} /\ Gesture[i][1] = Turn(d)
    BY <2>2, OnlyBatch
  <2>6. ASSUME NEW i \in 1..n
        PROVE  /\ Stands(spot[i]) /\ Operation(spot[i]) = Turn(d) /\ spot[i].batch = i /\ spot[i].op = 1
               /\ Operation(spot[i]).do = "turn" /\ Wanted(Operation(spot[i])) /\ Operation(spot[i]).on = d
    <3>1. Stands(spot[i]) /\ Operation(spot[i]) = Turn(d) /\ spot[i].batch = i /\ spot[i].op = 1
      BY <2>2, <2>4, <2>5, OrdinalFields
    <3> QED BY <3>1, Fields DEF Wanted
  <2>7. \A p : Stands(p) => \E i \in 1..n : spot[i] = p
    BY <2>2, <2>4, <2>5 DEF Stands
  <2>8. \A i, j \in 1..n : i < j => Earlier(spot[i], spot[j])
    BY <2>6 DEF Earlier
  <2>9. Spots("turn", 1..n, spot)
    BY <2>6, <2>7, <2>8 DEF Spots
  <2> QED BY <2>3, <2>6, <2>9
<1>2. CASE cmd.do # "scroll"
  <2>1. DOMAIN Turned(cmd) = {}
    BY <1>2, Nothing DEF Turned
  <2>2. ASSUME NEW b \in DOMAIN Gesture, NEW o \in DOMAIN Gesture[b]
        PROVE  Gesture[b][o].do # "turn"
    <3>1. CASE cmd.do \in {"type", "utype", "key", "keydown"}
      <4>1. PICK n \in Nat : DownThenUp(Gesture[b], n)
        BY <3>1, KeyboardShape
      <4> QED BY <4>1 DEF DownThenUp
    <3>2. CASE cmd.do = "keyup"
      <4>1. Gesture[b][o] = Release(ParseKeySpec(cmd.spec).key)
        BY <3>2, MouseShape
      <4> QED BY <4>1, Fields
    <3>3. CASE cmd.do \in {"move", "mouse-hide"}
      <4>1. Gesture[b][o].do = "move"
        BY <3>3, MouseShape
      <4> QED BY <4>1
    <3>4. CASE cmd.do = "click"
      <4>1. o \in {1, 2} /\ Gesture[b][1] = Push(cmd.button) /\ Gesture[b][2] = LetGo(cmd.button)
        BY <3>4, MouseShape
      <4> QED BY <4>1, Fields
    <3>5. CASE cmd.do = "doubleclick"
      <4>1. /\ o \in {1, 2, 3, 4} /\ Gesture[b][1] = Push("left") /\ Gesture[b][2] = LetGo("left")
            /\ Gesture[b][3] = Push("left") /\ Gesture[b][4] = LetGo("left")
        BY <3>5, MouseShape
      <4> QED BY <4>1, Fields
    <3>6. CASE cmd.do = "drag"
      <4>1. /\ b \in {1, 2, 3, 4} /\ o = 1
            /\ Gesture[b][1] = CASE b = 1 -> MoveTo(Target(cmd.from))
                                 [] b = 2 -> Push("left")
                                 [] b = 3 -> MoveTo(Target(cmd.to))
                                 [] b = 4 -> LetGo("left")
        BY <3>6, MouseShape
      <4> QED BY <4>1, Fields
    <3> QED BY <1>2, <3>1, <3>2, <3>3, <3>4, <3>5, <3>6, CommandTypes
  <2>3. Spots("turn", DOMAIN Turned(cmd), <<>>)
    BY <2>1, <2>2 DEF Spots, Stands, Operation
  <2> QED BY <2>1, <2>3
<1> QED BY <1>1, <1>2

\* What a course leaves alone: a key that no event presses or lets go is held as it
\* was held before, and one that was let go is not stranded.
LEMMA LeftAlone ==
  ASSUME Len(made) \in Nat, NEW view, Course(view), NEW n \in 0..Len(made)
  PROVE  /\ \A k : k \notin Handled(n) => (k \in view[n].keys <=> k \in ghost.before)
         /\ \A j \in 1..n : made[j].do = "release" => made[j].on \notin view[n].stranded
<1> DEFINE S == {i \in Nat :
                   /\ \A k : k \notin Handled(i) => (k \in view[i].keys <=> k \in ghost.before)
                   /\ \A j \in 1..i : made[j].do = "release" => made[j].on \notin view[i].stranded}
<1>1. 0 \in S
  <2>1. \A j \in 1..0 : FALSE
    OBVIOUS
  <2> QED BY <2>1 DEF Course
<1>2. ASSUME NEW i \in 1..n, i - 1 \in S PROVE i \in S
  <2>1. view[i] = Later(cmd, view[i - 1], made[i])
    BY DEF Course
  <2>2. \A j \in 1..i : j \in 1..(i - 1) \/ j = i
    OBVIOUS
  <2>3. ASSUME NEW k, k \notin Handled(i) PROVE k \in view[i].keys <=> k \in ghost.before
    <3>1. k \notin Handled(i - 1)
      <4>1. \A j \in 1..(i - 1) : j \in 1..i
        OBVIOUS
      <4> QED BY <2>3, <4>1 DEF Handled
    <3>2. k \in view[i - 1].keys <=> k \in ghost.before
      BY <1>2, <3>1
    <3>3. made[i].do \in {"press", "release"} => made[i].on # k
      <4>1. i \in 1..i
        OBVIOUS
      <4> QED BY <2>3, <4>1 DEF Handled
    <3>4. view[i].keys = IF made[i].do = "press" THEN view[i - 1].keys \cup {made[i].on}
                         ELSE IF made[i].do = "release" THEN view[i - 1].keys \ {made[i].on}
                         ELSE view[i - 1].keys
      BY <2>1 DEF Later
    <3> QED BY <3>2, <3>3, <3>4
  <2>4. view[i].stranded \subseteq view[i - 1].stranded
        /\ (made[i].do = "release" => made[i].on \notin view[i].stranded)
    BY <2>1 DEF Later
  <2>5. \A j \in 1..(i - 1) : made[j].do = "release" => made[j].on \notin view[i - 1].stranded
    BY <1>2
  <2>6. \A j \in 1..i : made[j].do = "release" => made[j].on \notin view[i].stranded
    BY <2>2, <2>4, <2>5
  <2>7. i \in Nat
    OBVIOUS
  <2> QED BY <2>3, <2>6, <2>7
<1>3. n \in Nat
  OBVIOUS
<1>4. n \in S
  <2> HIDE DEF S
  <2> QED BY <1>1, <1>2, <1>3, UpTo
<1> QED BY <1>4

\* What the log says of an event that was asked for.
LEMMA LogOf ==
  ASSUME Len(made) \in Nat, NEW view, Course(view), sent = Len(made), NEW n \in 1..Len(made),
         AsWanted(view, n), Wanted(made[n])
  PROVE  /\ made[n].do = "press" =>
              LET with == With(Gesture[made[n].of.batch], made[n].of.op)
              IN  /\ log[n].under \ {made[n].on}
                       = (with \cup (ghost.before \ Handled(n - 1))) \ {made[n].on}
                  /\ with \subseteq Handled(Len(made))
         /\ made[n].do \in {"push", "let"} => There(log[n].at, Spot(made[n].do))
<1>1. log[n] = [under |-> view[n - 1].keys, at |-> view[n - 1].at]
  <2>1. n \in 1..sent
    OBVIOUS
  <2> QED BY <2>1 DEF Course
<1>2. ghost.before \ Handled(n - 1) \subseteq view[n - 1].keys
  <2>1. n - 1 \in 0..Len(made)
    OBVIOUS
  <2> QED BY <2>1, LeftAlone
<1> QED BY <1>1, <1>2 DEF AsWanted

\* A command whose events are all sent has done what it was asked.
LEMMA DoneWhenSent ==
  ASSUME TypeOK, up, cmd \in Commands, cmd.do # "calibrate", pos > Aim, sent = Len(made),
         \A k : ~Owed(k), NEW view, Course(view), Clean(view), Faithful(view)
  PROVE  DoneAsAsked
<1> DEFINE m == Len(made)
<1>1. m \in Nat /\ DOMAIN made = 1..m /\ DOMAIN log = 1..m /\ Len(log) = sent /\ AllSent
  <2>1. IsSeq(made) /\ IsSeq(log) /\ Len(log) = sent
    BY DEF TypeOK
  <2> QED BY <2>1, SeqFacts DEF AllSent
<1>2. InStep(view) /\ SoFar(view[m]) /\ ItsOwn
  BY DEF Faithful
<1>3. view[m] = Current
  BY DEF Course
<1>0. \A n \in 1..m : Moved(n) = Handled(n - 1)
  <2> SUFFICES ASSUME NEW n \in 1..m PROVE Moved(n) = Handled(n - 1)
    OBVIOUS
  <2>1. Of("press") \cup Of("release") = {l \in 1..m : made[l].do \in {"press", "release"}}
    BY <1>1 DEF Of
  <2>2. {j \in Of("press") \cup Of("release") : j < n}
          = {l \in 1..(n - 1) : made[l].do \in {"press", "release"}}
    BY <1>1, <2>1
  <2> QED BY <2>2 DEF Moved, Handled
<1> HIDE DEF m
<1>4. /\ Strokes = Hits("press") /\ Of("push") = Hits("push") /\ Of("let") = Hits("let")
      /\ Of("turn") = Hits("turn")
  BY <1>1 DEF Strokes, Of, Hits, Wanted, m
<1>5. \E where \in [DOMAIN Pressed(cmd) -> DOMAIN log] :
        /\ InOrder(where, Strokes)
        /\ \A i \in DOMAIN where : Under(Pressed(cmd)[i], where[i])
        /\ \A i \in DOMAIN Pressed(cmd) :
             Pressed(cmd)[i].on \in Handled(m) /\ Pressed(cmd)[i].with \subseteq Handled(m)
  <2> DEFINE I == DOMAIN Pressed(cmd)
  <2>1. PICK spot : PressedAt(spot)
    BY AllPressed
  <2>2. /\ Spots("press", I, spot)
        /\ \A i \in I : /\ Operation(spot[i]).on = Pressed(cmd)[i].on
                        /\ With(Gesture[spot[i].batch], spot[i].op) = Pressed(cmd)[i].with
    BY <2>1 DEF PressedAt
  <2> HIDE DEF I
  <2>3. PICK where \in [I -> 1..Len(made)] :
          /\ InOrder(where, Hits("press"))
          /\ \A i \in I : /\ AsWanted(view, where[i]) /\ made[where[i]].of = spot[i]
                          /\ made[where[i]].do = "press" /\ made[where[i]].on = Operation(spot[i]).on
    BY <1>2, <2>2, AllArrived
  <2>4. ASSUME NEW i \in I
        PROVE  /\ Under(Pressed(cmd)[i], where[i])
               /\ Pressed(cmd)[i].on \in Handled(m) /\ Pressed(cmd)[i].with \subseteq Handled(m)
    <3>1. where[i] \in 1..m /\ where[i] \in Hits("press")
      BY <2>3 DEF InOrder, m
    <3>2. PICK n \in 1..m : n = where[i]
      BY <3>1
    <3>3. AsWanted(view, n) /\ Wanted(made[n]) /\ made[n].do = "press" /\ made[n].of = spot[i]
          /\ made[n].on = Pressed(cmd)[i].on
      BY <2>2, <2>3, <3>1, <3>2 DEF Hits
    <3>4. PICK with : with = With(Gesture[made[n].of.batch], made[n].of.op)
      OBVIOUS
    <3>5. with = Pressed(cmd)[i].with
      BY <2>2, <3>3, <3>4
    <3>6. log[n].under \ {made[n].on} = (with \cup (ghost.before \ Handled(n - 1))) \ {made[n].on}
          /\ with \subseteq Handled(m)
      BY <1>1, <3>3, <3>4, LogOf DEF m
    <3>7. made[n].on \in Handled(m)
      BY <3>3 DEF Handled
    <3> QED BY <1>0, <3>2, <3>3, <3>5, <3>6, <3>7 DEF Under
  <2> QED BY <1>1, <1>4, <2>3, <2>4 DEF I, m
<1>6. ASSUME NEW do \in {"push", "let"}, NEW list, \E spot : ButtonsAt(do, list, spot)
      PROVE  \E where \in [DOMAIN list -> DOMAIN log] :
               InOrder(where, Hits(do)) /\ \A i \in DOMAIN where : AtPlace(list[i], where[i])
  <2>1. PICK spot : ButtonsAt(do, list, spot)
    BY <1>6
  <2>2. /\ Spots(do, DOMAIN list, spot)
        /\ \A i \in DOMAIN list : Operation(spot[i]).on = list[i].on /\ list[i].at = Spot(do)
    BY <2>1 DEF ButtonsAt
  <2>3. PICK where \in [DOMAIN list -> 1..Len(made)] :
          /\ InOrder(where, Hits(do))
          /\ \A i \in DOMAIN list : /\ AsWanted(view, where[i]) /\ made[where[i]].of = spot[i]
                                    /\ made[where[i]].do = do /\ made[where[i]].on = Operation(spot[i]).on
    BY <1>2, <2>2, AllArrived
  <2>4. ASSUME NEW i \in DOMAIN list PROVE AtPlace(list[i], where[i])
    <3>1. where[i] \in 1..Len(made) /\ where[i] \in Hits(do)
      BY <2>3 DEF InOrder
    <3>2. There(log[where[i]].at, Spot(do))
      BY <1>1, <2>3, <3>1, LogOf DEF Hits, m
    <3> QED BY <2>2, <2>3, <3>2 DEF AtPlace, There
  <2> QED BY <1>1, <2>3, <2>4 DEF m
<1>7. /\ \E where \in [DOMAIN Pushed(cmd) -> DOMAIN log] :
           InOrder(where, Of("push")) /\ \A i \in DOMAIN where : AtPlace(Pushed(cmd)[i], where[i])
      /\ \E where \in [DOMAIN LetUp(cmd) -> DOMAIN log] :
           InOrder(where, Of("let")) /\ \A i \in DOMAIN where : AtPlace(LetUp(cmd)[i], where[i])
  BY <1>4, <1>6, AllButtons DEF Buttons
<1>8. \E where \in [DOMAIN Turned(cmd) -> DOMAIN log] :
        InOrder(where, Of("turn")) /\ \A i \in DOMAIN where : made[where[i]].on = Turned(cmd)[i]
  <2> DEFINE I == DOMAIN Turned(cmd)
  <2>1. PICK spot : /\ Spots("turn", I, spot)
                    /\ \A i \in I : Operation(spot[i]).on = Turned(cmd)[i]
    BY AllTurns
  <2> HIDE DEF I
  <2>2. PICK where \in [I -> 1..Len(made)] :
          /\ InOrder(where, Hits("turn"))
          /\ \A i \in I : /\ AsWanted(view, where[i]) /\ made[where[i]].of = spot[i]
                          /\ made[where[i]].do = "turn" /\ made[where[i]].on = Operation(spot[i]).on
    BY <1>2, <2>1, AllArrived
  <2> QED BY <1>1, <1>4, <2>1, <2>2 DEF I, m
<1>9. srv.keys = LeftDown(cmd)
  <2> DEFINE k == ParseKeySpec(cmd.spec).key
             moved == Handled(m)
  <2>1. AtLast(Current)
    BY <1>3 DEF Clean, m
  <2>2. /\ db.keys \subseteq srv.keys /\ srv.keys \ db.keys \subseteq ghost.stranded
        /\ cmd.do # "keydown" => srv.keys \subseteq ghost.before \ moved
    BY <2>1 DEF AtLast, Current, Spared, m
  <2>3. \A x : x \notin moved => (x \in srv.keys <=> x \in ghost.before)
    BY <1>1, <1>3, LeftAlone DEF Current, m
  <2>4. \A n \in 1..m : made[n].do = "release" => made[n].on \notin ghost.stranded
    BY <1>1, <1>3, LeftAlone DEF Current, m
  <2>5. moved \subseteq KeysOf(cmd)
    BY <1>2 DEF Handled, ItsOwn, m
  <2>6. \A i \in DOMAIN Pressed(cmd) :
          Pressed(cmd)[i].on \in moved /\ Pressed(cmd)[i].with \subseteq moved
    BY <1>5
  <2>7. cmd.do = "keyup" => k \notin db.keys
    BY <1>2 DEF SoFar, Aim, TypeOK
  <2>8. cmd.do = "keydown" => k \in db.keys
    BY <1>2 DEF SoFar, Aim, TypeOK
  <2>9. CASE cmd.do = "keydown"
    <3>1. moved \subseteq {k}
      BY <2>5, <2>9 DEF KeysOf
    <3> HIDE DEF k, moved
    <3>2. srv.keys = ghost.before \cup {k}
      BY <2>2, <2>3, <2>8, <2>9, <3>1
    <3> QED BY <2>9, <3>2 DEF LeftDown, k
  <2>10. CASE cmd.do = "keyup"
    <3>1. moved \subseteq {k}
      BY <2>5, <2>10 DEF KeysOf
    <3>2. k \in moved => k \notin ghost.stranded
      <4> SUFFICES ASSUME k \in moved PROVE k \notin ghost.stranded
        OBVIOUS
      <4>1. PICK n \in 1..m : made[n].do \in {"press", "release"} /\ k = made[n].on
        BY DEF Handled
      <4>2. made[n].do = "release"
        BY <1>2, <2>10, <4>1 DEF ItsOwn, m
      <4> QED BY <2>4, <4>1, <4>2
    <3> HIDE DEF k, moved
    <3>3. srv.keys = ghost.before \ ({k} \ ghost.stranded)
      <4>1. CASE k \in moved
        BY <2>2, <2>3, <2>10, <3>1, <3>2, <4>1
      <4>2. CASE k \notin moved
        <5>1. srv.keys = ghost.before
          BY <2>3, <3>1, <4>2
        <5>2. k \in ghost.before => k \in ghost.stranded
          BY <2>2, <2>7, <2>10, <5>1
        <5> QED BY <5>1, <5>2
      <4> QED BY <4>1, <4>2
    <3> QED BY <2>10, <3>3 DEF LeftDown, k
  <2>11. CASE cmd.do \notin {"keydown", "keyup"}
    <3>1. moved \subseteq Touched(cmd)
      BY <2>5, <2>11 DEF KeysOf
    <3>2. Touched(cmd) \subseteq moved
      <4> HIDE DEF moved
      <4> QED BY <2>6 DEF Touched
    <3> HIDE DEF moved
    <3>3. srv.keys = ghost.before \ Touched(cmd)
      BY <2>2, <2>3, <2>11, <3>1, <3>2
    <3> QED BY <2>11, <3>3 DEF LeftDown
  <2> QED BY <2>9, <2>10, <2>11
<1> QED BY <1>1, <1>5, <1>7, <1>8, <1>9 DEF DoneAsAsked

\* What was done stays done while nothing is sent.
LEMMA DoneStays ==
  ASSUME DoneAsAsked, UNCHANGED <<cmd, offset, made, sent, log, ghost, srv>>
  PROVE  DoneAsAsked'
<1>1. /\ Pressed(cmd)' = Pressed(cmd) /\ Turned(cmd)' = Turned(cmd)
  BY DEF Pressed, Turned, Typed
<1>2. Pushed(cmd)' = Pushed(cmd) /\ LetUp(cmd)' = LetUp(cmd)
  BY DEF Pushed, LetUp, Target
<1>3. /\ Strokes' = Strokes /\ Of("push")' = Of("push") /\ Of("let")' = Of("let") /\ Of("turn")' = Of("turn")
      /\ AllSent' = AllSent /\ \A n : Moved(n)' = Moved(n)
  BY DEF Strokes, Of, AllSent, Moved
<1>8. LeftDown(cmd)' = LeftDown(cmd)
  BY DEF LeftDown, Touched, Pressed, Typed
<1>4. (\E where \in [DOMAIN Turned(cmd) -> DOMAIN log] :
         InOrder(where, Of("turn")) /\ \A i \in DOMAIN where : made[where[i]].on = Turned(cmd)[i])'
  BY <1>1, <1>3 DEF DoneAsAsked, InOrder
<1>9. (\E where \in [DOMAIN Pressed(cmd) -> DOMAIN log] :
         InOrder(where, Strokes) /\ \A i \in DOMAIN where : Under(Pressed(cmd)[i], where[i]))'
  <2>1. ASSUME NEW asked, NEW n, Under(asked, n) PROVE Under(asked, n)'
    BY <1>3, <2>1 DEF Under
  <2>2. PICK list, hits : list = Pressed(cmd) /\ hits = Strokes
    OBVIOUS
  <2>3. PICK where \in [DOMAIN list -> DOMAIN log] :
          InOrder(where, hits) /\ \A i \in DOMAIN where : Under(list[i], where[i])
    BY <2>2 DEF DoneAsAsked
  <2>4. \A i \in DOMAIN where : Under(list[i], where[i])'
    BY <2>1, <2>3
  <2>5. InOrder(where, hits)'
    BY <2>3 DEF InOrder
  <2>6. list = Pressed(cmd)' /\ hits = Strokes' /\ log' = log
    BY <1>1, <1>3, <2>2
  <2> QED BY <2>3, <2>4, <2>5, <2>6 DEF InOrder, Under
<1>5. ASSUME NEW list, NEW hits, NEW where \in [DOMAIN list -> DOMAIN log], InOrder(where, hits),
             \A i \in DOMAIN where : AtPlace(list[i], where[i])
      PROVE  where \in [DOMAIN list -> (DOMAIN log)'] /\ \A i \in DOMAIN where : AtPlace(list[i], where[i])'
  BY <1>5 DEF AtPlace
<1>6. (\E where \in [DOMAIN Pushed(cmd) -> DOMAIN log] :
         InOrder(where, Of("push")) /\ \A i \in DOMAIN where : AtPlace(Pushed(cmd)[i], where[i]))'
  <2>1. PICK list, hits : list = Pushed(cmd) /\ hits = Of("push")
    OBVIOUS
  <2>2. PICK where \in [DOMAIN list -> DOMAIN log] :
          InOrder(where, hits) /\ \A i \in DOMAIN where : AtPlace(list[i], where[i])
    BY <2>1 DEF DoneAsAsked
  <2> QED BY <1>2, <1>3, <1>5, <2>1, <2>2 DEF InOrder, AtPlace
<1>7. (\E where \in [DOMAIN LetUp(cmd) -> DOMAIN log] :
         InOrder(where, Of("let")) /\ \A i \in DOMAIN where : AtPlace(LetUp(cmd)[i], where[i]))'
  <2>1. PICK list, hits : list = LetUp(cmd) /\ hits = Of("let")
    OBVIOUS
  <2>2. PICK where \in [DOMAIN list -> DOMAIN log] :
          InOrder(where, hits) /\ \A i \in DOMAIN where : AtPlace(list[i], where[i])
    BY <2>1 DEF DoneAsAsked
  <2> QED BY <1>2, <1>3, <1>5, <2>1, <2>2 DEF InOrder, AtPlace
<1> QED BY <1>3, <1>4, <1>6, <1>7, <1>8, <1>9 DEF DoneAsAsked

\* A command that ends well, with all it made sent, is done as asked.
LEMMA FinishDone ==
  ASSUME TypeOK, up, Control, Finish, NEW view, Sound(view)
  PROVE  ArrivesAsAsked'
<1> SUFFICES ASSUME cmd.do # "calibrate" PROVE DoneAsAsked'
  BY DEF ArrivesAsAsked, Finish
<1>1. /\ cmd \in Commands /\ pos > Len(Program(cmd)) /\ UNCHANGED <<cmd, offset, made, sent, log, ghost, srv>>
  BY DEF Finish, events, TypeOK
<1>2. sent = Len(made) /\ \A k : ~Owed(k)
  BY FinishClean DEF Sound
<1>3. pos > Aim
  <2>1. IsSeq(Program(cmd))
    BY <1>1, ProgramsOk DEF ProgramOk
  <2>2. DOMAIN Program(cmd) = 1..Len(Program(cmd)) /\ Len(Program(cmd)) \in Nat
    BY <2>1, SeqFacts
  <2>3. Aim \in DOMAIN Program(cmd)
    BY <1>1, GestureIs
  <2> QED BY <1>1, <2>2, <2>3 DEF TypeOK
<1>4. DoneAsAsked
  BY <1>1, <1>2, <1>3, DoneWhenSent DEF Sound
<1> QED BY <1>1, <1>4, DoneStays

-------------------------------------------------------------------------------
(* Every step keeps it. *)

Inv ==
    /\ TypeOK
    /\ Live => Control /\ \E view : Sound(view)
    /\ Idle => There(srv.at, db.at)
    /\ NothingSticks
    /\ ArrivesAsAsked

\* The invariant holds at first.
LEMMA InvInit == Init => Inv
<1> SUFFICES ASSUME Init PROVE Inv
  OBVIOUS
<1>1. /\ db = [keys |-> {}, buttons |-> {}, at |-> 0] /\ srv = [keys |-> {}, buttons |-> {}, at |-> Unknown]
      /\ phase = "idle" /\ outcome = "none"
  BY DEF Init, Untouched
<1>2. NothingSticks
  BY <1>1 DEF NothingSticks
<1>3. ArrivesAsAsked
  BY <1>1 DEF ArrivesAsAsked
<1>4. There(srv.at, db.at) /\ ~Live
  BY <1>1 DEF There, Live
<1> QED BY <1>2, <1>3, <1>4, TypeInit DEF Inv

\* In the middle of a command only what is on its way has to be shown.
LEMMA InvWhileLive ==
  ASSUME Inv, TypeOK', phase' # "idle", up' => Control' /\ \E view : Sound(view)'
  PROVE  Inv'
<1>1. Live' => Control' /\ (\E view : Sound(view))'
  BY DEF Live
<1>2. ~Idle'
  BY DEF Idle
<1> QED BY <1>1, <1>2 DEF Inv, NothingSticks, ArrivesAsAsked

\* A step that is over leaves a sound course to the next.
LEMMA OnwardSound ==
  ASSUME TypeOK, Control, phase = "step", ~Making, sent = Len(made), Onward,
         Made \/ (pos \in DOMAIN Program(cmd) /\ Program(cmd)[pos].step # "generate"),
         UNCHANGED <<db, srv, offset, cmd, made, sent, phase, log, ghost>>,
         NEW view, Sound(view)
  PROVE  Control' /\ Sound(view)'
<1>1. Control' /\ Course(view)' /\ Clean(view)' /\ Level(view)'
  BY OnwardKeeps DEF Sound
<1>2. Faithful(view)'
  BY OnwardFaithful DEF Sound
<1> QED BY <1>1, <1>2 DEF Sound

\* The steps that generate nothing.
LEMMA OtherStep ==
  ASSUME TypeOK, Control, Onward, NEW kind, kind # "generate", AtStep(kind),
         UNCHANGED <<db, srv, offset, cmd, made, sent, phase, log, ghost>>,
         NEW view, Sound(view)
  PROVE  Control' /\ Sound(view)'
<1>1. /\ phase = "step" /\ ~Making /\ ~Made
      /\ pos \in DOMAIN Program(cmd) /\ Program(cmd)[pos].step # "generate"
  BY DEF AtStep, Making, Made, Here
<1>2. sent = Len(made)
  BY <1>1 DEF Control
<1> QED BY <1>1, <1>2, OnwardSound

\* Making an operation's events keeps a sound course: the one that goes on with them.
LEMMA GenerateSound ==
  ASSUME TypeOK, Control, Generate, NEW view, Sound(view)
  PROVE  Control' /\ \E w : Sound(w)'
<1> DEFINE new == Events(db, Batch[next.op])
           m   == Len(made)
<1>1. PICK w : /\ Course(w)'
               /\ \A i \in 0..m : w[i] = view[i]
               /\ \A j \in 1..Len(new) : w[m + j] = Later(cmd, w[m + j - 1], new[j])
               /\ LastOfBatch => w[m + Len(new) + 1] = Later(cmd, w[m + Len(new)], End)
  BY CourseGrows DEF Sound
<1>2. m \in Nat /\ w[m] = view[m]
  BY <1>1, SeqFacts DEF TypeOK
<1>3. w[m].buttons = db.buttons
  BY <1>2 DEF Sound, Clean, AtLast
<1>4. Grows(view[m], w[Len(made')], Batch[next.op])
  BY <1>1, <1>2, <1>3, GrowsBy
<1>5. Clean(w)'
  BY <1>1, <1>4, GenerateClean DEF Sound
<1>6. Level(w)'
  BY <1>1, <1>5, GenerateLevel DEF Sound
<1>7. Faithful(w)'
  BY <1>1, <1>4, GenerateFaithful DEF Sound
<1>8. Control'
  <2>1. /\ (Making' \/ Made') /\ phase' = phase /\ phase = "step"
        /\ LastOfBatch \/ (Making' /\ next'.op = next.op + 1 /\ next.op \in Nat \ {0})
    BY GenerateMoves DEF Generate, Making, AtStep, TypeOK
  <2>2. LastOfBatch => Boundary(Len(made))'
    <3> SUFFICES ASSUME LastOfBatch PROVE Boundary(Len(made))'
      OBVIOUS
    <3>1. Len(made') = m + Len(new) + 1 /\ made'[m + Len(new) + 1] = End
      BY GenerateFacts
    <3> QED BY <3>1 DEF Boundary, End
  <2> QED BY <2>1, <2>2 DEF Control
<1>9. Sound(w)'
  BY <1>1, <1>5, <1>6, <1>7 DEF Sound
<1> QED BY <1>8, <1>9

\* Leaving a character out keeps it;
LEMMA LeaveOutSound ==
  ASSUME TypeOK, Control, LeaveOut, NEW view, Sound(view)
  PROVE  Control' /\ Sound(view)'
BY LeaveOutKeeps, LeaveOutFaithful DEF Sound

\* an event that arrives makes the server what the course has next;
LEMMA SendSound ==
  ASSUME TypeOK, Control, up, Send, NEW view, Sound(view)
  PROVE  Control' /\ Sound(view)'
<1>1. /\ UNCHANGED <<cmd, offset, made, db, pos, next, phase>>
      /\ Sending /\ Upcoming # End /\ Arrives(Upcoming)
  BY DEF Send, progress
<1>2. ghost'.before = ghost.before
  BY <1>1, ArrivesFacts
<1>3. Making' <=> Making
  BY <1>1, SameStep
<1>4. Faithful(view)'
  BY <1>1, <1>2, <1>3, FaithfulWaits DEF Sound
<1> QED BY <1>4, SendKeeps DEF Sound

\* the end of a batch makes no difference to the server,
LEMMA WrittenSound ==
  ASSUME TypeOK, Control, up, Written, NEW view, Sound(view)
  PROVE  Control' /\ Sound(view)'
<1>1. /\ UNCHANGED <<cmd, offset, made, db, pos, next, ghost>>
      /\ phase = "step"
  BY DEF Written, progress, Sending, Made, AtStep
<1>2. Making' => Making
  <2>1. Making' => phase' = phase
    BY <1>1 DEF Making, AtStep
  <2> QED BY <1>1, <2>1, SameStep
<1>3. Faithful(view)'
  BY <1>1, <1>2, FaithfulWaits DEF Sound
<1> QED BY <1>3, WrittenKeeps DEF Sound

\* As a formula that can be primed: what is made is not being made.
LEMMA NotBoth == TypeOK /\ Made => ~Making
<1> SUFFICES ASSUME TypeOK, Made PROVE ~Making
  OBVIOUS
<1> QED BY MadeNotMaking

\* nor does a pause.
LEMMA PumpSound ==
  ASSUME TypeOK, TypeOK', Control, Pump, NEW view, Sound(view)
  PROVE  Control' /\ Sound(view)'
<1>1. UNCHANGED <<cmd, offset, made, db, pos, next, ghost>>
  BY DEF Pump, Hear, progress, events
<1>2. Control' /\ Course(view)' /\ Clean(view)' /\ Level(view)' /\ Made'
  BY PumpKeeps DEF Sound
<1>3. (TypeOK /\ Made => ~Making)'
  BY NotBoth, PTL
<1>4. Faithful(view)'
  BY <1>1, <1>2, <1>3, FaithfulWaits DEF Sound
<1> QED BY <1>2, <1>4 DEF Sound

\* A command that begins, or is refused.
LEMMA BeginInv ==
  ASSUME Inv, TypeOK', NEW c \in Commands, Begin(c)
  PROVE  Inv'
<1>1. phase = "idle" /\ up /\ up' = up /\ UNCHANGED <<db, srv>>
      /\ ghost' = [ghost EXCEPT !.before = srv.keys]
  BY DEF Begin
<1>2. There(srv.at, db.at) /\ NothingSticks /\ TypeOK
  BY <1>1 DEF Inv, Idle
<1>3. CASE phase' # "idle"
  <2>1. Control' /\ \E v : Course(v)' /\ Clean(v)' /\ Level(v)' /\ v[0].keys = ghost'.before
    BY <1>2, <1>3, BeginKeeps
  <2>2. PICK v : Course(v)' /\ Clean(v)' /\ Level(v)' /\ v[0].keys = ghost'.before
    BY <2>1
  <2>3. Faithful(v)'
    BY <1>2, <1>3, <2>2, BeginFaithful
  <2>4. Sound(v)'
    BY <2>2, <2>3 DEF Sound
  <2> QED BY <1>3, <2>1, <2>4, InvWhileLive
<1>4. CASE phase' = "idle"
  <2>1. outcome' = "failed"
    BY <1>1, <1>4 DEF Begin
  <2>2. ghost'.kept = ghost.kept /\ ghost'.stranded = ghost.stranded
    <3>1. PICK x, y, z : ghost = [before |-> x, kept |-> y, stranded |-> z]
      BY <1>2 DEF TypeOK
    <3>2. ghost' = [before |-> srv.keys, kept |-> y, stranded |-> z]
      BY <1>1, <3>1
    <3> QED BY <3>1, <3>2
  <2>3. NothingSticks'
    BY <1>1, <1>2, <2>2 DEF NothingSticks, Idle
  <2>4. ArrivesAsAsked' /\ ~Live'
    BY <1>4, <2>1 DEF ArrivesAsAsked, Live
  <2>5. There(srv.at, db.at)'
    BY <1>1, <1>2 DEF There, Unknown
  <2> QED BY <2>3, <2>4, <2>5 DEF Inv
<1> QED BY <1>3, <1>4

\* A command that ends: only what holds between commands has to be shown.
LEMMA EndInv ==
  ASSUME TypeOK', phase' = "idle", up' => NothingSticks' /\ There(srv.at, db.at)' /\ ArrivesAsAsked'
  PROVE  Inv'
BY DEF Inv, Live, Idle, NothingSticks, ArrivesAsAsked

\* A session that starts afresh.
LEMMA NewSessionInv ==
  ASSUME Inv, TypeOK', NewSession
  PROVE  Inv'
<1>1. /\ phase' = "idle" /\ outcome' = "none"
      /\ db' = [keys |-> {}, buttons |-> {}, at |-> 0] /\ srv' = [keys |-> {}, buttons |-> {}, at |-> Unknown]
  BY DEF NewSession, Untouched
<1>2. NothingSticks' /\ ArrivesAsAsked'
  BY <1>1 DEF NothingSticks, ArrivesAsAsked
<1>3. There(srv.at, db.at)'
  BY <1>1 DEF There, Unknown
<1> QED BY <1>1, <1>2, <1>3, EndInv

\* Every step keeps the invariant.
LEMMA InvStep == Inv /\ [Next]_vars => Inv'
<1> SUFFICES ASSUME Inv, [Next]_vars PROVE Inv'
  OBVIOUS
<1>1. TypeOK /\ TypeOK'
  BY TypeStep DEF Inv
<1>2. ASSUME Live PROVE Control /\ \E view : Sound(view)
  BY <1>2 DEF Inv
<1>3. ASSUME NEW c \in Commands, Begin(c) PROVE Inv'
  BY <1>1, <1>3, BeginInv
<1>4. CASE Generate
  <2>1. phase' = phase /\ phase # "idle" /\ up' = up
    BY <1>4 DEF Generate, Making, AtStep
  <2>2. ASSUME up' PROVE Control' /\ \E view : Sound(view)'
    <3>1. Control /\ \E view : Sound(view)
      BY <1>2, <2>1, <2>2 DEF Live
    <3> QED BY <1>1, <1>4, <3>1, GenerateSound
  <2> QED BY <1>1, <2>1, <2>2, InvWhileLive
<1>5. CASE LeaveOut
  <2>1. phase' = phase /\ phase # "idle" /\ up' = up
    BY <1>5 DEF LeaveOut, Making, AtStep
  <2>2. ASSUME up' PROVE Control' /\ \E view : Sound(view)'
    <3>1. Control /\ \E view : Sound(view)
      BY <1>2, <2>1, <2>2 DEF Live
    <3> QED BY <1>1, <1>5, <3>1, LeaveOutSound
  <2> QED BY <1>1, <2>1, <2>2, InvWhileLive
<1>6. CASE Send
  <2>1. phase' = phase /\ phase # "idle" /\ up' = up
    BY <1>6 DEF Send, Sending, Made, AtStep
  <2>2. ASSUME up' PROVE Control' /\ \E view : Sound(view)'
    <3>1. Control /\ \E view : Sound(view)
      BY <1>2, <2>1, <2>2 DEF Live
    <3> QED BY <1>1, <1>6, <2>1, <2>2, <3>1, SendSound
  <2> QED BY <1>1, <2>1, <2>2, InvWhileLive
<1>7. CASE Written
  <2>1. phase' # "idle" /\ phase # "idle" /\ up' = up
    BY <1>7 DEF Written, Sending, Made, AtStep
  <2>2. ASSUME up' PROVE Control' /\ \E view : Sound(view)'
    <3>1. Control /\ \E view : Sound(view)
      BY <1>2, <2>1, <2>2 DEF Live
    <3> QED BY <1>1, <1>7, <2>1, <2>2, <3>1, WrittenSound
  <2> QED BY <1>1, <2>1, <2>2, InvWhileLive
<1>8. CASE StepDone
  <2>1. /\ phase = "step" /\ phase' = phase /\ up' = up /\ Made /\ AllSent /\ Onward
        /\ UNCHANGED <<db, srv, offset, cmd, made, sent, phase, log, ghost>>
    BY <1>8 DEF StepDone, Made, AtStep, events
  <2>2. ASSUME up' PROVE Control' /\ \E view : Sound(view)'
    <3>1. Control /\ \E view : Sound(view)
      BY <1>2, <2>1, <2>2 DEF Live
    <3>2. ~Making /\ sent = Len(made)
      BY <1>1, <2>1, MadeNotMaking DEF AllSent
    <3> QED BY <1>1, <2>1, <3>1, <3>2, OnwardSound
  <2> QED BY <1>1, <2>1, <2>2, InvWhileLive
<1>9. CASE Pump
  <2>1. phase = "pump" /\ phase' = "step" /\ up' = up
    BY <1>9 DEF Pump, Hear
  <2>2. ASSUME up' PROVE Control' /\ \E view : Sound(view)'
    <3>1. Control /\ \E view : Sound(view)
      BY <1>2, <2>1, <2>2 DEF Live
    <3> QED BY <1>1, <1>9, <3>1, PumpSound
  <2> QED BY <1>1, <2>1, <2>2, InvWhileLive
<1>10. CASE AwaitServer \/ OpenPage \/ TakeBaseline \/ Measure \/ SaveProfile
  <2>1. PICK kind : /\ kind # "generate" /\ AtStep(kind) /\ Onward /\ up' = up
                    /\ UNCHANGED <<db, srv, offset, cmd, made, sent, phase, log, ghost>>
    BY <1>10 DEF AwaitServer, Hear, OpenPage, TakeBaseline, Measure, SaveProfile, events
  <2>2. phase # "idle" /\ phase' = phase
    BY <2>1 DEF AtStep
  <2>3. ASSUME up' PROVE Control' /\ \E view : Sound(view)'
    <3>1. Control /\ \E view : Sound(view)
      BY <1>2, <2>1, <2>2, <2>3 DEF Live
    <3> QED BY <1>1, <2>1, <3>1, OtherStep
  <2> QED BY <1>1, <2>2, <2>3, InvWhileLive
<1>11. CASE Finish
  <2>1. phase = "step" /\ phase' = "idle" /\ up' = up
    BY <1>11 DEF Finish
  <2>2. ASSUME up' PROVE NothingSticks' /\ There(srv.at, db.at)' /\ ArrivesAsAsked'
    <3>1. Control /\ \E view : Sound(view)
      BY <1>2, <2>1, <2>2 DEF Live
    <3> QED BY <1>1, <1>11, <2>1, <2>2, <3>1, FinishClean, FinishDone DEF Sound
  <2> QED BY <1>1, <2>1, <2>2, EndInv
<1>12. CASE HearFails
  <2>1. phase # "idle" /\ phase' = "idle" /\ up' = up /\ outcome' = "failed"
    BY <1>12 DEF HearFails, Fail, AtStep
  <2>2. ASSUME up' PROVE NothingSticks' /\ There(srv.at, db.at)' /\ ArrivesAsAsked'
    <3>1. Control /\ \E view : Sound(view)
      BY <1>2, <2>1, <2>2 DEF Live
    <3>2. NothingSticks' /\ There(srv.at, db.at)'
      BY <1>1, <1>12, <3>1, FailClean DEF Sound
    <3> QED BY <2>1, <3>2 DEF ArrivesAsAsked
  <2> QED BY <1>1, <2>1, <2>2, EndInv
<1>13. CASE WriteFails
  <2>1. phase' = "idle" /\ ~up'
    BY <1>13 DEF WriteFails, Fail
  <2> QED BY <1>1, <2>1, EndInv
<1>14. CASE ServerGoes
  <2>1. phase' = phase /\ phase # "idle" /\ ~up'
    BY <1>14 DEF ServerGoes, command
  <2> QED BY <1>1, <2>1, InvWhileLive
<1>15. CASE NewSession
  BY <1>1, <1>15, NewSessionInv
<1>16. CASE UNCHANGED vars
  <2>1. /\ UNCHANGED <<db, srv, up, offset, cmd, pos, next, made, sent, phase, outcome, log, ghost>>
    BY <1>16 DEF vars, command, progress, events
  <2>2. CASE phase # "idle"
    <3>1. ASSUME up' PROVE Control' /\ \E view : Sound(view)'
      <4>1. Control /\ \E view : Sound(view)
        BY <1>2, <2>1, <2>2, <3>1 DEF Live
      <4> QED BY <2>1, <4>1, SoundStays
    <3> QED BY <1>1, <2>1, <2>2, <3>1, InvWhileLive
  <2>3. CASE phase = "idle"
    <3>1. NothingSticks'
      BY <2>1 DEF Inv, NothingSticks, Idle
    <3>2. ASSUME up' PROVE There(srv.at, db.at)'
      BY <2>1, <2>3, <3>2 DEF Inv, Idle, There, Unknown
    <3>3. ArrivesAsAsked'
      <4>1. Idle /\ outcome = "ok" /\ cmd.do # "calibrate" => DoneAsAsked'
        BY <2>1, DoneStays DEF Inv, ArrivesAsAsked
      <4> QED BY <2>1, <4>1 DEF ArrivesAsAsked, Idle
    <3> QED BY <1>1, <2>1, <2>3, <3>1, <3>2, <3>3, EndInv
  <2> QED BY <2>2, <2>3
<1> QED BY <1>3, <1>4, <1>5, <1>6, <1>7, <1>8, <1>9, <1>10, <1>11, <1>12, <1>13, <1>14, <1>15, <1>16 DEF Next

\* TypeOK holds throughout: the command at hand is one of Commands, its steps and
\* batches exist, and what the injector believes and what the server has are pictures.
THEOREM TypesAreCorrect == Spec => []TypeOK
<1>1. Inv => TypeOK
  BY DEF Inv
<1> QED BY <1>1, InvInit, InvStep, PTL DEF Spec

\* NothingSticks, for every layout and every set of commands: whatever gestures were
\* cut short between two writes (session.rs 844-971), the server holds no button
\* between commands, and only keys that were put down to stay.
THEOREM NothingEverSticks == Spec => []NothingSticks
<1>1. Inv => NothingSticks
  BY DEF Inv
<1> QED BY <1>1, InvInit, InvStep, PTL DEF Spec

\* ArrivesAsAsked, for every layout and every set of commands: a command that
\* succeeds did on the server what input.rs and rdpdo.rs say it does, all of it
\* once, in order and nothing else, whatever failed before it; and it left down the
\* keys that were down before, but for those that it pressed or let go itself.
THEOREM AlwaysArrivesAsAsked == Spec => []ArrivesAsAsked
<1>1. Inv => ArrivesAsAsked
  BY DEF Inv
<1> QED BY <1>1, InvInit, InvStep, PTL DEF Spec
-------------------------------------------------------------------------------
(* Where clicks land.  A profile is only saved after a point was measured, so *)
(* it has a mean, which the correction takes away to the nearest pixel.       *)

\* Running sums exist, whatever is summed up.
LEMMA SumsExist ==
  ASSUME NEW n \in Nat, NEW d
  PROVE  \E h : h = [i \in 0..n |-> IF i = 0 THEN 0 ELSE h[i - 1] + d[i]]
<1> DEFINE Sums(h, m) == h = [i \in 0..m |-> IF i = 0 THEN 0 ELSE h[i - 1] + d[i]]
           S == {m \in Nat : \E h : Sums(h, m)}
<1>1. 0 \in S
  <2> DEFINE h == [i \in 0..0 |-> 0]
  <2>1. \A i \in 0..0 : i = 0
    OBVIOUS
  <2>2. Sums(h, 0)
    BY <2>1
  <2> QED BY <2>2
<1>2. ASSUME NEW m \in 1..n, m - 1 \in S PROVE m \in S
  <2>1. PICK h : Sums(h, m - 1)
    BY <1>2
  <2>2. h[0] = 0 /\ \A i \in 0..(m - 1) : i # 0 => h[i] = h[i - 1] + d[i]
    <3>1. 0 \in 0..(m - 1)
      OBVIOUS
    <3>2. DOMAIN h = 0..(m - 1) /\ \A i \in 0..(m - 1) : h[i] = IF i = 0 THEN 0 ELSE h[i - 1] + d[i]
      BY <2>1, Zenon
    <3> QED BY <3>1, <3>2
  <2> DEFINE e == h[m - 1] + d[m]
             k == [i \in 0..m |-> IF i < m THEN h[i] ELSE e]
  <2>3. \A i \in 0..m : k[i] = IF i < m THEN h[i] ELSE e
    OBVIOUS
  <2>4. k = [i \in 0..m |-> k[i]]
    OBVIOUS
  <2> HIDE DEF k
  <2>5. ASSUME NEW i \in 0..m PROVE k[i] = IF i = 0 THEN 0 ELSE k[i - 1] + d[i]
    <3>1. CASE i = 0
      BY <2>2, <2>3, <3>1
    <3>2. CASE i # 0 /\ i < m
      <4>1. i \in 0..(m - 1) /\ i - 1 \in 0..m /\ i - 1 < m
        BY <3>2
      <4>2. k[i] = h[i] /\ k[i - 1] = h[i - 1]
        BY <2>3, <3>2, <4>1
      <4> QED BY <2>2, <3>2, <4>1, <4>2
    <3>3. CASE i = m
      <4>1. m - 1 \in 0..m /\ m - 1 < m /\ m # 0
        OBVIOUS
      <4>2. k[m - 1] = h[m - 1] /\ k[m] = e
        BY <2>3, <3>3, <4>1
      <4> QED BY <3>3, <4>1, <4>2
    <3> QED BY <3>1, <3>2, <3>3
  <2>6. Sums(k, m)
    <3>1. [i \in 0..m |-> k[i]] = [i \in 0..m |-> IF i = 0 THEN 0 ELSE k[i - 1] + d[i]]
      BY <2>5
    <3> QED BY <2>4, <3>1
  <2> QED BY <2>6
<1>3. n \in S
  <2> HIDE DEF S
  <2> QED BY <1>1, <1>2, UpTo
<1> QED BY <1>3

\* So the sums of the model are what their definitions say.
LEMMA SumsAre ==
  ASSUME NEW ps, Len(ps) \in Nat
  PROVE  LET n == Len(ps)
         IN  /\ Errors(ps)[0] = 0
             /\ \A i \in 1..n : Errors(ps)[i] = Errors(ps)[i - 1] + (ps[i].actual - ps[i].target)
             /\ \E g : /\ Spread(ps) = g[n] /\ g[0] = 0
                      /\ \A i \in 1..n : g[i] = g[i - 1] + (ps[i].target - ps[1].target)
<1> DEFINE n == Len(ps)
           E(h) == h = [i \in 0..n |-> IF i = 0 THEN 0 ELSE h[i - 1] + (ps[i].actual - ps[i].target)]
           G(h) == h = [i \in 0..n |-> IF i = 0 THEN 0 ELSE h[i - 1] + (ps[i].target - ps[1].target)]
           f == Errors(ps)
           g == CHOOSE h : G(h)
<1>1. \E h : E(h)
  <2> DEFINE d == [i \in 1..n |-> ps[i].actual - ps[i].target]
  <2>1. \A i \in 1..n : d[i] = ps[i].actual - ps[i].target
    OBVIOUS
  <2> HIDE DEF d
  <2>2. PICK h : h = [i \in 0..n |-> IF i = 0 THEN 0 ELSE h[i - 1] + d[i]]
    BY SumsExist
  <2>3. \A i \in 0..n : i = 0 \/ i \in 1..n
    OBVIOUS
  <2>4. [i \in 0..n |-> IF i = 0 THEN 0 ELSE h[i - 1] + d[i]]
          = [i \in 0..n |-> IF i = 0 THEN 0 ELSE h[i - 1] + (ps[i].actual - ps[i].target)]
    BY <2>1, <2>3
  <2> QED BY <2>2, <2>4
<1>2. \E h : G(h)
  <2> DEFINE d == [i \in 1..n |-> ps[i].target - ps[1].target]
  <2>1. \A i \in 1..n : d[i] = ps[i].target - ps[1].target
    OBVIOUS
  <2> HIDE DEF d
  <2>2. PICK h : h = [i \in 0..n |-> IF i = 0 THEN 0 ELSE h[i - 1] + d[i]]
    BY SumsExist
  <2>3. \A i \in 0..n : i = 0 \/ i \in 1..n
    OBVIOUS
  <2>4. [i \in 0..n |-> IF i = 0 THEN 0 ELSE h[i - 1] + d[i]]
          = [i \in 0..n |-> IF i = 0 THEN 0 ELSE h[i - 1] + (ps[i].target - ps[1].target)]
    BY <2>1, <2>3
  <2> QED BY <2>2, <2>4
<1>3. E(f)
  <2>1. f = CHOOSE h : E(h)
    BY DEF Errors
  <2> HIDE DEF f, E
  <2> QED BY <1>1, <2>1
<1>4. G(g) /\ Spread(ps) = g[n]
  <2>1. Spread(ps) = g[n]
    BY DEF Spread
  <2> HIDE DEF G
  <2> QED BY <1>2, <2>1
<1> HIDE DEF f, g, n
<1>5. \A i \in 0..n : f[i] = IF i = 0 THEN 0 ELSE f[i - 1] + (ps[i].actual - ps[i].target)
  BY <1>3, Zenon
<1>6. \A i \in 0..n : g[i] = IF i = 0 THEN 0 ELSE g[i - 1] + (ps[i].target - ps[1].target)
  BY <1>4, Zenon
<1>7. n \in Nat /\ 0 \in 0..n /\ \A i \in 1..n : i \in 0..n /\ i # 0
  BY DEF n
<1>8. /\ f[0] = 0 /\ \A i \in 1..n : f[i] = f[i - 1] + (ps[i].actual - ps[i].target)
      /\ g[0] = 0 /\ \A i \in 1..n : g[i] = g[i - 1] + (ps[i].target - ps[1].target)
  BY <1>5, <1>6, <1>7
<1> QED BY <1>4, <1>8 DEF f, n

\* Points measured at the first one are off by Shift each, but for what their targets
\* are away from the first.
LEMMA ErrorsOfFirst ==
  ASSUME NEW ps, IsSeq(ps), ps # <<>>, \A i \in DOMAIN ps : ps[i].target \in Int, MeasuredAtFirst(ps)
  PROVE  Spread(ps) \in Int /\ Errors(ps)[Len(ps)] = Len(ps) * Shift - Spread(ps)
<1> DEFINE n == Len(ps)
           f == Errors(ps)
           t == ps[1].target
<1>1. n \in Nat /\ DOMAIN ps = 1..n /\ 1 \in DOMAIN ps
  BY SeqFacts
<1>2. t \in Int /\ Shift \in Int
  BY <1>1, ShiftAssumption
<1>3. PICK g : /\ Spread(ps) = g[n] /\ g[0] = 0
               /\ \A i \in 1..n : g[i] = g[i - 1] + (ps[i].target - t)
  BY <1>1, SumsAre
<1>4. f[0] = 0 /\ \A i \in 1..n : f[i] = f[i - 1] + (ps[i].actual - ps[i].target)
  BY <1>1, SumsAre
<1>5. \A i \in 1..n : ps[i].target \in Int /\ ps[i].actual = t + Shift
  BY <1>1 DEF MeasuredAtFirst
<1> HIDE DEF n, f, t
<1> DEFINE S == {i \in Nat : g[i] \in Int /\ f[i] = i * Shift - g[i]}
<1>6. 0 \in S
  BY <1>2, <1>3, <1>4
<1>7. ASSUME NEW i \in 1..n, i - 1 \in S PROVE i \in S
  <2>1. PICK x \in Int : x = ps[i].target
    BY <1>5
  <2>2. PICK y \in Int : y = g[i - 1] /\ f[i - 1] = (i - 1) * Shift - y
    BY <1>7
  <2>3. g[i] = y + (x - t)
    BY <1>3, <2>1, <2>2
  <2>4. f[i] = ((i - 1) * Shift - y) + ((t + Shift) - x)
    BY <1>4, <1>5, <2>1, <2>2
  <2>5. (i - 1) * Shift = i * Shift - Shift /\ i * Shift \in Int
    BY <1>2
  <2>6. f[i] = i * Shift - g[i] /\ g[i] \in Int
    <3>1. PICK z \in Int : z = i * Shift
      BY <2>5
    <3> QED BY <1>2, <2>3, <2>4, <2>5, <3>1
  <2>7. i \in Nat
    OBVIOUS
  <2> QED BY <2>6, <2>7
<1>8. n \in S
  <2> HIDE DEF S
  <2> QED BY <1>1, <1>6, <1>7, UpTo
<1> QED BY <1>3, <1>8 DEF f, n

\* A position is a number.
LEMMA PositionIsNumber ==
  ASSUME NEW p \in Position
  PROVE  ResolvePosition(p) \in Int
<1> DEFINE margin == (Width * 5) \div 100
<1>1. Width \in Nat /\ MaxU16 \in Nat /\ p.n \in Nat
  BY WidthAssumption DEF Position
<1>2. margin \in Int /\ Width \div 2 \in Int
  BY <1>1
<1>3. U16((Width * p.n) \div 100) \in Int
  <2>1. Width * p.n \in Int
    BY <1>1
  <2>2. (Width * p.n) \div 100 \in Int
    BY <2>1
  <2> QED BY <1>1, <2>2 DEF U16
<1> HIDE DEF margin
<1>4. Width - margin \in Int
  BY <1>1, <1>2
<1>5. p.form \in {"pixel", "percent", "center", "first", "last"}
  BY DEF Position
<1> QED BY <1>1, <1>2, <1>3, <1>4, <1>5 DEF ResolvePosition, margin

\* The correction takes away the mean error, to the nearest pixel.
LEMMA CorrectionUndoes ==
  ASSUME NEW n \in Nat \ {0}, NEW x \in Int, NEW d \in Int,
         n * (x - Shift) + d \in 0..(n * (Width - 1))
  PROVE  LET q == CalibratePosition(x, [sum |-> n * Shift - d, over |-> n])
         IN  /\ q \in Int
             /\ 0 - n <= 2 * (n * (q + Shift - x) - d) /\ 2 * (n * (q + Shift - x) - d) <= n
<1> DEFINE num == x * n - (n * Shift - d)
           q == (2 * num + n) \div (2 * n)
<1>1. num = n * (x - Shift) + d /\ num \in Nat /\ num <= n * (Width - 1) /\ ~(num < 0) /\ Shift \in Int
  <2>1. Shift \in Int /\ Width \in Nat \ {0} /\ n * (Width - 1) \in Int
    BY ShiftAssumption, WidthAssumption
  <2>2. num = n * (x - Shift) + d
    BY <2>1
  <2>3. PICK a \in Int : a = n * (x - Shift) + d
    BY <2>1
  <2>4. PICK b \in Int : b = n * (Width - 1)
    BY <2>1
  <2>5. a \in 0..b
    BY <2>3, <2>4
  <2> HIDE DEF num
  <2> QED BY <2>1, <2>2, <2>3, <2>4, <2>5
<1> HIDE DEF num
<1>2. q \in Int /\ (2 * n) * q <= 2 * num + n /\ 2 * num + n < (2 * n) * q + 2 * n
  <2>1. 2 * num + n \in Nat /\ 2 * n \in Nat \ {0}
    BY <1>1
  <2>2. \A a \in Nat, m \in Nat \ {0} : a \div m \in Int /\ m * (a \div m) <= a /\ a < m * (a \div m) + m
    OBVIOUS
  <2> QED BY <2>1, <2>2
<1> HIDE DEF q
<1>3. PICK p \in Int : p = n * q
  BY <1>2
<1>4. 2 * p <= 2 * num + n /\ 2 * num + n < 2 * p + 2 * n
  <2>1. (2 * n) * q = 2 * p
    BY <1>2, <1>3
  <2> QED BY <1>2, <2>1
<1>5. q >= 0 /\ q <= Width - 1
  <2>1. ASSUME q < 0 PROVE FALSE
    <3>1. n * q <= 0 - n
      BY <1>2, <2>1
    <3> QED BY <1>1, <1>3, <1>4, <3>1
  <2>2. ASSUME q > Width - 1 PROVE FALSE
    <3>1. Width \in Nat \ {0}
      BY WidthAssumption
    <3>2. PICK b \in Int : b = n * (Width - 1)
      BY <3>1
    <3>3. n * q >= b + n
      <4>1. q >= Width
        BY <1>2, <2>2, <3>1
      <4>2. n * q >= n * Width
        BY <1>2, <3>1, <4>1
      <4>3. n * Width = b + n
        BY <3>1, <3>2
      <4> QED BY <4>2, <4>3
    <3> QED BY <1>1, <1>3, <1>4, <3>2, <3>3
  <2> QED BY <1>2, <2>1, <2>2, WidthAssumption
<1>6. U16(q) = q
  BY <1>2, <1>5, WidthAssumption DEF U16
<1>7. CalibratePosition(x, [sum |-> n * Shift - d, over |-> n])
        = IF num < 0 THEN 0 ELSE U16((2 * num + n) \div (2 * n))
  BY DEF CalibratePosition, num
<1>8. CalibratePosition(x, [sum |-> n * Shift - d, over |-> n]) = q
  BY <1>1, <1>6, <1>7 DEF q
<1>9. n * (q + Shift - x) - d = p - num
  <2>1. n * (q + Shift - x) = n * q - n * (x - Shift)
    BY <1>1, <1>2
  <2>2. PICK a \in Int : a = n * (x - Shift)
    BY <1>1
  <2> QED BY <1>1, <1>3, <2>1, <2>2
<1>10. 0 - n <= 2 * (p - num) /\ 2 * (p - num) <= n
  BY <1>1, <1>3, <1>4
<1> QED BY <1>2, <1>8, <1>9, <1>10

\* The last step was to measure a point: then there is one.
Measuring ==
    phase # "idle" /\ pos - 1 \in DOMAIN Program(cmd) /\ Program(cmd)[pos - 1].step = "measure" =>
      points # <<>>

\* A profile holds the mean error of its points.
Averages(pr) ==
    pr.points # <<>> =>
      /\ IsSeq(pr.points) /\ \A i \in DOMAIN pr.points : pr.points[i].target \in Int
      /\ pr.over = Len(pr.points) /\ pr.sum = Errors(pr.points)[Len(pr.points)]

Trusting ==
    /\ IsSeq(points) /\ \A i \in DOMAIN points : points[i].target \in Int
    /\ Measuring
    /\ Averages(profile)
    /\ outcome = "ok" => cmd \in Commands

\* At first nothing has been measured and no profile saved.
LEMMA TrustInit == Init => Trusting
<1> SUFFICES ASSUME Init PROVE Trusting
  OBVIOUS
<1>1. points = <<>> /\ profile.points = <<>> /\ phase = "idle" /\ outcome = "none"
  BY DEF Init, NoProfile
<1> QED BY <1>1, Nothing DEF Trusting, Measuring, Averages

\* A step that stays where it is, or ends the command.
LEMMA TrustWaits ==
  ASSUME Trusting, UNCHANGED <<offset, profile, cmd, pos, points>>,
         phase' # "idle" => phase # "idle", outcome' = "ok" => cmd \in Commands
  PROVE  Trusting'
<1>1. Program(cmd)' = Program(cmd)
  BY SameProgram
<1> QED BY <1>1 DEF Trusting, Measuring, Averages

\* A step that goes on from one that measures nothing.
LEMMA TrustGoesOn ==
  ASSUME Trusting, Here.step # "measure", Onward, UNCHANGED <<offset, cmd, points, outcome>>,
         pos \in Nat, Averages(profile')
  PROVE  Trusting'
<1>1. pos' - 1 = pos
  BY DEF Onward, AtStart
<1>2. Program(cmd)' = Program(cmd)
  BY SameProgram
<1>3. Program(cmd)[pos].step # "measure"
  BY DEF Here
<1>4. Measuring'
  BY <1>1, <1>2, <1>3 DEF Measuring
<1>5. Averages(profile)'
  BY DEF Averages
<1> QED BY <1>4, <1>5 DEF Trusting

\* Only calibrate saves, and only after it has measured.
LEMMA SavedAfterMeasuring ==
  ASSUME NEW c \in Commands, NEW p \in DOMAIN Program(c), Program(c)[p].step = "save"
  PROVE  p - 1 \in DOMAIN Program(c) /\ Program(c)[p - 1].step = "measure"
<1>1. ProgramOk(c)
  BY ProgramsOk
<1>2. c.do = "calibrate"
  BY <1>1 DEF ProgramOk, StepOk, Kinds
<1>3. p > 1 /\ Program(c)[p - 1].step = "measure"
  BY <1>2, GridOk
<1>4. IsSeq(Program(c))
  BY <1>1 DEF ProgramOk
<1> DEFINE P == Program(c)
<1>5. DOMAIN P = 1..Len(P) /\ Len(P) \in Nat
  <2> HIDE DEF P
  <2>1. IsSeq(P)
    BY <1>4 DEF P
  <2> QED BY <2>1, SeqFacts
<1> HIDE DEF P
<1>6. p - 1 \in DOMAIN P
  <2>1. p \in 1..Len(P)
    BY <1>5 DEF P
  <2> QED BY <1>3, <1>5, <2>1
<1> QED BY <1>3, <1>6 DEF P

\* Every step keeps what is known of points and profile.
LEMMA TrustStep == TypeOK /\ Trusting /\ [Next]_vars => Trusting'
<1> SUFFICES ASSUME TypeOK, Trusting, [Next]_vars PROVE Trusting'
  OBVIOUS
<1>1. pos \in Nat /\ (phase # "idle" => cmd \in Commands)
  BY DEF TypeOK
<1>2. ASSUME NEW c \in Commands, Begin(c) PROVE Trusting'
  <2>1. /\ cmd' = c /\ pos' = 1 /\ points' = <<>> /\ outcome' \in {"failed", "none"}
        /\ UNCHANGED <<offset, profile>>
    BY <1>2 DEF Begin, AtStart
  <2>2. ProgramOk(c) /\ Program(cmd)' = Program(c)
    BY <2>1, ProgramsOk, SameProgram
  <2>3. 0 \notin DOMAIN Program(c)
    <3>1. IsSeq(Program(c))
      BY <2>2 DEF ProgramOk
    <3>2. DOMAIN Program(c) = 1..Len(Program(c))
      BY <3>1, SeqFacts
    <3> QED BY <3>2
  <2>4. Measuring'
    BY <2>1, <2>2, <2>3 DEF Measuring
  <2>5. IsSeq(points)' /\ \A i \in DOMAIN points' : points'[i].target \in Int
    BY <2>1, Nothing
  <2> QED BY <2>1, <2>4, <2>5 DEF Trusting
<1>3. CASE Generate
  <2>1. UNCHANGED <<offset, profile, cmd, pos, points, phase, outcome>>
    BY <1>3 DEF Generate
  <2> QED BY <2>1, TrustWaits DEF Trusting
<1>4. CASE LeaveOut
  <2>1. UNCHANGED <<offset, profile, cmd, pos, points, phase, outcome>>
    BY <1>4 DEF LeaveOut
  <2> QED BY <2>1, TrustWaits DEF Trusting
<1>5. CASE Send
  <2>1. UNCHANGED <<offset, profile, cmd, pos, points, phase, outcome>>
    BY <1>5 DEF Send, progress
  <2> QED BY <2>1, TrustWaits DEF Trusting
<1>6. CASE Written
  <2>1. UNCHANGED <<offset, profile, cmd, pos, points, outcome>> /\ phase # "idle"
    BY <1>6 DEF Written, progress, Sending, Made, AtStep
  <2> QED BY <2>1, TrustWaits DEF Trusting
<1>7. CASE StepDone
  <2>1. Onward /\ Here.step = "generate" /\ UNCHANGED <<offset, profile, cmd, points, outcome>>
    BY <1>7 DEF StepDone, Made, AtStep
  <2> QED BY <1>1, <2>1, TrustGoesOn DEF Trusting
<1>8. CASE Pump
  <2>1. UNCHANGED <<offset, profile, cmd, pos, points, outcome>> /\ phase # "idle"
    BY <1>8 DEF Pump, Hear, progress
  <2> QED BY <2>1, TrustWaits DEF Trusting
<1>9. CASE AwaitServer
  <2>1. Onward /\ Here.step = "wait" /\ UNCHANGED <<offset, profile, cmd, points, outcome>>
    BY <1>9 DEF AwaitServer, AtStep, Hear
  <2> QED BY <1>1, <2>1, TrustGoesOn DEF Trusting
<1>10. CASE Finish
  <2>1. UNCHANGED <<offset, profile, cmd, pos, points>> /\ phase # "idle"
    BY <1>10 DEF Finish, progress
  <2> QED BY <1>1, <2>1, TrustWaits
<1>11. CASE HearFails \/ WriteFails
  <2>1. UNCHANGED <<offset, profile, cmd, pos, points>> /\ phase' = "idle" /\ outcome' = "failed"
    BY <1>11 DEF HearFails, WriteFails, Fail, progress
  <2> QED BY <2>1, TrustWaits
<1>12. CASE ServerGoes
  <2>1. UNCHANGED <<offset, profile, cmd, pos, points, phase, outcome>>
    BY <1>12 DEF ServerGoes, command, progress
  <2> QED BY <2>1, TrustWaits DEF Trusting
<1>13. CASE OpenPage
  <2>1. Onward /\ Here.step = "open" /\ UNCHANGED <<offset, profile, cmd, points, outcome>>
    BY <1>13 DEF OpenPage, AtStep
  <2> QED BY <1>1, <2>1, TrustGoesOn DEF Trusting
<1>14. CASE TakeBaseline
  <2>1. Onward /\ Here.step = "baseline" /\ UNCHANGED <<offset, profile, cmd, points, outcome>>
    BY <1>14 DEF TakeBaseline, AtStep
  <2> QED BY <1>1, <2>1, TrustGoesOn DEF Trusting
<1>15. CASE Measure
  <2> DEFINE t == Here.target
             point == [target |-> t, actual |-> Measured(t, Seen, page.baseline)]
  <2>1. /\ phase # "idle" /\ pos \in DOMAIN Program(cmd) /\ Here.step = "measure"
        /\ points' = Append(points, point) /\ UNCHANGED <<profile, cmd, outcome>>
    BY <1>15 DEF Measure, AtStep
  <2>2. t \in Int
    <3>1. ProgramOk(cmd)
      BY <1>1, <2>1, ProgramsOk
    <3> QED BY <2>1, <3>1 DEF ProgramOk, StepOk, Here
  <2>3. point.target \in Int
    BY <2>2
  <2> HIDE DEF point
  <2>4. IsSeq(points) /\ \A i \in DOMAIN points : points[i].target \in Int
    BY DEF Trusting
  <2>5. /\ IsSeq(points') /\ Len(points') = Len(points) + 1 /\ Len(points) \in Nat
        /\ DOMAIN points = 1..Len(points) /\ DOMAIN points' = 1..(Len(points) + 1)
        /\ \A i \in 1..Len(points) : points'[i] = points[i]
        /\ points'[Len(points) + 1] = point
    BY <2>1, <2>4, Appended, SeqFacts
  <2>6. \A i \in DOMAIN points' : points'[i].target \in Int
    BY <2>3, <2>4, <2>5
  <2>7. points' # <<>>
    BY <2>5, SeqFacts
  <2> QED BY <2>1, <2>5, <2>6, <2>7 DEF Trusting, Measuring
<1>16. CASE SaveProfile
  <2> DEFINE mean == ComputeCorrection(points)
  <2>1. /\ Onward /\ phase # "idle" /\ pos \in DOMAIN Program(cmd) /\ Here.step = "save"
        /\ profile' = [sum |-> mean.sum, over |-> mean.over, points |-> points]
        /\ UNCHANGED <<offset, cmd, points, outcome>>
    BY <1>16 DEF SaveProfile, AtStep
  <2>2. points # <<>> /\ IsSeq(points) /\ \A i \in DOMAIN points : points[i].target \in Int
    <3>1. pos - 1 \in DOMAIN Program(cmd) /\ Program(cmd)[pos - 1].step = "measure"
      BY <1>1, <2>1, SavedAfterMeasuring DEF Here
    <3> QED BY <2>1, <3>1 DEF Trusting, Measuring
  <2>3. mean.sum = Errors(points)[Len(points)] /\ mean.over = Len(points)
    BY <2>2 DEF ComputeCorrection
  <2> HIDE DEF mean
  <2>4. profile'.sum = mean.sum /\ profile'.over = mean.over /\ profile'.points = points
    BY <2>1
  <2>5. Averages(profile')
    BY <2>2, <2>3, <2>4 DEF Averages
  <2> QED BY <1>1, <2>1, <2>5, TrustGoesOn
<1>17. CASE NewSession
  <2>1. phase' = "idle" /\ points' = <<>> /\ outcome' = "none" /\ profile' = profile
    BY <1>17 DEF NewSession
  <2> QED BY <2>1, Nothing DEF Trusting, Measuring, Averages
<1>18. CASE UNCHANGED vars
  <2>1. UNCHANGED <<offset, profile, cmd, pos, points, phase, outcome>>
    BY <1>18 DEF vars, command, progress
  <2> QED BY <2>1, TrustWaits DEF Trusting
<1> QED BY <1>2, <1>3, <1>4, <1>5, <1>6, <1>7, <1>8, <1>9, <1>10, <1>11, <1>12, <1>13, <1>14,
           <1>15, <1>16, <1>17, <1>18 DEF Next

\* What arrived as asked was pushed at the target, which is as far from the place
\* asked for as the correction leaves it.
LEMMA LandsThere == Inv /\ Trusting => ClickLands
<1> DEFINE n == Len(profile.points)
           d == Spread(profile.points)
           x == ResolvePosition(cmd.to)
<1> SUFFICES ASSUME Inv, Trusting,
                    Idle, outcome = "ok", cmd.do \in {"click", "doubleclick"},
                    profile.points # <<>>, MeasuredAtFirst(profile.points),
                    offset = [sum |-> profile.sum, over |-> profile.over],
                    n * (x - Shift) + d \in 0..(n * (Width - 1)),
                    NEW k \in Of("push"), log[k].at # Unknown
             PROVE  /\ 0 - n <= 2 * (n * (log[k].at + Shift - x) - d)
                    /\ 2 * (n * (log[k].at + Shift - x) - d) <= n
  BY DEF ClickLands
<1>1. /\ cmd \in Commands /\ n \in Nat \ {0} /\ d \in Int
      /\ profile.over = n /\ profile.sum = n * Shift - d
  <2>1. /\ cmd \in Commands /\ IsSeq(profile.points) /\ profile.over = n
        /\ \A i \in DOMAIN profile.points : profile.points[i].target \in Int
        /\ profile.sum = Errors(profile.points)[n]
    BY DEF Trusting, Averages
  <2>2. n \in Nat \ {0}
    BY <2>1, SeqFacts
  <2> QED BY <2>1, <2>2, ErrorsOfFirst
<1>2. x \in Int
  <2>1. cmd.to \in Position
    BY <1>1, CommandsAssumption DEF Keyboard, Mouse
  <2> QED BY <2>1, PositionIsNumber
<1> HIDE DEF n, d, x
<1>3. PICK q : /\ q = Target(cmd.to)
               /\ 0 - n <= 2 * (n * (q + Shift - x) - d) /\ 2 * (n * (q + Shift - x) - d) <= n
  <2>1. Target(cmd.to) = CalibratePosition(x, [sum |-> n * Shift - d, over |-> n])
    BY <1>1 DEF Target, x
  <2> QED BY <1>1, <1>2, <2>1, CorrectionUndoes
<1>4. DoneAsAsked
  BY DEF Inv, ArrivesAsAsked
<1>5. PICK where \in [DOMAIN Pushed(cmd) -> DOMAIN log] :
        InOrder(where, Of("push")) /\ \A i \in DOMAIN where : AtPlace(Pushed(cmd)[i], where[i])
  BY <1>4 DEF DoneAsAsked
<1>6. PICK i \in DOMAIN where : k = where[i]
  BY <1>5 DEF InOrder
<1>7. AtPlace(Pushed(cmd)[i], k)
  BY <1>5, <1>6
<1>8. Pushed(cmd)[i].at = Target(cmd.to)
  <2>1. i \in DOMAIN Pushed(cmd)
    BY <1>6
  <2>2. CASE cmd.do = "click"
    <3> DEFINE b == [on |-> cmd.button, at |-> Target(cmd.to)]
    <3>1. Pushed(cmd) = <<b>>
      BY <2>2 DEF Pushed
    <3>2. b.at = Target(cmd.to)
      OBVIOUS
    <3> HIDE DEF b
    <3> QED BY <2>1, <3>1, <3>2
  <2>3. CASE cmd.do = "doubleclick"
    <3> DEFINE b == [on |-> "left", at |-> Target(cmd.to)]
    <3>1. Pushed(cmd) = <<b, b>>
      BY <2>3 DEF Pushed
    <3>2. b.at = Target(cmd.to)
      OBVIOUS
    <3> HIDE DEF b
    <3> QED BY <2>1, <3>1, <3>2
  <2> QED BY <2>2, <2>3
<1>9. log[k].at = Target(cmd.to)
  BY <1>7, <1>8 DEF AtPlace
<1> QED BY <1>3, <1>9

\* ClickLands, for every desktop, grid, shift and profile: with the sum of what the
\* points of a grid are away from its first (calibrate.rs 115-150, 196-231) and the
\* rounding and clamping of session.rs 271-280 a click lands as close to the place
\* asked for as that leaves it, with a grid of one cell right there.
THEOREM ClicksAlwaysLand == Spec => []ClickLands
<1>1. Inv => TypeOK
  BY DEF Inv
<1> QED BY <1>1, InvInit, InvStep, TrustInit, TrustStep, LandsThere, PTL DEF Spec
=============================================================================
