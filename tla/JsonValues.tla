----------------------------- MODULE JsonValues -----------------------------
(* JSON values and their texts. A value is <<"atom", c>> for a literal or a
   number, <<"string", s>>, <<"array", vs>> or <<"object", ms>>, where a member
   is <<name, value>>. A character stands for one or more bytes: a literal, a
   number and the four digits after \u are one character each.               *)
EXTENDS Integers, Sequences, SequencesExt

CONSTANTS
  Atoms,         \* the literals and numbers, as characters
  Bytes          \* Bytes[c] is how many bytes the character c takes

Quote == "\""
Backslash == "\\"
Nul == "NUL"
Whitespace == {" ", "\t", "\n"}

\* What the digits after \u stand for; "high" and "low" are the halves of a pair.
Code == [q \in {"0000", "0001", "00e9", "d83d", "de00", "zzzz"} |->
          CASE q = "0001" -> "ctl" [] q = "00e9" -> "e9" [] q = "d83d" -> "high"
            [] q = "de00" -> "low" [] OTHER -> Nul]
Quads == DOMAIN Code

\* The characters with an escape of one letter, and the control characters without one.
ShortEscapes == [c \in {Quote, Backslash, "\n", "\t"} |->
                  CASE c = "\n" -> "n" [] c = "\t" -> "t" [] OTHER -> c]

RECURSIVE Size(_)
Size(s) == IF s = << >> THEN 0 ELSE Bytes[Head(s)] + Size(Tail(s))

--------------------------------------------------------------------------------
\* The text of a value.

Escape(c) ==
  IF c \in DOMAIN ShortEscapes THEN <<Backslash, ShortEscapes[c]>>
  ELSE IF c = "ctl" THEN <<Backslash, "u", "0001">> ELSE <<c>>

RenderString(s) == <<Quote>> \o FlattenSeq([i \in DOMAIN s |-> Escape(s[i])]) \o <<Quote>>

Tabs(n) == [i \in 1..n |-> "\t"]

RECURSIVE Render(_, _, _)
Render(v, format, depth) ==
  LET many == v[2]
      sep(i, s) == IF i < Len(many) THEN s ELSE << >>
      each(i) ==
        IF v[1] = "array"
        THEN Render(many[i], format, depth + 1) \o sep(i, IF format THEN <<",", " ">> ELSE <<",">>)
        ELSE (IF format THEN Tabs(depth + 1) ELSE << >>) \o RenderString(many[i][1])
             \o (IF format THEN <<":", "\t">> ELSE <<":">>) \o Render(many[i][2], format, depth + 1)
             \o sep(i, <<",">>) \o (IF format THEN <<"\n">> ELSE << >>)
      inner == FlattenSeq([i \in DOMAIN many |-> each(i)])
  IN CASE v[1] = "atom" -> <<v[2]>>
       [] v[1] = "string" -> RenderString(v[2])
       [] v[1] = "array" -> <<"[">> \o inner \o <<"]">>
       [] v[1] = "object" -> <<"{">> \o (IF format THEN <<"\n">> ELSE << >>) \o inner
                             \o (IF format THEN Tabs(depth) ELSE << >>) \o <<"}">>

\* How deep a value is nested, and how many items and strings it takes.
RECURSIVE Nesting(_), ItemsOf(_), StringsOf(_)
Inner(v) == CASE v[1] = "array" -> v[2]
              [] v[1] = "object" -> [i \in DOMAIN v[2] |-> v[2][i][2]]
              [] OTHER -> << >>
Total(s) == FoldSeq(LAMBDA x, y : x + y, 0, s)
Nesting(v) ==
  IF v[1] \in {"atom", "string"} THEN 0
  ELSE 1 + FoldSeq(LAMBDA x, y : IF x > y THEN x ELSE y, 0, [i \in DOMAIN Inner(v) |-> Nesting(Inner(v)[i])])
ItemsOf(v) == 1 + Total([i \in DOMAIN Inner(v) |-> ItemsOf(Inner(v)[i])])
StringsOf(v) == (IF v[1] = "string" THEN 1 ELSE 0) + (IF v[1] = "object" THEN Len(v[2]) ELSE 0)
                + Total([i \in DOMAIN Inner(v) |-> StringsOf(Inner(v)[i])])

--------------------------------------------------------------------------------
\* The grammar, as the set of values that the characters i..j of a text may mean.

\* The strings that the inside of a literal may mean.
RECURSIVE Meanings(_)
Meanings(s) ==
  LET then(n, c) == {<<c>> \o r : r \in Meanings(SubSeq(s, n + 1, Len(s)))}
      code == IF Len(s) >= 3 /\ s[2] = "u" /\ s[3] \in Quads THEN Code[s[3]] ELSE "none"
  IN IF s = << >> THEN {<< >>}
     ELSE IF s[1] = Quote THEN {}
     ELSE IF s[1] # Backslash THEN then(1, s[1])
     ELSE UNION {then(2, c) : c \in {c \in DOMAIN ShortEscapes : Len(s) > 1 /\ ShortEscapes[c] = s[2]}}
          \cup (IF code \in {"none", "high", "low"} THEN {} ELSE then(3, code))
          \cup (IF code = "high" /\ Len(s) >= 6 /\ SubSeq(s, 4, 5) = <<Backslash, "u">> /\ s[6] = "de00"
                THEN then(6, "emoji") ELSE {})

\* A string ends where its first NUL is.
UpToNul(s) == IF Contains(s, Nul) THEN SubSeq(s, 1, SelectInSeq(s, LAMBDA c : c = Nul) - 1) ELSE s

Trim(s) == LET ink == {i \in DOMAIN s : s[i] \notin Whitespace}
           IN IF ink = {} THEN << >> ELSE SubSeq(s, Min(ink), Max(ink))

RECURSIVE Values(_), Lists(_, _)
Strings(s) == IF Len(s) >= 2 /\ s[1] = Quote /\ s[Len(s)] = Quote
              THEN {UpToNul(m) : m \in Meanings(SubSeq(s, 2, Len(s) - 1))} ELSE {}
\* Values of each piece between the separators of a list, in order; of a member, name and value.
Pieces(s, kind) ==
  IF kind = "array" THEN Values(s)
  ELSE UNION {{<<n, v>> : n \in Strings(Trim(SubSeq(s, 1, k - 1))), v \in Values(SubSeq(s, k + 1, Len(s)))} :
                k \in {k \in DOMAIN s : s[k] = ":"}}
Lists(s, kind) ==
  {<<p>> : p \in Pieces(s, kind)}
  \cup UNION {{<<p>> \o r : p \in Pieces(SubSeq(s, 1, k - 1), kind), r \in Lists(SubSeq(s, k + 1, Len(s)), kind)} :
                k \in {k \in DOMAIN s : s[k] = ","}}
Values(text) ==
  LET s == Trim(text)
      inside == Trim(SubSeq(s, 2, Len(s) - 1))
      between(open, close) == Len(s) >= 2 /\ s[1] = open /\ s[Len(s)] = close
      of(kind) == {<<kind, l>> : l \in IF inside = << >> THEN {<< >>} ELSE Lists(inside, kind)}
  IN (IF Len(s) = 1 /\ s[1] \in Atoms THEN {<<"atom", s[1]>>} ELSE {})
     \cup {<<"string", m>> : m \in Strings(s)}
     \cup (IF between("[", "]") THEN of("array") ELSE {})
     \cup (IF between("{", "}") THEN of("object") ELSE {})
===============================================================================
