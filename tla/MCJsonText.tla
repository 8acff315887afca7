----------------------------- MODULE MCJsonText -----------------------------
(* JsonText for TLC. Besides what is printed, texts with white space and escapes
   are parsed, and everything that differs from them in one character.        *)
EXTENDS JsonText

MCBytes == [c \in {"null", "0000", "0001", "00e9", "d83d", "de00", "zzzz", "emoji"} |-> 4]
           @@ [c \in {"BOM"} |-> 3] @@ [c \in {"e9"} |-> 2]
           @@ [c \in {"1", "[", "]", "{", "}", ",", ":", " ", "\n", "\t", "u", "n", "ctl",
                      Quote, Backslash, Nul} |-> 1]

Null == <<"atom", "null">>
One == <<"atom", "1">>
Str(s) == <<"string", s>>
Scalars == {Null, One, Str(<< >>), Str(<<"n", Quote>>), Str(<<"ctl", "\n", "e9">>)}
Small == Scalars \cup {<<"array", << >>>>, <<"object", << >>>>}
MCPrintedValues ==
  Small \cup {<<"array", <<v, w>>>> : v, w \in {One, Str(<<"ctl">>), <<"array", <<Null>>>>}}
  \cup {<<"object", <<<<<<"u">>, v>>, <<<<Quote>>, w>>>>>> : v, w \in {Null, <<"object", <<<<<< >>, One>>>>>>, <<"array", << >>>>}}

Bases == {<<"BOM", " ", "[", "1", " ", ",", "null", "]">>,
          <<"{", Quote, Quote, ":", "[", "]", ",", Quote, "n", Quote, ":", "1", "}">>,
          <<"[", "[", "[", "]", "]", "]">>,
          <<Quote, Backslash, "u", "d83d", Backslash, "u", "de00", "n", Quote>>,
          <<Quote, Backslash, "n", Backslash, "u", "0000", "n", Quote, "\n">>,
          <<"[", Quote, Backslash, "u", "00e9", Quote, "]", "}">>,
          <<"{", Quote, "u", Backslash, Quote, Quote, " ", ":", "{", "}", "\t", "}">>}

Alphabet == DOMAIN MCBytes \ {Nul, "emoji", "ctl"}
Edited(t) ==
  {t} \cup {RemoveAt(t, i) : i \in DOMAIN t} \cup {SubSeq(t, 1, i) : i \in 0..Len(t)}
  \cup {[t EXCEPT ![i] = c] : i \in DOMAIN t, c \in Alphabet}
  \cup {InsertAt(t, i, c) : i \in 1..Len(t) + 1, c \in Alphabet}

\* Numbers would be one number side by side, and four digits belong behind \u.
Proper(t) ==
  /\ \A i \in 2..Len(t) : t[i] = "1" => t[i - 1] # "1"
  /\ \A i \in DOMAIN t : t[i] \in Quads <=> i > 2 /\ t[i - 2] = Backslash /\ t[i - 1] = "u"
MCGivenTexts == {t \in UNION {Edited(b) : b \in Bases} : Proper(t)}
=============================================================================
