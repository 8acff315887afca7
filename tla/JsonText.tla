------------------------------ MODULE JsonText ------------------------------
(* The printer and the parser of cJSON (cJSON/cJSON.c). A run prints a value
   into a buffer that grows and then parses what was printed, or parses a text
   that came from elsewhere. The printer and the parser are recursive; here
   they are loops with a stack of the arrays and objects they are in.

   A text is the characters of JsonValues and a NUL. Parsing is cJSON_Parse and
   cJSON_ParseWithOpts: the length given to the parser is that of the text and
   its NUL.                                                                   *)
EXTENDS JsonValues

CONSTANTS
  PrintedValues, \* what is printed
  GivenTexts,    \* what is parsed besides, without the NUL
  BufferSizes,   \* the sizes a buffer may have at first
  IntMax,        \* INT_MAX
  NestingLimit   \* CJSON_NESTING_LIMIT

ASSUME TextAssumption == BufferSizes \subseteq 0..IntMax /\ NestingLimit \in Nat

VARIABLES
  pc,        \* what is done next
  stack,     \* the arrays and objects that are being printed or parsed, innermost last
  job,       \* what to print and how: value, format, noalloc
  strict,    \* require_null_terminated
  buffer,    \* length, written up to offset, pending behind it, whether a NUL follows, top
  text,      \* what is parsed
  offset,    \* the parser's position in it, from 0
  memory,    \* items and strings the parser has allocated
  parsed     \* the value the parser returns

vars == <<pc, stack, job, strict, buffer, text, offset, memory, parsed>>
parserVars == <<strict, text, offset, parsed>>
printerVars == <<job, buffer>>

Top == Last(stack)
SetTop(f) == [stack EXCEPT ![Len(stack)] = f]

--------------------------------------------------------------------------------
\* The print buffer.

Offset == Size(buffer.written)

\* The bug that EnsureNoOffset would be: what is already in the buffer is not counted.
EnsureNoOffset(needed) == IF needed + 1 <= buffer.length THEN {buffer.length} ELSE {0, 2 * (needed + 1)}

\* ensure: the length of the buffer after a call for that many bytes, 0 for a failure.
\* realloc may always fail; the buffer is freed then.
Ensure(needed) ==
  LET all == needed + Offset + 1 IN
  IF (buffer.length > 0 /\ Offset >= buffer.length) \/ needed > IntMax THEN {0}
  ELSE IF all <= buffer.length THEN {buffer.length}
  ELSE IF job.noalloc THEN {0}
  ELSE IF all > IntMax \div 2 THEN (IF all <= IntMax THEN {0, IntMax} ELSE {0})
  ELSE {0, 2 * all}

\* After ensure(needed) the characters cs are written at the offset, and then a NUL if zero.
\* The offset moves behind the first n of them.
Put(needed, cs, n, zero) ==
  \E length \in Ensure(needed) \ {0} :
    buffer' = [length |-> length,
               written |-> buffer.written \o SubSeq(cs, 1, n),
               pending |-> SubSeq(cs, n + 1, Len(cs)),
               zero |-> zero,
               top |-> IF Offset + Size(cs) + (IF zero THEN 1 ELSE 0) > buffer.top
                       THEN Offset + Size(cs) + (IF zero THEN 1 ELSE 0) ELSE buffer.top]

\* The bug that NotUpdated would be: the offset stays where it was.
NotUpdated(b) == [b EXCEPT !.pending = << >>]

\* update_offset: strlen of what is pending
Updated(b) == [b EXCEPT !.written = @ \o b.pending, !.pending = << >>]

--------------------------------------------------------------------------------
\* The printer. The stack holds each value being printed and how many of its elements are
\* done. It is also output_buffer->depth: what is below the top is an array or object.

Value == Top.value
Kind == Value[1]
Elements == Value[2]
Member == Elements[Top.done + 1]
More == Top.done < Len(Elements)
Depth == Len(stack)
Push(v) == Append(stack, [value |-> v, done |-> 0])
Format(n) == IF job.format THEN n ELSE 0

\* The bug that FiveForEach would be: every escape counts as one of a control character.
FiveForEach(s) == Size(s) + 5 * Cardinality({i \in DOMAIN s : s[i] \in DOMAIN ShortEscapes \cup {"ctl"}})

\* print_string_ptr: the length of the text of a string without its quotes
OutputLength(s) ==
  Size(s) + Total([i \in DOMAIN s |-> IF s[i] \in DOMAIN ShortEscapes THEN 1 ELSE IF s[i] = "ctl" THEN 5 ELSE 0])

\* What the call at hand asks ensure for.
Needed ==
  CASE pc = "print" /\ Kind = "atom" -> Bytes[Value[2]] + 1
    [] pc = "print" /\ Kind = "string" -> OutputLength(Value[2]) + 3
    [] pc = "print" /\ Kind = "array" -> 1
    [] pc = "print" /\ Kind = "object" -> 2 + Format(1)
    [] pc = "comma" /\ Kind = "array" -> 2 + Format(1)
    [] pc = "comma" /\ Kind = "object" -> 1 + Format(1) + (IF More THEN 1 ELSE 0)
    [] pc = "indent" -> Depth
    [] pc = "key" -> OutputLength(Member[1]) + 3
    [] pc = "colon" -> 1 + Format(1)
    [] pc = "close" /\ Kind = "object" /\ job.format -> Depth + 1
    [] pc = "close" -> 2

IfFormat(cs) == IF job.format THEN cs ELSE << >>
Write(cs, n, zero) == Put(Needed, cs, n, zero) /\ UNCHANGED <<job, memory, parserVars>>

PrintScalar ==
  /\ pc = "print" /\ Kind \in {"atom", "string"}
  /\ Write(Render(Value, job.format, 0), 0, TRUE)
  /\ pc' = "printed" /\ UNCHANGED stack

\* print_array and print_object up to the first element
Open ==
  /\ pc = "print" /\ Kind \in {"array", "object"}
  /\ LET cs == IF Kind = "array" THEN <<"[">> ELSE <<"{">> \o IfFormat(<<"\n">>)
     IN Write(cs, Len(cs), FALSE)
  /\ pc' = IF More THEN "element" ELSE "close"
  /\ UNCHANGED stack

\* The next element: at once in an array, after its key in an object
NextElement ==
  /\ pc = "element"
  /\ IF Kind = "array" THEN stack' = Push(Member) /\ pc' = "print"
     ELSE UNCHANGED stack /\ pc' = IF job.format THEN "indent" ELSE "key"
  /\ UNCHANGED <<buffer, job, memory, parserVars>>

Indent == pc = "indent" /\ Write(Tabs(Depth), Depth, FALSE) /\ pc' = "key" /\ UNCHANGED stack

\* print_string_ptr and the update_offset behind it
Key ==
  /\ pc = "key"
  /\ Write(RenderString(Member[1]), Len(RenderString(Member[1])), TRUE)
  /\ pc' = "colon" /\ UNCHANGED stack

Colon ==
  /\ pc = "colon"
  /\ LET cs == <<":">> \o IfFormat(<<"\t">>) IN Write(cs, Len(cs), FALSE)
  /\ stack' = Push(Member[2]) /\ pc' = "print"

\* Back in the array or object of what has been printed: update_offset
PrintedElement ==
  /\ pc = "printed" /\ Len(stack) > 1
  /\ LET rest == Front(stack)
         outer == Last(rest)
         last == outer.done + 1 = Len(outer.value[2])
     IN /\ stack' = [rest EXCEPT ![Len(rest)].done = @ + 1]
        /\ pc' = IF outer.value[1] = "array" /\ last THEN "close" ELSE "comma"
  /\ buffer' = Updated(buffer)
  /\ UNCHANGED <<job, memory, parserVars>>

Comma ==
  /\ pc = "comma"
  /\ LET cs == (IF More THEN <<",">> ELSE << >>)
               \o IfFormat(IF Kind = "array" THEN <<" ">> ELSE <<"\n">>)
     IN Write(cs, Len(cs), TRUE)
  /\ pc' = IF More THEN "element" ELSE "close"
  /\ UNCHANGED stack

Close ==
  /\ pc = "close"
  /\ Write(IF Kind = "array" THEN <<"]">> ELSE IfFormat(Tabs(Depth - 1)) \o <<"}">>, 0, TRUE)
  /\ pc' = "printed" /\ UNCHANGED stack

\* print, cJSON_PrintBuffered and cJSON_PrintPreallocated return the text.
PrintEnds ==
  /\ pc = "printed" /\ Len(stack) = 1
  /\ buffer' = Updated(buffer)
  /\ text' = buffer.written \o buffer.pending \o <<Nul>>
  /\ pc' = "parse" /\ stack' = << >>
  /\ UNCHANGED <<job, memory, strict, offset, parsed>>

\* ensure fails, or print cannot reallocate the text to its length at the end.
PrintFails ==
  /\ \/ pc \in {"print", "indent", "key", "colon", "comma", "close"} /\ 0 \in Ensure(Needed)
     \/ pc = "printed" /\ Len(stack) = 1 /\ ~job.noalloc
  /\ pc' = "notPrinted"
  /\ UNCHANGED <<stack, buffer, job, memory, parserVars>>

--------------------------------------------------------------------------------
\* The parser. The stack holds, for each array and object that is being parsed, the elements
\* it has, the name of the one being parsed and whether that one has been allocated.

Char == text[offset + 1]

\* The bug that SkipPastEnd would be: no step back at the end of the text.
SkipPastEnd(o) ==
  LET ink == {i \in o..Len(text) - 1 : text[i + 1] \notin Whitespace \cup {Nul}}
  IN IF ink = {} THEN Len(text) ELSE Min(ink)

\* buffer_skip_whitespace from position o
Skip(o) ==
  LET ink == {i \in o..Len(text) - 1 : text[i + 1] \notin Whitespace \cup {Nul}}
  IN IF o = Len(text) THEN o ELSE IF ink = {} THEN Len(text) - 1 ELSE Min(ink)

\* parse_string: the position of the quote that ends the literal, the length of the text if
\* there is none; i is input_end
RECURSIVE InputEnd(_)
InputEnd(i) ==
  CASE i >= Len(text) -> Len(text)
    [] text[i + 1] = Quote -> i
    [] text[i + 1] = Backslash -> InputEnd(i + 2)
    [] OTHER -> InputEnd(i + 1)

\* What the loop of parse_string makes of the literal s, << >> for a failure.
Failure == <<"failure">>
RECURSIVE Unescaped(_)
Unescaped(s) ==
  LET then(n, c) == LET r == Unescaped(SubSeq(s, n + 1, Len(s)))
                    IN IF r = Failure THEN Failure ELSE <<c>> \o r
      pair == Size(s) >= 12 /\ s[4] = Backslash /\ s[5] = "u" /\ s[6] = "de00"
  IN CASE s = << >> -> << >>
       [] s # << >> /\ s[1] # Backslash -> then(1, s[1])
       [] OTHER ->
            CASE s[2] \in {"n", "t", Quote, Backslash} ->
                   then(2, CHOOSE c \in DOMAIN ShortEscapes : ShortEscapes[c] = s[2])
              [] s[2] = "u" /\ Size(s) >= 6 ->
                   CASE Code[s[3]] = "low" -> Failure
                     [] Code[s[3]] = "high" -> IF pair THEN then(6, "emoji") ELSE Failure
                     [] OTHER -> then(3, Code[s[3]])
              [] OTHER -> Failure

Literal(o) == SubSeq(text, o + 2, InputEnd(o + 1))

\* skipped_bytes of parse_string: the escapes of a literal
RECURSIVE Escapes(_)
Escapes(s) == IF s = << >> THEN 0
              ELSE IF Head(s) = Backslash THEN 1 + Escapes(SubSeq(s, 3, Len(s))) ELSE Escapes(Tail(s))

\* What parse_string allocates for a literal: one byte less for each escape, and a NUL.
AllocationLength(s) == Size(s) + 1 - Escapes(s) + 1

Frame(kind) == [kind |-> kind, done |-> << >>, name |-> << >>, named |-> FALSE, item |-> FALSE]

\* A value has been parsed; st is the stack without it and o the position behind it.
Return(v, st, o) ==
  /\ IF st = << >>
     THEN /\ stack' = st /\ parsed' = <<v>>
          /\ IF strict THEN pc' = "end" /\ offset' = Skip(o) ELSE pc' = "accepted" /\ offset' = o
     ELSE LET f == Last(st)
              element == IF f.kind = "array" THEN v ELSE <<f.name, v>>
          IN /\ stack' = Append(Front(st), [Frame(f.kind) EXCEPT !.done = Append(f.done, element)])
             /\ pc' = "after" /\ offset' = Skip(o) /\ UNCHANGED parsed
  /\ UNCHANGED <<strict, text, printerVars>>

Goto(p, o) ==
  pc' = p /\ offset' = o /\ UNCHANGED <<strict, text, parsed, printerVars>>

StartParse ==
  /\ pc = "parse"
  /\ memory' = [memory EXCEPT !.items = 1]
  /\ Goto("value", Skip(IF text[1] = "BOM" /\ Size(text) > 4 THEN 1 ELSE 0))
  /\ UNCHANGED stack

\* parse_value: literals and numbers
ParseAtom ==
  /\ pc = "value" /\ Char \in Atoms
  /\ Return(<<"atom", Char>>, stack, offset + 1)
  /\ UNCHANGED memory

\* parse_string, when it succeeds
ReadsString == Char = Quote /\ InputEnd(offset + 1) < Len(text) /\ Unescaped(Literal(offset)) # Failure

ParseString ==
  /\ pc = "value" /\ ReadsString
  /\ Return(<<"string", UpToNul(Unescaped(Literal(offset)))>>, stack, InputEnd(offset + 1) + 1)
  /\ memory' = [memory EXCEPT !.strings = @ + 1]

ParseName ==
  /\ pc = "name" /\ ReadsString
  /\ stack' = SetTop([Top EXCEPT !.name = UpToNul(Unescaped(Literal(offset))), !.named = TRUE])
  /\ memory' = [memory EXCEPT !.strings = @ + 1]
  /\ Goto("named", Skip(InputEnd(offset + 1) + 1))

ParseColon ==
  /\ pc = "named" /\ Char = ":"
  /\ Goto("value", Skip(offset + 1)) /\ UNCHANGED <<stack, memory>>

\* The bug that OpensOneMore would be: the limit is tested with > for >=.
OpensOneMore == (Char = "[" \/ Char = "{") /\ Len(stack) <= NestingLimit

\* parse_array and parse_object up to the first element
Opens == (Char = "[" \/ Char = "{") /\ Len(stack) < NestingLimit

ParseOpen ==
  /\ pc = "value" /\ Opens
  /\ stack' = Append(stack, Frame(IF Char = "[" THEN "array" ELSE "object"))
  /\ Goto("first", Skip(offset + 1)) /\ UNCHANGED memory

Closes == Char = (IF Top.kind = "array" THEN "]" ELSE "}")

\* An element is allocated and its value or its name is next.
NewItem(o) ==
  /\ memory' = [memory EXCEPT !.items = @ + 1]
  /\ stack' = SetTop([Top EXCEPT !.item = TRUE])
  /\ Goto(IF Top.kind = "array" THEN "value" ELSE "name", Skip(o))

ParseFirst == pc = "first" /\ ~Closes /\ NewItem(offset)
ParseComma == pc = "after" /\ Char = "," /\ NewItem(offset + 1)

ParseClose ==
  /\ pc \in {"first", "after"} /\ Closes
  /\ Return(<<Top.kind, Top.done>>, Front(stack), offset + 1)
  /\ UNCHANGED memory

ParseEnd == pc = "end" /\ Char = Nul /\ Goto("accepted", offset) /\ UNCHANGED <<stack, memory>>

\* The bug that DeletedButNames would be: names are not freed.
DeletedButNames ==
  [items |-> memory.items,
   strings |-> Total([i \in DOMAIN stack |-> StringsOf(<<stack[i].kind, stack[i].done>>)])]

\* Each level deletes its list and the caller deletes the root: done items with all that is
\* in them, and the one that was being parsed with its name.
Deleted ==
  LET of(f) == Total([i \in DOMAIN f.done |-> ItemsOf(IF f.kind = "array" THEN f.done[i] ELSE f.done[i][2])])
               + (IF f.item THEN 1 ELSE 0)
      stringsOf(f) == StringsOf(<<f.kind, f.done>>) + (IF f.named THEN 1 ELSE 0)
      root == IF parsed = << >> THEN [items |-> 1, strings |-> 0]
              ELSE [items |-> ItemsOf(parsed[1]), strings |-> StringsOf(parsed[1])]
  IN [items |-> root.items + Total([i \in DOMAIN stack |-> of(stack[i])]),
      strings |-> root.strings + Total([i \in DOMAIN stack |-> stringsOf(stack[i])])]

Fail(p) ==
  /\ memory' = [items |-> memory.items - Deleted.items, strings |-> memory.strings - Deleted.strings]
  /\ pc' = p /\ stack' = << >> /\ parsed' = << >>
  /\ UNCHANGED <<strict, text, offset, printerVars>>

ParseFails ==
  /\ \/ pc = "value" /\ ~(Char \in Atoms \/ ReadsString \/ Opens)
     \/ pc = "name" /\ ~ReadsString
     \/ pc = "named" /\ Char # ":"
     \/ pc = "after" /\ Char # "," /\ ~Closes
     \/ pc = "end" /\ Char # Nul
  /\ Fail("rejected")

\* An allocation fails: of an item, or of the string of a literal.
OutOfMemory ==
  \/ /\ pc = "parse" /\ pc' = "noMemory"
     /\ UNCHANGED <<stack, memory, printerVars, parserVars>>
  \/ /\ \/ pc = "first" /\ ~Closes
        \/ pc = "after" /\ Char = ","
        \/ pc \in {"value", "name"} /\ Char = Quote /\ InputEnd(offset + 1) < Len(text)
     /\ Fail("noMemory")

--------------------------------------------------------------------------------
Init ==
  /\ strict \in BOOLEAN /\ offset = 0 /\ parsed = << >> /\ memory = [items |-> 0, strings |-> 0]
  /\ \/ \E v \in PrintedValues, format, noalloc \in BOOLEAN, length \in BufferSizes :
          /\ pc = "print" /\ text = << >>
          /\ job = [value |-> v, format |-> format, noalloc |-> noalloc, size |-> length]
          /\ buffer = [length |-> length, written |-> << >>, pending |-> << >>, zero |-> FALSE, top |-> 0]
          /\ stack = <<[value |-> v, done |-> 0]>>
     \/ \E t \in GivenTexts :
          /\ pc = "parse" /\ text = Append(t, Nul) /\ stack = << >>
          /\ job = [size |-> 0] /\ buffer = [length |-> 0]

Next ==
  \/ PrintScalar \/ Open \/ NextElement \/ Indent \/ Key \/ Colon \/ PrintedElement \/ Comma \/ Close
  \/ PrintEnds \/ PrintFails
  \/ StartParse \/ ParseAtom \/ ParseString \/ ParseName \/ ParseColon \/ ParseOpen \/ ParseFirst
  \/ ParseComma \/ ParseClose \/ ParseEnd \/ ParseFails \/ OutOfMemory

Spec == Init /\ [][Next]_vars

--------------------------------------------------------------------------------
Printing == {"print", "element", "indent", "key", "colon", "printed", "comma", "close"}
Parsing == {"parse", "value", "name", "named", "first", "after", "end"}
Ends == {"notPrinted", "accepted", "rejected", "noMemory"}
IsPrinted == "value" \in DOMAIN job

TypeOK ==
  /\ pc \in Printing \cup Parsing \cup Ends
  /\ strict \in BOOLEAN
  /\ offset \in 0..Len(text) /\ (pc \in Parsing => offset < Len(text))
  /\ memory \in [items : Nat, strings : Nat]
  /\ IsPrinted => job.value \in PrintedValues /\ buffer.length \in 0..IntMax

\* No byte is written behind the end of the print buffer, and whenever strlen looks for the
\* end of what is pending there is a NUL behind it. Nor does the parser write behind what it
\* has allocated for a string, which it does before it knows what the escapes stand for.
WritesFit ==
  /\ IsPrinted => buffer.top <= buffer.length /\ (buffer.pending # << >> => buffer.zero)
  /\ pc \in {"value", "name"} /\ ReadsString =>
       Size(Unescaped(Literal(offset))) + 1 <= AllocationLength(Literal(offset))

\* A buffer the caller provides suffices if it has one byte more than the text and its NUL;
\* cJSON.h asks for five bytes more (line 162).
SpareByteSuffices ==
  pc = "notPrinted" /\ job.noalloc => job.size < Size(Render(job.value, job.format, 0)) + 2

\* What has been printed is parsed to the value that was printed.
RoundTrip ==
  IsPrinted => pc # "rejected" /\ (pc = "accepted" => parsed = <<job.value>>)

\* A text is accepted exactly if it starts with the text of a value that is not nested too
\* deeply, and, if so required, ends there; the parser returns that value.
ParsesTheGrammar ==
  pc \in {"accepted", "rejected"} =>
    LET given == SubSeq(text, IF text[1] = "BOM" THEN 2 ELSE 1, Len(text) - 1)
        prefixes == IF strict THEN {given} ELSE {SubSeq(given, 1, n) : n \in 0..Len(given)}
        meant == {v \in UNION {Values(t) : t \in prefixes} : Nesting(v) <= NestingLimit}
    IN {parsed[i] : i \in DOMAIN parsed} = meant /\ (pc = "accepted" <=> meant # {})

\* The parser returns with exactly the items and strings of the value allocated, and with
\* none when it fails, wherever that was.
NothingLeaked ==
  pc \in Ends => memory = IF parsed = << >> THEN [items |-> 0, strings |-> 0]
                          ELSE [items |-> ItemsOf(parsed[1]), strings |-> StringsOf(parsed[1])]
================================================================================
