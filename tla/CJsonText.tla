------------------------------ MODULE CJsonText ------------------------------
(***************************************************************************)
(* Text and trees of cJSON.c, as built for the ESP8266 (no floating        *)
(* point): every command the plug receives goes through cJSON_Parse and    *)
(* every report through cJSON_Print.                                       *)
(*                                                                         *)
(* A text is a sequence of bytes; a tree is a record with its "type" and   *)
(* its data.  The parser and the printer are operators that carry their    *)
(* buffer along: where they are, how many allocations will still succeed   *)
(* ("left"), how many heap blocks are in use ("live") and whether a byte   *)
(* was written outside the block that was asked for ("over").              *)
(*                                                                         *)
(* The recursion is RECURSIVE operators: nothing is proved here.           *)
(***************************************************************************)
EXTENDS Integers, Sequences, SequencesExt

CONSTANTS Documents,  \* the trees a client prints
          Plenty,     \* an allocation budget that never runs out
          IntMax,     \* INT_MAX
          Nesting     \* CJSON_NESTING_LIMIT

Quote     == 34
Backslash == 92
Slash     == 47
Comma     == 44
Colon     == 58
Null  == <<110, 117, 108, 108>>
False == <<102, 97, 108, 115, 101>>
True  == <<116, 114, 117, 101>>
Digit == 48 .. 57

LowerOf(c) == IF c \in 65 .. 90 THEN c + 32 ELSE c

\* What strlen and every reader of a C string see: the bytes before a NUL.
CString(s) == IF Contains(s, 0) THEN SubSeq(s, 1, SelectInSeq(s, LAMBDA c : c = 0) - 1)
              ELSE s

RECURSIVE Blocks(_)
\* The heap blocks cJSON_Delete gives back for a tree: its items, the value
\* strings and the names.
Blocks(v) ==
  CASE v.type \in {"string", "raw"} -> 2
    [] v.type = "array"  -> 1 + FoldSeq(LAMBDA e, n : n + Blocks(e), 0, v.items)
    [] v.type = "object" -> 1 + FoldSeq(LAMBDA e, n : n + 1 + Blocks(e.val), 0, v.items)
    [] OTHER -> 1

(***************************************************************************)
(* The parse_buffer b: the text with its terminator, the offset, the       *)
(* nesting depth, the heap, and the outcome of the last step ("ok"; "item" *)
(* is the tree it filled in).                                              *)
(***************************************************************************)
Length(b) == Len(b.text)
CanAccess(b) == b.at < Length(b)
Here(b) == b.text[b.at + 1]
Sees(b, c) == CanAccess(b) /\ Here(b) = c
Reads(b, word) == /\ b.at + Len(word) <= Length(b)
                  /\ SubSeq(b.text, b.at + 1, b.at + Len(word)) = word
Step(b, n) == [b EXCEPT !.at = @ + n]
Failed(b) == [b EXCEPT !.ok = FALSE]
Done(b, v, n) == [Step(b, n) EXCEPT !.ok = TRUE, !.item = v]

Allocate(b) == IF b.left = 0 THEN Failed(b)
               ELSE [b EXCEPT !.ok = TRUE, !.left = @ - 1, !.live = @ + 1]
Free(b, n) == [b EXCEPT !.live = @ - n]

\* buffer_skip_whitespace takes the terminator for white space too and then
\* steps back onto it.
SkipSpace(b) ==
  LET stop == CHOOSE k \in b.at .. Length(b) :
                /\ \A j \in b.at .. k - 1 : b.text[j + 1] <= 32
                /\ k = Length(b) \/ b.text[k + 1] > 32
  IN  [b EXCEPT !.at = IF stop = Length(b) THEN stop - 1 ELSE stop]

SkipBom(b) == IF b.at + 4 < Length(b) /\ Reads(b, <<239, 187, 191>>) THEN Step(b, 3) ELSE b

\* atoi of the characters a number may be made of, cut at 63 of them.
RECURSIVE DigitsValue(_, _)
DigitsValue(s, n) == IF s = <<>> \/ Head(s) \notin Digit \/ n > IntMax THEN n
                     ELSE DigitsValue(Tail(s), 10 * n + Head(s) - 48)
Atoi(s) == IF s # <<>> /\ Head(s) = 45 THEN 0 - DigitsValue(Tail(s), 0)
           ELSE IF s # <<>> /\ Head(s) = 43 THEN DigitsValue(Tail(s), 0)
           ELSE DigitsValue(s, 0)
Saturated(n) == IF n >= IntMax THEN IntMax
                ELSE IF n <= 0 - IntMax - 1 THEN 0 - IntMax - 1 ELSE n

NumberChars == Digit \cup {43, 45, 46, 69, 101}
parse_number(b) ==
  LET end == CHOOSE k \in b.at .. Length(b) :
               /\ \A j \in b.at .. k - 1 : b.text[j + 1] \in NumberChars
               /\ k = Length(b) \/ b.text[k + 1] \notin NumberChars \/ k - b.at = 63
  IN  IF end = b.at THEN Failed(b)
      ELSE Done(b, [type |-> "number", int |-> Saturated(Atoi(SubSeq(b.text, b.at + 1, end)))],
                end - b.at)

\* parse_hex4: 0 when one of the four is not a hexadecimal digit.
Hex(c) == IF c \in Digit THEN c - 48
          ELSE IF LowerOf(c) \in 97 .. 102 THEN LowerOf(c) - 87 ELSE -1
Hex4(s) == IF \E i \in 1 .. 4 : Hex(s[i]) < 0 THEN 0
           ELSE Hex(s[1]) * 4096 + Hex(s[2]) * 256 + Hex(s[3]) * 16 + Hex(s[4])

Utf8(cp) ==
  IF cp < 128 THEN <<cp>>
  ELSE IF cp < 2048 THEN <<192 + cp \div 64, 128 + (cp % 64)>>
  ELSE IF cp < 65536 THEN <<224 + cp \div 4096, 128 + ((cp \div 64) % 64), 128 + (cp % 64)>>
  ELSE <<240 + cp \div 262144, 128 + ((cp \div 4096) % 64), 128 + ((cp \div 64) % 64), 128 + (cp % 64)>>

\* One \uXXXX or a surrogate pair of them at the head of s: the bytes it stands
\* for and the characters it took; 0 characters: not convertible.
utf16_literal_to_utf8(s) ==
  LET first  == Hex4(SubSeq(s, 3, 6))
      second == Hex4(SubSeq(s, 9, 12))
      bad    == [bytes |-> <<>>, took |-> 0]
  IN  IF Len(s) < 6 THEN bad
      ELSE IF first \in 56320 .. 57343 THEN bad
      ELSE IF first \notin 55296 .. 56319 THEN [bytes |-> Utf8(first), took |-> 6]
      ELSE IF Len(s) < 12 THEN bad
      ELSE IF s[7] # Backslash \/ s[8] # 117 \/ second \notin 56320 .. 57343 THEN bad
      ELSE [bytes |-> Utf8(65536 + (first - 55296) * 1024 + second - 56320), took |-> 12]

Escapes == {<<98, 8>>, <<102, 12>>, <<110, 10>>, <<114, 13>>, <<116, 9>>,
            <<Quote, Quote>>, <<Backslash, Backslash>>, <<Slash, Slash>>}

\* The body of a string literal: the decoded bytes, or where it went wrong.  Of a
\* backslash at the end, left over when \uXXXX took the first of two, the character
\* behind it is the closing quote.
RECURSIVE Unescape(_, _)
Unescape(s, out) ==
  LET next == IF Len(s) = 1 THEN Quote ELSE s[2]
  IN
  IF s = <<>> THEN [ok |-> TRUE, bytes |-> out, rest |-> 0]
  ELSE IF Head(s) # Backslash THEN Unescape(Tail(s), Append(out, Head(s)))
  ELSE IF next = 117
       THEN LET u == utf16_literal_to_utf8(s)
            IN  IF u.took = 0 THEN [ok |-> FALSE, bytes |-> out, rest |-> Len(s)]
                ELSE Unescape(SubSeq(s, u.took + 1, Len(s)), out \o u.bytes)
  ELSE IF \E e \in Escapes : e[1] = next
       THEN Unescape(SubSeq(s, 3, Len(s)), Append(out, (CHOOSE e \in Escapes : e[1] = next)[2]))
  ELSE [ok |-> FALSE, bytes |-> out, rest |-> Len(s)]

\* The index of the closing quote of a literal whose body starts at k, and the
\* backslashes before it; Len(text) when the text ends first.
RECURSIVE Closing(_, _, _)
Closing(text, k, skipped) ==
  IF k >= Len(text) THEN [at |-> Len(text), skipped |-> skipped]
  ELSE IF text[k + 1] = Quote THEN [at |-> k, skipped |-> skipped]
  ELSE IF text[k + 1] # Backslash THEN Closing(text, k + 1, skipped)
  ELSE Closing(text, k + 2, skipped + 1)

\* The block holds the literal without its backslashes, and a terminator.
Room(end, start, skipped) == (end - start) - skipped + 1

parse_string(b) ==
  LET end  == Closing(b.text, b.at + 1, 0)
      a    == Allocate(b)
      body == Unescape(SubSeq(b.text, b.at + 2, end.at), <<>>)
      over == b.over \/ Len(body.bytes) + (IF body.ok THEN 1 ELSE 0)
                          > Room(end.at, b.at, end.skipped)
  IN  IF ~Sees(b, Quote) \/ end.at = Length(b) \/ ~a.ok THEN [Failed(b) EXCEPT !.at = @ + 1]
      ELSE IF ~body.ok
           THEN [Failed(Free(a, 1)) EXCEPT !.at = end.at - body.rest, !.over = over]
      ELSE [Done(a, [type |-> "string", str |-> CString(body.bytes)], end.at + 1 - b.at)
              EXCEPT !.over = over]

\* Failure, with the blocks of what was read so far (cJSON_Delete of the head)
\* given back.
Cleared(b, v) == Failed(Free(b, Blocks(v) - 1))

Array(items) == [type |-> "array", items |-> items]
Object(items) == [type |-> "object", items |-> items]

RECURSIVE parse_value(_), Elements(_, _), Element(_, _), Members(_, _), Named(_, _),
          Member(_, _, _), Follows(_, _)

\* parse_array: b.at is on '[' or on a comma; then with an element read.
Elements(b, items) ==
  LET a == Allocate(b)
  IN  IF a.ok THEN Element(parse_value(SkipSpace(Step(a, 1))), items)
      ELSE Cleared(a, Array(items))
Element(v, items) ==
  IF v.ok THEN Follows(SkipSpace(v), Array(Append(items, v.item)))
  ELSE Cleared(Free(v, 1), Array(items))

\* parse_object: a member is its name, a colon and its value.
Members(b, items) ==
  LET a == Allocate(b)
  IN  IF a.ok THEN Named(parse_string(SkipSpace(Step(a, 1))), items)
      ELSE Cleared(a, Object(items))
Named(name, items) ==
  LET colon == SkipSpace(name)
  IN  IF ~name.ok THEN Cleared(Free(name, 1), Object(items))
      ELSE IF ~Sees(colon, Colon) THEN Cleared(Free(colon, 2), Object(items))
      ELSE Member(name.item.str, parse_value(SkipSpace(Step(colon, 1))), items)
Member(key, v, items) ==
  IF v.ok THEN Follows(SkipSpace(v), Object(Append(items, [key |-> key, val |-> v.item])))
  ELSE Cleared(Free(v, 2), Object(items))

\* What follows an element or a member: another one, the end, or an error.
Follows(b, all) ==
  IF Sees(b, Comma)
  THEN IF all.type = "array" THEN Elements(b, all.items) ELSE Members(b, all.items)
  ELSE IF Sees(b, IF all.type = "array" THEN 93 ELSE 125) THEN Done(b, all, 1)
  ELSE Cleared(b, all)

\* An array or an object: the nesting limit, the empty list, or the loop, which
\* starts one character before the first element.
Inside(b, type, close) ==
  IF Sees(b, close) THEN Done(b, [type |-> type, items |-> <<>>], 1)
  ELSE IF type = "array" THEN Elements(Step(b, -1), <<>>) ELSE Members(Step(b, -1), <<>>)
Outside(b, list) == IF list.ok THEN [list EXCEPT !.depth = b.depth] ELSE list
Nested(b, type, close) ==
  IF b.depth >= Nesting THEN Failed(b)
  ELSE Outside(b, Inside(SkipSpace(Step([b EXCEPT !.depth = @ + 1], 1)), type, close))

parse_value(b) ==
  IF Reads(b, Null) THEN Done(b, [type |-> "null"], 4)
  ELSE IF Reads(b, False) THEN Done(b, [type |-> "false"], 5)
  ELSE IF Reads(b, True) THEN Done(b, [type |-> "true"], 4)
  ELSE IF Sees(b, Quote) THEN parse_string(b)
  ELSE IF CanAccess(b) /\ Here(b) \in Digit \cup {45} THEN parse_number(b)
  ELSE IF Sees(b, 91) THEN Nested(b, "array", 93)
  ELSE IF Sees(b, 123) THEN Nested(b, "object", 125)
  ELSE Failed(b)

\* cJSON_ParseWithOpts; cJSON_Parse does not ask for the terminator.  On failure
\* the root is deleted and the error is at most at the terminator.
Refused(v, live) ==
  [ok |-> FALSE, live |-> live, over |-> v.over, item |-> [type |-> "none"],
   at |-> IF v.at < Length(v) THEN v.at ELSE Length(v) - 1]
Root(v, require) ==
  LET end == IF require THEN SkipSpace(v) ELSE v
  IN  IF ~v.ok THEN Refused(v, v.live - 1)
      ELSE IF require /\ ~Sees(end, 0) THEN Refused(v, v.live - Blocks(v.item))
      ELSE [ok |-> TRUE, live |-> v.live, over |-> v.over, item |-> v.item, at |-> end.at]
cJSON_ParseWithOpts(text, left, require) ==
  LET b == Allocate([text |-> Append(text, 0), at |-> 0, depth |-> 0, left |-> left, live |-> 0,
                     ok |-> TRUE, item |-> [type |-> "none"], over |-> FALSE])
  IN  IF b.ok THEN Root(parse_value(SkipSpace(SkipBom(b))), require) ELSE Refused(b, 0)

(***************************************************************************)
(* cJSON_Minify: white space and comments go, string literals stay.  The   *)
(* terminator is in s; a comment nobody closes is read past it (-1).       *)
(***************************************************************************)
RECURSIVE InLiteral(_, _), Minified(_, _), Beyond(_, _)
\* s from its first occurrence of the word on, or from its terminator.
Beyond(s, word) == IF Head(s) = 0 \/ IsPrefix(word, s) THEN s ELSE Beyond(Tail(s), word)
InLiteral(s, out) ==
  IF Head(s) = 0 THEN Append(out, 0)
  ELSE IF Head(s) = Quote THEN Minified(Tail(s), Append(out, Quote))
  ELSE IF Head(s) = Backslash THEN InLiteral(SubSeq(s, 3, Len(s)), out \o <<s[1], s[2]>>)
  ELSE InLiteral(Tail(s), Append(out, Head(s)))
Minified(s, out) ==
  LET closed == Beyond(s, <<42, Slash>>)
  IN  IF Head(s) = 0 THEN out
      ELSE IF Head(s) \in {32, 9, 13, 10} THEN Minified(Tail(s), out)
      ELSE IF IsPrefix(<<Slash, Slash>>, s) THEN Minified(Beyond(s, <<10>>), out)
      ELSE IF IsPrefix(<<Slash, 42>>, s)
           THEN IF Head(closed) = 0 THEN Append(out, -1)
                ELSE Minified(SubSeq(closed, 3, Len(closed)), out)
      ELSE IF Head(s) = Quote THEN InLiteral(Tail(s), Append(out, Quote))
      ELSE Minified(Tail(s), Append(out, Head(s)))
cJSON_Minify(text) == Minified(Append(text, 0), <<>>)

(***************************************************************************)
(* The printbuffer p: "out" is the text up to the offset, "length" the     *)
(* size the printer believes the block has, "ok" whether there is a block. *)
(***************************************************************************)
\* Mutant: what the block holds already is forgotten in its new size.
NewSizeOfNeeded(p, needed) == 2 * needed
\* The block after a reallocation that leaves needed bytes and one more: twice that.
NewSize(p, needed) == 2 * (needed + Len(p.out) + 1)
\* What cJSON_Print and cJSON_PrintBuffered do with a block that is still there.
Freed(p) == [p EXCEPT !.live = 0]
\* ensure: at least "needed" more bytes; a failed reallocation frees the block.
ensure(p, needed) ==
  IF p.length > 0 /\ Len(p.out) >= p.length THEN Failed(p)
  ELSE IF needed + Len(p.out) + 1 <= p.length THEN p
  ELSE IF p.noalloc THEN Failed(p)
  ELSE IF p.left = 0 THEN Failed(Freed(p))
  ELSE [p EXCEPT !.left = @ - 1, !.length = NewSize(p, needed)]

\* The bytes s, and n terminators, behind room made for "needed" bytes.
Put(p, needed, s, n) ==
  LET q == ensure(p, needed)
  IN  IF ~p.ok THEN p
      ELSE IF ~q.ok THEN q
      ELSE [q EXCEPT !.out = @ \o s, !.over = @ \/ Len(q.out) + Len(s) + n > q.length]

RECURSIVE Decimal(_)
Decimal(n) == IF n < 0 THEN <<45>> \o Decimal(0 - n)
              ELSE IF n < 10 THEN <<48 + n>>
              ELSE Append(Decimal(n \div 10), 48 + (n % 10))
print_number(p, n) == Put(p, Len(Decimal(n)), Decimal(n), 1)

HexDigit(n) == IF n < 10 THEN 48 + n ELSE 87 + n
\* Mutant: a backslash is copied like any other character.
EscapedButBackslash(c) ==
  IF c > 31 /\ c # Quote THEN <<c>>
  ELSE IF \E e \in Escapes : e[2] = c
       THEN <<Backslash, (CHOOSE e \in Escapes : e[2] = c)[1]>>
  ELSE <<Backslash, 117, 48, 48, HexDigit(c \div 16), HexDigit(c % 16)>>
Escaped(c) ==
  IF c > 31 /\ c \notin {Quote, Backslash} THEN <<c>>
  ELSE IF \E e \in Escapes : e[2] = c
       THEN <<Backslash, (CHOOSE e \in Escapes : e[2] = c)[1]>>
  ELSE <<Backslash, 117, 48, 48, HexDigit(c \div 16), HexDigit(c % 16)>>
\* The bytes escaping adds: counted first, written second.
Extra(c) == IF \E e \in Escapes \ {<<Slash, Slash>>} : e[2] = c THEN 1 ELSE IF c < 32 THEN 5 ELSE 0

print_string_ptr(p, s) ==
  Put(p, Len(s) + FoldSeq(LAMBDA c, n : n + Extra(c), 0, s) + 3,
      <<Quote>> \o FlattenSeq([i \in DOMAIN s |-> Escaped(s[i])]) \o <<Quote>>, 1)

Tabs(n) == [i \in 1 .. n |-> 9]
When(f, s) == IF f THEN s ELSE <<>>

RECURSIVE print_value(_, _), PrintElements(_, _), PrintMembers(_, _)

PrintElements(p, items) ==
  LET comma == <<Comma>> \o When(p.format, <<32>>)
      q     == print_value(p, Head(items))
  IN  IF items = <<>> THEN p
      ELSE PrintElements(IF Len(items) = 1 THEN q ELSE Put(q, Len(comma) + 1, comma, 1), Tail(items))

print_array(p, v) ==
  LET open == Put(p, 1, <<91>>, 0)
      all  == PrintElements([open EXCEPT !.depth = @ + 1], v.items)
  IN  [Put(all, 2, <<93>>, 1) EXCEPT !.depth = p.depth]

PrintMembers(p, items) ==
  LET colon  == <<Colon>> \o When(p.format, <<9>>)
      ending == When(Len(items) > 1, <<Comma>>) \o When(p.format, <<10>>)
      indent == IF p.format THEN Put(p, p.depth, Tabs(p.depth), 0) ELSE p
      name   == print_string_ptr(indent, Head(items).key)
      v      == print_value(Put(name, Len(colon), colon, 0), Head(items).val)
  IN  IF items = <<>> THEN p
      ELSE PrintMembers(Put(v, Len(ending) + 1, ending, 1), Tail(items))

print_object(p, v) ==
  LET start == <<123>> \o When(p.format, <<10>>)
      open  == Put(p, Len(start) + 1, start, 0)
      end   == When(p.format, Tabs(p.depth)) \o <<125>>
      all   == PrintMembers([open EXCEPT !.depth = @ + 1], v.items)
  IN  [Put(all, IF p.format THEN p.depth + 2 ELSE 2, end, 1) EXCEPT !.depth = p.depth]

print_value(p, v) ==
  CASE v.type = "null"   -> Put(p, 5, Null, 1)
    [] v.type = "false"  -> Put(p, 6, False, 1)
    [] v.type = "true"   -> Put(p, 5, True, 1)
    [] v.type = "number" -> print_number(p, v.int)
    [] v.type = "string" -> print_string_ptr(p, v.str)
    [] v.type = "raw"    -> Put(p, Len(v.str) + 1, v.str, 1)
    [] v.type = "array"  -> print_array(p, v)
    [] v.type = "object" -> print_object(p, v)

Buffer(length, left, live, noalloc, format) ==
  [out |-> <<>>, length |-> length, left |-> left, live |-> live, noalloc |-> noalloc,
   format |-> format, depth |-> 0, ok |-> TRUE, over |-> FALSE]

\* print: the first block has 256 bytes, but its length is left 0, so that the
\* first ensure replaces it.  The last reallocation loses the block if it fails.
Buffered(p) == IF p.ok THEN p ELSE Freed(p)
Trimmed(p) == IF p.ok /\ p.left = 0 THEN Failed(p) ELSE Buffered(p)
cJSON_Print(v, left, format) ==
  IF left = 0 THEN Failed(Buffer(0, 0, 0, FALSE, format))
  ELSE Trimmed(print_value(Buffer(0, left - 1, 1, FALSE, format), v))

cJSON_PrintBuffered(v, left, format, prebuffer) ==
  IF left = 0 THEN Failed(Buffer(0, 0, 0, FALSE, format))
  ELSE Buffered(print_value(Buffer(prebuffer, left - 1, 1, FALSE, format), v))

cJSON_PrintPreallocated(v, format, len) == print_value(Buffer(len, 0, 0, TRUE, format), v)

(***************************************************************************)
(* A client: it prints a document, the text may be minified or arrive      *)
(* damaged, and it is parsed, with memory running out anywhere.            *)
(***************************************************************************)
CONSTANTS Budgets,  \* how many allocations succeed: Plenty among them
          Texts,    \* texts that arrive as they are
          Spoilers  \* bytes that may replace one of the text

VARIABLES document,  \* the tree the client holds
          text,      \* the text in its buffer
          stage,     \* "built", "printed", "minified", "damaged", "received",
           \* and after parsing "parsed", "refused" or "read"
          outcome    \* what the last call did

jsonVars == <<document, text, stage, outcome>>

Nothing == [type |-> "none"]
\* The document's text when nothing is in the way.
Whole(format) == cJSON_Print(document, Plenty, format).out

Outcome(r, item, budget, slack) ==
  [ok |-> r.ok, live |-> r.live, over |-> r.over, item |-> item, budget |-> budget, slack |-> slack]

InitText ==
  /\ document \in Documents
  /\ text = <<>>
  /\ stage = "built"
  /\ outcome = [ok |-> FALSE, live |-> 0, over |-> FALSE, item |-> Nothing,
                budget |-> Plenty, slack |-> 0]

Printed(p, budget, slack) ==
  /\ stage = "built"
  /\ text' = IF p.ok THEN p.out ELSE <<>>
  /\ stage' = "printed"
  /\ outcome' = Outcome(p, Nothing, budget, slack)
  /\ UNCHANGED document

PrintOut == \E format \in BOOLEAN, left \in Budgets :
           Printed(cJSON_Print(document, left, format), left, 0)
PrintBuffered == \E format \in BOOLEAN, left \in Budgets, pre \in {0, 1, 20} :
           Printed(cJSON_PrintBuffered(document, left, format, pre), left, 0)
\* "slack" is what the client adds to the text and its terminator.
PrintPreallocated == \E format \in BOOLEAN, slack \in -9 .. 6 :
  \E len \in {Len(Whole(format)) + 1 + slack} :
    /\ len >= 0
    /\ Printed(cJSON_PrintPreallocated(document, format, len), Plenty, slack)

Minify ==
  /\ stage = "printed" /\ outcome.ok
  /\ text' = cJSON_Minify(text)
  /\ stage' = "minified"
  /\ UNCHANGED <<document, outcome>>

\* A text cut short or with one byte changed.
Damage ==
  /\ stage = "printed" /\ outcome.ok
  /\ \E k \in 1 .. Len(text) :
       \/ text' = SubSeq(text, 1, k - 1)
       \/ \E c \in Spoilers : text' = [text EXCEPT ![k] = c]
  /\ stage' = "damaged"
  /\ UNCHANGED <<document, outcome>>

Receive ==
  /\ stage = "built"
  /\ text' \in Texts
  /\ stage' = "received"
  /\ UNCHANGED <<document, outcome>>

After == [printed |-> "parsed", minified |-> "parsed", damaged |-> "refused", received |-> "read"]

Parse ==
  /\ stage \in DOMAIN After /\ (outcome.ok \/ stage = "received")
  /\ \E left \in Budgets, require \in BOOLEAN :
       \E r \in {cJSON_ParseWithOpts(text, left, require)} :
         outcome' = Outcome(r, r.item, left, 0)
  /\ stage' = After[stage]
  /\ UNCHANGED <<document, text>>

\* The client goes on with another document, or with the one it received.
Again ==
  /\ stage \in {"parsed", "refused", "read"} \/ (stage = "printed" /\ ~outcome.ok)
  /\ IF stage = "read" /\ outcome.ok THEN document' = outcome.item ELSE document' \in Documents
  /\ text' = <<>> /\ stage' = "built"
  /\ UNCHANGED outcome

NextText == PrintOut \/ PrintBuffered \/ PrintPreallocated \/ Minify \/ Damage \/ Receive \/ Parse \/ Again

Spec == InitText /\ [][NextText]_jsonVars
-----------------------------------------------------------------------------

\* A document printed in any way, formatted or not, minified or not, is parsed
\* back as itself, names and escapes included, as long as the memory lasts; and
\* a tree read from any text survives being printed and read again.
TextIsTheTree ==
  stage = "parsed" => /\ outcome.ok => outcome.item = document
                      /\ outcome.budget = Plenty => outcome.ok

\* Wherever a text is damaged and whichever allocation fails, parsing leaves on
\* the heap the blocks of the tree it returns, and none when it returns none;
\* neither the parser nor the printer writes past a block; and 5 bytes more than
\* the text needs are enough for cJSON_PrintPreallocated (cJSON.h:156).
HeapIsKept ==
  /\ stage \in {"parsed", "refused", "read"} =>
       outcome.live = IF outcome.ok THEN Blocks(outcome.item) ELSE 0
  /\ ~outcome.over
  /\ (stage = "printed" /\ outcome.slack >= 5) => outcome.ok
=============================================================================
