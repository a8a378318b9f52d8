------------------------------ MODULE AsmHttp ------------------------------
(***************************************************************************)
(* The functions of src/src/utils/asm/asm_opt.c that work on HTTP text:    *)
(* finding the end of a header, splitting a header line, recognising a     *)
(* method, the codecs and the response writers, over the byte functions of *)
(* AsmMemory.  A text is a sequence; a character that no test of the code  *)
(* tells apart is one model value, and a fixed word ("HTTP/1.1 ") is one   *)
(* element that stands for its Len bytes.                                  *)
(***************************************************************************)
EXTENDS AsmMemory

CONSTANTS Triples  \* triples of bytes in a block of the base64 loops; 4

ASSUME TriplesAssumption == Triples \in Nat \ {0}

CR == "CR"
LF == "LF"
HeaderEnd == <<CR, LF, CR, LF>>
Stride == 8
Overread == "overread"  \* the outcome depends on memory that is not the text

EndAt(b, i) == /\ i + 3 < Len(b)
               /\ SubSeq(b, i + 1, i + 4) = HeaderEnd

\* Mutant: the hit in a chunk is taken at the chunk's start
find_http_header_endCoarse(b, neon) ==
  LET hits == {k \in 0 .. Len(b) \div Stride - 1 : EndAt(b, k * Stride) \/ EndAt(b, k * Stride + 1)}
      any == {i \in 0 .. Len(b) - 4 : EndAt(b, i)}
  IN IF neon /\ hits # {} THEN Min(hits) * Stride + 4
     ELSE IF any # {} THEN Min(any) + 4 ELSE NotFound

\* The fast loop looks at offsets 0 and 1 of each whole chunk only; what it
\* misses is found by the simple search, from the beginning of the buffer.
\* The bound of that search, len - 3, wraps for a text of less than three bytes:
\* the search runs on behind the buffer, and what lies there decides
asm_opt_find_http_header_end(b, neon) ==
  LET hits == {k \in 0 .. Len(b) \div Stride - 1 : EndAt(b, k * Stride) \/ EndAt(b, k * Stride + 1)}
      inChunk == {i \in Min(hits) * Stride .. Min(hits) * Stride + Stride - 1 : EndAt(b, i)}
      any == {i \in 0 .. Len(b) - 4 : EndAt(b, i)}
  IN IF Len(b) < 3 THEN Overread
     ELSE IF neon /\ hits # {} THEN Min(inChunk) + 4
     ELSE IF any # {} THEN Min(any) + 4 ELSE NotFound

Blank == {"SP", "TAB"}
Refused == [key |-> <<>>, value |-> <<"refused">>]

\* Refused, or what is stored through the two pointers.  h holds the header and
\* the text behind it, len is the length of the header; an allocation that
\* fails frees the other one.
asm_opt_parse_http_header(h, len, allocated) ==
  LET colons == {i \in 1 .. Len(h) : h[i] = ":"}
      colon == Min(colons)
      start == Min({i \in colon + 1 .. len : h[i] \notin Blank} \cup {len + 1})
      stop == Min({i \in start .. len : h[i] \in {CR, LF}} \cup {len + 1})
      end == Max({i \in start .. stop - 1 : h[i] \notin Blank} \cup {start - 1})
  IN IF len = 0 \/ colons = {} \/ colon > len \/ ~allocated THEN Refused
     ELSE [key |-> SubSeq(h, 1, colon - 1), value |-> SubSeq(h, start, end)]

-----------------------------------------------------------------------------
Methods == <<"GET", "POST", "PUT", "DELETE", "HEAD", "OPTIONS">>

IndexOf(words, w) == LET I == {i \in DOMAIN words : words[i] = w}
                     IN IF I = {} THEN 0 ELSE Min(I)

asm_opt_validate_http_method(w) == w \in ToSet(Methods)

\* The words the 64-bit constants of the fast path spell; the fourth one is
\* not DELETE
MethodWords == <<"GET", "POST", "PUT", "LEDETE", "HEAD", "OPTIONS">>

asm_opt_fast_http_method_detect(w, neon) ==
  IF neon THEN IndexOf(MethodWords, w) ELSE IndexOf(Methods, w)

-----------------------------------------------------------------------------
\* base64: a character is its sextet, Pad is "=", HighByte any byte from 0xE0 on
\* and every other value a character the decode table has -1 for.  The table
\* writes 14 of its 16 rows; the last two are zero, so that a HighByte reads
\* as the character of sextet 0.  Both functions refuse with 0, which is the
\* empty text here.

Pad == 64
HighByte == 65
base64_decode_table(c) == IF c = HighByte THEN 0 ELSE c
Sextets(a, b, c) == <<a \div 4, (a % 4) * 16 + b \div 16, (b % 16) * 4 + c \div 64, c % 64>>
Octets(p, q, r, s) == <<p * 4 + q \div 16, (q % 16) * 16 + r \div 4, (r % 4) * 64 + s>>

EncodeTriples(x, from, to) ==
  FlattenSeq([k \in 1 .. (to - from + 1) \div 3 |->
    LET i == from + 3 * (k - 1) IN Sextets(x[i], x[i + 1], x[i + 2])])

asm_opt_base64_encode(x, room, neon) ==
  LET n == Len(x)
      blocks == IF neon THEN Whole(n, 3 * Triples) ELSE 0
      whole == blocks + Whole(n - blocks, 3)
      tail == CASE n - whole = 0 -> <<>>
                [] n - whole = 1 -> SubSeq(Sextets(x[n], 0, 0), 1, 2) \o <<Pad, Pad>>
                [] n - whole = 2 -> SubSeq(Sextets(x[n - 1], x[n], 0), 1, 3) \o <<Pad>>
  IN IF room < ((n + 2) \div 3) * 4 + 1 THEN <<>>
     ELSE EncodeTriples(x, 1, blocks) \o EncodeTriples(x, blocks + 1, whole) \o tail

\* Two or three characters left over give one or two bytes; one gives none
DecodeTail(y, n, whole) ==
  CASE n - whole <= 1 -> <<>>
    [] n - whole = 2 -> SubSeq(Octets(y[n - 1], y[n], 0, 0), 1, 1)
    [] n - whole = 3 -> SubSeq(Octets(y[n - 2], y[n - 1], y[n], 0), 1, 2)

DecodedText(y, room, neon) ==
  LET n == Max({0} \cup {i \in DOMAIN y : y[i] # Pad})
      blocks == IF neon THEN Whole(n, 4 * Triples) ELSE 0
      whole == blocks + Whole(n - blocks, 4)
      group(k) == LET i == 4 * (k - 1) IN Octets(y[i + 1], y[i + 2], y[i + 3], y[i + 4])
      read == IF n - whole = 1 THEN whole ELSE n
  IN IF room < (n * 3) \div 4 \/ \E i \in 1 .. read : y[i] \notin 0 .. 63 THEN <<>>
     ELSE FlattenSeq([k \in 1 .. whole \div 4 |-> group(k)]) \o DecodeTail(y, n, whole)

asm_opt_base64_decode(y, room, neon) ==
  DecodedText([i \in DOMAIN y |-> base64_decode_table(y[i])], room, neon)

-----------------------------------------------------------------------------
\* Characters of a URL are their ASCII codes

Percent == 37
Plus == 43
Space == 32

HexValue(c) == CASE c \in 48 .. 57 -> c - 48
                 [] c \in 65 .. 70 -> c - 55
                 [] c \in 97 .. 102 -> c - 87
                 [] OTHER -> -1

EscapeAt(t, i) == /\ i + 2 <= Len(t)
                  /\ t[i] = Percent
                  /\ HexValue(t[i + 1]) >= 0 /\ HexValue(t[i + 2]) >= 0
Escaped(t, i) == 16 * HexValue(t[i + 1]) + HexValue(t[i + 2])

\* The character loop, by how many characters remain: it writes one for each
\* round, and no more than room in all
DecodeChars(t, room) ==
  LET from[k \in 0 .. Len(t)] ==
        LET i == Len(t) - k + 1
        IN IF k = 0 THEN <<>>
           ELSE IF EscapeAt(t, i) THEN <<Escaped(t, i)>> \o from[k - 3]
           ELSE <<IF t[i] = Plus THEN Space ELSE t[i]>> \o from[k - 1]
      all == from[Len(t)]
  IN SubSeq(all, 1, Min({Len(all), room}))

\* Vectors without a "%" are copied as they are, whatever the room, and a "+"
\* in them stays; a text shorter than one vector is not decoded at all
asm_opt_simd_url_decode(t, room, neon) ==
  LET n == Len(t)
      escaped == {k \in 0 .. n \div Vector - 1 :
                    \E i \in k * Vector + 1 .. (k + 1) * Vector : t[i] = Percent}
      plain == Vector * Min(escaped \cup {n \div Vector})
  IN IF ~neon \/ n < Vector THEN <<>>
     ELSE SubSeq(t, 1, plain) \o DecodeChars(SubSeq(t, plain + 1, n), room - 1 - plain)

-----------------------------------------------------------------------------
\* Writers: what they put into the buffer, as words and digits, which for the
\* first three is what snprintf, their other path, would put there.  Only
\* asm_opt_write_http_header compares its text with the size of the buffer.

StatusDigits(code) == <<code \div 100, (code \div 10) % 10, code % 10>>

asm_opt_generate_status_response(code, reason) ==
  <<"HTTP/1.1 ">> \o StatusDigits(code) \o <<"SP">> \o reason \o <<CR, LF>>

asm_opt_simd_generate_status_line(code, reason) ==
  <<"HTTP/1.1 ">> \o StatusDigits(code) \o <<"SP">> \o reason \o <<CR, LF>>

\* A text that does not fit is refused, or cut off by snprintf
asm_opt_write_http_header(name, value, size, neon) ==
  LET line == name \o <<":", "SP">> \o value \o <<CR, LF>>
  IN IF neon /\ size >= Block
     THEN IF Len(line) > size THEN <<>> ELSE line
     ELSE SubSeq(line, 1, Min({Len(line), size - 1}))

\* The digits are produced from the last one, then reversed
DigitsFromLast[n \in Nat] == IF n = 0 THEN <<>> ELSE <<n % 10>> \o DigitsFromLast[n \div 10]

asm_opt_generate_content_length_header(n) ==
  <<"Content-Length: ">> \o (IF n = 0 THEN <<0>> ELSE Reverse(DigitsFromLast[n])) \o <<CR, LF>>
=============================================================================
