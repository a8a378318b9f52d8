------------------------------ MODULE AsmCalls ------------------------------
(***************************************************************************)
(* One call of a function of AsmMemory or AsmHttp on one input of a small  *)
(* set, with and without NEON, and what the call must return: the C        *)
(* library's answer, computed from the definition of the function and not  *)
(* from its loops.  The functions keep no state, so a call is one step.    *)
(***************************************************************************)
EXTENDS AsmHttp

CONSTANTS MaxLen,   \* bound on the length of a string or of a text
          MaxMove   \* bound on the number of bytes of a memory call

ASSUME CallBounds == MaxLen \in Nat /\ MaxMove \in Nat \ {0}

VARIABLE call  \* [fn, in, out], the last call

Called(fn, in, out) == call' = [fn |-> fn, in |-> in, out |-> out]

\* Inputs
Letters == {1, 2}
Strings == UNION {[1 .. n -> Letters] : n \in 0 .. MaxLen}
Room == 2 * MaxMove
Ramp == [i \in 0 .. Room - 1 |-> i]

\* Two strings in one memory, each with its NUL and a byte behind it
Behind == MaxLen + 2
Put(m, p, s) == [i \in DOMAIN m |-> IF i - p + 1 \in DOMAIN s THEN s[i - p + 1]
                                    ELSE IF i = p + Len(s) THEN NUL ELSE m[i]]
Texts(s, t) == Put(Put([i \in 0 .. 2 * Behind - 1 |-> 1], 0, s), Behind, t)

CallMemory ==
  \E n \in 0 .. MaxMove, d, s \in 0 .. MaxMove, neon \in BOOLEAN :
    /\ d + n <= Room /\ s + n <= Room
    /\ \/ Called("memmove", <<d, s, n>>, asm_opt_memmove(Ramp, d, s, n, neon))
       \/ /\ d + n <= s \/ s + n <= d
          /\ \/ Called("memcpy", <<d, s, n>>, asm_opt_memcpy(Ramp, d, s, n, neon))
             \/ Called("buffer_copy", <<d, s, n>>, asm_opt_network_buffer_copy(Ramp, d, s, n, neon))
       \/ s = 0 /\ Called("memset", <<d, Room, n>>, asm_opt_memset(Ramp, d, Room, n, neon))
       \/ s = 0 /\ Called("memset", <<d, 0, n>>, asm_opt_simd_zero_buffer(Ramp, d, n, neon))

\* One changed byte in a copy of 0 .. Behind - 1, or none
CallCompare ==
  \E n \in 0 .. MaxMove, at \in 0 .. MaxMove, x \in {0, Room}, neon \in BOOLEAN :
    LET m == [i \in 0 .. Room - 1 |-> IF i = at THEN x ELSE i % MaxMove]
    IN Called("memcmp", <<m, 0, MaxMove, n>>, asm_opt_memcmp(m, 0, MaxMove, n, neon))

CallArray ==
  \E n \in 1 .. 3 * PerBlock, k \in 1 .. 3 * PerBlock, neon \in BOOLEAN :
    LET a == [i \in 1 .. n |-> IF i = k THEN 3 * PerBlock ELSE i]
    IN \/ Called("sum", a, asm_opt_simd_sum_array(a, neon))
       \/ Called("max", a, asm_opt_simd_max_array(a, neon))

CallString ==
  \E s \in Strings, c \in Letters \cup {NUL}, n \in 0 .. MaxLen :
    LET m == Texts(s, <<>>) IN
    \/ n = 0 /\ c = NUL /\ Called("strlen", s, asm_opt_strlen(m, 0))
    \/ n = 0 /\ Called("strchr", <<s, c>>, asm_opt_strchr(m, 0, c))
    \/ n = 0 /\ Called("strrchr", <<s, c>>, asm_opt_strrchr(m, 0, c))
    \/ n = 0 /\ c = NUL /\ Called("strcpy", s, asm_opt_strcpy(Texts(s, <<>>), Behind, 0))
    \/ c = NUL /\ Called("strncpy", <<s, n>>, asm_opt_strncpy(Texts(s, <<>>), Behind, 0, n))

CallTwoStrings ==
  \E s, t \in Strings, n \in 0 .. MaxLen, neon \in BOOLEAN :
    LET m == Texts(s, t) IN
    \/ n = 0 /\ ~neon /\ Called("strcmp", <<s, t>>, asm_opt_strcmp(m, 0, Behind))
    \/ ~neon /\ Called("strncmp", <<s, t, n>>, asm_opt_strncmp(m, 0, Behind, n))
    \/ n = 0 /\ Called("strstr", <<s, t, neon>>, asm_opt_strstr(m, 0, t, neon))
    \/ n = 0 /\ Called("find", <<s, t, neon>>, asm_opt_buffer_find(m, 0, Len(s), t, neon))

\* Pieces of a request: text, line ends and header ends, in any order
Pieces == {<<"x">>, <<CR, LF>>, <<CR, LF, CR, LF>>}
CallHeaderEnd ==
  \E n \in 1 .. MaxLen + 1, neon \in BOOLEAN : \E p \in [1 .. n -> Pieces] :
    LET b == FlattenSeq(p) IN
    Called("header_end", b, asm_opt_find_http_header_end(b, neon))

CallHeaderLine ==
  \E h \in [1 .. MaxLen -> {"x", ":", "SP", CR}], len \in 0 .. MaxLen, allocated \in BOOLEAN :
    Called("header", <<h, len, allocated>>, asm_opt_parse_http_header(h, len, allocated))

CallMethod ==
  \E w \in ToSet(Methods) \cup ToSet(MethodWords) \cup {"PATCH"}, neon \in BOOLEAN :
    \/ Called("method", w, asm_opt_fast_http_method_detect(w, neon))
    \/ Called("known", w, asm_opt_validate_http_method(w))

\* One character of an encoded text exchanged for a foreign one, which is or
\* is not among the last 32 of the table
CallForeign(y, i, room, neon) ==
  \/ Called("refuse", y, asm_opt_base64_decode([y EXCEPT ![i] = -1], room, neon))
  \/ Called("high", <<[y EXCEPT ![i] = 0], room, neon>>,
            asm_opt_base64_decode([y EXCEPT ![i] = HighByte], room, neon))

CallBase64 ==
  \E n \in 0 .. 3 * MaxLen - 2, a, b \in {0, 77, 255}, neon \in BOOLEAN :
    LET x == [i \in 1 .. n |-> IF i % 2 = 0 THEN a ELSE b]
        y == asm_opt_base64_encode(x, 4 * n + 5, neon)
    IN \/ Called("encode", x, y)
       \/ Called("decode", x, asm_opt_base64_decode(y, 3 * n, ~neon))
       \/ \E i \in DOMAIN y : y[i] # Pad /\ CallForeign(y, i, 3 * n, neon)

CallUrl ==
  \E n \in 0 .. MaxLen, neon \in BOOLEAN : \E t \in [1 .. n -> {Percent, Plus, 48, 102, 120}] :
    Called("url", <<t, neon>>, asm_opt_simd_url_decode(t, MaxLen + 2, neon))

CallStatus ==
  \E code \in {100, 200, 304, 404, 599} :
    \/ Called("status", code, asm_opt_generate_status_response(code, <<"reason">>))
    \/ Called("status", code, asm_opt_simd_generate_status_line(code, <<"reason">>))

CallLength ==
  \E n \in {0, 9, 10, 101, 65536} : Called("length", n, asm_opt_generate_content_length_header(n))

CallWrite ==
  \E a, b, size \in 0 .. MaxLen + 5, neon \in BOOLEAN :
    LET name == [i \in 1 .. a |-> "n"]
        value == [i \in 1 .. b |-> "v"]
    IN Called("write", size, asm_opt_write_http_header(name, value, size, neon))

CallOrder ==
  \/ \E x \in [1 .. 2 -> 0 .. 3] : Called("order", x, asm_opt_htons(asm_opt_htons(x)))
  \/ \E x \in [1 .. 4 -> 0 .. 1] : Called("order", x, asm_opt_htonl(asm_opt_htonl(x)))

CallInit == call = [fn |-> "none", in |-> <<>>, out |-> <<>>]

CallNext == call.fn = "none" /\
  \/ CallMemory \/ CallCompare \/ CallArray \/ CallString \/ CallTwoStrings
  \/ CallHeaderEnd \/ CallHeaderLine \/ CallMethod \/ CallBase64 \/ CallUrl
  \/ CallStatus \/ CallLength \/ CallWrite \/ CallOrder

CallSpec == CallInit /\ [][CallNext]_call

-----------------------------------------------------------------------------
\* What the C library answers

Cut(s, n) == SubSeq(s, 1, Min({n, Len(s)}))
Terminated(s) == Append(s, NUL)

\* The sign of the first difference of two strings
Order(s, t) ==
  LET D == {i \in 1 .. Min({Len(s), Len(t)}) + 1 : Terminated(s)[i] # Terminated(t)[i]}
  IN IF D = {} THEN 0 ELSE Terminated(s)[Min(D)] - Terminated(t)[Min(D)]

Matches(s, t) == {i \in 0 .. Len(s) - Len(t) : SubSeq(s, i + 1, i + Len(t)) = t}

\* The first of the matches M of a pattern of len characters; with NEON and a
\* pattern of four or more it may be a later one, which then is the first at
\* a multiple of four
Found(out, M, len, neon) ==
  /\ out \in M
  /\ \/ out = Min(M)
     \/ /\ neon /\ len >= Quad /\ out % Quad = 0
        /\ \A i \in M : i < out => i % Quad # 0

Positions(s, c) == {i \in DOMAIN s : s[i] = c}

\* The decoded text, from its last character to its first
UrlText(t) ==
  LET from[k \in 0 .. Len(t)] ==
        LET i == Len(t) - k + 1
        IN IF k = 0 THEN <<>>
           ELSE IF EscapeAt(t, i) THEN <<Escaped(t, i)>> \o from[k - 3]
           ELSE <<t[i]>> \o from[k - 1]
  IN from[Len(t)]

Trim(s) == LET I == {i \in DOMAIN s : s[i] \notin Blank}
           IN IF I = {} THEN <<>> ELSE SubSeq(s, Min(I), Max(I))

\* The number that digits spell
Number(d) ==
  LET upTo[i \in 0 .. Len(d)] == IF i = 0 THEN 0 ELSE 10 * upTo[i - 1] + d[i]
  IN upTo[Len(d)]

-----------------------------------------------------------------------------
\* The memory functions: whatever the length, the alignment, the overlap and the blocks it takes,
\* a memory function does to the bytes what the C library's does: the head,
\* the blocks and the tail of its loops meet without a gap and without one
\* byte too many, and asm_opt_memmove never reads a byte it has overwritten.
MemoryRight ==
  LET in == call.in  out == call.out IN
  CASE call.fn \in {"memcpy", "memmove"} -> out = Moved(Ramp, in[1], in[2], in[3])
    [] call.fn = "buffer_copy" -> out = <<Moved(Ramp, in[1], in[2], in[3]), in[3]>>
    [] call.fn = "memset" -> out = Filled(Ramp, in[1], in[2], in[3])
    [] call.fn = "memcmp" ->
         LET D == {i \in 0 .. in[4] - 1 : in[1][in[2] + i] # in[1][in[3] + i]}
         IN out = IF D = {} THEN 0 ELSE in[1][in[2] + Min(D)] - in[1][in[3] + Min(D)]
    [] call.fn = "sum" -> out = SumOf(in, DOMAIN in)
    [] call.fn = "max" -> out = Max(Range(in))
    [] OTHER -> TRUE

\* The string functions: one that reads a word at a time stops at the NUL in the
\* middle of a word and ignores what the word holds behind it.  Three
\* exceptions the code has: asm_opt_strrchr does not find the NUL itself;
\* asm_opt_strncpy pads one byte too far when the string is shorter than n;
\* and with NEON asm_opt_strstr and asm_opt_buffer_find report the first
\* match at a multiple of four bytes when there is one, also when another
\* match comes before it.
TextRight ==
  LET in == call.in  out == call.out IN
  CASE call.fn = "strlen" -> out = Len(in)
    [] call.fn = "strchr" ->
         LET P == Positions(Terminated(in[1]), in[2])
         IN out = IF P = {} THEN NotFound ELSE Min(P) - 1
    [] call.fn = "strrchr" -> in[2] # NUL => out = Max(Positions(in[1], in[2]) \cup {0}) - 1
    [] call.fn = "strcpy" -> out = Texts(in, in)
    [] call.fn = "strncpy" ->
         LET s == in[1]  n == in[2] IN
         /\ \A i \in 1 .. n : out[Behind + i - 1] = IF i \in DOMAIN s THEN s[i] ELSE NUL
         /\ \A i \in DOMAIN out \ (Behind .. Behind + n) : out[i] = Texts(s, <<>>)[i]
         /\ Len(s) >= n => out[Behind + n] = Texts(s, <<>>)[Behind + n]
    [] call.fn = "strcmp" -> out = Order(in[1], in[2])
    [] call.fn = "strncmp" -> out = Order(Cut(in[1], in[3]), Cut(in[2], in[3]))
    [] call.fn = "strstr" ->
         IF Matches(in[1], in[2]) = {} THEN out = NotFound
         ELSE Found(out, Matches(in[1], in[2]), Len(in[2]), in[3])
    [] call.fn = "find" ->
         IF in[2] = <<>> \/ Matches(in[1], in[2]) = {} THEN out = NotFound
         ELSE Found(out, Matches(in[1], in[2]), Len(in[2]), in[3])
    [] OTHER -> TRUE

\* What the memory and string functions do is what the C library's do, in spite
\* of the blocks and words they work in, but for the three exceptions of TextRight.
BytesRight == MemoryRight /\ TextRight

\* The HTTP functions: a header end is reported where one is and missed
\* nowhere, though not always the first one, in a text of three bytes or more;
\* a header line is cut at its first colon and trimmed; what is encoded is
\* decoded to itself, and a foreign character below 0xE0 refuses the whole
\* text, where one from 0xE0 on is read as an "A"; an escaped text without plus
\* signs is decoded wherever its escapes fall in the vectors; the numbers
\* written are the numbers given.  The fast path knows every method but DELETE.
HttpRight ==
  LET in == call.in  out == call.out IN
  CASE call.fn = "header_end" ->
         LET E == {i + 4 : i \in Matches(in, HeaderEnd)}
         IN Len(in) >= 3 => IF E = {} THEN out = NotFound ELSE out \in E
    [] call.fn = "header" ->
         LET line == Cut(in[1], in[2])
             colon == Min(Positions(line, ":"))
             ends == {i \in DOMAIN line : line[i] \in {CR, LF} /\ i > colon}
             stop == Min(ends \cup {Len(line) + 1})
         IN out = IF Positions(line, ":") = {} \/ ~in[3] THEN Refused
                  ELSE [key |-> Cut(line, colon - 1),
                        value |-> Trim(SubSeq(line, colon + 1, stop - 1))]
    [] call.fn = "method" -> in \notin {"DELETE", "LEDETE"} => out = IndexOf(Methods, in)
    [] call.fn = "known" -> out = (in \in ToSet(Methods))
    [] call.fn = "encode" -> Len(out) = ((Len(in) + 2) \div 3) * 4
    [] call.fn = "decode" -> out = in
    [] call.fn = "refuse" -> out = <<>>
    [] call.fn = "high" -> out = asm_opt_base64_decode(in[1], in[2], in[3])
    [] call.fn = "url" ->
         IF ~in[2] \/ Len(in[1]) < Vector THEN out = <<>>
         ELSE Positions(in[1], Plus) = {} => out = UrlText(in[1])
    [] call.fn = "status" -> Number(SubSeq(out, 2, 4)) = in
    [] call.fn = "length" -> Number(SubSeq(out, 2, Len(out) - 2)) = in
    [] call.fn = "write" -> Len(out) <= in
    [] call.fn = "order" -> out = in
    [] OTHER -> TRUE
=============================================================================
