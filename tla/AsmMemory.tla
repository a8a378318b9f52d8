----------------------------- MODULE AsmMemory -----------------------------
(***************************************************************************)
(* The memory and string functions of src/src/utils/asm/asm_opt.c, with    *)
(* the block structure of their aarch64 bodies: which bytes are moved or   *)
(* compared together, how many are left for the byte loop, where a string  *)
(* function stops.  A machine instruction is what it does to the bytes.    *)
(*                                                                         *)
(* Memory is a function from addresses to bytes; address 0 is aligned.     *)
(* The widths of the code are parameters: Word is its 8-byte general       *)
(* register, Vector its 16-byte NEON register and Block the 64 bytes of    *)
(* four of them.  Only their order and divisibility matter to the loops.   *)
(* neon says whether cpu_features has the NEON bit, which it has not until *)
(* detect_cpu_features has run; without it the code calls the C library.   *)
(***************************************************************************)
EXTENDS Integers, SequencesExt, FiniteSetsExt

CONSTANTS Word, Vector, Block

ASSUME Widths ==
  /\ {Word, Vector, Block} \subseteq Nat \ {0}
  /\ Word % 2 = 0 /\ Word <= Vector /\ Vector < Block /\ Block % Vector = 0

NUL == 0
NotFound == -1

\* A whole word may be read past the end of a string: what it finds there is
\* no byte of the instance
Past == -2
At(m, i) == IF i \in DOMAIN m THEN m[i] ELSE Past

Bytes(m, p, k) == [i \in 0 .. k - 1 |-> At(m, p + i)]

\* memcpy of the C library: k bytes read, then written
Moved(m, d, s, k) ==
  [i \in DOMAIN m |-> IF i \in d .. d + k - 1 THEN m[s + i - d] ELSE m[i]]

Filled(m, d, c, k) ==
  [i \in DOMAIN m |-> IF i \in d .. d + k - 1 THEN c ELSE m[i]]

\* The loop "while (n >= k)" over k-byte units going up
CopyUp(m, d, s, n, k) ==
  LET after[b \in 0 .. n \div k] ==
        IF b = 0 THEN m ELSE Moved(after[b - 1], d + (b - 1) * k, s + (b - 1) * k, k)
  IN after[n \div k]

\* The same loop going down from the end of both buffers
CopyDown(m, d, s, n, k) ==
  LET after[b \in 0 .. n \div k] ==
        IF b = 0 THEN m ELSE Moved(after[b - 1], d + n - b * k, s + n - b * k, k)
  IN after[n \div k]

Whole(n, k) == (n \div k) * k

\* Bytes before d is aligned to a vector, at most n
Unaligned(d, n) == Min({(Vector - (d % Vector)) % Vector, n})

asm_opt_memcpy(m, d, s, n, neon) ==
  IF neon /\ n >= Block
  THEN LET a == Unaligned(d, n)
           b == a + Whole(n - a, Block)
           head == CopyUp(m, d, s, a, 1)
           body == CopyUp(head, d + a, s + a, n - a, Block)
       IN CopyUp(body, d + b, s + b, n - b, 1)
  ELSE Moved(m, d, s, n)

asm_opt_memset(m, d, c, n, neon) ==
  IF neon /\ n >= Block
  THEN LET a == Unaligned(d, n)
           b == Whole(n - a, Block)
       IN Filled(Filled(Filled(m, d, c, a), d + a, c, b), d + a + b, c, n - a - b)
  ELSE Filled(m, d, c, n)

\* Mutant: the backward loop starts without moving both ends past the buffers
memmoveAsForward(m, d, s, n, neon) == CopyUp(m, d, s, n, 1)

asm_opt_memmove(m, d, s, n, neon) ==
  IF ~neon \/ n < Block THEN Moved(m, d, s, n)
  ELSE IF d > s /\ d < s + n
  THEN LET b == Whole(n, Block)
           body == CopyDown(m, d + n - b, s + n - b, b, Block)
       IN CopyDown(body, d, s, n - b, 1)
  ELSE asm_opt_memcpy(m, d, s, n, neon)

asm_opt_simd_zero_buffer(m, d, n, neon) ==
  IF neon /\ n >= Block
  THEN LET b == Whole(n, Block)
           v == b + Whole(n - b, Vector)
       IN Filled(Filled(Filled(m, d, 0, b), d + b, 0, v - b), d + v, 0, n - v)
  ELSE asm_opt_memset(m, d, 0, n, neon)

\* <<memory, the count returned>>
asm_opt_network_buffer_copy(m, d, s, n, neon) ==
  IF neon /\ n >= 2 * Block
  THEN LET b == Whole(n, 2 * Block)
           body == CopyUp(m, d, s, n, 2 * Block)
       IN <<asm_opt_memcpy(body, d + b, s + b, n - b, neon), b + (n - b)>>
  ELSE <<asm_opt_memcpy(m, d, s, n, neon), n>>

\* The first place where two buffers differ below n, n when there is none
FirstDiff(m, p, q, n) == Min({i \in 0 .. n - 1 : m[p + i] # m[q + i]} \cup {n})

asm_opt_memcmp(m, p, q, n, neon) ==
  LET unit == IF neon /\ n >= Vector THEN Whole(n, Vector) ELSE 0
      vectors == {b \in 0 .. unit \div Vector - 1 :
                    Bytes(m, p + b * Vector, Vector) # Bytes(m, q + b * Vector, Vector)}
      from == IF vectors # {} THEN Min(vectors) * Vector ELSE unit
      i == from + FirstDiff(m, p + from, q + from, n - from)
  IN IF i = n THEN 0 ELSE m[p + i] - m[q + i]

-----------------------------------------------------------------------------
\* Strings: every function below reads whole words until one holds a NUL

HasByte(m, p, c) == \E i \in 0 .. Word - 1 : At(m, p + i) = c

\* The first word at or after p that satisfies Stop, as its address
FirstWord(m, p, Stop(_)) ==
  p + Word * Min({w \in 0 .. Cardinality(DOMAIN m) \div Word : Stop(p + w * Word)})

\* The byte loop "while (*ptr != 0) ptr++"
FirstFrom(m, p, c) == Min({i \in DOMAIN m : i >= p /\ m[i] = c})

asm_opt_strlen(m, p) ==
  FirstFrom(m, FirstWord(m, p, LAMBDA a : HasByte(m, a, NUL)), NUL) - p

asm_opt_strcmp(m, p, q) ==
  LET off(a) == q + (a - p)
      w == FirstWord(m, p, LAMBDA a : \/ Bytes(m, a, Word) # Bytes(m, off(a), Word)
                                      \/ HasByte(m, a, NUL))
  IN IF Bytes(m, w, Word) = Bytes(m, off(w), Word) THEN 0
     ELSE LET i == Min({j \in DOMAIN m : /\ j >= w
                                         /\ m[j] # At(m, off(j)) \/ m[j] = NUL})
          IN m[i] - m[off(i)]

asm_opt_strncmp(m, p, q, n) ==
  LET words == n \div Word
      stop == {b \in 0 .. words - 1 :
                 \/ Bytes(m, p + b * Word, Word) # Bytes(m, q + b * Word, Word)
                 \/ HasByte(m, p + b * Word, NUL)}
      from == IF stop # {} THEN Min(stop) * Word ELSE words * Word
      to == IF stop # {} THEN from + Word ELSE n
      ends == {i \in from .. to - 1 : m[p + i] # m[q + i] \/ m[p + i] = NUL}
  IN IF ends = {} THEN 0
     ELSE m[p + Min(ends)] - m[q + Min(ends)]

asm_opt_strcpy(m, d, s) ==
  LET w == FirstWord(m, s, LAMBDA a : HasByte(m, a, NUL))
      body == CopyUp(m, d, s, w - s, Word)
  IN CopyUp(body, d + w - s, w, FirstFrom(m, w, NUL) + 1 - w, 1)

\* The terminator is copied without being counted, so the padding that
\* follows it writes one byte more than n
asm_opt_strncpy(m, d, s, n) ==
  LET len == FirstFrom(m, s, NUL) - s
  IN IF len >= n THEN CopyUp(CopyUp(m, d, s, n, Word), d + Whole(n, Word),
                             s + Whole(n, Word), n - Whole(n, Word), 1)
     ELSE Filled(Moved(m, d, s, len), d + len, NUL, n - len + 1)

asm_opt_strchr(m, p, c) ==
  LET w == FirstWord(m, p, LAMBDA a : HasByte(m, a, c) \/ HasByte(m, a, NUL))
      i == Min({j \in w .. w + Word - 1 : m[j] = c \/ m[j] = NUL})
  IN IF m[i] = c THEN i ELSE NotFound

asm_opt_strrchr(m, p, c) ==
  LET w == FirstWord(m, p, LAMBDA a : HasByte(m, a, NUL))
      hits == {i \in p .. w - 1 : m[i] = c}
                \cup {i \in w .. FirstFrom(m, w, NUL) - 1 : m[i] = c}
  IN IF hits = {} THEN NotFound ELSE Max(hits)

-----------------------------------------------------------------------------
\* Search in a buffer.  The code compares the first four bytes (half a word) of
\* the pattern at every fourth offset, then falls back to the simple search.

Quad == Word \div 2

MatchAt(m, b, pat, i) == \A j \in 1 .. Len(pat) : m[b + i + j - 1] = pat[j]

asm_opt_buffer_find(m, b, blen, pat, neon) ==
  LET last == blen - Len(pat)
      aligned == {i \in 0 .. last : i % Quad = 0 /\ MatchAt(m, b, pat, i)}
      any == {i \in 0 .. last : MatchAt(m, b, pat, i)}
  IN IF Len(pat) = 0 \/ Len(pat) > blen THEN NotFound
     ELSE IF neon /\ Len(pat) >= Quad /\ aligned # {} THEN Min(aligned)
     ELSE IF any # {} THEN Min(any) ELSE NotFound

\* strstr of the C library
FirstMatch(m, h, len, pat) ==
  LET any == {i \in 0 .. len - Len(pat) : MatchAt(m, h, pat, i)}
  IN IF any = {} THEN NotFound ELSE Min(any)

asm_opt_strstr(m, h, pat, neon) ==
  IF Len(pat) = 0 THEN 0
  ELSE IF Len(pat) >= Quad /\ neon
  THEN asm_opt_buffer_find(m, h, asm_opt_strlen(m, h), pat, neon)
  ELSE FirstMatch(m, h, asm_opt_strlen(m, h), pat)

-----------------------------------------------------------------------------
\* Arrays of 4-byte numbers: Lanes of them in a vector, PerBlock in a block

Lanes == Vector \div Quad
PerBlock == Block \div Quad

SumOf(a, I) == SumFunctionOnSet(a, I)

\* Every lane accumulates its own column of the blocks, then the lanes and
\* what is left of the array are added
asm_opt_simd_sum_array(a, neon) ==
  LET n == Len(a)
      b == IF neon /\ n >= PerBlock THEN Whole(n, PerBlock) ELSE 0
      lanes == [l \in 0 .. PerBlock - 1 |-> SumOf(a, {i \in 1 .. b : (i - 1) % PerBlock = l})]
  IN SumFunction(lanes) + SumOf(a, b + 1 .. n)

\* Every vector starts as the first Lanes elements of the array
asm_opt_simd_max_array(a, neon) ==
  LET n == Len(a)
      b == IF neon /\ n >= PerBlock THEN Whole(n, PerBlock) ELSE 0
      lane(l) == Max({a[(l % Lanes) + 1]}
                     \cup {a[i] : i \in {j \in 1 .. b : (j - 1) % PerBlock = l}})
  IN Max({0} \cup (IF b > 0 THEN {lane(l) : l \in 0 .. PerBlock - 1} ELSE {})
             \cup {a[i] : i \in b + 1 .. n})

-----------------------------------------------------------------------------
\* Byte order: a number as its bytes, the most significant first

asm_opt_htons(x) == Reverse(x)
asm_opt_htonl(x) == Reverse(x)
=============================================================================
