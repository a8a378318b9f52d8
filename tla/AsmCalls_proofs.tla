--------------------------- MODULE AsmCalls_proofs ---------------------------
(***************************************************************************)
(* Theorems of the assembly routines, for every width of word, vector and  *)
(* block, every memory and every text: what the loops of a routine do      *)
(* together is what the C library's definition says.                       *)
(***************************************************************************)
EXTENDS AsmCalls, Collections, SequenceTheorems

------------------------------------------------------------------------------
(* Blocks and what is left over                                            *)

\* Products and their order.
LEMMA Products ==
    /\ \A a, b \in Nat : a * b \in Nat /\ a * b = b * a
    /\ \A a, b, c \in Nat : a <= b => a * c <= b * c
    /\ \A a, c \in Nat : (a + 1) * c = a * c + c
BY Z3

\* The whole blocks of n bytes.
LEMMA WholeIs ==
    ASSUME NEW n \in Nat, NEW k \in Nat \ {0}
    PROVE  /\ n \div k \in Nat /\ Whole(n, k) = (n \div k) * k
           /\ Whole(n, k) \in 0 .. n /\ n - Whole(n, k) < k
           /\ \A b \in 0 .. n \div k : b * k \in 0 .. Whole(n, k)
<1>1. n \div k \in Nat /\ (n \div k) * k <= n /\ n - (n \div k) * k < k
  BY Z3
<1>2. (n \div k) * k \in Nat
  BY <1>1, Products
<1>3. \A b \in 0 .. n \div k : b * k \in Nat /\ b * k <= (n \div k) * k
  BY <1>1, Products
<1>4. QED
  BY <1>1, <1>2, <1>3 DEF Whole

\* One byte after the other
LEMMA WholeOne == ASSUME NEW n \in Nat PROVE n \div 1 = n /\ Whole(n, 1) = n
BY Z3 DEF Whole

\* The unit of k bytes a byte lies in, and its place there.
LEMMA UnitOf ==
    ASSUME NEW i \in Nat, NEW k \in Nat \ {0}
    PROVE  /\ i \div k \in Nat /\ i % k \in 0 .. k - 1
           /\ (i \div k) * k \in Nat /\ i = (i \div k) * k + (i % k)
           /\ \A b \in Nat : i < b * k => i \div k < b
           /\ \A b \in Nat : b * k \in Nat
<1>1. i \div k \in Nat /\ i % k \in 0 .. k - 1 /\ i = (i \div k) * k + (i % k)
  BY Z3
<1>2. \A b \in Nat : b * k \in Nat
  BY Products
<1>3. ASSUME NEW b \in Nat, i < b * k PROVE i \div k < b
  <2>1. SUFFICES ASSUME b <= i \div k PROVE FALSE
    BY <1>1
  <2>2. b * k <= (i \div k) * k
    BY <1>1, <2>1, Products
  <2>3. QED
    BY <1>1, <1>2, <1>3, <2>2
<1>4. QED
  BY <1>1, <1>2, <1>3

\* The least of a set of numbers, and the greatest of a bounded one.
LEMMA MinIs ==
    ASSUME NEW S, S # {}, \A x \in S : x \in Nat
    PROVE  Min(S) \in S /\ \A x \in S : Min(S) <= x
<1>1. \E m \in S : \A x \in S : m <= x
  BY LeastNumber
<1>2. QED
  BY <1>1 DEF Min

\* A member that no other is below is the minimum.
LEMMA LeastIs ==
    ASSUME NEW S, NEW f \in Nat, f \in S, \A j \in S : j \in Nat /\ f <= j
    PROVE  Min(S) = f
<1>1. Min(S) \in S /\ \A j \in S : Min(S) <= j
  BY MinIs
<1>2. Min(S) \in Nat /\ f <= Min(S) /\ Min(S) <= f
  BY <1>1
<1>3. QED
  BY <1>2

\* A set of numbers with a bound has its maximum among its members.
LEMMA MaxIs ==
    ASSUME NEW S, S # {}, NEW top \in Int, \A x \in S : x \in Int /\ x <= top
    PROVE  Max(S) \in S /\ \A x \in S : Max(S) >= x
<1> DEFINE T == {top - x : x \in S}
<1>1. T # {} /\ T \subseteq Nat
  OBVIOUS
<1>2. PICK y \in T : \A z \in T : y <= z
  <2> HIDE DEF T
  <2>1. QED
    BY <1>1, LeastNumber
<1>3. PICK m \in S : y = top - m
  BY <1>2
<1>4. ASSUME NEW x \in S PROVE m >= x
  <2>1. top - x \in T
    OBVIOUS
  <2>2. top - m <= top - x
    BY <1>2, <1>3, <2>1
  <2>3. QED
    BY <2>2
<1>5. QED
  BY <1>3, <1>4 DEF Max

------------------------------------------------------------------------------
(* Memory                                                                  *)

\* The memories with addresses from 0 to N
Memories(N) == [0 .. N -> Int]

\* Two memories with the same bytes are the same memory.
LEMMA SameMemory ==
    ASSUME NEW N, NEW f \in Memories(N), NEW g \in Memories(N), \A i \in 0 .. N : f[i] = g[i]
    PROVE  f = g
<1>1. f = [i \in 0 .. N |-> f[i]] /\ g = [i \in 0 .. N |-> g[i]]
  BY DEF Memories
<1>2. [i \in 0 .. N |-> f[i]] = [i \in 0 .. N |-> g[i]]
  OBVIOUS
<1>3. QED
  BY <1>1, <1>2

\* A memory has its addresses from 0 on and holds numbers.
LEMMA MemoryType ==
    ASSUME NEW N, NEW m \in Memories(N)
    PROVE  DOMAIN m = 0 .. N /\ \A i \in 0 .. N : m[i] \in Int
BY DEF Memories

\* Every byte after a move that reads addresses of the memory only.
LEMMA MovedIs ==
    ASSUME NEW N \in Nat, NEW m \in Memories(N), NEW d \in Int, NEW s \in Int, NEW k \in Nat,
           \A i \in s .. s + k - 1 : i \in 0 .. N
    PROVE  /\ Moved(m, d, s, k) \in Memories(N)
           /\ \A i \in 0 .. N : Moved(m, d, s, k)[i] = IF i \in d .. d + k - 1 THEN m[s + i - d] ELSE m[i]
<1>1. \A i \in 0 .. N : i \in d .. d + k - 1 => s + i - d \in 0 .. N
  OBVIOUS
<1>2. QED
  BY <1>1 DEF Moved, Memories

\* A move of nothing.
LEMMA MovedNothing ==
    ASSUME NEW N \in Nat, NEW m \in Memories(N), NEW d \in Int, NEW s \in Int
    PROVE  Moved(m, d, s, 0) = m
<1>1. Moved(m, d, s, 0) \in Memories(N) /\ \A i \in 0 .. N : Moved(m, d, s, 0)[i] = m[i]
  BY MovedIs
<1>2. QED
  BY <1>1, SameMemory

\* Going up, the second of two moves reads what the first did not write.
LEMMA MovedUp ==
    ASSUME NEW N \in Nat, NEW m \in Memories(N), NEW d \in Int, NEW s \in Int,
           NEW a \in Nat, NEW b \in Nat, NEW n \in Nat, n = a + b, 0 <= s, s + n <= N + 1,
           NEW e \in Int, e = d + a, NEW t \in Int, t = s + a,
           d <= s \/ s + n <= d
    PROVE  Moved(Moved(m, d, s, a), e, t, b) = Moved(m, d, s, n)
<1> DEFINE h == Moved(m, d, s, a)
<1>2. h \in Memories(N) /\ \A i \in 0 .. N : h[i] = IF i \in d .. d + a - 1 THEN m[s + i - d] ELSE m[i]
  BY MovedIs
<1> HIDE DEF h
<1>3. /\ Moved(h, e, t, b) \in Memories(N)
      /\ \A i \in 0 .. N : Moved(h, e, t, b)[i] = IF i \in e .. e + b - 1 THEN h[t + i - e] ELSE h[i]
  BY <1>2, MovedIs
<1>4. /\ Moved(m, d, s, n) \in Memories(N)
      /\ \A i \in 0 .. N : Moved(m, d, s, n)[i] = IF i \in d .. d + n - 1 THEN m[s + i - d] ELSE m[i]
  BY MovedIs
<1>5. ASSUME NEW i \in 0 .. N PROVE Moved(h, e, t, b)[i] = Moved(m, d, s, n)[i]
  <2>1. CASE i \in e .. e + b - 1
    <3>1. s + i - d \in 0 .. N /\ ~(s + i - d \in d .. d + a - 1) /\ t + i - e = s + i - d
      BY <2>1
    <3>2. i \in d .. d + n - 1
      BY <2>1
    <3>3. h[s + i - d] = m[s + i - d]
      BY <1>2, <3>1
    <3>4. QED
      BY <1>3, <1>4, <2>1, <3>1, <3>2, <3>3
  <2>2. CASE ~(i \in e .. e + b - 1)
    <3>1. i \in d .. d + n - 1 <=> i \in d .. d + a - 1
      BY <2>2
    <3>2. QED
      BY <1>2, <1>3, <1>4, <2>2, <3>1
  <2>3. QED
    BY <2>1, <2>2
<1>6. Moved(h, e, t, b) = Moved(m, d, s, n)
  BY <1>3, <1>4, <1>5, SameMemory
<1>7. QED
  BY <1>6 DEF h

\* Going down likewise, from the last byte to the first.
LEMMA MovedDown ==
    ASSUME NEW N \in Nat, NEW m \in Memories(N), NEW d \in Int, NEW s \in Int,
           NEW a \in Nat, NEW b \in Nat, NEW n \in Nat, n = a + b, 0 <= s, s + n <= N + 1,
           NEW e \in Int, e = d + a, NEW t \in Int, t = s + a, s <= d
    PROVE  Moved(Moved(m, e, t, b), d, s, a) = Moved(m, d, s, n)
<1> DEFINE h == Moved(m, e, t, b)
<1>2. h \in Memories(N) /\ \A i \in 0 .. N : h[i] = IF i \in e .. e + b - 1 THEN m[t + i - e] ELSE m[i]
  BY MovedIs
<1> HIDE DEF h
<1>3. /\ Moved(h, d, s, a) \in Memories(N)
      /\ \A i \in 0 .. N : Moved(h, d, s, a)[i] = IF i \in d .. d + a - 1 THEN h[s + i - d] ELSE h[i]
  BY <1>2, MovedIs
<1>4. /\ Moved(m, d, s, n) \in Memories(N)
      /\ \A i \in 0 .. N : Moved(m, d, s, n)[i] = IF i \in d .. d + n - 1 THEN m[s + i - d] ELSE m[i]
  BY MovedIs
<1>5. ASSUME NEW i \in 0 .. N PROVE Moved(h, d, s, a)[i] = Moved(m, d, s, n)[i]
  <2>1. CASE i \in d .. d + a - 1
    <3>1. s + i - d \in 0 .. N /\ ~(s + i - d \in e .. e + b - 1)
      BY <2>1
    <3>2. i \in d .. d + n - 1
      BY <2>1
    <3>3. h[s + i - d] = m[s + i - d]
      BY <1>2, <3>1
    <3>4. QED
      BY <1>3, <1>4, <2>1, <3>2, <3>3
  <2>2. CASE ~(i \in d .. d + a - 1)
    <3>1. i \in d .. d + n - 1 <=> i \in e .. e + b - 1
      BY <2>2
    <3>2. t + i - e = s + i - d
      OBVIOUS
    <3>3. QED
      BY <1>2, <1>3, <1>4, <2>2, <3>1, <3>2
  <2>3. QED
    BY <2>1, <2>2
<1>6. Moved(h, d, s, a) = Moved(m, d, s, n)
  BY <1>3, <1>4, <1>5, SameMemory
<1>7. QED
  BY <1>6 DEF h

------------------------------------------------------------------------------
(* The loops over k-byte units                                             *)

\* The loop going up moves its whole units, where source and destination do
\* not overlap or the destination is the lower one.
LEMMA CopyUpIs ==
    ASSUME NEW N \in Nat, NEW m \in Memories(N), NEW d \in Int, NEW s \in Int,
           NEW n \in Nat, NEW k \in Nat \ {0}, 0 <= s, s + n <= N + 1,
           d <= s \/ s + n <= d
    PROVE  CopyUp(m, d, s, n, k) = Moved(m, d, s, Whole(n, k))
<1> DEFINE q == n \div k
           Up(f) == f = [b \in 0 .. q |->
                           IF b = 0 THEN m ELSE Moved(f[b - 1], d + (b - 1) * k, s + (b - 1) * k, k)]
           F == [b \in 0 .. q |-> Moved(m, d, s, b * k)]
<1>1. /\ q \in Nat /\ Whole(n, k) = q * k
      /\ \A b \in 0 .. q : b * k \in Nat /\ b * k <= n
  <2>1. /\ q \in Nat /\ Whole(n, k) = q * k /\ Whole(n, k) \in 0 .. n
        /\ \A b \in 0 .. q : b * k \in 0 .. Whole(n, k)
    BY WholeIs
  <2> HIDE DEF q
  <2>2. QED
    BY <2>1
<1>2. ASSUME NEW b \in 0 .. q, b # 0
      PROVE  Moved(F[b - 1], d + (b - 1) * k, s + (b - 1) * k, k) = Moved(m, d, s, b * k)
  <2>1. b - 1 \in 0 .. q /\ b - 1 \in Nat /\ (b - 1) + 1 = b
    BY <1>1, <1>2
  <2>2. PICK a \in Nat : a = (b - 1) * k
    BY <1>1, <2>1
  <2>3. PICK c \in Nat : c = b * k /\ c <= n
    BY <1>1
  <2>4. c = a + k
    BY <2>1, <2>2, <2>3, Products
  <2>5. PICK e \in Int : e = d + a
    OBVIOUS
  <2>6. PICK t \in Int : t = s + a
    OBVIOUS
  <2>7. Moved(Moved(m, d, s, a), e, t, k) = Moved(m, d, s, c)
    <3>1. s + c <= N + 1 /\ (d <= s \/ s + c <= d)
      BY <2>3
    <3> HIDE DEF q, F
    <3>2. QED
      BY <2>4, <2>5, <2>6, <3>1, MovedUp
  <2>8. F[b - 1] = Moved(m, d, s, a)
    BY <2>1, <2>2
  <2>9. QED
    BY <2>2, <2>3, <2>5, <2>6, <2>7, <2>8
<1>3. F[0] = m
  <2>1. 0 * k = 0 /\ 0 \in 0 .. q
    BY <1>1
  <2>2. QED
    BY <2>1, MovedNothing
<1>4. Up(F)
  BY <1>2, <1>3
<1>5. PICK f : Up(f) /\ CopyUp(m, d, s, n, k) = f[q]
  <2>1. CopyUp(m, d, s, n, k) = (CHOOSE f : Up(f))[q]
    BY DEF CopyUp
  <2>2. Up(CHOOSE f : Up(f))
    BY <1>4
  <2>3. QED
    BY <2>1, <2>2
<1>6. \A b \in 0 .. q : f[b] = F[b]
  <2> DEFINE T == {b \in 0 .. q : f[b] # F[b]}
  <2>1. SUFFICES ASSUME T # {} PROVE FALSE
    OBVIOUS
  <2>2. T \subseteq Nat
    BY <1>1
  <2>3. PICK b \in T : \A c \in T : b <= c
    BY <2>1, <2>2, LeastNumber
  <2>4. b # 0 /\ b \in 0 .. q
    BY <1>3, <1>5
  <2>5. b - 1 \in 0 .. q /\ ~(b <= b - 1)
    BY <1>1, <2>4
  <2>6. f[b - 1] = F[b - 1]
    BY <2>3, <2>5
  <2>7. f[b] = Moved(F[b - 1], d + (b - 1) * k, s + (b - 1) * k, k)
    BY <1>5, <2>4, <2>6
  <2>8. QED
    BY <1>2, <2>4, <2>7
<1>7. f[q] = F[q] /\ F[q] = Moved(m, d, s, q * k)
  <2>1. q \in 0 .. q
    BY <1>1
  <2>2. QED
    BY <1>6, <2>1
<1>8. QED
  BY <1>1, <1>5, <1>7

\* The loop going down moves the whole units at the end of the buffers, where
\* the source is not the higher one.
LEMMA CopyDownIs ==
    ASSUME NEW N \in Nat, NEW m \in Memories(N), NEW d \in Int, NEW s \in Int,
           NEW n \in Nat, NEW k \in Nat \ {0}, 0 <= s, s + n <= N + 1,
           s <= d
    PROVE  CopyDown(m, d, s, n, k) = Moved(m, d + n - Whole(n, k), s + n - Whole(n, k), Whole(n, k))
<1> DEFINE q == n \div k
           Down(f) == f = [b \in 0 .. q |->
                           IF b = 0 THEN m ELSE Moved(f[b - 1], d + n - b * k, s + n - b * k, k)]
           F == [b \in 0 .. q |-> Moved(m, d + n - b * k, s + n - b * k, b * k)]
<1>1. /\ q \in Nat /\ Whole(n, k) = q * k
      /\ \A b \in 0 .. q : b * k \in Nat /\ b * k <= n
  <2>1. /\ q \in Nat /\ Whole(n, k) = q * k /\ Whole(n, k) \in 0 .. n
        /\ \A b \in 0 .. q : b * k \in 0 .. Whole(n, k)
    BY WholeIs
  <2> HIDE DEF q
  <2>2. QED
    BY <2>1
<1>2. ASSUME NEW b \in 0 .. q, b # 0
      PROVE  Moved(F[b - 1], d + n - b * k, s + n - b * k, k) = Moved(m, d + n - b * k, s + n - b * k, b * k)
  <2>1. b - 1 \in 0 .. q /\ b - 1 \in Nat /\ (b - 1) + 1 = b
    BY <1>1, <1>2
  <2>2. PICK a \in Nat : a = (b - 1) * k
    BY <1>1, <2>1
  <2>3. PICK c \in Nat : c = b * k /\ c <= n
    BY <1>1
  <2>4. c = a + k
    BY <2>1, <2>2, <2>3, Products
  <2>5. PICK e \in Int : e = d + n - a
    OBVIOUS
  <2>6. PICK t \in Int : t = s + n - a
    OBVIOUS
  <2>7. PICK v \in Int : v = d + n - c
    OBVIOUS
  <2>8. PICK u \in Int : u = s + n - c
    OBVIOUS
  <2>9. Moved(Moved(m, e, t, a), v, u, k) = Moved(m, v, u, c)
    <3>1. u + c <= N + 1 /\ 0 <= u /\ u <= v /\ e = v + k /\ t = u + k
      BY <2>3, <2>4, <2>5, <2>6, <2>7, <2>8
    <3> HIDE DEF q, F
    <3>2. c = k + a
      BY <2>4
    <3>3. QED
      BY <3>1, <3>2, MovedDown
  <2>10. F[b - 1] = Moved(m, e, t, a)
    BY <2>1, <2>2, <2>5, <2>6
  <2>11. QED
    BY <2>2, <2>3, <2>7, <2>8, <2>9, <2>10
<1>3. F[0] = m
  <2>1. 0 * k = 0 /\ 0 \in 0 .. q
    BY <1>1
  <2>2. QED
    BY <2>1, MovedNothing
<1>4. Down(F)
  BY <1>2, <1>3
<1>5. PICK f : Down(f) /\ CopyDown(m, d, s, n, k) = f[q]
  <2>1. CopyDown(m, d, s, n, k) = (CHOOSE f : Down(f))[q]
    BY DEF CopyDown
  <2>2. Down(CHOOSE f : Down(f))
    BY <1>4
  <2>3. QED
    BY <2>1, <2>2
<1>6. \A b \in 0 .. q : f[b] = F[b]
  <2> DEFINE T == {b \in 0 .. q : f[b] # F[b]}
  <2>1. SUFFICES ASSUME T # {} PROVE FALSE
    OBVIOUS
  <2>2. T \subseteq Nat
    BY <1>1
  <2>3. PICK b \in T : \A c \in T : b <= c
    BY <2>1, <2>2, LeastNumber
  <2>4. b # 0 /\ b \in 0 .. q
    BY <1>3, <1>5
  <2>5. b - 1 \in 0 .. q /\ ~(b <= b - 1)
    BY <1>1, <2>4
  <2>6. f[b - 1] = F[b - 1]
    BY <2>3, <2>5
  <2>7. f[b] = Moved(F[b - 1], d + n - b * k, s + n - b * k, k)
    BY <1>5, <2>4, <2>6
  <2>8. QED
    BY <1>2, <2>4, <2>7
<1>7. f[q] = F[q] /\ F[q] = Moved(m, d + n - q * k, s + n - q * k, q * k)
  <2>1. q \in 0 .. q
    BY <1>1
  <2>2. QED
    BY <1>6, <2>1
<1>8. QED
  BY <1>1, <1>5, <1>7

------------------------------------------------------------------------------
(* The memory functions                                                    *)

\* The widths, as numbers.
LEMMA WidthsAre ==
    /\ Word \in Nat \ {0} /\ Vector \in Nat \ {0} /\ Block \in Nat \ {0} /\ 2 * Block \in Nat \ {0}
    /\ Word <= Vector /\ Vector < Block
BY Widths

\* The bytes before the first aligned one are some of the n.
LEMMA UnalignedIs ==
    ASSUME NEW d \in Int, NEW n \in Nat
    PROVE  Unaligned(d, n) \in 0 .. n
<1>1. d % Vector \in 0 .. Vector - 1
  BY WidthsAre, Z3
<1>2. PICK r \in 0 .. Vector - 1 : r = d % Vector
  BY <1>1
<1>3. (Vector - r) % Vector \in Nat
  BY WidthsAre, Z3
<1>4. PICK u \in Nat : u = (Vector - r) % Vector
  BY <1>3
<1>5. Min({u, n}) \in {u, n} /\ \A x \in {u, n} : Min({u, n}) <= x
  BY MinIs
<1>6. Unaligned(d, n) = Min({(Vector - r) % Vector, n})
  BY <1>2 DEF Unaligned
<1>7. QED
  BY <1>4, <1>5, <1>6

\* asm_opt_memcpy: the bytes before the first aligned one, the blocks and the
\* bytes behind them together are the whole move, whatever the alignment; also
\* where the buffers overlap, if the destination is the lower one.
THEOREM MemcpyIsMove ==
    ASSUME NEW N \in Nat, NEW m \in Memories(N), NEW d \in Int, NEW s \in Int, NEW n \in Nat,
           0 <= s, s + n <= N + 1, d <= s \/ s + n <= d, NEW neon
    PROVE  asm_opt_memcpy(m, d, s, n, neon) = Moved(m, d, s, n)
<1>1. SUFFICES ASSUME neon /\ n >= Block PROVE asm_opt_memcpy(m, d, s, n, neon) = Moved(m, d, s, n)
  BY DEF asm_opt_memcpy
<1>2. PICK a \in 0 .. n : a = Unaligned(d, n)
  BY UnalignedIs
<1>3. PICK r \in Nat : r = n - a /\ r <= n
  OBVIOUS
<1>4. PICK w \in 0 .. r : w = Whole(r, Block)
  BY WidthsAre, WholeIs
<1>5. PICK b \in Nat : b = a + w /\ b <= n
  BY <1>3, <1>4
<1>6. PICK t \in Nat : t = n - b
  BY <1>5
<1> DEFINE head == CopyUp(m, d, s, a, 1)
           body == CopyUp(head, d + a, s + a, r, Block)
<1>7. head = Moved(m, d, s, a) /\ head \in Memories(N)
  <2>1. head = Moved(m, d, s, Whole(a, 1))
    BY CopyUpIs
  <2>2. Whole(a, 1) = a
    BY WholeOne
  <2>3. Moved(m, d, s, a) \in Memories(N)
    BY MovedIs
  <2>4. QED
    BY <2>1, <2>2, <2>3
<1>8. body = Moved(m, d, s, b) /\ body \in Memories(N)
  <2> HIDE DEF head
  <2>1. PICK e \in Int : e = d + a
    OBVIOUS
  <2>2. PICK f \in Int : f = s + a /\ 0 <= f /\ f + r <= N + 1 /\ (e <= f \/ f + r <= e)
    BY <1>3, <2>1
  <2>3. CopyUp(head, e, f, r, Block) = Moved(head, e, f, w)
    BY <1>4, <1>7, <2>2, WidthsAre, CopyUpIs
  <2>4. Moved(head, e, f, w) = Moved(m, d, s, b)
    BY <1>5, <1>7, <2>1, <2>2, MovedUp
  <2>5. Moved(m, d, s, b) \in Memories(N)
    BY <1>5, MovedIs
  <2>6. QED
    BY <2>1, <2>2, <2>3, <2>4, <2>5
<1>9. CopyUp(body, d + b, s + b, t, 1) = Moved(m, d, s, n)
  <2> HIDE DEF body
  <2>1. PICK e \in Int : e = d + b
    OBVIOUS
  <2>2. PICK f \in Int : f = s + b /\ 0 <= f /\ f + t <= N + 1 /\ (e <= f \/ f + t <= e)
    BY <1>6, <2>1
  <2>3. CopyUp(body, e, f, t, 1) = Moved(body, e, f, Whole(t, 1))
    BY <1>8, <2>2, CopyUpIs
  <2>4. Whole(t, 1) = t
    BY WholeOne
  <2>5. Moved(body, e, f, t) = Moved(m, d, s, n)
    BY <1>5, <1>6, <1>8, <2>1, <2>2, MovedUp
  <2>6. QED
    BY <2>1, <2>2, <2>3, <2>4, <2>5
<1>10. asm_opt_memcpy(m, d, s, n, neon) = CopyUp(body, d + b, s + b, t, 1)
  BY <1>1, <1>2, <1>3, <1>4, <1>5, <1>6 DEF asm_opt_memcpy
<1>11. QED
  BY <1>9, <1>10

\* asm_opt_memmove: no byte is read after it has been overwritten, whatever
\* the overlap: the move is that of a copy of the source.
THEOREM MemmoveIsMove ==
    ASSUME NEW N \in Nat, NEW m \in Memories(N), NEW d \in Int, NEW s \in Int, NEW n \in Nat,
           0 <= s, s + n <= N + 1, NEW neon
    PROVE  asm_opt_memmove(m, d, s, n, neon) = Moved(m, d, s, n)
<1>1. CASE ~neon \/ n < Block
  BY <1>1 DEF asm_opt_memmove
<1>2. CASE ~(~neon \/ n < Block) /\ ~(d > s /\ d < s + n)
  <2>1. asm_opt_memcpy(m, d, s, n, neon) = Moved(m, d, s, n)
    BY <1>2, MemcpyIsMove
  <2>2. QED
    BY <1>2, <2>1 DEF asm_opt_memmove
<1>3. CASE ~(~neon \/ n < Block) /\ d > s /\ d < s + n
  <2>1. PICK b \in 0 .. n : b = Whole(n, Block) /\ Whole(b, Block) = b
    <3>1. PICK b \in 0 .. n : b = Whole(n, Block)
      BY WidthsAre, WholeIs
    <3>2. n \div Block \in Nat /\ b = (n \div Block) * Block
      BY <3>1, WidthsAre, WholeIs
    <3>3. Whole(b, Block) = b
      <4>1. b \div Block = n \div Block
        BY <3>2, WidthsAre, Z3
      <4>2. QED
        BY <3>2, <4>1 DEF Whole
    <3>4. QED
      BY <3>1, <3>3
  <2>2. PICK r \in Nat : r = n - b
    OBVIOUS
  <2>3. PICK e \in Int : e = d + n - b
    OBVIOUS
  <2>4. PICK f \in Int : f = s + n - b /\ 0 <= f /\ f + b <= N + 1 /\ f <= e
    BY <1>3, <2>3
  <2> DEFINE body == CopyDown(m, e, f, b, Block)
  <2>5. body = Moved(m, e, f, b) /\ body \in Memories(N)
    <3>1. body = Moved(m, e + b - Whole(b, Block), f + b - Whole(b, Block), Whole(b, Block))
      BY <2>4, WidthsAre, CopyDownIs
    <3>2. e + b - b = e /\ f + b - b = f
      OBVIOUS
    <3>3. Moved(m, e, f, b) \in Memories(N)
      BY <2>4, MovedIs
    <3>4. QED
      BY <2>1, <3>1, <3>2, <3>3
  <2>6. CopyDown(body, d, s, r, 1) = Moved(body, d, s, r)
    <3> HIDE DEF body
    <3>1. CopyDown(body, d, s, r, 1) = Moved(body, d + r - Whole(r, 1), s + r - Whole(r, 1), Whole(r, 1))
      BY <1>3, <2>2, <2>5, CopyDownIs
    <3>2. Whole(r, 1) = r /\ d + r - r = d /\ s + r - r = s
      BY WholeOne
    <3>3. QED
      BY <3>1, <3>2
  <2>7. Moved(Moved(m, e, f, b), d, s, r) = Moved(m, d, s, n)
    <3>1. n = r + b /\ e = d + r /\ f = s + r /\ s <= d
      BY <1>3, <2>2, <2>3, <2>4
    <3>2. QED
      BY <3>1, MovedDown
  <2>8. asm_opt_memmove(m, d, s, n, neon) = CopyDown(body, d, s, r, 1)
    BY <1>3, <2>1, <2>2, <2>3, <2>4 DEF asm_opt_memmove
  <2>9. QED
    BY <2>5, <2>6, <2>7, <2>8
<1>4. QED
  BY <1>1, <1>2, <1>3

\* asm_opt_network_buffer_copy: the double blocks and what asm_opt_memcpy
\* copies behind them are the whole move, and the count returned is n.
THEOREM BufferCopyIsMove ==
    ASSUME NEW N \in Nat, NEW m \in Memories(N), NEW d \in Int, NEW s \in Int, NEW n \in Nat,
           0 <= s, s + n <= N + 1, d <= s \/ s + n <= d, NEW neon
    PROVE  asm_opt_network_buffer_copy(m, d, s, n, neon) = <<Moved(m, d, s, n), n>>
<1>1. CASE ~(neon /\ n >= 2 * Block)
  BY <1>1, MemcpyIsMove DEF asm_opt_network_buffer_copy
<1>2. CASE neon /\ n >= 2 * Block
  <2>1. PICK b \in 0 .. n : b = Whole(n, 2 * Block)
    BY WidthsAre, WholeIs
  <2>2. PICK r \in Nat : r = n - b /\ b + r = n
    OBVIOUS
  <2>3. PICK body : body = CopyUp(m, d, s, n, 2 * Block)
    OBVIOUS
  <2>4. body = Moved(m, d, s, b) /\ body \in Memories(N)
    <3>1. CopyUp(m, d, s, n, 2 * Block) = Moved(m, d, s, Whole(n, 2 * Block))
      BY WidthsAre, CopyUpIs
    <3>2. Moved(m, d, s, b) \in Memories(N)
      BY MovedIs
    <3>3. QED
      BY <2>1, <2>3, <3>1, <3>2
  <2>5. PICK e \in Int : e = d + b
    OBVIOUS
  <2>6. PICK f \in Int : f = s + b /\ 0 <= f /\ f + r <= N + 1 /\ (e <= f \/ f + r <= e)
    BY <2>2, <2>5
  <2>7. asm_opt_memcpy(body, e, f, r, neon) = Moved(body, e, f, r)
    BY <2>4, <2>6, MemcpyIsMove
  <2>8. Moved(Moved(m, d, s, b), e, f, r) = Moved(m, d, s, n)
    BY <2>2, <2>5, <2>6, MovedUp
  <2>9. asm_opt_network_buffer_copy(m, d, s, n, neon) = <<asm_opt_memcpy(body, e, f, r, neon), b + r>>
    BY <1>2, <2>1, <2>2, <2>3, <2>5, <2>6 DEF asm_opt_network_buffer_copy
  <2>10. QED
    BY <2>2, <2>4, <2>7, <2>8, <2>9
<1>3. QED
  BY <1>1, <1>2
\* Every byte after a fill.
LEMMA FilledIs ==
    ASSUME NEW N \in Nat, NEW m \in Memories(N), NEW d \in Int, NEW c \in Int, NEW k \in Nat
    PROVE  /\ Filled(m, d, c, k) \in Memories(N)
           /\ \A i \in 0 .. N : Filled(m, d, c, k)[i] = IF i \in d .. d + k - 1 THEN c ELSE m[i]
BY DEF Filled, Memories

\* One fill behind the other is one fill.
LEMMA FilledOn ==
    ASSUME NEW N \in Nat, NEW m \in Memories(N), NEW d \in Int, NEW c \in Int,
           NEW a \in Nat, NEW b \in Nat, NEW n \in Nat, n = a + b, NEW e \in Int, e = d + a
    PROVE  /\ Filled(Filled(m, d, c, a), e, c, b) = Filled(m, d, c, n)
           /\ Filled(m, d, c, n) \in Memories(N)
<1> DEFINE h == Filled(m, d, c, a)
<1>1. h \in Memories(N) /\ \A i \in 0 .. N : h[i] = IF i \in d .. d + a - 1 THEN c ELSE m[i]
  BY FilledIs
<1> HIDE DEF h
<1>2. /\ Filled(h, e, c, b) \in Memories(N)
      /\ \A i \in 0 .. N : Filled(h, e, c, b)[i] = IF i \in e .. e + b - 1 THEN c ELSE h[i]
  BY <1>1, FilledIs
<1>3. /\ Filled(m, d, c, n) \in Memories(N)
      /\ \A i \in 0 .. N : Filled(m, d, c, n)[i] = IF i \in d .. d + n - 1 THEN c ELSE m[i]
  BY FilledIs
<1>4. \A i \in 0 .. N : Filled(h, e, c, b)[i] = Filled(m, d, c, n)[i]
  BY <1>1, <1>2, <1>3
<1>5. QED
  BY <1>2, <1>3, <1>4, SameMemory DEF h

\* asm_opt_memset: head, blocks and tail fill the buffer and nothing else.
THEOREM MemsetIsFill ==
    ASSUME NEW N \in Nat, NEW m \in Memories(N), NEW d \in Int, NEW c \in Int, NEW n \in Nat, NEW neon
    PROVE  asm_opt_memset(m, d, c, n, neon) = Filled(m, d, c, n)
<1>1. PICK a \in 0 .. n : a = Unaligned(d, n)
  BY UnalignedIs
<1>2. PICK r \in Nat : r = n - a
  OBVIOUS
<1>3. PICK b \in 0 .. r : b = Whole(r, Block)
  BY <1>2, WidthsAre, WholeIs
<1>4. PICK t \in Nat : t = n - a - b
  BY <1>2
<1>5. PICK e \in Int : e = d + a
  OBVIOUS
<1>6. PICK f \in Int : f = d + a + b
  OBVIOUS
<1>7. PICK h \in Nat : h = a + b
  OBVIOUS
<1>8. Filled(Filled(m, d, c, a), e, c, b) = Filled(m, d, c, h)
  BY <1>5, <1>7, FilledOn
<1>9. Filled(Filled(m, d, c, h), f, c, t) = Filled(m, d, c, n)
  BY <1>4, <1>6, <1>7, FilledOn
<1>10. neon /\ n >= Block =>
         asm_opt_memset(m, d, c, n, neon) = Filled(Filled(Filled(m, d, c, a), e, c, b), f, c, t)
  BY <1>1, <1>2, <1>3, <1>4, <1>5, <1>6 DEF asm_opt_memset
<1>11. ~(neon /\ n >= Block) => asm_opt_memset(m, d, c, n, neon) = Filled(m, d, c, n)
  BY DEF asm_opt_memset
<1>12. QED
  BY <1>8, <1>9, <1>10, <1>11

\* asm_opt_simd_zero_buffer: blocks, vectors and bytes likewise.
THEOREM ZeroBufferIsFill ==
    ASSUME NEW N \in Nat, NEW m \in Memories(N), NEW d \in Int, NEW n \in Nat, NEW neon
    PROVE  asm_opt_simd_zero_buffer(m, d, n, neon) = Filled(m, d, 0, n)
<1>1. PICK b \in 0 .. n : b = Whole(n, Block)
  BY WidthsAre, WholeIs
<1>2. PICK r \in Nat : r = n - b
  OBVIOUS
<1>3. PICK w \in 0 .. r : w = Whole(r, Vector)
  BY <1>2, WidthsAre, WholeIs
<1>4. PICK v \in Nat : v = b + w /\ v - b = w
  OBVIOUS
<1>5. PICK t \in Nat : t = n - v
  BY <1>2, <1>3, <1>4
<1>6. PICK e \in Int : e = d + b
  OBVIOUS
<1>7. PICK f \in Int : f = d + v
  OBVIOUS
<1>8. Filled(Filled(m, d, 0, b), e, 0, w) = Filled(m, d, 0, v)
  BY <1>4, <1>6, FilledOn
<1>9. Filled(Filled(m, d, 0, v), f, 0, t) = Filled(m, d, 0, n)
  BY <1>5, <1>7, FilledOn
<1>10. neon /\ n >= Block =>
         asm_opt_simd_zero_buffer(m, d, n, neon) = Filled(Filled(Filled(m, d, 0, b), e, 0, w), f, 0, t)
  BY <1>1, <1>2, <1>3, <1>4, <1>5, <1>6, <1>7 DEF asm_opt_simd_zero_buffer
<1>11. ~(neon /\ n >= Block) => asm_opt_simd_zero_buffer(m, d, n, neon) = asm_opt_memset(m, d, 0, n, neon)
  BY DEF asm_opt_simd_zero_buffer
<1>12. QED
  BY <1>8, <1>9, <1>10, <1>11, MemsetIsFill

\* The places below n where two buffers differ
Diffs(m, p, q, n) == {i \in 0 .. n - 1 : m[p + i] # m[q + i]}

\* k bytes at p are those at q.
SameBytes(m, p, q, k) == \A i \in 0 .. k - 1 : m[p + i] = m[q + i]

\* Units that are equal hold equal bytes.
LEMMA EqualUnits ==
    ASSUME NEW N \in Nat, NEW m \in Memories(N), NEW p \in Nat, NEW q \in Nat, NEW k \in Nat,
           p + k <= N + 1, q + k <= N + 1, Bytes(m, p, k) = Bytes(m, q, k)
    PROVE  SameBytes(m, p, q, k)
<1> SUFFICES ASSUME NEW i \in 0 .. k - 1 PROVE m[p + i] = m[q + i]
  BY DEF SameBytes
<1>1. Bytes(m, p, k)[i] = At(m, p + i) /\ Bytes(m, q, k)[i] = At(m, q + i)
  BY DEF Bytes
<1>2. p + i \in 0 .. N /\ q + i \in 0 .. N
  OBVIOUS
<1>3. QED
  BY <1>1, <1>2, MemoryType DEF At

\* Up to the first unit that differs, the bytes are equal.
LEMMA EqualBelow ==
    ASSUME NEW N \in Nat, NEW m \in Memories(N), NEW p \in Nat, NEW q \in Nat,
           NEW k \in Nat, k # 0, NEW b \in Nat, p + b * k <= N + 1, q + b * k <= N + 1,
           \A u \in 0 .. b - 1 : Bytes(m, p + u * k, k) = Bytes(m, q + u * k, k)
    PROVE  SameBytes(m, p, q, b * k)
<1> SUFFICES ASSUME NEW i \in Nat, i < b * k PROVE m[p + i] = m[q + i]
  <2>1. b * k \in Nat
    BY Products
  <2>2. QED
    BY <2>1 DEF SameBytes
<1>1. PICK u \in Nat : u = i \div k /\ u < b
  BY UnitOf
<1>2. PICK o \in Nat : o = u * k
  BY <1>1, UnitOf
<1>3. PICK r \in 0 .. k - 1 : i = o + r
  BY <1>1, <1>2, UnitOf
<1>4. (u + 1) * k = o + k /\ (u + 1) * k <= b * k /\ b * k \in Nat
  BY <1>1, <1>2, Products
<1>5. PICK c \in Nat : c = b * k /\ o + k <= c /\ p + c <= N + 1 /\ q + c <= N + 1
  BY <1>2, <1>4
<1>6. PICK x \in Nat : x = p + o /\ x + k <= N + 1
  BY <1>5
<1>7. PICK y \in Nat : y = q + o /\ y + k <= N + 1
  BY <1>5
<1>8. Bytes(m, x, k) = Bytes(m, y, k)
  <2>1. u \in 0 .. b - 1
    BY <1>1
  <2>2. Bytes(m, p + u * k, k) = Bytes(m, q + u * k, k)
    BY <2>1
  <2>3. QED
    BY <1>2, <1>6, <1>7, <2>2
<1>9. m[x + r] = m[y + r]
  <2>1. k \in Nat
    OBVIOUS
  <2>2. QED
    <3>1. SameBytes(m, x, y, k)
      BY <1>6, <1>7, <1>8, <2>1, EqualUnits, Zenon
    <3>2. QED
      BY <3>1 DEF SameBytes
<1>10. x + r = p + i /\ y + r = q + i
  BY <1>3, <1>6, <1>7
<1>11. QED
  BY <1>9, <1>10

\* asm_opt_memcmp: comparing vectors first finds the same first difference.
THEOREM MemcmpIsFirstDiff ==
    ASSUME NEW N \in Nat, NEW m \in Memories(N), NEW p \in Nat, NEW q \in Nat, NEW n \in Nat,
           p + n <= N + 1, q + n <= N + 1, NEW neon
    PROVE  LET D == Diffs(m, p, q, n)
           IN  asm_opt_memcmp(m, p, q, n, neon) =
                 IF D = {} THEN 0 ELSE m[p + Min(D)] - m[q + Min(D)]
<1> DEFINE D == Diffs(m, p, q, n)
           unit == IF neon /\ n >= Vector THEN Whole(n, Vector) ELSE 0
           vectors == {b \in 0 .. unit \div Vector - 1 :
                         Bytes(m, p + b * Vector, Vector) # Bytes(m, q + b * Vector, Vector)}
           from == IF vectors # {} THEN Min(vectors) * Vector ELSE unit
           i == from + FirstDiff(m, p + from, q + from, n - from)
<1>1. PICK w \in Nat : unit = w * Vector /\ w * Vector \in 0 .. n /\ unit \div Vector = w
  <2>1. CASE neon /\ n >= Vector
    <3>1. n \div Vector \in Nat /\ unit = (n \div Vector) * Vector /\ unit \in 0 .. n
      BY <2>1, WidthsAre, WholeIs
    <3>2. unit \div Vector = n \div Vector
      BY <3>1, WidthsAre, Z3
    <3>3. QED
      BY <3>1, <3>2
  <2>2. CASE ~(neon /\ n >= Vector)
    <3>1. unit = 0 /\ 0 * Vector = 0 /\ 0 \div Vector = 0
      BY <2>2, WidthsAre
    <3>2. QED
      BY <3>1
  <2>3. QED
    BY <2>1, <2>2
<1>2. PICK b \in 0 .. w : /\ from = b * Vector
                          /\ \A u \in 0 .. b - 1 : Bytes(m, p + u * Vector, Vector) = Bytes(m, q + u * Vector, Vector)
  <2> HIDE DEF unit
  <2>1. CASE vectors = {}
    BY <1>1, <2>1
  <2>2. CASE vectors # {}
    <3>1. \A u \in vectors : u \in 0 .. w - 1
      BY <1>1
    <3>2. Min(vectors) \in vectors /\ \A u \in vectors : Min(vectors) <= u
      <4> HIDE DEF vectors
      <4>1. QED
        BY <2>2, <3>1, MinIs
    <3>3. PICK x \in 0 .. w - 1 : x = Min(vectors) /\ \A u \in vectors : x <= u
      BY <3>1, <3>2
    <3>4. from = x * Vector
      BY <2>2, <3>3
    <3>5. ASSUME NEW u \in 0 .. x - 1
          PROVE  Bytes(m, p + u * Vector, Vector) = Bytes(m, q + u * Vector, Vector)
      <4>1. u \in 0 .. w - 1 /\ ~(x <= u)
        BY <1>1
      <4>2. u \in 0 .. unit \div Vector - 1 /\ u \notin vectors
        BY <1>1, <3>3, <4>1
      <4>3. QED
        BY <4>2
    <3> HIDE DEF from, vectors
    <3>6. QED
      BY <1>1, <3>4, <3>5
  <2>3. QED
    BY <2>1, <2>2
<1>3. PICK f \in 0 .. n : f = from /\ f = b * Vector
  <2>1. b * Vector <= w * Vector /\ b * Vector \in Nat
    BY WidthsAre, Products
  <2> HIDE DEF from
  <2>2. QED
    BY <1>1, <1>2, <2>1
<1>4. \A j \in Nat : j < f => m[p + j] = m[q + j]
  <2> HIDE DEF from
  <2>1. p + b * Vector <= N + 1 /\ q + b * Vector <= N + 1
    BY <1>3
  <2>2. b \in Nat
    BY <1>1, <1>2
  <2>3. ASSUME NEW j \in Nat, j < b * Vector PROVE m[p + j] = m[q + j]
    <3>1. PICK k \in Nat : k = Vector /\ k # 0
      BY WidthsAre
    <3>2. /\ p + b * k <= N + 1 /\ q + b * k <= N + 1 /\ j < b * k
          /\ \A u \in 0 .. b - 1 : Bytes(m, p + u * k, k) = Bytes(m, q + u * k, k)
      BY <1>2, <2>1, <2>3, <3>1
    <3>3. SameBytes(m, p, q, b * k)
      BY <2>2, <3>1, <3>2, EqualBelow, Zenon
    <3>4. j \in 0 .. b * k - 1
      BY <1>3, <3>1, <3>2
    <3>5. QED
      BY <3>3, <3>4 DEF SameBytes
  <2>4. QED
    BY <1>3, <2>3
<1> DEFINE S == {j \in 0 .. (n - f) - 1 : m[(p + f) + j] # m[(q + f) + j]} \cup {n - f}
<1>5. Min(S) \in S /\ \A j \in S : Min(S) <= j
  <2>1. S # {} /\ \A j \in S : j \in Nat
    OBVIOUS
  <2> HIDE DEF S
  <2>2. QED
    BY <2>1, MinIs
<1>6. PICK g \in 0 .. n - f : g = Min(S)
  <2>1. \A j \in S : j \in 0 .. n - f
    OBVIOUS
  <2> HIDE DEF S
  <2>2. QED
    BY <1>5, <2>1
<1>7. PICK h \in 0 .. n : h = f + g
  OBVIOUS
<1>8. asm_opt_memcmp(m, p, q, n, neon) = IF h = n THEN 0 ELSE m[p + h] - m[q + h]
  <2>1. asm_opt_memcmp(m, p, q, n, neon) = IF i = n THEN 0 ELSE m[p + i] - m[q + i]
    BY DEF asm_opt_memcmp
  <2>2. i = f + FirstDiff(m, p + f, q + f, n - f)
    BY <1>3
  <2>3. FirstDiff(m, p + f, q + f, n - f) = Min(S)
    BY DEF FirstDiff
  <2>4. QED
    BY <1>6, <1>7, <2>1, <2>2, <2>3
<1>9. ASSUME NEW j \in D PROVE f <= j /\ j - f \in S /\ j \in 0 .. n - 1
  <2>1. j \in 0 .. n - 1 /\ m[p + j] # m[q + j]
    BY DEF Diffs
  <2>2. f <= j
    BY <1>4, <2>1
  <2>3. (p + f) + (j - f) = p + j /\ (q + f) + (j - f) = q + j
    BY <2>1
  <2>4. QED
    BY <2>1, <2>2, <2>3
<1>10. CASE D = {}
  <2>1. h = n
    <3>1. SUFFICES ASSUME g # n - f PROVE FALSE
      BY <1>7
    <3>2. m[(p + f) + g] # m[(q + f) + g] /\ g \in 0 .. (n - f) - 1
      BY <1>5, <1>6, <3>1
    <3>3. (p + f) + g = p + h /\ (q + f) + g = q + h /\ h \in 0 .. n - 1
      BY <1>7, <3>2
    <3>4. h \in D
      BY <3>2, <3>3 DEF Diffs
    <3>5. QED
      BY <1>10, <3>4
  <2>2. QED
    BY <1>8, <1>10, <2>1
<1>11. CASE D # {}
  <2>1. h # n /\ h \in D
    <3>1. g # n - f
      <4>1. PICK j \in D : TRUE
        BY <1>11
      <4>2. QED
        BY <1>5, <1>6, <1>9, <4>1
    <3>2. m[(p + f) + g] # m[(q + f) + g] /\ g \in 0 .. (n - f) - 1
      BY <1>5, <1>6, <3>1
    <3>3. (p + f) + g = p + h /\ (q + f) + g = q + h /\ h \in 0 .. n - 1
      BY <1>7, <3>2
    <3>4. QED
      BY <3>2, <3>3 DEF Diffs
  <2>2. \A j \in D : h <= j
    BY <1>5, <1>6, <1>7, <1>9
  <2>3. Min(D) = h
    <3>1. \A j \in D : j \in Nat
      BY <1>9
    <3> HIDE DEF D
    <3>2. Min(D) \in D /\ \A j \in D : Min(D) <= j
      BY <1>11, <3>1, MinIs
    <3>3. Min(D) \in Nat /\ h <= Min(D) /\ Min(D) <= h
      BY <2>1, <2>2, <3>1, <3>2
    <3>4. QED
      BY <3>3
  <2>4. QED
    BY <1>8, <1>11, <2>1, <2>3
<1>12. QED
  BY <1>10, <1>11

------------------------------------------------------------------------------
(* Arrays of numbers                                                       *)

\* The elements of half a word in a vector and in a block, as numbers.
LEMMA UnitsAre ==
    /\ Quad \in Nat \ {0} /\ Lanes \in Nat \ {0} /\ PerBlock \in Nat \ {0} /\ Lanes <= PerBlock
<1>1. Word \in Nat /\ Word % 2 = 0 /\ Word # 0
  BY Widths
<1>2. Quad \in Nat /\ 1 <= Quad /\ Quad <= Word
  BY <1>1, Z3 DEF Quad
<1>3. PICK q \in Nat : q = Quad /\ 1 <= q /\ q <= Vector /\ q <= Block
  BY <1>1, <1>2, WidthsAre
<1>4. Vector \div q \in Nat /\ Vector \div q # 0
  BY <1>3, WidthsAre, Z3
<1>5. Block \div q \in Nat /\ Block \div q # 0
  BY <1>3, WidthsAre, Z3
<1>6. Vector \div q <= Block \div q
  <2>1. PICK v \in Nat : v = Vector \div q /\ v * q <= Vector
    BY <1>3, WidthsAre, Z3
  <2>2. PICK w \in Nat : w = Block \div q /\ Block < (w + 1) * q
    BY <1>3, WidthsAre, Z3
  <2>3. SUFFICES ASSUME w + 1 <= v PROVE FALSE
    BY <2>1, <2>2
  <2>4. (w + 1) * q <= v * q /\ (w + 1) * q \in Nat /\ v * q \in Nat
    BY <1>3, <2>1, <2>2, <2>3, Products
  <2>5. QED
    BY <2>1, <2>2, <2>4, WidthsAre
<1>7. QED
  BY <1>2, <1>3, <1>4, <1>5, <1>6 DEF Lanes, PerBlock

\* The places of S in column l
Column(c, S, l) == {x \in S : c[x] = l}

\* g has the sums of the K columns of S.
ColumnSums(g, K, a, S, c) ==
  /\ IsFiniteSet(S) /\ \A x \in S : a[x] \in Nat
  /\ \A x \in S : c[x] \in 0 .. K - 1
  /\ \A l \in 0 .. K - 1 : g[l] = SumFunctionOnSet(a, Column(c, S, l))

\* Numbers added up column by column are the numbers added up.
LEMMA SumOfColumns ==
    ASSUME NEW a, NEW S, NEW K \in Nat, NEW c, NEW g, ColumnSums(g, K, a, S, c)
    PROVE  SumFunctionOnSet(g, 0 .. K - 1) = SumFunctionOnSet(a, S)
<1> DEFINE Upto(k) == {x \in S : c[x] < k}
           Right(k) == SumFunctionOnSet(g, 0 .. k - 1) = SumFunctionOnSet(a, Upto(k))
           T == {k \in 0 .. K : ~Right(k)}
<1> USE DEF ColumnSums
<1>1. \A U \in SUBSET S : IsFiniteSet(U) /\ SumFunctionOnSet(a, U) \in Nat
  <2>1. ASSUME NEW U \in SUBSET S PROVE IsFiniteSet(U)
    BY FS_Subset
  <2>2. ASSUME NEW U \in SUBSET S PROVE SumFunctionOnSet(a, U) \in Nat
    BY <2>1, SumNat
  <2>3. QED
    BY <2>1, <2>2
<1>2. \A l \in 0 .. K - 1 : g[l] \in Nat
  <2>1. \A l \in 0 .. K - 1 : Column(c, S, l) \in SUBSET S
    BY DEF Column
  <2>2. QED
    BY <1>1, <2>1
<1>3. Right(0)
  <2>1. 0 .. 0 - 1 = {} /\ Upto(0) = {}
    OBVIOUS
  <2>2. QED
    BY <2>1, SumEmpty
<1>4. ASSUME NEW k \in 0 .. K, k # 0, Right(k - 1) PROVE Right(k)
  <2>1. PICK l \in 0 .. K - 1 : l = k - 1 /\ l \in Nat
    BY <1>4
  <2>2. 0 .. k - 1 = (0 .. l - 1) \cup {l} /\ l \notin 0 .. l - 1
    BY <2>1
  <2>3. IsFiniteSet(0 .. l - 1)
    BY <2>1, FS_Interval
  <2>4. SumFunctionOnSet(g, (0 .. l - 1) \cup {l}) = g[l] + SumFunctionOnSet(g, 0 .. l - 1)
    <3>1. \A y \in (0 .. l - 1) \cup {l} : g[y] \in Nat
      BY <1>2
    <3>2. QED
      BY <2>2, <2>3, <3>1, SumAdd
  <2>5. Upto(k) \ Upto(l) = Column(c, S, l) /\ Upto(l) \in SUBSET Upto(k)
    BY <2>1 DEF Column
  <2>6. SumFunctionOnSet(a, Upto(k)) = SumFunctionOnSet(a, Upto(l)) + SumFunctionOnSet(a, Column(c, S, l))
    <3>1. IsFiniteSet(Upto(k)) /\ \A x \in Upto(k) : a[x] \in Nat
      BY <1>1
    <3> HIDE DEF Upto
    <3>2. SumFunctionOnSet(a, Upto(k)) = SumFunctionOnSet(a, Upto(l)) + SumFunctionOnSet(a, Upto(k) \ Upto(l))
      BY <2>5, <3>1, SumPart
    <3>3. QED
      BY <2>5, <3>2
  <2>7. g[l] \in Nat /\ SumFunctionOnSet(a, Upto(l)) \in Nat /\ g[l] = SumFunctionOnSet(a, Column(c, S, l))
    BY <1>1, <1>2
  <2>8. SumFunctionOnSet(g, 0 .. l - 1) = SumFunctionOnSet(a, Upto(l))
    BY <1>4, <2>1
  <2>9. SumFunctionOnSet(g, 0 .. k - 1) = SumFunctionOnSet(a, Upto(k))
    <3> HIDE DEF Upto
    <3>1. SumFunctionOnSet(g, 0 .. k - 1) = g[l] + SumFunctionOnSet(g, 0 .. l - 1)
      BY <2>2, <2>4
    <3>2. SumFunctionOnSet(a, Upto(k)) = SumFunctionOnSet(a, Upto(l)) + g[l]
      BY <2>6, <2>7
    <3>3. g[l] + SumFunctionOnSet(a, Upto(l)) = SumFunctionOnSet(a, Upto(l)) + g[l]
      BY <2>7
    <3>4. QED
      BY <2>8, <3>1, <3>2, <3>3
  <2>10. QED
    BY <2>9
<1>5. T = {}
  <2>1. SUFFICES ASSUME T # {} PROVE FALSE
    OBVIOUS
  <2> HIDE DEF Right
  <2>2. T \subseteq Nat
    OBVIOUS
  <2>3. PICK k \in T : \A j \in T : k <= j
    <3> HIDE DEF T
    <3>1. QED
      BY <2>1, <2>2, LeastNumber
  <2>4. k # 0 /\ k \in 0 .. K /\ ~Right(k)
    BY <1>3
  <2>5. k - 1 \in 0 .. K /\ ~(k <= k - 1)
    BY <2>4
  <2>6. Right(k - 1)
    BY <2>3, <2>5
  <2>7. QED
    BY <1>4, <2>4, <2>6
<1>6. Right(K)
  <2> HIDE DEF Right
  <2>1. K \in 0 .. K /\ K \notin T
    BY <1>5
  <2>2. QED
    BY <2>1
<1>7. Upto(K) = S
  OBVIOUS
<1>8. QED
  BY <1>6, <1>7

\* The bytes of the blocks of an array
LEMMA FiniteInterval == \A a, b \in Int : IsFiniteSet(a .. b)
BY FS_Interval

\* The elements that the blocks take are some of the n.
LEMMA BlocksOf ==
    ASSUME NEW n \in Nat, NEW neon
    PROVE  (IF neon /\ n >= PerBlock THEN Whole(n, PerBlock) ELSE 0) \in 0 .. n
BY UnitsAre, WholeIs

\* asm_opt_simd_sum_array: the lanes and the rest add up to the whole array.
THEOREM SumArrayIsSum ==
    ASSUME NEW a \in Seq(Nat), NEW neon
    PROVE  asm_opt_simd_sum_array(a, neon) = SumOf(a, DOMAIN a)
<1>1. PICK n \in Nat : n = Len(a) /\ DOMAIN a = 1 .. n /\ \A i \in 1 .. n : a[i] \in Nat
  OBVIOUS
<1>2. PICK b \in 0 .. n : b = IF neon /\ n >= PerBlock THEN Whole(n, PerBlock) ELSE 0
  BY <1>1, BlocksOf
<1>3. PICK K \in Nat : K = PerBlock /\ K # 0
  BY UnitsAre
<1> DEFINE lanes == [l \in 0 .. K - 1 |-> SumOf(a, {i \in 1 .. b : (i - 1) % K = l})]
           c == [i \in 1 .. b |-> (i - 1) % K]
<1>4. SumFunction(lanes) = SumFunctionOnSet(a, 1 .. b)
  <2>1. \A x \in 1 .. b : c[x] \in 0 .. K - 1
    <3>1. ASSUME NEW x \in 1 .. b PROVE (x - 1) % K \in 0 .. K - 1
      <4>1. PICK y \in Nat : y = x - 1
        BY <1>1
      <4>2. y % K \in 0 .. K - 1
        BY <1>3, UnitOf
      <4>3. QED
        BY <4>1, <4>2
    <3>2. QED
      BY <3>1
  <2>2. \A l \in 0 .. K - 1 : lanes[l] = SumFunctionOnSet(a, Column(c, 1 .. b, l))
    <3>1. ASSUME NEW l \in 0 .. K - 1
          PROVE  {i \in 1 .. b : (i - 1) % K = l} = Column(c, 1 .. b, l)
      BY DEF Column
    <3>2. QED
      BY <3>1 DEF SumOf
  <2>3. IsFiniteSet(1 .. b) /\ \A x \in 1 .. b : a[x] \in Nat
    BY <1>1, FiniteInterval
  <2>4. DOMAIN lanes = 0 .. K - 1
    OBVIOUS
  <2> HIDE DEF lanes, c
  <2>5. SumFunctionOnSet(lanes, 0 .. K - 1) = SumFunctionOnSet(a, 1 .. b)
    <3>1. PICK S : S = 1 .. b
      OBVIOUS
    <3>2. /\ \A x \in S : c[x] \in 0 .. K - 1
          /\ \A l \in 0 .. K - 1 : lanes[l] = SumFunctionOnSet(a, Column(c, S, l))
          /\ IsFiniteSet(S) /\ \A x \in S : a[x] \in Nat
      BY <2>1, <2>2, <2>3, <3>1
    <3>3. SumFunctionOnSet(lanes, 0 .. K - 1) = SumFunctionOnSet(a, S)
      <4>1. ColumnSums(lanes, K, a, S, c)
        BY <3>2 DEF ColumnSums
      <4>2. QED
        BY <4>1, SumOfColumns
    <3>4. QED
      BY <3>1, <3>3
  <2>6. QED
    BY <2>4, <2>5, SumFunctionIs
<1>5. SumFunctionOnSet(a, 1 .. n) = SumFunctionOnSet(a, 1 .. b) + SumFunctionOnSet(a, b + 1 .. n)
  <2>1. 1 .. b \in SUBSET (1 .. n) /\ (1 .. n) \ (1 .. b) = b + 1 .. n
    BY <1>1
  <2>2. IsFiniteSet(1 .. n)
    BY <1>1, FS_Interval
  <2>3. SumFunctionOnSet(a, 1 .. n) = SumFunctionOnSet(a, 1 .. b) + SumFunctionOnSet(a, (1 .. n) \ (1 .. b))
    BY <1>1, <2>1, <2>2, SumPart
  <2>4. QED
    BY <2>1, <2>3
<1>6. asm_opt_simd_sum_array(a, neon) = SumFunction(lanes) + SumOf(a, b + 1 .. n)
  BY <1>1, <1>2, <1>3 DEF asm_opt_simd_sum_array
<1>7. QED
  BY <1>1, <1>4, <1>5, <1>6 DEF SumOf

\* asm_opt_simd_max_array: the lanes start as elements of the array, so that
\* their maximum and that of the rest is the array's.
THEOREM MaxArrayIsMax ==
    ASSUME NEW a \in Seq(Nat), a # <<>>, NEW neon
    PROVE  asm_opt_simd_max_array(a, neon) = Max(Range(a))
<1>1. PICK n \in Nat : n = Len(a) /\ n # 0 /\ DOMAIN a = 1 .. n /\ \A i \in 1 .. n : a[i] \in Nat
  OBVIOUS
<1>2. PICK b \in 0 .. n : b = IF neon /\ n >= PerBlock THEN Whole(n, PerBlock) ELSE 0
  BY <1>1, BlocksOf
<1>3. PICK K \in Nat : K = PerBlock /\ K # 0 /\ (b > 0 => n >= K)
  BY <1>2, UnitsAre
<1>4. PICK L \in Nat : L = Lanes /\ L # 0 /\ L <= K
  BY <1>3, UnitsAre
<1>5. PICK top \in Nat : \A i \in 1 .. n : a[i] <= top
  <2>1. IsFiniteSet(1 .. n) /\ 1 .. n # {} /\ \A i \in 1 .. n : a[i] \in Int
    BY <1>1, FiniteInterval
  <2>2. \E m \in 1 .. n : \A x \in 1 .. n : a[m] >= a[x]
    BY <2>1, GreatestValue
  <2>3. QED
    BY <1>1, <2>2
<1> DEFINE R == Range(a)
           column(l) == {j \in 1 .. b : (j - 1) % K = l}
           start(l) == (l % L) + 1
           values(l) == {a[start(l)]} \cup {a[i] : i \in column(l)}
           S == {0} \cup (IF b > 0 THEN {Max(values(l)) : l \in 0 .. K - 1} ELSE {})
                    \cup {a[i] : i \in b + 1 .. n}
<1>6. /\ R = {a[i] : i \in 1 .. n} /\ R # {}
      /\ \A x \in R : x \in Nat /\ x <= top
  BY <1>1, <1>5 DEF Range
<1>7. Max(R) \in R /\ \A x \in R : Max(R) >= x
  <2> HIDE DEF R
  <2>1. top \in Int /\ \A x \in R : x \in Int /\ x <= top
    BY <1>6
  <2>2. QED
    BY <1>6, <2>1, MaxIs
<1>8. ASSUME NEW l \in 0 .. K - 1, b > 0
      PROVE  Max(values(l)) \in R /\ \A i \in column(l) : Max(values(l)) >= a[i]
  <2>1. start(l) \in 1 .. n
    <3>1. l % L \in 0 .. L - 1
      <4>1. l \in Nat /\ L \in Nat \ {0}
        BY <1>4
      <4>2. QED
        BY <4>1, UnitOf
    <3>2. QED
      BY <1>1, <1>3, <1>4, <1>8, <3>1
  <2>2. values(l) # {} /\ \A x \in values(l) : x \in R
    <3>1. column(l) \subseteq 1 .. n
      BY <1>1, <1>2
    <3> HIDE DEF column, start
    <3>2. \A x \in values(l) : \E i \in 1 .. n : x = a[i]
      BY <2>1, <3>1
    <3> HIDE DEF R, values
    <3>3. ASSUME NEW x \in values(l) PROVE x \in R
      <4>1. PICK i \in 1 .. n : x = a[i]
        BY <3>2
      <4>2. QED
        BY <1>6, <4>1
    <3>4. values(l) # {}
      BY DEF values
    <3>5. QED
      BY <3>3, <3>4
  <2>3. Max(values(l)) \in values(l) /\ \A x \in values(l) : Max(values(l)) >= x
    <3>1. \A x \in values(l) : x \in Int /\ x <= top
      <4> HIDE DEF R, values
      <4>1. QED
        BY <1>6, <2>2
    <3> HIDE DEF R, values
    <3>2. QED
      BY <2>2, <3>1, MaxIs
  <2>4. QED
    BY <2>2, <2>3
<1>9. ASSUME NEW x \in S PROVE x \in Nat /\ x <= Max(R)
  <2>1. x = 0 \/ x \in R
    <3>1. CASE x \in {a[i] : i \in b + 1 .. n}
      BY <1>1, <1>6, <3>1
    <3>2. CASE b > 0 /\ \E l \in 0 .. K - 1 : x = Max(values(l))
      <4> HIDE DEF R, values, column
      <4>1. QED
        BY <1>8, <3>2
    <3>3. QED
      BY <3>1, <3>2
  <2> HIDE DEF R, S
  <2>2. QED
    BY <1>6, <1>7, <2>1
<1>10. Max(R) \in S
  <2>1. PICK i \in 1 .. n : Max(R) = a[i]
    BY <1>6, <1>7
  <2>2. CASE i > b
    BY <2>1, <2>2
  <2>3. CASE i <= b
    <3>1. PICK y \in Nat : y = i - 1
      OBVIOUS
    <3>2. PICK l \in 0 .. K - 1 : l = y % K
      BY <1>3, UnitOf
    <3>3. b > 0 /\ i \in column(l)
      BY <2>3, <3>1, <3>2
    <3>4. Max(values(l)) \in R /\ Max(values(l)) >= a[i]
      <4> HIDE DEF R, values, column
      <4>1. QED
        BY <1>8, <3>3
    <3>5. Max(values(l)) = Max(R)
      <4> HIDE DEF R, values, column
      <4>1. Max(values(l)) \in Nat /\ Max(R) \in Nat
        BY <1>6, <1>7, <3>4
      <4>2. Max(values(l)) >= Max(R)
        BY <2>1, <3>4
      <4>3. Max(R) >= Max(values(l))
        BY <1>7, <3>4
      <4>4. QED
        BY <4>1, <4>2, <4>3
    <3>6. Max(values(l)) \in S
      <4> HIDE DEF values
      <4>1. QED
        BY <3>3
    <3>7. QED
      BY <3>5, <3>6
  <2> HIDE DEF R, S
  <2>4. i > b \/ i <= b
    BY <1>2
  <2>5. QED
    BY <2>2, <2>3, <2>4
<1>11. Max(S) = Max(R)
  <2> HIDE DEF R, S
  <2>1. Max(R) \in Int /\ S # {} /\ \A x \in S : x \in Int /\ x <= Max(R)
    BY <1>6, <1>7, <1>9, <1>10
  <2>2. Max(S) \in S /\ \A x \in S : Max(S) >= x
    BY <2>1, MaxIs
  <2>3. QED
    BY <1>10, <2>1, <2>2
<1>12. asm_opt_simd_max_array(a, neon) = Max(S)
  BY <1>1, <1>2, <1>3, <1>4 DEF asm_opt_simd_max_array
<1>13. QED
  BY <1>11, <1>12

------------------------------------------------------------------------------
(* Strings                                                                 *)

\* The memory has the text s and a NUL behind it at p.
Holds(m, N, p, s) ==
  /\ s \in Seq(Int) /\ p \in Nat /\ p + Len(s) <= N
  /\ \A i \in 0 .. Len(s) - 1 : m[p + i] = s[i + 1] /\ m[p + i] # NUL
  /\ m[p + Len(s)] = NUL

\* Where the NUL is.
LEMMA EndOf ==
    ASSUME NEW N \in Nat, NEW m \in Memories(N), NEW p, NEW s, Holds(m, N, p, s)
    PROVE  /\ Len(s) \in Nat /\ p \in Nat /\ p + Len(s) \in 0 .. N
           /\ m[p + Len(s)] = NUL
           /\ \A j \in p .. p + Len(s) - 1 : j \in 0 .. N /\ m[j] = s[j - p + 1] /\ m[j] # NUL
<1>1. Len(s) \in Nat /\ p \in Nat /\ p + Len(s) <= N /\ m[p + Len(s)] = NUL
  BY DEF Holds
<1>2. ASSUME NEW j \in p .. p + Len(s) - 1 PROVE j \in 0 .. N /\ m[j] = s[j - p + 1] /\ m[j] # NUL
  <2>1. PICK i \in 0 .. Len(s) - 1 : i = j - p /\ j = p + i
    BY <1>1
  <2>2. m[p + i] = s[i + 1] /\ m[p + i] # NUL
    BY <2>1 DEF Holds
  <2>3. j \in 0 .. N /\ i + 1 = j - p + 1
    BY <1>1, <2>1
  <2>4. QED
    BY <2>1, <2>2, <2>3
<1>3. QED
  BY <1>1, <1>2

\* The word of a byte, counted from p, and the words before it.
LEMMA WordOf ==
    ASSUME NEW N \in Nat, NEW p \in Nat, NEW e \in p .. N
    PROVE  \E w \in 0 .. (N + 1) \div Word :
             /\ w * Word \in Nat /\ p + w * Word <= e /\ e < p + w * Word + Word
             /\ \A u \in 0 .. w - 1 : u * Word \in Nat /\ p + u * Word + Word <= e
<1>1. PICK i \in Nat : i = e - p /\ i <= N
  OBVIOUS
<1>2. PICK w \in Nat : w = i \div Word
  BY WidthsAre, UnitOf
<1>3. PICK o \in Nat : o = w * Word /\ o <= i /\ i < o + Word
  <2>1. w * Word \in Nat /\ i = w * Word + (i % Word) /\ i % Word \in 0 .. Word - 1
    BY <1>2, WidthsAre, UnitOf
  <2>2. PICK r \in Nat : r = i % Word /\ r < Word
    BY <2>1, WidthsAre
  <2>3. QED
    BY <2>1, <2>2, WidthsAre
<1>4. w <= (N + 1) \div Word
  <2>1. PICK q \in Nat : q = (N + 1) \div Word /\ N + 1 < (q + 1) * Word
    <3>1. PICK M \in Nat : M = N + 1
      OBVIOUS
    <3>2. /\ M \div Word \in Nat /\ M = (M \div Word) * Word + (M % Word)
          /\ M % Word \in 0 .. Word - 1
      BY WidthsAre, UnitOf
    <3>3. PICK q \in Nat : q = M \div Word
      BY <3>2
    <3>4. PICK r \in Nat : r = M % Word /\ r < Word
      BY <3>2, WidthsAre
    <3>5. (q + 1) * Word = q * Word + Word /\ q * Word \in Nat
      BY WidthsAre, Products
    <3>6. M = q * Word + r
      BY <3>2, <3>3, <3>4
    <3>7. N + 1 < (q + 1) * Word
      BY <3>1, <3>4, <3>5, <3>6, WidthsAre
    <3>8. QED
      BY <3>1, <3>3, <3>7
  <2>2. SUFFICES ASSUME q + 1 <= w PROVE FALSE
    BY <2>1
  <2>3. (q + 1) * Word <= o /\ (q + 1) * Word \in Nat
    BY <1>3, <2>1, <2>2, WidthsAre, Products
  <2>4. QED
    BY <1>1, <1>3, <2>1, <2>3
<1>5. ASSUME NEW u \in 0 .. w - 1 PROVE u * Word \in Nat /\ p + u * Word + Word <= e
  <2>1. (u + 1) * Word <= o /\ (u + 1) * Word = u * Word + Word /\ u * Word \in Nat
    BY <1>3, WidthsAre, Products
  <2>2. PICK v \in Nat : v = u * Word
    BY <2>1
  <2>3. v + Word <= o
    BY <2>1, <2>2
  <2>4. QED
    BY <1>1, <1>3, <2>2, <2>3, WidthsAre
<1>6. w \in 0 .. (N + 1) \div Word
  <2>1. (N + 1) \div Word \in Nat
    BY WidthsAre, UnitOf
  <2>2. QED
    BY <1>4, <2>1
<1>7. w * Word \in Nat /\ p + w * Word <= e /\ e < p + w * Word + Word
  BY <1>1, <1>3, WidthsAre
<1>8. QED
  BY <1>5, <1>6, <1>7

\* The least word of a set of words
LEMMA LeastWord ==
    ASSUME NEW W, NEW w \in Nat, NEW c \in Nat, \A u \in W : u \in 0 .. c, w \in W,
           \A u \in 0 .. w - 1 : u \notin W
    PROVE  Min(W) = w
<1>1. W # {} /\ \A u \in W : u \in Nat
  OBVIOUS
<1>2. Min(W) \in W /\ \A u \in W : Min(W) <= u
  BY <1>1, MinIs
<1>3. PICK v \in Nat : v = Min(W) /\ v \in W /\ v <= w
  BY <1>1, <1>2
<1>4. ~(v < w)
  BY <1>3
<1>5. QED
  BY <1>3, <1>4

\* How many addresses a memory has.
LEMMA Addresses ==
    ASSUME NEW N \in Nat, NEW m \in Memories(N)
    PROVE  Cardinality(DOMAIN m) = N + 1 /\ DOMAIN m = 0 .. N
BY MemoryType, FS_Interval

\* The first word with a NUL
WordWithNul(m, p) == FirstWord(m, p, LAMBDA a : HasByte(m, a, NUL))

\* It is the word of the first NUL.
LEMMA NulWord ==
    ASSUME NEW N \in Nat, NEW m \in Memories(N), NEW p \in Nat, NEW e \in p .. N, m[e] = NUL,
           \A j \in p .. e - 1 : m[j] # NUL
    PROVE  /\ WordWithNul(m, p) \in p .. e /\ e < WordWithNul(m, p) + Word
           /\ \E w \in Nat : w * Word \in Nat /\ WordWithNul(m, p) = p + w * Word
<1> DEFINE c == (N + 1) \div Word
           W == {u \in 0 .. c : HasByte(m, p + u * Word, NUL)}
<1>1. PICK w \in 0 .. c :
             /\ w * Word \in Nat /\ p + w * Word <= e /\ e < p + w * Word + Word
             /\ \A u \in 0 .. w - 1 : u * Word \in Nat /\ p + u * Word + Word <= e
  BY WordOf
<1>2. c \in Nat
  BY WidthsAre, UnitOf
<1>3. w \in W
  <2>1. PICK a \in Nat : a = p + w * Word /\ a <= e /\ e < a + Word
    BY <1>1
  <2>2. e - a \in 0 .. Word - 1 /\ a + (e - a) = e
    BY <2>1, WidthsAre
  <2>3. At(m, e) = NUL
    BY MemoryType DEF At
  <2>4. HasByte(m, a, NUL)
    BY <2>2, <2>3 DEF HasByte
  <2>5. QED
    BY <2>1, <2>4
<1>4. ASSUME NEW u \in 0 .. w - 1 PROVE u \notin W
  <2>1. PICK a \in Nat : a = p + u * Word /\ a >= p /\ a + Word <= e
    BY <1>1
  <2>2. ASSUME NEW i \in 0 .. Word - 1 PROVE At(m, a + i) # NUL
    <3>1. a + i \in p .. e - 1 /\ a + i \in 0 .. N
      BY <2>1, WidthsAre
    <3>2. QED
      BY <3>1, MemoryType DEF At
  <2>3. ~HasByte(m, a, NUL)
    BY <2>2 DEF HasByte
  <2>4. QED
    BY <2>1, <2>3
<1>5. Min(W) = w
  <2>1. \A u \in W : u \in 0 .. c
    OBVIOUS
  <2> HIDE DEF W, c
  <2>2. w \in Nat
    BY <1>2
  <2>3. QED
    BY <1>2, <1>3, <1>4, <2>1, <2>2, LeastWord
<1>6. FirstWord(m, p, LAMBDA a : HasByte(m, a, NUL)) = p + Word * Min(W)
  BY Addresses DEF FirstWord
<1>7. w \in Nat /\ Word * w = w * Word
  <2>1. w \in Nat /\ Word \in Nat
    BY <1>2, WidthsAre
  <2>2. QED
    BY <2>1, Products
<1>8. WordWithNul(m, p) = p + w * Word
  BY <1>5, <1>6, <1>7 DEF WordWithNul
<1>9. PICK x \in Nat : x = w * Word /\ p + x <= e /\ e < p + x + Word
  BY <1>1
<1>10. QED
  BY <1>7, <1>8, <1>9, WidthsAre

\* The byte loop from any place before it finds the first NUL.
LEMMA NulFrom ==
    ASSUME NEW N \in Nat, NEW m \in Memories(N), NEW w \in Nat, NEW e \in w .. N, m[e] = NUL,
           \A j \in w .. e - 1 : m[j] # NUL
    PROVE  FirstFrom(m, w, NUL) = e
<1> DEFINE I == {i \in DOMAIN m : i >= w /\ m[i] = NUL}
<1>1. e \in I /\ \A i \in I : i \in Nat /\ e <= i
  BY MemoryType
<1>2. Min(I) \in I /\ \A i \in I : Min(I) <= i
  <2> HIDE DEF I
  <2>1. QED
    BY <1>1, MinIs
<1>3. Min(I) = e
  BY <1>1, <1>2
<1>4. QED
  BY <1>3 DEF FirstFrom

\* asm_opt_strlen: what lies behind the NUL in its word does not matter.
THEOREM StrlenIsLength ==
    ASSUME NEW N \in Nat, NEW m \in Memories(N), NEW p \in Nat, NEW s, Holds(m, N, p, s)
    PROVE  asm_opt_strlen(m, p) = Len(s)
<1>1. PICK e \in Nat : e = p + Len(s) /\ e \in p .. N /\ Len(s) = e - p
  BY EndOf
<1>2. m[e] = NUL /\ \A j \in p .. e - 1 : m[j] # NUL
  BY <1>1, EndOf
<1>3. PICK w \in p .. e : WordWithNul(m, p) = w
  BY <1>1, <1>2, NulWord
<1>4. FirstFrom(m, w, NUL) = e
  <2>1. w \in Nat /\ e \in w .. N /\ \A j \in w .. e - 1 : m[j] # NUL
    BY <1>1, <1>2
  <2>2. QED
    BY <1>2, <2>1, NulFrom
<1>5. QED
  BY <1>1, <1>3, <1>4 DEF asm_opt_strlen, WordWithNul

\* The text of a string as its places in memory.
LEMMA StringEnd ==
    ASSUME NEW N \in Nat, NEW m \in Memories(N), NEW p \in Nat, NEW s, Holds(m, N, p, s)
    PROVE  \E e \in p .. N : /\ e = p + Len(s) /\ m[e] = NUL /\ \A j \in p .. e - 1 : m[j] # NUL
                             /\ WordWithNul(m, p) \in p .. e /\ e < WordWithNul(m, p) + Word
                             /\ \E w \in Nat : w * Word \in Nat /\ WordWithNul(m, p) = p + w * Word
                             /\ FirstFrom(m, WordWithNul(m, p), NUL) = e
                             /\ FirstFrom(m, p, NUL) = e
<1>1. PICK e \in Nat : e = p + Len(s) /\ e \in p .. N
  BY EndOf
<1>2. m[e] = NUL /\ \A j \in p .. e - 1 : m[j] # NUL
  BY <1>1, EndOf
<1>3. /\ WordWithNul(m, p) \in p .. e /\ e < WordWithNul(m, p) + Word
      /\ \E w \in Nat : w * Word \in Nat /\ WordWithNul(m, p) = p + w * Word
  BY <1>1, <1>2, NulWord
<1>4. PICK w \in Nat : w = WordWithNul(m, p) /\ p <= w /\ w <= e
  BY <1>3
<1>5. FirstFrom(m, w, NUL) = e
  <2>1. e \in w .. N /\ \A j \in w .. e - 1 : m[j] # NUL
    BY <1>1, <1>2, <1>4
  <2>2. QED
    BY <1>2, <2>1, NulFrom
<1>6. FirstFrom(m, p, NUL) = e
  BY <1>1, <1>2, NulFrom
<1>7. QED
  BY <1>1, <1>2, <1>3, <1>4, <1>5, <1>6

\* asm_opt_strrchr: the last place of c, if c is not the NUL.
THEOREM StrrchrIsLast ==
    ASSUME NEW N \in Nat, NEW m \in Memories(N), NEW p \in Nat, NEW s, Holds(m, N, p, s), NEW c
    PROVE  LET hits == {i \in p .. p + Len(s) - 1 : m[i] = c}
           IN  asm_opt_strrchr(m, p, c) = IF hits = {} THEN NotFound ELSE Max(hits)
<1>1. PICK e \in p .. N : /\ e = p + Len(s)
                          /\ WordWithNul(m, p) \in p .. e
                          /\ FirstFrom(m, WordWithNul(m, p), NUL) = e
  BY StringEnd
<1>2. PICK w \in p .. e : w = WordWithNul(m, p)
  BY <1>1
<1>3. {i \in p .. w - 1 : m[i] = c} \cup {i \in w .. e - 1 : m[i] = c} = {i \in p .. e - 1 : m[i] = c}
  <2>1. p .. e - 1 = (p .. w - 1) \cup (w .. e - 1)
    BY <1>2
  <2>2. QED
    BY <2>1
<1>4. asm_opt_strrchr(m, p, c) =
        LET hits == {i \in p .. w - 1 : m[i] = c} \cup {i \in w .. e - 1 : m[i] = c}
        IN  IF hits = {} THEN NotFound ELSE Max(hits)
  BY <1>1, <1>2 DEF asm_opt_strrchr, WordWithNul
<1> DEFINE H == {i \in p .. e - 1 : m[i] = c}
<1>5. asm_opt_strrchr(m, p, c) = IF H = {} THEN NotFound ELSE Max(H)
  BY <1>3, <1>4, Zenon
<1>6. H = {i \in p .. p + Len(s) - 1 : m[i] = c}
  <2>1. p .. p + Len(s) - 1 = p .. e - 1
    BY <1>1
  <2>2. QED
    BY <2>1, Zenon
<1>7. QED
  BY <1>5, <1>6, Zenon

\* asm_opt_strcpy: the words before the one with the NUL and the bytes up to
\* the NUL are the string and its NUL.
THEOREM StrcpyIsMove ==
    ASSUME NEW N \in Nat, NEW m \in Memories(N), NEW p \in Nat, NEW s, Holds(m, N, p, s),
           NEW d \in Int, d <= p \/ p + Len(s) < d
    PROVE  asm_opt_strcpy(m, d, p) = Moved(m, d, p, Len(s) + 1)
<1>1. PICK e \in p .. N : /\ e = p + Len(s) /\ WordWithNul(m, p) \in p .. e
                          /\ \E w \in Nat : w * Word \in Nat /\ WordWithNul(m, p) = p + w * Word
                          /\ FirstFrom(m, WordWithNul(m, p), NUL) = e
  BY StringEnd
<1>2. PICK w \in p .. e : w = WordWithNul(m, p)
  BY <1>1
<1>3. PICK a \in Nat : a = w - p
  BY <1>2
<1>4. Whole(a, Word) = a
  <2>1. PICK u \in Nat : u * Word \in Nat /\ w = p + u * Word
    BY <1>1, <1>2
  <2>2. a = u * Word
    BY <1>3, <2>1
  <2>3. a \div Word = u
    BY <2>1, <2>2, WidthsAre, Z3
  <2>4. QED
    BY <2>2, <2>3 DEF Whole
<1>5. PICK n \in Nat : n = Len(s) + 1 /\ n = e + 1 - p /\ p + n <= N + 1 /\ (d <= p \/ p + n <= d)
  BY <1>1
<1>6. PICK b \in Nat : b = e + 1 - w /\ n = a + b
  BY <1>2, <1>3, <1>5
<1>7. PICK body : body = CopyUp(m, d, p, a, Word)
  OBVIOUS
<1>8. body = Moved(m, d, p, a) /\ body \in Memories(N)
  <2>1. p + a <= N + 1 /\ (d <= p \/ p + a <= d) /\ 0 <= p
    BY <1>5, <1>6
  <2>2. CopyUp(m, d, p, a, Word) = Moved(m, d, p, Whole(a, Word))
    BY <2>1, WidthsAre, CopyUpIs
  <2>3. Moved(m, d, p, a) \in Memories(N)
    <3>1. \A i \in p .. p + a - 1 : i \in 0 .. N
      BY <2>1
    <3>2. QED
      BY <3>1, MovedIs
  <2>4. QED
    BY <1>4, <1>7, <2>2, <2>3
<1>9. PICK f \in Int : f = d + w - p /\ f = d + a
  BY <1>3
<1>10. CopyUp(body, f, w, b, 1) = Moved(body, f, w, b)
  <2>1. 0 <= w /\ w + b <= N + 1 /\ (f <= w \/ w + b <= f) /\ w \in Int
    BY <1>3, <1>5, <1>6, <1>9
  <2>2. CopyUp(body, f, w, b, 1) = Moved(body, f, w, Whole(b, 1))
    BY <1>8, <2>1, CopyUpIs
  <2>3. QED
    BY <2>2, WholeOne
<1>11. Moved(Moved(m, d, p, a), f, w, b) = Moved(m, d, p, n)
  <2>1. w = p + a /\ w \in Int /\ 0 <= p
    BY <1>3
  <2>2. QED
    BY <1>5, <1>6, <1>9, <2>1, MovedUp
<1>12. asm_opt_strcpy(m, d, p) = CopyUp(body, f, w, b, 1)
  BY <1>1, <1>2, <1>3, <1>6, <1>7, <1>9 DEF asm_opt_strcpy, WordWithNul
<1>13. QED
  BY <1>5, <1>8, <1>10, <1>11, <1>12

\* asm_opt_strncpy: a string of at least n characters is cut at n; a shorter
\* one is padded with n - Len(s) + 1 NULs, one byte more than the C library's.
THEOREM StrncpyIsMoveAndFill ==
    ASSUME NEW N \in Nat, NEW m \in Memories(N), NEW p \in Nat, NEW s, Holds(m, N, p, s),
           NEW d \in Int, NEW n \in Nat, p + n <= N + 1, d <= p \/ p + n <= d
    PROVE  asm_opt_strncpy(m, d, p, n) =
             IF Len(s) >= n THEN Moved(m, d, p, n)
             ELSE Filled(Moved(m, d, p, Len(s)), d + Len(s), NUL, n - Len(s) + 1)
<1>1. PICK e \in p .. N : e = p + Len(s) /\ FirstFrom(m, p, NUL) = e
  BY StringEnd
<1>2. PICK len \in Nat : len = e - p /\ len = Len(s)
  BY <1>1, EndOf
<1>3. CASE len >= n
  <2>1. PICK a \in 0 .. n : a = Whole(n, Word)
    BY WidthsAre, WholeIs
  <2>2. PICK b \in Nat : b = n - a /\ n = a + b
    OBVIOUS
  <2>3. PICK body : body = CopyUp(m, d, p, n, Word)
    OBVIOUS
  <2>4. body = Moved(m, d, p, a) /\ body \in Memories(N)
    <3>1. CopyUp(m, d, p, n, Word) = Moved(m, d, p, Whole(n, Word))
      BY WidthsAre, CopyUpIs
    <3>2. Moved(m, d, p, a) \in Memories(N)
      <4>1. \A i \in p .. p + a - 1 : i \in 0 .. N
        OBVIOUS
      <4>2. QED
        BY <4>1, MovedIs
    <3>3. QED
      BY <2>1, <2>3, <3>1, <3>2
  <2>5. PICK f \in Int : f = d + a
    OBVIOUS
  <2>6. PICK g \in Int : g = p + a /\ 0 <= g /\ g + b <= N + 1 /\ (f <= g \/ g + b <= f)
    BY <2>2, <2>5
  <2>7. CopyUp(body, f, g, b, 1) = Moved(body, f, g, b)
    <3>1. CopyUp(body, f, g, b, 1) = Moved(body, f, g, Whole(b, 1))
      BY <2>4, <2>6, CopyUpIs
    <3>2. QED
      BY <3>1, WholeOne
  <2>8. Moved(Moved(m, d, p, a), f, g, b) = Moved(m, d, p, n)
    BY <2>2, <2>5, <2>6, MovedUp
  <2>9. asm_opt_strncpy(m, d, p, n) = CopyUp(body, f, g, b, 1)
    BY <1>1, <1>2, <1>3, <2>1, <2>2, <2>3, <2>5, <2>6 DEF asm_opt_strncpy
  <2>10. QED
    BY <1>2, <1>3, <2>4, <2>7, <2>8, <2>9
<1>4. CASE ~(len >= n)
  BY <1>1, <1>2, <1>4 DEF asm_opt_strncpy
<1>5. QED
  BY <1>3, <1>4

\* A search by words stops at the word of the first byte that stops it.
LEMMA WordStop ==
    ASSUME NEW N \in Nat, NEW p \in Nat, NEW f \in p .. N, NEW W,
           \A u \in W : u \in 0 .. (N + 1) \div Word,
           \A u \in 0 .. (N + 1) \div Word :
              /\ p + u * Word <= f /\ f < p + u * Word + Word => u \in W
              /\ p + u * Word + Word <= f => u \notin W
    PROVE  p + Word * Min(W) \in p .. f /\ f < p + Word * Min(W) + Word
<1>1. PICK c \in Nat : c = (N + 1) \div Word
  BY WidthsAre, UnitOf
<1>2. PICK w \in 0 .. c :
             /\ w * Word \in Nat /\ p + w * Word <= f /\ f < p + w * Word + Word
             /\ \A u \in 0 .. w - 1 : u * Word \in Nat /\ p + u * Word + Word <= f
  BY <1>1, WordOf
<1>3. w \in Nat /\ w \in W
  BY <1>1, <1>2
<1>4. \A u \in 0 .. w - 1 : u \notin W
  <2>1. ASSUME NEW u \in 0 .. w - 1 PROVE u \notin W
    <3>1. u \in 0 .. c
      BY <1>2
    <3>2. p + u * Word + Word <= f
      BY <1>2
    <3>3. QED
      BY <1>1, <3>1, <3>2
  <2>2. QED
    BY <2>1
<1>5. Min(W) = w
  BY <1>1, <1>3, <1>4, LeastWord
<1>6. Word * w = w * Word
  BY <1>3, WidthsAre, Products
<1>7. PICK x \in Nat : x = Word * Min(W) /\ p + x <= f /\ f < p + x + Word
  BY <1>2, <1>5, <1>6
<1>8. QED
  BY <1>7, WidthsAre

\* A word in the memory has a byte when it is at one of its places.
LEMMA WordHas ==
    ASSUME NEW N \in Nat, NEW m \in Memories(N), NEW a \in Nat, NEW f \in a .. N, f < a + Word
    PROVE  HasByte(m, a, m[f])
<1>1. f - a \in 0 .. Word - 1 /\ a + (f - a) = f /\ f \in 0 .. N
  BY WidthsAre
<1>2. At(m, f) = m[f]
  BY <1>1, MemoryType DEF At
<1>3. QED
  BY <1>1, <1>2 DEF HasByte

\* The test for a byte in a word is negative when no byte of it is c.
LEMMA WordHasNot ==
    ASSUME NEW N \in Nat, NEW m \in Memories(N), NEW a \in Nat, a + Word <= N + 1, NEW c,
           \A j \in a .. a + Word - 1 : m[j] # c
    PROVE  ~HasByte(m, a, c)
<1>1. ASSUME NEW i \in 0 .. Word - 1 PROVE At(m, a + i) # c
  <2>1. PICK j \in Nat : j = a + i
    BY WidthsAre
  <2>2. j \in a .. a + Word - 1 /\ j \in 0 .. N
    BY <2>1, WidthsAre
  <2>3. At(m, j) = m[j]
    BY <2>2, MemoryType DEF At
  <2>4. QED
    BY <2>1, <2>2, <2>3
<1>2. QED
  BY <1>1 DEF HasByte

\* asm_opt_strchr: the first place of c, which may be the NUL.
THEOREM StrchrIsFirst ==
    ASSUME NEW N \in Nat, NEW m \in Memories(N), NEW p \in Nat, NEW s, Holds(m, N, p, s), NEW c
    PROVE  LET hits == {i \in p .. p + Len(s) : m[i] = c}
           IN  asm_opt_strchr(m, p, c) = IF hits = {} THEN NotFound ELSE Min(hits)
<1>1. PICK e \in p .. N : e = p + Len(s) /\ m[e] = NUL /\ \A j \in p .. e - 1 : m[j] # NUL
  BY StringEnd
<1> DEFINE T == {i \in p .. e : m[i] = c \/ m[i] = NUL}
           H == {i \in p .. e : m[i] = c}
           W == {u \in 0 .. (N + 1) \div Word : HasByte(m, p + u * Word, c) \/ HasByte(m, p + u * Word, NUL)}
<1>2. PICK f \in p .. e : (m[f] = c \/ m[f] = NUL) /\ \A j \in p .. f - 1 : m[j] # c /\ m[j] # NUL
  <2>1. e \in T /\ \A i \in T : i \in Nat
    BY <1>1
  <2>2. Min(T) \in T /\ \A i \in T : Min(T) <= i
    <3> HIDE DEF T
    <3>1. QED
      BY <2>1, MinIs
  <2>3. PICK f \in p .. e : f = Min(T) /\ (m[f] = c \/ m[f] = NUL) /\ \A i \in T : f <= i
    BY <2>2
  <2>4. ASSUME NEW j \in p .. f - 1 PROVE m[j] # c /\ m[j] # NUL
    <3>1. j \in p .. e /\ ~(f <= j)
      OBVIOUS
    <3>2. j \notin T
      BY <2>3, <3>1
    <3>3. QED
      BY <3>1, <3>2
  <2>5. QED
    BY <2>3, <2>4
<1>3. f \in p .. N
  BY <1>1
<1>4. ASSUME NEW u \in 0 .. (N + 1) \div Word
      PROVE  /\ p + u * Word <= f /\ f < p + u * Word + Word => u \in W
             /\ p + u * Word + Word <= f => u \notin W
  <2>1. u * Word \in Nat
    BY WidthsAre, Products
  <2>2. PICK a \in Nat : a = p + u * Word
    BY <2>1
  <2>3. CASE a <= f /\ f < a + Word
    <3>1. f \in a .. N
      BY <1>3, <2>3
    <3>2. HasByte(m, a, m[f])
      BY <2>3, <3>1, WordHas
    <3>3. HasByte(m, a, c) \/ HasByte(m, a, NUL)
      BY <1>2, <3>2
    <3>4. u \in W
      BY <2>2, <3>3
    <3>5. ~(a + Word <= f)
      BY <2>3, WidthsAre
    <3>6. QED
      BY <2>2, <3>4, <3>5
  <2>4. CASE a + Word <= f
    <3>1. a + Word <= N + 1 /\ a >= p /\ ~(f < a + Word)
      BY <1>3, <2>1, <2>2, <2>4, WidthsAre
    <3>2. \A j \in a .. a + Word - 1 : m[j] # c /\ m[j] # NUL
      <4>1. \A j \in a .. a + Word - 1 : j \in p .. f - 1
        BY <2>4, <3>1, WidthsAre
      <4>2. QED
        BY <1>2, <4>1
    <3>3. ~HasByte(m, a, c) /\ ~HasByte(m, a, NUL)
      BY <3>1, <3>2, WordHasNot
    <3>4. u \notin W
      BY <2>2, <3>3
    <3>5. QED
      BY <2>2, <3>1, <3>4
  <2>5. QED
    BY <2>2, <2>3, <2>4
<1>5. p + Word * Min(W) \in p .. f /\ f < p + Word * Min(W) + Word
  <2>1. \A u \in W : u \in 0 .. (N + 1) \div Word
    OBVIOUS
  <2> HIDE DEF W
  <2>2. QED
    BY <1>3, <1>4, <2>1, WordStop
<1>6. PICK w \in p .. f : w = p + Word * Min(W) /\ f < w + Word
  BY <1>5
<1> DEFINE I == {j \in w .. w + Word - 1 : m[j] = c \/ m[j] = NUL}
<1>7. Min(I) = f
  <2>1. f \in w .. w + Word - 1 /\ f \in Nat
    BY <1>6, WidthsAre
  <2>2. f \in I
    BY <1>2, <2>1
  <2>3. ASSUME NEW j \in I PROVE j \in Nat /\ f <= j
    <3>1. j \in Nat /\ w <= j /\ (m[j] = c \/ m[j] = NUL)
      BY <1>6, WidthsAre
    <3>2. ~(j \in p .. f - 1)
      BY <1>2, <3>1
    <3>3. QED
      BY <1>6, <3>1, <3>2
  <2> HIDE DEF I
  <2>4. QED
    BY <2>1, <2>2, <2>3, LeastIs
<1>8. asm_opt_strchr(m, p, c) = IF m[f] = c THEN f ELSE NotFound
  <2>1. FirstWord(m, p, LAMBDA a : HasByte(m, a, c) \/ HasByte(m, a, NUL)) = w
    BY <1>6, Addresses DEF FirstWord
  <2>2. asm_opt_strchr(m, p, c) = IF m[Min(I)] = c THEN Min(I) ELSE NotFound
    BY <2>1 DEF asm_opt_strchr
  <2>3. QED
    BY <1>7, <2>2
<1>9. asm_opt_strchr(m, p, c) = IF H = {} THEN NotFound ELSE Min(H)
  <2>1. CASE m[f] = c
    <3>1. f \in H /\ \A j \in H : j \in Nat /\ f <= j
      BY <1>2, <2>1
    <3>2. f \in Nat
      OBVIOUS
    <3> HIDE DEF H
    <3>3. Min(H) = f
      BY <3>1, <3>2, LeastIs
    <3>4. QED
      BY <1>8, <2>1, <3>1, <3>3
  <2>2. CASE m[f] # c
    <3>1. f = e
      BY <1>1, <1>2, <2>2
    <3>2. H = {}
      BY <1>2, <2>2, <3>1
    <3>3. QED
      BY <1>8, <2>2, <3>2
  <2>3. QED
    BY <2>1, <2>2
<1>10. H = {i \in p .. p + Len(s) : m[i] = c}
  <2>1. p + Len(s) = e
    BY <1>1
  <2>2. QED
    BY <2>1, Zenon
<1>11. QED
  BY <1>9, <1>10, Zenon

------------------------------------------------------------------------------
(* The order of two strings                                                *)

\* The lesser of two numbers.
LEMMA LesserOf ==
    ASSUME NEW a \in Nat, NEW b \in Nat
    PROVE  Min({a, b}) = IF a <= b THEN a ELSE b
<1>1. CASE a <= b
  BY <1>1, LeastIs
<1>2. CASE ~(a <= b)
  BY <1>2, LeastIs
<1>3. QED
  BY <1>1, <1>2

\* The characters of a string and the NUL behind them.
LEMMA TerminatedIs ==
    ASSUME NEW s \in Seq(Int), NEW i \in 1 .. Len(s) + 1
    PROVE  Terminated(s)[i] = IF i <= Len(s) THEN s[i] ELSE NUL
BY DEF Terminated, NUL

\* The first n characters of a text, or all of them.
LEMMA CutIs ==
    ASSUME NEW T, NEW s \in Seq(T), NEW n \in Nat
    PROVE  /\ Cut(s, n) \in Seq(T)
           /\ Len(Cut(s, n)) = (IF n <= Len(s) THEN n ELSE Len(s))
           /\ \A i \in 1 .. Len(Cut(s, n)) : Cut(s, n)[i] = s[i]
<1>1. Cut(s, n) = SubSeq(s, 1, IF n <= Len(s) THEN n ELSE Len(s))
  BY LesserOf DEF Cut
<1>2. PICK k \in 0 .. Len(s) : k = IF n <= Len(s) THEN n ELSE Len(s)
  OBVIOUS
<1>3. Cut(s, n) = SubSeq(s, 1, k)
  BY <1>1, <1>2
<1>4. /\ SubSeq(s, 1, k) \in Seq(T) /\ Len(SubSeq(s, 1, k)) = k
      /\ \A i \in 1 .. k : SubSeq(s, 1, k)[i] = s[i]
  BY SubSeqProperties
<1>5. QED
  BY <1>2, <1>3, <1>4

\* Two strings that are equal up to f and have a and b there, which differ or
\* end both.
Apart(s, t, f, a, b) ==
  /\ f <= Len(s) /\ f <= Len(t) /\ \A j \in 1 .. f : s[j] = t[j]
  /\ a = (IF f < Len(s) THEN s[f + 1] ELSE NUL)
  /\ b = (IF f < Len(t) THEN t[f + 1] ELSE NUL)
  /\ a # b \/ (f = Len(s) /\ f = Len(t))

\* The order of two strings is the difference at the first place that sets them apart.
LEMMA OrderAt ==
    ASSUME NEW s \in Seq(Int), NEW t \in Seq(Int), NEW f \in Nat, NEW a \in Int, NEW b \in Int,
           Apart(s, t, f, a, b)
    PROVE  Order(s, t) = a - b
<1> USE DEF Apart
<1>1. PICK k \in Nat : k = Min({Len(s), Len(t)}) /\ k <= Len(s) /\ k <= Len(t) /\ f <= k
  <2>1. Len(s) \in Nat /\ Len(t) \in Nat
    OBVIOUS
  <2>2. Min({Len(s), Len(t)}) = IF Len(s) <= Len(t) THEN Len(s) ELSE Len(t)
    BY <2>1, LesserOf
  <2>3. Min({Len(s), Len(t)}) \in {Len(s), Len(t)}
    BY <2>2
  <2>4. Min({Len(s), Len(t)}) \in Nat
    BY <2>1, <2>3
  <2>5. Min({Len(s), Len(t)}) <= Len(s) /\ Min({Len(s), Len(t)}) <= Len(t) /\ f <= Min({Len(s), Len(t)})
    BY <2>1, <2>2
  <2>6. QED
    BY <2>4, <2>5
<1> DEFINE D == {i \in 1 .. k + 1 : Terminated(s)[i] # Terminated(t)[i]}
<1>2. Order(s, t) = IF D = {} THEN 0 ELSE Terminated(s)[Min(D)] - Terminated(t)[Min(D)]
  BY <1>1 DEF Order
<1>3. f + 1 \in 1 .. k + 1 /\ Terminated(s)[f + 1] = a /\ Terminated(t)[f + 1] = b
  <2>1. f + 1 \in 1 .. Len(s) + 1 /\ f + 1 \in 1 .. Len(t) + 1
    OBVIOUS
  <2>2. Terminated(s)[f + 1] = IF f + 1 <= Len(s) THEN s[f + 1] ELSE NUL
    BY <2>1, TerminatedIs
  <2>3. Terminated(t)[f + 1] = IF f + 1 <= Len(t) THEN t[f + 1] ELSE NUL
    BY <2>1, TerminatedIs
  <2>4. QED
    BY <1>1, <2>2, <2>3
<1>4. ASSUME NEW j \in 1 .. f PROVE Terminated(s)[j] = Terminated(t)[j]
  <2>1. Len(s) \in Nat /\ Len(t) \in Nat
    OBVIOUS
  <2>2. f <= Len(s) /\ f <= Len(t) /\ s[j] = t[j]
    OBVIOUS
  <2> HIDE DEF Apart
  <2>3. j \in 1 .. Len(s) + 1 /\ j \in 1 .. Len(t) + 1 /\ j <= Len(s) /\ j <= Len(t)
    BY <2>1, <2>2
  <2>4. Terminated(s)[j] = s[j] /\ Terminated(t)[j] = t[j]
    BY <2>3, TerminatedIs
  <2>5. QED
    BY <2>2, <2>4
<1>5. CASE a # b
  <2>1. f + 1 \in D /\ f + 1 \in Nat
    BY <1>3, <1>5
  <2>2. ASSUME NEW j \in D PROVE j \in Nat /\ f + 1 <= j
    <3>1. j \in 1 .. k + 1 /\ j \notin 1 .. f
      BY <1>4
    <3>2. QED
      BY <3>1
  <2> HIDE DEF D
  <2>3. Min(D) = f + 1
    BY <2>1, <2>2, LeastIs
  <2>4. QED
    BY <1>2, <1>3, <2>1, <2>3
<1>6. CASE a = b
  <2>1. f = Len(s) /\ f = Len(t) /\ k = f
    BY <1>1, <1>6
  <2>2. ASSUME NEW j \in D PROVE FALSE
    <3>1. j \in 1 .. f \/ j = f + 1
      BY <2>1
    <3>2. QED
      BY <1>3, <1>4, <1>6, <3>1
  <2>3. D = {}
    BY <2>2
  <2>4. QED
    BY <1>2, <1>6, <2>3
<1>7. QED
  BY <1>5, <1>6

\* The strings at p and q part at offset f: they are equal before and not
\* ended, and differ or end there.
PartAt(m, p, q, f) ==
  /\ \A j \in 0 .. f - 1 : m[p + j] = m[q + j] /\ m[p + j] # NUL
  /\ m[p + f] # m[q + f] \/ m[p + f] = NUL

\* Two strings in memory differ somewhere up to the end of the shorter, or both end there.
LEMMA Parting ==
    ASSUME NEW N \in Nat, NEW m \in Memories(N), NEW p \in Nat, NEW q \in Nat, NEW s, NEW t,
           Holds(m, N, p, s), Holds(m, N, q, t)
    PROVE  \E f \in Nat : f <= Len(s) /\ f <= Len(t) /\ PartAt(m, p, q, f)
<1>1. PICK k \in Nat : k = Len(s) /\ m[p + k] = NUL
  <2>1. Len(s) \in Nat /\ m[p + Len(s)] = NUL
    BY EndOf
  <2>2. QED
    BY <2>1
<1>2. PICK l \in Nat : l = Len(t) /\ m[q + l] = NUL
  <2>1. Len(t) \in Nat /\ m[q + Len(t)] = NUL
    BY EndOf
  <2>2. QED
    BY <2>1
<1> DEFINE T == {j \in 0 .. k : m[p + j] # m[q + j] \/ m[p + j] = NUL}
<1>3. PICK f \in 0 .. k : f \in T /\ \A j \in T : f <= j
  <2>1. k \in T /\ \A j \in T : j \in Nat
    BY <1>1
  <2>2. PICK f \in T : \A j \in T : f <= j
    <3> HIDE DEF T
    <3>1. Min(T) \in T /\ \A j \in T : Min(T) <= j
      BY <2>1, MinIs
    <3>2. QED
      BY <3>1
  <2>3. QED
    BY <2>2
<1>4. ASSUME NEW j \in 0 .. f - 1 PROVE m[p + j] = m[q + j] /\ m[p + j] # NUL
  <2>1. j \in 0 .. k /\ ~(f <= j)
    OBVIOUS
  <2>2. j \notin T
    BY <1>3, <2>1
  <2>3. QED
    BY <2>1, <2>2
<1>5. f <= l
  <2>1. SUFFICES ASSUME l < f PROVE FALSE
    OBVIOUS
  <2>2. l \in 0 .. f - 1
    BY <2>1
  <2>3. QED
    BY <1>2, <1>4, <2>2
<1>6. PartAt(m, p, q, f)
  BY <1>3, <1>4 DEF PartAt
<1>7. QED
  BY <1>1, <1>2, <1>5, <1>6

\* The order of the texts from the memory, cut at n or not.
OrderedAt(s, t, f, x) ==
  /\ Order(s, t) = x
  /\ \A n \in Nat : f < n => Order(Cut(s, n), Cut(t, n)) = x
  /\ \A n \in Nat : n <= f => Order(Cut(s, n), Cut(t, n)) = 0

\* The bytes at that place in memory are those that set the strings apart.
LEMMA OrderInMemory ==
    ASSUME NEW N \in Nat, NEW m \in Memories(N), NEW p \in Nat, NEW q \in Nat, NEW s, NEW t,
           Holds(m, N, p, s), Holds(m, N, q, t),
           NEW f \in Nat, f <= Len(s), f <= Len(t), PartAt(m, p, q, f)
    PROVE  OrderedAt(s, t, f, m[p + f] - m[q + f]) /\ m[p + f] \in Int /\ m[q + f] \in Int
<1>1. s \in Seq(Int) /\ t \in Seq(Int)
  BY DEF Holds
<1>2. PICK k \in Nat : k = Len(s) /\ p + k <= N
  BY EndOf
<1>3. PICK l \in Nat : l = Len(t) /\ q + l <= N
  BY EndOf
<1>4. \A i \in 0 .. k : m[p + i] = IF i < k THEN s[i + 1] ELSE NUL
  <2>1. m[p + k] = NUL /\ \A i \in 0 .. k - 1 : m[p + i] = s[i + 1]
    BY <1>2 DEF Holds
  <2>2. \A i \in 0 .. k : i = k \/ (i \in 0 .. k - 1 /\ i < k)
    OBVIOUS
  <2>3. QED
    BY <2>1, <2>2
<1>5. \A i \in 0 .. l : m[q + i] = IF i < l THEN t[i + 1] ELSE NUL
  <2>1. m[q + l] = NUL /\ \A i \in 0 .. l - 1 : m[q + i] = t[i + 1]
    BY <1>3 DEF Holds
  <2>2. \A i \in 0 .. l : i = l \/ (i \in 0 .. l - 1 /\ i < l)
    OBVIOUS
  <2>3. QED
    BY <2>1, <2>2
<1>6. \A i \in 0 .. k - 1 : m[p + i] # NUL
  BY <1>2 DEF Holds
<1>7. f \in 0 .. k /\ f \in 0 .. l
  BY <1>2, <1>3
<1>8. PICK a \in Int : a = m[p + f]
  <2>1. p + f \in 0 .. N
    BY <1>2, <1>7
  <2>2. QED
    BY <2>1, MemoryType
<1>9. PICK b \in Int : b = m[q + f]
  <2>1. q + f \in 0 .. N
    BY <1>3, <1>7
  <2>2. QED
    BY <2>1, MemoryType
<1>10. a = (IF f < k THEN s[f + 1] ELSE NUL) /\ b = (IF f < l THEN t[f + 1] ELSE NUL)
  BY <1>4, <1>5, <1>7, <1>8, <1>9
<1>11. \A j \in 1 .. f : s[j] = t[j]
  <2>1. ASSUME NEW j \in 1 .. f PROVE s[j] = t[j]
    <3>1. PICK i \in 0 .. f - 1 : i = j - 1 /\ i + 1 = j
      OBVIOUS
    <3>2. m[p + i] = m[q + i]
      BY <3>1 DEF PartAt
    <3>3. i \in 0 .. k /\ i \in 0 .. l /\ i < k /\ i < l
      BY <1>7, <3>1
    <3>4. m[p + i] = s[i + 1] /\ m[q + i] = t[i + 1]
      BY <1>4, <1>5, <3>3
    <3>5. QED
      BY <3>1, <3>2, <3>4
  <2>2. QED
    BY <2>1
<1>12. a # b \/ (f = k /\ f = l)
  <2>1. SUFFICES ASSUME a = b PROVE f = k /\ f = l
    OBVIOUS
  <2>2. m[p + f] = NUL
    BY <1>8, <1>9, <2>1 DEF PartAt
  <2>3. f = k
    BY <1>6, <1>7, <2>2
  <2>4. m[q + f] = NUL
    BY <1>8, <1>9, <2>1, <2>2
  <2>5. f = l
    <3>1. \A i \in 0 .. l - 1 : m[q + i] # NUL
      BY <1>3 DEF Holds
    <3>2. QED
      BY <1>7, <2>4, <3>1
  <2>6. QED
    BY <2>3, <2>5
<1>13. Order(s, t) = a - b
  <2>1. Apart(s, t, f, a, b)
    BY <1>2, <1>3, <1>7, <1>10, <1>11, <1>12 DEF Apart
  <2>2. QED
    BY <1>1, <2>1, OrderAt
<1>14. ASSUME NEW n \in Nat
       PROVE  /\ f < n => Order(Cut(s, n), Cut(t, n)) = a - b
              /\ n <= f => Order(Cut(s, n), Cut(t, n)) = 0
  <2>1. PICK u : u = Cut(s, n)
    OBVIOUS
  <2>2. PICK v : v = Cut(t, n)
    OBVIOUS
  <2>3. /\ u \in Seq(Int) /\ Len(u) = (IF n <= k THEN n ELSE k)
        /\ \A i \in 1 .. Len(u) : u[i] = s[i]
    BY <1>1, <1>2, <2>1, CutIs
  <2>4. /\ v \in Seq(Int) /\ Len(v) = (IF n <= l THEN n ELSE l)
        /\ \A i \in 1 .. Len(v) : v[i] = t[i]
    BY <1>1, <1>3, <2>2, CutIs
  <2>5. ASSUME f < n PROVE Order(u, v) = a - b
    <3>1. f <= Len(u) /\ f <= Len(v)
      BY <1>7, <2>3, <2>4, <2>5
    <3>2. \A j \in 1 .. f : u[j] = v[j]
      <4>1. \A j \in 1 .. f : j \in 1 .. Len(u) /\ j \in 1 .. Len(v)
        BY <2>3, <2>4, <3>1
      <4>2. QED
        BY <1>11, <2>3, <2>4, <4>1
    <3>3. a = IF f < Len(u) THEN u[f + 1] ELSE NUL
      <4>1. f < Len(u) <=> f < k
        BY <1>7, <2>3, <2>5
      <4>2. f < Len(u) => f + 1 \in 1 .. Len(u)
        <5>1. Len(u) \in Nat
          BY <2>3
        <5>2. QED
          BY <5>1
      <4>3. f < Len(u) => u[f + 1] = s[f + 1]
        BY <2>3, <4>2
      <4>4. QED
        BY <1>10, <4>1, <4>3
    <3>4. b = IF f < Len(v) THEN v[f + 1] ELSE NUL
      <4>1. f < Len(v) <=> f < l
        BY <1>7, <2>4, <2>5
      <4>2. f < Len(v) => f + 1 \in 1 .. Len(v)
        <5>1. Len(v) \in Nat
          BY <2>4
        <5>2. QED
          BY <5>1
      <4>3. f < Len(v) => v[f + 1] = t[f + 1]
        BY <2>4, <4>2
      <4>4. QED
        BY <1>10, <4>1, <4>3
    <3>5. a # b \/ (f = Len(u) /\ f = Len(v))
      BY <1>12, <2>3, <2>4, <2>5
    <3>6. Apart(u, v, f, a, b)
      BY <3>1, <3>2, <3>3, <3>4, <3>5 DEF Apart
    <3>7. QED
      BY <2>3, <2>4, <3>6, OrderAt
  <2>6. ASSUME n <= f PROVE Order(u, v) = 0
    <3>1. Len(u) = n /\ Len(v) = n
      BY <1>7, <2>3, <2>4, <2>6
    <3>2. \A j \in 1 .. n : u[j] = v[j]
      <4>1. \A j \in 1 .. n : j \in 1 .. f
        BY <2>6
      <4>2. QED
        BY <1>11, <2>3, <2>4, <3>1, <4>1
    <3>3. 0 = (IF n < Len(u) THEN u[n + 1] ELSE NUL) /\ 0 = (IF n < Len(v) THEN v[n + 1] ELSE NUL)
      BY <3>1 DEF NUL
    <3>4. Apart(u, v, n, 0, 0)
      BY <3>1, <3>2, <3>3 DEF Apart
    <3>5. 0 \in Int
      OBVIOUS
    <3>6. Order(u, v) = 0 - 0
      BY <2>3, <2>4, <3>4, <3>5, OrderAt
    <3>7. QED
      BY <3>6
  <2>7. QED
    BY <2>1, <2>2, <2>5, <2>6
<1>15. QED
  BY <1>8, <1>9, <1>13, <1>14 DEF OrderedAt

\* Units of k bytes: equal ones have equal bytes in the memory, even where
\* the unit reaches past it, and equal bytes make equal units.
LEMMA UnitsEqual ==
    ASSUME NEW N \in Nat, NEW m \in Memories(N), NEW a \in Nat, NEW b \in Nat, NEW k \in Nat,
           Bytes(m, a, k) = Bytes(m, b, k),
           NEW g \in 0 .. N, NEW h \in 0 .. N, g - a \in 0 .. k - 1, h = b + (g - a)
    PROVE  m[g] = m[h]
<1>1. PICK i \in 0 .. k - 1 : i = g - a /\ g = a + i /\ h = b + i
  OBVIOUS
<1>2. Bytes(m, a, k)[i] = At(m, a + i) /\ Bytes(m, b, k)[i] = At(m, b + i)
  BY DEF Bytes
<1>3. At(m, g) = At(m, h)
  BY <1>1, <1>2
<1>4. QED
  BY <1>3, MemoryType DEF At

\* Stretches with the same bytes are the same unit.
LEMMA SameUnits ==
    ASSUME NEW N \in Nat, NEW m \in Memories(N), NEW a \in Nat, NEW b \in Nat, NEW k \in Nat,
           a + k <= N + 1, b + k <= N + 1, SameBytes(m, a, b, k)
    PROVE  Bytes(m, a, k) = Bytes(m, b, k)
<1>1. ASSUME NEW i \in 0 .. k - 1 PROVE At(m, a + i) = At(m, b + i)
  <2>1. a + i \in 0 .. N /\ b + i \in 0 .. N
    OBVIOUS
  <2>2. m[a + i] = m[b + i]
    BY DEF SameBytes
  <2>3. QED
    BY <2>1, <2>2, MemoryType DEF At
<1>2. QED
  BY <1>1 DEF Bytes

\* A unit of k bytes of two strings stops the comparison when they part in
\* it, and none does when they part behind it.
LEMMA PartInUnit ==
    ASSUME NEW N \in Nat, NEW m \in Memories(N), NEW p \in Nat, NEW q \in Nat, NEW f \in Nat,
           p + f \in 0 .. N, q + f \in 0 .. N, PartAt(m, p, q, f), NEW o \in Nat
    PROVE  /\ o <= f /\ f < o + Word =>
                Bytes(m, p + o, Word) # Bytes(m, q + o, Word) \/ HasByte(m, p + o, NUL)
           /\ o + Word <= f =>
                Bytes(m, p + o, Word) = Bytes(m, q + o, Word) /\ ~HasByte(m, p + o, NUL)
<1>1. PICK k \in Nat : k = Word /\ k # 0
  BY WidthsAre
<1>2. PICK a \in Nat : a = p + o
  OBVIOUS
<1>3. PICK b \in Nat : b = q + o
  OBVIOUS
<1>4. PICK g \in 0 .. N : g = p + f
  OBVIOUS
<1>5. PICK h \in 0 .. N : h = q + f
  OBVIOUS
<1>6. ASSUME o <= f, f < o + k PROVE Bytes(m, a, k) # Bytes(m, b, k) \/ HasByte(m, a, NUL)
  <2>1. g - a \in 0 .. k - 1 /\ h = b + (g - a)
    BY <1>2, <1>3, <1>4, <1>5, <1>6
  <2>2. CASE m[g] = NUL
    <3>1. g \in a .. N /\ g < a + Word
      BY <1>1, <1>2, <1>4, <1>6
    <3>2. QED
      BY <2>2, <3>1, WordHas
  <2>3. CASE m[g] # m[h]
    BY <2>1, <2>3, UnitsEqual
  <2>4. QED
    BY <1>4, <1>5, <2>2, <2>3 DEF PartAt
<1>7. ASSUME o + k <= f PROVE Bytes(m, a, k) = Bytes(m, b, k) /\ ~HasByte(m, a, NUL)
  <2>1. ASSUME NEW i \in 0 .. k - 1 PROVE m[a + i] = m[b + i] /\ m[a + i] # NUL
    <3>1. PICK j \in 0 .. f - 1 : j = o + i /\ p + j = a + i /\ q + j = b + i
      BY <1>2, <1>3, <1>7
    <3>2. m[p + j] = m[q + j] /\ m[p + j] # NUL
      BY DEF PartAt
    <3>3. QED
      BY <3>1, <3>2
  <2>2. a + k <= N + 1 /\ b + k <= N + 1
    BY <1>2, <1>3, <1>7
  <2>3. SameBytes(m, a, b, k)
    BY <2>1 DEF SameBytes
  <2>4. Bytes(m, a, k) = Bytes(m, b, k)
    BY <2>2, <2>3, SameUnits
  <2>5. \A j \in a .. a + Word - 1 : m[j] # NUL
    <3>1. ASSUME NEW j \in a .. a + Word - 1 PROVE m[j] # NUL
      <4>1. j - a \in 0 .. k - 1 /\ a + (j - a) = j
        BY <1>1
      <4>2. QED
        BY <2>1, <4>1
    <3>2. QED
      BY <3>1
  <2>6. ~HasByte(m, a, NUL)
    <3>1. a + Word <= N + 1
      BY <1>1, <2>2
    <3>2. QED
      BY <2>5, <3>1, WordHasNot
  <2>7. QED
    BY <2>4, <2>6
<1>8. QED
  BY <1>1, <1>2, <1>3, <1>6, <1>7

\* asm_opt_strcmp: comparing words finds the order of the strings, whatever
\* the words hold behind the NULs.
THEOREM StrcmpIsOrder ==
    ASSUME NEW N \in Nat, NEW m \in Memories(N), NEW p \in Nat, NEW q \in Nat, NEW s, NEW t,
           Holds(m, N, p, s), Holds(m, N, q, t)
    PROVE  asm_opt_strcmp(m, p, q) = Order(s, t)
<1>1. PICK f \in Nat : f <= Len(s) /\ f <= Len(t) /\ PartAt(m, p, q, f)
  BY Parting
<1>2. p + f \in 0 .. N /\ q + f \in 0 .. N
  <2>1. Len(s) \in Nat /\ p + Len(s) \in 0 .. N
    BY EndOf
  <2>2. Len(t) \in Nat /\ q + Len(t) \in 0 .. N
    BY EndOf
  <2>3. QED
    BY <1>1, <2>1, <2>2
<1>3. Order(s, t) = m[p + f] - m[q + f] /\ m[p + f] \in Int /\ m[q + f] \in Int
  BY <1>1, OrderInMemory DEF OrderedAt
<1>4. PICK g \in p .. N : g = p + f /\ g - p = f
  BY <1>2
<1> DEFINE Stops(a) == Bytes(m, a, Word) # Bytes(m, q + (a - p), Word) \/ HasByte(m, a, NUL)
           W == {u \in 0 .. (N + 1) \div Word : Stops(p + u * Word)}
<1>5. ASSUME NEW u \in 0 .. (N + 1) \div Word
      PROVE  /\ p + u * Word <= g /\ g < p + u * Word + Word => u \in W
             /\ p + u * Word + Word <= g => u \notin W
  <2>1. u * Word \in Nat
    BY WidthsAre, Products
  <2>2. PICK o \in Nat : o = u * Word
    BY <2>1
  <2>3. q + ((p + o) - p) = q + o
    OBVIOUS
  <2>4. /\ o <= f /\ f < o + Word => Stops(p + o)
        /\ o + Word <= f => ~Stops(p + o)
    BY <1>1, <1>2, <2>3, PartInUnit
  <2> HIDE DEF Stops
  <2>5. /\ p + o <= g /\ g < p + o + Word => o <= f /\ f < o + Word
        /\ p + o + Word <= g => o + Word <= f
    BY <1>4, WidthsAre
  <2>6. QED
    BY <2>2, <2>4, <2>5
<1>6. p + Word * Min(W) \in p .. g /\ g < p + Word * Min(W) + Word
  <2>1. \A u \in W : u \in 0 .. (N + 1) \div Word
    OBVIOUS
  <2> HIDE DEF W
  <2>2. QED
    BY <1>5, <2>1, WordStop
<1>7. PICK w \in p .. g : w = p + Word * Min(W) /\ g < w + Word
  BY <1>6
<1>8. PICK v \in Nat : v = q + (w - p)
  OBVIOUS
<1> DEFINE I == {j \in DOMAIN m : j >= w /\ (m[j] # At(m, q + (j - p)) \/ m[j] = NUL)}
<1>9. asm_opt_strcmp(m, p, q) = IF Bytes(m, w, Word) = Bytes(m, v, Word) THEN 0
                                ELSE m[Min(I)] - m[q + (Min(I) - p)]
  <2>1. FirstWord(m, p, LAMBDA a : \/ Bytes(m, a, Word) # Bytes(m, q + (a - p), Word)
                                   \/ HasByte(m, a, NUL)) = w
    BY <1>7, Addresses DEF FirstWord
  <2>2. QED
    BY <1>8, <2>1 DEF asm_opt_strcmp
<1>10. Min(I) = g
  <2>1. g \in 0 .. N /\ q + (g - p) = q + f /\ g \in Nat
    BY <1>2, <1>4
  <2>2. At(m, q + f) = m[q + f]
    BY <1>2, MemoryType DEF At
  <2>3. m[g] # At(m, q + (g - p)) \/ m[g] = NUL
    BY <1>1, <1>4, <2>1, <2>2 DEF PartAt
  <2>4. g \in I
    BY <1>7, <2>1, <2>3, MemoryType
  <2>5. ASSUME NEW j \in I PROVE j \in Nat /\ g <= j
    <3>1. j \in 0 .. N /\ w <= j /\ (m[j] # At(m, q + (j - p)) \/ m[j] = NUL)
      BY MemoryType
    <3>2. SUFFICES ASSUME j < g PROVE FALSE
      BY <3>1
    <3>3. PICK i \in 0 .. f - 1 : i = j - p /\ p + i = j /\ q + i = q + (j - p)
      BY <1>4, <1>7, <3>1, <3>2
    <3>4. m[p + i] = m[q + i] /\ m[p + i] # NUL
      BY <1>1 DEF PartAt
    <3>5. q + i \in 0 .. N
      BY <1>2, <3>3
    <3>6. At(m, q + i) = m[q + i]
      BY <3>5, MemoryType DEF At
    <3>7. QED
      BY <3>1, <3>3, <3>4, <3>6
  <2> HIDE DEF I
  <2>6. QED
    BY <2>1, <2>4, <2>5, LeastIs
<1>11. CASE Bytes(m, w, Word) = Bytes(m, v, Word)
  <2>1. PICK k \in Nat : k = Word
    BY WidthsAre
  <2>2. PICK h \in 0 .. N : h = q + f
    BY <1>2
  <2>3. g \in 0 .. N /\ w \in Nat /\ g - w \in 0 .. k - 1 /\ h = v + (g - w)
    BY <1>4, <1>7, <1>8, <2>1, <2>2
  <2>4. m[g] = m[h]
    BY <1>11, <2>1, <2>3, UnitsEqual
  <2>5. QED
    BY <1>3, <1>4, <1>9, <1>11, <2>2, <2>4
<1>12. CASE Bytes(m, w, Word) # Bytes(m, v, Word)
  <2>1. q + (g - p) = q + f
    BY <1>4
  <2>2. QED
    BY <1>3, <1>4, <1>9, <1>10, <1>12, <2>1
<1>13. QED
  BY <1>11, <1>12

\* asm_opt_strncmp: likewise for the strings cut at n, with the bytes behind
\* the last whole word one by one.
THEOREM StrncmpIsOrder ==
    ASSUME NEW N \in Nat, NEW m \in Memories(N), NEW p \in Nat, NEW q \in Nat, NEW s, NEW t,
           Holds(m, N, p, s), Holds(m, N, q, t), NEW n \in Nat
    PROVE  asm_opt_strncmp(m, p, q, n) = Order(Cut(s, n), Cut(t, n))
<1>1. PICK f \in Nat : f <= Len(s) /\ f <= Len(t) /\ PartAt(m, p, q, f)
  BY Parting
<1>2. p + f \in 0 .. N /\ q + f \in 0 .. N
  <2>1. Len(s) \in Nat /\ p + Len(s) \in 0 .. N
    BY EndOf
  <2>2. Len(t) \in Nat /\ q + Len(t) \in 0 .. N
    BY EndOf
  <2>3. QED
    BY <1>1, <2>1, <2>2
<1>3. /\ f < n => Order(Cut(s, n), Cut(t, n)) = m[p + f] - m[q + f]
      /\ n <= f => Order(Cut(s, n), Cut(t, n)) = 0
  <2>1. /\ \A k \in Nat : f < k => Order(Cut(s, k), Cut(t, k)) = m[p + f] - m[q + f]
        /\ \A k \in Nat : k <= f => Order(Cut(s, k), Cut(t, k)) = 0
    <3>1. OrderedAt(s, t, f, m[p + f] - m[q + f])
      BY <1>1, OrderInMemory
    <3>2. QED
      BY <3>1 DEF OrderedAt
  <2>2. QED
    BY <2>1
<1>4. PICK words \in Nat : words = n \div Word /\ words * Word \in 0 .. n
  <2>1. n \div Word \in Nat /\ Whole(n, Word) = (n \div Word) * Word /\ Whole(n, Word) \in 0 .. n
    BY WidthsAre, WholeIs
  <2>2. QED
    BY <2>1
<1> DEFINE Stops(b) == Bytes(m, p + b * Word, Word) # Bytes(m, q + b * Word, Word) \/ HasByte(m, p + b * Word, NUL)
           stop == {b \in 0 .. words - 1 : Stops(b)}
           from == IF stop # {} THEN Min(stop) * Word ELSE words * Word
           to == IF stop # {} THEN from + Word ELSE n
           ends == {i \in from .. to - 1 : m[p + i] # m[q + i] \/ m[p + i] = NUL}
<1>5. asm_opt_strncmp(m, p, q, n) = IF ends = {} THEN 0 ELSE m[p + Min(ends)] - m[q + Min(ends)]
  BY <1>4 DEF asm_opt_strncmp
<1>6. ASSUME NEW b \in Nat
      PROVE  /\ b * Word \in Nat
             /\ b * Word <= f /\ f < b * Word + Word => Stops(b)
             /\ b * Word + Word <= f => ~Stops(b)
  <2>1. b * Word \in Nat
    BY WidthsAre, Products
  <2>2. PICK o \in Nat : o = b * Word
    BY <2>1
  <2>3. /\ o <= f /\ f < o + Word =>
             Bytes(m, p + o, Word) # Bytes(m, q + o, Word) \/ HasByte(m, p + o, NUL)
        /\ o + Word <= f =>
             Bytes(m, p + o, Word) = Bytes(m, q + o, Word) /\ ~HasByte(m, p + o, NUL)
    BY <1>1, <1>2, PartInUnit
  <2>4. QED
    BY <2>2, <2>3
<1>7. \A b \in 0 .. words - 1 : (b + 1) * Word = b * Word + Word /\ (b + 1) * Word <= words * Word
  BY <1>4, WidthsAre, Products
<1>8. CASE n <= f
  <2>1. stop = {}
    <3>1. ASSUME NEW b \in 0 .. words - 1 PROVE ~Stops(b)
      <4>1. PICK o \in Nat : o = b * Word /\ o + Word <= n
        BY <1>4, <1>6, <1>7, WidthsAre
      <4>2. o + Word <= f
        BY <1>8, <4>1, WidthsAre
      <4> HIDE DEF Stops
      <4>3. QED
        BY <1>6, <4>1, <4>2
    <3> HIDE DEF Stops
    <3>2. QED
      BY <3>1
  <2>2. ends = {}
    <3>1. from = words * Word /\ to = n
      BY <2>1
    <3>2. ASSUME NEW i \in words * Word .. n - 1 PROVE m[p + i] = m[q + i] /\ m[p + i] # NUL
      <4>1. i \in 0 .. f - 1
        BY <1>4, <1>8
      <4>2. QED
        BY <1>1, <4>1 DEF PartAt
    <3> HIDE DEF from, to
    <3>3. QED
      BY <3>1, <3>2
  <2>3. QED
    BY <1>3, <1>5, <1>8, <2>2
<1>9. CASE f < n
  <2>1. PICK a \in Nat : from = a /\ a <= f /\ f < to /\ to \in Int
    <3>1. PICK w \in Nat : w = f \div Word /\ w * Word <= f /\ f < w * Word + Word
      <4>1. PICK w \in Nat : w = f \div Word
        BY WidthsAre, UnitOf
      <4>2. w * Word \in Nat /\ f = w * Word + (f % Word) /\ f % Word \in 0 .. Word - 1
        BY <4>1, WidthsAre, UnitOf
      <4>3. PICK r \in Nat : r = f % Word /\ r < Word
        BY <4>2, WidthsAre
      <4>4. QED
        BY <4>1, <4>2, <4>3, WidthsAre
    <3>2. CASE w < words
      <4>1. w \in stop /\ w \in Nat /\ \A b \in stop : b \in Nat
        <5>1. w \in 0 .. words - 1
          BY <3>2
        <5>2. Stops(w)
          BY <1>6, <3>1
        <5> HIDE DEF Stops
        <5>3. QED
          BY <5>1, <5>2
      <4>2. ASSUME NEW b \in stop PROVE w <= b
        <5>1. b \in 0 .. words - 1 /\ Stops(b)
          OBVIOUS
        <5> HIDE DEF Stops, stop
        <5>2. SUFFICES ASSUME b + 1 <= w PROVE FALSE
          BY <5>1
        <5>3. PICK o \in Nat : o = b * Word
          BY <1>6, <5>1
        <5>4. (b + 1) * Word <= w * Word /\ (b + 1) * Word = o + Word
          BY <1>7, <5>1, <5>2, <5>3, WidthsAre, Products
        <5>5. o + Word <= f
          BY <1>6, <3>1, <5>4, WidthsAre
        <5>6. QED
          BY <1>6, <5>1, <5>3, <5>5
      <4>3. Min(stop) = w
        <5> HIDE DEF stop
        <5>1. QED
          BY <4>1, <4>2, LeastIs
      <4>4. from = w * Word /\ to = w * Word + Word
        <5>1. stop # {}
          BY <4>1
        <5> HIDE DEF stop
        <5>2. QED
          BY <4>3, <5>1
      <4>5. PICK a \in Nat : a = w * Word
        BY <1>6
      <4> HIDE DEF from, to
      <4>6. QED
        BY <3>1, <4>4, <4>5, WidthsAre
    <3>3. CASE words <= w
      <4>1. words * Word <= w * Word
        BY <3>3, WidthsAre, Products
      <4>2. PICK a \in Nat : a = words * Word /\ a <= f
        BY <1>4, <1>6, <3>1, <4>1
      <4>3. stop = {}
        <5>1. ASSUME NEW b \in 0 .. words - 1 PROVE ~Stops(b)
          <6>1. PICK o \in Nat : o = b * Word /\ o + Word <= a
            BY <1>4, <1>6, <1>7, <4>2, WidthsAre
          <6>2. o + Word <= f
            BY <4>2, <6>1, WidthsAre
          <6> HIDE DEF Stops
          <6>3. QED
            BY <1>6, <6>1, <6>2
        <5> HIDE DEF Stops
        <5>2. QED
          BY <5>1
      <4>4. from = a /\ to = n
        BY <4>2, <4>3
      <4> HIDE DEF from, to
      <4>5. QED
        BY <1>9, <4>2, <4>4
    <3>4. QED
      BY <3>2, <3>3
  <2>2. f \in ends
    <3>1. f \in from .. to - 1
      <4> HIDE DEF from, to
      <4>1. QED
        BY <2>1
    <3>2. m[p + f] # m[q + f] \/ m[p + f] = NUL
      BY <1>1 DEF PartAt
    <3> HIDE DEF from, to
    <3>3. QED
      BY <3>1, <3>2
  <2>3. ASSUME NEW i \in ends PROVE i \in Nat /\ f <= i
    <3> HIDE DEF from, to
    <3>1. i \in Nat /\ (m[p + i] # m[q + i] \/ m[p + i] = NUL)
      BY <2>1
    <3>2. ~(i \in 0 .. f - 1)
      BY <1>1, <3>1 DEF PartAt
    <3>3. QED
      BY <3>1, <3>2
  <2>4. Min(ends) = f /\ ends # {}
    <3> HIDE DEF ends
    <3>1. QED
      BY <2>2, <2>3, LeastIs
  <2> HIDE DEF ends
  <2>5. QED
    BY <1>3, <1>5, <1>9, <2>4
<1>10. QED
  BY <1>4, <1>8, <1>9
-----------------------------------------------------------------------------
\* Searching a buffer

\* Nothing is reported only when the pattern is nowhere; else its first place is,
\* or with NEON, and for a pattern of half a word or more, the first one at a
\* multiple of half a word.  asm_opt_buffer_find
THEOREM BufferFindIsMatch ==
  ASSUME NEW m, NEW b \in Nat, NEW len \in Nat, NEW pat \in Seq(Int), NEW neon \in BOOLEAN
  PROVE  LET any == {i \in 0 .. len - Len(pat) : MatchAt(m, b, pat, i)}
         IN  IF Len(pat) = 0 \/ any = {} THEN asm_opt_buffer_find(m, b, len, pat, neon) = NotFound
             ELSE Found(asm_opt_buffer_find(m, b, len, pat, neon), any, Len(pat), neon)
<1> DEFINE any == {i \in 0 .. len - Len(pat) : MatchAt(m, b, pat, i)}
           aligned == {i \in 0 .. len - Len(pat) : i % Quad = 0 /\ MatchAt(m, b, pat, i)}
<1>1. asm_opt_buffer_find(m, b, len, pat, neon) =
        IF Len(pat) = 0 \/ Len(pat) > len THEN NotFound
        ELSE IF neon /\ Len(pat) >= Quad /\ aligned # {} THEN Min(aligned)
        ELSE IF any # {} THEN Min(any) ELSE NotFound
  BY DEF asm_opt_buffer_find
<1>2. Len(pat) \in Nat
  OBVIOUS
<1>3. Len(pat) > len => any = {}
  BY <1>2
<1>4. aligned \subseteq any
  OBVIOUS
<1>5. \A i \in any : i \in Nat
  BY <1>2
<1>6. any # {} => Found(Min(any), any, Len(pat), neon)
  <2> HIDE DEF any
  <2>1. any # {} => Min(any) \in any
    BY <1>5, MinIs
  <2> QED
    BY <2>1 DEF Found
<1>7. neon /\ Len(pat) >= Quad /\ aligned # {} => Found(Min(aligned), any, Len(pat), neon)
  <2> SUFFICES ASSUME neon, Len(pat) >= Quad, aligned # {}
               PROVE  Found(Min(aligned), any, Len(pat), neon)
    OBVIOUS
  <2>1. \A i \in aligned : i \in any /\ i \in Nat /\ i % Quad = 0
    BY <1>4, <1>5
  <2>2. \A i \in any : i % Quad = 0 => i \in aligned
    OBVIOUS
  <2> HIDE DEF any, aligned
  <2>3. Min(aligned) \in aligned /\ \A i \in aligned : Min(aligned) <= i
    BY <2>1, MinIs
  <2>4. PICK f \in Nat : f = Min(aligned)
    BY <2>1, <2>3
  <2>5. ASSUME NEW i \in any, i < f PROVE i % Quad # 0
    <3>1. i \in Nat /\ ~(f <= i)
      BY <1>5, <2>5
    <3> QED
      BY <2>2, <2>3, <2>4, <3>1
  <2>6. f \in any /\ f % Quad = 0
    BY <2>1, <2>3, <2>4
  <2>7. Found(f, any, Len(pat), neon)
    BY <2>5, <2>6 DEF Found
  <2> QED
    BY <2>4, <2>7
<1> HIDE DEF any, aligned
<1>8. IF Len(pat) = 0 \/ any = {} THEN asm_opt_buffer_find(m, b, len, pat, neon) = NotFound
      ELSE Found(asm_opt_buffer_find(m, b, len, pat, neon), any, Len(pat), neon)
  <2>1. CASE Len(pat) = 0 \/ Len(pat) > len
    BY <2>1, <1>1, <1>3
  <2>2. CASE ~(Len(pat) = 0 \/ Len(pat) > len) /\ neon /\ Len(pat) >= Quad /\ aligned # {}
    BY <2>2, <1>1, <1>4, <1>7
  <2>3. CASE ~(Len(pat) = 0 \/ Len(pat) > len) /\ ~(neon /\ Len(pat) >= Quad /\ aligned # {})
    BY <2>3, <1>1, <1>6
  <2> QED
    BY <2>1, <2>2, <2>3
<1> QED
  BY <1>8 DEF any

\* A string in memory matches a pattern where its characters do
LEMMA MatchInMemory ==
  ASSUME NEW N \in Nat, NEW m \in Memories(N), NEW p \in Nat, NEW s, Holds(m, N, p, s),
         NEW t \in Seq(Int)
  PROVE  {i \in 0 .. Len(s) - Len(t) : MatchAt(m, p, t, i)} = Matches(s, t)
<1>1. /\ s \in Seq(Int) /\ Len(s) \in Nat /\ Len(t) \in Nat
      /\ \A j \in 0 .. Len(s) - 1 : m[p + j] = s[j + 1]
  BY DEF Holds
<1>2. ASSUME NEW i \in 0 .. Len(s) - Len(t)
      PROVE  MatchAt(m, p, t, i) <=> SubSeq(s, i + 1, i + Len(t)) = t
  <2> DEFINE u == SubSeq(s, i + 1, i + Len(t))
  <2>1. u \in Seq(Int) /\ Len(u) = Len(t) /\ \A j \in 1 .. Len(t) : u[j] = s[i + j]
    <3>1. PICK a \in Nat, l \in Nat : a = Len(s) /\ l = Len(t)
      BY <1>1
    <3>2. /\ i \in Nat /\ i + l <= a /\ (i + l) - (i + 1) + 1 = l
          /\ \A j \in 1 .. l : (i + 1) + j - 1 = i + j
      BY <3>1
    <3>3. /\ i + 1 \in Int /\ i + l \in Int /\ (i + 1 <= i + l <=> l # 0)
          /\ \A x \in i + 1 .. i + l : s[x] \in Int
      BY <1>1, <3>1, <3>2
    <3>4. /\ SubSeq(s, i + 1, i + l) \in Seq(Int)
          /\ Len(SubSeq(s, i + 1, i + l)) = (IF i + 1 <= i + l THEN (i + l) - (i + 1) + 1 ELSE 0)
          /\ \A j \in 1 .. (i + l) - (i + 1) + 1 : SubSeq(s, i + 1, i + l)[j] = s[(i + 1) + j - 1]
      BY <3>3, SubSeqProperties
    <3>5. u = SubSeq(s, i + 1, i + l)
      BY <3>1
    <3> HIDE DEF u
    <3>6. Len(u) = Len(t)
      BY <3>1, <3>2, <3>3, <3>4, <3>5
    <3>7. ASSUME NEW j \in 1 .. l PROVE u[j] = s[i + j]
      BY <3>2, <3>4, <3>5
    <3> QED
      BY <3>1, <3>4, <3>5, <3>6, <3>7
  <2>2. ASSUME NEW j \in 1 .. Len(t) PROVE m[p + i + j - 1] = s[i + j]
    <3>1. i + j - 1 \in 0 .. Len(s) - 1 /\ p + i + j - 1 = p + (i + j - 1) /\ (i + j - 1) + 1 = i + j
      BY <1>1
    <3> QED
      BY <3>1, <1>1
  <2>3. MatchAt(m, p, t, i) <=> \A j \in 1 .. Len(t) : u[j] = t[j]
    BY <2>1, <2>2 DEF MatchAt
  <2> HIDE DEF u
  <2>4. u = t <=> \A j \in 1 .. Len(t) : u[j] = t[j]
    BY <2>1, <1>1, SeqEqual
  <2> QED
    BY <2>3, <2>4 DEF u
<1> QED
  BY <1>2 DEF Matches

\* The length asm_opt_strstr searches is the string's.  asm_opt_strstr
THEOREM StrstrIsMatch ==
  ASSUME NEW N \in Nat, NEW m \in Memories(N), NEW p \in Nat, NEW s, Holds(m, N, p, s),
         NEW t \in Seq(Int), t # <<>>, NEW neon \in BOOLEAN
  PROVE  IF Matches(s, t) = {} THEN asm_opt_strstr(m, p, t, neon) = NotFound
         ELSE Found(asm_opt_strstr(m, p, t, neon), Matches(s, t), Len(t), neon)
<1>1. asm_opt_strlen(m, p) = Len(s) /\ Len(s) \in Nat /\ Len(t) # 0 /\ Len(t) \in Nat
  BY StrlenIsLength, EndOf
<1>2. {i \in 0 .. Len(s) - Len(t) : MatchAt(m, p, t, i)} = Matches(s, t)
  BY MatchInMemory
<1>3. asm_opt_strstr(m, p, t, neon) =
        IF Len(t) >= Quad /\ neon THEN asm_opt_buffer_find(m, p, Len(s), t, neon)
        ELSE IF Matches(s, t) = {} THEN NotFound ELSE Min(Matches(s, t))
  BY <1>1, <1>2 DEF asm_opt_strstr, FirstMatch
<1>4. IF Matches(s, t) = {} THEN asm_opt_buffer_find(m, p, Len(s), t, neon) = NotFound
      ELSE Found(asm_opt_buffer_find(m, p, Len(s), t, neon), Matches(s, t), Len(t), neon)
  <2> DEFINE any == {i \in 0 .. Len(s) - Len(t) : MatchAt(m, p, t, i)}
             x == asm_opt_buffer_find(m, p, Len(s), t, neon)
  <2>1. IF Len(t) = 0 \/ any = {} THEN x = NotFound ELSE Found(x, any, Len(t), neon)
    BY <1>1, BufferFindIsMatch
  <2>2. any = Matches(s, t)
    BY <1>2
  <2> HIDE DEF any, x
  <2>3. IF Matches(s, t) = {} THEN x = NotFound ELSE Found(x, Matches(s, t), Len(t), neon)
    BY <1>1, <2>1, <2>2
  <2> QED
    BY <2>3 DEF x
<1>5. \A i \in Matches(s, t) : i \in Nat
  BY <1>1 DEF Matches
<1>6. Matches(s, t) # {} => Found(Min(Matches(s, t)), Matches(s, t), Len(t), neon)
  <2>1. Matches(s, t) # {} => Min(Matches(s, t)) \in Matches(s, t)
    BY <1>5, MinIs
  <2> QED
    BY <2>1 DEF Found
<1> QED
  BY <1>3, <1>4, <1>6
-----------------------------------------------------------------------------
\* Every call

\* The memory that the calls on buffers start with.
LEMMA RampIs ==
  /\ Room - 1 \in Nat /\ Room \in Nat /\ MaxMove \in Nat /\ MaxMove # 0
  /\ Ramp \in Memories(Room - 1)
BY CallBounds DEF Room, Ramp, Memories

\* Calls of the copying and filling routines: MemcpyIsMove, MemmoveIsMove, BufferCopyIsMove,
\* MemsetIsFill and ZeroBufferIsFill.
LEMMA MemoryCall == ASSUME CallMemory PROVE BytesRight'
<1>1. PICK n \in 0 .. MaxMove, d \in 0 .. MaxMove, s \in 0 .. MaxMove, neon \in BOOLEAN :
        /\ d + n <= Room /\ s + n <= Room
        /\ \/ Called("memmove", <<d, s, n>>, asm_opt_memmove(Ramp, d, s, n, neon))
           \/ /\ d + n <= s \/ s + n <= d
              /\ \/ Called("memcpy", <<d, s, n>>, asm_opt_memcpy(Ramp, d, s, n, neon))
                 \/ Called("buffer_copy", <<d, s, n>>, asm_opt_network_buffer_copy(Ramp, d, s, n, neon))
           \/ s = 0 /\ Called("memset", <<d, Room, n>>, asm_opt_memset(Ramp, d, Room, n, neon))
           \/ s = 0 /\ Called("memset", <<d, 0, n>>, asm_opt_simd_zero_buffer(Ramp, d, n, neon))
  BY DEF CallMemory
<1>2. /\ n \in Nat /\ d \in Int /\ s \in Int /\ 0 <= s /\ s + n <= (Room - 1) + 1
      /\ Room \in Int /\ 0 \in Int /\ Room - 1 \in Nat /\ Ramp \in Memories(Room - 1)
  BY <1>1, RampIs
<1>3. CASE Called("memmove", <<d, s, n>>, asm_opt_memmove(Ramp, d, s, n, neon))
  <2>1. asm_opt_memmove(Ramp, d, s, n, neon) = Moved(Ramp, d, s, n)
    BY <1>2, MemmoveIsMove
  <2>2. call'.fn = "memmove" /\ call'.in = <<d, s, n>> /\ call'.out = Moved(Ramp, d, s, n)
    BY <1>3, <2>1 DEF Called
  <2> QED
    BY <2>2 DEF BytesRight, MemoryRight, TextRight
<1>4. CASE /\ d + n <= s \/ s + n <= d
           /\ Called("memcpy", <<d, s, n>>, asm_opt_memcpy(Ramp, d, s, n, neon))
  <2>1. asm_opt_memcpy(Ramp, d, s, n, neon) = Moved(Ramp, d, s, n)
    <3>1. d <= s \/ s + n <= d
      BY <1>2, <1>4
    <3> QED
      BY <3>1, <1>2, MemcpyIsMove
  <2>2. call'.fn = "memcpy" /\ call'.in = <<d, s, n>> /\ call'.out = Moved(Ramp, d, s, n)
    BY <1>4, <2>1 DEF Called
  <2> QED
    BY <2>2 DEF BytesRight, MemoryRight, TextRight
<1>5. CASE /\ d + n <= s \/ s + n <= d
           /\ Called("buffer_copy", <<d, s, n>>, asm_opt_network_buffer_copy(Ramp, d, s, n, neon))
  <2>1. asm_opt_network_buffer_copy(Ramp, d, s, n, neon) = <<Moved(Ramp, d, s, n), n>>
    <3>1. d <= s \/ s + n <= d
      BY <1>2, <1>5
    <3> QED
      BY <3>1, <1>2, BufferCopyIsMove
  <2>2. /\ call'.fn = "buffer_copy" /\ call'.in = <<d, s, n>>
        /\ call'.out = <<Moved(Ramp, d, s, n), n>>
    BY <1>5, <2>1 DEF Called
  <2> QED
    BY <2>2 DEF BytesRight, MemoryRight, TextRight
<1>6. CASE Called("memset", <<d, Room, n>>, asm_opt_memset(Ramp, d, Room, n, neon))
  <2>1. asm_opt_memset(Ramp, d, Room, n, neon) = Filled(Ramp, d, Room, n)
    BY <1>2, MemsetIsFill
  <2>2. call'.fn = "memset" /\ call'.in = <<d, Room, n>> /\ call'.out = Filled(Ramp, d, Room, n)
    BY <1>6, <2>1 DEF Called
  <2> QED
    BY <2>2 DEF BytesRight, MemoryRight, TextRight
<1>7. CASE Called("memset", <<d, 0, n>>, asm_opt_simd_zero_buffer(Ramp, d, n, neon))
  <2>1. asm_opt_simd_zero_buffer(Ramp, d, n, neon) = Filled(Ramp, d, 0, n)
    BY <1>2, ZeroBufferIsFill
  <2>2. call'.fn = "memset" /\ call'.in = <<d, 0, n>> /\ call'.out = Filled(Ramp, d, 0, n)
    BY <1>7, <2>1 DEF Called
  <2> QED
    BY <2>2 DEF BytesRight, MemoryRight, TextRight
<1> QED
  BY <1>1, <1>3, <1>4, <1>5, <1>6, <1>7

\* Calls of asm_opt_memcmp.
LEMMA CompareCall == ASSUME CallCompare PROVE BytesRight'
<1>1. PICK n \in 0 .. MaxMove, at \in 0 .. MaxMove, x \in {0, Room}, neon \in BOOLEAN :
        LET m == [i \in 0 .. Room - 1 |-> IF i = at THEN x ELSE i % MaxMove]
        IN Called("memcmp", <<m, 0, MaxMove, n>>, asm_opt_memcmp(m, 0, MaxMove, n, neon))
  BY DEF CallCompare
<1> DEFINE m == [i \in 0 .. Room - 1 |-> IF i = at THEN x ELSE i % MaxMove]
           N == Room - 1
           D == Diffs(m, 0, MaxMove, n)
<1>2. m \in Memories(N) /\ N \in Nat
  BY RampIs DEF Memories
<1>3. n \in Nat /\ 0 \in Nat /\ MaxMove \in Nat /\ 0 + n <= N + 1 /\ MaxMove + n <= N + 1
  BY RampIs DEF Room
<1>4. Called("memcmp", <<m, 0, MaxMove, n>>, asm_opt_memcmp(m, 0, MaxMove, n, neon))
  BY <1>1
<1> HIDE DEF m, N
<1>5. asm_opt_memcmp(m, 0, MaxMove, n, neon) =
        IF D = {} THEN 0 ELSE m[0 + Min(D)] - m[MaxMove + Min(D)]
  BY <1>2, <1>3, MemcmpIsFirstDiff
<1>6. /\ call'.fn = "memcmp" /\ call'.in = <<m, 0, MaxMove, n>>
      /\ call'.out = IF D = {} THEN 0 ELSE m[0 + Min(D)] - m[MaxMove + Min(D)]
  BY <1>4, <1>5 DEF Called
<1>7. D = {i \in 0 .. n - 1 : m[0 + i] # m[MaxMove + i]}
  BY DEF Diffs
<1> HIDE DEF D
<1>8. /\ call'.in[1] = m /\ call'.in[2] = 0 /\ call'.in[3] = MaxMove /\ call'.in[4] = n
  BY <1>6
<1> QED
  BY <1>6, <1>7, <1>8 DEF BytesRight, MemoryRight, TextRight

\* Calls of the sum and the maximum of an array.
LEMMA ArrayCall == ASSUME CallArray PROVE BytesRight'
<1>1. PICK n \in 1 .. 3 * PerBlock, k \in 1 .. 3 * PerBlock, neon \in BOOLEAN :
        LET a == [i \in 1 .. n |-> IF i = k THEN 3 * PerBlock ELSE i]
        IN \/ Called("sum", a, asm_opt_simd_sum_array(a, neon))
           \/ Called("max", a, asm_opt_simd_max_array(a, neon))
  BY DEF CallArray
<1> DEFINE a == [i \in 1 .. n |-> IF i = k THEN 3 * PerBlock ELSE i]
<1>2. a \in Seq(Nat) /\ a # <<>>
  <2>1. PerBlock \in Nat
    BY UnitsAre
  <2>2. \A i \in 1 .. n : a[i] \in Nat
    BY <2>1
  <2>3. n \in Nat /\ n # 0 /\ DOMAIN a = 1 .. n
    BY <2>1
  <2>4. a \in [1 .. n -> Nat]
    BY <2>2
  <2> HIDE DEF a
  <2>5. a \in Seq(Nat) /\ Len(a) = n
    BY <2>3, <2>4, SeqDef
  <2> QED
    BY <2>5, <2>3
<1> DEFINE sum == asm_opt_simd_sum_array(a, neon)
           max == asm_opt_simd_max_array(a, neon)
<1>3. Called("sum", a, sum) \/ Called("max", a, max)
  BY <1>1
<1> HIDE DEF a
<1>4. sum = SumOf(a, DOMAIN a) /\ max = Max(Range(a))
  BY <1>2, SumArrayIsSum, MaxArrayIsMax
<1> HIDE DEF sum, max
<1>5. CASE Called("sum", a, sum)
  <2>1. call'.fn = "sum" /\ call'.in = a /\ call'.out = SumOf(a, DOMAIN a)
    BY <1>4, <1>5 DEF Called
  <2> QED
    BY <2>1 DEF BytesRight, MemoryRight, TextRight
<1>6. CASE Called("max", a, max)
  <2>1. call'.fn = "max" /\ call'.in = a /\ call'.out = Max(Range(a))
    BY <1>4, <1>6 DEF Called
  <2> QED
    BY <2>1 DEF BytesRight, MemoryRight, TextRight
<1> QED
  BY <1>3, <1>5, <1>6

\* The strings of the calls: no NUL among their characters.
LEMMA StringsAre ==
  ASSUME NEW s \in Strings
  PROVE  /\ s \in Seq(Int) /\ Len(s) \in 0 .. MaxLen /\ MaxLen \in Nat /\ Len(s) \in Nat
         /\ \A i \in 1 .. Len(s) : s[i] \in Int /\ s[i] # NUL /\ s[i] \in Letters
<1>1. PICK n \in 0 .. MaxLen : s \in [1 .. n -> Letters]
  BY DEF Strings
<1>2. MaxLen \in Nat /\ n \in Nat
  BY CallBounds
<1>3. Letters \subseteq Int /\ \A x \in Letters : x # NUL
  BY DEF Letters, NUL
<1>4. s \in [1 .. n -> Int] /\ \A i \in 1 .. n : s[i] \in Int /\ s[i] # NUL /\ s[i] \in Letters
  BY <1>1, <1>3
<1>5. s \in Seq(Int) /\ Len(s) = n
  BY <1>2, <1>4, SeqDef
<1> QED
  BY <1>1, <1>2, <1>4, <1>5

\* Where Texts has what
TextAt(s, t, i) ==
  IF i < Len(s) THEN s[i + 1] ELSE IF i = Len(s) THEN NUL ELSE IF i < Behind THEN 1
  ELSE IF i < Behind + Len(t) THEN t[i - Behind + 1] ELSE IF i = Behind + Len(t) THEN NUL ELSE 1

\* The memory that holds two strings.
LEMMA TextsAre ==
  ASSUME NEW s \in Strings, NEW t \in Strings
  PROVE  /\ 2 * Behind - 1 \in Nat /\ Behind \in Nat /\ Behind = MaxLen + 2
         /\ Texts(s, t) \in Memories(2 * Behind - 1)
         /\ \A i \in 0 .. 2 * Behind - 1 : Texts(s, t)[i] = TextAt(s, t, i)
<1>1. /\ s \in Seq(Int) /\ Len(s) \in 0 .. MaxLen /\ MaxLen \in Nat /\ Len(s) \in Nat
      /\ \A i \in 1 .. Len(s) : s[i] \in Int
  BY StringsAre
<1>2. /\ t \in Seq(Int) /\ Len(t) \in 0 .. MaxLen /\ Len(t) \in Nat
      /\ \A i \in 1 .. Len(t) : t[i] \in Int
  BY StringsAre
<1> DEFINE N == 2 * Behind - 1
           m0 == [i \in 0 .. N |-> 1]
           m1 == Put(m0, 0, s)
<1>3. Behind \in Nat /\ Behind = MaxLen + 2 /\ N \in Nat /\ N + 1 = 2 * Behind
  BY <1>1 DEF Behind
<1>4. PICK a \in Nat, b \in Nat, B \in Nat : /\ a = Len(s) /\ b = Len(t) /\ B = Behind
                                             /\ a < B /\ b < B /\ N = 2 * B - 1
  BY <1>1, <1>2, <1>3
<1>5. m1 = [i \in 0 .. N |-> IF i + 1 \in 1 .. a THEN s[i + 1] ELSE IF i = a THEN NUL ELSE 1]
  <2>1. DOMAIN s = 1 .. a /\ DOMAIN m0 = 0 .. N
    BY <1>1, <1>4
  <2>2. \A i \in 0 .. N : i - 0 + 1 = i + 1 /\ (i = 0 + Len(s) <=> i = a)
    BY <1>3, <1>4
  <2> QED
    BY <2>1, <2>2 DEF Put
<1>6. Texts(s, t) = [i \in 0 .. N |-> IF i - B + 1 \in 1 .. b THEN t[i - B + 1]
                                      ELSE IF i = B + b THEN NUL ELSE m1[i]]
  <2>1. DOMAIN t = 1 .. b /\ DOMAIN m1 = 0 .. N
    BY <1>2, <1>4, <1>5
  <2>2. Texts(s, t) = Put(m1, Behind, t)
    BY DEF Texts
  <2> HIDE DEF m1, N
  <2> QED
    BY <2>1, <2>2, <1>4 DEF Put
<1> HIDE DEF m1, N
<1>7. ASSUME NEW i \in 0 .. N PROVE Texts(s, t)[i] = TextAt(s, t, i) /\ Texts(s, t)[i] \in Int
  <2>1. i \in Nat /\ (i + 1 \in 1 .. a <=> i < a) /\ (i - B + 1 \in 1 .. b <=> (~(i < B) /\ i < B + b))
    BY <1>3
  <2>2. Texts(s, t)[i] = IF ~(i < B) /\ i < B + b THEN t[i - B + 1]
                         ELSE IF i = B + b THEN NUL
                         ELSE IF i < a THEN s[i + 1] ELSE IF i = a THEN NUL ELSE 1
    BY <2>1, <1>5, <1>6
  <2>3. TextAt(s, t, i) = IF i < a THEN s[i + 1] ELSE IF i = a THEN NUL ELSE IF i < B THEN 1
                          ELSE IF i < B + b THEN t[i - B + 1] ELSE IF i = B + b THEN NUL ELSE 1
    BY <1>4 DEF TextAt
  <2>4. /\ i < a => s[i + 1] \in Int
        /\ ~(i < B) /\ i < B + b => t[i - B + 1] \in Int
    BY <1>1, <1>2, <1>4, <2>1
  <2> QED
    BY <1>4, <2>1, <2>2, <2>3, <2>4 DEF NUL
<1>8. Texts(s, t) \in Memories(N)
  BY <1>6, <1>7 DEF Memories
<1> QED
  BY <1>3, <1>7, <1>8 DEF N

\* Each of the two is there and ended by its NUL.
LEMMA TextsHold ==
  ASSUME NEW s \in Strings, NEW t \in Strings
  PROVE  /\ Holds(Texts(s, t), 2 * Behind - 1, 0, s)
         /\ Holds(Texts(s, t), 2 * Behind - 1, Behind, t)
<1> DEFINE N == 2 * Behind - 1
           m == Texts(s, t)
<1>1. /\ s \in Seq(Int) /\ Len(s) \in 0 .. MaxLen /\ MaxLen \in Nat /\ Len(s) \in Nat
      /\ \A i \in 1 .. Len(s) : s[i] \in Int /\ s[i] # NUL
  BY StringsAre
<1>2. /\ t \in Seq(Int) /\ Len(t) \in 0 .. MaxLen /\ Len(t) \in Nat
      /\ \A i \in 1 .. Len(t) : t[i] \in Int /\ t[i] # NUL
  BY StringsAre
<1>3. /\ N \in Nat /\ Behind \in Nat /\ Behind = MaxLen + 2 /\ N = 2 * Behind - 1
      /\ \A i \in 0 .. N : m[i] = TextAt(s, t, i)
  BY TextsAre
<1> HIDE DEF m, N
<1>4. PICK a \in Nat, b \in Nat, B \in Nat : /\ a = Len(s) /\ b = Len(t) /\ B = Behind
                                             /\ a < B /\ b < B /\ N = 2 * B - 1
  BY <1>1, <1>2, <1>3
<1>5. ASSUME NEW i \in 0 .. N
      PROVE  m[i] = IF i < a THEN s[i + 1] ELSE IF i = a THEN NUL ELSE IF i < B THEN 1
                    ELSE IF i < B + b THEN t[i - B + 1] ELSE IF i = B + b THEN NUL ELSE 1
  BY <1>3, <1>4 DEF TextAt
<1>6. ASSUME NEW i \in 0 .. a - 1 PROVE m[0 + i] = s[i + 1] /\ m[0 + i] # NUL
  <2>1. i \in 0 .. N /\ i < a /\ 0 + i = i /\ i + 1 \in 1 .. Len(s)
    BY <1>4
  <2> QED
    BY <2>1, <1>1, <1>5
<1>7. m[0 + a] = NUL
  <2>1. a \in 0 .. N /\ ~(a < a) /\ 0 + a = a
    BY <1>4
  <2> QED
    BY <2>1, <1>5
<1>8. ASSUME NEW i \in 0 .. b - 1 PROVE m[B + i] = t[i + 1] /\ m[B + i] # NUL
  <2>1. /\ B + i \in 0 .. N /\ ~(B + i < a) /\ B + i # a /\ ~(B + i < B) /\ B + i < B + b
        /\ (B + i) - B + 1 = i + 1 /\ i + 1 \in 1 .. Len(t)
    BY <1>4
  <2>2. m[B + i] = t[(B + i) - B + 1]
    BY <2>1, <1>5
  <2> QED
    BY <2>1, <2>2, <1>2
<1>9. m[B + b] = NUL
  <2>1. /\ B + b \in 0 .. N /\ ~(B + b < a) /\ B + b # a /\ ~(B + b < B) /\ ~(B + b < B + b)
    BY <1>4
  <2> QED
    BY <2>1, <1>5
<1>10. Holds(m, N, 0, s)
  BY <1>1, <1>4, <1>6, <1>7 DEF Holds
<1>11. Holds(m, N, Behind, t)
  BY <1>2, <1>3, <1>4, <1>8, <1>9 DEF Holds
<1> QED
  BY <1>10, <1>11 DEF m, N

\* The empty string is one of them.
LEMMA NoString == <<>> \in Strings
<1>1. 0 \in 0 .. MaxLen
  BY CallBounds
<1>2. <<>> \in [1 .. 0 -> Letters]
  OBVIOUS
<1> QED
  BY <1>1, <1>2 DEF Strings

\* A member that no other is above is the maximum.
LEMMA GreatestIs ==
  ASSUME NEW S, NEW f \in Int, f \in S, \A j \in S : j \in Int /\ j <= f
  PROVE  Max(S) = f
<1>1. Max(S) \in S /\ \A x \in S : Max(S) >= x
  BY MaxIs
<1>2. Max(S) \in Int /\ Max(S) <= f /\ Max(S) >= f
  BY <1>1
<1> QED
  BY <1>2

\* The first and the last place of a character in a string, as a string
\* function and as Positions count them
LEMMA FirstPosition ==
  ASSUME NEW s \in Strings, NEW t \in Strings, NEW c \in Int
  PROVE  LET hits == {i \in 0 .. 0 + Len(s) : Texts(s, t)[i] = c}
             P == Positions(Terminated(s), c)
         IN  (IF hits = {} THEN NotFound ELSE Min(hits)) = (IF P = {} THEN NotFound ELSE Min(P) - 1)
<1> DEFINE m == Texts(s, t)
           hits == {i \in 0 .. 0 + Len(s) : m[i] = c}
           P == Positions(Terminated(s), c)
<1>1. s \in Seq(Int) /\ Len(s) \in Nat
  BY StringsAre
<1>2. Terminated(s) \in Seq(Int) /\ DOMAIN Terminated(s) = 1 .. Len(s) + 1
  BY <1>1 DEF Terminated, NUL
<1>3. \A i \in 0 .. Len(s) : m[i] = Terminated(s)[i + 1]
  <2> TAKE i \in 0 .. Len(s)
  <2>1. i + 1 \in 1 .. Len(s) + 1
    BY <1>1
  <2>2. Terminated(s)[i + 1] = IF i + 1 <= Len(s) THEN s[i + 1] ELSE NUL
    BY <1>1, <2>1, TerminatedIs
  <2>3. m[i] = TextAt(s, t, i)
    <3>1. i \in 0 .. 2 * Behind - 1
      BY <1>1, TextsAre, StringsAre
    <3> HIDE DEF m
    <3> QED
      BY <3>1, TextsAre DEF m
  <2> QED
    BY <1>1, <2>2, <2>3 DEF TextAt
<1>4. \A i \in 0 .. Len(s) : i \in hits <=> i + 1 \in P
  <2> TAKE i \in 0 .. Len(s)
  <2>1. i \in hits <=> m[i] = c
    BY <1>1
  <2>2. i + 1 \in P <=> Terminated(s)[i + 1] = c
    <3>1. i + 1 \in DOMAIN Terminated(s)
      BY <1>1, <1>2
    <3> QED
      BY <3>1 DEF Positions
  <2> QED
    BY <1>3, <2>1, <2>2
<1>5. /\ \A i \in hits : i \in 0 .. Len(s) /\ i \in Nat
      /\ \A j \in P : j - 1 \in 0 .. Len(s) /\ j \in Nat /\ (j - 1) + 1 = j
  BY <1>1, <1>2 DEF Positions
<1> HIDE DEF hits, P
<1>6. \A j \in P : j - 1 \in hits
  BY <1>4, <1>5
<1>7. CASE hits = {}
  BY <1>6, <1>7 DEF hits, P
<1>8. CASE hits # {}
  <2>1. Min(hits) \in hits /\ \A x \in hits : Min(hits) <= x
    BY <1>5, <1>8, MinIs
  <2>2. PICK f \in Nat : f = Min(hits) /\ f \in hits /\ f + 1 \in P
    BY <1>4, <1>5, <2>1
  <2>3. \A j \in P : j \in Nat /\ f + 1 <= j
    BY <1>5, <1>6, <2>1, <2>2
  <2>4. Min(P) = f + 1
    BY <2>2, <2>3, LeastIs
  <2> QED
    BY <1>8, <2>2, <2>4 DEF hits, P
<1> QED
  BY <1>7, <1>8

\* The last address of c in memory and the last place of c in the string.
LEMMA LastPosition ==
  ASSUME NEW s \in Strings, NEW t \in Strings, NEW c \in Int
  PROVE  LET hits == {i \in 0 .. 0 + Len(s) - 1 : Texts(s, t)[i] = c}
         IN  (IF hits = {} THEN NotFound ELSE Max(hits)) = Max(Positions(s, c) \cup {0}) - 1
<1> DEFINE m == Texts(s, t)
           hits == {i \in 0 .. 0 + Len(s) - 1 : m[i] = c}
           P == Positions(s, c)
<1>1. s \in Seq(Int) /\ Len(s) \in Nat /\ DOMAIN s = 1 .. Len(s)
  BY StringsAre
<1>2. \A i \in 0 .. Len(s) - 1 : m[i] = s[i + 1]
  <2> TAKE i \in 0 .. Len(s) - 1
  <2>1. Holds(m, 2 * Behind - 1, 0, s)
    BY TextsHold
  <2>2. 0 + i = i
    OBVIOUS
  <2> HIDE DEF m
  <2> QED
    BY <2>1, <2>2 DEF Holds
<1>3. \A i \in 0 .. Len(s) - 1 : i \in hits <=> i + 1 \in P
  <2> TAKE i \in 0 .. Len(s) - 1
  <2>1. i \in hits <=> m[i] = c
    BY <1>1
  <2>2. i + 1 \in P <=> s[i + 1] = c
    BY <1>1 DEF Positions
  <2> QED
    BY <1>2, <2>1, <2>2
<1>4. /\ \A i \in hits : i \in 0 .. Len(s) - 1 /\ i \in Int /\ i <= Len(s)
      /\ \A j \in P : j - 1 \in 0 .. Len(s) - 1 /\ j \in Int /\ (j - 1) + 1 = j
  BY <1>1 DEF Positions
<1> HIDE DEF hits, P
<1>5. \A j \in P : j - 1 \in hits
  BY <1>3, <1>4
<1>6. CASE hits = {}
  <2>1. P \cup {0} = {0}
    BY <1>5, <1>6
  <2>2. Max({0}) = 0
    BY GreatestIs
  <2>3. Max(P \cup {0}) - 1 = NotFound
    BY <2>1, <2>2 DEF NotFound
  <2> QED
    BY <1>6, <2>3 DEF hits, P
<1>7. CASE hits # {}
  <2>1. Max(hits) \in hits /\ \A x \in hits : Max(hits) >= x
    BY <1>1, <1>4, <1>7, MaxIs
  <2>2. PICK f \in Int : f = Max(hits) /\ f \in hits /\ f + 1 \in P /\ f >= 0
    BY <1>3, <1>4, <2>1
  <2>3. \A j \in P \cup {0} : j \in Int /\ j <= f + 1
    BY <1>4, <1>5, <2>1, <2>2
  <2>4. Max(P \cup {0}) = f + 1
    BY <2>2, <2>3, GreatestIs
  <2> QED
    BY <1>7, <2>2, <2>4 DEF hits, P
<1> QED
  BY <1>6, <1>7

\* Calls of the routines on one string.
LEMMA StringCall == ASSUME CallString PROVE BytesRight'
<1>1. PICK s \in Strings, c \in Letters \cup {NUL}, n \in 0 .. MaxLen :
        \/ n = 0 /\ c = NUL /\ Called("strlen", s, asm_opt_strlen(Texts(s, <<>>), 0))
        \/ n = 0 /\ Called("strchr", <<s, c>>, asm_opt_strchr(Texts(s, <<>>), 0, c))
        \/ n = 0 /\ Called("strrchr", <<s, c>>, asm_opt_strrchr(Texts(s, <<>>), 0, c))
        \/ n = 0 /\ c = NUL /\ Called("strcpy", s, asm_opt_strcpy(Texts(s, <<>>), Behind, 0))
        \/ c = NUL /\ Called("strncpy", <<s, n>>, asm_opt_strncpy(Texts(s, <<>>), Behind, 0, n))
  BY DEF CallString
<1> DEFINE m == Texts(s, <<>>)
           N == 2 * Behind - 1
<1>2. /\ N \in Nat /\ m \in Memories(N) /\ 0 \in Nat /\ Holds(m, N, 0, s) /\ Behind \in Nat
      /\ Behind = MaxLen + 2 /\ N + 1 = 2 * Behind
  BY TextsAre, TextsHold, NoString
<1>3. Len(s) \in Nat /\ Len(s) \in 0 .. MaxLen /\ MaxLen \in Nat /\ n \in Nat /\ n <= MaxLen /\ c \in Int
  BY StringsAre DEF Letters, NUL
<1>4. CASE Called("strlen", s, asm_opt_strlen(m, 0))
  <2>1. asm_opt_strlen(m, 0) = Len(s)
    <3> HIDE DEF m, N
    <3> QED
      BY <1>2, StrlenIsLength
  <2>2. call'.fn = "strlen" /\ call'.in = s /\ call'.out = Len(s)
    BY <1>4, <2>1 DEF Called
  <2> QED
    BY <2>2 DEF BytesRight, MemoryRight, TextRight
<1>5. CASE Called("strchr", <<s, c>>, asm_opt_strchr(m, 0, c))
  <2> DEFINE hits == {i \in 0 .. 0 + Len(s) : m[i] = c}
             P == Positions(Terminated(s), c)
  <2>1. asm_opt_strchr(m, 0, c) = IF hits = {} THEN NotFound ELSE Min(hits)
    <3> HIDE DEF m, N
    <3> QED
      BY <1>2, StrchrIsFirst
  <2>2. (IF hits = {} THEN NotFound ELSE Min(hits)) = (IF P = {} THEN NotFound ELSE Min(P) - 1)
    BY <1>3, NoString, FirstPosition
  <2> HIDE DEF hits, P, m
  <2>3. /\ call'.fn = "strchr" /\ call'.in = <<s, c>>
        /\ call'.out = IF P = {} THEN NotFound ELSE Min(P) - 1
    BY <1>5, <2>1, <2>2 DEF Called
  <2> QED
    BY <2>3 DEF BytesRight, MemoryRight, TextRight, P
<1>6. CASE Called("strrchr", <<s, c>>, asm_opt_strrchr(m, 0, c))
  <2> DEFINE hits == {i \in 0 .. 0 + Len(s) - 1 : m[i] = c}
  <2>1. asm_opt_strrchr(m, 0, c) = IF hits = {} THEN NotFound ELSE Max(hits)
    <3> HIDE DEF m, N
    <3> QED
      BY <1>2, StrrchrIsLast
  <2>2. (IF hits = {} THEN NotFound ELSE Max(hits)) = Max(Positions(s, c) \cup {0}) - 1
    BY <1>3, NoString, LastPosition
  <2> HIDE DEF hits, m
  <2>3. /\ call'.fn = "strrchr" /\ call'.in = <<s, c>>
        /\ call'.out = Max(Positions(s, c) \cup {0}) - 1
    BY <1>6, <2>1, <2>2 DEF Called
  <2> QED
    BY <2>3 DEF BytesRight, MemoryRight, TextRight
<1>7. CASE Called("strcpy", s, asm_opt_strcpy(m, Behind, 0))
  <2>1. asm_opt_strcpy(m, Behind, 0) = Moved(m, Behind, 0, Len(s) + 1)
    <3>1. 0 + Len(s) < Behind /\ Behind \in Int
      BY <1>2, <1>3
    <3> HIDE DEF m, N
    <3> QED
      BY <1>2, <3>1, StrcpyIsMove
  <2>2. Moved(m, Behind, 0, Len(s) + 1) = Texts(s, s)
    <3>1. /\ Moved(m, Behind, 0, Len(s) + 1) \in Memories(N)
          /\ \A i \in 0 .. N : Moved(m, Behind, 0, Len(s) + 1)[i] =
                IF i \in Behind .. Behind + (Len(s) + 1) - 1 THEN m[0 + i - Behind] ELSE m[i]
      <4>1. Len(s) + 1 \in Nat /\ Behind \in Int /\ \A i \in 0 .. 0 + (Len(s) + 1) - 1 : i \in 0 .. N
        BY <1>2, <1>3
      <4> HIDE DEF m, N
      <4> QED
        BY <4>1, <1>2, MovedIs
    <3>2. Texts(s, s) \in Memories(N) /\ \A i \in 0 .. N : Texts(s, s)[i] = TextAt(s, s, i)
      BY TextsAre
    <3>3. \A i \in 0 .. N : m[i] = TextAt(s, <<>>, i)
      BY TextsAre, NoString
    <3> HIDE DEF m, N
    <3>4. ASSUME NEW i \in 0 .. N PROVE Moved(m, Behind, 0, Len(s) + 1)[i] = Texts(s, s)[i]
      <4>1. PICK a \in Nat, B \in Nat : a = Len(s) /\ B = Behind /\ a < B /\ N + 1 = 2 * B
        BY <1>2, <1>3
      <4>2. Len(<<>>) = 0
        OBVIOUS
      <4>3. CASE i \in B .. B + a
        <5>0. i \in Int /\ B <= i /\ i <= B + a
          BY <4>1, <4>3
        <5>1. /\ i \in Behind .. Behind + (Len(s) + 1) - 1 /\ 0 + i - Behind = i - B
              /\ i - B \in 0 .. N /\ i - B \in 0 .. a /\ i - B \in Int
          BY <5>0, <4>1, <1>2
        <5>2. Moved(m, Behind, 0, Len(s) + 1)[i] = TextAt(s, <<>>, i - B)
          BY <5>1, <3>1, <3>3
        <5>3. TextAt(s, <<>>, i - B) = IF i - B < a THEN s[(i - B) + 1] ELSE NUL
          BY <5>1, <4>1 DEF TextAt
        <5>4. TextAt(s, s, i) = IF i < B + a THEN s[i - B + 1] ELSE NUL
          BY <5>1, <4>1, <4>3 DEF TextAt
        <5>5. i - B < a <=> i < B + a
          BY <4>1, <4>3
        <5> QED
          BY <5>2, <5>3, <5>4, <5>5, <3>2
      <4>4. CASE i \notin B .. B + a
        <5>1. i \notin Behind .. Behind + (Len(s) + 1) - 1
          BY <4>1, <4>4
        <5>2. Moved(m, Behind, 0, Len(s) + 1)[i] = TextAt(s, <<>>, i)
          BY <5>1, <3>1, <3>3
        <5>3. i \in Int /\ ~(i < B /\ i >= B + a) /\ (i < B \/ i > B + a)
          BY <4>1, <4>4
        <5>4. TextAt(s, <<>>, i) = IF i < a THEN s[i + 1] ELSE IF i = a THEN NUL
                                   ELSE IF i < B THEN 1 ELSE IF i = B THEN NUL ELSE 1
          BY <4>1, <4>2, <5>3 DEF TextAt
        <5>5. TextAt(s, s, i) = IF i < a THEN s[i + 1] ELSE IF i = a THEN NUL
                                ELSE IF i < B THEN 1 ELSE 1
          BY <4>1, <5>3 DEF TextAt
        <5>6. i < B \/ i # B
          BY <4>1, <5>3
        <5> QED
          BY <5>2, <5>4, <5>5, <5>6, <3>2
      <4> QED
        BY <4>3, <4>4
    <3> QED
      BY <1>2, <3>1, <3>2, <3>4, SameMemory
  <2>3. call'.fn = "strcpy" /\ call'.in = s /\ call'.out = Texts(s, s)
    BY <1>7, <2>1, <2>2 DEF Called
  <2> QED
    BY <2>3 DEF BytesRight, MemoryRight, TextRight
<1>8. CASE Called("strncpy", <<s, n>>, asm_opt_strncpy(m, Behind, 0, n))
  <2> DEFINE x == asm_opt_strncpy(m, Behind, 0, n)
  <2>1. x = IF Len(s) >= n THEN Moved(m, Behind, 0, n)
            ELSE Filled(Moved(m, Behind, 0, Len(s)), Behind + Len(s), NUL, n - Len(s) + 1)
    <3>1. 0 + n <= Behind /\ 0 + n <= N + 1 /\ Behind \in Int
      BY <1>2, <1>3
    <3> HIDE DEF m, N
    <3> QED
      BY <1>2, <1>3, <3>1, StrncpyIsMoveAndFill
  <2>2. /\ \A i \in 1 .. n : x[Behind + i - 1] = IF i \in DOMAIN s THEN s[i] ELSE NUL
        /\ \A i \in DOMAIN x \ (Behind .. Behind + n) : x[i] = m[i]
        /\ Len(s) >= n => x[Behind + n] = m[Behind + n]
    <3>1. PICK a \in Nat, B \in Nat : /\ a = Len(s) /\ B = Behind /\ a < B /\ n < B /\ N + 1 = 2 * B
                                      /\ DOMAIN s = 1 .. a
      BY <1>2, <1>3, StringsAre
    <3>2. \A i \in 1 .. a : m[i - 1] = s[i]
      <4> TAKE i \in 1 .. a
      <4>1. i - 1 \in 0 .. Len(s) - 1 /\ 0 + (i - 1) = i - 1 /\ (i - 1) + 1 = i
        BY <3>1
      <4> HIDE DEF m
      <4> QED
        BY <4>1, <1>2 DEF Holds
    <3> HIDE DEF m, N, x
    <3>3. ASSUME NEW k \in Nat, k < B
          PROVE  /\ Moved(m, B, 0, k) \in Memories(N)
                 /\ \A i \in 0 .. N : Moved(m, B, 0, k)[i] =
                       IF i \in B .. B + k - 1 THEN m[0 + i - B] ELSE m[i]
      <4>1. B \in Int /\ 0 \in Int /\ \A i \in 0 .. 0 + k - 1 : i \in 0 .. N
        <5>1. PICK M \in Nat : M = N /\ M + 1 = 2 * B
          BY <1>2, <3>1
        <5>2. \A i \in 0 .. 0 + k - 1 : i \in 0 .. M
          BY <5>1, <3>1, <3>3
        <5> QED
          BY <5>1, <5>2
      <4> QED
        BY <4>1, <1>2, MovedIs
    <3>4. CASE a >= n
      <4>1. x = Moved(m, B, 0, n) /\ x \in Memories(N)
        BY <2>1, <3>1, <3>3, <3>4, <1>3
      <4>2. DOMAIN x = 0 .. N
        BY <4>1 DEF Memories
      <4>3. \A i \in 0 .. N : x[i] = IF i \in B .. B + n - 1 THEN m[0 + i - B] ELSE m[i]
        BY <4>1, <3>1, <3>3, <1>3
      <4>4. ASSUME NEW i \in 1 .. n PROVE x[B + i - 1] = s[i] /\ i \in DOMAIN s
        <5>1. /\ B + i - 1 \in 0 .. N /\ B + i - 1 \in B .. B + n - 1
              /\ 0 + (B + i - 1) - B = i - 1 /\ i \in 1 .. a
          BY <3>1, <3>4, <1>3, <1>2
        <5> QED
          BY <5>1, <4>3, <3>1, <3>2
      <4>5. ASSUME NEW i \in 0 .. N, i \notin B .. B + n - 1 PROVE x[i] = m[i]
        BY <4>3, <4>5
      <4>6. /\ B + n \in 0 .. N /\ B + n \notin B .. B + n - 1
            /\ \A i \in (0 .. N) \ (B .. B + n) : i \notin B .. B + n - 1
        BY <3>1, <1>3, <1>2
      <4> QED
        BY <3>1, <4>2, <4>4, <4>5, <4>6
    <3>5. CASE ~(a >= n)
      <4> DEFINE y == Moved(m, B, 0, a)
      <4>1. y \in Memories(N) /\ \A i \in 0 .. N : y[i] = IF i \in B .. B + a - 1 THEN m[0 + i - B] ELSE m[i]
        BY <3>1, <3>3
      <4> HIDE DEF y
      <4>2. x = Filled(y, B + a, NUL, n - a + 1)
        BY <2>1, <3>1, <3>5 DEF y
      <4>3. /\ x \in Memories(N)
            /\ \A i \in 0 .. N : x[i] = IF i \in B + a .. (B + a) + (n - a + 1) - 1 THEN NUL ELSE y[i]
        <5>1. B + a \in Int /\ NUL \in Int /\ n - a + 1 \in Nat
          BY <3>1, <3>5, <1>3 DEF NUL
        <5> QED
          BY <5>1, <4>1, <4>2, <1>2, FilledIs
      <4>4. DOMAIN x = 0 .. N
        BY <4>3 DEF Memories
      <4>5. ASSUME NEW i \in 1 .. n PROVE x[B + i - 1] = IF i \in DOMAIN s THEN s[i] ELSE NUL
        <5>1. /\ B + i - 1 \in 0 .. N /\ 0 + (B + i - 1) - B = i - 1
              /\ B + i - 1 \in B .. B + a - 1 <=> i \in 1 .. a
              /\ B + i - 1 \in B + a .. (B + a) + (n - a + 1) - 1 <=> i \notin 1 .. a
          BY <3>1, <3>5, <1>3, <1>2
        <5>2. CASE i \in 1 .. a
          BY <5>1, <5>2, <4>1, <4>3, <3>1, <3>2
        <5>3. CASE i \notin 1 .. a
          BY <5>1, <5>3, <4>3, <3>1
        <5> QED
          BY <5>2, <5>3
      <4>6. ASSUME NEW i \in 0 .. N, i \notin B .. B + n PROVE x[i] = m[i]
        <5>1. i \notin B .. B + a - 1 /\ i \notin B + a .. (B + a) + (n - a + 1) - 1
          BY <4>6, <3>1, <3>5, <1>3
        <5> QED
          BY <5>1, <4>1, <4>3
      <4> QED
        BY <3>1, <3>5, <4>4, <4>5, <4>6
    <3> QED
      BY <3>4, <3>5, <3>1
  <2> HIDE DEF x, m
  <2>3. call'.fn = "strncpy" /\ call'.in = <<s, n>> /\ call'.out = x
    BY <1>8 DEF Called, x
  <2> QED
    BY <2>2, <2>3 DEF BytesRight, MemoryRight, TextRight, m
<1> QED
  BY <1>1, <1>4, <1>5, <1>6, <1>7, <1>8

\* Calls of the routines on two strings.
LEMMA TwoStringsCall == ASSUME CallTwoStrings PROVE BytesRight'
<1>1. PICK s \in Strings, t \in Strings, n \in 0 .. MaxLen, neon \in BOOLEAN :
        LET x == Texts(s, t) IN
        \/ n = 0 /\ ~neon /\ Called("strcmp", <<s, t>>, asm_opt_strcmp(x, 0, Behind))
        \/ ~neon /\ Called("strncmp", <<s, t, n>>, asm_opt_strncmp(x, 0, Behind, n))
        \/ n = 0 /\ Called("strstr", <<s, t, neon>>, asm_opt_strstr(x, 0, t, neon))
        \/ n = 0 /\ Called("find", <<s, t, neon>>, asm_opt_buffer_find(x, 0, Len(s), t, neon))
  BY DEF CallTwoStrings
<1> DEFINE m == Texts(s, t)
           N == 2 * Behind - 1
<1>2. /\ N \in Nat /\ m \in Memories(N) /\ 0 \in Nat /\ Behind \in Nat
      /\ Holds(m, N, 0, s) /\ Holds(m, N, Behind, t)
  BY TextsAre, TextsHold
<1>3. /\ s \in Seq(Int) /\ t \in Seq(Int) /\ Len(s) \in Nat /\ Len(t) \in Nat
      /\ n \in Nat /\ (Len(t) = 0 <=> t = <<>>)
  BY StringsAre, CallBounds
<1> HIDE DEF N
<1>4. CASE Called("strcmp", <<s, t>>, asm_opt_strcmp(m, 0, Behind))
  <2>1. asm_opt_strcmp(m, 0, Behind) = Order(s, t)
    <3> HIDE DEF m
    <3> QED
      BY <1>2, StrcmpIsOrder
  <2>2. call'.fn = "strcmp" /\ call'.in = <<s, t>> /\ call'.out = Order(s, t)
    BY <1>4, <2>1 DEF Called
  <2> QED
    BY <2>2 DEF BytesRight, MemoryRight, TextRight
<1>5. CASE Called("strncmp", <<s, t, n>>, asm_opt_strncmp(m, 0, Behind, n))
  <2>1. asm_opt_strncmp(m, 0, Behind, n) = Order(Cut(s, n), Cut(t, n))
    <3> HIDE DEF m
    <3> QED
      BY <1>2, <1>3, StrncmpIsOrder
  <2>2. /\ call'.fn = "strncmp" /\ call'.in = <<s, t, n>>
        /\ call'.out = Order(Cut(s, n), Cut(t, n))
    BY <1>5, <2>1 DEF Called
  <2> QED
    BY <2>2 DEF BytesRight, MemoryRight, TextRight
<1>6. CASE Called("strstr", <<s, t, neon>>, asm_opt_strstr(m, 0, t, neon))
  <2> DEFINE x == asm_opt_strstr(m, 0, t, neon)
  <2>1. CASE t # <<>>
    <3>1. IF Matches(s, t) = {} THEN x = NotFound ELSE Found(x, Matches(s, t), Len(t), neon)
      <4> HIDE DEF m
      <4> QED
        BY <1>2, <1>3, <2>1, StrstrIsMatch
    <3> HIDE DEF x
    <3>2. call'.fn = "strstr" /\ call'.in = <<s, t, neon>> /\ call'.out = x
      BY <1>6 DEF Called, x
    <3> QED
      BY <3>1, <3>2 DEF BytesRight, MemoryRight, TextRight
  <2>2. CASE t = <<>>
    <3>1. x = 0
      BY <1>3, <2>2 DEF asm_opt_strstr
    <3>2. Found(0, Matches(s, t), Len(t), neon)
      <4>1. SubSeq(s, 0 + 1, 0 + 0) = <<>>
        BY SubSeqEmpty
      <4>2. Len(t) = 0 /\ 0 \in 0 .. Len(s) - Len(t)
        BY <1>3, <2>2
      <4>3. 0 \in Matches(s, t)
        BY <4>1, <4>2, <2>2 DEF Matches
      <4>4. \A i \in Matches(s, t) : i \in Nat /\ 0 <= i
        BY <1>3 DEF Matches
      <4>5. Min(Matches(s, t)) = 0
        BY <4>3, <4>4, LeastIs
      <4> QED
        BY <4>3, <4>5 DEF Found
    <3>3. call'.fn = "strstr" /\ call'.in = <<s, t, neon>> /\ call'.out = 0
      BY <1>6, <3>1 DEF Called
    <3>4. call'.in[1] = s /\ call'.in[2] = t /\ call'.in[3] = neon
      BY <3>3
    <3>5. Matches(s, t) # {}
      BY <3>2 DEF Found
    <3> QED
      BY <3>2, <3>3, <3>4, <3>5 DEF BytesRight, MemoryRight, TextRight
  <2> QED
    BY <2>1, <2>2
<1>7. CASE Called("find", <<s, t, neon>>, asm_opt_buffer_find(m, 0, Len(s), t, neon))
  <2> DEFINE x == asm_opt_buffer_find(m, 0, Len(s), t, neon)
             any == {i \in 0 .. Len(s) - Len(t) : MatchAt(m, 0, t, i)}
  <2>1. any = Matches(s, t)
    <3> HIDE DEF m
    <3> QED
      BY <1>2, <1>3, MatchInMemory
  <2>2. IF Len(t) = 0 \/ any = {} THEN x = NotFound ELSE Found(x, any, Len(t), neon)
    <3> HIDE DEF m
    <3> QED
      BY <1>3, BufferFindIsMatch
  <2> HIDE DEF x, any
  <2>3. IF t = <<>> \/ Matches(s, t) = {} THEN x = NotFound ELSE Found(x, Matches(s, t), Len(t), neon)
    BY <1>3, <2>1, <2>2
  <2>4. call'.fn = "find" /\ call'.in = <<s, t, neon>> /\ call'.out = x
    BY <1>7 DEF Called, x
  <2> QED
    BY <2>3, <2>4 DEF BytesRight, MemoryRight, TextRight
<1> QED
  BY <1>1, <1>4, <1>5, <1>6, <1>7

\* The functions on HTTP text
HttpNames == {"header_end", "header", "method", "known", "encode", "decode", "refuse", "high",
              "url", "status", "length", "write", "order"}

CallHttp == \/ CallHeaderEnd \/ CallHeaderLine \/ CallMethod \/ CallBase64 \/ CallUrl
            \/ CallStatus \/ CallLength \/ CallWrite \/ CallOrder

\* BytesRight is silent about the calls of the HTTP routines.
LEMMA HttpCall == ASSUME CallHttp PROVE BytesRight'
<1>1. call'.fn \in HttpNames
  <2>1. ASSUME CallHeaderEnd PROVE call'.fn \in HttpNames
    BY <2>1 DEF CallHeaderEnd, Called, HttpNames
  <2>2. ASSUME CallHeaderLine PROVE call'.fn \in HttpNames
    BY <2>2 DEF CallHeaderLine, Called, HttpNames
  <2>3. ASSUME CallMethod PROVE call'.fn \in HttpNames
    BY <2>3 DEF CallMethod, Called, HttpNames
  <2>4. ASSUME CallBase64 PROVE call'.fn \in HttpNames
    <3>1. PICK n \in 0 .. 3 * MaxLen - 2, a \in {0, 77, 255}, b \in {0, 77, 255}, neon \in BOOLEAN :
            LET x == [i \in 1 .. n |-> IF i % 2 = 0 THEN a ELSE b]
                y == asm_opt_base64_encode(x, 4 * n + 5, neon)
            IN \/ Called("encode", x, y)
               \/ Called("decode", x, asm_opt_base64_decode(y, 3 * n, ~neon))
               \/ \E i \in DOMAIN y : y[i] # Pad /\ CallForeign(y, i, 3 * n, neon)
      BY <2>4 DEF CallBase64
    <3> DEFINE x == [i \in 1 .. n |-> IF i % 2 = 0 THEN a ELSE b]
               y == asm_opt_base64_encode(x, 4 * n + 5, neon)
    <3>2. CASE Called("encode", x, y)
      BY <3>2 DEF Called, HttpNames
    <3>3. CASE Called("decode", x, asm_opt_base64_decode(y, 3 * n, ~neon))
      BY <3>3 DEF Called, HttpNames
    <3>4. CASE \E i \in DOMAIN y : y[i] # Pad /\ CallForeign(y, i, 3 * n, neon)
      <4> HIDE DEF x, y
      <4>1. PICK i \in DOMAIN y : CallForeign(y, i, 3 * n, neon)
        BY <3>4
      <4> QED
        BY <4>1 DEF CallForeign, Called, HttpNames
    <3>5. \/ Called("encode", x, y)
          \/ Called("decode", x, asm_opt_base64_decode(y, 3 * n, ~neon))
          \/ \E i \in DOMAIN y : y[i] # Pad /\ CallForeign(y, i, 3 * n, neon)
      BY ONLY <3>1
    <3> QED
      BY <3>5, <3>2, <3>3, <3>4
  <2>5. ASSUME CallUrl PROVE call'.fn \in HttpNames
    BY <2>5 DEF CallUrl, Called, HttpNames
  <2>6. ASSUME CallStatus PROVE call'.fn \in HttpNames
    BY <2>6 DEF CallStatus, Called, HttpNames
  <2>7. ASSUME CallLength PROVE call'.fn \in HttpNames
    BY <2>7 DEF CallLength, Called, HttpNames
  <2>8. ASSUME CallWrite PROVE call'.fn \in HttpNames
    BY <2>8 DEF CallWrite, Called, HttpNames
  <2>9. ASSUME CallOrder PROVE call'.fn \in HttpNames
    BY <2>9 DEF CallOrder, Called, HttpNames
  <2> QED
    BY <2>1, <2>2, <2>3, <2>4, <2>5, <2>6, <2>7, <2>8, <2>9 DEF CallHttp
<1> QED
  BY <1>1 DEF HttpNames, BytesRight, MemoryRight, TextRight

\* BytesRight, for every length of the strings and buffers and all widths of
\* the registers: each of the memory and string functions of asm_opt.c returns
\* what the C library's returns, but for the three exceptions TextRight names.
THEOREM BytesAreRight == CallSpec => []BytesRight
<1>1. CallInit => BytesRight
  BY DEF CallInit, BytesRight, MemoryRight, TextRight
<1>2. BytesRight /\ [CallNext]_call => BytesRight'
  <2>1. CASE CallNext
    BY <2>1, MemoryCall, CompareCall, ArrayCall, StringCall, TwoStringsCall, HttpCall
       DEF CallNext, CallHttp
  <2>2. CASE UNCHANGED call
    BY <2>2 DEF BytesRight, MemoryRight, TextRight
  <2> QED
    BY <2>1, <2>2
<1> QED
  BY <1>1, <1>2, PTL DEF CallSpec

-----------------------------------------------------------------------------
(* Sequences joined together                                               *)

\* The partial results of FlattenSeq.
Joins(f, seqs) ==
  /\ f[1] = seqs[1]
  /\ \A i \in 2 .. Len(seqs) : f[i] = f[i - 1] \o seqs[i]

\* Joining texts one after the other.
LEMMA FlattenSteps ==
  ASSUME NEW T, NEW seqs \in Seq(Seq(T)), seqs # <<>>
  PROVE  \E f : /\ Joins(f, seqs) /\ FlattenSeq(seqs) = f[Len(seqs)]
                /\ \A i \in 1 .. Len(seqs) : f[i] \in Seq(T)
<1> DEFINE q == Len(seqs)
           Solves(f) == f = [i \in 1 .. q |-> IF i = 1 THEN seqs[i] ELSE f[i - 1] \o seqs[i]]
           g == [n \in Nat |-> [y \in Seq(T) |->
                   IF n \in 1 .. q THEN IF n = 1 THEN seqs[n] ELSE y \o seqs[n] ELSE y]]
<1>1. q \in Nat /\ q # 0 /\ \A i \in 1 .. q : seqs[i] \in Seq(T)
  BY LenProperties, EmptySeq
<1>2. <<>> \in Seq(T)
  BY EmptySeq
<1>3. ASSUME NEW n \in Nat, NEW y \in Seq(T)
      PROVE  /\ g[n][y] = IF n \in 1 .. q THEN IF n = 1 THEN seqs[n] ELSE y \o seqs[n] ELSE y
             /\ g[n][y] \in Seq(T)
  <2>1. n \in 1 .. q => y \o seqs[n] \in Seq(T)
    BY <1>1, ConcatProperties
  <2> QED
    BY <1>1, <2>1
<1> HIDE DEF g, q
<1>4. PICK h \in [Nat -> Seq(T)] : Follows(h, <<>>, g)
  <2>1. Advances(g, Seq(T))
    BY <1>3 DEF Advances
  <2> QED
    BY <1>2, <2>1, StepByStep
<1> DEFINE F == [i \in 1 .. q |-> h[i]]
<1>5. ASSUME NEW i \in 1 .. q
      PROVE  h[i] = IF i = 1 THEN seqs[i] ELSE h[i - 1] \o seqs[i]
  <2>1. i \in Nat \ {0} /\ i - 1 \in Nat
    BY <1>1
  <2>2. h[i - 1] \in Seq(T) /\ h[i] = g[i][h[i - 1]]
    BY <1>4, <2>1 DEF Follows
  <2> QED
    BY <1>3, <2>1, <2>2
<1>6. Solves(F)
  <2>1. \A i \in 1 .. q : i # 1 => i - 1 \in 1 .. q
    BY <1>1
  <2> QED
    BY <1>5, <2>1
<1>7. PICK f : Solves(f) /\ FlattenSeq(seqs) = f[q]
  <2>1. FlattenSeq(seqs) = (CHOOSE f : Solves(f))[q]
    BY <1>1 DEF FlattenSeq, q
  <2>2. Solves(CHOOSE f : Solves(f))
    BY <1>6
  <2> QED
    BY <2>1, <2>2
<1>8. Joins(f, seqs)
  <2>1. ASSUME NEW i \in 1 .. q PROVE f[i] = IF i = 1 THEN seqs[i] ELSE f[i - 1] \o seqs[i]
    BY <1>7
  <2>2. 1 \in 1 .. q /\ \A i \in 2 .. q : i \in 1 .. q /\ i # 1
    BY <1>1
  <2> QED
    BY <2>1, <2>2 DEF Joins, q
<1>9. \A i \in 1 .. q : f[i] \in Seq(T)
  <2> DEFINE C == {i \in 1 .. q : f[i] \notin Seq(T)}
  <2>1. SUFFICES ASSUME C # {} PROVE FALSE
    OBVIOUS
  <2>2. C \in SUBSET Nat
    BY <1>1
  <2>3. PICK i \in C : \A j \in C : i <= j
    BY <2>1, <2>2, LeastNumber
  <2>4. i \in 1 .. q /\ f[i] \notin Seq(T)
    OBVIOUS
  <2>5. i # 1
    BY <1>1, <1>8, <2>4 DEF Joins
  <2>6. i - 1 \in 1 .. q /\ i \in 2 .. q /\ ~(i <= i - 1)
    BY <1>1, <2>4, <2>5
  <2>7. f[i - 1] \in Seq(T)
    BY <2>3, <2>6
  <2>8. f[i] = f[i - 1] \o seqs[i] /\ seqs[i] \in Seq(T)
    BY <1>1, <1>8, <2>4, <2>6 DEF Joins, q
  <2> QED
    BY <2>4, <2>7, <2>8, ConcatProperties
<1> QED
  BY <1>7, <1>8, <1>9 DEF q

\* What is joined from texts of a kind is of that kind.
LEMMA FlattenType ==
  ASSUME NEW T, NEW seqs \in Seq(Seq(T))
  PROVE  FlattenSeq(seqs) \in Seq(T)
<1>1. CASE seqs = <<>>
  <2>1. FlattenSeq(seqs) = <<>>
    BY <1>1, EmptySeq DEF FlattenSeq
  <2> QED
    BY <2>1, EmptySeq
<1>2. CASE seqs # <<>>
  <2>1. Len(seqs) \in 1 .. Len(seqs)
    BY <1>2, EmptySeq
  <2> QED
    BY <1>2, <2>1, FlattenSteps
<1> QED
  BY <1>1, <1>2

\* Chunks of the same length lie one behind the other
Chunks(x, seqs, c) ==
  /\ Len(x) = Len(seqs) * c
  /\ \A i \in 1 .. Len(seqs), j \in 1 .. c : x[(i - 1) * c + j] = seqs[i][j]

\* Where the texts have one length, each is found at a multiple of it.
LEMMA FlattenChunks ==
  ASSUME NEW T, NEW seqs \in Seq(Seq(T)), NEW c \in Nat, \A i \in 1 .. Len(seqs) : Len(seqs[i]) = c
  PROVE  FlattenSeq(seqs) \in Seq(T) /\ Chunks(FlattenSeq(seqs), seqs, c)
<1>1. CASE seqs = <<>>
  <2>1. FlattenSeq(seqs) = <<>> /\ Len(seqs) = 0
    BY <1>1, EmptySeq DEF FlattenSeq
  <2>2. 0 * c = 0
    OBVIOUS
  <2> QED
    BY <2>1, <2>2, EmptySeq DEF Chunks
<1>2. CASE seqs # <<>>
  <2> DEFINE q == Len(seqs)
  <2>1. q \in Nat /\ q # 0 /\ \A i \in 1 .. q : seqs[i] \in Seq(T) /\ Len(seqs[i]) = c
    BY <1>2, LenProperties, EmptySeq
  <2>2. PICK f : /\ Joins(f, seqs) /\ FlattenSeq(seqs) = f[q]
                 /\ \A i \in 1 .. q : f[i] \in Seq(T)
    BY <1>2, FlattenSteps
  <2>3. f[1] = seqs[1] /\ \A i \in 2 .. q : f[i] = f[i - 1] \o seqs[i]
    BY <2>2 DEF Joins
  <2> HIDE DEF q
  <2> DEFINE Done(i) == /\ Len(f[i]) = i * c
                        /\ \A k \in 1 .. i, j \in 1 .. c : f[i][(k - 1) * c + j] = seqs[k][j]
             C == {i \in 1 .. q : ~Done(i)}
  <2>4. Done(1)
    <3>1. 1 * c = c /\ (1 - 1) * c = 0 /\ 1 \in 1 .. q
      BY <2>1
    <3>2. \A j \in 1 .. c : 0 + j = j
      OBVIOUS
    <3> QED
      BY <2>1, <2>3, <3>1, <3>2
  <2>5. ASSUME NEW i \in 2 .. q, Done(i - 1) PROVE Done(i)
    <3>1. i \in 1 .. q /\ i - 1 \in 1 .. q /\ i \in Nat /\ i - 1 \in Nat /\ (i - 1) + 1 = i
      BY <2>1
    <3>2. PICK a \in Nat : a = (i - 1) * c
      BY <3>1, Products
    <3>3. i * c = a + c
      BY <3>1, <3>2, Products
    <3>4. f[i - 1] \in Seq(T) /\ seqs[i] \in Seq(T) /\ Len(seqs[i]) = c /\ Len(f[i - 1]) = a
      BY <2>1, <2>2, <2>5, <3>1, <3>2
    <3>5. /\ Len(f[i]) = a + c
          /\ \A x \in 1 .. a + c : f[i][x] = IF x <= a THEN f[i - 1][x] ELSE seqs[i][x - a]
      <4> DEFINE u == f[i - 1]
                 v == seqs[i]
      <4>1. u \in Seq(T) /\ v \in Seq(T) /\ Len(u) = a /\ Len(v) = c
        BY <3>4
      <4>2. f[i] = u \o v
        BY <2>3
      <4> HIDE DEF u, v
      <4>3. /\ Len(u \o v) = a + c
            /\ \A x \in 1 .. a + c : (u \o v)[x] = IF x <= a THEN u[x] ELSE v[x - a]
        BY <4>1, ConcatProperties
      <4> QED
        BY <4>2, <4>3 DEF u, v
    <3>6. ASSUME NEW k \in 1 .. i, NEW j \in 1 .. c PROVE f[i][(k - 1) * c + j] = seqs[k][j]
      <4>1. CASE k = i
        <5>1. a + j \in 1 .. a + c /\ ~(a + j <= a) /\ (a + j) - a = j
          OBVIOUS
        <5> QED
          BY <4>1, <5>1, <3>2, <3>5
      <4>2. CASE k # i
        <5>1. k \in 1 .. i - 1 /\ k - 1 \in Nat /\ k \in Nat /\ (k - 1) + 1 = k /\ k <= i - 1
          BY <3>1, <4>2
        <5>2. PICK b \in Nat : b = (k - 1) * c
          BY <5>1, Products
        <5>3. k * c = b + c /\ k * c <= a
          BY <3>1, <3>2, <5>1, <5>2, Products
        <5>4. b + j \in 1 .. a + c /\ b + j <= a
          BY <5>3
        <5>5. f[i][b + j] = f[i - 1][b + j]
          BY <5>4, <3>5
        <5>6. f[i - 1][b + j] = seqs[k][j]
          BY <2>5, <5>1, <5>2
        <5> QED
          BY <5>2, <5>5, <5>6
      <4> QED
        BY <4>1, <4>2
    <3> QED
      BY <3>3, <3>5, <3>6
  <2>6. C = {}
    <3>1. SUFFICES ASSUME C # {} PROVE FALSE
      OBVIOUS
    <3>2. C \in SUBSET Nat
      BY <2>1
    <3>3. PICK i \in C : \A j \in C : i <= j
      BY <3>1, <3>2, LeastNumber
    <3>4. i \in 1 .. q /\ ~Done(i)
      OBVIOUS
    <3>5. i # 1
      BY <2>4, <3>4
    <3>6. i - 1 \in 1 .. q /\ i \in 2 .. q /\ ~(i <= i - 1)
      BY <2>1, <3>4, <3>5
    <3>7. Done(i - 1)
      BY <3>3, <3>6
    <3> HIDE DEF Done
    <3> QED
      BY <2>5, <3>4, <3>6, <3>7
  <2>7. Done(q) /\ f[q] \in Seq(T)
    <3>1. q \in 1 .. q
      BY <2>1
    <3>2. f[q] \in Seq(T)
      BY <2>2, <3>1 DEF q
    <3> HIDE DEF Done
    <3> QED
      BY <2>6, <3>1, <3>2
  <2> QED
    BY <2>2, <2>7 DEF Chunks, q
<1> QED
  BY <1>1, <1>2

-----------------------------------------------------------------------------
(* The functions on HTTP text                                              *)

\* A header end is reported where one is, and missed nowhere: what the fast
\* loop finds in a chunk is one, and the simple search starts over.  In a text
\* of less than three bytes that search has no end.
\* asm_opt_find_http_header_end
THEOREM HeaderEndIsMatch ==
  ASSUME NEW b, Len(b) \in Nat, Len(b) >= 3, NEW neon
  PROVE  LET E == {i + 4 : i \in Matches(b, HeaderEnd)}
         IN  IF E = {} THEN asm_opt_find_http_header_end(b, neon) = NotFound
             ELSE asm_opt_find_http_header_end(b, neon) \in E
<1> DEFINE n == Len(b)
           E == {i + 4 : i \in Matches(b, HeaderEnd)}
           hits == {k \in 0 .. n \div Stride - 1 : EndAt(b, k * Stride) \/ EndAt(b, k * Stride + 1)}
           inChunk == {i \in Min(hits) * Stride .. Min(hits) * Stride + Stride - 1 : EndAt(b, i)}
           any == {i \in 0 .. n - 4 : EndAt(b, i)}
<1>1. asm_opt_find_http_header_end(b, neon) =
        IF neon /\ hits # {} THEN Min(inChunk) + 4
        ELSE IF any # {} THEN Min(any) + 4 ELSE NotFound
  <2>1. ~(Len(b) < 3)
    OBVIOUS
  <2> QED
    BY <2>1 DEF asm_opt_find_http_header_end
<1>2. \A i \in Nat : EndAt(b, i) <=> i \in Matches(b, HeaderEnd)
  <2> TAKE i \in Nat
  <2>1. Len(HeaderEnd) = 4
    BY DEF HeaderEnd
  <2>2. i + 3 < n <=> i \in 0 .. n - 4
    OBVIOUS
  <2> QED
    BY <2>1, <2>2 DEF EndAt, Matches
<1>3. \A i \in Matches(b, HeaderEnd) : i \in 0 .. n - 4 /\ i \in Nat
  BY DEF Matches, HeaderEnd
<1>4. any = Matches(b, HeaderEnd)
  <2>1. \A i \in any : i \in Nat /\ EndAt(b, i)
    OBVIOUS
  <2>2. \A i \in Nat : i \in 0 .. n - 4 /\ EndAt(b, i) => i \in any
    OBVIOUS
  <2> HIDE DEF any, n
  <2> QED
    BY <2>1, <2>2, <1>2, <1>3
<1>5. any # {} => Min(any) \in any
  <2>1. \A i \in any : i \in Nat
    BY <1>3, <1>4
  <2> HIDE DEF any
  <2> QED
    BY <2>1, MinIs
<1>6. hits # {} => Min(inChunk) \in Matches(b, HeaderEnd)
  <2> SUFFICES ASSUME hits # {} PROVE Min(inChunk) \in Matches(b, HeaderEnd)
    OBVIOUS
  <2>1. \A k \in hits : k \in Nat
    OBVIOUS
  <2>2. Min(hits) \in hits
    <3> HIDE DEF hits
    <3> QED
      BY <2>1, MinIs
  <2>3. PICK k \in Nat : k = Min(hits) /\ (EndAt(b, k * 8) \/ EndAt(b, k * 8 + 1))
    BY <2>1, <2>2 DEF Stride
  <2>4. inChunk = {i \in k * 8 .. k * 8 + 8 - 1 : EndAt(b, i)}
    BY <2>3 DEF Stride
  <2> HIDE DEF inChunk
  <2>5. inChunk # {}
    <3>1. k * 8 \in k * 8 .. k * 8 + 8 - 1 /\ k * 8 + 1 \in k * 8 .. k * 8 + 8 - 1
      OBVIOUS
    <3> QED
      BY <3>1, <2>3, <2>4
  <2>6. \A i \in inChunk : i \in Nat /\ EndAt(b, i)
    BY <2>4
  <2>7. Min(inChunk) \in inChunk
    BY <2>5, <2>6, MinIs
  <2> QED
    BY <2>6, <2>7, <1>2
<1> HIDE DEF hits, inChunk, any
<1>7. E = {} <=> Matches(b, HeaderEnd) = {}
  OBVIOUS
<1>8. \A i \in Matches(b, HeaderEnd) : i + 4 \in E
  OBVIOUS
<1> HIDE DEF E
<1>9. IF E = {} THEN asm_opt_find_http_header_end(b, neon) = NotFound
      ELSE asm_opt_find_http_header_end(b, neon) \in E
  BY <1>1, <1>4, <1>5, <1>6, <1>7, <1>8
<1> QED
  BY <1>9 DEF E

\* The methods the fast path finds are those the slow one finds, but for the
\* one its constant does not spell.  asm_opt_fast_http_method_detect
THEOREM MethodIsIndex ==
  ASSUME NEW w, w \notin {"DELETE", "LEDETE"}, NEW neon
  PROVE  asm_opt_fast_http_method_detect(w, neon) = IndexOf(Methods, w)
<1>1. {i \in DOMAIN MethodWords : MethodWords[i] = w} = {i \in DOMAIN Methods : Methods[i] = w}
  <2>1. DOMAIN MethodWords = 1 .. 6 /\ DOMAIN Methods = 1 .. 6
    BY DEF Methods, MethodWords
  <2>2. \A i \in 1 .. 6 : MethodWords[i] = w <=> Methods[i] = w
    <3> TAKE i \in 1 .. 6
    <3>1. i = 1 \/ i = 2 \/ i = 3 \/ i = 4 \/ i = 5 \/ i = 6
      OBVIOUS
    <3> QED
      BY <3>1 DEF Methods, MethodWords
  <2> QED
    BY <2>1, <2>2
<1> QED
  BY <1>1 DEF asm_opt_fast_http_method_detect, IndexOf

\* A header line never takes more than the room it is given.
\* asm_opt_write_http_header
THEOREM WriteFits ==
  ASSUME NEW T, NEW name \in Seq(T), NEW value \in Seq(T), {":", "SP", CR, LF} \subseteq T,
         NEW size \in Nat, NEW neon
  PROVE  Len(asm_opt_write_http_header(name, value, size, neon)) <= size
<1> DEFINE line == name \o <<":", "SP">> \o value \o <<CR, LF>>
           out == asm_opt_write_http_header(name, value, size, neon)
<1>1. line \in Seq(T)
  <2>1. <<":", "SP">> \in Seq(T) /\ <<CR, LF>> \in Seq(T)
    OBVIOUS
  <2>2. name \o <<":", "SP">> \in Seq(T)
    BY <2>1, ConcatProperties
  <2>3. (name \o <<":", "SP">>) \o value \in Seq(T)
    BY <2>2, ConcatProperties
  <2> QED
    BY <2>1, <2>3, ConcatProperties
<1>2. out = IF neon /\ size >= Block
            THEN IF Len(line) > size THEN <<>> ELSE line
            ELSE SubSeq(line, 1, Min({Len(line), size - 1}))
  BY DEF asm_opt_write_http_header
<1> SUFFICES Len(out) <= size
  OBVIOUS
<1> HIDE DEF line, out
<1>3. Len(line) \in Nat
  BY <1>1, LenProperties
<1>4. CASE neon /\ size >= Block
  BY <1>2, <1>3, <1>4, EmptySeq
<1>5. CASE ~(neon /\ size >= Block)
  <2>1. CASE size = 0
    <3>1. \A x \in {Len(line), size - 1} : x = Len(line) \/ x = -1
      BY <2>1
    <3>2. Min({Len(line), size - 1}) = -1
      <4>1. \E x \in {Len(line), size - 1} : \A y \in {Len(line), size - 1} : x <= y
        BY <1>3, <2>1
      <4>2. /\ Min({Len(line), size - 1}) \in {Len(line), size - 1}
            /\ \A y \in {Len(line), size - 1} : Min({Len(line), size - 1}) <= y
        BY <4>1 DEF Min
      <4> QED
        BY <1>3, <2>1, <4>2
    <3>3. out = SubSeq(line, 1, -1)
      BY <1>2, <1>5, <3>2
    <3>4. SubSeq(line, 1, -1) = <<>>
      BY SubSeqEmpty
    <3> QED
      BY <3>3, <3>4, <2>1, EmptySeq
  <2>2. CASE size # 0
    <3>1. PICK a \in Nat, s \in Nat : a = Len(line) /\ s = size - 1
      BY <1>3, <2>2
    <3>2. PICK k \in Nat : k = Min({a, s}) /\ k <= a /\ k <= s
      BY LesserOf
    <3>3. out = SubSeq(line, 1, k)
      BY <1>2, <1>5, <3>1, <3>2
    <3>4. \A i \in 1 .. k : line[i] \in T
      BY <1>1, <3>1, <3>2, ElementOfSeq
    <3>5. Len(SubSeq(line, 1, k)) = IF 1 <= k THEN k - 1 + 1 ELSE 0
      BY <3>4, SubSeqProperties
    <3> QED
      BY <3>1, <3>2, <3>3, <3>5
  <2> QED
    BY <2>1, <2>2
<1> QED
  BY <1>4, <1>5

\* Swapped twice, a number is itself.  asm_opt_htons, asm_opt_htonl
THEOREM SwappedTwice ==
  ASSUME NEW T, NEW x \in Seq(T)
  PROVE  asm_opt_htons(asm_opt_htons(x)) = x /\ asm_opt_htonl(asm_opt_htonl(x)) = x
<1> DEFINE n == Len(x)
           y == Reverse(x)
<1>1. n \in Nat /\ DOMAIN x = 1 .. n /\ x = [i \in 1 .. n |-> x[i]]
  BY LenProperties
<1>2. y = [i \in 1 .. n |-> x[(n - i) + 1]]
  BY DEF Reverse
<1>3. Len(y) = n /\ \A i \in 1 .. n : y[i] = x[(n - i) + 1]
  BY <1>1, <1>2
<1> HIDE DEF n, y
<1>4. Reverse(y) = [i \in 1 .. n |-> y[(n - i) + 1]]
  BY <1>3 DEF Reverse
<1>5. \A i \in 1 .. n : (n - i) + 1 \in 1 .. n /\ (n - ((n - i) + 1)) + 1 = i
  BY <1>1
<1>6. \A i \in 1 .. n : y[(n - i) + 1] = x[i]
  BY <1>3, <1>5
<1> QED
  BY <1>1, <1>4, <1>6 DEF asm_opt_htons, asm_opt_htonl, y

-----------------------------------------------------------------------------
(* Numbers and their digits                                                *)

\* u[i] is the number the first i digits of d spell
Reads(u, d) ==
  /\ u[0] = 0
  /\ \A i \in 1 .. Len(d) : u[i] = 10 * u[i - 1] + d[i]
  /\ \A i \in 0 .. Len(d) : u[i] \in Nat

\* The number that digits spell, read from the first to the last.
LEMMA NumberReads ==
  ASSUME NEW d \in Seq(Nat)
  PROVE  \E u : Reads(u, d) /\ Number(d) = u[Len(d)]
<1> DEFINE q == Len(d)
           Solves(u) == u = [i \in 0 .. q |-> IF i = 0 THEN 0 ELSE 10 * u[i - 1] + d[i]]
           g == [n \in Nat |-> [y \in Nat |-> IF n \in 1 .. q THEN 10 * y + d[n] ELSE y]]
<1>1. q \in Nat /\ \A i \in 1 .. q : d[i] \in Nat
  BY LenProperties
<1>2. ASSUME NEW n \in Nat, NEW y \in Nat
      PROVE  g[n][y] = (IF n \in 1 .. q THEN 10 * y + d[n] ELSE y) /\ g[n][y] \in Nat
  <2>1. n \in 1 .. q => 10 * y + d[n] \in Nat
    BY <1>1
  <2> QED
    BY <2>1
<1> HIDE DEF g, q
<1>3. PICK h \in [Nat -> Nat] : Follows(h, 0, g)
  <2>1. Advances(g, Nat)
    BY <1>2 DEF Advances
  <2> QED
    BY <2>1, StepByStep
<1> DEFINE F == [i \in 0 .. q |-> h[i]]
<1>4. ASSUME NEW i \in 0 .. q
      PROVE  h[i] = IF i = 0 THEN 0 ELSE 10 * h[i - 1] + d[i]
  <2>1. CASE i = 0
    BY <2>1, <1>3 DEF Follows
  <2>2. CASE i # 0
    <3>1. i \in Nat \ {0} /\ i - 1 \in Nat /\ i \in 1 .. q
      BY <1>1, <2>2
    <3>2. h[i] = g[i][h[i - 1]] /\ h[i - 1] \in Nat
      BY <3>1, <1>3 DEF Follows
    <3> QED
      BY <2>2, <3>1, <3>2, <1>2
  <2> QED
    BY <2>1, <2>2
<1>5. Solves(F)
  <2>1. \A i \in 0 .. q : i # 0 => i - 1 \in 0 .. q
    BY <1>1
  <2> QED
    BY <1>4, <2>1
<1>6. PICK u : Solves(u) /\ Number(d) = u[q]
  <2>1. Number(d) = (CHOOSE u : Solves(u))[q]
    BY DEF Number, q
  <2>2. Solves(CHOOSE u : Solves(u))
    BY <1>5
  <2> QED
    BY <2>1, <2>2
<1>7. u[0] = 0 /\ \A i \in 1 .. q : u[i] = 10 * u[i - 1] + d[i]
  <2>1. ASSUME NEW i \in 0 .. q PROVE u[i] = IF i = 0 THEN 0 ELSE 10 * u[i - 1] + d[i]
    BY <1>6
  <2>2. 0 \in 0 .. q /\ \A i \in 1 .. q : i \in 0 .. q /\ i # 0
    BY <1>1
  <2> QED
    BY <2>1, <2>2
<1>8. \A i \in 0 .. q : u[i] \in Nat
  <2> DEFINE C == {i \in 0 .. q : u[i] \notin Nat}
  <2>1. SUFFICES ASSUME C # {} PROVE FALSE
    OBVIOUS
  <2>2. C \in SUBSET Nat
    BY <1>1
  <2>3. PICK i \in C : \A j \in C : i <= j
    BY <2>1, <2>2, LeastNumber
  <2>4. i \in 0 .. q /\ u[i] \notin Nat
    OBVIOUS
  <2>5. i # 0
    BY <1>7, <2>4
  <2>6. i - 1 \in 0 .. q /\ i \in 1 .. q /\ ~(i <= i - 1)
    BY <1>1, <2>4, <2>5
  <2>7. u[i - 1] \in Nat /\ d[i] \in Nat /\ u[i] = 10 * u[i - 1] + d[i]
    BY <2>3, <2>6, <1>1, <1>7
  <2>8. PICK y \in Nat, x \in Nat : y = u[i - 1] /\ x = d[i]
    BY <2>7
  <2>9. 10 * y + x \in Nat
    OBVIOUS
  <2> QED
    BY <2>4, <2>7, <2>8, <2>9
<1> QED
  BY <1>6, <1>7, <1>8 DEF Reads, q

\* No digits spell zero.
LEMMA NumberNone == Number(<<>>) = 0
<1>1. <<>> \in Seq(Nat) /\ Len(<<>>) = 0
  BY EmptySeq
<1> QED
  BY <1>1, NumberReads DEF Reads

\* A digit more
LEMMA NumberMore ==
  ASSUME NEW d \in Seq(Nat), NEW x \in Nat
  PROVE  Number(Append(d, x)) = 10 * Number(d) + x
<1> DEFINE e == Append(d, x)
           q == Len(d)
<1>1. /\ e \in Seq(Nat) /\ Len(e) = q + 1 /\ q \in Nat /\ e[q + 1] = x
      /\ \A i \in 1 .. q : e[i] = d[i]
  BY AppendProperties, LenProperties
<1>2. PICK u : Reads(u, d) /\ Number(d) = u[q]
  BY NumberReads
<1> HIDE DEF e
<1>3. PICK v : Reads(v, e) /\ Number(e) = v[q + 1]
  BY <1>1, NumberReads
<1>4. u[0] = 0 /\ \A i \in 1 .. q : u[i] = 10 * u[i - 1] + d[i]
  BY <1>2 DEF Reads
<1>5. v[0] = 0 /\ \A i \in 1 .. q + 1 : v[i] = 10 * v[i - 1] + e[i]
  BY <1>1, <1>3 DEF Reads
<1> HIDE DEF q
<1>6. v[q] = u[q]
  <2> DEFINE C == {i \in 0 .. q : v[i] # u[i]}
  <2>1. SUFFICES ASSUME C # {} PROVE FALSE
    BY <1>1
  <2>2. C \in SUBSET Nat
    BY <1>1
  <2>3. PICK i \in C : \A j \in C : i <= j
    BY <2>1, <2>2, LeastNumber
  <2>4. i \in 0 .. q /\ v[i] # u[i]
    OBVIOUS
  <2>5. i # 0
    BY <1>4, <1>5, <2>4
  <2>6. i - 1 \in 0 .. q /\ i \in 1 .. q /\ i \in 1 .. q + 1 /\ ~(i <= i - 1)
    BY <1>1, <2>4, <2>5
  <2>7. u[i - 1] = v[i - 1]
    BY <2>3, <2>6
  <2>8. u[i] = 10 * u[i - 1] + d[i] /\ v[i] = 10 * v[i - 1] + e[i] /\ e[i] = d[i]
    BY <2>6, <1>1, <1>4, <1>5
  <2> QED
    BY <2>4, <2>7, <2>8
<1>7. v[q + 1] = 10 * v[q] + x
  <2>1. q + 1 \in 1 .. q + 1 /\ (q + 1) - 1 = q
    BY <1>1
  <2> QED
    BY <2>1, <1>1, <1>5
<1> QED
  BY <1>2, <1>3, <1>6, <1>7 DEF e

\* The equation that defines DigitsFromLast has a solution
LEMMA DigitsAre ==
  /\ DigitsFromLast \in [Nat -> Seq(Nat)]
  /\ DigitsFromLast[0] = <<>>
  /\ \A n \in Nat \ {0} : DigitsFromLast[n] = <<n % 10>> \o DigitsFromLast[n \div 10]
<1> DEFINE Solves(f) == f = [n \in Nat |-> IF n = 0 THEN <<>> ELSE <<n % 10>> \o f[n \div 10]]
           X == Seq(Nat)
           G == [n \in Nat |-> [f \in [Nat -> X] |->
                   IF n = 0 THEN <<>> ELSE <<n % 10>> \o f[n \div 10]]]
<1>1. ASSUME NEW n \in Nat, NEW f \in [Nat -> X]
      PROVE  G[n][f] = IF n = 0 THEN <<>> ELSE <<n % 10>> \o f[n \div 10]
  OBVIOUS
<1>2. \A n \in Nat : n \div 10 \in Nat /\ n % 10 \in Nat /\ (n # 0 => n \div 10 \in 0 .. n - 1)
  OBVIOUS
<1>3. <<>> \in X
  BY EmptySeq
<1>4. ASSUME NEW n \in Nat, NEW y \in X PROVE <<n % 10>> \o y \in X
  <2>1. <<n % 10>> \in Seq(Nat)
    BY <1>2
  <2> QED
    BY <2>1, ConcatProperties
<1> HIDE DEF X, G
<1>5. StaysIn(G, X)
  <2>1. ASSUME NEW n \in Nat, NEW f \in [Nat -> X] PROVE G[n][f] \in X
    <3>1. f[n \div 10] \in X
      BY <1>2
    <3>2. <<n % 10>> \o f[n \div 10] \in X
      BY <1>4, <3>1
    <3> QED
      BY <1>1, <1>3, <3>2
  <2> QED
    BY <2>1 DEF StaysIn
<1>6. LooksBelow(G, X)
  <2>1. ASSUME NEW n \in Nat, NEW f \in [Nat -> X], NEW h \in [Nat -> X],
               \A i \in 0 .. n - 1 : f[i] = h[i]
        PROVE  G[n][f] = G[n][h]
    <3>1. n # 0 => f[n \div 10] = h[n \div 10]
      BY <1>2, <2>1
    <3> QED
      BY <1>1, <3>1
  <2> QED
    BY <2>1 DEF LooksBelow
<1>7. PICK f \in [Nat -> X] : Solution(f, G)
  BY <1>3, <1>5, <1>6, CourseOfValues
<1>8. Solves(f)
  <2>1. \A n \in Nat : f[n] = IF n = 0 THEN <<>> ELSE <<n % 10>> \o f[n \div 10]
    BY <1>1, <1>7 DEF Solution
  <2> QED
    BY <2>1
<1>9. Solves(DigitsFromLast)
  <2>1. DigitsFromLast = CHOOSE k : Solves(k)
    BY DEF DigitsFromLast
  <2> QED
    BY <1>8, <2>1
<1>10. \A n \in Nat : DigitsFromLast[n] \in X
  <2> DEFINE C == {n \in Nat : DigitsFromLast[n] \notin X}
  <2>1. SUFFICES ASSUME C # {} PROVE FALSE
    OBVIOUS
  <2>2. PICK i \in C : \A j \in C : i <= j
    BY <2>1, LeastNumber
  <2>3. i \in Nat /\ DigitsFromLast[i] \notin X
    OBVIOUS
  <2>4. DigitsFromLast[i] = IF i = 0 THEN <<>> ELSE <<i % 10>> \o DigitsFromLast[i \div 10]
    BY <1>9, <2>3
  <2>5. i # 0
    BY <1>3, <2>3, <2>4
  <2>6. i \div 10 \in Nat /\ ~(i <= i \div 10)
    BY <1>2, <2>3, <2>5
  <2>7. DigitsFromLast[i \div 10] \in X
    BY <2>2, <2>6
  <2> QED
    BY <1>4, <2>3, <2>4, <2>5, <2>7
<1> QED
  BY <1>9, <1>10 DEF X

\* A reversed text, place by place.
LEMMA ReverseType ==
  ASSUME NEW T, NEW s \in Seq(T)
  PROVE  /\ Reverse(s) \in Seq(T) /\ Len(Reverse(s)) = Len(s)
         /\ \A i \in 1 .. Len(s) : Reverse(s)[i] = s[(Len(s) - i) + 1]
<1>1. Len(s) \in Nat /\ \A i \in 1 .. Len(s) : s[i] \in T
  BY LenProperties, ElementOfSeq
<1>2. PICK n \in Nat : n = Len(s)
  BY <1>1
<1>3. \A i \in 1 .. n : (n - i) + 1 \in 1 .. n
  OBVIOUS
<1>4. Reverse(s) = [i \in 1 .. n |-> s[(n - i) + 1]]
  BY <1>2 DEF Reverse
<1>5. Reverse(s) \in [1 .. n -> T]
  BY <1>1, <1>2, <1>3, <1>4
<1>6. Reverse(s) \in Seq(T) /\ Len(Reverse(s)) = n
  BY <1>5, SeqDef
<1> QED
  BY <1>2, <1>4, <1>6

\* The first element of a text is the last of the reversed one.
LEMMA ReverseFirst ==
  ASSUME NEW T, NEW x \in T, NEW r \in Seq(T)
  PROVE  Reverse(<<x>> \o r) = Append(Reverse(r), x)
<1> DEFINE s == <<x>> \o r
           a == Reverse(s)
           b == Append(Reverse(r), x)
<1>1. PICK n \in Nat : n = Len(r)
  BY LenProperties
<1>2. /\ s \in Seq(T) /\ Len(s) = n + 1 /\ s[1] = x
      /\ \A i \in 1 .. n : s[i + 1] = r[i]
  <2>1. <<x>> \in Seq(T) /\ Len(<<x>>) = 1 /\ <<x>>[1] = x
    OBVIOUS
  <2>2. /\ s \in Seq(T) /\ Len(s) = 1 + n
        /\ \A i \in 1 .. 1 + n : s[i] = IF i <= 1 THEN <<x>>[i] ELSE r[i - 1]
    BY <1>1, <2>1, ConcatProperties
  <2>3. 1 + n = n + 1 /\ 1 \in 1 .. 1 + n
        /\ \A i \in 1 .. n : i + 1 \in 1 .. 1 + n /\ ~(i + 1 <= 1) /\ (i + 1) - 1 = i
    OBVIOUS
  <2> HIDE DEF s
  <2> QED
    BY <2>1, <2>2, <2>3
<1>3. /\ Reverse(r) \in Seq(T) /\ Len(Reverse(r)) = n
      /\ \A i \in 1 .. n : Reverse(r)[i] = r[(n - i) + 1]
  BY <1>1, ReverseType
<1> HIDE DEF s
<1>4. a \in Seq(T) /\ Len(a) = n + 1 /\ \A i \in 1 .. n + 1 : a[i] = s[((n + 1) - i) + 1]
  BY <1>2, ReverseType
<1>5. /\ b \in Seq(T) /\ Len(b) = n + 1 /\ b[n + 1] = x
      /\ \A i \in 1 .. n : b[i] = Reverse(r)[i]
  BY <1>3, AppendProperties
<1> HIDE DEF a, b
<1>6. ASSUME NEW i \in 1 .. n + 1 PROVE a[i] = b[i]
  <2>1. CASE i = n + 1
    <3>1. ((n + 1) - i) + 1 = 1
      BY <2>1
    <3> QED
      BY <2>1, <3>1, <1>2, <1>4, <1>5
  <2>2. CASE i # n + 1
    <3>1. PICK j \in 1 .. n : j = (n - i) + 1 /\ ((n + 1) - i) + 1 = j + 1
      BY <2>2
    <3>2. i \in 1 .. n
      BY <2>2
    <3>3. a[i] = s[j + 1]
      BY <3>1, <1>4
    <3>4. s[j + 1] = r[j]
      BY <1>2
    <3>5. b[i] = r[j]
      BY <3>1, <3>2, <1>3, <1>5
    <3> QED
      BY <3>3, <3>4, <3>5
  <2> QED
    BY <2>1, <2>2
<1>7. a = b
  BY <1>4, <1>5, <1>6, SeqEqual
<1> QED
  BY <1>7 DEF a, b, s

\* The digits of a number, taken from the last one and reversed, spell it
LEMMA DigitsSpell ==
  ASSUME NEW n \in Nat
  PROVE  Reverse(DigitsFromLast[n]) \in Seq(Nat) /\ Number(Reverse(DigitsFromLast[n])) = n
<1>1. \A i \in Nat : DigitsFromLast[i] \in Seq(Nat) /\ Reverse(DigitsFromLast[i]) \in Seq(Nat)
  BY DigitsAre, ReverseType
<1> DEFINE C == {i \in Nat : Number(Reverse(DigitsFromLast[i])) # i}
<1>2. C = {}
  <2>1. SUFFICES ASSUME C # {} PROVE FALSE
    OBVIOUS
  <2>2. PICK i \in C : \A j \in C : i <= j
    BY <2>1, LeastNumber
  <2>3. i \in Nat /\ Number(Reverse(DigitsFromLast[i])) # i
    OBVIOUS
  <2>4. i # 0
    <3>1. Reverse(<<>>) = <<>>
      <4>1. <<>> \in Seq(Nat) /\ Len(<<>>) = 0
        BY EmptySeq
      <4>2. Reverse(<<>>) \in Seq(Nat) /\ Len(Reverse(<<>>)) = 0
        BY <4>1, ReverseType
      <4> QED
        BY <4>2, EmptySeq
    <3> QED
      BY <2>3, <3>1, DigitsAre, NumberNone
  <2>5. PICK j \in Nat, x \in Nat : j = i \div 10 /\ x = i % 10 /\ i = 10 * j + x /\ ~(i <= j)
    BY <2>3, <2>4
  <2>6. DigitsFromLast[i] = <<x>> \o DigitsFromLast[j]
    BY <2>3, <2>4, <2>5, DigitsAre
  <2>7. Reverse(DigitsFromLast[i]) = Append(Reverse(DigitsFromLast[j]), x)
    BY <1>1, <2>6, ReverseFirst
  <2>8. Number(Reverse(DigitsFromLast[j])) = j
    BY <2>2, <2>5
  <2>9. Number(Append(Reverse(DigitsFromLast[j]), x)) = 10 * Number(Reverse(DigitsFromLast[j])) + x
    BY <1>1, NumberMore
  <2> QED
    BY <2>3, <2>5, <2>7, <2>8, <2>9
<1> QED
  BY <1>1, <1>2

\* l elements of a text, behind the first k
PartOf(u, T, s, k, l) == u \in Seq(T) /\ Len(u) = l /\ \A i \in 1 .. l : u[i] = s[k + i]

\* A subsequence is a part.
LEMMA PartIs ==
  ASSUME NEW T, NEW s \in Seq(T), NEW k \in Nat, NEW l \in Nat, k + l <= Len(s)
  PROVE  PartOf(SubSeq(s, k + 1, k + l), T, s, k, l)
<1>1. PICK from \in Int, to \in Int : from = k + 1 /\ to = k + l
  OBVIOUS
<1> DEFINE u == SubSeq(s, from, to)
<1>2. \A i \in from .. to : s[i] \in T
  <2>1. \A i \in from .. to : i \in 1 .. Len(s)
    BY <1>1, LenProperties
  <2> QED
    BY <2>1, ElementOfSeq
<1>3. /\ u \in Seq(T) /\ Len(u) = (IF from <= to THEN to - from + 1 ELSE 0)
      /\ \A i \in 1 .. to - from + 1 : u[i] = s[from + i - 1]
  BY <1>2, SubSeqProperties
<1>4. to - from + 1 = l /\ (from <= to <=> l # 0) /\ \A i \in 1 .. l : from + i - 1 = k + i
  BY <1>1
<1> HIDE DEF u
<1>5. PartOf(u, T, s, k, l)
  BY <1>3, <1>4 DEF PartOf
<1> QED
  BY <1>1, <1>5 DEF u

\* The middle of three texts
Between(s, a, b, c) ==
  /\ Len(s) = Len(a) + Len(b) + Len(c)
  /\ SubSeq(s, Len(a) + 1, Len(a) + Len(b)) = b

\* The middle one of three texts that are joined is where it is expected.
LEMMA MiddleOf ==
  ASSUME NEW T, NEW a \in Seq(T), NEW b \in Seq(T), NEW c \in Seq(T), NEW s, s = (a \o b) \o c
  PROVE  Between(s, a, b, c)
<1>1. PICK k \in Nat, l \in Nat, m \in Nat : k = Len(a) /\ l = Len(b) /\ m = Len(c)
  BY LenProperties
<1>2. /\ a \o b \in Seq(T) /\ Len(a \o b) = k + l
      /\ \A i \in 1 .. k + l : (a \o b)[i] = IF i <= k THEN a[i] ELSE b[i - k]
  BY <1>1, ConcatProperties
<1>3. /\ s \in Seq(T) /\ Len(s) = (k + l) + m
      /\ \A i \in 1 .. (k + l) + m : s[i] = IF i <= k + l THEN (a \o b)[i] ELSE c[i - (k + l)]
  BY <1>1, <1>2, ConcatProperties
<1> DEFINE u == SubSeq(s, k + 1, k + l)
<1>4. ASSUME NEW i \in 1 .. l PROVE s[k + i] = b[i]
  <2>1. /\ k + i \in 1 .. (k + l) + m /\ k + i \in 1 .. k + l /\ k + i <= k + l
        /\ ~(k + i <= k) /\ (k + i) - k = i
    OBVIOUS
  <2> QED
    BY <2>1, <1>2, <1>3
<1>5. /\ u \in Seq(T) /\ Len(u) = l /\ \A i \in 1 .. l : u[i] = s[k + i]
  <2>1. k + l <= Len(s)
    BY <1>3
  <2>2. PartOf(u, T, s, k, l)
    BY <1>3, <2>1, PartIs
  <2> QED
    BY <2>2 DEF PartOf
<1> HIDE DEF u
<1>6. u = b
  BY <1>1, <1>4, <1>5, SeqEqual
<1> QED
  BY <1>1, <1>3, <1>6 DEF Between, u

\* What is written as a content length is the number that was given.
\* asm_opt_generate_content_length_header
THEOREM LengthIsWritten ==
  ASSUME NEW n \in Nat
  PROVE  LET out == asm_opt_generate_content_length_header(n)
         IN  Number(SubSeq(out, 2, Len(out) - 2)) = n
<1> DEFINE T == Nat \cup {"Content-Length: ", CR, LF}
           d == IF n = 0 THEN <<0>> ELSE Reverse(DigitsFromLast[n])
           out == (<<"Content-Length: ">> \o d) \o <<CR, LF>>
<1>1. d \in Seq(Nat) /\ Number(d) = n
  <2>1. CASE n = 0
    <3>1. Append(<<>>, 0) = <<0>> /\ <<>> \in Seq(Nat)
      OBVIOUS
    <3>2. Number(Append(<<>>, 0)) = 10 * Number(<<>>) + 0
      BY <3>1, NumberMore
    <3>3. Number(<<0>>) = 0
      BY <3>1, <3>2, NumberNone
    <3> QED
      BY <2>1, <3>1, <3>3
  <2>2. CASE n # 0
    BY <2>2, DigitsSpell
  <2> QED
    BY <2>1, <2>2
<1> HIDE DEF d
<1>2. d \in Seq(T)
  BY <1>1, SeqMonotonic
<1>3. /\ <<"Content-Length: ">> \in Seq(T) /\ Len(<<"Content-Length: ">>) = 1
      /\ <<CR, LF>> \in Seq(T) /\ Len(<<CR, LF>>) = 2
  OBVIOUS
<1> DEFINE a == <<"Content-Length: ">>
           c == <<CR, LF>>
<1>4. a \in Seq(T) /\ Len(a) = 1 /\ c \in Seq(T) /\ Len(c) = 2 /\ out = (a \o d) \o c
  BY <1>3
<1> HIDE DEF a, c, T, out
<1>5. Len(out) = Len(a) + Len(d) + Len(c) /\ SubSeq(out, Len(a) + 1, Len(a) + Len(d)) = d
  <2>1. Between(out, a, d, c)
    BY <1>2, <1>4, MiddleOf
  <2> QED
    BY <2>1 DEF Between
<1>6. Len(d) \in Nat
  BY <1>1, LenProperties
<1>7. Len(out) - 2 = 1 + Len(d) /\ SubSeq(out, 2, Len(out) - 2) = d
  BY <1>4, <1>5, <1>6
<1>8. asm_opt_generate_content_length_header(n) = out
  BY DEF asm_opt_generate_content_length_header, out, d
<1> QED
  BY <1>1, <1>7, <1>8

\* Short texts
LEMMA OneOf ==
  ASSUME NEW T, NEW x \in T
  PROVE  <<x>> \in Seq(T) /\ Len(<<x>>) = 1
OBVIOUS

\* Two elements are a text.
LEMMA TwoOf ==
  ASSUME NEW T, NEW x \in T, NEW y \in T
  PROVE  <<x, y>> \in Seq(T) /\ Len(<<x, y>>) = 2
OBVIOUS

\* Three elements are a text.
LEMMA ThreeOf ==
  ASSUME NEW T, NEW x \in T, NEW y \in T, NEW z \in T
  PROVE  <<x, y, z>> \in Seq(T) /\ Len(<<x, y, z>>) = 3
OBVIOUS

Associates(a, b, c, d) == ((a \o b) \o c) \o d = a \o ((b \o c) \o d)

Regroups(a, b, c) == (a \o b) \o c = a \o (b \o c)

\* Joining is associative.
LEMMA RegroupThree ==
  ASSUME NEW T, NEW a \in Seq(T), NEW b \in Seq(T), NEW c \in Seq(T)
  PROVE  Regroups(a, b, c)
BY ConcatAssociative DEF Regroups

\* Joining is associative, for four texts.
LEMMA Reassociate ==
  ASSUME NEW T, NEW a \in Seq(T), NEW b \in Seq(T), NEW c \in Seq(T), NEW d \in Seq(T)
  PROVE  Associates(a, b, c, d)
<1>1. Regroups(a, b, c)
  BY RegroupThree
<1>2. PICK e \in Seq(T) : e = b \o c
  BY ConcatProperties
<1>3. Regroups(a, e, d)
  BY RegroupThree
<1>4. (a \o b) \o c = a \o e /\ (a \o e) \o d = a \o (e \o d)
  BY <1>1, <1>2, <1>3 DEF Regroups
<1> QED
  BY <1>2, <1>4 DEF Associates

\* The number that three digits spell.
LEMMA NumberOfThree ==
  ASSUME NEW a \in Nat, NEW b \in Nat, NEW c \in Nat, NEW n, n = 100 * a + 10 * b + c
  PROVE  Number(<<a, b, c>>) = n
<1> DEFINE d == <<a, b, c>>
<1>1. d \in Seq(Nat) /\ Len(d) = 3
  BY ThreeOf
<1>2. d[1] = a /\ d[2] = b /\ d[3] = c
  OBVIOUS
<1> HIDE DEF d
<1>3. PICK u : Reads(u, d) /\ Number(d) = u[Len(d)]
  BY <1>1, NumberReads
<1>4. u[0] = 0 /\ \A i \in 1 .. 3 : u[i] = 10 * u[i - 1] + d[i]
  BY <1>1, <1>3 DEF Reads
<1>5. u[1] = 10 * u[0] + d[1] /\ u[2] = 10 * u[1] + d[2] /\ u[3] = 10 * u[2] + d[3]
  <2>1. /\ 1 \in 1 .. 3 /\ 2 \in 1 .. 3 /\ 3 \in 1 .. 3 /\ 1 - 1 = 0 /\ 2 - 1 = 1 /\ 3 - 1 = 2
    OBVIOUS
  <2> QED
    BY <1>4, <2>1
<1>6. u[1] = a
  BY <1>2, <1>4, <1>5
<1>7. u[2] = 10 * a + b
  BY <1>2, <1>5, <1>6
<1>8. u[3] = 10 * (10 * a + b) + c
  BY <1>2, <1>5, <1>7
<1>9. u[3] = 100 * a + 10 * b + c
  BY <1>8
<1> QED
  BY <1>1, <1>3, <1>9 DEF d

\* The second of five texts that are joined lies behind the first.
LEMMA SecondOfFive ==
  ASSUME NEW T, NEW a \in Seq(T), NEW b \in Seq(T), NEW c \in Seq(T), NEW d \in Seq(T),
         NEW e \in Seq(T)
  PROVE  Between((((a \o b) \o c) \o d) \o e, a, b, (c \o d) \o e)
<1> DEFINE s == (((a \o b) \o c) \o d) \o e
           ab == a \o b
           r == (c \o d) \o e
<1>1. ab \in Seq(T) /\ c \o d \in Seq(T)
  BY ConcatProperties
<1>2. r \in Seq(T)
  BY <1>1, ConcatProperties
<1>3. s = ((ab \o c) \o d) \o e
  OBVIOUS
<1> HIDE DEF s, ab
<1>4. ((ab \o c) \o d) \o e = ab \o ((c \o d) \o e)
  <2>1. Associates(ab, c, d, e)
    BY <1>1, Reassociate
  <2> QED
    BY <2>1 DEF Associates
<1>5. s = (a \o b) \o r
  BY <1>3, <1>4 DEF ab
<1> HIDE DEF r
<1>6. Between(s, a, b, r)
  BY <1>2, <1>5, MiddleOf
<1> QED
  BY <1>6 DEF s, r, ab

\* A text of three behind one of one lies at the second to fourth place.
LEMMA SecondToFourth ==
  ASSUME NEW s, NEW a, NEW b, NEW c, Between(s, a, b, c), Len(a) = 1, Len(b) = 3
  PROVE  SubSeq(s, 2, 4) = b
BY DEF Between

ThreeDigits(d, code) ==
  \E x, y, z \in Nat : d = <<x, y, z>> /\ code = 100 * x + 10 * y + z

IsCode(code) == code \in 0 .. 999

\* The three digits of a status code.
LEMMA StatusDigitsAre ==
  ASSUME NEW code, IsCode(code)
  PROVE  ThreeDigits(StatusDigits(code), code)
<1> USE DEF IsCode
<1>1. code \div 100 \in Nat /\ (code \div 10) % 10 \in Nat /\ code % 10 \in Nat
  OBVIOUS
<1>2. code = 100 * (code \div 100) + 10 * ((code \div 10) % 10) + (code % 10)
  OBVIOUS
<1> QED
  BY <1>1, <1>2 DEF StatusDigits, ThreeDigits

\* The words of a status line
StatusWords(T) == {"HTTP/1.1 ", "SP", CR, LF} \subseteq T

\* The second to fourth place of a status line spell the code
HoldsCode(line, code) == Number(SubSeq(line, 2, 4)) = code

\* Both writers put the code at the second to fourth place.
LEMMA StatusHoldsCode ==
  ASSUME NEW T, StatusWords(T), NEW reason \in Seq(T), NEW code, IsCode(code)
  PROVE  /\ HoldsCode(asm_opt_generate_status_response(code, reason), code)
         /\ HoldsCode(asm_opt_simd_generate_status_line(code, reason), code)
<1> DEFINE V == T \cup Nat
           a == <<"HTTP/1.1 ">>
           d == StatusDigits(code)
           sp == <<"SP">>
           e == <<CR, LF>>
           out == (((a \o d) \o sp) \o reason) \o e
<1>1. PICK x \in Nat, y \in Nat, z \in Nat : /\ d = <<x, y, z>> /\ code = 100 * x + 10 * y + z
  <2>1. ThreeDigits(StatusDigits(code), code)
    BY StatusDigitsAre
  <2> QED
    BY <2>1 DEF ThreeDigits
<1>2. /\ a \in Seq(V) /\ Len(a) = 1 /\ sp \in Seq(V) /\ e \in Seq(V)
  <2>1. "HTTP/1.1 " \in V /\ "SP" \in V /\ CR \in V /\ LF \in V
    BY DEF StatusWords
  <2> HIDE DEF V
  <2> QED
    BY <2>1, OneOf, TwoOf
<1>3. d \in Seq(V) /\ Len(d) = 3
  <2>1. x \in V /\ y \in V /\ z \in V
    OBVIOUS
  <2> HIDE DEF V
  <2>2. <<x, y, z>> \in Seq(V) /\ Len(<<x, y, z>>) = 3
    BY <2>1, ThreeOf
  <2> QED
    BY <1>1, <2>2
<1>4. reason \in Seq(V)
  <2>1. T \subseteq V
    OBVIOUS
  <2> HIDE DEF V
  <2> QED
    BY <2>1, SeqMonotonic
<1>5. Number(d) = code
  <2>1. Number(<<x, y, z>>) = code
    BY <1>1, NumberOfThree
  <2> QED
    BY <1>1, <2>1
<1>6. /\ asm_opt_generate_status_response(code, reason) = out
      /\ asm_opt_simd_generate_status_line(code, reason) = out
  BY DEF asm_opt_generate_status_response, asm_opt_simd_generate_status_line
<1> HIDE DEF V, a, d, sp, e
<1>7. Between(out, a, d, (sp \o reason) \o e)
  BY <1>2, <1>3, <1>4, SecondOfFive
<1>8. SubSeq(out, 2, 4) = d
  BY <1>2, <1>3, <1>7, SecondToFourth
<1> HIDE DEF out
<1>9. HoldsCode(out, code)
  BY <1>5, <1>8 DEF HoldsCode
<1> QED
  BY <1>6, <1>9

\* A status line holds the status code.  asm_opt_generate_status_response,
\* asm_opt_simd_generate_status_line
THEOREM StatusIsWritten ==
  ASSUME NEW T, {"HTTP/1.1 ", "SP", CR, LF} \subseteq T, NEW reason \in Seq(T),
         NEW code \in 0 .. 999
  PROVE  /\ Number(SubSeq(asm_opt_generate_status_response(code, reason), 2, 4)) = code
         /\ Number(SubSeq(asm_opt_simd_generate_status_line(code, reason), 2, 4)) = code
<1>1. StatusWords(T) /\ IsCode(code)
  BY DEF StatusWords, IsCode
<1>2. /\ HoldsCode(asm_opt_generate_status_response(code, reason), code)
      /\ HoldsCode(asm_opt_simd_generate_status_line(code, reason), code)
  BY <1>1, StatusHoldsCode
<1> QED
  BY <1>2 DEF HoldsCode

\* The part of a part of a text
LEMMA PartOfPart ==
  ASSUME NEW T, NEW s, NEW u, NEW k \in Nat, NEW l \in Nat, PartOf(u, T, s, k, l),
         NEW i \in Nat, NEW j \in Nat, i + j <= l, NEW v, PartOf(v, T, u, i, j)
  PROVE  PartOf(v, T, s, k + i, j)
<1>1. u \in Seq(T) /\ Len(u) = l /\ \A x \in 1 .. l : u[x] = s[k + x]
  BY DEF PartOf
<1>2. v \in Seq(T) /\ Len(v) = j /\ \A x \in 1 .. j : v[x] = u[i + x]
  BY DEF PartOf
<1>3. ASSUME NEW x \in 1 .. j PROVE v[x] = s[(k + i) + x]
  <2>1. i + x \in 1 .. l /\ k + (i + x) = (k + i) + x
    OBVIOUS
  <2> QED
    BY <2>1, <1>1, <1>2
<1> QED
  BY <1>2, <1>3 DEF PartOf

\* There is one part of a text at a place.
LEMMA PartsEqual ==
  ASSUME NEW T, NEW s, NEW u, NEW v, NEW k \in Nat, NEW l \in Nat,
         PartOf(u, T, s, k, l), PartOf(v, T, s, k, l)
  PROVE  u = v
BY SeqEqual DEF PartOf

\* The first n elements of a text
LEMMA CutIsPart ==
  ASSUME NEW T, NEW s \in Seq(T), NEW n \in Nat, n <= Len(s)
  PROVE  PartOf(Cut(s, n), T, s, 0, n)
<1>1. Len(s) \in Nat
  BY LenProperties
<1>2. Min({n, Len(s)}) = n
  BY <1>1, LesserOf
<1>3. PartOf(SubSeq(s, 0 + 1, 0 + n), T, s, 0, n)
  BY <1>1, PartIs
<1> QED
  BY <1>2, <1>3 DEF Cut

\* Where a value starts and ends: what is read from f + 1 on, up to len
Starts(h, f, len, st) ==
  /\ \A i \in f + 1 .. st - 1 : h[i] \in Blank
  /\ st <= len => h[st] \notin Blank
Stops(h, st, len, sp) ==
  /\ \A i \in st .. sp - 1 : h[i] \notin {CR, LF}
  /\ sp <= len => h[sp] \in {CR, LF}
Ends(h, st, sp, en) ==
  /\ \A i \in en + 1 .. sp - 1 : h[i] \in Blank
  /\ st <= en => h[en] \notin Blank

\* A value starts at the first character behind the colon that is no blank.
LEMMA StartIs ==
  ASSUME NEW h, NEW f \in Nat, NEW len \in Nat, f <= len
  PROVE  \E st \in f + 1 .. len + 1 :
            /\ st = Min({i \in f + 1 .. len : h[i] \notin Blank} \cup {len + 1})
            /\ Starts(h, f, len, st)
<1> DEFINE S == {i \in f + 1 .. len : h[i] \notin Blank} \cup {len + 1}
           m == Min(S)
<1>1. S # {} /\ \A x \in S : x \in Nat /\ x \in f + 1 .. len + 1
  OBVIOUS
<1>2. m \in S /\ \A x \in S : m <= x
  <2> HIDE DEF S
  <2> QED
    BY <1>1, MinIs
<1>3. m \in f + 1 .. len + 1 /\ m \in Nat
  BY <1>1, <1>2
<1>4. ASSUME NEW i \in f + 1 .. m - 1 PROVE h[i] \in Blank
  <2>1. i \in f + 1 .. len /\ ~(m <= i)
    BY <1>3
  <2> QED
    BY <2>1, <1>2
<1>5. m <= len => h[m] \notin Blank
  BY <1>2, <1>3
<1> HIDE DEF m
<1>6. Starts(h, f, len, m)
  BY <1>4, <1>5 DEF Starts
<1> QED
  BY <1>3, <1>6 DEF m

\* It stops at the first end of a line.
LEMMA StopIs ==
  ASSUME NEW h, NEW st \in Nat, NEW len \in Nat, st <= len + 1
  PROVE  \E sp \in st .. len + 1 :
            /\ sp = Min({i \in st .. len : h[i] \in {CR, LF}} \cup {len + 1})
            /\ Stops(h, st, len, sp)
<1> DEFINE S == {i \in st .. len : h[i] \in {CR, LF}} \cup {len + 1}
           m == Min(S)
<1>1. S # {} /\ \A x \in S : x \in Nat /\ x \in st .. len + 1
  OBVIOUS
<1>2. m \in S /\ \A x \in S : m <= x
  <2> HIDE DEF S
  <2> QED
    BY <1>1, MinIs
<1>3. m \in st .. len + 1 /\ m \in Nat
  BY <1>1, <1>2
<1>4. ASSUME NEW i \in st .. m - 1 PROVE h[i] \notin {CR, LF}
  <2>1. i \in st .. len /\ ~(m <= i)
    BY <1>3
  <2> QED
    BY <2>1, <1>2
<1>5. m <= len => h[m] \in {CR, LF}
  BY <1>2, <1>3
<1> HIDE DEF m
<1>6. Stops(h, st, len, m)
  BY <1>4, <1>5 DEF Stops
<1> QED
  BY <1>3, <1>6 DEF m

\* It ends at the last character that is no blank.
LEMMA EndIs ==
  ASSUME NEW h, NEW st \in Nat, NEW sp \in Nat, st <= sp
  PROVE  \E en \in st - 1 .. sp - 1 :
            /\ en = Max({i \in st .. sp - 1 : h[i] \notin Blank} \cup {st - 1})
            /\ Ends(h, st, sp, en)
<1> DEFINE S == {i \in st .. sp - 1 : h[i] \notin Blank} \cup {st - 1}
           m == Max(S)
<1>1. S # {} /\ \A x \in S : x \in Int /\ x <= sp - 1 /\ x \in st - 1 .. sp - 1
  OBVIOUS
<1>2. m \in S /\ \A x \in S : m >= x
  <2>1. sp - 1 \in Int
    OBVIOUS
  <2> HIDE DEF S
  <2> QED
    BY <1>1, <2>1, MaxIs
<1>3. m \in st - 1 .. sp - 1 /\ m \in Int
  BY <1>1, <1>2
<1>4. ASSUME NEW i \in m + 1 .. sp - 1 PROVE h[i] \in Blank
  <2>1. i \in st .. sp - 1 /\ ~(m >= i)
    BY <1>3
  <2> QED
    BY <2>1, <1>2
<1>5. st <= m => h[m] \notin Blank
  BY <1>2, <1>3
<1> HIDE DEF m
<1>6. Ends(h, st, sp, m)
  BY <1>4, <1>5 DEF Ends
<1> QED
  BY <1>3, <1>6 DEF m

\* What Trim leaves of the part between f and sp
LEMMA TrimIs ==
  ASSUME NEW T, NEW h \in Seq(T), NEW f \in Nat, NEW len \in Nat, f <= len, len <= Len(h),
         NEW st \in f + 1 .. len + 1, NEW sp \in st .. len + 1, NEW en \in st - 1 .. sp - 1,
         Starts(h, f, len, st), Stops(h, st, len, sp), Ends(h, st, sp, en),
         NEW v, PartOf(v, T, h, f, sp - 1 - f)
  PROVE  Trim(v) = SubSeq(h, st, en)
<1> DEFINE I == {i \in DOMAIN v : v[i] \notin Blank}
<1>1. PICK l \in Nat : l = sp - 1 - f
  OBVIOUS
<1>2. v \in Seq(T) /\ Len(v) = l /\ DOMAIN v = 1 .. l /\ \A i \in 1 .. l : v[i] = h[f + i]
  BY <1>1, LenProperties DEF PartOf
<1>3. /\ \A i \in f + 1 .. st - 1 : h[i] \in Blank
      /\ st <= len => h[st] \notin Blank
      /\ \A i \in en + 1 .. sp - 1 : h[i] \in Blank
      /\ st <= en => h[en] \notin Blank
  BY DEF Starts, Ends
<1>4. ASSUME NEW i \in I PROVE /\ i \in 1 .. l /\ i \in Nat /\ f + i \in st .. en
                               /\ st - f <= i /\ i <= en - f
  <2>1. i \in 1 .. l /\ h[f + i] \notin Blank
    BY <1>2
  <2>2. f + i \in Int /\ f + i >= f + 1 /\ f + i <= sp - 1
    BY <1>1, <2>1
  <2>3. f + i \notin f + 1 .. st - 1 /\ f + i \notin en + 1 .. sp - 1
    BY <1>3, <2>1
  <2> QED
    BY <2>1, <2>2, <2>3
<1>5. CASE I = {}
  <2>1. Trim(v) = <<>>
    BY <1>5 DEF Trim
  <2>2. ~(st <= en)
    <3>1. SUFFICES ASSUME st <= en PROVE FALSE
      OBVIOUS
    <3>2. en - f \in 1 .. l /\ f + (en - f) = en
      BY <1>1, <3>1
    <3>3. en - f \in I
      BY <1>2, <1>3, <3>1, <3>2
    <3> QED
      BY <1>5, <3>3
  <2>3. SubSeq(h, st, en) = <<>>
    <3>1. st \in Int /\ en \in Int /\ en < st
      BY <2>2
    <3> QED
      BY <3>1, SubSeqEmpty
  <2> QED
    BY <2>1, <2>3
<1>6. CASE I # {}
  <2>1. PICK a \in Nat, b \in Nat : a = st - f /\ b = en - f /\ 1 <= a /\ a <= b /\ b <= l
    <3>1. PICK i : i \in I
      BY <1>6
    <3>2. f + i \in st .. en
      BY <1>4, <3>1
    <3> QED
      BY <1>1, <3>2
  <2>2. st <= len /\ st <= en /\ a \in 1 .. l /\ b \in 1 .. l /\ f + a = st /\ f + b = en
    BY <2>1, <1>1
  <2>3. a \in I /\ b \in I
    BY <1>2, <1>3, <2>2
  <2>4. Min(I) = a
    <3>1. \A j \in I : j \in Nat /\ a <= j
      BY <1>4, <2>1
    <3> HIDE DEF I
    <3> QED
      BY <2>3, <3>1, LeastIs
  <2>5. Max(I) = b
    <3>1. \A j \in I : j \in Int /\ j <= b
      BY <1>4, <2>1
    <3> HIDE DEF I
    <3> QED
      BY <2>3, <3>1, GreatestIs
  <2>6. Trim(v) = SubSeq(v, a, b)
    BY <1>6, <2>4, <2>5 DEF Trim
  <2>7. PICK i \in Nat, j \in Nat : i + 1 = a /\ i + j = b /\ i + j <= l
    <3>1. a - 1 \in Nat /\ (b - a) + 1 \in Nat /\ (a - 1) + ((b - a) + 1) = b /\ (a - 1) + 1 = a
      BY <2>1
    <3> QED
      BY <2>1, <3>1
  <2>8. PartOf(SubSeq(v, i + 1, i + j), T, v, i, j)
    BY <1>2, <2>7, PartIs
  <2>9. PartOf(SubSeq(v, i + 1, i + j), T, h, f + i, j)
    BY <1>1, <2>7, <2>8, PartOfPart
  <2>10. PartOf(SubSeq(h, (f + i) + 1, (f + i) + j), T, h, f + i, j)
    <3>1. f + i \in Nat /\ (f + i) + j <= Len(h)
      BY <1>1, <2>7, LenProperties
    <3> QED
      BY <3>1, PartIs
  <2>11. SubSeq(v, i + 1, i + j) = SubSeq(h, (f + i) + 1, (f + i) + j)
    <3>1. f + i \in Nat
      OBVIOUS
    <3> QED
      BY <3>1, <2>9, <2>10, PartsEqual
  <2>12. (f + i) + 1 = st /\ (f + i) + j = en
    BY <2>1, <2>7
  <2> QED
    BY <2>6, <2>7, <2>11, <2>12
<1> QED
  BY <1>5, <1>6

\* What a header line says: the name before its first colon, and the value
\* behind it up to the first end of a line, trimmed at both ends
HeaderCut(h, len) ==
  LET line == Cut(h, len)
      colon == Min(Positions(line, ":"))
      ends == {i \in DOMAIN line : line[i] \in {CR, LF} /\ i > colon}
      stop == Min(ends \cup {Len(line) + 1})
  IN  [key |-> Cut(line, colon - 1), value |-> Trim(SubSeq(line, colon + 1, stop - 1))]

\* A header line is cut at its first colon, and the value trimmed at both
\* ends and ended at the first end of a line; a line that has no colon, or
\* whose colon lies behind its length, is refused.  asm_opt_parse_http_header
THEOREM HeaderLineIsCut ==
  ASSUME NEW T, NEW h \in Seq(T), NEW len \in Nat, len <= Len(h), NEW allocated
  PROVE  asm_opt_parse_http_header(h, len, allocated) =
           IF Positions(Cut(h, len), ":") = {} \/ ~allocated THEN Refused ELSE HeaderCut(h, len)
<1> DEFINE line == Cut(h, len)
           P == Positions(line, ":")
           colons == {i \in 1 .. Len(h) : h[i] = ":"}
           out == asm_opt_parse_http_header(h, len, allocated)
<1>1. Len(h) \in Nat /\ DOMAIN h = 1 .. Len(h)
  BY LenProperties
<1>2. PartOf(line, T, h, 0, len)
  BY CutIsPart
<1> HIDE DEF line
<1>3. /\ line \in Seq(T) /\ Len(line) = len /\ DOMAIN line = 1 .. len
      /\ \A i \in 1 .. len : line[i] = h[i]
  <2>1. \A i \in 1 .. len : 0 + i = i
    OBVIOUS
  <2> QED
    BY <1>2, <2>1, LenProperties DEF PartOf
<1>4. P = {i \in 1 .. len : h[i] = ":"}
  BY <1>3 DEF Positions
<1>5. \A i \in colons : i \in Nat
  OBVIOUS
<1>6. P \subseteq colons
  BY <1>1, <1>4
<1>7. CASE P = {} \/ ~allocated
  <2>1. ASSUME P = {}, colons # {} PROVE Min(colons) > len
    <3>1. Min(colons) \in colons
      <4> HIDE DEF colons
      <4> QED
        BY <1>5, <2>1, MinIs
    <3> QED
      BY <3>1, <2>1, <1>4
  <2>2. len = 0 \/ colons = {} \/ Min(colons) > len \/ ~allocated
    BY <1>7, <2>1
  <2>3. out = Refused
    BY <2>2 DEF asm_opt_parse_http_header
  <2> QED
    BY <1>7, <2>3 DEF line
<1>8. CASE P # {} /\ allocated
  <2>1. PICK f \in P : \A i \in P : f <= i
    <3>1. P \in SUBSET Nat
      BY <1>4
    <3> HIDE DEF P
    <3> QED
      BY <1>8, <3>1, LeastNumber
  <2>2. f \in Nat /\ f >= 1 /\ f <= len /\ f \in colons
    BY <1>4, <1>6
  <2>3. Min(P) = f
    <3>1. \A i \in P : i \in Nat /\ f <= i
      BY <1>4, <2>1
    <3> HIDE DEF P
    <3> QED
      BY <2>2, <3>1, LeastIs
  <2>4. Min(colons) = f
    <3>1. \A i \in colons : i \in Nat /\ f <= i
      <4> TAKE i \in colons
      <4>1. CASE i <= len
        <5>1. i \in P
          BY <1>4, <4>1
        <5> QED
          BY <5>1, <2>1
      <4>2. CASE ~(i <= len)
        BY <4>2, <2>2
      <4> QED
        BY <4>1, <4>2
    <3> HIDE DEF colons
    <3> QED
      BY <2>2, <3>1, LeastIs
  <2>5. PICK st \in f + 1 .. len + 1 :
            /\ st = Min({i \in f + 1 .. len : h[i] \notin Blank} \cup {len + 1})
            /\ Starts(h, f, len, st)
    BY <2>2, StartIs
  <2>6. st \in Nat /\ f + 1 <= st /\ st <= len + 1
    BY <2>2
  <2>7. PICK sp \in st .. len + 1 :
            /\ sp = Min({i \in st .. len : h[i] \in {CR, LF}} \cup {len + 1})
            /\ Stops(h, st, len, sp)
    BY <2>6, StopIs
  <2>8. sp \in Nat /\ st <= sp /\ sp <= len + 1
    BY <2>6
  <2>9. PICK en \in st - 1 .. sp - 1 :
            /\ en = Max({i \in st .. sp - 1 : h[i] \notin Blank} \cup {st - 1})
            /\ Ends(h, st, sp, en)
    BY <2>6, <2>8, EndIs
  <2>10. out = [key |-> SubSeq(h, 1, f - 1), value |-> SubSeq(h, st, en)]
    <3>1. len # 0 /\ colons # {} /\ ~(f > len)
      BY <2>2
    <3> HIDE DEF colons
    <3>2. out = [key |-> SubSeq(h, 1, Min(colons) - 1), value |-> SubSeq(h, st, en)]
      BY <1>8, <2>4, <2>5, <2>7, <2>9, <3>1 DEF asm_opt_parse_http_header, colons
    <3> QED
      BY <2>4, <3>2
  <2>11. SubSeq(h, 1, f - 1) = Cut(line, f - 1)
    <3>1. PICK k \in Nat : k = f - 1 /\ k <= len
      BY <2>2
    <3>2. PartOf(Cut(line, k), T, line, 0, k)
      BY <1>3, <3>1, CutIsPart
    <3>3. PartOf(Cut(line, k), T, h, 0, k)
      <4>1. 0 + 0 = 0 /\ 0 + k <= len /\ 0 \in Nat
        BY <3>1
      <4>2. PartOf(Cut(line, k), T, h, 0 + 0, k)
        BY <1>2, <3>1, <3>2, <4>1, PartOfPart
      <4> QED
        BY <4>1, <4>2
    <3>4. PartOf(SubSeq(h, 0 + 1, 0 + k), T, h, 0, k)
      BY <3>1, PartIs, <1>1
    <3>5. Cut(line, k) = SubSeq(h, 0 + 1, 0 + k)
      BY <3>3, <3>4, PartsEqual
    <3> QED
      BY <3>1, <3>5
  <2> DEFINE ends == {i \in DOMAIN line : line[i] \in {CR, LF} /\ i > f}
  <2>12. Min(ends \cup {Len(line) + 1}) = sp
    <3>1. ends = {i \in 1 .. len : h[i] \in {CR, LF} /\ i > f}
      BY <1>3
    <3> HIDE DEF ends
    <3>2. sp \in ends \cup {Len(line) + 1}
      <4>1. CASE sp <= len
        <5>1. sp \in 1 .. len /\ sp > f
          BY <4>1, <2>2, <2>6, <2>8
        <5> QED
          BY <4>1, <5>1, <3>1, <2>7 DEF Stops
      <4>2. CASE ~(sp <= len)
        BY <4>2, <2>8, <1>3
      <4> QED
        BY <4>1, <4>2
    <3>3. \A j \in ends \cup {Len(line) + 1} : j \in Nat /\ sp <= j
      <4> TAKE j \in ends \cup {Len(line) + 1}
      <4>1. CASE j = Len(line) + 1
        BY <4>1, <1>3, <2>8
      <4>2. CASE j \in ends
        <5>1. j \in 1 .. len /\ h[j] \in {CR, LF} /\ j > f
          BY <3>1, <4>2
        <5>2. h[j] \notin Blank
          BY <5>1 DEF CR, LF, Blank
        <5>3. j \notin f + 1 .. st - 1 /\ j \notin st .. sp - 1
          BY <5>1, <5>2, <2>5, <2>7 DEF Starts, Stops
        <5> QED
          BY <5>1, <5>3, <2>2, <2>6, <2>8
      <4> QED
        BY <4>1, <4>2
    <3> QED
      BY <2>8, <3>2, <3>3, LeastIs
  <2>13. Trim(SubSeq(line, f + 1, sp - 1)) = SubSeq(h, st, en)
    <3>1. PICK l \in Nat : l = sp - 1 - f /\ f + l = sp - 1 /\ f + l <= len
      BY <2>2, <2>6, <2>8
    <3>2. PartOf(SubSeq(line, f + 1, f + l), T, line, f, l)
      BY <1>3, <2>2, <3>1, PartIs
    <3>3. PartOf(SubSeq(line, f + 1, f + l), T, h, 0 + f, l)
      BY <1>2, <2>2, <3>1, <3>2, PartOfPart
    <3>4. PartOf(SubSeq(line, f + 1, sp - 1), T, h, f, sp - 1 - f)
      BY <2>2, <3>1, <3>3
    <3>5. f <= len /\ len <= Len(h)
      BY <2>2
    <3>6. Starts(h, f, len, st) /\ Stops(h, st, len, sp) /\ Ends(h, st, sp, en)
      BY <2>5, <2>7, <2>9
    <3> DEFINE v == SubSeq(line, f + 1, sp - 1)
    <3>7. PartOf(v, T, h, f, sp - 1 - f)
      BY <3>4
    <3> HIDE DEF v
    <3>8. Trim(v) = SubSeq(h, st, en)
      BY <2>2, <3>5, <3>6, <3>7, TrimIs
    <3> QED
      BY <3>8 DEF v
  <2>14. HeaderCut(h, len) = [key |-> Cut(line, f - 1), value |-> Trim(SubSeq(line, f + 1, sp - 1))]
    BY <2>3, <2>12 DEF HeaderCut, line
  <2>15. out = HeaderCut(h, len)
    BY <2>10, <2>11, <2>13, <2>14
  <2> QED
    BY <1>8, <2>15 DEF line
<1> QED
  BY <1>7, <1>8

-----------------------------------------------------------------------------
(* base64                                                                  *)

Octet == 0 .. 255
Symbol == 0 .. 64

\* The four characters of y behind o are the sextets of a, b and c
Four(y, o, a, b, c) ==
  /\ y[o + 1] = a \div 4 /\ y[o + 2] = (a % 4) * 16 + b \div 16
  /\ y[o + 3] = (b % 16) * 4 + c \div 64 /\ y[o + 4] = c % 64

\* The four sextets of three bytes.
LEMMA SextetsAre ==
  ASSUME NEW a \in Octet, NEW b \in Octet, NEW c \in Octet
  PROVE  /\ a \div 4 \in 0 .. 63 /\ (a % 4) * 16 + b \div 16 \in 0 .. 63
         /\ (b % 16) * 4 + c \div 64 \in 0 .. 63 /\ c % 64 \in 0 .. 63
BY DEF Octet

\* Put together, the sextets are the bytes again.
LEMMA OctetsAre ==
  ASSUME NEW a \in Octet, NEW b \in Octet, NEW c \in Octet,
         NEW p, NEW q, NEW r, NEW s, p = a \div 4, q = (a % 4) * 16 + b \div 16,
         r = (b % 16) * 4 + c \div 64, s = c % 64
  PROVE  /\ p * 4 + q \div 16 = a /\ (q % 16) * 16 + r \div 4 = b /\ (r % 4) * 64 + s = c
<1>1. p \in 0 .. 63 /\ q \in 0 .. 63 /\ r \in 0 .. 63 /\ s \in 0 .. 63
  BY SextetsAre
<1>2. q \div 16 = a % 4 /\ q % 16 = b \div 16
  BY DEF Octet
<1>3. r \div 4 = b % 16 /\ r % 4 = c \div 64
  BY DEF Octet
<1> QED
  BY <1>1, <1>2, <1>3 DEF Octet

\* Four elements are a text.
LEMMA FourOf ==
  ASSUME NEW T, NEW a \in T, NEW b \in T, NEW c \in T, NEW d \in T
  PROVE  /\ <<a, b, c, d>> \in Seq(T) /\ Len(<<a, b, c, d>>) = 4
         /\ <<a, b, c, d>>[1] = a /\ <<a, b, c, d>>[2] = b
         /\ <<a, b, c, d>>[3] = c /\ <<a, b, c, d>>[4] = d
OBVIOUS

\* What Sextets writes is the group of the three bytes.
LEMMA SextetsFour ==
  ASSUME NEW a \in Octet, NEW b \in Octet, NEW c \in Octet
  PROVE  Sextets(a, b, c) \in Seq(Symbol) /\ Len(Sextets(a, b, c)) = 4 /\ Four(Sextets(a, b, c), 0, a, b, c)
<1>1. \A v \in 0 .. 63 : v \in Symbol
  BY DEF Symbol
<1>2. 0 + 1 = 1 /\ 0 + 2 = 2 /\ 0 + 3 = 3 /\ 0 + 4 = 4
  OBVIOUS
<1>3. PICK p \in Symbol, q \in Symbol, r \in Symbol, s \in Symbol :
        p = a \div 4 /\ q = (a % 4) * 16 + b \div 16 /\ r = (b % 16) * 4 + c \div 64 /\ s = c % 64
  BY <1>1, SextetsAre
<1>4. Sextets(a, b, c) = <<p, q, r, s>>
  BY <1>3 DEF Sextets
<1> QED
  BY <1>2, <1>3, <1>4, FourOf DEF Four

\* y holds the encoding of g whole triples of x behind o
TriplesIn(y, x, o, g) ==
  /\ y \in Seq(Symbol) /\ Len(y) = 4 * g
  /\ \A k \in 1 .. g : LET i == o + 3 * (k - 1)
                       IN  Four(y, 4 * (k - 1), x[i + 1], x[i + 2], x[i + 3])

\* The groups of a stretch of whole triples follow one another.
LEMMA TriplesEncoded ==
  ASSUME NEW x \in Seq(Octet), NEW o \in Nat, NEW g \in Nat, NEW to \in Nat,
         to = o + 3 * g, to <= Len(x), NEW from, from = o + 1
  PROVE  TriplesIn(EncodeTriples(x, from, to), x, o, g)
<1> DEFINE three(k) == LET i == o + 1 + 3 * (k - 1) IN Sextets(x[i], x[i + 1], x[i + 2])
           seqs == [k \in 1 .. g |-> three(k)]
           y == FlattenSeq(seqs)
<1>1. (to - (o + 1) + 1) \div 3 = g
  OBVIOUS
<1>2. EncodeTriples(x, from, to) = y
  BY <1>1 DEF EncodeTriples
<1>3. ASSUME NEW k \in 1 .. g
      PROVE  LET i == o + 3 * (k - 1)
             IN  /\ three(k) \in Seq(Symbol) /\ Len(three(k)) = 4
                 /\ Four(three(k), 0, x[i + 1], x[i + 2], x[i + 3])
  <2>1. PICK i \in Nat : /\ i = o + 3 * (k - 1) /\ i + 3 <= to /\ o + 1 + 3 * (k - 1) = i + 1
                         /\ i + 1 + 1 = i + 2 /\ i + 1 + 2 = i + 3
    OBVIOUS
  <2>2. x[i + 1] \in Octet /\ x[i + 2] \in Octet /\ x[i + 3] \in Octet
    <3>1. i + 1 \in 1 .. Len(x) /\ i + 2 \in 1 .. Len(x) /\ i + 3 \in 1 .. Len(x)
      BY <2>1, LenProperties
    <3> QED
      BY <3>1, ElementOfSeq
  <2>3. three(k) = Sextets(x[i + 1], x[i + 2], x[i + 3])
    BY <2>1
  <2> QED
    BY <2>1, <2>2, <2>3, SextetsFour
<1> HIDE DEF three
<1>4. /\ seqs \in Seq(Seq(Symbol)) /\ Len(seqs) = g
      /\ \A k \in 1 .. g : seqs[k] = three(k)
  <2>1. seqs \in [1 .. g -> Seq(Symbol)]
    BY <1>3
  <2> QED
    BY <2>1, SeqDef, LenProperties
<1> HIDE DEF seqs
<1>5. y \in Seq(Symbol) /\ Chunks(y, seqs, 4)
  <2>1. \A i \in 1 .. Len(seqs) : Len(seqs[i]) = 4
    BY <1>3, <1>4
  <2> QED
    BY <1>4, <2>1, FlattenChunks
<1> HIDE DEF y
<1>6. ASSUME NEW k \in 1 .. g
      PROVE  LET i == o + 3 * (k - 1) IN Four(y, 4 * (k - 1), x[i + 1], x[i + 2], x[i + 3])
  <2>1. \A j \in 1 .. 4 : y[4 * (k - 1) + j] = three(k)[0 + j]
    <3>1. \A j \in 1 .. 4 : y[(k - 1) * 4 + j] = three(k)[j]
      BY <1>4, <1>5 DEF Chunks
    <3>2. (k - 1) * 4 = 4 * (k - 1) /\ \A j \in 1 .. 4 : 0 + j = j
      OBVIOUS
    <3> QED
      BY <3>1, <3>2
  <2>2. 1 \in 1 .. 4 /\ 2 \in 1 .. 4 /\ 3 \in 1 .. 4 /\ 4 \in 1 .. 4
    OBVIOUS
  <2> QED
    BY <1>3, <2>1, <2>2 DEF Four
<1>7. Len(y) = 4 * g
  BY <1>4, <1>5 DEF Chunks
<1>8. TriplesIn(y, x, o, g)
  BY <1>5, <1>6, <1>7 DEF TriplesIn
<1> QED
  BY <1>2, <1>8

\* The four characters behind o that stand for one byte left over, and for two
OneLeft(y, o, a) ==
  /\ y[o + 1] = a \div 4 /\ y[o + 2] = (a % 4) * 16 /\ y[o + 3] = Pad /\ y[o + 4] = Pad
TwoLeft(y, o, a, b) ==
  /\ y[o + 1] = a \div 4 /\ y[o + 2] = (a % 4) * 16 + b \div 16
  /\ y[o + 3] = (b % 16) * 4 /\ y[o + 4] = Pad

\* y is the encoding of x: whole triples, then what is left of x, padded
Encodes(y, x) ==
  LET n == Len(x)
      q == n \div 3
  IN  /\ y \in Seq(Symbol) /\ Len(y) = ((n + 2) \div 3) * 4
      /\ \A k \in 1 .. q : LET i == 3 * (k - 1)
                           IN  Four(y, 4 * (k - 1), x[i + 1], x[i + 2], x[i + 3])
      /\ n = 3 * q + 1 => OneLeft(y, 4 * q, x[n])
      /\ n = 3 * q + 2 => TwoLeft(y, 4 * q, x[n - 1], x[n])

\* One byte left over becomes two sextets and two pads.
LEMMA OneLeftIs ==
  ASSUME NEW a \in Octet
  PROVE  LET t == SubSeq(Sextets(a, 0, 0), 1, 2) \o <<Pad, Pad>>
         IN  t \in Seq(Symbol) /\ Len(t) = 4 /\ OneLeft(t, 0, a)
<1>1. 0 \in Octet /\ Pad \in Symbol
  BY DEF Octet, Symbol, Pad
<1> DEFINE s == Sextets(a, 0, 0)
           u == SubSeq(s, 0 + 1, 0 + 2)
           v == <<Pad, Pad>>
<1>2. s \in Seq(Symbol) /\ Len(s) = 4 /\ Four(s, 0, a, 0, 0)
  BY <1>1, SextetsFour
<1> HIDE DEF s
<1>3. PartOf(u, Symbol, s, 0, 2)
  <2>1. 0 + 2 <= Len(s) /\ 0 \in Nat /\ 2 \in Nat
    BY <1>2
  <2> QED
    BY <1>2, <2>1, PartIs
<1>4. u = SubSeq(s, 1, 2)
  OBVIOUS
<1> HIDE DEF u
<1>5. u \in Seq(Symbol) /\ Len(u) = 2 /\ u[1] = s[0 + 1] /\ u[2] = s[0 + 2]
  BY <1>3 DEF PartOf
<1>6. v \in Seq(Symbol) /\ Len(v) = 2 /\ v[1] = Pad /\ v[2] = Pad
  BY <1>1, TwoOf
<1> HIDE DEF v
<1> DEFINE t == u \o v
<1>7. /\ t \in Seq(Symbol) /\ Len(t) = 4 /\ t[1] = u[1] /\ t[2] = u[2]
      /\ t[3] = v[1] /\ t[4] = v[2]
  <2>1. t \in Seq(Symbol) /\ Len(t) = 4 /\ \A i \in 1 .. 4 : t[i] = IF i <= 2 THEN u[i] ELSE v[i - 2]
    BY <1>5, <1>6, ConcatProperties
  <2> HIDE DEF t
  <2>2. 3 - 2 = 1 /\ 4 - 2 = 2
    OBVIOUS
  <2> QED
    BY <2>1, <2>2
<1> HIDE DEF t
<1>8. 0 \div 16 = 0 /\ (a % 4) * 16 + 0 = (a % 4) * 16
  BY DEF Octet
<1>9. OneLeft(t, 0, a)
  BY <1>2, <1>5, <1>6, <1>7, <1>8 DEF OneLeft, Four
<1> QED
  BY <1>4, <1>7, <1>9 DEF t, s, v

\* Two bytes left over become three sextets and one pad.
LEMMA TwoLeftIs ==
  ASSUME NEW a \in Octet, NEW b \in Octet
  PROVE  LET t == SubSeq(Sextets(a, b, 0), 1, 3) \o <<Pad>>
         IN  t \in Seq(Symbol) /\ Len(t) = 4 /\ TwoLeft(t, 0, a, b)
<1>1. 0 \in Octet /\ Pad \in Symbol
  BY DEF Octet, Symbol, Pad
<1> DEFINE s == Sextets(a, b, 0)
           u == SubSeq(s, 0 + 1, 0 + 3)
           v == <<Pad>>
<1>2. s \in Seq(Symbol) /\ Len(s) = 4 /\ Four(s, 0, a, b, 0)
  BY <1>1, SextetsFour
<1> HIDE DEF s
<1>3. PartOf(u, Symbol, s, 0, 3)
  <2>1. 0 + 3 <= Len(s) /\ 0 \in Nat /\ 3 \in Nat
    BY <1>2
  <2> QED
    BY <1>2, <2>1, PartIs
<1>4. u = SubSeq(s, 1, 3)
  OBVIOUS
<1> HIDE DEF u
<1>5. u \in Seq(Symbol) /\ Len(u) = 3 /\ u[1] = s[0 + 1] /\ u[2] = s[0 + 2] /\ u[3] = s[0 + 3]
  BY <1>3 DEF PartOf
<1>6. v \in Seq(Symbol) /\ Len(v) = 1 /\ v[1] = Pad
  BY <1>1, OneOf
<1> HIDE DEF v
<1> DEFINE t == u \o v
<1>7. /\ t \in Seq(Symbol) /\ Len(t) = 4 /\ t[1] = u[1] /\ t[2] = u[2]
      /\ t[3] = u[3] /\ t[4] = v[1]
  <2>0. /\ t \in Seq(Symbol) /\ Len(t) = Len(u) + Len(v)
        /\ \A i \in 1 .. Len(u) + Len(v) : t[i] = IF i <= Len(u) THEN u[i] ELSE v[i - Len(u)]
    BY <1>5, <1>6, ConcatProperties
  <2> HIDE DEF t
  <2>1. t \in Seq(Symbol) /\ Len(t) = 4 /\ \A i \in 1 .. 4 : t[i] = IF i <= 3 THEN u[i] ELSE v[i - 3]
    BY <1>5, <1>6, <2>0
  <2>2. 4 - 3 = 1
    OBVIOUS
  <2> QED
    BY <2>1, <2>2
<1> HIDE DEF t
<1>8. 0 \div 64 = 0 /\ (b % 16) * 4 + 0 = (b % 16) * 4
  BY DEF Octet
<1>9. TwoLeft(t, 0, a, b)
  BY <1>2, <1>5, <1>6, <1>7, <1>8 DEF TwoLeft, Four
<1> QED
  BY <1>4, <1>7, <1>9 DEF t, s, v

\* A group of four characters is what it is wherever it lies
Moves(y, o, z, p) == \A j \in 1 .. 4 : z[p + j] = y[o + j]

\* So it is for a group,
LEMMA FourMoved ==
  ASSUME NEW y, NEW o, NEW z, NEW p, Moves(y, o, z, p), NEW a, NEW b, NEW c, Four(y, o, a, b, c)
  PROVE  Four(z, p, a, b, c)
<1>1. z[p + 1] = y[o + 1] /\ z[p + 2] = y[o + 2] /\ z[p + 3] = y[o + 3] /\ z[p + 4] = y[o + 4]
  BY DEF Moves
<1> QED
  BY <1>1 DEF Four

\* and for what is left over.
LEMMA LeftMoved ==
  ASSUME NEW y, NEW o, NEW z, NEW p, Moves(y, o, z, p), NEW a, NEW b
  PROVE  /\ OneLeft(y, o, b) => OneLeft(z, p, b)
         /\ TwoLeft(y, o, a, b) => TwoLeft(z, p, a, b)
<1>1. z[p + 1] = y[o + 1] /\ z[p + 2] = y[o + 2] /\ z[p + 3] = y[o + 3] /\ z[p + 4] = y[o + 4]
  BY DEF Moves
<1> QED
  BY <1>1 DEF OneLeft, TwoLeft

\* base64 in blocks is base64: each triple becomes its four sextets, and one or
\* two bytes left over are padded.  asm_opt_base64_encode
THEOREM EncodeIsBase64 ==
  ASSUME NEW x \in Seq(Octet), NEW room \in Nat, room >= ((Len(x) + 2) \div 3) * 4 + 1,
         NEW neon \in BOOLEAN
  PROVE  Encodes(asm_opt_base64_encode(x, room, neon), x)
<1>1. PICK n \in Nat : n = Len(x)
  BY LenProperties
<1>2. PICK q \in Nat : q = n \div 3 /\ 3 * q <= n /\ n < 3 * q + 3
  BY Z3
<1> DEFINE blocks == IF neon THEN Whole(n, 3 * Triples) ELSE 0
<1>3. PICK u \in Nat : blocks = 3 * u /\ u <= q
  <2>1. CASE neon
    <3>1. PICK c \in Nat \ {0} : c = 3 * Triples
      BY TriplesAssumption
    <3>2. n \div c \in Nat /\ Whole(n, c) = (n \div c) * c /\ Whole(n, c) \in 0 .. n
      BY WholeIs
    <3>3. PICK m \in Nat : m = n \div c
      BY <3>2
    <3>4. m * (3 * Triples) = 3 * (m * Triples) /\ m * Triples \in Nat
      BY TriplesAssumption, Z3
    <3>5. 3 * (m * Triples) <= n
      BY <3>1, <3>2, <3>3, <3>4
    <3>6. m * Triples <= q
      BY <3>4, <3>5, <1>2
    <3> QED
      BY <2>1, <3>1, <3>2, <3>3, <3>4, <3>6
  <2>2. CASE ~neon
    BY <2>2
  <2> QED
    BY <2>1, <2>2
<1> HIDE DEF blocks
<1>4. blocks + Whole(n - blocks, 3) = 3 * q
  <2>1. (n - 3 * u) \div 3 = q - u
    BY <1>2, <1>3
  <2> QED
    BY <2>1, <1>3 DEF Whole
<1> DEFINE e1 == EncodeTriples(x, 1, 3 * u)
           e2 == EncodeTriples(x, 3 * u + 1, 3 * q)
           tail == CASE n - 3 * q = 0 -> <<>>
                     [] n - 3 * q = 1 -> SubSeq(Sextets(x[n], 0, 0), 1, 2) \o <<Pad, Pad>>
                     [] n - 3 * q = 2 -> SubSeq(Sextets(x[n - 1], x[n], 0), 1, 3) \o <<Pad>>
           y == e1 \o e2 \o tail
<1>5. asm_opt_base64_encode(x, room, neon) = y
  <2>1. ~(room < ((n + 2) \div 3) * 4 + 1)
    BY <1>1
  <2> QED
    BY <1>1, <1>3, <1>4, <2>1 DEF asm_opt_base64_encode, blocks
<1>6. TriplesIn(e1, x, 0, u)
  <2>1. PICK to \in Nat : to = 3 * u /\ to = 0 + 3 * u /\ to <= Len(x) /\ 1 = 0 + 1
    BY <1>1, <1>2, <1>3
  <2>2. TriplesIn(EncodeTriples(x, 1, to), x, 0, u)
    BY <2>1, TriplesEncoded
  <2> QED
    BY <2>1, <2>2
<1>7. TriplesIn(e2, x, 3 * u, q - u)
  <2>1. PICK g \in Nat : g = q - u
    BY <1>3
  <2>2. PICK o \in Nat : o = 3 * u
    OBVIOUS
  <2>3. PICK to \in Nat : to = 3 * q /\ to = o + 3 * g /\ to <= Len(x)
    BY <2>1, <2>2, <1>1, <1>2, <1>3
  <2>4. TriplesIn(EncodeTriples(x, o + 1, to), x, o, g)
    BY <2>3, TriplesEncoded
  <2> QED
    BY <2>1, <2>2, <2>3, <2>4
<1>8. /\ tail \in Seq(Symbol) /\ Len(tail) = IF n = 3 * q THEN 0 ELSE 4
      /\ n = 3 * q + 1 => OneLeft(tail, 0, x[n])
      /\ n = 3 * q + 2 => TwoLeft(tail, 0, x[n - 1], x[n])
  <2>1. CASE n = 3 * q
    <3>1. n - 3 * q = 0 /\ n # 3 * q + 1 /\ n # 3 * q + 2
      BY <2>1
    <3>2. tail = <<>>
      BY <3>1
    <3> QED
      BY <2>1, <3>1, <3>2, EmptySeq
  <2>2. CASE n = 3 * q + 1
    <3>1. n - 3 * q = 1 /\ n # 3 * q /\ n # 3 * q + 2 /\ n \in 1 .. Len(x)
      BY <2>2, <1>1
    <3>2. x[n] \in Octet
      BY <3>1, ElementOfSeq
    <3>3. tail = SubSeq(Sextets(x[n], 0, 0), 1, 2) \o <<Pad, Pad>>
      BY <3>1
    <3> HIDE DEF tail
    <3> QED
      BY <2>2, <3>1, <3>2, <3>3, OneLeftIs
  <2>3. CASE n = 3 * q + 2
    <3>1. n - 3 * q = 2 /\ n # 3 * q /\ n # 3 * q + 1 /\ n \in 1 .. Len(x) /\ n - 1 \in 1 .. Len(x)
      BY <2>3, <1>1
    <3>2. x[n] \in Octet /\ x[n - 1] \in Octet
      BY <3>1, ElementOfSeq
    <3>3. tail = SubSeq(Sextets(x[n - 1], x[n], 0), 1, 3) \o <<Pad>>
      BY <3>1
    <3> HIDE DEF tail
    <3> QED
      BY <2>3, <3>1, <3>2, <3>3, TwoLeftIs
  <2>4. n = 3 * q \/ n = 3 * q + 1 \/ n = 3 * q + 2
    BY <1>2
  <2> HIDE DEF tail
  <2> QED
    BY <2>1, <2>2, <2>3, <2>4
<1> HIDE DEF e1, e2, tail
<1> DEFINE e == e1 \o e2
<1>9. /\ e \in Seq(Symbol) /\ Len(e) = 4 * q
      /\ \A i \in 1 .. 4 * q : e[i] = IF i <= 4 * u THEN e1[i] ELSE e2[i - 4 * u]
  <2>1. 4 * u + 4 * (q - u) = 4 * q
    BY <1>3
  <2>2. e1 \in Seq(Symbol) /\ e2 \in Seq(Symbol) /\ Len(e1) = 4 * u /\ Len(e2) = 4 * (q - u)
    BY <1>6, <1>7 DEF TriplesIn
  <2>3. /\ e \in Seq(Symbol) /\ Len(e) = Len(e1) + Len(e2)
        /\ \A i \in 1 .. Len(e1) + Len(e2) : e[i] = IF i <= Len(e1) THEN e1[i] ELSE e2[i - Len(e1)]
    BY <2>2, ConcatProperties
  <2> HIDE DEF e
  <2> QED
    BY <2>1, <2>2, <2>3
<1> HIDE DEF e
<1> DEFINE len == Len(tail)
<1>10. len \in Nat /\ len = IF n = 3 * q THEN 0 ELSE 4
  BY <1>8
<1>11. /\ y \in Seq(Symbol) /\ Len(y) = 4 * q + len
       /\ \A i \in 1 .. 4 * q + len : y[i] = IF i <= 4 * q THEN e[i] ELSE tail[i - 4 * q]
  <2>1. y = e \o tail
    BY DEF e
  <2> HIDE DEF y
  <2>2. tail \in Seq(Symbol)
    BY <1>8
  <2>3. /\ y \in Seq(Symbol) /\ Len(y) = Len(e) + Len(tail)
        /\ \A i \in 1 .. Len(e) + Len(tail) : y[i] = IF i <= Len(e) THEN e[i] ELSE tail[i - Len(e)]
    BY <1>9, <2>1, <2>2, ConcatProperties
  <2> QED
    BY <1>9, <1>10, <2>3
<1> HIDE DEF len, y
<1>12. Len(y) = ((n + 2) \div 3) * 4
  BY <1>2, <1>10, <1>11
<1>13. ASSUME NEW k \in 1 .. q
       PROVE  LET i == 3 * (k - 1) IN Four(y, 4 * (k - 1), x[i + 1], x[i + 2], x[i + 3])
  <2>1. CASE k <= u
    <3>1. k \in 1 .. u /\ 0 + 3 * (k - 1) = 3 * (k - 1)
      BY <2>1
    <3>2. Moves(e1, 4 * (k - 1), y, 4 * (k - 1))
      <4> SUFFICES ASSUME NEW j \in 1 .. 4 PROVE y[4 * (k - 1) + j] = e1[4 * (k - 1) + j]
        BY DEF Moves
      <4>1. PICK i \in 1 .. 4 * q : i = 4 * (k - 1) + j /\ i <= 4 * u
        BY <2>1
      <4>2. i \in 1 .. 4 * q + len /\ i <= 4 * q
        BY <1>10
      <4>3. y[i] = e1[i]
        BY <4>1, <4>2, <1>9, <1>11
      <4> QED
        BY <4>1, <4>3
    <3>3. LET i == 3 * (k - 1) IN Four(e1, 4 * (k - 1), x[i + 1], x[i + 2], x[i + 3])
      BY <3>1, <1>6 DEF TriplesIn
    <3> QED
      BY <3>2, <3>3, FourMoved
  <2>2. CASE ~(k <= u)
    <3>1. PICK h \in 1 .. q - u : h = k - u /\ 3 * u + 3 * (h - 1) = 3 * (k - 1)
      BY <2>2, <1>3
    <3>2. Moves(e2, 4 * (h - 1), y, 4 * (k - 1))
      <4> SUFFICES ASSUME NEW j \in 1 .. 4 PROVE y[4 * (k - 1) + j] = e2[4 * (h - 1) + j]
        BY DEF Moves
      <4>1. PICK i \in 1 .. 4 * q : i = 4 * (k - 1) + j /\ ~(i <= 4 * u) /\ i - 4 * u = 4 * (h - 1) + j
        BY <2>2, <3>1
      <4>2. i \in 1 .. 4 * q + len /\ i <= 4 * q
        BY <1>10
      <4>3. y[i] = e2[i - 4 * u]
        BY <4>1, <4>2, <1>9, <1>11
      <4> QED
        BY <4>1, <4>3
    <3>3. LET i == 3 * u + 3 * (h - 1) IN Four(e2, 4 * (h - 1), x[i + 1], x[i + 2], x[i + 3])
      BY <1>7 DEF TriplesIn
    <3>4. LET i == 3 * (k - 1) IN Four(e2, 4 * (h - 1), x[i + 1], x[i + 2], x[i + 3])
      BY <3>1, <3>3
    <3> QED
      BY <3>2, <3>4, FourMoved
  <2> QED
    BY <2>1, <2>2
<1>14. len = 4 => Moves(tail, 0, y, 4 * q)
  <2> SUFFICES ASSUME len = 4, NEW j \in 1 .. 4 PROVE y[4 * q + j] = tail[0 + j]
    BY DEF Moves
  <2>1. PICK i \in 1 .. 4 * q + len : i = 4 * q + j /\ ~(i <= 4 * q) /\ i - 4 * q = 0 + j
    OBVIOUS
  <2> QED
    BY <1>11, <2>1
<1>15. /\ n = 3 * q + 1 => OneLeft(y, 4 * q, x[n])
       /\ n = 3 * q + 2 => TwoLeft(y, 4 * q, x[n - 1], x[n])
  <2>1. n = 3 * q + 1 \/ n = 3 * q + 2 => len = 4
    BY <1>10
  <2> QED
    BY <2>1, <1>8, <1>14, LeftMoved
<1>16. Encodes(y, x)
  BY <1>1, <1>2, <1>11, <1>12, <1>13, <1>15 DEF Encodes
<1> QED
  BY <1>5, <1>16 DEF y, e

\* The characters of a text up to m are symbols, and what follows is padding
Padded(y, m) ==
  /\ m \in 0 .. Len(y)
  /\ \A i \in 1 .. m : y[i] \in 0 .. 63
  /\ \A i \in m + 1 .. Len(y) : y[i] = Pad

\* How many characters that are not padding stand for n bytes
Characters(n) == 4 * (n \div 3) + (IF n % 3 = 0 THEN 0 ELSE (n % 3) + 1)

\* The characters of a group are symbols,
LEMMA FourSymbols ==
  ASSUME NEW y, NEW o, NEW a \in Octet, NEW b \in Octet, NEW c \in Octet, Four(y, o, a, b, c)
  PROVE  y[o + 1] \in 0 .. 63 /\ y[o + 2] \in 0 .. 63 /\ y[o + 3] \in 0 .. 63 /\ y[o + 4] \in 0 .. 63
<1>1. /\ a \div 4 \in 0 .. 63 /\ (a % 4) * 16 + b \div 16 \in 0 .. 63
      /\ (b % 16) * 4 + c \div 64 \in 0 .. 63 /\ c % 64 \in 0 .. 63
  BY SextetsAre
<1>2. /\ y[o + 1] = a \div 4 /\ y[o + 2] = (a % 4) * 16 + b \div 16
      /\ y[o + 3] = (b % 16) * 4 + c \div 64 /\ y[o + 4] = c % 64
  BY DEF Four
<1> QED
  BY <1>1, <1>2, Zenon

\* so are those of one byte left over,
LEMMA OneLeftSymbols ==
  ASSUME NEW y, NEW o, NEW a \in Octet, OneLeft(y, o, a)
  PROVE  y[o + 1] \in 0 .. 63 /\ y[o + 2] \in 0 .. 63
<1>1. a \div 4 \in 0 .. 63 /\ (a % 4) * 16 \in 0 .. 63
  BY DEF Octet
<1>2. y[o + 1] = a \div 4 /\ y[o + 2] = (a % 4) * 16
  BY DEF OneLeft
<1> QED
  BY <1>1, <1>2, Zenon

\* and those of two.
LEMMA TwoLeftSymbols ==
  ASSUME NEW y, NEW o, NEW a \in Octet, NEW b \in Octet, TwoLeft(y, o, a, b)
  PROVE  y[o + 1] \in 0 .. 63 /\ y[o + 2] \in 0 .. 63 /\ y[o + 3] \in 0 .. 63
<1>1. a \div 4 \in 0 .. 63 /\ (a % 4) * 16 + b \div 16 \in 0 .. 63 /\ (b % 16) * 4 \in 0 .. 63
  BY DEF Octet
<1>2. y[o + 1] = a \div 4 /\ y[o + 2] = (a % 4) * 16 + b \div 16 /\ y[o + 3] = (b % 16) * 4
  BY DEF TwoLeft
<1> QED
  BY <1>1, <1>2, Zenon

\* An encoding has symbols first and pads last.
LEMMA EncodedIsPadded ==
  ASSUME NEW x \in Seq(Octet), NEW y, Encodes(y, x)
  PROVE  Padded(y, Characters(Len(x)))
<1>1. PICK n \in Nat : n = Len(x)
  BY LenProperties
<1>2. PICK q \in Nat : q = n \div 3 /\ (n = 3 * q \/ n = 3 * q + 1 \/ n = 3 * q + 2)
  BY Z3
<1>3. /\ Len(y) = ((n + 2) \div 3) * 4
      /\ \A k \in 1 .. q : LET i == 3 * (k - 1)
                           IN  Four(y, 4 * (k - 1), x[i + 1], x[i + 2], x[i + 3])
      /\ n = 3 * q + 1 => OneLeft(y, 4 * q, x[n])
      /\ n = 3 * q + 2 => TwoLeft(y, 4 * q, x[n - 1], x[n])
  BY <1>1, <1>2 DEF Encodes
<1>4. ASSUME NEW i \in 1 .. n PROVE x[i] \in Octet
  BY <1>1, ElementOfSeq
<1>5. ASSUME NEW i \in 1 .. 4 * q PROVE y[i] \in 0 .. 63
  <2>1. PICK k \in 1 .. q, j \in 1 .. 4 : i = 4 * (k - 1) + j
    <3>1. (i - 1) \div 4 + 1 \in 1 .. q /\ ((i - 1) % 4) + 1 \in 1 .. 4
      BY Z3
    <3>2. i = 4 * ((i - 1) \div 4 + 1 - 1) + (((i - 1) % 4) + 1)
      BY Z3
    <3> QED
      BY <3>1, <3>2
  <2>2. PICK h \in Nat : h = 3 * (k - 1) /\ h + 1 \in 1 .. n /\ h + 2 \in 1 .. n /\ h + 3 \in 1 .. n
    BY <1>2
  <2>3. Four(y, 4 * (k - 1), x[h + 1], x[h + 2], x[h + 3])
    BY <2>2, <1>3
  <2>4. x[h + 1] \in Octet /\ x[h + 2] \in Octet /\ x[h + 3] \in Octet
    BY <2>2, <1>4
  <2>5. /\ y[4 * (k - 1) + 1] \in 0 .. 63 /\ y[4 * (k - 1) + 2] \in 0 .. 63
        /\ y[4 * (k - 1) + 3] \in 0 .. 63 /\ y[4 * (k - 1) + 4] \in 0 .. 63
    BY <2>3, <2>4, FourSymbols
  <2>6. j = 1 \/ j = 2 \/ j = 3 \/ j = 4
    OBVIOUS
  <2> QED
    BY <2>1, <2>5, <2>6
<1>6. CASE n = 3 * q
  <2>1. Characters(n) = 4 * q /\ Len(y) = 4 * q
    <3>1. n % 3 = 0 /\ ((n + 2) \div 3) = q
      BY <1>6
    <3> QED
      BY <3>1, <1>2, <1>3 DEF Characters
  <2> QED
    BY <2>1, <1>1, <1>5 DEF Padded
<1>7. CASE n = 3 * q + 1
  <2>1. Characters(n) = 4 * q + 2 /\ Len(y) = 4 * q + 4
    <3>1. n % 3 = 1 /\ ((n + 2) \div 3) = q + 1
      BY <1>7
    <3> QED
      BY <3>1, <1>2, <1>3 DEF Characters
  <2>2. x[n] \in Octet
    BY <1>4, <1>7
  <2>3. y[4 * q + 1] \in 0 .. 63 /\ y[4 * q + 2] \in 0 .. 63 /\ y[4 * q + 3] = Pad /\ y[4 * q + 4] = Pad
    <3>1. OneLeft(y, 4 * q, x[n])
      BY <1>3, <1>7
    <3> QED
      BY <2>2, <3>1, OneLeftSymbols DEF OneLeft
  <2>4. \A i \in 1 .. 4 * q + 2 : i \in 1 .. 4 * q \/ i = 4 * q + 1 \/ i = 4 * q + 2
    OBVIOUS
  <2>5. \A i \in 4 * q + 2 + 1 .. 4 * q + 4 : i = 4 * q + 3 \/ i = 4 * q + 4
    OBVIOUS
  <2>6. 4 * q + 2 \in 0 .. 4 * q + 4
    OBVIOUS
  <2> QED
    BY <2>1, <2>3, <2>4, <2>5, <2>6, <1>1, <1>5 DEF Padded
<1>8. CASE n = 3 * q + 2
  <2>1. Characters(n) = 4 * q + 3 /\ Len(y) = 4 * q + 4
    <3>1. n % 3 = 2 /\ ((n + 2) \div 3) = q + 1
      BY <1>8
    <3> QED
      BY <3>1, <1>2, <1>3 DEF Characters
  <2>2. x[n] \in Octet /\ x[n - 1] \in Octet
    <3>1. n \in 1 .. n /\ n - 1 \in 1 .. n
      BY <1>8
    <3> QED
      BY <1>4, <3>1
  <2>3. /\ y[4 * q + 1] \in 0 .. 63 /\ y[4 * q + 2] \in 0 .. 63
        /\ y[4 * q + 3] \in 0 .. 63 /\ y[4 * q + 4] = Pad
    <3>1. TwoLeft(y, 4 * q, x[n - 1], x[n])
      BY <1>3, <1>8
    <3>2. y[4 * q + 1] \in 0 .. 63 /\ y[4 * q + 2] \in 0 .. 63 /\ y[4 * q + 3] \in 0 .. 63
      BY <2>2, <3>1, TwoLeftSymbols
    <3> QED
      BY <3>1, <3>2 DEF TwoLeft
  <2>4. \A i \in 1 .. 4 * q + 3 : i \in 1 .. 4 * q \/ i = 4 * q + 1 \/ i = 4 * q + 2 \/ i = 4 * q + 3
    OBVIOUS
  <2>5. \A i \in 4 * q + 3 + 1 .. 4 * q + 4 : i = 4 * q + 4
    OBVIOUS
  <2>6. 4 * q + 3 \in 0 .. 4 * q + 4
    OBVIOUS
  <2> QED
    BY <2>1, <2>3, <2>4, <2>5, <2>6, <1>1, <1>5 DEF Padded
<1> QED
  BY <1>2, <1>6, <1>7, <1>8

\* What the decoder counts and what it decodes, whatever the blocks it takes
DecodedGroups(y, g) ==
  FlattenSeq([k \in 1 .. g |-> LET i == 4 * (k - 1)
                               IN  Octets(y[i + 1], y[i + 2], y[i + 3], y[i + 4])])

\* The last character that is no pad.
LEMMA LastCharacter ==
  ASSUME NEW y, NEW m \in Nat, Padded(y, m), Len(y) \in Nat, DOMAIN y = 1 .. Len(y)
  PROVE  Max({0} \cup {i \in DOMAIN y : y[i] # Pad}) = m
<1> DEFINE S == {0} \cup {i \in DOMAIN y : y[i] # Pad}
<1>1. m \in S
  <2>1. m # 0 => m \in DOMAIN y /\ y[m] \in 0 .. 63
    BY DEF Padded
  <2>2. \A v \in 0 .. 63 : v # Pad
    BY DEF Pad
  <2> QED
    BY <2>1, <2>2
<1>2. \A j \in S : j \in Int /\ j <= m
  <2> TAKE j \in S
  <2>1. CASE j = 0
    BY <2>1
  <2>2. CASE j # 0
    <3>1. j \in 1 .. Len(y) /\ y[j] # Pad
      BY <2>2
    <3>2. j \notin m + 1 .. Len(y)
      BY <3>1 DEF Padded
    <3> QED
      BY <3>1, <3>2
  <2> QED
    BY <2>1, <2>2
<1> HIDE DEF S
<1>3. Max(S) = m
  BY <1>1, <1>2, GreatestIs
<1> QED
  BY <1>3 DEF S

Accepted(y, m, room) == room >= (m * 3) \div 4 /\ \A i \in 1 .. m : y[i] \in 0 .. 63
Foreign(y, m, g) == m - 4 * g # 1 /\ \E i \in 1 .. m : y[i] \notin 0 .. 63

Decoded(y, room, neon, m, g) ==
  DecodedText(y, room, neon) = DecodedGroups(y, g) \o DecodeTail(y, m, 4 * g)

\* What the decoder does with m characters: it refuses them for a foreign one, else it
\* decodes g groups and what is left.
LEMMA DecodeIs ==
  ASSUME NEW y, NEW m \in Nat, Max({0} \cup {i \in DOMAIN y : y[i] # Pad}) = m,
         NEW room \in Nat, NEW neon \in BOOLEAN, NEW g \in Nat, g = m \div 4
  PROVE  /\ Foreign(y, m, g) => DecodedText(y, room, neon) = <<>>
         /\ Accepted(y, m, room) => Decoded(y, room, neon, m, g)
<1>1. 4 * g <= m /\ m < 4 * g + 4
  BY Z3
<1> DEFINE blocks == IF neon THEN Whole(m, 4 * Triples) ELSE 0
           all == DecodedGroups(y, g) \o DecodeTail(y, m, 4 * g)
           read == IF m - 4 * g = 1 THEN 4 * g ELSE m
           bad == room < (m * 3) \div 4 \/ \E i \in 1 .. read : y[i] \notin 0 .. 63
<1>2. PICK u \in Nat : blocks = 4 * u /\ u <= g
  <2>1. CASE neon
    <3>1. PICK c \in Nat \ {0} : c = 4 * Triples
      BY TriplesAssumption
    <3>2. m \div c \in Nat /\ Whole(m, c) = (m \div c) * c /\ Whole(m, c) \in 0 .. m
      BY WholeIs
    <3>3. PICK k \in Nat : k = m \div c
      BY <3>2
    <3>4. k * (4 * Triples) = 4 * (k * Triples) /\ k * Triples \in Nat
      BY TriplesAssumption, Z3
    <3>5. 4 * (k * Triples) <= m
      BY <3>1, <3>2, <3>3, <3>4
    <3>6. k * Triples <= g
      BY <3>4, <3>5, <1>1
    <3> QED
      BY <2>1, <3>1, <3>2, <3>3, <3>4, <3>6
  <2>2. CASE ~neon
    BY <2>2
  <2> QED
    BY <2>1, <2>2
<1> HIDE DEF blocks
<1>3. blocks + Whole(m - blocks, 4) = 4 * g /\ (4 * g) \div 4 = g
  <2>1. (m - 4 * u) \div 4 = g - u /\ (4 * g) \div 4 = g
    BY <1>1, <1>2
  <2> QED
    BY <2>1, <1>2 DEF Whole
<1>4. DecodedText(y, room, neon) = IF bad THEN <<>> ELSE all
  BY <1>3 DEF DecodedText, blocks, DecodedGroups
<1> HIDE DEF all
<1>5. m - 4 * g # 1 => read = m
  OBVIOUS
<1>6. \A i \in 1 .. read : i \in 1 .. m
  BY <1>1
<1> HIDE DEF read
<1>7. ASSUME Foreign(y, m, g) PROVE bad
  BY <1>5, <1>7 DEF Foreign
<1>8. ASSUME Accepted(y, m, room) PROVE ~bad
  <2>1. ~(room < (m * 3) \div 4)
    BY <1>8 DEF Accepted
  <2> QED
    BY <1>6, <1>8, <2>1 DEF Accepted
<1> HIDE DEF bad
<1> QED
  BY <1>4, <1>7, <1>8 DEF all, Decoded

\* A group is decoded to its three bytes.
LEMMA OctetsThree ==
  ASSUME NEW y, NEW o, NEW a \in Octet, NEW b \in Octet, NEW c \in Octet, Four(y, o, a, b, c)
  PROVE  Octets(y[o + 1], y[o + 2], y[o + 3], y[o + 4]) = <<a, b, c>>
<1>1. PICK p, q, r, s : p = y[o + 1] /\ q = y[o + 2] /\ r = y[o + 3] /\ s = y[o + 4]
  OBVIOUS
<1>2. p = a \div 4 /\ q = (a % 4) * 16 + b \div 16 /\ r = (b % 16) * 4 + c \div 64 /\ s = c % 64
  BY <1>1 DEF Four
<1>3. p * 4 + q \div 16 = a /\ (q % 16) * 16 + r \div 4 = b /\ (r % 4) * 64 + s = c
  BY <1>2, OctetsAre
<1>4. Octets(p, q, r, s) = <<a, b, c>>
  BY <1>3 DEF Octets
<1> QED
  BY <1>1, <1>4

\* Whole triples and the rest.
LEMMA ThirdOf ==
  ASSUME NEW w \in Nat
  PROVE  \E h \in Nat, r \in 0 .. 2 : w = 3 * h + r
<1>1. w \div 3 \in Nat /\ w % 3 \in 0 .. 3 - 1 /\ w = (w \div 3) * 3 + (w % 3)
  BY UnitOf
<1>2. PICK h \in Nat : h = w \div 3
  BY <1>1
<1>3. PICK r \in 0 .. 2 : r = w % 3
  BY <1>1
<1>4. w = 3 * h + r
  <2>1. w = h * 3 + r
    BY <1>1, <1>2, <1>3
  <2>2. h * 3 = 3 * h
    OBVIOUS
  <2> QED
    BY <2>1, <2>2
<1> QED
  BY <1>4

\* The triple that a place lies in.
LEMMA PlaceInThree ==
  ASSUME NEW g \in Nat, NEW i \in 1 .. 3 * g
  PROVE  \E k \in 1 .. g, j \in 1 .. 3 : i = 3 * (k - 1) + j
<1>1. PICK w \in Nat : i = w + 1
  OBVIOUS
<1>3. PICK h \in Nat, r \in 0 .. 2 : w = 3 * h + r
  BY ThirdOf
<1>4. PICK k \in 1 .. g : k = h + 1
  BY <1>1, <1>3
<1>5. PICK j \in 1 .. 3 : j = r + 1
  OBVIOUS
<1>6. i = 3 * (k - 1) + j
  BY <1>1, <1>3, <1>4, <1>5
<1> QED
  BY <1>6

\* Groups that hold the encoding of the first triples are decoded to them
LEMMA GroupsDecoded ==
  ASSUME NEW x \in Seq(Octet), NEW y, NEW g \in Nat, 3 * g <= Len(x),
         \A k \in 1 .. g : LET i == 3 * (k - 1)
                           IN  Four(y, 4 * (k - 1), x[i + 1], x[i + 2], x[i + 3])
  PROVE  /\ DecodedGroups(y, g) \in Seq(Octet) /\ Len(DecodedGroups(y, g)) = 3 * g
         /\ \A i \in 1 .. 3 * g : DecodedGroups(y, g)[i] = x[i]
<1> DEFINE group(k) == LET i == 4 * (k - 1) IN Octets(y[i + 1], y[i + 2], y[i + 3], y[i + 4])
           seqs == [k \in 1 .. g |-> group(k)]
           z == FlattenSeq(seqs)
<1>1. Len(x) \in Nat /\ \A i \in 1 .. Len(x) : x[i] \in Octet
  BY LenProperties, ElementOfSeq
<1>2. ASSUME NEW k \in 1 .. g
      PROVE  /\ group(k) \in Seq(Octet) /\ Len(group(k)) = 3
             /\ \A j \in 1 .. 3 : group(k)[j] = x[3 * (k - 1) + j]
  <2>1. PICK i \in Nat : i = 3 * (k - 1) /\ i + 3 <= Len(x)
    BY <1>1
  <2>2. PICK o \in Nat : o = 4 * (k - 1)
    OBVIOUS
  <2>3. Four(y, o, x[i + 1], x[i + 2], x[i + 3])
    BY <2>1, <2>2
  <2>4. PICK a \in Octet, b \in Octet, c \in Octet : a = x[i + 1] /\ b = x[i + 2] /\ c = x[i + 3]
    <3>1. i + 1 \in 1 .. Len(x) /\ i + 2 \in 1 .. Len(x) /\ i + 3 \in 1 .. Len(x)
      BY <1>1, <2>1
    <3> QED
      BY <1>1, <3>1
  <2>5. group(k) = <<a, b, c>>
    <3>1. Four(y, o, a, b, c)
      BY <2>3, <2>4
    <3>2. Octets(y[o + 1], y[o + 2], y[o + 3], y[o + 4]) = <<a, b, c>>
      BY <3>1, OctetsThree
    <3> QED
      BY <2>2, <3>2
  <2>6. <<a, b, c>> \in Seq(Octet) /\ Len(<<a, b, c>>) = 3
    BY ThreeOf
  <2>7. <<a, b, c>>[1] = a /\ <<a, b, c>>[2] = b /\ <<a, b, c>>[3] = c
    OBVIOUS
  <2>8. \A j \in 1 .. 3 : j = 1 \/ j = 2 \/ j = 3
    OBVIOUS
  <2> HIDE DEF group
  <2> QED
    BY <2>1, <2>4, <2>5, <2>6, <2>7, <2>8
<1>3. DecodedGroups(y, g) = z
  BY DEF DecodedGroups
<1> HIDE DEF group
<1>4. seqs \in Seq(Seq(Octet)) /\ Len(seqs) = g /\ \A k \in 1 .. g : seqs[k] = group(k)
  <2>1. seqs \in [1 .. g -> Seq(Octet)]
    BY <1>2
  <2> QED
    BY <2>1, SeqDef, LenProperties
<1> HIDE DEF seqs
<1>5. z \in Seq(Octet) /\ Chunks(z, seqs, 3)
  <2>1. \A i \in 1 .. Len(seqs) : Len(seqs[i]) = 3
    BY <1>2, <1>4
  <2> QED
    BY <1>4, <2>1, FlattenChunks
<1> HIDE DEF z
<1>6. Len(z) = 3 * g
  BY <1>4, <1>5 DEF Chunks
<1>7. ASSUME NEW i \in 1 .. 3 * g PROVE z[i] = x[i]
  <2>1. PICK k \in 1 .. g, j \in 1 .. 3 : i = (k - 1) * 3 + j /\ i = 3 * (k - 1) + j
    <3>1. PICK k \in 1 .. g, j \in 1 .. 3 : i = 3 * (k - 1) + j
      BY PlaceInThree
    <3> QED
      BY <3>1
  <2>2. z[(k - 1) * 3 + j] = group(k)[j]
    BY <1>4, <1>5 DEF Chunks
  <2> QED
    BY <2>1, <2>2, <1>2
<1> QED
  BY <1>3, <1>5, <1>6, <1>7

\* The first one and the first two of three bytes.
LEMMA FirstOfThree ==
  ASSUME NEW a \in Octet, NEW b \in Octet, NEW c \in Octet
  PROVE  SubSeq(<<a, b, c>>, 1, 1) = <<a>> /\ SubSeq(<<a, b, c>>, 1, 2) = <<a, b>>
<1> DEFINE s == <<a, b, c>>
<1>1. s \in Seq(Octet) /\ Len(s) = 3 /\ s[1] = a /\ s[2] = b
  BY ThreeOf
<1>2. 0 + 1 = 1 /\ 0 + 2 = 2 /\ 0 \in Nat /\ 1 \in Nat /\ 2 \in Nat /\ 0 + 1 <= 3 /\ 0 + 2 <= 3
  OBVIOUS
<1> HIDE DEF s
<1>3. SubSeq(s, 1, 1) = <<a>>
  <2>1. PartOf(SubSeq(s, 0 + 1, 0 + 1), Octet, s, 0, 1)
    BY <1>1, <1>2, PartIs
  <2> DEFINE u == SubSeq(s, 1, 1)
             v == <<a>>
  <2>2. u \in Seq(Octet) /\ Len(u) = 1 /\ u[1] = a
    BY <2>1, <1>1, <1>2 DEF PartOf
  <2>3. v \in Seq(Octet) /\ Len(v) = 1 /\ v[1] = a
    BY OneOf
  <2> HIDE DEF u, v
  <2>4. u = v
    <3>1. \A i \in 1 .. 1 : i = 1
      OBVIOUS
    <3> QED
      BY <2>2, <2>3, <3>1, SeqEqual
  <2> QED
    BY <2>4 DEF u, v
<1>4. SubSeq(s, 1, 2) = <<a, b>>
  <2>1. PartOf(SubSeq(s, 0 + 1, 0 + 2), Octet, s, 0, 2)
    BY <1>1, <1>2, PartIs
  <2> DEFINE u == SubSeq(s, 1, 2)
             v == <<a, b>>
  <2>2. u \in Seq(Octet) /\ Len(u) = 2 /\ u[1] = a /\ u[2] = b
    BY <2>1, <1>1, <1>2 DEF PartOf
  <2>3. v \in Seq(Octet) /\ Len(v) = 2 /\ v[1] = a /\ v[2] = b
    BY TwoOf
  <2> HIDE DEF u, v
  <2>4. u = v
    <3>1. \A i \in 1 .. 2 : i = 1 \/ i = 2
      OBVIOUS
    <3> QED
      BY <2>2, <2>3, <3>1, SeqEqual
  <2> QED
    BY <2>4 DEF u, v
<1> QED
  BY <1>3, <1>4 DEF s

\* What is left over is decoded to the one or two bytes it stands for
LEMMA TailDecoded ==
  ASSUME NEW y, NEW o \in Nat, NEW a \in Octet, NEW b \in Octet
  PROVE  /\ DecodeTail(y, o, o) = <<>>
         /\ OneLeft(y, o, a) => DecodeTail(y, o + 2, o) = <<a>>
         /\ TwoLeft(y, o, a, b) => DecodeTail(y, o + 3, o) = <<a, b>>
<1>1. DecodeTail(y, o, o) = <<>>
  BY DEF DecodeTail
<1>2. ASSUME OneLeft(y, o, a) PROVE DecodeTail(y, o + 2, o) = <<a>>
  <2>1. o + 2 - o = 2 /\ o + 2 - 1 = o + 1
    OBVIOUS
  <2>2. DecodeTail(y, o + 2, o) = SubSeq(Octets(y[o + 1], y[o + 2], 0, 0), 1, 1)
    BY <2>1 DEF DecodeTail
  <2>3. PICK p, q : p = y[o + 1] /\ q = y[o + 2] /\ p = a \div 4 /\ q = (a % 4) * 16
    BY <1>2 DEF OneLeft
  <2>4. p * 4 + q \div 16 = a /\ (q % 16) * 16 + 0 \div 4 = 0 /\ (0 % 4) * 64 + 0 = 0
    BY <2>3 DEF Octet
  <2>5. Octets(p, q, 0, 0) = <<a, 0, 0>>
    BY <2>4 DEF Octets
  <2>6. 0 \in Octet
    BY DEF Octet
  <2> QED
    BY <2>2, <2>3, <2>5, <2>6, FirstOfThree
<1>3. ASSUME TwoLeft(y, o, a, b) PROVE DecodeTail(y, o + 3, o) = <<a, b>>
  <2>1. o + 3 - o = 3 /\ o + 3 - 1 = o + 2 /\ o + 3 - 2 = o + 1
    OBVIOUS
  <2>2. DecodeTail(y, o + 3, o) = SubSeq(Octets(y[o + 1], y[o + 2], y[o + 3], 0), 1, 2)
    BY <2>1 DEF DecodeTail
  <2>3. PICK p, q, r : /\ p = y[o + 1] /\ q = y[o + 2] /\ r = y[o + 3]
                       /\ p = a \div 4 /\ q = (a % 4) * 16 + b \div 16 /\ r = (b % 16) * 4
    BY <1>3 DEF TwoLeft
  <2>4. p * 4 + q \div 16 = a /\ (q % 16) * 16 + r \div 4 = b /\ (r % 4) * 64 + 0 = 0
    <3>1. 0 \in Octet /\ r = (b % 16) * 4 + 0 \div 64 /\ 0 = 0 % 64
      BY <2>3 DEF Octet
    <3> QED
      BY <2>3, <3>1, OctetsAre
  <2>5. Octets(p, q, r, 0) = <<a, b, 0>>
    BY <2>4 DEF Octets
  <2>6. 0 \in Octet
    BY DEF Octet
  <2> QED
    BY <2>2, <2>3, <2>5, <2>6, FirstOfThree
<1> QED
  BY <1>1, <1>2, <1>3

\* The three remainders.
LEMMA Thirds ==
  ASSUME NEW n \in Nat
  PROVE  \E q \in Nat : n = 3 * q \/ n = 3 * q + 1 \/ n = 3 * q + 2
<1>1. PICK q \in Nat, r \in 0 .. 2 : n = 3 * q + r
  BY ThirdOf
<1>2. r = 0 \/ r = 1 \/ r = 2
  OBVIOUS
<1>3. n = 3 * q \/ n = 3 * q + 1 \/ n = 3 * q + 2
  BY <1>1, <1>2
<1> QED
  BY <1>3

\* The characters of an encoding without its pads, for each remainder.
LEMMA CharactersAre ==
  ASSUME NEW n \in Nat, NEW q \in Nat, n = 3 * q \/ n = 3 * q + 1 \/ n = 3 * q + 2
  PROVE  /\ n \div 3 = q /\ Characters(n) \in Nat
         /\ Characters(n) \div 4 = q /\ (Characters(n) * 3) \div 4 = n
         /\ n = 3 * q => Characters(n) = 4 * q
         /\ n = 3 * q + 1 => Characters(n) = 4 * q + 2
         /\ n = 3 * q + 2 => Characters(n) = 4 * q + 3
<1>1. CASE n = 3 * q
  <2>1. n \div 3 = q /\ n % 3 = 0
    BY <1>1
  <2>2. PICK c \in Nat : c = Characters(n) /\ c = 4 * q
    BY <2>1 DEF Characters
  <2>3. c \div 4 = q /\ (c * 3) \div 4 = n
    BY <1>1, <2>2
  <2> QED
    BY <1>1, <2>1, <2>2, <2>3
<1>2. CASE n = 3 * q + 1
  <2>1. n \div 3 = q /\ n % 3 = 1
    BY <1>2
  <2>2. PICK c \in Nat : c = Characters(n) /\ c = 4 * q + 2
    BY <2>1 DEF Characters
  <2>3. c \div 4 = q /\ (c * 3) \div 4 = n
    BY <1>2, <2>2
  <2> QED
    BY <1>2, <2>1, <2>2, <2>3
<1>3. CASE n = 3 * q + 2
  <2>1. n \div 3 = q /\ n % 3 = 2
    BY <1>3
  <2>2. PICK c \in Nat : c = Characters(n) /\ c = 4 * q + 3
    BY <2>1 DEF Characters
  <2>3. c \div 4 = q /\ (c * 3) \div 4 = n
    BY <1>3, <2>2
  <2> QED
    BY <1>3, <2>1, <2>2, <2>3
<1> QED
  BY <1>1, <1>2, <1>3

\* What base64 writes is read back as it was, whatever blocks the two sides
\* take, in a buffer that has room for it.  DecodedText
LEMMA TextIsReadBack ==
  ASSUME NEW x \in Seq(Octet), NEW y, Encodes(y, x),
         NEW room \in Nat, room >= Len(x), NEW neon \in BOOLEAN
  PROVE  DecodedText(y, room, neon) = x
<1>1. PICK n \in Nat : n = Len(x)
  BY LenProperties
<1>2. PICK q \in Nat : n = 3 * q \/ n = 3 * q + 1 \/ n = 3 * q + 2
  BY Thirds
<1>3. /\ n \div 3 = q /\ Characters(n) \in Nat
      /\ Characters(n) \div 4 = q /\ (Characters(n) * 3) \div 4 = n
      /\ n = 3 * q => Characters(n) = 4 * q
      /\ n = 3 * q + 1 => Characters(n) = 4 * q + 2
      /\ n = 3 * q + 2 => Characters(n) = 4 * q + 3
  BY <1>2, CharactersAre
<1>4. PICK m \in Nat : m = Characters(n)
  BY <1>3
<1>5. Padded(y, m)
  BY <1>1, <1>4, EncodedIsPadded
<1>6. /\ y \in Seq(Symbol)
      /\ \A k \in 1 .. q : LET i == 3 * (k - 1)
                           IN  Four(y, 4 * (k - 1), x[i + 1], x[i + 2], x[i + 3])
      /\ n = 3 * q + 1 => OneLeft(y, 4 * q, x[n])
      /\ n = 3 * q + 2 => TwoLeft(y, 4 * q, x[n - 1], x[n])
  BY <1>1, <1>3 DEF Encodes
<1>7. Max({0} \cup {i \in DOMAIN y : y[i] # Pad}) = m
  <2>1. Len(y) \in Nat /\ DOMAIN y = 1 .. Len(y)
    BY <1>6, LenProperties
  <2> QED
    BY <1>5, <2>1, LastCharacter
<1> DEFINE z == DecodedGroups(y, q)
           t == DecodeTail(y, m, 4 * q)
<1>8. DecodedText(y, room, neon) = z \o t
  <2>1. q = m \div 4 /\ room >= (m * 3) \div 4
    BY <1>1, <1>3, <1>4
  <2>2. Accepted(y, m, room)
    BY <1>5, <2>1 DEF Padded, Accepted
  <2>3. Decoded(y, room, neon, m, q)
    BY <1>7, <2>1, <2>2, DecodeIs
  <2> QED
    BY <2>3 DEF Decoded
<1>9. z \in Seq(Octet) /\ Len(z) = 3 * q /\ \A i \in 1 .. 3 * q : z[i] = x[i]
  <2>1. 3 * q <= Len(x)
    BY <1>1, <1>2
  <2> QED
    BY <1>6, <2>1, GroupsDecoded
<1>10. \A i \in 1 .. n : x[i] \in Octet
  BY <1>1, ElementOfSeq
<1> DEFINE l == n - 3 * q
<1>11. t \in Seq(Octet) /\ Len(t) = l /\ \A i \in 1 .. l : t[i] = x[3 * q + i]
  <2>1. PICK o \in Nat : o = 4 * q
    OBVIOUS
  <2>2. CASE n = 3 * q
    <3>1. 0 \in Octet /\ m = o
      BY <2>1, <2>2, <1>3, <1>4 DEF Octet
    <3>2. t = <<>>
      BY <2>1, <3>1, TailDecoded
    <3> HIDE DEF t
    <3>3. \A i \in 1 .. l : FALSE
      BY <2>2
    <3> QED
      BY <2>2, <3>2, <3>3, EmptySeq
  <2>3. CASE n = 3 * q + 1
    <3>1. PICK a \in Octet : a = x[n]
      BY <2>3, <1>10
    <3>2. OneLeft(y, o, a) /\ m = o + 2
      BY <2>1, <2>3, <3>1, <1>3, <1>4, <1>6
    <3>3. t = <<a>>
      BY <2>1, <3>2, TailDecoded
    <3> HIDE DEF t
    <3>4. t \in Seq(Octet) /\ Len(t) = 1 /\ t[1] = a
      BY <3>3, OneOf
    <3>5. l = 1 /\ n = 3 * q + 1 /\ \A i \in 1 .. 1 : i = 1
      BY <2>3
    <3> HIDE DEF l
    <3> QED
      BY <3>1, <3>4, <3>5
  <2>4. CASE n = 3 * q + 2
    <3>1. PICK a \in Octet, b \in Octet : a = x[n - 1] /\ b = x[n]
      <4>1. n \in 1 .. n /\ n - 1 \in 1 .. n
        BY <2>4
      <4> QED
        BY <4>1, <1>10
    <3>2. TwoLeft(y, o, a, b) /\ m = o + 3
      BY <2>1, <2>4, <3>1, <1>3, <1>4, <1>6
    <3>3. t = <<a, b>>
      BY <2>1, <3>2, TailDecoded
    <3> HIDE DEF t
    <3>4. t \in Seq(Octet) /\ Len(t) = 2 /\ t[1] = a /\ t[2] = b
      BY <3>3, TwoOf
    <3>5. l = 2 /\ n - 1 = 3 * q + 1 /\ n = 3 * q + 2 /\ \A i \in 1 .. 2 : i = 1 \/ i = 2
      BY <2>4
    <3> HIDE DEF l
    <3> QED
      BY <3>1, <3>4, <3>5
  <2> HIDE DEF t, l
  <2> QED
    BY <2>2, <2>3, <2>4, <1>2
<1> HIDE DEF z, t
<1>12. z \o t = x
  <2>1. l \in Nat /\ 3 * q + l = n
    BY <1>2
  <2> HIDE DEF l
  <2>2. /\ z \o t \in Seq(Octet) /\ Len(z \o t) = n
        /\ \A i \in 1 .. n : (z \o t)[i] = IF i <= 3 * q THEN z[i] ELSE t[i - 3 * q]
    <3>1. /\ z \o t \in Seq(Octet) /\ Len(z \o t) = Len(z) + Len(t)
          /\ \A i \in 1 .. Len(z) + Len(t) :
               (z \o t)[i] = IF i <= Len(z) THEN z[i] ELSE t[i - Len(z)]
      BY <1>9, <1>11, ConcatProperties
    <3> QED
      BY <1>9, <1>11, <2>1, <3>1
  <2>3. ASSUME NEW i \in 1 .. n PROVE (z \o t)[i] = x[i]
    <3>1. CASE i <= 3 * q
      <4>1. i \in 1 .. 3 * q
        BY <3>1
      <4> QED
        BY <2>2, <3>1, <4>1, <1>9
    <3>2. CASE ~(i <= 3 * q)
      <4>1. PICK j \in 1 .. l : j = i - 3 * q /\ i = 3 * q + j
        BY <3>2, <2>1
      <4> QED
        BY <2>2, <3>2, <4>1, <1>11
    <3> QED
      BY <3>1, <3>2
  <2> DEFINE w == z \o t
  <2>4. w \in Seq(Octet) /\ Len(w) = Len(x) /\ \A i \in 1 .. Len(w) : w[i] = x[i]
    BY <2>2, <2>3, <1>1
  <2> HIDE DEF w
  <2>5. w = x
    BY <2>4, SeqEqual
  <2> QED
    BY <2>5 DEF w
<1> QED
  BY <1>8, <1>12

\* The table leaves a text of sextets and pads as it is.  base64_decode_table
LEMMA TableKeeps ==
  ASSUME NEW T, HighByte \notin T, NEW y \in Seq(T), NEW room, NEW neon
  PROVE  asm_opt_base64_decode(y, room, neon) = DecodedText(y, room, neon)
<1>1. /\ Len(y) \in Nat /\ DOMAIN y = 1 .. Len(y) /\ y = [i \in 1 .. Len(y) |-> y[i]]
      /\ \A i \in 1 .. Len(y) : y[i] \in T
  BY LenProperties, ElementOfSeq
<1>2. \A i \in DOMAIN y : base64_decode_table(y[i]) = y[i]
  BY <1>1 DEF base64_decode_table
<1>3. [i \in DOMAIN y |-> base64_decode_table(y[i])] = y
  BY <1>1, <1>2
<1> QED
  BY <1>3 DEF asm_opt_base64_decode

\* What base64 writes is read back as it was, whatever blocks the two sides
\* take, in a buffer that has room for it.  asm_opt_base64_decode
THEOREM DecodeUndoesEncode ==
  ASSUME NEW x \in Seq(Octet), NEW y, Encodes(y, x),
         NEW room \in Nat, room >= Len(x), NEW neon \in BOOLEAN
  PROVE  asm_opt_base64_decode(y, room, neon) = x
<1>1. y \in Seq(Symbol) /\ HighByte \notin Symbol
  BY DEF Encodes, Symbol, HighByte
<1>2. asm_opt_base64_decode(y, room, neon) = DecodedText(y, room, neon)
  BY <1>1, TableKeeps
<1> QED
  BY <1>2, TextIsReadBack

\* A character of the encoding that is exchanged for one the table has -1 for
\* makes the decoder refuse the whole text, wherever it stands in the blocks.
\* DecodedText
LEMMA ForeignTextIsRefused ==
  ASSUME NEW x \in Seq(Octet), NEW y, Encodes(y, x), NEW i \in DOMAIN y, y[i] # Pad,
         NEW c \in Int, c \notin Symbol, NEW room \in Nat, NEW neon \in BOOLEAN
  PROVE  DecodedText([y EXCEPT ![i] = c], room, neon) = <<>>
<1>1. PICK n \in Nat : n = Len(x)
  BY LenProperties
<1>2. PICK q \in Nat : n = 3 * q \/ n = 3 * q + 1 \/ n = 3 * q + 2
  BY Thirds
<1>3. PICK m \in Nat : m = Characters(n)
  BY <1>2, CharactersAre
<1>4. m \div 4 = q /\ m - 4 * q # 1
  <2>1. /\ m \div 4 = q
        /\ n = 3 * q => m = 4 * q
        /\ n = 3 * q + 1 => m = 4 * q + 2
        /\ n = 3 * q + 2 => m = 4 * q + 3
    BY <1>2, <1>3, CharactersAre
  <2>2. m = 4 * q \/ m = 4 * q + 2 \/ m = 4 * q + 3
    BY <2>1, <1>2
  <2> QED
    BY <2>1, <2>2
<1>5. Padded(y, m)
  BY <1>1, <1>3, EncodedIsPadded
<1>6. y \in Seq(Symbol) /\ Len(y) \in Nat /\ DOMAIN y = 1 .. Len(y)
  BY LenProperties DEF Encodes
<1> DEFINE z == [y EXCEPT ![i] = c]
<1>7. DOMAIN z = DOMAIN y /\ z[i] = c /\ \A j \in DOMAIN y : j # i => z[j] = y[j]
  BY <1>6
<1> HIDE DEF z
<1>8. c # Pad /\ c \notin 0 .. 63
  BY DEF Symbol, Pad
<1>9. {j \in DOMAIN z : z[j] # Pad} = {j \in DOMAIN y : y[j] # Pad}
  BY <1>7, <1>8
<1>10. Max({0} \cup {j \in DOMAIN z : z[j] # Pad}) = m
  BY <1>5, <1>6, <1>9, LastCharacter
<1>11. i \in 1 .. m
  <2>1. i \notin m + 1 .. Len(y)
    BY <1>5 DEF Padded
  <2> QED
    BY <2>1, <1>6
<1>12. DecodedText(z, room, neon) = <<>>
  <2>1. Foreign(z, m, q)
    BY <1>4, <1>7, <1>8, <1>11 DEF Foreign
  <2> QED
    BY <1>4, <1>10, <2>1, DecodeIs
<1> QED
  BY <1>12 DEF z

\* The decoder refuses a text of the encoder in which one character, wherever it
\* stands in the blocks, was exchanged for one below 0xE0 that is no symbol.
\* asm_opt_base64_decode
THEOREM ForeignIsRefused ==
  ASSUME NEW x \in Seq(Octet), NEW y, Encodes(y, x), NEW i \in DOMAIN y, y[i] # Pad,
         NEW c \in Int, c \notin Symbol, c # HighByte, NEW room \in Nat, NEW neon \in BOOLEAN
  PROVE  asm_opt_base64_decode([y EXCEPT ![i] = c], room, neon) = <<>>
<1> DEFINE T == Symbol \cup {c}
           z == [y EXCEPT ![i] = c]
<1>1. y \in Seq(Symbol) /\ HighByte \notin T
  BY DEF Encodes, Symbol, HighByte
<1>2. /\ Len(y) \in Nat /\ DOMAIN y = 1 .. Len(y) /\ y = [j \in 1 .. Len(y) |-> y[j]]
      /\ \A j \in 1 .. Len(y) : y[j] \in Symbol
  BY <1>1, LenProperties, ElementOfSeq
<1>3. z = [j \in 1 .. Len(y) |-> IF j = i THEN c ELSE y[j]]
  BY <1>2
<1>4. z \in [1 .. Len(y) -> T]
  <2> HIDE DEF z
  <2> QED
    BY <1>2, <1>3
<1> HIDE DEF z, T
<1>5. z \in Seq(T)
  BY <1>2, <1>4, SeqDef
<1>6. asm_opt_base64_decode(z, room, neon) = DecodedText(z, room, neon)
  BY <1>1, <1>5, TableKeeps
<1> QED
  BY <1>6, ForeignTextIsRefused DEF z

\* The decoder does not tell a byte from 0xE0 on at i from a 0 there
HighLikeZero(y, i, room, neon) ==
  asm_opt_base64_decode([y EXCEPT ![i] = HighByte], room, neon)
    = asm_opt_base64_decode([y EXCEPT ![i] = 0], room, neon)

\* A byte from 0xE0 on reads as the character of sextet 0.  base64_decode_table
LEMMA HighIsZero ==
  ASSUME NEW T, NEW y \in Seq(T), NEW i \in DOMAIN y, NEW room, NEW neon
  PROVE  HighLikeZero(y, i, room, neon)
<1> DEFINE high == [y EXCEPT ![i] = HighByte]
           zero == [y EXCEPT ![i] = 0]
<1>1. y = [j \in DOMAIN y |-> y[j]]
  BY LenProperties
<1>2. /\ DOMAIN high = DOMAIN y /\ DOMAIN zero = DOMAIN y /\ high[i] = HighByte /\ zero[i] = 0
      /\ \A j \in DOMAIN y : j # i => high[j] = y[j] /\ zero[j] = y[j]
  BY <1>1
<1> HIDE DEF high, zero
<1>3. base64_decode_table(HighByte) = 0 /\ base64_decode_table(0) = 0
  BY DEF base64_decode_table, HighByte
<1>4. \A j \in DOMAIN y : base64_decode_table(high[j]) = base64_decode_table(zero[j])
  BY <1>2, <1>3
<1>5. [j \in DOMAIN high |-> base64_decode_table(high[j])]
        = [j \in DOMAIN zero |-> base64_decode_table(zero[j])]
  BY <1>2, <1>4
<1>6. asm_opt_base64_decode(high, room, neon) = asm_opt_base64_decode(zero, room, neon)
  BY <1>5 DEF asm_opt_base64_decode
<1> QED
  BY <1>6 DEF high, zero, HighLikeZero

-----------------------------------------------------------------------------
(* URLs                                                                    *)

\* An escape is three characters and stands for a number.
LEMMA EscapedType ==
  ASSUME NEW t \in Seq(Int), NEW i \in 1 .. Len(t), EscapeAt(t, i)
  PROVE  i + 2 <= Len(t) /\ t[i] = Percent /\ Escaped(t, i) \in Int
<1>1. Len(t) \in Nat
  BY LenProperties
<1>2. i + 2 <= Len(t) /\ t[i] = Percent /\ HexValue(t[i + 1]) >= 0 /\ HexValue(t[i + 2]) >= 0
  BY DEF EscapeAt
<1>3. ASSUME NEW c \in Int PROVE HexValue(c) \in Int
  <2>1. c - 48 \in Int /\ c - 55 \in Int /\ c - 87 \in Int /\ -1 \in Int
    OBVIOUS
  <2>2. CASE c \in 48 .. 57
    BY <2>1, <2>2 DEF HexValue
  <2>3. CASE c \in 65 .. 70
    <3>1. c \notin 48 .. 57 /\ c \notin 97 .. 102
      BY <2>3
    <3> QED
      BY <2>1, <2>3, <3>1 DEF HexValue
  <2>4. CASE c \in 97 .. 102
    <3>1. c \notin 48 .. 57 /\ c \notin 65 .. 70
      BY <2>4
    <3> QED
      BY <2>1, <2>4, <3>1 DEF HexValue
  <2>5. CASE c \notin 48 .. 57 /\ c \notin 65 .. 70 /\ c \notin 97 .. 102
    BY <2>1, <2>5 DEF HexValue
  <2> QED
    BY <2>2, <2>3, <2>4, <2>5
<1>4. t[i + 1] \in Int /\ t[i + 2] \in Int
  <2>1. i + 1 \in 1 .. Len(t) /\ i + 2 \in 1 .. Len(t)
    BY <1>1, <1>2
  <2> QED
    BY <2>1, ElementOfSeq
<1>5. HexValue(t[i + 1]) \in Int /\ HexValue(t[i + 2]) \in Int
  BY <1>3, <1>4
<1>6. Escaped(t, i) = 16 * HexValue(t[i + 1]) + HexValue(t[i + 2])
  BY DEF Escaped
<1>7. \A p, q \in Int : 16 * p + q \in Int
  OBVIOUS
<1> QED
  BY <1>2, <1>5, <1>6, <1>7

\* The text decoded by how many characters remain
UrlStep(t, f, k) ==
  LET i == Len(t) - k + 1
  IN  IF EscapeAt(t, i) THEN <<Escaped(t, i)>> \o f[k - 3] ELSE <<t[i]>> \o f[k - 1]

UrlSteps(f, t) ==
  /\ f[0] = <<>>
  /\ \A k \in 1 .. Len(t) : f[k] = UrlStep(t, f, k)

\* A step of the decoding writes numbers.
LEMMA UrlStepType ==
  ASSUME NEW t \in Seq(Int), NEW k \in 1 .. Len(t), NEW f,
         \A j \in 0 .. k - 1 : f[j] \in Seq(Int)
  PROVE  UrlStep(t, f, k) \in Seq(Int)
<1>1. PICK i \in 1 .. Len(t) : i = Len(t) - k + 1
  <2>1. PICK n \in Nat : n = Len(t)
    BY LenProperties
  <2>2. n - k + 1 \in 1 .. n
    BY <2>1
  <2> QED
    BY <2>1, <2>2
<1>2. CASE EscapeAt(t, i)
  <2>1. k - 3 \in 0 .. k - 1 /\ Escaped(t, i) \in Int
    BY <1>1, <1>2, EscapedType, LenProperties
  <2>2. PICK s \in Seq(Int) : s = f[k - 3]
    BY <2>1
  <2>3. PICK e \in Int : e = Escaped(t, i)
    BY <2>1
  <2>4. <<e>> \o s \in Seq(Int)
    BY OneOf, ConcatProperties
  <2> QED
    BY <1>1, <1>2, <2>2, <2>3, <2>4 DEF UrlStep
<1>3. CASE ~EscapeAt(t, i)
  <2>1. k - 1 \in 0 .. k - 1
    OBVIOUS
  <2>2. PICK s \in Seq(Int) : s = f[k - 1]
    BY <2>1
  <2>3. PICK e \in Int : e = t[i]
    BY ElementOfSeq
  <2>4. <<e>> \o s \in Seq(Int)
    BY OneOf, ConcatProperties
  <2> QED
    BY <1>1, <1>3, <2>2, <2>3, <2>4 DEF UrlStep
<1> QED
  BY <1>2, <1>3

\* Two ways to decode look at the same characters
LEMMA UrlStepSame ==
  ASSUME NEW t \in Seq(Int), NEW k \in 1 .. Len(t), NEW f, NEW h,
         \A j \in 0 .. k - 1 : f[j] = h[j]
  PROVE  UrlStep(t, f, k) = UrlStep(t, h, k)
<1>1. PICK i \in 1 .. Len(t) : i = Len(t) - k + 1
  <2>1. PICK n \in Nat : n = Len(t)
    BY LenProperties
  <2>2. n - k + 1 \in 1 .. n
    BY <2>1
  <2> QED
    BY <2>1, <2>2
<1>2. CASE EscapeAt(t, i)
  <2>1. k - 3 \in 0 .. k - 1
    BY <1>1, <1>2, EscapedType, LenProperties
  <2>2. f[k - 3] = h[k - 3]
    BY <2>1
  <2> QED
    BY <1>1, <1>2, <2>2 DEF UrlStep
<1>3. CASE ~EscapeAt(t, i)
  <2>1. k - 1 \in 0 .. k - 1
    OBVIOUS
  <2>2. f[k - 1] = h[k - 1]
    BY <2>1
  <2> QED
    BY <1>1, <1>3, <2>2 DEF UrlStep
<1> QED
  BY <1>2, <1>3

\* There is a decoding of every end of a text.
LEMMA UrlExists ==
  ASSUME NEW t \in Seq(Int)
  PROVE  \E f \in [0 .. Len(t) -> Seq(Int)] : UrlSteps(f, t)
<1> DEFINE n == Len(t)
           X == Seq(Int)
           G == [k \in Nat |-> [f \in [Nat -> X] |-> IF k \in 1 .. n THEN UrlStep(t, f, k) ELSE <<>>]]
<1>1. n \in Nat
  BY LenProperties
<1>2. ASSUME NEW k \in Nat, NEW f \in [Nat -> X]
      PROVE  G[k][f] = (IF k \in 1 .. n THEN UrlStep(t, f, k) ELSE <<>>)
  OBVIOUS
<1> HIDE DEF G
<1>3. <<>> \in X
  BY EmptySeq
<1>4. StaysIn(G, X)
  <2>1. ASSUME NEW k \in Nat, NEW f \in [Nat -> X] PROVE G[k][f] \in X
    <3>1. CASE k \in 1 .. n
      <4>1. \A j \in 0 .. k - 1 : f[j] \in Seq(Int)
        OBVIOUS
      <4>2. UrlStep(t, f, k) \in Seq(Int)
        BY <3>1, <4>1, UrlStepType
      <4> QED
        BY <1>2, <3>1, <4>2
    <3>2. CASE k \notin 1 .. n
      BY <1>2, <1>3, <3>2
    <3> QED
      BY <3>1, <3>2
  <2> HIDE DEF X
  <2> QED
    BY <2>1 DEF StaysIn
<1>5. LooksBelow(G, X)
  <2>1. ASSUME NEW k \in Nat, NEW f \in [Nat -> X], NEW h \in [Nat -> X],
               \A j \in 0 .. k - 1 : f[j] = h[j]
        PROVE  G[k][f] = G[k][h]
    <3>1. CASE k \in 1 .. n
      <4>1. UrlStep(t, f, k) = UrlStep(t, h, k)
        BY <2>1, <3>1, UrlStepSame
      <4> QED
        BY <1>2, <3>1, <4>1
    <3>2. CASE k \notin 1 .. n
      BY <1>2, <3>2
    <3> QED
      BY <3>1, <3>2
  <2> HIDE DEF X
  <2> QED
    BY <2>1 DEF LooksBelow
<1>6. PICK h \in [Nat -> X] : Solution(h, G)
  <2> HIDE DEF X
  <2> QED
    BY <1>3, <1>4, <1>5, CourseOfValues
<1>7. \A k \in Nat : h[k] = IF k \in 1 .. n THEN UrlStep(t, h, k) ELSE <<>>
  BY <1>2, <1>6 DEF Solution
<1> DEFINE f == [k \in 0 .. n |-> h[k]]
<1>8. f \in [0 .. n -> X] /\ \A k \in 0 .. n : f[k] = h[k]
  BY <1>1
<1> HIDE DEF f
<1>9. f[0] = <<>>
  <2>1. 0 \in 0 .. n /\ 0 \in Nat /\ 0 \notin 1 .. n
    BY <1>1
  <2> QED
    BY <2>1, <1>7, <1>8
<1>10. ASSUME NEW k \in 1 .. n PROVE f[k] = UrlStep(t, f, k)
  <2>1. k \in Nat /\ k \in 0 .. n /\ \A j \in 0 .. k - 1 : j \in 0 .. n
    BY <1>1
  <2>2. UrlStep(t, h, k) = UrlStep(t, f, k)
    <3>1. \A j \in 0 .. k - 1 : h[j] = f[j]
      BY <1>8, <2>1
    <3> QED
      BY <3>1, UrlStepSame
  <2> QED
    BY <1>7, <1>8, <2>1, <2>2
<1> QED
  BY <1>8, <1>9, <1>10 DEF UrlSteps

\* The recursive definitions have such steps
LEMMA UrlReads ==
  ASSUME NEW t \in Seq(Int)
  PROVE  \E f : UrlSteps(f, t) /\ UrlText(t) = f[Len(t)]
<1> DEFINE n == Len(t)
           Solves(f) == f = [k \in 0 .. n |->
                               LET i == n - k + 1
                               IN IF k = 0 THEN <<>>
                                  ELSE IF EscapeAt(t, i) THEN <<Escaped(t, i)>> \o f[k - 3]
                                  ELSE <<t[i]>> \o f[k - 1]]
<1>1. n \in Nat
  BY LenProperties
<1>2. PICK F \in [0 .. n -> Seq(Int)] : UrlSteps(F, t)
  BY UrlExists
<1>3. Solves(F)
  <2>1. F[0] = <<>> /\ \A k \in 1 .. n : F[k] = UrlStep(t, F, k)
    BY <1>2 DEF UrlSteps
  <2>2. ASSUME NEW k \in 0 .. n
        PROVE  F[k] = LET i == n - k + 1
                      IN IF k = 0 THEN <<>>
                         ELSE IF EscapeAt(t, i) THEN <<Escaped(t, i)>> \o F[k - 3]
                         ELSE <<t[i]>> \o F[k - 1]
    <3>1. k = 0 \/ k \in 1 .. n
      BY <1>1
    <3> QED
      BY <2>1, <3>1 DEF UrlStep
  <2> QED
    BY <1>2, <2>2
<1>4. PICK f : Solves(f) /\ UrlText(t) = f[n]
  <2>1. UrlText(t) = (CHOOSE f : Solves(f))[n]
    BY DEF UrlText
  <2>2. Solves(CHOOSE f : Solves(f))
    BY <1>3
  <2> QED
    BY <2>1, <2>2
<1>5. f[0] = <<>>
  <2>1. 0 \in 0 .. n
    BY <1>1
  <2> QED
    BY <1>4, <2>1
<1>6. ASSUME NEW k \in 1 .. n PROVE f[k] = UrlStep(t, f, k)
  <2>1. k \in 0 .. n /\ k # 0
    BY <1>1
  <2> QED
    BY <1>4, <2>1 DEF UrlStep
<1> QED
  BY <1>4, <1>5, <1>6 DEF UrlSteps

\* The character loop computes it, up to the room there is.
LEMMA DecodeReads ==
  ASSUME NEW t \in Seq(Int), \A i \in 1 .. Len(t) : t[i] # Plus, NEW room
  PROVE  \E f : /\ UrlSteps(f, t)
                /\ DecodeChars(t, room) = SubSeq(f[Len(t)], 1, Min({Len(f[Len(t)]), room}))
<1> DEFINE n == Len(t)
           Solves(f) == f = [k \in 0 .. n |->
                               LET i == n - k + 1
                               IN IF k = 0 THEN <<>>
                                  ELSE IF EscapeAt(t, i) THEN <<Escaped(t, i)>> \o f[k - 3]
                                  ELSE <<IF t[i] = Plus THEN Space ELSE t[i]>> \o f[k - 1]]
<1>1. n \in Nat
  BY LenProperties
<1>2. PICK F \in [0 .. n -> Seq(Int)] : UrlSteps(F, t)
  BY UrlExists
<1>3. ASSUME NEW k \in 1 .. n
      PROVE  (IF t[n - k + 1] = Plus THEN Space ELSE t[n - k + 1]) = t[n - k + 1]
  <2>1. n - k + 1 \in 1 .. n
    BY <1>1
  <2> QED
    BY <2>1
<1>4. Solves(F)
  <2>1. F[0] = <<>> /\ \A k \in 1 .. n : F[k] = UrlStep(t, F, k)
    BY <1>2 DEF UrlSteps
  <2>2. ASSUME NEW k \in 0 .. n
        PROVE  F[k] = LET i == n - k + 1
                      IN IF k = 0 THEN <<>>
                         ELSE IF EscapeAt(t, i) THEN <<Escaped(t, i)>> \o F[k - 3]
                         ELSE <<IF t[i] = Plus THEN Space ELSE t[i]>> \o F[k - 1]
    <3>1. k = 0 \/ k \in 1 .. n
      BY <1>1
    <3> QED
      BY <2>1, <3>1, <1>3 DEF UrlStep
  <2> QED
    BY <1>2, <2>2
<1>5. PICK f : Solves(f) /\ DecodeChars(t, room) = SubSeq(f[n], 1, Min({Len(f[n]), room}))
  <2> DEFINE f == CHOOSE f : Solves(f)
  <2>1. DecodeChars(t, room) = SubSeq(f[n], 1, Min({Len(f[n]), room}))
    BY DEF DecodeChars
  <2>2. Solves(f)
    BY <1>4
  <2> HIDE DEF f
  <2> QED
    BY <2>1, <2>2
<1>6. f[0] = <<>>
  <2>1. 0 \in 0 .. n
    BY <1>1
  <2> QED
    BY <1>5, <2>1
<1>7. ASSUME NEW k \in 1 .. n PROVE f[k] = UrlStep(t, f, k)
  <2>1. k \in 0 .. n /\ k # 0
    BY <1>1
  <2> QED
    BY <1>3, <1>5, <2>1 DEF UrlStep
<1> QED
  BY <1>5, <1>6, <1>7 DEF UrlSteps

\* An escape is one wherever the text starts
LEMMA EscapeMoved ==
  ASSUME NEW t, NEW s, NEW p \in Nat, NEW m \in Nat, PartOf(s, Int, t, p, m),
         Len(t) = p + m, NEW i \in 1 .. m
  PROVE  /\ EscapeAt(s, i) <=> EscapeAt(t, p + i)
         /\ EscapeAt(s, i) => Escaped(s, i) = Escaped(t, p + i)
         /\ s[i] = t[p + i]
<1>1. Len(s) = m /\ \A j \in 1 .. m : s[j] = t[p + j]
  BY DEF PartOf
<1>2. i + 2 <= Len(s) <=> p + i + 2 <= Len(t)
  BY <1>1
<1>3. s[i] = t[p + i]
  BY <1>1
<1>4. ASSUME i + 2 <= Len(s) PROVE s[i + 1] = t[p + i + 1] /\ s[i + 2] = t[p + i + 2]
  <2>1. i + 1 \in 1 .. m /\ i + 2 \in 1 .. m /\ p + (i + 1) = p + i + 1 /\ p + (i + 2) = p + i + 2
    BY <1>1, <1>4
  <2> QED
    BY <1>1, <2>1
<1>5. EscapeAt(s, i) <=> EscapeAt(t, p + i)
  BY <1>2, <1>3, <1>4 DEF EscapeAt
<1>6. EscapeAt(s, i) => Escaped(s, i) = Escaped(t, p + i)
  BY <1>4 DEF EscapeAt, Escaped
<1> QED
  BY <1>3, <1>5, <1>6

\* What is decoded from a place on does not depend on what is in front of it
LEMMA StepsAgree ==
  ASSUME NEW t \in Seq(Int), NEW s \in Seq(Int), NEW p \in Nat, NEW m \in Nat,
         PartOf(s, Int, t, p, m), Len(t) = p + m,
         NEW f, UrlSteps(f, t), NEW g, UrlSteps(g, s), NEW k \in 0 .. m
  PROVE  f[k] = g[k]
<1> DEFINE C == {j \in 0 .. m : f[j] # g[j]}
<1>1. SUFFICES ASSUME C # {} PROVE FALSE
  OBVIOUS
<1>2. C \in SUBSET Nat
  OBVIOUS
<1>3. PICK c \in C : \A j \in C : c <= j
  BY <1>1, <1>2, LeastNumber
<1>4. c \in 0 .. m /\ f[c] # g[c]
  OBVIOUS
<1>5. Len(s) = m
  BY DEF PartOf
<1>6. c # 0
  BY <1>4 DEF UrlSteps
<1>7. ASSUME NEW j \in 0 .. c - 1 PROVE f[j] = g[j]
  <2>1. j \in 0 .. m /\ ~(c <= j)
    BY <1>4
  <2> QED
    BY <1>3, <2>1
<1>8. c \in 1 .. Len(t) /\ c \in 1 .. Len(s)
  BY <1>4, <1>5, <1>6
<1>9. f[c] = UrlStep(t, f, c) /\ g[c] = UrlStep(s, g, c)
  BY <1>8 DEF UrlSteps
<1> HIDE DEF C
<1>10. UrlStep(t, f, c) = UrlStep(t, g, c)
  BY <1>7, <1>8, UrlStepSame
<1>11. PICK i \in 1 .. m : i = m - c + 1 /\ (p + m) - c + 1 = p + i
  <2>1. PICK i \in 1 .. m : i = m - c + 1
    BY <1>4, <1>6
  <2>2. (p + m) - c + 1 = p + i
    BY <1>4, <2>1
  <2> QED
    BY <2>1, <2>2
<1>12. UrlStep(t, g, c) = UrlStep(s, g, c)
  <2>1. /\ EscapeAt(s, i) <=> EscapeAt(t, p + i)
        /\ EscapeAt(s, i) => Escaped(s, i) = Escaped(t, p + i)
        /\ s[i] = t[p + i]
    BY EscapeMoved
  <2>2. UrlStep(t, g, c) = IF EscapeAt(t, p + i) THEN <<Escaped(t, p + i)>> \o g[c - 3]
                           ELSE <<t[p + i]>> \o g[c - 1]
    BY <1>11 DEF UrlStep
  <2>3. UrlStep(s, g, c) = IF EscapeAt(s, i) THEN <<Escaped(s, i)>> \o g[c - 3]
                           ELSE <<s[i]>> \o g[c - 1]
    BY <1>5, <1>11 DEF UrlStep
  <2>4. CASE EscapeAt(s, i)
    <3>1. Escaped(s, i) = Escaped(t, p + i) /\ EscapeAt(t, p + i)
      BY <2>1, <2>4
    <3>2. UrlStep(t, g, c) = <<Escaped(t, p + i)>> \o g[c - 3]
      BY <2>2, <3>1
    <3>3. UrlStep(s, g, c) = <<Escaped(s, i)>> \o g[c - 3]
      BY <2>3, <2>4
    <3> QED
      BY <3>1, <3>2, <3>3
  <2>5. CASE ~EscapeAt(s, i)
    <3>1. s[i] = t[p + i] /\ ~EscapeAt(t, p + i)
      BY <2>1, <2>5
    <3>2. UrlStep(t, g, c) = <<t[p + i]>> \o g[c - 1]
      BY <2>2, <3>1
    <3>3. UrlStep(s, g, c) = <<s[i]>> \o g[c - 1]
      BY <2>3, <2>5
    <3> QED
      BY <3>1, <3>2, <3>3
  <2> QED
    BY <2>4, <2>5
<1> QED
  BY <1>4, <1>9, <1>10, <1>12

\* What is decoded is no longer than what it is decoded from
LEMMA OneInFront ==
  ASSUME NEW e \in Int, NEW s \in Seq(Int)
  PROVE  /\ <<e>> \o s \in Seq(Int) /\ Len(<<e>> \o s) = Len(s) + 1
         /\ (<<e>> \o s)[1] = e /\ \A i \in 1 .. Len(s) : (<<e>> \o s)[i + 1] = s[i]
<1> DEFINE u == <<e>>
           v == u \o s
<1>1. u \in Seq(Int) /\ Len(u) = 1 /\ u[1] = e
  BY OneOf
<1> HIDE DEF u
<1>2. Len(s) \in Nat
  BY LenProperties
<1>3. /\ v \in Seq(Int) /\ Len(v) = 1 + Len(s)
      /\ \A i \in 1 .. 1 + Len(s) : v[i] = IF i <= 1 THEN u[i] ELSE s[i - 1]
  <2>1. /\ v \in Seq(Int) /\ Len(v) = Len(u) + Len(s)
        /\ \A i \in 1 .. Len(u) + Len(s) : v[i] = IF i <= Len(u) THEN u[i] ELSE s[i - Len(u)]
    BY <1>1, ConcatProperties
  <2> HIDE DEF v
  <2> QED
    BY <1>1, <2>1
<1> HIDE DEF v
<1>4. Len(v) = Len(s) + 1 /\ v[1] = e
  BY <1>1, <1>2, <1>3
<1>5. ASSUME NEW i \in 1 .. Len(s) PROVE v[i + 1] = s[i]
  <2>1. i + 1 \in 1 .. 1 + Len(s) /\ ~(i + 1 <= 1) /\ i + 1 - 1 = i
    BY <1>2
  <2> QED
    BY <1>3, <2>1
<1> QED
  BY <1>3, <1>4, <1>5 DEF u, v

\* It is no longer than what it decodes.
LEMMA DecodedLength ==
  ASSUME NEW t \in Seq(Int), NEW f, UrlSteps(f, t), NEW k \in 0 .. Len(t)
  PROVE  f[k] \in Seq(Int) /\ Len(f[k]) <= k
<1> DEFINE Good(j) == f[j] \in Seq(Int) /\ Len(f[j]) <= j
           C == {j \in 0 .. Len(t) : ~Good(j)}
<1>1. SUFFICES ASSUME C # {} PROVE FALSE
  OBVIOUS
<1>2. PICK n \in Nat : n = Len(t)
  BY LenProperties
<1>3. C \in SUBSET Nat
  BY <1>2
<1>4. PICK c \in C : \A j \in C : c <= j
  BY <1>1, <1>3, LeastNumber
<1>5. c \in 0 .. n /\ ~Good(c)
  BY <1>2
<1>6. c # 0
  <2>1. f[0] = <<>>
    BY DEF UrlSteps
  <2>2. Good(0)
    BY <2>1, EmptySeq
  <2> QED
    BY <1>5, <2>2
<1>7. ASSUME NEW j \in 0 .. c - 1 PROVE Good(j)
  <2>1. j \in 0 .. Len(t) /\ ~(c <= j)
    BY <1>2, <1>5
  <2> QED
    BY <1>4, <2>1
<1>8. f[c] = UrlStep(t, f, c)
  BY <1>2, <1>5, <1>6 DEF UrlSteps
<1> HIDE DEF C
<1>9. PICK i \in 1 .. Len(t) : i = Len(t) - c + 1
  <2>1. n - c + 1 \in 1 .. n
    BY <1>5, <1>6
  <2> QED
    BY <1>2, <2>1
<1>10. PICK e \in Int, j \in 0 .. c - 1 : f[c] = <<e>> \o f[j]
  <2>1. CASE EscapeAt(t, i)
    <3>1. PICK e \in Int : e = Escaped(t, i) /\ i + 2 <= Len(t)
      BY <2>1, EscapedType
    <3>2. PICK j \in 0 .. c - 1 : j = c - 3
      BY <3>1, <1>2, <1>5, <1>9
    <3> QED
      BY <2>1, <3>1, <3>2, <1>8, <1>9 DEF UrlStep
  <2>2. CASE ~EscapeAt(t, i)
    <3>1. PICK e \in Int : e = t[i]
      BY ElementOfSeq
    <3>2. PICK j \in 0 .. c - 1 : j = c - 1
      BY <1>5, <1>6
    <3> QED
      BY <2>2, <3>1, <3>2, <1>8, <1>9 DEF UrlStep
  <2> QED
    BY <2>1, <2>2
<1>11. PICK s \in Seq(Int) : s = f[j] /\ Len(s) <= j
  BY <1>7
<1>12. f[c] \in Seq(Int) /\ Len(f[c]) = Len(s) + 1
  BY <1>10, <1>11, OneInFront
<1>13. PICK l \in Nat : l = Len(s)
  BY LenProperties
<1>14. l <= j => l + 1 <= c
  BY <1>5, <1>6
<1> QED
  BY <1>5, <1>11, <1>12, <1>13, <1>14

\* u is the first j characters of t, then v
Copied(u, t, v, j) ==
  /\ Len(u) = j + Len(v)
  /\ \A i \in 1 .. j : u[i] = t[i]
  /\ \A i \in 1 .. Len(v) : u[j + i] = v[i]

\* Characters in front of the first "%" are decoded to themselves
LEMMA PlainPart ==
  ASSUME NEW t \in Seq(Int), NEW f, UrlSteps(f, t), NEW plain \in Nat, plain <= Len(t),
         \A i \in 1 .. plain : t[i] # Percent
  PROVE  Copied(f[Len(t)], t, f[Len(t) - plain], plain)
<1>1. PICK n \in Nat : n = Len(t)
  BY LenProperties
<1> DEFINE Good(j) == Copied(f[n], t, f[n - j], j)
           C == {j \in 0 .. plain : ~Good(j)}
<1>2. SUFFICES ASSUME C # {} PROVE FALSE
  <2>1. plain \in 0 .. plain
    OBVIOUS
  <2>2. C = {} => Good(plain)
    BY <2>1
  <2> HIDE DEF C
  <2> QED
    BY <1>1, <2>2
<1>3. PICK c \in C : \A j \in C : c <= j
  <2>1. C \in SUBSET Nat
    OBVIOUS
  <2> QED
    BY <1>2, <2>1, LeastNumber
<1>4. c \in 0 .. plain /\ ~Good(c)
  OBVIOUS
<1>5. c # 0
  <2>1. PICK u \in Seq(Int) : u = f[n]
    <3>1. n \in 0 .. Len(t)
      BY <1>1
    <3> QED
      BY <1>1, <3>1, DecodedLength
  <2>2. PICK l \in Nat : l = Len(u)
    BY LenProperties
  <2>3. n - 0 = n /\ l = 0 + l /\ \A i \in 1 .. l : 0 + i = i
    OBVIOUS
  <2>4. \A i \in 1 .. 0 : FALSE
    OBVIOUS
  <2>5. Good(0)
    BY <2>1, <2>2, <2>3, <2>4 DEF Copied
  <2> QED
    BY <1>4, <2>5
<1>6. PICK j \in 0 .. plain : c = j + 1 /\ j + 1 \in 1 .. plain
  BY <1>4, <1>5
<1>7. Good(j)
  <2>1. ~(c <= j)
    BY <1>6
  <2> QED
    BY <1>3, <2>1
<1> HIDE DEF C
<1>8. PICK k \in 1 .. n : k = n - j /\ n - k + 1 = j + 1 /\ k - 1 = n - (j + 1)
  <2>1. n - j \in 1 .. n /\ n - (n - j) + 1 = j + 1 /\ (n - j) - 1 = n - (j + 1)
    BY <1>1, <1>6
  <2> QED
    BY <2>1
<1>9. t[j + 1] # Percent
  BY <1>6
<1>10. f[k] = <<t[j + 1]>> \o f[k - 1]
  <2>1. f[k] = UrlStep(t, f, k)
    BY <1>1 DEF UrlSteps
  <2>2. ~EscapeAt(t, j + 1)
    BY <1>9 DEF EscapeAt
  <2> QED
    BY <1>1, <1>8, <2>1, <2>2 DEF UrlStep
<1>11. PICK e \in Int : e = t[j + 1]
  <2>1. j + 1 \in 1 .. Len(t)
    BY <1>1, <1>6
  <2> QED
    BY <2>1, ElementOfSeq
<1>12. PICK w \in Seq(Int) : w = f[k - 1]
  <2>1. k - 1 \in 0 .. Len(t)
    BY <1>1
  <2> QED
    BY <2>1, DecodedLength
<1>13. PICK v \in Seq(Int) : /\ v = f[k] /\ Len(v) = Len(w) + 1 /\ v[1] = e
                             /\ \A i \in 1 .. Len(w) : v[i + 1] = w[i]
  <2> DEFINE v == <<e>> \o w
  <2>1. v \in Seq(Int) /\ Len(v) = Len(w) + 1 /\ v[1] = e /\ \A i \in 1 .. Len(w) : v[i + 1] = w[i]
    BY OneInFront
  <2>2. v = f[k]
    BY <1>10, <1>11, <1>12
  <2> HIDE DEF v
  <2> QED
    BY <2>1, <2>2
<1>14. PICK l \in Nat : l = Len(w)
  BY LenProperties
<1>15. PICK u : u = f[n]
  OBVIOUS
<1>16. /\ Len(u) = j + Len(v) /\ \A i \in 1 .. j : u[i] = t[i]
       /\ \A i \in 1 .. Len(v) : u[j + i] = v[i]
  BY <1>7, <1>8, <1>13, <1>15 DEF Copied
<1>17. Len(u) = (j + 1) + l
  BY <1>13, <1>14, <1>16
<1>18. ASSUME NEW i \in 1 .. j + 1 PROVE u[i] = t[i]
  <2>1. CASE i = j + 1
    <3>1. 1 \in 1 .. Len(v)
      BY <1>13, <1>14
    <3> QED
      BY <2>1, <3>1, <1>11, <1>13, <1>16
  <2>2. CASE i # j + 1
    <3>1. i \in 1 .. j
      BY <2>2
    <3> QED
      BY <3>1, <1>16
  <2> QED
    BY <2>1, <2>2
<1>19. ASSUME NEW i \in 1 .. l PROVE u[(j + 1) + i] = w[i]
  <2>1. i + 1 \in 1 .. Len(v) /\ j + (i + 1) = (j + 1) + i
    BY <1>13, <1>14
  <2>2. u[j + (i + 1)] = v[i + 1]
    BY <2>1, <1>16
  <2> QED
    BY <2>1, <2>2, <1>13, <1>14
<1>20. Copied(u, t, w, j + 1)
  BY <1>14, <1>17, <1>18, <1>19 DEF Copied
<1> QED
  BY <1>4, <1>6, <1>8, <1>12, <1>15, <1>20

\* A text that fits is not cut off
LEMMA WholeText ==
  ASSUME NEW s \in Seq(Int), NEW room \in Nat, Len(s) <= room
  PROVE  SubSeq(s, 1, Min({Len(s), room})) = s
<1>1. PICK l \in Nat : l = Len(s)
  BY LenProperties
<1>2. Min({l, room}) = l
  BY <1>1, LesserOf
<1>3. PartOf(SubSeq(s, 0 + 1, 0 + l), Int, s, 0, l)
  BY <1>1, PartIs
<1>4. PartOf(s, Int, s, 0, l)
  <2>1. \A i \in 1 .. l : 0 + i = i
    OBVIOUS
  <2> QED
    BY <1>1, <2>1 DEF PartOf
<1>5. SubSeq(s, 0 + 1, 0 + l) = s
  BY <1>3, <1>4, PartsEqual
<1>6. 0 + 1 = 1 /\ 0 + l = l
  OBVIOUS
<1> QED
  BY <1>1, <1>2, <1>5, <1>6

\* The first characters, with what is decoded of the others behind them
LEMMA CopiedIs ==
  ASSUME NEW u \in Seq(Int), NEW t \in Seq(Int), NEW v \in Seq(Int), NEW j \in Nat,
         Copied(u, t, v, j), NEW a, PartOf(a, Int, t, 0, j)
  PROVE  a \o v = u
<1>1. PICK l \in Nat : l = Len(v)
  BY LenProperties
<1>2. a \in Seq(Int) /\ Len(a) = j /\ \A i \in 1 .. j : a[i] = t[i]
  <2>1. \A i \in 1 .. j : 0 + i = i
    OBVIOUS
  <2> QED
    BY <2>1 DEF PartOf
<1> DEFINE w == a \o v
<1>3. /\ w \in Seq(Int) /\ Len(w) = j + l
      /\ \A i \in 1 .. j + l : w[i] = IF i <= j THEN a[i] ELSE v[i - j]
  <2>1. /\ w \in Seq(Int) /\ Len(w) = Len(a) + Len(v)
        /\ \A i \in 1 .. Len(a) + Len(v) : w[i] = IF i <= Len(a) THEN a[i] ELSE v[i - Len(a)]
    BY <1>2, ConcatProperties
  <2> HIDE DEF w
  <2> QED
    BY <1>1, <1>2, <2>1
<1> HIDE DEF w
<1>4. /\ Len(u) = j + l /\ \A i \in 1 .. j : u[i] = t[i]
      /\ \A i \in 1 .. l : u[j + i] = v[i]
  BY <1>1 DEF Copied
<1>5. ASSUME NEW i \in 1 .. j + l PROVE w[i] = u[i]
  <2>1. CASE i <= j
    <3>1. i \in 1 .. j
      BY <2>1
    <3> QED
      BY <2>1, <3>1, <1>2, <1>3, <1>4
  <2>2. CASE ~(i <= j)
    <3>1. PICK h \in 1 .. l : h = i - j /\ i = j + h
      BY <2>2
    <3> QED
      BY <2>2, <3>1, <1>3, <1>4
  <2> QED
    BY <2>1, <2>2
<1>6. w = u
  <2>1. Len(w) = Len(u) /\ \A i \in 1 .. Len(w) : w[i] = u[i]
    BY <1>3, <1>4, <1>5
  <2> QED
    BY <2>1, <1>3, SeqEqual
<1> QED
  BY <1>6 DEF w

\* Where the vectors without a "%" end
LEMMA PlainVectors ==
  ASSUME NEW t \in Seq(Int), NEW n \in Nat, n = Len(t)
  PROVE  LET escaped == {k \in 0 .. n \div Vector - 1 :
                           \E i \in k * Vector + 1 .. (k + 1) * Vector : t[i] = Percent}
             plain == Vector * Min(escaped \cup {n \div Vector})
         IN  plain \in 0 .. n /\ \A i \in 1 .. plain : t[i] # Percent
<1> DEFINE N == n \div Vector
           escaped == {k \in 0 .. N - 1 : \E i \in k * Vector + 1 .. (k + 1) * Vector : t[i] = Percent}
           b == Min(escaped \cup {N})
<1>1. Vector \in Nat \ {0}
  BY Widths
<1>2. N \in Nat /\ N * Vector <= n
  <2>1. N \in Nat /\ Whole(n, Vector) = N * Vector /\ Whole(n, Vector) \in 0 .. n
    BY <1>1, WholeIs
  <2> QED
    BY <2>1
<1> HIDE DEF N
<1>3. \A k \in escaped \cup {N} : k \in Nat
  BY <1>2
<1>4. b \in escaped \cup {N} /\ \A k \in escaped \cup {N} : b <= k
  <2> HIDE DEF escaped
  <2> QED
    BY <1>3, MinIs
<1>5. b \in Nat /\ b <= N
  BY <1>2, <1>3, <1>4
<1> HIDE DEF b
<1>6. PICK plain \in Nat : plain = Vector * b /\ plain = b * Vector /\ plain <= n
  <2>1. Vector * b = b * Vector /\ b * Vector \in Nat /\ b * Vector <= N * Vector /\ N * Vector \in Nat
    BY <1>1, <1>2, <1>5, Products
  <2> QED
    BY <2>1, <1>2
<1>7. ASSUME NEW i \in 1 .. plain, t[i] = Percent PROVE FALSE
  <2>1. PICK w \in Nat : w = i - 1
    OBVIOUS
  <2>2. PICK k \in Nat : k = w \div Vector
    BY <1>1, UnitOf
  <2>3. k < b
    <3>1. w < b * Vector
      BY <2>1, <1>6
    <3> QED
      BY <3>1, <2>2, <1>1, <1>5, UnitOf
  <2>4. k \in 0 .. N - 1 /\ k \notin escaped
    <3>1. k \in 0 .. N - 1
      BY <2>3, <1>2, <1>5
    <3>2. ~(b <= k)
      BY <2>3, <1>5
    <3> QED
      BY <3>1, <3>2, <1>4
  <2>5. i \in k * Vector + 1 .. (k + 1) * Vector
    <3>1. k * Vector \in Nat /\ w = k * Vector + (w % Vector) /\ w % Vector \in 0 .. Vector - 1
      BY <2>2, <1>1, UnitOf
    <3>2. (k + 1) * Vector = k * Vector + Vector
      BY <1>1, Products
    <3>3. PICK p \in Nat, r \in 0 .. Vector - 1 : p = k * Vector /\ w = p + r /\ (k + 1) * Vector = p + Vector
      BY <3>1, <3>2
    <3>4. i \in p + 1 .. p + Vector
      BY <2>1, <3>3, <1>1
    <3> QED
      BY <3>3, <3>4
  <2> QED
    BY <2>4, <2>5, <1>7
<1>8. plain \in 0 .. n
  BY <1>6
<1> HIDE DEF escaped
<1> QED
  BY <1>6, <1>7, <1>8 DEF b, escaped, N
\* A text without plus signs is decoded as it would be one character at a time,
\* wherever its escapes fall in the vectors, when the buffer has room for it; a
\* text shorter than a vector, or a call without NEON, is not decoded at all.
\* asm_opt_simd_url_decode
THEOREM UrlIsDecoded ==
  ASSUME NEW t \in Seq(Int), \A i \in 1 .. Len(t) : t[i] # Plus,
         NEW room \in Nat, Len(t) < room, NEW neon \in BOOLEAN
  PROVE  asm_opt_simd_url_decode(t, room, neon)
           = IF ~neon \/ Len(t) < Vector THEN <<>> ELSE UrlText(t)
<1>1. PICK n \in Nat : n = Len(t)
  BY LenProperties
<1>2. CASE ~neon \/ n < Vector
  BY <1>1, <1>2 DEF asm_opt_simd_url_decode
<1>3. CASE ~(~neon \/ n < Vector)
  <2> DEFINE escaped == {k \in 0 .. n \div Vector - 1 :
                           \E i \in k * Vector + 1 .. (k + 1) * Vector : t[i] = Percent}
             P == Vector * Min(escaped \cup {n \div Vector})
  <2>1. P \in 0 .. n /\ \A i \in 1 .. P : t[i] # Percent
    BY <1>1, PlainVectors
  <2>2. asm_opt_simd_url_decode(t, room, neon)
          = SubSeq(t, 1, P) \o DecodeChars(SubSeq(t, P + 1, n), room - 1 - P)
    BY <1>1, <1>3 DEF asm_opt_simd_url_decode
  <2> HIDE DEF P
  <2>3. PICK p \in Nat, m \in Nat, left \in Nat :
          p = P /\ m = n - p /\ p + m = n /\ p <= n /\ left = room - 1 - p /\ m <= left
    <3>1. n < room
      BY <1>1
    <3> QED
      BY <2>1, <3>1
  <2> DEFINE s == SubSeq(t, p + 1, n)
             a == SubSeq(t, 1, p)
  <2>4. PartOf(s, Int, t, p, m)
    <3>1. PartOf(SubSeq(t, p + 1, p + m), Int, t, p, m)
      BY <1>1, <2>3, PartIs
    <3> QED
      BY <2>3, <3>1
  <2>5. PartOf(a, Int, t, 0, p)
    <3>1. PartOf(SubSeq(t, 0 + 1, 0 + p), Int, t, 0, p)
      BY <1>1, <2>3, PartIs
    <3>2. 0 + 1 = 1 /\ 0 + p = p
      OBVIOUS
    <3> QED
      BY <3>1, <3>2
  <2> HIDE DEF s, a
  <2>6. s \in Seq(Int) /\ Len(s) = m /\ \A i \in 1 .. m : s[i] = t[p + i]
    BY <2>4 DEF PartOf
  <2>7. \A i \in 1 .. Len(s) : s[i] # Plus
    <3>1. \A i \in 1 .. m : p + i \in 1 .. Len(t)
      BY <1>1, <2>3
    <3> QED
      BY <2>6, <3>1
  <2>8. PICK g : /\ UrlSteps(g, s)
                 /\ DecodeChars(s, left) = SubSeq(g[Len(s)], 1, Min({Len(g[Len(s)]), left}))
    BY <2>6, <2>7, DecodeReads
  <2>9. PICK f : UrlSteps(f, t) /\ UrlText(t) = f[n]
    BY <1>1, UrlReads
  <2>10. PICK v \in Seq(Int) : v = g[m] /\ Len(v) <= m
    <3>1. m \in 0 .. Len(s)
      BY <2>6
    <3> QED
      BY <2>6, <2>8, <3>1, DecodedLength
  <2>11. DecodeChars(s, left) = v
    <3>1. Len(v) <= left
      <4>1. Len(v) \in Nat
        BY LenProperties
      <4> QED
        BY <4>1, <2>3, <2>10
    <3> QED
      BY <3>1, <2>6, <2>8, <2>10, WholeText
  <2>12. f[m] = v
    <3>1. m \in 0 .. m /\ Len(t) = p + m
      BY <1>1, <2>3
    <3> QED
      BY <3>1, <2>4, <2>6, <2>8, <2>9, <2>10, StepsAgree
  <2>13. PICK u \in Seq(Int) : u = f[n]
    <3>1. n \in 0 .. Len(t)
      BY <1>1
    <3> QED
      BY <3>1, <2>9, DecodedLength
  <2>14. Copied(u, t, v, p)
    <3>1. \A i \in 1 .. p : t[i] # Percent
      BY <2>1, <2>3
    <3>2. Copied(f[Len(t)], t, f[Len(t) - p], p)
      BY <1>1, <2>3, <2>9, <3>1, PlainPart
    <3> QED
      BY <1>1, <2>3, <2>12, <2>13, <3>2
  <2>15. a \o v = u
    BY <2>5, <2>14, CopiedIs
  <2>16. asm_opt_simd_url_decode(t, room, neon) = UrlText(t)
    BY <2>2, <2>3, <2>9, <2>11, <2>13, <2>15 DEF a, s
  <2> QED
    BY <1>1, <1>3, <2>16
<1> QED
  BY <1>2, <1>3

-----------------------------------------------------------------------------
(* The calls with HTTP text                                                *)

\* Calls of asm_opt_find_http_header_end.
LEMMA HeaderEndCall == ASSUME CallHeaderEnd PROVE HttpRight'
<1>a. PICK n \in 1 .. MaxLen + 1, neon \in BOOLEAN : \E p \in [1 .. n -> Pieces] :
        LET b == FlattenSeq(p) IN
        Called("header_end", b, asm_opt_find_http_header_end(b, neon))
  BY DEF CallHeaderEnd
<1>1. PICK p \in [1 .. n -> Pieces] :
        Called("header_end", FlattenSeq(p), asm_opt_find_http_header_end(FlattenSeq(p), neon))
  BY <1>a
<1> DEFINE T == {"x", CR, LF}
           b == FlattenSeq(p)
           out == asm_opt_find_http_header_end(b, neon)
           E == {i + 4 : i \in Matches(b, HeaderEnd)}
<1>2. Len(b) \in Nat
  <2>1. \A q \in Pieces : q \in Seq(T)
    <3>1. "x" \in T /\ CR \in T /\ LF \in T
      OBVIOUS
    <3> HIDE DEF T
    <3>2. <<"x">> \in Seq(T) /\ <<CR, LF>> \in Seq(T) /\ <<CR, LF, CR, LF>> \in Seq(T)
      BY <3>1, OneOf, TwoOf, FourOf
    <3> QED
      BY <3>2 DEF Pieces
  <2>2. p \in [1 .. n -> Seq(T)] /\ n \in Nat
    BY <2>1, CallBounds
  <2>3. p \in Seq(Seq(T))
    BY <2>2, SeqDef
  <2>4. FlattenSeq(p) \in Seq(T)
    BY <2>3, FlattenType
  <2> QED
    BY <2>4, LenProperties
<1> HIDE DEF b
<1>3. Len(b) >= 3 => IF E = {} THEN out = NotFound ELSE out \in E
  BY <1>2, HeaderEndIsMatch
<1>4. call'.fn = "header_end" /\ call'.in = b /\ call'.out = out
  BY <1>1 DEF Called, b
<1> HIDE DEF out, E
<1> QED
  BY <1>3, <1>4 DEF HttpRight, E

\* Calls of asm_opt_parse_http_header.
LEMMA HeaderLineCall == ASSUME CallHeaderLine PROVE HttpRight'
<1>1. PICK h \in [1 .. MaxLen -> {"x", ":", "SP", CR}], len \in 0 .. MaxLen, allocated \in BOOLEAN :
        Called("header", <<h, len, allocated>>, asm_opt_parse_http_header(h, len, allocated))
  BY DEF CallHeaderLine
<1> DEFINE T == {"x", ":", "SP", CR}
<1>2. h \in Seq(T) /\ len \in Nat /\ len <= Len(h)
  <2>1. MaxLen \in Nat
    BY CallBounds
  <2>2. h \in Seq(T) /\ Len(h) = MaxLen
    BY <2>1, SeqDef, LenProperties
  <2> QED
    BY <2>1, <2>2
<1>3. asm_opt_parse_http_header(h, len, allocated) =
        IF Positions(Cut(h, len), ":") = {} \/ ~allocated THEN Refused ELSE HeaderCut(h, len)
  BY <1>2, HeaderLineIsCut
<1>4. /\ call'.fn = "header" /\ call'.in = <<h, len, allocated>>
      /\ call'.out = IF Positions(Cut(h, len), ":") = {} \/ ~allocated THEN Refused ELSE HeaderCut(h, len)
  BY <1>1, <1>3 DEF Called
<1>5. call'.in[1] = h /\ call'.in[2] = len /\ call'.in[3] = allocated
  BY <1>4
<1> QED
  BY <1>4, <1>5 DEF HttpRight, HeaderCut

\* Calls of the two functions that look a method up.
LEMMA MethodCall == ASSUME CallMethod PROVE HttpRight'
<1>1. PICK w, neon : \/ Called("method", w, asm_opt_fast_http_method_detect(w, neon))
                     \/ Called("known", w, asm_opt_validate_http_method(w))
  BY DEF CallMethod
<1>2. CASE Called("method", w, asm_opt_fast_http_method_detect(w, neon))
  <2>1. /\ call'.fn = "method" /\ call'.in = w
        /\ call'.out = asm_opt_fast_http_method_detect(w, neon)
    BY <1>2 DEF Called
  <2>2. w \notin {"DELETE", "LEDETE"} => asm_opt_fast_http_method_detect(w, neon) = IndexOf(Methods, w)
    BY MethodIsIndex
  <2> QED
    BY <2>1, <2>2 DEF HttpRight
<1>3. CASE Called("known", w, asm_opt_validate_http_method(w))
  <2>1. call'.fn = "known" /\ call'.in = w /\ call'.out = (w \in ToSet(Methods))
    BY <1>3 DEF Called, asm_opt_validate_http_method
  <2> QED
    BY <2>1 DEF HttpRight
<1> QED
  BY <1>1, <1>2, <1>3

\* Calls of the encoder and the decoder, also with a foreign character.
LEMMA Base64Call == ASSUME CallBase64 PROVE HttpRight'
<1>1. PICK n \in 0 .. 3 * MaxLen - 2, a \in {0, 77, 255}, b \in {0, 77, 255}, neon \in BOOLEAN :
        LET x == [i \in 1 .. n |-> IF i % 2 = 0 THEN a ELSE b]
            y == asm_opt_base64_encode(x, 4 * n + 5, neon)
        IN \/ Called("encode", x, y)
           \/ Called("decode", x, asm_opt_base64_decode(y, 3 * n, ~neon))
           \/ \E i \in DOMAIN y : y[i] # Pad /\ CallForeign(y, i, 3 * n, neon)
  BY DEF CallBase64
<1> DEFINE x == [i \in 1 .. n |-> IF i % 2 = 0 THEN a ELSE b]
           y == asm_opt_base64_encode(x, 4 * n + 5, neon)
<1>2. \/ Called("encode", x, y)
      \/ Called("decode", x, asm_opt_base64_decode(y, 3 * n, ~neon))
      \/ \E i \in DOMAIN y : y[i] # Pad /\ CallForeign(y, i, 3 * n, neon)
  BY ONLY <1>1
<1>3. n \in Nat
  BY CallBounds
<1>4. x \in Seq(Octet) /\ Len(x) = n
  <2>1. a \in Octet /\ b \in Octet
    BY DEF Octet
  <2>2. x \in [1 .. n -> Octet]
    BY <2>1
  <2> HIDE DEF x
  <2> QED
    BY <1>3, <2>2, SeqDef, LenProperties
<1> HIDE DEF x
<1>5. PICK room \in Nat : room = 4 * n + 5 /\ room >= ((n + 2) \div 3) * 4 + 1
  BY <1>3
<1>6. Encodes(y, x)
  <2>1. Encodes(asm_opt_base64_encode(x, room, neon), x)
    BY <1>4, <1>5, EncodeIsBase64
  <2> QED
    BY <1>5, <2>1
<1> HIDE DEF y
<1>7. PICK back \in Nat : back = 3 * n /\ back >= Len(x)
  BY <1>3, <1>4
<1>8. CASE Called("encode", x, y)
  <2>1. call'.fn = "encode" /\ call'.in = x /\ call'.out = y
    BY <1>8 DEF Called
  <2>2. Len(y) = ((Len(x) + 2) \div 3) * 4
    BY <1>6 DEF Encodes
  <2> QED
    BY <2>1, <2>2 DEF HttpRight
<1>9. CASE Called("decode", x, asm_opt_base64_decode(y, 3 * n, ~neon))
  <2>1. PICK other \in BOOLEAN : other = ~neon
    OBVIOUS
  <2>2. asm_opt_base64_decode(y, back, other) = x
    BY <1>4, <1>6, <1>7, DecodeUndoesEncode
  <2>3. call'.fn = "decode" /\ call'.in = x /\ call'.out = x
    BY <1>7, <1>9, <2>1, <2>2 DEF Called
  <2> QED
    BY <2>3 DEF HttpRight
<1>10. CASE \E i \in DOMAIN y : y[i] # Pad /\ CallForeign(y, i, 3 * n, neon)
  <2>1. PICK i \in DOMAIN y : y[i] # Pad /\ CallForeign(y, i, back, neon)
    BY <1>7, <1>10
  <2>2. CASE Called("refuse", y, asm_opt_base64_decode([y EXCEPT ![i] = -1], back, neon))
    <3>1. -1 \in Int /\ -1 \notin Symbol /\ -1 # HighByte
      BY DEF Symbol, HighByte
    <3>2. asm_opt_base64_decode([y EXCEPT ![i] = -1], back, neon) = <<>>
      BY <1>4, <1>6, <2>1, <3>1, ForeignIsRefused
    <3>3. call'.fn = "refuse" /\ call'.out = <<>>
      BY <2>2, <3>2 DEF Called
    <3> QED
      BY <3>3 DEF HttpRight
  <2>3. CASE Called("high", <<[y EXCEPT ![i] = 0], back, neon>>,
                    asm_opt_base64_decode([y EXCEPT ![i] = HighByte], back, neon))
    <3>1. y \in Seq(Symbol) /\ i \in DOMAIN y /\ y[i] # Pad
      BY <1>6, <2>1 DEF Encodes
    <3>0. asm_opt_base64_decode([y EXCEPT ![i] = HighByte], back, neon)
            = asm_opt_base64_decode([y EXCEPT ![i] = 0], back, neon)
      <4>1. HighLikeZero(y, i, back, neon)
        BY <3>1, HighIsZero
      <4> QED
        BY <4>1 DEF HighLikeZero
    <3> DEFINE z == [y EXCEPT ![i] = 0]
    <3>2. asm_opt_base64_decode([y EXCEPT ![i] = HighByte], back, neon)
            = asm_opt_base64_decode(z, back, neon)
      BY <3>0 DEF z
    <3> HIDE DEF z
    <3>3. /\ call'.fn = "high" /\ call'.in = <<z, back, neon>>
          /\ call'.out = asm_opt_base64_decode(z, back, neon)
      BY <2>3, <3>2 DEF Called, z
    <3>4. call'.in[1] = z /\ call'.in[2] = back /\ call'.in[3] = neon
      BY <3>3
    <3> QED
      BY <3>3, <3>4 DEF HttpRight
  <2> QED
    BY <2>1, <2>2, <2>3 DEF CallForeign
<1> QED
  BY <1>2, <1>8, <1>9, <1>10

\* Calls of asm_opt_simd_url_decode.
LEMMA UrlCall == ASSUME CallUrl PROVE HttpRight'
<1>a. PICK n \in 0 .. MaxLen, neon \in BOOLEAN : \E t \in [1 .. n -> {Percent, Plus, 48, 102, 120}] :
        Called("url", <<t, neon>>, asm_opt_simd_url_decode(t, MaxLen + 2, neon))
  BY DEF CallUrl
<1>1. PICK t \in [1 .. n -> {Percent, Plus, 48, 102, 120}] :
        Called("url", <<t, neon>>, asm_opt_simd_url_decode(t, MaxLen + 2, neon))
  BY <1>a
<1>2. n \in Nat /\ MaxLen + 2 \in Nat /\ n < MaxLen + 2
  BY CallBounds
<1>3. t \in Seq(Int) /\ Len(t) = n
  <2>1. t \in [1 .. n -> Int]
    BY DEF Percent, Plus
  <2> QED
    BY <1>2, <2>1, SeqDef, LenProperties
<1> DEFINE out == asm_opt_simd_url_decode(t, MaxLen + 2, neon)
<1>4. ~neon \/ Len(t) < Vector => out = <<>>
  BY DEF asm_opt_simd_url_decode
<1>5. ~(~neon \/ Len(t) < Vector) /\ Positions(t, Plus) = {} => out = UrlText(t)
  <2> SUFFICES ASSUME ~(~neon \/ Len(t) < Vector), Positions(t, Plus) = {} PROVE out = UrlText(t)
    OBVIOUS
  <2>1. \A i \in 1 .. Len(t) : t[i] # Plus
    <3>1. DOMAIN t = 1 .. Len(t)
      BY <1>3, LenProperties
    <3> QED
      BY <3>1 DEF Positions
  <2>2. PICK room \in Nat : room = MaxLen + 2 /\ Len(t) < room
    BY <1>2, <1>3
  <2>3. asm_opt_simd_url_decode(t, room, neon)
          = IF ~neon \/ Len(t) < Vector THEN <<>> ELSE UrlText(t)
    BY <1>3, <2>1, <2>2, UrlIsDecoded
  <2> QED
    BY <2>2, <2>3
<1> HIDE DEF out
<1>6. call'.fn = "url" /\ call'.in = <<t, neon>> /\ call'.out = out
  BY <1>1 DEF Called, out
<1>7. call'.in[1] = t /\ call'.in[2] = neon
  BY <1>6
<1> QED
  BY <1>4, <1>5, <1>6, <1>7 DEF HttpRight

\* Calls of the two writers of status lines.
LEMMA StatusCall == ASSUME CallStatus PROVE HttpRight'
<1>1. PICK code \in {100, 200, 304, 404, 599} :
        \/ Called("status", code, asm_opt_generate_status_response(code, <<"reason">>))
        \/ Called("status", code, asm_opt_simd_generate_status_line(code, <<"reason">>))
  BY DEF CallStatus
<1> DEFINE T == {"HTTP/1.1 ", "SP", CR, LF, "reason"}
           r == <<"reason">>
<1>2. PICK c : c = code /\ IsCode(c)
  BY DEF IsCode
<1>3. r \in Seq(T)
  BY OneOf
<1>4. StatusWords(T)
  BY DEF StatusWords
<1> HIDE DEF T, r
<1>5. /\ HoldsCode(asm_opt_generate_status_response(c, r), c)
      /\ HoldsCode(asm_opt_simd_generate_status_line(c, r), c)
  BY <1>2, <1>3, <1>4, StatusHoldsCode
<1>6. call'.fn = "status" /\ call'.in = code
  BY <1>1 DEF Called
<1>7. \/ call'.out = asm_opt_generate_status_response(code, r)
      \/ call'.out = asm_opt_simd_generate_status_line(code, r)
  BY <1>1 DEF Called, r
<1>8. Number(SubSeq(call'.out, 2, 4)) = call'.in
  BY <1>2, <1>5, <1>6, <1>7 DEF HoldsCode
<1> QED
  BY <1>6, <1>8 DEF HttpRight

\* Calls of asm_opt_generate_content_length_header.
LEMMA LengthCall == ASSUME CallLength PROVE HttpRight'
<1>1. PICK n \in {0, 9, 10, 101, 65536} :
        Called("length", n, asm_opt_generate_content_length_header(n))
  BY DEF CallLength
<1> DEFINE out == asm_opt_generate_content_length_header(n)
<1>2. n \in Nat
  OBVIOUS
<1>3. Number(SubSeq(out, 2, Len(out) - 2)) = n
  BY <1>2, LengthIsWritten
<1> HIDE DEF out
<1>4. call'.fn = "length" /\ call'.in = n /\ call'.out = out
  BY <1>1 DEF Called, out
<1> QED
  BY <1>3, <1>4 DEF HttpRight

\* Calls of asm_opt_write_http_header.
LEMMA WriteCall == ASSUME CallWrite PROVE HttpRight'
<1>1. PICK a \in 0 .. MaxLen + 5, b \in 0 .. MaxLen + 5, size \in 0 .. MaxLen + 5, neon \in BOOLEAN :
        LET name == [i \in 1 .. a |-> "n"]
            value == [i \in 1 .. b |-> "v"]
        IN Called("write", size, asm_opt_write_http_header(name, value, size, neon))
  BY DEF CallWrite
<1> DEFINE T == {"n", "v", ":", "SP", CR, LF}
           name == [i \in 1 .. a |-> "n"]
           value == [i \in 1 .. b |-> "v"]
           out == asm_opt_write_http_header(name, value, size, neon)
<1>2. a \in Nat /\ b \in Nat /\ size \in Nat
  BY CallBounds
<1>3. name \in Seq(T) /\ value \in Seq(T)
  <2>1. name \in [1 .. a -> T] /\ value \in [1 .. b -> T]
    OBVIOUS
  <2> QED
    BY <1>2, <2>1, SeqDef
<1>4. call'.fn = "write" /\ call'.in = size /\ call'.out = out
  BY <1>1 DEF Called
<1>5. {":", "SP", CR, LF} \subseteq T
  OBVIOUS
<1> HIDE DEF name, value, T
<1>6. Len(out) <= size
  BY <1>2, <1>3, <1>5, WriteFits
<1> HIDE DEF out
<1> QED
  BY <1>4, <1>6 DEF HttpRight

\* Calls that swap the bytes of a number twice.
LEMMA OrderCall == ASSUME CallOrder PROVE HttpRight'
<1>1. \/ \E x \in [1 .. 2 -> 0 .. 3] : Called("order", x, asm_opt_htons(asm_opt_htons(x)))
      \/ \E x \in [1 .. 4 -> 0 .. 1] : Called("order", x, asm_opt_htonl(asm_opt_htonl(x)))
  BY DEF CallOrder
<1>2. PICK x \in Seq(Int) : \/ Called("order", x, asm_opt_htons(asm_opt_htons(x)))
                            \/ Called("order", x, asm_opt_htonl(asm_opt_htonl(x)))
  <2>1. \A x \in [1 .. 2 -> 0 .. 3] : x \in Seq(Int)
    <3> TAKE x \in [1 .. 2 -> 0 .. 3]
    <3>1. x \in [1 .. 2 -> Int] /\ 2 \in Nat
      OBVIOUS
    <3> QED
      BY <3>1, SeqDef
  <2>2. \A x \in [1 .. 4 -> 0 .. 1] : x \in Seq(Int)
    <3> TAKE x \in [1 .. 4 -> 0 .. 1]
    <3>1. x \in [1 .. 4 -> Int] /\ 4 \in Nat
      OBVIOUS
    <3> QED
      BY <3>1, SeqDef
  <2> QED
    BY <1>1, <2>1, <2>2
<1>3. call'.fn = "order" /\ call'.in = x /\ call'.out = x
  BY <1>2, SwappedTwice DEF Called
<1> QED
  BY <1>3 DEF HttpRight

\* The functions on memory and on strings are not concerned
ByteNames == {"memcpy", "memmove", "buffer_copy", "memset", "memcmp", "sum", "max", "strlen",
              "strchr", "strrchr", "strcpy", "strncpy", "strcmp", "strncmp", "strstr", "find"}

CallBytes == CallMemory \/ CallCompare \/ CallArray \/ CallString \/ CallTwoStrings

\* HttpRight is silent about the calls of the memory and string routines.
LEMMA BytesCall == ASSUME CallBytes PROVE HttpRight'
<1>1. call'.fn \in ByteNames
  <2>1. ASSUME CallMemory PROVE call'.fn \in ByteNames
    BY <2>1 DEF CallMemory, Called, ByteNames
  <2>2. ASSUME CallCompare PROVE call'.fn \in ByteNames
    BY <2>2 DEF CallCompare, Called, ByteNames
  <2>3. ASSUME CallArray PROVE call'.fn \in ByteNames
    BY <2>3 DEF CallArray, Called, ByteNames
  <2>4. ASSUME CallString PROVE call'.fn \in ByteNames
    BY <2>4 DEF CallString, Called, ByteNames
  <2>5. ASSUME CallTwoStrings PROVE call'.fn \in ByteNames
    BY <2>5 DEF CallTwoStrings, Called, ByteNames
  <2> QED
    BY <2>1, <2>2, <2>3, <2>4, <2>5 DEF CallBytes
<1> QED
  BY <1>1 DEF ByteNames, HttpRight

\* HttpRight, for every length of the texts and all widths of the registers:
\* each HTTP function of asm_opt.c finds, cuts, encodes, decodes and writes what
\* its definition says, but for the exceptions HttpRight names.
THEOREM HttpIsRight == CallSpec => []HttpRight
<1>1. CallInit => HttpRight
  BY DEF CallInit, HttpRight
<1>2. HttpRight /\ [CallNext]_call => HttpRight'
  <2>1. CASE CallNext
    <3>1. CallBytes => HttpRight'
      BY BytesCall
    <3>2. /\ CallHeaderEnd => HttpRight'
          /\ CallHeaderLine => HttpRight'
          /\ CallMethod => HttpRight'
          /\ CallBase64 => HttpRight'
      BY HeaderEndCall, HeaderLineCall, MethodCall, Base64Call
    <3>3. /\ CallUrl => HttpRight'
          /\ CallStatus => HttpRight'
          /\ CallLength => HttpRight'
          /\ CallWrite => HttpRight'
          /\ CallOrder => HttpRight'
      BY UrlCall, StatusCall, LengthCall, WriteCall, OrderCall
    <3> QED
      BY <2>1, <3>1, <3>2, <3>3 DEF CallNext, CallBytes
  <2>2. CASE UNCHANGED call
    BY <2>2 DEF HttpRight
  <2> QED
    BY <2>1, <2>2
<1> QED
  BY <1>1, <1>2, PTL DEF CallSpec
=============================================================================
