--------------------------- MODULE JitSmc_proofs ---------------------------
(***************************************************************************)
(* Proofs about the jit's code memory and its detection of self-modifying  *)
(* code.                                                                   *)
(*                                                                         *)
(* First JitMemory, for every size of the code memory and of blocks.  The  *)
(* ring is filled in laps.  Its queue is the rest of the last lap (the     *)
(* first k blocks, from end to the end of the memory) followed by this lap *)
(* (from 0 to start).  A flush does not put its block at start but at the  *)
(* first block it frees, so a lap has gaps; a gap near j quarters begins   *)
(* no lower than one page less than a block before that, and ends at most  *)
(* 4 * j such distances above it.  That bound is what keeps the fourth     *)
(* flush of a lap, which frees what is left of the lap before, from being  *)
(* too small for its block.                                                *)
(*                                                                         *)
(* Then JitSmc, for every layout of words, pages and blocks: the jit with  *)
(* its stores, rewinds and loads implements JitMemory, whose theorems      *)
(* carry over, and no entry leads to code that a store to the entry's own  *)
(* page made stale.                                                        *)
(***************************************************************************)
EXTENDS JitSmc, SequenceTheorems, WellFoundedInduction, TLAPS

-----------------------------------------------------------------------------
(* The arithmetic of %.                                                     *)

\* Division with remainder.
LEMMA ModDef ==
    ASSUME NEW N \in Nat \ {0}, NEW k \in Int
    PROVE  /\ k = N * (k \div N) + (k % N)
           /\ k \div N \in Int
           /\ k % N \in 0 .. N - 1
  OBVIOUS

\* A positive multiple of N is at least N.
LEMMA MultipleBound ==
    ASSUME NEW N \in Nat \ {0}, NEW d \in Int, d >= 1
    PROVE  N * d >= N
  OBVIOUS

\* Quotients of remainders in range agree, and so do the remainders.
LEMMA RemainderUnique ==
    ASSUME NEW N \in Nat \ {0}, NEW p \in Int, NEW q \in Int,
           NEW r \in 0 .. N - 1, NEW s \in 0 .. N - 1,
           N * p + r = N * q + s
    PROVE  r = s
<1>1. r - s = N * q - N * p /\ N * q - N * p = N * (q - p)
  OBVIOUS
<1>2. CASE q - p >= 1
  BY <1>1, <1>2, MultipleBound
<1>3. CASE p - q >= 1
  <2>1. N * (p - q) >= N
    BY <1>3, MultipleBound
  <2>2. N * (p - q) = s - r
    BY <1>1
  <2> QED BY <2>1, <2>2
<1>4. CASE p = q
  BY <1>1, <1>4
<1> QED BY <1>2, <1>3, <1>4

\* Any decomposition of m gives its quotient.
LEMMA DivOf ==
    ASSUME NEW N \in Nat \ {0}, NEW m \in Int, NEW q \in Int, NEW r \in 0 .. N - 1,
           m = N * q + r
    PROVE  m \div N = q
<1> DEFINE b == m \div N
           t == m % N
<1>1. m = N * b + t /\ b \in Int /\ t \in 0 .. N - 1
  BY ModDef
<1> HIDE DEF b, t
<1>2. t = r
  BY <1>1, RemainderUnique
<1>3. N * (b - q) = 0 /\ N * (q - b) = 0
  BY <1>1, <1>2
<1>4. ~(b - q >= 1) /\ ~(q - b >= 1)
  <2>1. b - q \in Int /\ q - b \in Int
    BY <1>1
  <2> QED BY <2>1, <1>3, MultipleBound
<1>5. b = q
  BY <1>1, <1>4
<1> QED BY <1>5 DEF b

PageOf(x, size) == x \div size

\* Two numbers in the same page of size L are in the same page of size M, a
\* multiple of L.
LEMMA CoarserPage ==
    ASSUME NEW L \in Nat \ {0}, NEW M \in Nat \ {0}, M % L = 0,
           NEW v \in Int, NEW w \in Int, PageOf(v, L) = PageOf(w, L)
    PROVE  PageOf(v, M) = PageOf(w, M)
<1> DEFINE q == M \div L
           a == v \div L
           r == v % L
           s == w % L
<1>1. M = L * q /\ q \in Int
  BY ModDef
<1>2. v = L * a + r /\ w = L * a + s /\ a \in Int /\ r \in 0 .. L - 1 /\ s \in 0 .. L - 1
  BY ModDef DEF PageOf
<1> HIDE DEF q, a, r, s
<1>3. q \in Nat \ {0}
  <2>1. CASE q <= 0
    <3>1. L * q <= 0
      BY <1>1, <2>1
    <3> QED BY <3>1, <1>1
  <2> QED BY <2>1, <1>1
<1> DEFINE c == a \div q
           t == a % q
<1>4. a = q * c + t /\ c \in Int /\ t \in 0 .. q - 1
  BY <1>2, <1>3, ModDef
<1> HIDE DEF c, t
<1>5. L * t >= 0 /\ L * t + L <= M
  <2>1. L * t >= 0
    BY <1>3, <1>4
  <2>2. L * (q - 1 - t) >= 0
    BY <1>3, <1>4
  <2>3. L * (q - 1 - t) = L * q - L - L * t
    BY <1>1, <1>4
  <2> DEFINE u == L * t
  <2>4. u \in Int /\ u >= 0 /\ M - L - u >= 0
    BY <2>1, <2>2, <2>3, <1>1, <1>4
  <2> HIDE DEF u
  <2>5. u >= 0 /\ u + L <= M
    BY <2>4
  <2> QED BY <2>5 DEF u
<1>6. L * a = M * c + L * t
  <2>1. L * (q * c + t) = (L * q) * c + L * t
    BY <1>1, <1>4
  <2> QED BY <2>1, <1>1, <1>4
<1>7. L * t \in Int /\ M * c \in Int
  BY <1>4
<1>8. v = M * c + (L * t + r) /\ L * t + r \in 0 .. M - 1
  BY <1>2, <1>5, <1>6, <1>7
<1>9. w = M * c + (L * t + s) /\ L * t + s \in 0 .. M - 1
  BY <1>2, <1>5, <1>6, <1>7
<1>10. v \div M = c
  BY <1>8, <1>4, DivOf
<1>11. w \div M = c
  BY <1>9, <1>4, DivOf
<1> QED BY <1>10, <1>11 DEF PageOf

Block == [pc : Targets, end : Nat, from : Nat, to : Nat]

\* The pages a block of the largest size may miss.
Spare == MaxSize - 1

\* A gap from s to x near j quarters: it is narrow, or it ends low.
GapAt(s, x, j) ==
    /\ j * Quarter <= s + Spare
    /\ j * Quarter <= x /\ x <= j * Quarter + (4 * j) * Spare
    /\ x <= s + Spare \/ x <= j * Quarter + (4 * j - 2) * Spare

GapOk(s, x) == s < x /\ (GapAt(s, x, 1) \/ GapAt(s, x, 2) \/ GapAt(s, x, 3))

\* The blocks a .. b of fs lie one behind the other, with such gaps, whose
\* ends are a quarter apart.
Lap(fs, a, b) ==
    /\ \A i \in a .. b : fs[i].from < fs[i].to
    /\ \A i, j \in a .. b : i < j => fs[i].to <= fs[j].from
    /\ \A i \in a .. (b - 1) :
          fs[i].to = fs[i + 1].from \/ GapOk(fs[i].to, fs[i + 1].from)
    /\ \A i, j \in a .. (b - 1) :
          i < j /\ fs[i].to # fs[i + 1].from /\ fs[j].to # fs[j + 1].from
              => fs[i + 1].from + Quarter <= fs[j + 1].from

\* The k blocks of the last lap start at x, near j quarters.
Level(x, j) == j * Quarter <= x /\ x <= j * Quarter + (4 * j) * Spare

\* The free pages end at e and the last lap goes on at x.
Edge(e, x, j) ==
    /\ j * Quarter <= e /\ e <= x
    /\ x <= j * Quarter + (4 * j) * Spare
    /\ x = e \/ x <= j * Quarter + (4 * j - 2) * Spare

LEMMA SizeFacts ==
    /\ Quarter \in Nat /\ Spare \in Nat /\ MaxSize \in Nat /\ MaxSize = Spare + 1
    /\ Quarter >= 13 * Spare + 1
    /\ \A s \in CodeSizes : s \in Nat /\ 1 <= s /\ s <= MaxSize
    /\ MaxEnd = 4 * Quarter
<1>1. MaxSize \in CodeSizes /\ \A s \in CodeSizes : s <= MaxSize
  BY SizeAssumption DEF MaxSize
<1>2. MaxSize \in Nat /\ MaxSize >= 1
  BY <1>1, SizeAssumption
<1> QED
  BY <1>1, <1>2, SizeAssumption DEF Spare, MaxEnd

LEMMA LevelThree ==
    ASSUME NEW x \in Nat, Level(x, 3)
    PROVE  x >= 3 * Quarter /\ x # 0 /\ x <= 3 * Quarter + 12 * Spare
BY SizeFacts DEF Level

LEMMA Between ==
    ASSUME NEW a \in Nat, NEW b \in Nat, NEW c \in Nat, NEW q \in Nat, a + q <= b, b + q <= c
    PROVE  a + q <= c
OBVIOUS

\* The first of the freed blocks starts at x near j quarters; the block that
\* fills a quarter is from f to e, behind one that ends at p; the next is at y.
LEMMA StopNumbers ==
    ASSUME NEW x \in Nat, NEW p \in Nat, NEW f \in Nat, NEW e \in Nat, NEW y \in Nat,
           NEW j, j = 0 \/ j = 1 \/ j = 2, Level(x, j),
           f < e, e - x >= Quarter
    PROVE  /\ p - x < Quarter /\ (p = f \/ GapOk(p, f)) /\ e - f <= MaxSize + Spare => e # MaxEnd
           /\ (j + 1) * Quarter <= e
           /\ p - x < Quarter /\ p = f /\ e - f <= MaxSize /\ (e = y \/ GapOk(e, y))
                 => Edge(e, y, j + 1)
           /\ p - x < Quarter /\ GapOk(p, f) /\ e - f <= MaxSize /\ e = y
                 => Edge(e, y, j + 1)
           /\ p - x < Quarter /\ GapOk(p, f) /\ e - f <= MaxSize /\ f + Quarter <= y
                 => ~GapOk(e, y)
<1> USE SizeFacts
<1>1. CASE j = 0
  BY <1>1 DEF Level, GapOk, GapAt, Edge
<1>2. CASE j = 1
  BY <1>2 DEF Level, GapOk, GapAt, Edge
<1>3. CASE j = 2
  BY <1>3 DEF Level, GapOk, GapAt, Edge
<1> QED
  BY <1>1, <1>2, <1>3

\* Sizes of the blocks of a lap that ends with the k-th: the last one took the
\* rest of the memory.
Sizes(fs, k) ==
    \A i \in 1 .. Len(fs) :
        /\ fs[i].to - fs[i].from <= MaxSize + Spare
        /\ i # k => fs[i].to - fs[i].from <= MaxSize

LEMMA BlockAt ==
    ASSUME NEW fs \in Seq(Block), NEW i \in 1 .. Len(fs)
    PROVE  /\ fs[i] \in Block /\ i \in DOMAIN fs /\ i \in Nat
           /\ fs[i].from \in Nat /\ fs[i].to \in Nat
<1>1. fs[i] \in Block /\ i \in DOMAIN fs /\ i \in Nat
  OBVIOUS
<1> QED
  BY <1>1 DEF Block

\* Freeing a quarter from the first block of a lap, at one of its first three
\* flushes, stops before the end of the lap.
LEMMA StopPlace ==
    ASSUME NEW fs \in Seq(Block), NEW k \in 1 .. Len(fs), Lap(fs, 1, k), Sizes(fs, k),
           fs[k].to = MaxEnd,
           NEW j, j = 0 \/ j = 1 \/ j = 2, Level(fs[1].from, j),
           NEW n \in 1 .. k, fs[n].to - fs[1].from >= Quarter,
           \A i \in 1 .. (n - 1) : fs[i].to - fs[1].from < Quarter
    PROVE  n < k /\ Edge(fs[n].to, fs[n + 1].from, j + 1)
<1> DEFINE p == IF n = 1 THEN fs[1].from ELSE fs[n - 1].to
<1>0. /\ k \in Nat /\ n \in Nat /\ 1 \in 1 .. k /\ Len(fs) \in Nat /\ k <= Len(fs)
      /\ \A i \in 1 .. k : i \in 1 .. Len(fs)
  BY LenProperties
<1>1. /\ k \in Nat /\ n \in Nat /\ 1 \in 1 .. k /\ k <= Len(fs)
      /\ \A i \in 1 .. k : fs[i].from \in Nat /\ fs[i].to \in Nat /\ i \in 1 .. Len(fs)
  BY <1>0, BlockAt
<1>2. p \in Nat /\ fs[n].from \in Nat /\ fs[n].to \in Nat /\ fs[1].from \in Nat
  BY <1>1
<1>3. p - fs[1].from < Quarter /\ (p = fs[n].from \/ GapOk(p, fs[n].from))
  <2>1. CASE n = 1
    <3>1. Quarter > 0
      BY SizeFacts
    <3> QED
      BY <2>1, <3>1, <1>1, SizeFacts
  <2>2. CASE n # 1
    <3>1. n - 1 \in 1 .. (k - 1) /\ n - 1 \in 1 .. (n - 1) /\ (n - 1) + 1 = n
      BY <2>2, <1>1
    <3> QED
      BY <2>2, <3>1 DEF Lap
  <2> QED
    BY <2>1, <2>2
<1>4. fs[n].from < fs[n].to
  BY DEF Lap
<1>5. fs[n].to - fs[n].from <= MaxSize + Spare
  BY <1>1 DEF Sizes
<1>6. fs[n].to # MaxEnd
  BY <1>2, <1>3, <1>4, <1>5, StopNumbers
<1>7. n < k
  BY <1>1, <1>6
<1>8. n + 1 \in 1 .. k /\ n \in 1 .. (k - 1) /\ fs[n + 1].from \in Nat
  BY <1>1, <1>7
<1>9. fs[n].to - fs[n].from <= MaxSize
  BY <1>1, <1>7 DEF Sizes
<1>10. fs[n].to = fs[n + 1].from \/ GapOk(fs[n].to, fs[n + 1].from)
  BY <1>8 DEF Lap
<1>11. CASE p = fs[n].from
  BY <1>2, <1>3, <1>4, <1>7, <1>8, <1>9, <1>10, <1>11, StopNumbers
<1>12. CASE GapOk(p, fs[n].from)
  <2>1. p < fs[n].from /\ n # 1
    BY <1>12, <1>2 DEF GapOk
  <2>2. n - 1 \in 1 .. (k - 1) /\ n - 1 < n /\ (n - 1) + 1 = n /\ p = fs[n - 1].to
    BY <2>1, <1>8, <1>1, SMTT(30)
  <2>3. fs[n - 1].to # fs[n].from
    BY <2>1, <2>2, <1>2
  <2>4. fs[n].to # fs[n + 1].from => fs[n].from + Quarter <= fs[n + 1].from
    BY <1>8, <2>2, <2>3 DEF Lap
  <2>5. fs[n].to = fs[n + 1].from
    BY <1>2, <1>3, <1>4, <1>8, <1>9, <1>10, <1>12, <2>4, StopNumbers
  <2> QED
    BY <1>2, <1>3, <1>4, <1>7, <1>8, <1>9, <1>12, <2>5, StopNumbers
<1> QED
  BY <1>3, <1>7, <1>11, <1>12

-----------------------------------------------------------------------------
(* The ring.                                                               *)

\* The queue fs, with free pages st .. e - 1, whose first k blocks are of the
\* last lap.
Ring(fs, st, e, k) ==
    /\ fs \in Seq(Block) /\ k \in 0 .. Len(fs)
    /\ st \in Nat /\ e \in Nat /\ st <= e
    /\ Sizes(fs, k)
    /\ Lap(fs, 1, k) /\ Lap(fs, k + 1, Len(fs))
    /\ k = Len(fs) => k = 0 /\ st = 0
    /\ k < Len(fs) => fs[k + 1].from = 0 /\ fs[Len(fs)].to = st
    /\ k = 0 => e = MaxEnd
    /\ k > 0 =>
          /\ fs[k].to = MaxEnd
          /\ \E j \in {1, 2, 3} : Edge(e, fs[1].from, j)
          /\ \A i \in (k + 1) .. (Len(fs) - 1) :
                fs[i].to # fs[i + 1].from => fs[i + 1].from + Quarter <= e

\* The same when a flush begins: the last lap starts at x, where the new block
\* goes, and the memory between this lap and x is given up.
Flushing(fs, st, k, j) ==
    /\ fs \in Seq(Block) /\ k \in 1 .. Len(fs) /\ st \in Nat
    /\ j \in {0, 1, 2, 3} /\ Level(fs[1].from, j)
    /\ Sizes(fs, k)
    /\ Lap(fs, 1, k) /\ Lap(fs, k + 1, Len(fs))
    /\ fs[k].to = MaxEnd
    /\ k = Len(fs) => fs[1].from = 0
    /\ k < Len(fs) =>
          /\ fs[k + 1].from = 0 /\ fs[Len(fs)].to = st
          /\ st = fs[1].from \/ GapOk(st, fs[1].from)
          /\ \A i \in (k + 1) .. (Len(fs) - 1) :
                fs[i].to # fs[i + 1].from => fs[i + 1].from + Quarter <= fs[1].from

LEMMA LapPart ==
    ASSUME NEW fs, NEW a \in Nat, NEW b \in Nat, NEW c \in Nat, a <= c, Lap(fs, a, b)
    PROVE  Lap(fs, c, b)
<1>1. /\ \A i \in c .. b : i \in a .. b
      /\ \A i \in c .. (b - 1) : i \in a .. (b - 1)
  OBVIOUS
<1> QED
  BY <1>1 DEF Lap

LEMMA LapShift ==
    ASSUME NEW fs, NEW g, NEW n \in Nat, NEW a \in Nat, NEW b \in Nat,
           \A i \in a .. b : g[i] = fs[n + i],
           Lap(fs, n + a, n + b)
    PROVE  Lap(g, a, b)
<1>1. \A i \in a .. b : n + i \in (n + a) .. (n + b)
  OBVIOUS
<1>2. \A i \in a .. (b - 1) :
         /\ n + i \in (n + a) .. (n + b - 1) /\ g[i] = fs[n + i]
         /\ g[i + 1] = fs[n + i + 1]
  OBVIOUS
<1>3. \A i \in a .. b : g[i].from < g[i].to
  BY <1>1 DEF Lap
<1>4. \A i, j \in a .. b : i < j => g[i].to <= g[j].from
  BY <1>1 DEF Lap
<1>5. \A i \in a .. (b - 1) : g[i].to = g[i + 1].from \/ GapOk(g[i].to, g[i + 1].from)
  BY <1>2 DEF Lap
<1>6. ASSUME NEW i \in a .. (b - 1), NEW j \in a .. (b - 1), i < j,
             g[i].to # g[i + 1].from, g[j].to # g[j + 1].from
      PROVE  g[i + 1].from + Quarter <= g[j + 1].from
  BY <1>2, <1>6 DEF Lap
<1> QED
  BY <1>3, <1>4, <1>5, <1>6 DEF Lap

\* The blocks of this lap end at st; those of the last lap start behind x.
LEMMA LapEnds ==
    ASSUME NEW fs \in Seq(Block), NEW k \in 0 .. Len(fs),
           Lap(fs, 1, k), Lap(fs, k + 1, Len(fs))
    PROVE  /\ \A i \in 1 .. k : fs[1].from <= fs[i].from /\ fs[i].to <= fs[k].to
           /\ \A i \in 1 .. k : i > 1 => fs[1].from < fs[i].from
           /\ \A i \in 1 .. k : i < k => fs[i].to < fs[k].to
           /\ \A i \in (k + 1) .. Len(fs) : fs[i].to <= fs[Len(fs)].to
<1>1. Len(fs) \in Nat /\ \A i \in 1 .. Len(fs) : fs[i].from \in Nat /\ fs[i].to \in Nat
  BY BlockAt, LenProperties
<1>2. ASSUME NEW i \in 1 .. k PROVE /\ fs[1].from <= fs[i].from /\ fs[i].to <= fs[k].to
                                    /\ i > 1 => fs[1].from < fs[i].from
                                    /\ i < k => fs[i].to < fs[k].to
  <2>1. 1 \in 1 .. k /\ k \in 1 .. k /\ i \in 1 .. Len(fs) /\ 1 \in 1 .. Len(fs) /\ k \in 1 .. Len(fs)
    BY <1>1
  <2>2. fs[1].from < fs[1].to /\ fs[k].from < fs[k].to /\ fs[i].from < fs[i].to
    BY <2>1 DEF Lap
  <2>3. i > 1 => fs[1].to <= fs[i].from
    BY <2>1 DEF Lap
  <2>4. i < k => fs[i].to <= fs[k].from
    BY <2>1 DEF Lap
  <2>5. i = 1 \/ i > 1
    BY <1>1
  <2>6. i = k \/ i < k
    BY <1>1
  <2>7. fs[1].from <= fs[i].from /\ (i > 1 => fs[1].from < fs[i].from)
    BY <1>1, <2>1, <2>2, <2>3, <2>5
  <2>8. fs[i].to <= fs[k].to /\ (i < k => fs[i].to < fs[k].to)
    BY <1>1, <2>1, <2>2, <2>4, <2>6
  <2> QED
    BY <2>7, <2>8
<1>3. ASSUME NEW i \in (k + 1) .. Len(fs) PROVE fs[i].to <= fs[Len(fs)].to
  <2>1. Len(fs) \in (k + 1) .. Len(fs) /\ i \in 1 .. Len(fs) /\ Len(fs) \in 1 .. Len(fs)
    BY <1>1
  <2>2. i = Len(fs) \/ fs[i].to <= fs[Len(fs)].from
    BY <2>1, <1>1 DEF Lap
  <2>3. fs[Len(fs)].from < fs[Len(fs)].to
    BY <2>1 DEF Lap
  <2> QED
    BY <1>1, <2>1, <2>2, <2>3
<1> QED
  BY <1>2, <1>3

\* Where reset_blocks stops.
LEMMA FlushStops ==
    ASSUME NEW fs, NEW st, NEW k, NEW j, Flushing(fs, st, k, j),
           NEW n \in 1 .. Len(fs), Pops(fs, n), NEW size \in CodeSizes
    PROVE  /\ n \in 1 .. k
           /\ n < k => /\ j # 3 /\ fs[1].from + Quarter <= fs[n].to
                       /\ Edge(fs[n].to, fs[n + 1].from, j + 1)
           /\ fs[1].from + size <= fs[n].to
<1>0. /\ fs \in Seq(Block) /\ k \in 1 .. Len(fs) /\ j \in {0, 1, 2, 3}
      /\ Level(fs[1].from, j) /\ Sizes(fs, k) /\ fs[k].to = MaxEnd
      /\ Lap(fs, 1, k) /\ Lap(fs, k + 1, Len(fs))
      /\ k = Len(fs) => fs[1].from = 0
      /\ k < Len(fs) => fs[k + 1].from = 0
  BY DEF Flushing
<1>1. /\ Len(fs) \in Nat /\ k \in Nat /\ n \in Nat
      /\ \A i \in 1 .. Len(fs) : fs[i].from \in Nat /\ fs[i].to \in Nat
  BY <1>0, BlockAt, LenProperties
<1>2. /\ \A i \in 1 .. k : fs[1].from <= fs[i].from /\ fs[i].to <= fs[k].to
      /\ \A i \in 1 .. k : i > 1 => fs[1].from < fs[i].from
      /\ \A i \in 1 .. k : i < k => fs[i].to < fs[k].to
  <2>1. k \in 0 .. Len(fs)
    BY <1>0
  <2> QED
    BY <1>0, <2>1, LapEnds
<1>3. 1 \in 1 .. k /\ fs[1].from \in Nat /\ fs[k].to \in Nat
  BY <1>0, <1>1
<1>4. j # 3 => fs[k].to - fs[1].from >= Quarter
  <2>1. CASE j = 0
    BY <2>1, <1>0, <1>3, SizeFacts DEF Level
  <2>2. CASE j = 1
    BY <2>2, <1>0, <1>3, SizeFacts DEF Level
  <2>3. CASE j = 2
    BY <2>3, <1>0, <1>3, SizeFacts DEF Level
  <2> QED
    BY <1>0, <2>1, <2>2, <2>3
<1>5. j = 3 => k < Len(fs) /\ fs[k + 1].to < fs[1].from
  <2> SUFFICES ASSUME j = 3 PROVE k < Len(fs) /\ fs[k + 1].to < fs[1].from
    OBVIOUS
  <2>1. fs[1].from >= 3 * Quarter /\ fs[1].from # 0
    BY <1>0, <1>3, LevelThree
  <2>2. k < Len(fs) /\ k + 1 \in 1 .. Len(fs) /\ k + 1 # k
    BY <2>1, <1>0, <1>1
  <2>3. fs[k + 1].to - fs[k + 1].from <= MaxSize
    BY <2>2, <1>0 DEF Sizes
  <2>4. fs[k + 1].from = 0 /\ fs[k + 1].to \in Nat
    BY <2>2, <1>0, <1>1
  <2> QED
    BY <2>1, <2>2, <2>3, <2>4, <1>3, SizeFacts
<1>6. StopsAt(fs, k)
  BY <1>4, <1>5 DEF StopsAt
<1>7. n \in 1 .. k
  <2>1. ~(k \in 1 .. (n - 1))
    BY <1>6 DEF Pops
  <2> QED
    BY <2>1, <1>0, <1>1
<1>8. ASSUME n < k PROVE fs[n].to - fs[1].from >= Quarter
  <2>1. n + 1 \in 1 .. k /\ n + 1 > 1 /\ n + 1 \in 1 .. Len(fs)
    BY <1>8, <1>0, <1>1
  <2>2. fs[1].from < fs[n + 1].from /\ fs[n + 1].from < fs[n + 1].to
    BY <2>1, <1>0, <1>2 DEF Lap
  <2>3. ~(fs[n + 1].to < fs[1].from)
    BY <2>1, <2>2, <1>1, <1>3
  <2> QED
    BY <2>3 DEF Pops, StopsAt
<1>9. \A i \in 1 .. (n - 1) : fs[i].to - fs[1].from < Quarter
  <2> SUFFICES ASSUME NEW i \in 1 .. (n - 1) PROVE fs[i].to - fs[1].from < Quarter
    OBVIOUS
  <2>1. i \in 1 .. Len(fs) /\ fs[i].to \in Nat
    BY <1>1
  <2>2. ~(fs[i].to - fs[1].from >= Quarter)
    BY DEF Pops, StopsAt
  <2> QED
    BY <2>1, <2>2, <1>3, SizeAssumption, SMTT(30)
<1>10. CASE j = 3
  <2>1. n = k
    <3> SUFFICES ASSUME n < k PROVE FALSE
      BY <1>1, <1>7
    <3>1. fs[n].to < fs[k].to /\ fs[n].to \in Nat
      BY <1>1, <1>2, <1>7
    <3>2. fs[1].from >= 3 * Quarter /\ fs[n].to - fs[1].from >= Quarter
      BY <1>0, <1>3, <1>8, <1>10, LevelThree
    <3>3. fs[n].to < 4 * Quarter
      BY <1>0, <3>1, SizeFacts
    <3>4. Quarter \in Nat
      BY SizeAssumption
    <3> QED
      BY <3>1, <3>2, <3>3, <3>4, <1>3
  <2>2. fs[1].from + size <= fs[k].to
    BY <1>0, <1>3, <1>10, SizeFacts DEF Level
  <2> QED
    BY <2>1, <2>2, <1>7, <1>1
<1>11. CASE j # 3
  <2>1. fs[n].to - fs[1].from >= Quarter
    BY <1>4, <1>7, <1>8, <1>11, <1>1
  <2>2. j = 0 \/ j = 1 \/ j = 2
    BY <1>0, <1>11
  <2>3. n < k /\ Edge(fs[n].to, fs[n + 1].from, j + 1)
    BY <1>0, <1>7, <1>9, <2>1, <2>2, StopPlace
  <2>4. fs[n].to \in Nat /\ size <= Quarter /\ size \in Nat
    BY <1>1, SizeFacts
  <2> QED
    BY <2>1, <2>3, <2>4, <1>3, <1>7, <1>11, SizeFacts, SMTT(30)
<1> QED
  BY <1>10, <1>11

\* After a flush the ring is again one, with the rest of the freed lap as its
\* last lap.
LEMMA FlushRing ==
    ASSUME NEW fs, NEW st, NEW k, NEW j, Flushing(fs, st, k, j),
           NEW n \in 1 .. Len(fs), Pops(fs, n), NEW size \in CodeSizes,
           NEW b \in Block, b.from = fs[1].from, b.to = fs[1].from + size
    PROVE  Ring(Append(SubSeq(fs, n + 1, Len(fs)), b), b.to, fs[n].to, k - n)
<1> DEFINE L == Len(fs)
           x == fs[1].from
           g == Append(SubSeq(fs, n + 1, L), b)
<1>0. /\ fs \in Seq(Block) /\ k \in 1 .. L /\ st \in Nat
      /\ Sizes(fs, k) /\ fs[k].to = MaxEnd
      /\ Lap(fs, 1, k) /\ Lap(fs, k + 1, L)
      /\ k = L => x = 0
      /\ k < L => /\ fs[k + 1].from = 0 /\ fs[L].to = st
                  /\ st = x \/ GapOk(st, x)
                  /\ \A i \in (k + 1) .. (L - 1) :
                        fs[i].to # fs[i + 1].from => fs[i + 1].from + Quarter <= x
  BY DEF Flushing
<1>1. /\ L \in Nat /\ k \in Nat /\ n \in Nat
      /\ \A i \in 1 .. L : fs[i].from \in Nat /\ fs[i].to \in Nat
  BY <1>0, BlockAt, LenProperties
<1>2. /\ n \in 1 .. k
      /\ n < k => /\ j # 3 /\ x + Quarter <= fs[n].to
                  /\ Edge(fs[n].to, fs[n + 1].from, j + 1)
      /\ x + size <= fs[n].to
  BY FlushStops
<1>3. /\ g \in Seq(Block) /\ Len(g) = L - n + 1
      /\ \A i \in 1 .. (L - n) : g[i] = fs[n + i]
      /\ g[L - n + 1] = b
  <2>1. /\ SubSeq(fs, n + 1, L) \in Seq(Block) /\ Len(SubSeq(fs, n + 1, L)) = L - n
        /\ \A i \in 1 .. (L - n) : SubSeq(fs, n + 1, L)[i] = fs[n + i]
    <3>1. n + 1 \in 1 .. (L + 1) /\ L \in (n + 1) - 1 .. L
      BY <1>1
    <3> QED
      BY <3>1, <1>0, <1>1, SubSeqProperties
  <2> QED
    BY <2>1, <1>1, AppendProperties
<1> HIDE DEF g
<1>4. \A i \in (k + 1) .. L : fs[i].to <= st /\ st <= x /\ fs[i].to <= x
  <2> SUFFICES ASSUME NEW i \in (k + 1) .. L PROVE fs[i].to <= st /\ st <= x /\ fs[i].to <= x
    OBVIOUS
  <2>1. k < L /\ k \in 0 .. L /\ i \in 1 .. L /\ 1 \in 1 .. L
    BY <1>0, <1>1
  <2>2. fs[i].to <= fs[L].to
    BY <2>1, <1>0, LapEnds
  <2>3. st <= x
    BY <2>1, <1>0, <1>1 DEF GapOk
  <2> QED
    BY <2>1, <2>2, <2>3, <1>0, <1>1
<1>5. k - n \in 0 .. Len(g) /\ k - n < Len(g) /\ k - n \in Nat
  BY <1>0, <1>1, <1>2, <1>3
<1>6. b.to \in Nat /\ fs[n].to \in Nat /\ b.to <= fs[n].to /\ b.from = x
  <2>1. n \in 1 .. L
    BY <1>1
  <2> QED
    BY <1>1, <1>2, <2>1 DEF Block
<1>7. Sizes(g, k - n)
  <2> SUFFICES ASSUME NEW i \in 1 .. Len(g)
               PROVE  /\ g[i].to - g[i].from <= MaxSize + Spare
                      /\ i # k - n => g[i].to - g[i].from <= MaxSize
    BY DEF Sizes
  <2>1. CASE i \in 1 .. (L - n)
    <3>1. n + i \in 1 .. L /\ (i # k - n => n + i # k) /\ g[i] = fs[n + i]
      BY <2>1, <1>1, <1>3
    <3> QED
      BY <3>1, <1>0 DEF Sizes
  <2>2. CASE i = L - n + 1
    <3>1. g[i] = b /\ b.to - b.from = size
      BY <2>2, <1>3, <1>1, <1>6, SizeFacts, 1 \in 1 .. L
    <3> QED
      BY <3>1, SizeFacts, SMTT(30)
  <2> QED
    BY <2>1, <2>2, <1>1, <1>3
<1>8. Lap(g, 1, k - n)
  <2>1. \A i \in 1 .. (k - n) : g[i] = fs[n + i]
    BY <1>0, <1>1, <1>2, <1>3
  <2>2. Lap(fs, n + 1, n + (k - n))
    <3>1. n + (k - n) = k /\ 1 <= n + 1 /\ n + 1 \in Nat
      BY <1>1
    <3>2. Lap(fs, n + 1, k)
      BY <3>1, <1>0, <1>1, LapPart
    <3> QED
      BY <3>1, <3>2
  <2> QED
    BY <2>1, <2>2, <1>1, <1>5, LapShift
<1>9. Lap(g, k - n + 1, Len(g))
  <2> DEFINE a == k - n + 1
             M == Len(g)
  <2>0. a \in Nat /\ M \in Nat /\ M = L - n + 1 /\ a <= M /\ n + a = k + 1 /\ n + (M - 1) = L
    BY <1>0, <1>1, <1>2, <1>3
  <2>1. \A i \in a .. (M - 1) : g[i] = fs[n + i] /\ n + i \in (k + 1) .. L
    <3> SUFFICES ASSUME NEW i \in a .. (M - 1) PROVE g[i] = fs[n + i] /\ n + i \in (k + 1) .. L
      OBVIOUS
    <3> HIDE DEF M, a, L
    <3>1. a >= 1 /\ i \in Nat
      BY <1>1, <1>2, <2>0
    <3>2. i \in 1 .. (L - n) /\ n + i \in (k + 1) .. L
      <4>1. /\ k \in Nat /\ n \in Nat /\ L \in Nat /\ a \in Nat /\ M \in Nat /\ M = L - n + 1
            /\ n + a = k + 1 /\ a >= 1 /\ i \in a .. (M - 1)
        BY <3>1, <1>1, <2>0
      <4> QED
        BY ONLY <4>1
    <3> QED
      BY <3>2, <1>3
  <2>2. Lap(g, a, M - 1)
    <3>1. Lap(fs, n + a, n + (M - 1))
      BY <2>0, <1>0
    <3>2. M - 1 \in Nat /\ a \in Nat /\ n \in Nat
      BY <2>0, <1>1, <1>2
    <3>3. \A i \in a .. (M - 1) : g[i] = fs[n + i]
      BY <2>1
    <3> HIDE DEF M, a
    <3> QED
      BY <3>1, <3>2, <3>3, LapShift
  <2>3. g[M] = b /\ b.from < b.to /\ b.from = x /\ x \in Nat
    BY <1>1, <1>3, <1>6, <2>0, SizeFacts
  <2>4. \A i \in a .. (M - 1) : g[i].to <= x
    BY <2>1, <1>4
  <2>5. a <= M - 1 => g[M - 1].to = x \/ GapOk(g[M - 1].to, x)
    <3> SUFFICES ASSUME a <= M - 1 PROVE g[M - 1].to = x \/ GapOk(g[M - 1].to, x)
      OBVIOUS
    <3>1. M - 1 \in a .. (M - 1) /\ k < L
      BY <2>0, <1>1
    <3>2. g[M - 1] = fs[L]
      BY <3>1, <2>0, <2>1
    <3> QED
      BY <3>1, <3>2, <1>0
  <2>6. \A i \in a .. (M - 2) : g[i].to # g[i + 1].from => g[i + 1].from + Quarter <= x
    <3> SUFFICES ASSUME NEW i \in a .. (M - 2), g[i].to # g[i + 1].from
                 PROVE  g[i + 1].from + Quarter <= x
      OBVIOUS
    <3>1. i \in a .. (M - 1) /\ i + 1 \in a .. (M - 1) /\ n + i \in (k + 1) .. (L - 1) /\ k < L
      BY <2>0, <1>1
    <3>2. g[i] = fs[n + i] /\ g[i + 1] = fs[n + i + 1]
      BY <3>1, <2>0, <2>1
    <3> QED
      BY <3>1, <3>2, <1>0
  <2>7. \A i \in a .. M : g[i].from < g[i].to
    <3> HIDE DEF M, a
    <3> QED
      BY <2>0, <2>2, <2>3 DEF Lap
  <2>8. \A i, l \in a .. M : i < l => g[i].to <= g[l].from
    <3> HIDE DEF M, a
    <3> QED
      BY <2>0, <2>2, <2>3, <2>4 DEF Lap
  <2>9. \A i \in a .. (M - 1) : g[i].to = g[i + 1].from \/ GapOk(g[i].to, g[i + 1].from)
    <3> HIDE DEF M, a
    <3> SUFFICES ASSUME NEW i \in a .. (M - 1)
                 PROVE  g[i].to = g[i + 1].from \/ GapOk(g[i].to, g[i + 1].from)
      OBVIOUS
    <3>1. CASE i = M - 1
      BY <3>1, <2>0, <2>3, <2>5
    <3>2. CASE i # M - 1
      <4>1. i \in a .. ((M - 1) - 1)
        BY <3>2, <2>0
      <4> QED
        BY <4>1, <2>2 DEF Lap
    <3> QED
      BY <3>1, <3>2
  <2>10. ASSUME NEW i \in a .. (M - 1), NEW l \in a .. (M - 1), i < l,
                g[i].to # g[i + 1].from, g[l].to # g[l + 1].from
         PROVE  g[i + 1].from + Quarter <= g[l + 1].from
    <3> HIDE DEF M, a
    <3>1. CASE l = M - 1
      BY <3>1, <2>0, <2>3, <2>6, <2>10
    <3>2. CASE l # M - 1
      <4>1. i \in a .. ((M - 1) - 1) /\ l \in a .. ((M - 1) - 1)
        <5>1. /\ a \in Nat /\ M \in Nat /\ i \in a .. (M - 1) /\ l \in a .. (M - 1)
              /\ i < l /\ l # M - 1
          BY <3>2, <2>0, <2>10
        <5> QED
          BY ONLY <5>1
      <4> QED
        BY <4>1, <2>2, <2>10 DEF Lap
    <3> QED
      BY <3>1, <3>2
  <2> QED
    BY <2>7, <2>8, <2>9, <2>10 DEF Lap
<1>10. g[k - n + 1].from = 0 /\ g[Len(g)].to = b.to
  <2>1. CASE k = L
    BY <2>1, <1>0, <1>1, <1>3
  <2>2. CASE k # L
    <3>1. k - n + 1 \in 1 .. (L - n) /\ n + (k - n + 1) = k + 1 /\ k < L
      BY <2>2, <1>0, <1>1, <1>2
    <3> QED
      BY <3>1, <1>0, <1>1, <1>3
  <2> QED
    BY <2>1, <2>2
<1>11. k - n = 0 => fs[n].to = MaxEnd
  BY <1>0, <1>1, <1>2
<1>12. ASSUME k - n > 0
       PROVE  /\ g[k - n].to = MaxEnd
              /\ \E i \in {1, 2, 3} : Edge(fs[n].to, g[1].from, i)
              /\ \A i \in (k - n + 1) .. (Len(g) - 1) :
                    g[i].to # g[i + 1].from => g[i + 1].from + Quarter <= fs[n].to
  <2>1. n < k /\ k - n \in 1 .. (L - n) /\ n + (k - n) = k /\ 1 \in 1 .. (L - n) /\ 1 \in 1 .. L
    BY <1>12, <1>0, <1>1, <1>2, SMTT(30)
  <2>2. g[k - n] = fs[k] /\ g[1] = fs[n + 1]
    BY <2>1, <1>3
  <2>3. \E i \in {1, 2, 3} : Edge(fs[n].to, g[1].from, i)
    <3>1. j + 1 \in {1, 2, 3}
      BY <2>1, <1>2 DEF Flushing
    <3> QED
      BY <3>1, <2>1, <2>2, <1>2
  <2>4. ASSUME NEW i \in (k - n + 1) .. (Len(g) - 1), g[i].to # g[i + 1].from
        PROVE  g[i + 1].from + Quarter <= fs[n].to
    <3>1. CASE i = L - n
      BY <3>1, <1>3, <1>1, <1>2, <1>6, <2>1
    <3>2. CASE i # L - n
      <4>1. /\ i \in 1 .. (L - n) /\ i + 1 \in 1 .. (L - n) /\ k < L
            /\ n + i \in (k + 1) .. (L - 1) /\ n + (i + 1) = (n + i) + 1 /\ (n + i) + 1 \in 1 .. L
        <5>1. i \in (k - n + 1) .. (L - n - 1)
          BY <3>2, <1>1, <1>3
        <5>2. k \in Nat /\ n \in Nat /\ L \in Nat /\ n <= k
          BY <1>1, <1>2
        <5> HIDE DEF L
        <5> QED
          BY ONLY <5>1, <5>2
      <4>2. g[i] = fs[n + i] /\ g[i + 1] = fs[(n + i) + 1]
        BY <4>1, <1>3
      <4>3. g[i + 1].from + Quarter <= x
        <5>1. fs[n + i].to # fs[(n + i) + 1].from
          BY <4>2, <2>4
        <5> QED
          BY <5>1, <4>1, <4>2, <1>0
      <4>4. g[i + 1].from \in Nat /\ x \in Nat /\ fs[n].to \in Nat
        BY <4>1, <4>2, <1>1, <1>6, <2>1
      <4>5. x + Quarter <= fs[n].to /\ Quarter \in Nat
        BY <1>2, <2>1, SizeAssumption
      <4> HIDE DEF x
      <4> QED
        BY <4>3, <4>4, <4>5, Between
    <3> QED
      BY <3>1, <3>2
  <2> QED
    BY <2>2, <2>3, <2>4, <1>0
<1>13. Ring(g, b.to, fs[n].to, k - n)
  BY <1>3, <1>5, <1>6, <1>7, <1>8, <1>9, <1>10, <1>11, <1>12 DEF Ring
<1> QED
  BY <1>13 DEF g

-----------------------------------------------------------------------------
(* The steps of the ring.                                                  *)

\* The block at a target ends behind it, at the first word that ends a block.
LEMMA BlockEndFacts ==
    ASSUME NEW pc \in Targets
    PROVE  pc \in Words /\ pc \in Nat /\ BlockEnd(pc) \in Nat /\ pc < BlockEnd(pc)
<1> DEFINE T == {e \in BlockEnds : e >= pc}
<1>1. pc \in Nat /\ pc \in Words /\ T # {} /\ T \subseteq Nat
  BY GuestAssumption
<1> DEFINE Less == OpToRel(<, Nat)
<1>2. /\ IsWellFoundedOn(Less, Nat)
      /\ \A x, y \in Nat : x < y => <<x, y>> \in Less
  BY NatLessThanWellFounded DEF OpToRel
<1> HIDE DEF Less
<1>3. PICK x \in T : \A y \in T : ~(<<y, x>> \in Less)
  <2>1. T \subseteq Nat /\ T # {} /\ IsWellFoundedOn(Less, Nat)
    BY <1>1, <1>2
  <2> HIDE DEF T
  <2> QED
    BY ONLY <2>1, WFMin
<1>4. \A y \in T : x <= y
  <2> SUFFICES ASSUME NEW y \in T PROVE x <= y
    OBVIOUS
  <2>1. x \in Nat /\ y \in Nat
    BY <1>1
  <2>2. ~(y < x)
    BY <2>1, <1>2, <1>3, Zenon
  <2> QED
    BY <2>1, <2>2
<1>5. \E e \in BlockEnds : e >= pc /\ \A f \in BlockEnds : f >= pc => e <= f
  BY <1>4
<1>6. PICK e \in BlockEnds : e >= pc /\ BlockEnd(pc) = 1 + e
  BY <1>5 DEF BlockEnd
<1>7. e \in Nat
  BY GuestAssumption
<1> QED
  BY <1>1, <1>6, <1>7

LEMMA NewBlockFacts ==
    ASSUME NEW pc \in Targets, NEW from \in Nat, NEW size \in CodeSizes
    PROVE  /\ NewBlock(pc, from, size) \in Block
           /\ NewBlock(pc, from, size).from = from
           /\ NewBlock(pc, from, size).to = from + size
           /\ from + size \in Nat
<1>1. from + size \in Nat /\ BlockEnd(pc) \in Nat
  BY SizeFacts, BlockEndFacts
<1> QED
  BY <1>1 DEF NewBlock, Block

\* Where the free pages suffice, the block is the next of this lap.
LEMMA FitRing ==
    ASSUME NEW fs, NEW st, NEW e, NEW k, Ring(fs, st, e, k),
           NEW size \in CodeSizes, st + size <= e,
           NEW b \in Block, b.from = st, b.to = st + size
    PROVE  Ring(Append(fs, b), b.to, e, k)
<1> DEFINE L == Len(fs)
           g == Append(fs, b)
<1>0. /\ fs \in Seq(Block) /\ k \in 0 .. L /\ st \in Nat /\ e \in Nat
      /\ Sizes(fs, k) /\ Lap(fs, 1, k) /\ Lap(fs, k + 1, L)
      /\ k = L => k = 0 /\ st = 0
      /\ k < L => fs[k + 1].from = 0 /\ fs[L].to = st
      /\ k = 0 => e = MaxEnd
      /\ k > 0 => /\ fs[k].to = MaxEnd
                  /\ \E j \in {1, 2, 3} : Edge(e, fs[1].from, j)
                  /\ \A i \in (k + 1) .. (L - 1) :
                        fs[i].to # fs[i + 1].from => fs[i + 1].from + Quarter <= e
  BY DEF Ring
<1>1. /\ L \in Nat /\ k \in Nat /\ size \in Nat /\ size >= 1 /\ size <= MaxSize
      /\ \A i \in 1 .. L : fs[i].from \in Nat /\ fs[i].to \in Nat
  BY <1>0, BlockAt, LenProperties, SizeFacts
<1>2. g \in Seq(Block) /\ Len(g) = L + 1 /\ (\A i \in 1 .. L : g[i] = fs[i]) /\ g[L + 1] = b
  BY <1>0, AppendProperties
<1> HIDE DEF g
<1>3. Sizes(g, k)
  <2> SUFFICES ASSUME NEW i \in 1 .. Len(g)
               PROVE  /\ g[i].to - g[i].from <= MaxSize + Spare
                      /\ i # k => g[i].to - g[i].from <= MaxSize
    BY DEF Sizes
  <2>1. CASE i \in 1 .. L
    BY <2>1, <1>0, <1>2 DEF Sizes
  <2>2. CASE i = L + 1
    <3>1. g[i] = b /\ b.to - b.from = size
      BY <2>2, <1>0, <1>1, <1>2
    <3> QED
      BY <3>1, <1>1, SizeFacts, SMTT(30)
  <2> QED
    BY <2>1, <2>2, <1>1, <1>2
<1>4. Lap(g, 1, k)
  <2>1. \A i \in 1 .. k : g[i] = fs[0 + i]
    BY <1>0, <1>1, <1>2
  <2>2. Lap(fs, 0 + 1, 0 + k)
    BY <1>0, <1>1
  <2>3. 0 \in Nat /\ 1 \in Nat /\ k \in Nat
    BY <1>1
  <2> QED
    BY <2>1, <2>2, <2>3, LapShift
<1>5. \A i \in (k + 1) .. L : fs[i].to <= st
  <2> SUFFICES ASSUME NEW i \in (k + 1) .. L PROVE fs[i].to <= st
    OBVIOUS
  <2>1. fs[i].to <= fs[L].to /\ k < L
    BY <1>0, <1>1, LapEnds
  <2> QED
    BY <2>1, <1>0
<1>6. Lap(g, k + 1, L + 1)
  <2>1. \A i \in (k + 1) .. L : g[i] = fs[i] /\ g[i].to <= st
    BY <1>0, <1>1, <1>2, <1>5
  <2>2. \A i \in (k + 1) .. (L - 1) : g[i] = fs[i] /\ g[i + 1] = fs[i + 1]
    <3>1. \A i \in (k + 1) .. (L - 1) : i \in 1 .. L /\ i + 1 \in 1 .. L
      BY <1>1
    <3> QED
      BY <3>1, <1>2
  <2>3. \A i \in (k + 1) .. L : i # L => i \in (k + 1) .. (L - 1)
    BY <1>1
  <2>4. k < L => g[L].to = g[L + 1].from
    BY <1>0, <1>1, <1>2, SMTT(30)
  <2>5. \A i \in (k + 1) .. (L + 1) : g[i].from < g[i].to
    <3> SUFFICES ASSUME NEW i \in (k + 1) .. (L + 1) PROVE g[i].from < g[i].to
      OBVIOUS
    <3>1. CASE i = L + 1
      BY <3>1, <1>0, <1>1, <1>2
    <3>2. CASE i # L + 1
      <4>1. i \in (k + 1) .. L
        BY <3>2, <1>1
      <4> QED
        BY <4>1, <2>1, <1>0 DEF Lap
    <3> QED
      BY <3>1, <3>2
  <2>6. ASSUME NEW i \in (k + 1) .. (L + 1), NEW j \in (k + 1) .. (L + 1), i < j
        PROVE  g[i].to <= g[j].from
    <3>1. i \in (k + 1) .. L
      BY <2>6, <1>1
    <3>2. CASE j = L + 1
      BY <3>1, <3>2, <2>1, <1>2
    <3>3. CASE j # L + 1
      <4>1. j \in (k + 1) .. L
        BY <3>3, <1>1
      <4> QED
        BY <4>1, <3>1, <2>1, <2>6, <1>0 DEF Lap
    <3> QED
      BY <3>2, <3>3
  <2>7. ASSUME NEW i \in (k + 1) .. L
        PROVE  g[i].to = g[i + 1].from \/ GapOk(g[i].to, g[i + 1].from)
    <3>1. CASE i = L
      BY <3>1, <2>4, <1>1
    <3>2. CASE i # L
      BY <3>2, <2>2, <2>3, <1>0 DEF Lap
    <3> QED
      BY <3>1, <3>2
  <2>8. ASSUME NEW i \in (k + 1) .. L, NEW j \in (k + 1) .. L, i < j,
               g[i].to # g[i + 1].from, g[j].to # g[j + 1].from
        PROVE  g[i + 1].from + Quarter <= g[j + 1].from
    <3>0. k \in Nat /\ L \in Nat /\ i \in (k + 1) .. L /\ j \in (k + 1) .. L /\ i < j
      BY <2>8, <1>1
    <3>1. j # L /\ i # L
      <4>1. k < L /\ i # L
        BY ONLY <3>0
      <4>2. j # L
        BY <4>1, <2>4, <2>8
      <4> QED
        BY <4>1, <4>2
    <3> QED
      BY <3>1, <2>2, <2>3, <2>8, <1>0 DEF Lap
  <2>9. (L + 1) - 1 = L
    BY <1>1
  <2> QED
    BY <2>5, <2>6, <2>7, <2>8, <2>9 DEF Lap
<1>7. g[k + 1].from = 0 /\ g[Len(g)].to = b.to
  <2>1. CASE k = L
    BY <2>1, <1>0, <1>2
  <2>2. CASE k # L
    <3>1. k < L /\ k + 1 \in 1 .. L
      BY <2>2, <1>0, <1>1
    <3> QED
      BY <3>1, <1>0, <1>2
  <2> QED
    BY <2>1, <2>2
<1>8. ASSUME k > 0
      PROVE  /\ g[k].to = MaxEnd
             /\ \E j \in {1, 2, 3} : Edge(e, g[1].from, j)
             /\ \A i \in (k + 1) .. (Len(g) - 1) :
                   g[i].to # g[i + 1].from => g[i + 1].from + Quarter <= e
  <2>1. g[k] = fs[k] /\ g[1] = fs[1] /\ k < L
    BY <1>8, <1>0, <1>1, <1>2
  <2>2. ASSUME NEW i \in (k + 1) .. (Len(g) - 1), g[i].to # g[i + 1].from
        PROVE  g[i + 1].from + Quarter <= e
    <3>0. g[L].to = st /\ g[L + 1].from = st
      BY <2>1, <1>0, <1>1, <1>2, SMTT(30)
    <3>1. i # L
      BY <3>0, <2>2
    <3>2. i \in (k + 1) .. (L - 1) /\ g[i] = fs[i] /\ g[i + 1] = fs[i + 1]
      BY <3>1, <2>2, <1>1, <1>2
    <3> QED
      BY <3>2, <2>2, <1>0, <1>8
  <2> QED
    BY <2>1, <2>2, <1>0, <1>8
<1>9. k \in 0 .. Len(g) /\ k < Len(g) /\ b.to \in Nat /\ b.to <= e
  <2>1. b.to \in Nat
    BY DEF Block
  <2>2. k \in 0 .. Len(g) /\ k < Len(g)
    BY <1>0, <1>1, <1>2
  <2> QED
    BY <2>1, <2>2
<1>10. Ring(g, b.to, e, k)
  BY <1>0, <1>2, <1>3, <1>4, <1>6, <1>7, <1>8, <1>9 DEF Ring
<1> QED
  BY <1>10 DEF g

\* A flush in the middle of a lap.
LEMMA FlushInLap ==
    ASSUME NEW fs, NEW st, NEW e, NEW k, Ring(fs, st, e, k),
           NEW size \in CodeSizes, st + size > e, st + size <= MaxEnd
    PROVE  \E j \in {1, 2, 3} : Flushing(fs, st, k, j)
<1> DEFINE L == Len(fs)
           x == fs[1].from
<1>0. /\ fs \in Seq(Block) /\ k \in 0 .. L /\ st \in Nat /\ e \in Nat /\ st <= e
      /\ Sizes(fs, k) /\ Lap(fs, 1, k) /\ Lap(fs, k + 1, L)
      /\ k = L => k = 0 /\ st = 0
      /\ k < L => fs[k + 1].from = 0 /\ fs[L].to = st
      /\ k = 0 => e = MaxEnd
      /\ k > 0 => /\ fs[k].to = MaxEnd
                  /\ \E j \in {1, 2, 3} : Edge(e, x, j)
                  /\ \A i \in (k + 1) .. (L - 1) :
                        fs[i].to # fs[i + 1].from => fs[i + 1].from + Quarter <= e
  BY DEF Ring
<1>1. /\ L \in Nat /\ k \in Nat /\ size \in Nat /\ size <= MaxSize
      /\ \A i \in 1 .. L : fs[i].from \in Nat /\ fs[i].to \in Nat
  BY <1>0, BlockAt, LenProperties, SizeFacts
<1>2. k > 0
  BY <1>0, <1>1, SizeFacts
<1>3. k < L /\ k \in 1 .. L /\ 1 \in 1 .. L /\ x \in Nat
  BY <1>0, <1>1, <1>2
<1>4. PICK j \in {1, 2, 3} : Edge(e, x, j)
  BY <1>0, <1>2
<1> HIDE DEF x
<1>5. e <= x /\ Level(x, j) /\ (st = x \/ GapOk(st, x))
  <2>1. CASE j = 1
    BY <2>1, <1>0, <1>1, <1>3, <1>4, SizeFacts DEF Edge, Level, GapOk, GapAt
  <2>2. CASE j = 2
    BY <2>2, <1>0, <1>1, <1>3, <1>4, SizeFacts DEF Edge, Level, GapOk, GapAt
  <2>3. CASE j = 3
    BY <2>3, <1>0, <1>1, <1>3, <1>4, SizeFacts DEF Edge, Level, GapOk, GapAt
  <2> QED
    BY <1>4, <2>1, <2>2, <2>3
<1>6. \A i \in (k + 1) .. (L - 1) :
         fs[i].to # fs[i + 1].from => fs[i + 1].from + Quarter <= x
  <2> SUFFICES ASSUME NEW i \in (k + 1) .. (L - 1), fs[i].to # fs[i + 1].from
               PROVE  fs[i + 1].from + Quarter <= x
    OBVIOUS
  <2>1. fs[i + 1].from + Quarter <= e
    BY <1>0, <1>2
  <2>2. i + 1 \in 1 .. L /\ fs[i + 1].from \in Nat
    BY <1>1
  <2>3. Quarter \in Nat
    BY SizeAssumption
  <2> QED
    BY <2>1, <2>2, <2>3, <1>0, <1>3, <1>5
<1>7. Flushing(fs, st, k, j)
  BY <1>0, <1>2, <1>3, <1>4, <1>5, <1>6 DEF Flushing, x
<1> QED
  BY <1>7

\* The end of a lap: its last block takes the rest of the memory.
LEMMA FlushAtEnd ==
    ASSUME NEW fs, NEW st, NEW e, NEW k, Ring(fs, st, e, k),
           NEW size \in CodeSizes, st + size > MaxEnd
    PROVE  /\ fs # <<>>
           /\ Flushing([fs EXCEPT ![Len(fs)].to = MaxEnd], st, Len(fs), 0)
<1> DEFINE L == Len(fs)
           g == [fs EXCEPT ![Len(fs)].to = MaxEnd]
<1>0. /\ fs \in Seq(Block) /\ k \in 0 .. L /\ st \in Nat /\ e \in Nat /\ st <= e
      /\ Sizes(fs, k) /\ Lap(fs, 1, k) /\ Lap(fs, k + 1, L)
      /\ k = L => k = 0 /\ st = 0
      /\ k < L => fs[k + 1].from = 0 /\ fs[L].to = st
      /\ k = 0 => e = MaxEnd
      /\ k > 0 => \E j \in {1, 2, 3} : Edge(e, fs[1].from, j)
  BY DEF Ring
<1>1. /\ L \in Nat /\ k \in Nat /\ size \in Nat /\ size <= MaxSize /\ MaxEnd \in Nat
      /\ \A i \in 1 .. L : fs[i] \in Block /\ fs[i].from \in Nat /\ fs[i].to \in Nat
  BY <1>0, BlockAt, LenProperties, SizeFacts
<1>2. k = 0
  <2> SUFFICES ASSUME k > 0 PROVE FALSE
    BY <1>1
  <2>1. fs[1].from \in Nat
    BY <1>0, <1>1
  <2>2. PICK j \in {1, 2, 3} : Edge(e, fs[1].from, j)
    BY <1>0
  <2>3. e <= fs[1].from /\ fs[1].from <= 3 * Quarter + 12 * Spare
    <3>1. CASE j = 1
      BY <3>1, <2>1, <2>2, <1>0, SizeFacts DEF Edge
    <3>2. CASE j = 2
      BY <3>2, <2>1, <2>2, <1>0, SizeFacts DEF Edge
    <3>3. CASE j = 3
      BY <3>3, <2>1, <2>2, <1>0, SizeFacts DEF Edge
    <3> QED
      BY <2>2, <3>1, <3>2, <3>3
  <2> QED
    BY <2>1, <2>3, <1>0, <1>1, SizeFacts
<1>3. L > 0 /\ 1 \in 1 .. L /\ L \in 1 .. L /\ fs[1].from = 0 /\ fs[L].to = st
  <2>1. st # 0
    <3>1. MaxSize \in Nat /\ Quarter \in Nat /\ MaxEnd = 4 * Quarter /\ MaxSize <= Quarter
      BY SizeFacts
    <3>2. size \in Nat /\ size <= MaxSize /\ size >= 1 /\ st \in Nat /\ st + size > MaxEnd
      BY <1>0, <1>1, SizeFacts
    <3> QED
      BY ONLY <3>1, <3>2
  <2>2. L # 0
    BY <2>1, <1>0, <1>2
  <2> QED
    BY <2>2, <1>0, <1>1, <1>2
<1>4. /\ g \in Seq(Block) /\ Len(g) = L
      /\ \A i \in 1 .. L : g[i].from = fs[i].from /\ (i # L => g[i].to = fs[i].to)
      /\ g[L].to = MaxEnd
  <2>1. [fs[L] EXCEPT !.to = MaxEnd] \in Block
    BY <1>1, <1>3 DEF Block
  <2>2. g = [fs EXCEPT ![L] = [fs[L] EXCEPT !.to = MaxEnd]]
    BY <1>0, <1>3
  <2>3. g \in Seq(Block) /\ Len(g) = L
    BY <2>1, <2>2, <1>0, <1>3, ExceptSeq
  <2>4. \A i \in 1 .. L : g[i] = IF i = L THEN [fs[L] EXCEPT !.to = MaxEnd] ELSE fs[i]
    BY <2>2, <1>0, <1>3
  <2>5. [fs[L] EXCEPT !.to = MaxEnd].from = fs[L].from /\ [fs[L] EXCEPT !.to = MaxEnd].to = MaxEnd
    BY <1>1, <1>3 DEF Block
  <2> QED
    BY <2>3, <2>4, <2>5, <1>3
<1> HIDE DEF g
<1>5. Lap(fs, 1, L)
  BY <1>0, <1>2
<1>6. Sizes(g, L)
  <2> SUFFICES ASSUME NEW i \in 1 .. L
               PROVE  /\ g[i].to - g[i].from <= MaxSize + Spare
                      /\ i # L => g[i].to - g[i].from <= MaxSize
    BY <1>4 DEF Sizes
  <2>1. fs[i].to - fs[i].from <= MaxSize
    BY <1>0, <1>1, <1>2 DEF Sizes
  <2>2. CASE i # L
    <3>1. g[i].from = fs[i].from /\ g[i].to = fs[i].to
      BY <2>2, <1>4
    <3>2. fs[i].from \in Nat /\ fs[i].to \in Nat
      BY <1>1
    <3> QED
      BY <2>1, <3>1, <3>2, SizeFacts
  <2>3. CASE i = L
    <3>1. g[i].to = MaxEnd /\ g[i].from = fs[L].from /\ st - fs[L].from <= MaxSize /\ fs[L].from \in Nat
      BY <2>1, <2>3, <1>1, <1>3, <1>4
    <3>2. MaxEnd - fs[L].from <= MaxSize + Spare
      BY <3>1, <1>0, <1>1, SizeFacts
    <3> QED
      BY <2>3, <3>1, <3>2
  <2> QED
    BY <2>2, <2>3
<1>7. Lap(g, 1, L)
  <2>1. \A i \in 1 .. (L - 1) : i \in 1 .. L /\ i + 1 \in 1 .. L /\ i # L
    BY <1>1
  <2>2. \A i \in 1 .. L : g[i].from < g[i].to
    <3> SUFFICES ASSUME NEW i \in 1 .. L PROVE g[i].from < g[i].to
      OBVIOUS
    <3>1. fs[i].from < fs[i].to
      BY <1>5 DEF Lap
    <3>2. i = L => fs[i].from < MaxEnd
      BY <3>1, <1>0, <1>1, <1>2, <1>3
    <3> QED
      BY <3>1, <3>2, <1>4
  <2>3. \A i, j \in 1 .. L : i < j => g[i].to <= g[j].from
    <3> SUFFICES ASSUME NEW i \in 1 .. L, NEW j \in 1 .. L, i < j PROVE g[i].to <= g[j].from
      OBVIOUS
    <3>1. i # L
      BY <1>1
    <3> QED
      BY <3>1, <1>4, <1>5 DEF Lap
  <2>4. \A i \in 1 .. (L - 1) : g[i].to = g[i + 1].from \/ GapOk(g[i].to, g[i + 1].from)
    BY <2>1, <1>4, <1>5 DEF Lap
  <2>5. ASSUME NEW i \in 1 .. (L - 1), NEW j \in 1 .. (L - 1), i < j,
               g[i].to # g[i + 1].from, g[j].to # g[j + 1].from
        PROVE  g[i + 1].from + Quarter <= g[j + 1].from
    BY <2>1, <2>5, <1>4, <1>5 DEF Lap
  <2> QED
    BY <2>2, <2>3, <2>4, <2>5 DEF Lap
<1>8. Lap(g, L + 1, L)
  BY <1>1 DEF Lap
<1>9. Level(g[1].from, 0) /\ g[1].from = 0
  BY <1>3, <1>4, SizeFacts DEF Level
<1>10. Flushing(g, st, L, 0)
  BY <1>0, <1>1, <1>3, <1>4, <1>6, <1>7, <1>8, <1>9 DEF Flushing
<1> QED
  BY <1>3, <1>10 DEF g

-----------------------------------------------------------------------------
(* The invariant.                                                          *)

RingInv == \E k \in 0 .. Len(funcs) : Ring(funcs, start, end, k)

EntryType == entries \in [Words -> Nat \cup {Default}]

\* An entry is the first page of a block in the ring that spans its address.
EntryBlocks ==
    \A w \in Words : entries[w] # Default =>
        \E i \in DOMAIN funcs : funcs[i].from = entries[w] /\ w \in Span(funcs[i])

MemInv == RingInv /\ EntryType /\ EntryBlocks

LEMMA RingIsSound ==
    ASSUME RingInv
    PROVE  /\ RingSound
           /\ funcs \in Seq(Block) /\ start \in Nat /\ end \in Nat
           /\ \A i \in DOMAIN funcs : funcs[i].from \in 0 .. MaxEnd
<1> DEFINE L == Len(funcs)
<1>0. PICK k \in 0 .. L : Ring(funcs, start, end, k)
  BY DEF RingInv
<1>1. /\ funcs \in Seq(Block) /\ start \in Nat /\ end \in Nat /\ start <= end
      /\ Lap(funcs, 1, k) /\ Lap(funcs, k + 1, L)
      /\ k < L => funcs[L].to = start
      /\ k = 0 => end = MaxEnd
      /\ k > 0 => funcs[k].to = MaxEnd /\ \E j \in {1, 2, 3} : Edge(end, funcs[1].from, j)
  BY <1>0 DEF Ring
<1>2. /\ L \in Nat /\ k \in Nat /\ MaxEnd \in Nat /\ DOMAIN funcs = 1 .. L
      /\ \A i \in 1 .. L : funcs[i].from \in Nat /\ funcs[i].to \in Nat
  BY <1>1, BlockAt, LenProperties, SizeFacts
<1>3. /\ \A i \in 1 .. k : funcs[1].from <= funcs[i].from /\ funcs[i].to <= funcs[k].to
      /\ \A i \in (k + 1) .. L : funcs[i].to <= funcs[L].to
  BY <1>0, <1>1, LapEnds
<1>4. k > 0 => end <= funcs[1].from /\ end <= MaxEnd
  <2> SUFFICES ASSUME k > 0 PROVE end <= funcs[1].from /\ end <= MaxEnd
    OBVIOUS
  <2>1. end <= funcs[1].from
    BY <1>1 DEF Edge
  <2>2. k \in 1 .. k /\ 1 \in 1 .. L /\ k \in 1 .. L
    BY <1>0, <1>2
  <2>3. funcs[1].from <= funcs[k].from /\ funcs[k].from < funcs[k].to
    BY <2>2, <1>1, <1>3 DEF Lap
  <2> QED
    BY <2>1, <2>2, <2>3, <1>1, <1>2
<1>5. ASSUME NEW i \in 1 .. L
      PROVE  /\ funcs[i].from < funcs[i].to
             /\ funcs[i].to <= start \/ end <= funcs[i].from
             /\ i <= k => end <= funcs[i].from
             /\ i > k => funcs[i].to <= start
             /\ funcs[i].from \in 0 .. MaxEnd
  <2>1. CASE i \in 1 .. k
    <3>1. k > 0 /\ k \in 1 .. L /\ 1 \in 1 .. L
      BY <2>1, <1>0, <1>2
    <3>2. funcs[1].from <= funcs[i].from /\ funcs[i].to <= MaxEnd /\ funcs[i].from < funcs[i].to
      BY <2>1, <3>1, <1>1, <1>3 DEF Lap
    <3> QED
      BY <2>1, <3>1, <3>2, <1>1, <1>2, <1>4
  <2>2. CASE i \in (k + 1) .. L
    <3>1. k < L /\ L \in 1 .. L /\ end <= MaxEnd
      BY <2>2, <1>1, <1>2, <1>4
    <3>2. funcs[i].to <= start /\ funcs[i].from < funcs[i].to
      BY <2>2, <3>1, <1>1, <1>3 DEF Lap
    <3> QED
      BY <2>2, <3>1, <3>2, <1>1, <1>2
  <2> QED
    BY <2>1, <2>2, <1>0, <1>2
<1>6. ASSUME NEW i \in 1 .. L, NEW j \in 1 .. L, i < j
      PROVE  funcs[i].to <= funcs[j].from \/ funcs[j].to <= funcs[i].from
  <2>1. CASE j <= k
    <3>1. i \in 1 .. k /\ j \in 1 .. k
      BY <2>1, <1>6, <1>2
    <3> QED
      BY <3>1, <1>1, <1>6 DEF Lap
  <2>2. CASE i > k
    <3>1. i \in (k + 1) .. L /\ j \in (k + 1) .. L
      BY <2>2, <1>6, <1>2
    <3> QED
      BY <3>1, <1>1, <1>6 DEF Lap
  <2>3. CASE i <= k /\ j > k
    <3>1. end <= funcs[i].from /\ funcs[j].to <= start
      BY <2>3, <1>5
    <3> QED
      BY <3>1, <1>1, <1>2
  <2> QED
    BY <2>1, <2>2, <2>3, <1>2
<1> QED
  BY <1>1, <1>2, <1>5, <1>6 DEF RingSound

LEMMA InsertStep ==
    ASSUME MemInv, NEW pc \in Targets, NEW size \in CodeSizes, Insert(pc, size)
    PROVE  MemInv'
<1>0. PICK k \in 0 .. Len(funcs) : Ring(funcs, start, end, k)
  BY DEF MemInv, RingInv
<1>1. /\ funcs \in Seq(Block) /\ start \in Nat /\ end \in Nat /\ start <= end
      /\ Len(funcs) \in Nat /\ DOMAIN funcs = 1 .. Len(funcs)
      /\ \A i \in 1 .. Len(funcs) : funcs[i] \in Block /\ funcs[i].from \in Nat
  BY <1>0, BlockAt, LenProperties DEF Ring
<1>2. entries \in [Words -> Nat \cup {Default}] /\ EntryBlocks
  BY DEF MemInv, EntryType
<1>3. CASE InsertFits(pc, size)
  <2> DEFINE b == NewBlock(pc, start, size)
  <2>1. b \in Block /\ b.from = start /\ b.to = start + size
    BY <1>1, NewBlockFacts
  <2> HIDE DEF b
  <2>2. /\ start + size <= end
        /\ funcs' = Append(funcs, b)
        /\ entries' = WriteEntries(entries, Span(b), b.from)
        /\ start' = b.to /\ end' = end
    BY <1>3 DEF InsertFits, b
  <2>3. Ring(funcs', start', end', k)
    BY <1>0, <2>1, <2>2, FitRing
  <2>4. RingInv'
    BY <2>3 DEF RingInv, Ring
  <2>5. EntryType'
    BY <2>1, <2>2, <1>1, <1>2 DEF EntryType, WriteEntries
  <2>6. /\ DOMAIN funcs' = 1 .. (Len(funcs) + 1)
        /\ \A i \in 1 .. Len(funcs) : funcs'[i] = funcs[i]
        /\ funcs'[Len(funcs) + 1] = b
    BY <1>1, <2>1, <2>2, AppendProperties, LenProperties
  <2>7. ASSUME NEW w \in Words, entries'[w] # Default
        PROVE  \E i \in DOMAIN funcs' : funcs'[i].from = entries'[w] /\ w \in Span(funcs'[i])
    <3>1. CASE w \in Span(b)
      <4>1. entries'[w] = b.from
        BY <3>1, <2>2 DEF WriteEntries
      <4>2. Len(funcs) + 1 \in DOMAIN funcs'
        BY <2>6, <1>1
      <4> QED
        BY <3>1, <4>1, <4>2, <2>6
    <3>2. CASE w \notin Span(b)
      <4>1. entries'[w] = entries[w]
        BY <3>2, <2>2 DEF WriteEntries
      <4>2. PICK i \in DOMAIN funcs : funcs[i].from = entries[w] /\ w \in Span(funcs[i])
        BY <4>1, <2>7, <1>2 DEF EntryBlocks
      <4>3. i \in DOMAIN funcs' /\ funcs'[i] = funcs[i]
        BY <2>6, <1>1
      <4> QED
        BY <4>1, <4>2, <4>3
    <3> QED
      BY <3>1, <3>2
  <2>8. EntryBlocks'
    BY <2>7 DEF EntryBlocks, Span
  <2> QED
    BY <2>4, <2>5, <2>8 DEF MemInv
<1>4. CASE InsertFlush(pc, size)
  <2> DEFINE fs == Closed(size)
             b == NewBlock(pc, fs[1].from, size)
  <2>1. PICK c, j : Flushing(fs, start, c, j)
    <3>1. CASE start + size > MaxEnd
      <4>1. fs = [funcs EXCEPT ![Len(funcs)].to = MaxEnd]
        BY <3>1 DEF Closed
      <4>2. Flushing([funcs EXCEPT ![Len(funcs)].to = MaxEnd], start, Len(funcs), 0)
        BY <3>1, <1>0, FlushAtEnd
      <4> QED
        BY <4>1, <4>2
    <3>2. CASE ~(start + size > MaxEnd)
      <4>1. fs = funcs /\ start + size <= MaxEnd /\ start + size > end
        BY <3>2, <1>1, <1>4, SizeFacts, SMTT(30) DEF Closed, InsertFlush
      <4>2. \E j \in {1, 2, 3} : Flushing(funcs, start, k, j)
        BY <4>1, <1>0, FlushInLap
      <4> QED
        BY <4>1, <4>2
    <3> QED
      BY <3>1, <3>2
  <2>2. /\ Len(fs) = Len(funcs)
        /\ \A i \in 1 .. Len(funcs) :
              fs[i].pc = funcs[i].pc /\ fs[i].end = funcs[i].end /\ fs[i].from = funcs[i].from
    <3>1. CASE fs = funcs
      BY <3>1
    <3>2. CASE fs = [funcs EXCEPT ![Len(funcs)].to = MaxEnd]
      BY <3>2, <1>1 DEF Block
    <3> QED
      BY <3>1, <3>2 DEF Closed
  <2>3. \A i \in 1 .. Len(funcs) : Span(fs[i]) = Span(funcs[i])
    BY <2>2 DEF Span
  <2>4. PICK n \in 1 .. Len(fs) :
           /\ Pops(fs, n)
           /\ LET freed == UNION {Span(fs[i]) : i \in 1 .. n} IN
              entries' = WriteEntries(WriteEntries(entries, freed, Default), Span(b), b.from)
           /\ funcs' = Append(SubSeq(fs, n + 1, Len(fs)), b)
           /\ start' = b.to
           /\ end' = fs[n].to
    BY <1>4 DEF InsertFlush
  <2>5. fs \in Seq(Block) /\ fs[1].from \in Nat /\ n \in Nat
    <3>1. fs \in Seq(Block) /\ 1 \in 1 .. Len(fs)
      BY <2>1, <2>2, <2>4, <1>1 DEF Flushing
    <3> QED
      BY <3>1, BlockAt
  <2>6. b \in Block /\ b.from = fs[1].from /\ b.to = fs[1].from + size
    BY <2>5, NewBlockFacts
  <2> HIDE DEF fs, b
  <2>7. Ring(funcs', start', end', c - n)
    BY <2>1, <2>4, <2>6, FlushRing
  <2>8. RingInv'
    BY <2>7 DEF RingInv, Ring
  <2>9. EntryType'
    <3>1. b.from \in Nat
      BY <2>5, <2>6
    <3> QED
      BY <3>1, <2>4, <1>2 DEF EntryType, WriteEntries
  <2>10. /\ DOMAIN funcs' = 1 .. (Len(fs) - n + 1)
         /\ \A i \in 1 .. (Len(fs) - n) : funcs'[i] = fs[n + i]
         /\ funcs'[Len(fs) - n + 1] = b
         /\ Len(fs) \in Nat
    <3>0. Len(fs) \in Nat
      BY <2>2, <1>1
    <3>1. /\ SubSeq(fs, n + 1, Len(fs)) \in Seq(Block) /\ Len(SubSeq(fs, n + 1, Len(fs))) = Len(fs) - n
          /\ \A i \in 1 .. (Len(fs) - n) : SubSeq(fs, n + 1, Len(fs))[i] = fs[n + i]
      <4>1. n + 1 \in 1 .. (Len(fs) + 1) /\ Len(fs) \in (n + 1) - 1 .. Len(fs)
        BY <3>0, <2>4, <2>5
      <4> QED
        BY <4>1, <3>0, <2>5, SubSeqProperties
    <3> QED
      BY <3>0, <3>1, <2>4, <2>6, AppendProperties, LenProperties
  <2>11. ASSUME NEW w \in Words, entries'[w] # Default
         PROVE  \E i \in DOMAIN funcs' : funcs'[i].from = entries'[w] /\ w \in Span(funcs'[i])
    <3>1. CASE w \in Span(b)
      <4>1. entries'[w] = b.from
        BY <3>1, <2>4 DEF WriteEntries
      <4>2. Len(fs) - n + 1 \in DOMAIN funcs'
        BY <2>4, <2>10
      <4> QED
        BY <3>1, <4>1, <4>2, <2>10
    <3>2. CASE w \notin Span(b)
      <4>1. entries'[w] = entries[w] /\ \A i \in 1 .. n : w \notin Span(fs[i])
        BY <3>2, <2>4, <2>11 DEF WriteEntries
      <4>2. PICK i \in DOMAIN funcs : funcs[i].from = entries[w] /\ w \in Span(funcs[i])
        BY <4>1, <2>11, <1>2 DEF EntryBlocks
      <4>3. i \in 1 .. Len(fs) /\ fs[i].from = entries[w] /\ w \in Span(fs[i])
        BY <4>2, <2>2, <2>3, <1>1
      <4>4. i \notin 1 .. n
        BY <4>1, <4>3
      <4>5. i - n \in 1 .. (Len(fs) - n) /\ n + (i - n) = i /\ i - n \in DOMAIN funcs'
        BY <4>3, <4>4, <2>5, <2>10
      <4> QED
        BY <4>1, <4>3, <4>5, <2>10
    <3> QED
      BY <3>1, <3>2
  <2>12. EntryBlocks'
    BY <2>11 DEF EntryBlocks, Span
  <2> QED
    BY <2>8, <2>9, <2>12 DEF MemInv
<1> QED
  BY <1>3, <1>4 DEF Insert

LEMMA EmptyRing ==
    ASSUME NEW fs, fs = <<>> PROVE Ring(fs, 0, MaxEnd, 0)
<1>1. MaxEnd \in Nat /\ fs \in Seq(Block) /\ Len(fs) = 0
  BY SizeFacts
<1> QED
  BY <1>1 DEF Ring, Sizes, Lap

LEMMA MemInit == Init => MemInv
<1> SUFFICES ASSUME Init PROVE MemInv
  OBVIOUS
<1>1. Ring(funcs, start, end, 0)
  BY EmptyRing DEF Init
<1>2. RingInv
  BY <1>1 DEF RingInv, Ring
<1> QED
  BY <1>2 DEF MemInv, Init, EntryType, EntryBlocks

LEMMA MemStep == MemInv /\ [Next]_vars => MemInv'
<1> SUFFICES ASSUME MemInv, [Next]_vars PROVE MemInv'
  OBVIOUS
<1>1. ASSUME NEW pc \in Targets, NEW size \in CodeSizes, Insert(pc, size) PROVE MemInv'
  BY <1>1, InsertStep
<1>2. CASE Invalidate
  <2>1. funcs' = funcs /\ start' = start /\ end' = end
    BY <1>2 DEF Invalidate
  <2>2. PICK S : entries' = WriteEntries(entries, S, Default)
    BY <1>2 DEF Invalidate
  <2>3. RingInv'
    BY <2>1 DEF MemInv, RingInv
  <2>4. EntryType' /\ EntryBlocks'
    BY <2>1, <2>2 DEF MemInv, EntryType, EntryBlocks, WriteEntries, Span
  <2> QED
    BY <2>3, <2>4 DEF MemInv
<1>3. CASE Reinit
  <2>1. Ring(funcs', start', end', 0)
    BY <1>3, EmptyRing DEF Reinit
  <2>2. RingInv'
    BY <2>1 DEF RingInv, Ring
  <2> QED
    BY <1>3, <2>2 DEF MemInv, Reinit, EntryType, EntryBlocks
<1>4. CASE UNCHANGED vars
  BY <1>4 DEF vars, MemInv, RingInv, EntryType, EntryBlocks, Span
<1> QED
  BY <1>1, <1>2, <1>3, <1>4 DEF Next

\* What the code memory keeps, for every size of the memory with at least
\* thirteen of the largest blocks in a quarter, every sequence of allocations,
\* flushes, invalidations and resets (jit_memory.rs allocate_block, reset_blocks).
THEOREM MemInvariant == Spec => []MemInv
BY MemInit, MemStep, PTL DEF Spec

LEMMA MemIntact == MemInv => EntryIntact
BY RingIsSound DEF MemInv, EntryIntact, EntryBlocks

\* No entry leads into pages that were freed or written over, and the blocks of
\* the ring never overlap (jit_memory.rs).
THEOREM CodeIntact == Spec => []EntryIntact
BY MemInvariant, MemIntact, PTL

-----------------------------------------------------------------------------
(* Self-modifying code: words and pages.                                   *)

\* Two words of one live-range page are in one mmu page.
LEMMA SamePage ==
    ASSUME NEW v \in Words, NEW w \in Words, LiveOf(v) = LiveOf(w)
    PROVE  MmuOf(v) = MmuOf(w)
<1>1. v \in Int /\ w \in Int
  BY GuestAssumption
<1>2. LiveSize \in Nat \ {0} /\ MmuSize \in Nat \ {0} /\ MmuSize % LiveSize = 0
  BY PageAssumption
<1>3. PageOf(v, LiveSize) = PageOf(w, LiveSize)
  BY DEF LiveOf, PageOf
<1>4. PageOf(v, MmuSize) = PageOf(w, MmuSize)
  BY <1>1, <1>2, <1>3, CoarserPage
<1> QED
  BY <1>4 DEF MmuOf, PageOf

SmcType ==
    /\ sticky \in [MmuPages(Words) -> Nat]
    /\ changed \in [0 .. MaxEnd -> SUBSET Words]

SmcInv == MemInv /\ SmcType /\ EntryWatched /\ PageFresh

-----------------------------------------------------------------------------
(* The refinement.                                                         *)

\* Dropping entries is a step of JitMemory, or none.
LEMMA DropIsStep ==
    ASSUME EntryType, NEW S, entries' = WriteEntries(entries, S, Default),
           UNCHANGED <<start, end, funcs>>
    PROVE  [Next]_vars
<1> DEFINE D == {w \in Words : w \in S /\ entries[w] # Default}
<1>1. entries' = WriteEntries(entries, D, Default)
  BY DEF WriteEntries
<1>2. CASE D = {}
  <2>1. entries' = entries
    BY <1>1, <1>2 DEF WriteEntries, EntryType
  <2> QED
    BY <2>1 DEF vars
<1>3. CASE D # {}
  <2>1. D \in SUBSET {w \in Words : entries[w] # Default}
    OBVIOUS
  <2> HIDE DEF D
  <2>2. Invalidate
    BY <1>1, <1>3, <2>1 DEF Invalidate
  <2> QED
    BY <2>2 DEF Next
<1> QED
  BY <1>2, <1>3

LEMMA SmcStepIsStep ==
    ASSUME EntryType, [SmcNext]_allVars
    PROVE  [Next]_vars
<1>1. ASSUME NEW pc \in Targets, Interpret(pc) PROVE [Next]_vars
  BY <1>1 DEF Interpret
<1>2. ASSUME NEW pc \in Targets, NEW size \in CodeSizes, Compile(pc, size) PROVE [Next]_vars
  BY <1>2 DEF Compile, Next
<1>3. ASSUME NEW w \in Words, PlainStore(w) PROVE [Next]_vars
  BY <1>3 DEF PlainStore
<1>4. ASSUME NEW w \in Words, HitStore(w) PROVE [Next]_vars
  <2>1. \E S : entries' = WriteEntries(entries, S, Default) /\ UNCHANGED <<start, end, funcs>>
    BY <1>4 DEF HitStore
  <2> QED
    BY <2>1, DropIsStep
<1>5. CASE Rewind
  <2>1. entries' = WriteEntries(entries, Words, Default) /\ UNCHANGED <<start, end, funcs>>
    BY <1>5 DEF Rewind, WriteEntries
  <2> QED
    BY <2>1, DropIsStep
<1>6. CASE LoadState
  BY <1>6 DEF LoadState, Next
<1>7. CASE UNCHANGED allVars
  BY <1>7 DEF allVars
<1> QED
  BY <1>1, <1>2, <1>3, <1>4, <1>5, <1>6, <1>7 DEF SmcNext

\* The entry table and the ring of the whole jit behave as JitMemory says
\* (mem.rs, jit_memory.rs invalidate_block, savestate_post_load).
THEOREM RefinesJitMemory == SmcSpec => ImplementsJitMemory
<1>1. SmcInit => Init
  BY DEF SmcInit
<1>2. MemInv /\ [SmcNext]_allVars => [Next]_vars
  BY SmcStepIsStep DEF MemInv
<1>3. MemInv /\ [SmcNext]_allVars => MemInv'
  BY <1>2, MemStep
<1> QED
  BY <1>1, <1>2, <1>3, MemInit, PTL DEF SmcSpec, Spec, ImplementsJitMemory

\* No entry of the running jit leads into freed or overwritten pages.
THEOREM JitCodeIntact == SmcSpec => []EntryIntact
BY RefinesJitMemory, CodeIntact, PTL DEF ImplementsJitMemory

-----------------------------------------------------------------------------
(* Stores.                                                                 *)

LEMMA SmcInitInv == SmcInit => SmcInv
<1> SUFFICES ASSUME SmcInit PROVE SmcInv
  OBVIOUS
<1>1. MemInv
  BY MemInit DEF SmcInit
<1>2. SmcType
  BY DEF SmcInit, SmcType
<1>3. EntryWatched /\ PageFresh
  BY DEF SmcInit, Init, EntryWatched, PageFresh
<1> QED
  BY <1>1, <1>2, <1>3 DEF SmcInv

\* Entries are host pages, so each has a record of what changed below it.
InMemory == \A w \in Words : entries[w] # Default => entries[w] \in 0 .. MaxEnd

LEMMA EntryPages == MemInv => InMemory
BY RingIsSound DEF MemInv, EntryBlocks, InMemory

LEMMA MarkType ==
    ASSUME SmcType, NEW w \in Words, NEW es
    PROVE  Mark(w, es) \in [0 .. MaxEnd -> SUBSET Words]
BY DEF SmcType, Mark

LEMMA SmcTypeStep ==
    ASSUME SmcType, [SmcNext]_allVars
    PROVE  SmcType'
<1> USE DEF SmcType
<1>1. ASSUME NEW pc \in Targets, Interpret(pc) PROVE SmcType'
  BY <1>1 DEF Interpret
<1>2. ASSUME NEW pc \in Targets, NEW size \in CodeSizes, Compile(pc, size) PROVE SmcType'
  BY <1>2 DEF Compile
<1>3. ASSUME NEW w \in Words, PlainStore(w) PROVE SmcType'
  BY <1>3, MarkType DEF PlainStore
<1>4. ASSUME NEW w \in Words, HitStore(w) PROVE SmcType'
  <2>1. MmuOf(w) \in MmuPages(Words)
    BY DEF MmuPages
  <2>2. sticky' \in [MmuPages(Words) -> Nat]
    BY <1>4, <2>1, PageAssumption DEF HitStore
  <2>3. changed' \in [0 .. MaxEnd -> SUBSET Words]
    BY <1>4, MarkType DEF HitStore
  <2> QED
    BY <2>2, <2>3
<1>5. CASE Rewind
  BY <1>5 DEF Rewind
<1>6. CASE LoadState
  BY <1>6 DEF LoadState
<1>7. CASE UNCHANGED allVars
  BY <1>7 DEF allVars, smcVars
<1> QED
  BY <1>1, <1>2, <1>3, <1>4, <1>5, <1>6, <1>7 DEF SmcNext

\* A compiled block's new entries are in its range and lead to its first page;
\* every other entry was there before.
LEMMA InsertEntries ==
    ASSUME EntryType, NEW pc \in Targets, NEW size \in CodeSizes, Insert(pc, size)
    PROVE  /\ \A w \in Words : entries'[w] # Default =>
                 \/ entries'[w] = entries[w]
                 \/ w \in pc .. (BlockEnd(pc) - 1) /\ entries'[w] = entries'[pc]
<1>1. pc \in Words /\ pc \in Nat /\ BlockEnd(pc) \in Nat /\ pc < BlockEnd(pc)
  BY BlockEndFacts
<1>2. ASSUME NEW b, b.pc = pc, b.end = BlockEnd(pc) PROVE pc \in Span(b) /\ \A w \in Span(b) : w \in Words /\ w \in pc .. (BlockEnd(pc) - 1)
  BY <1>1, <1>2, GuestAssumption DEF Span
<1>3. CASE InsertFits(pc, size)
  <2> DEFINE b == NewBlock(pc, start, size)
  <2>1. b.pc = pc /\ b.end = BlockEnd(pc)
    BY DEF NewBlock
  <2>2. entries' = WriteEntries(entries, Span(b), b.from)
    BY <1>3 DEF InsertFits
  <2> HIDE DEF b
  <2> QED
    BY <1>1, <1>2, <2>1, <2>2 DEF WriteEntries
<1>4. CASE InsertFlush(pc, size)
  <2> DEFINE b == NewBlock(pc, Closed(size)[1].from, size)
  <2>1. b.pc = pc /\ b.end = BlockEnd(pc)
    BY DEF NewBlock
  <2>2. \E S : entries' = WriteEntries(WriteEntries(entries, S, Default), Span(b), b.from)
    BY <1>4 DEF InsertFlush
  <2> HIDE DEF b
  <2> QED
    BY <1>1, <1>2, <2>1, <2>2 DEF WriteEntries
<1> QED
  BY <1>3, <1>4 DEF Insert

LEMMA WatchedStep ==
    ASSUME SmcInv, [SmcNext]_allVars
    PROVE  EntryWatched'
<1> SUFFICES ASSUME NEW v \in Words, (entries[v])' # Default
             PROVE  (LiveOf(v) \in live /\ MmuOf(v) \in prot /\ ~Sticky(v))'
  BY DEF EntryWatched
<1>0. /\ SmcType /\ EntryType /\ MmuOf(v) \in MmuPages(Words)
      /\ entries[v] # Default => LiveOf(v) \in live /\ MmuOf(v) \in prot /\ ~Sticky(v)
  BY DEF SmcInv, EntryWatched, MemInv, MmuPages
<1>1. ASSUME NEW pc \in Targets, Interpret(pc)
      PROVE  (LiveOf(v) \in live /\ MmuOf(v) \in prot /\ ~Sticky(v))'
  BY <1>0, <1>1 DEF Interpret, vars, Sticky
<1>2. ASSUME NEW pc \in Targets, NEW size \in CodeSizes, Compile(pc, size)
      PROVE  (LiveOf(v) \in live /\ MmuOf(v) \in prot /\ ~Sticky(v))'
  <2>1. sticky' = sticky /\ live \subseteq live' /\ prot \subseteq prot'
    BY <1>2 DEF Compile
  <2>2. entries'[v] = entries[v] \/ v \in pc .. (BlockEnd(pc) - 1)
    BY <1>0, <1>2, InsertEntries DEF Compile
  <2>3. CASE entries'[v] = entries[v]
    BY <1>0, <2>1, <2>3 DEF Sticky
  <2>4. CASE v \in pc .. (BlockEnd(pc) - 1)
    BY <1>2, <2>1, <2>4 DEF Compile, LivePages, MmuPages, Sticky
  <2> QED
    BY <2>2, <2>3, <2>4
<1>3. ASSUME NEW w \in Words, PlainStore(w)
      PROVE  (LiveOf(v) \in live /\ MmuOf(v) \in prot /\ ~Sticky(v))'
  BY <1>0, <1>3 DEF PlainStore, vars, Sticky
<1>4. ASSUME NEW w \in Words, HitStore(w)
      PROVE  (LiveOf(v) \in live /\ MmuOf(v) \in prot /\ ~Sticky(v))'
  <2> DEFINE hits == IF sticky[MmuOf(w)] < STICKY_SMC_THRESHOLD
                     THEN sticky[MmuOf(w)] + 1 ELSE STICKY_SMC_THRESHOLD
             full == hits >= STICKY_SMC_THRESHOLD
             gone == Killed(w) \cup IF full THEN Evict(w) ELSE {}
  <2>1. /\ sticky' = [sticky EXCEPT ![MmuOf(w)] = hits]
        /\ entries' = WriteEntries(entries, gone, Default)
        /\ live' = live \ ({LiveOf(w)} \cup IF full THEN LivePages(MmuPage(w)) ELSE {})
        /\ prot' = IF full THEN prot \ {MmuOf(w)} ELSE prot
    BY <1>4 DEF HitStore
  <2> HIDE DEF hits
  <2>2. v \notin gone /\ entries'[v] = entries[v]
    BY <2>1 DEF WriteEntries
  <2>3. LiveOf(v) # LiveOf(w) /\ (full => MmuOf(v) # MmuOf(w))
    BY <2>2 DEF Killed, LivePage, Evict, MmuPage
  <2>4. LiveOf(v) \in live /\ MmuOf(v) \in prot /\ ~Sticky(v)
    BY <1>0, <2>2
  <2>5. full => LiveOf(v) \notin LivePages(MmuPage(w))
    BY <2>3, SamePage DEF LivePages, MmuPage
  <2>6. sticky'[MmuOf(v)] = IF MmuOf(v) = MmuOf(w) THEN hits ELSE sticky[MmuOf(v)]
    BY <1>0, <2>1 DEF SmcType
  <2>7. ~(sticky'[MmuOf(v)] >= STICKY_SMC_THRESHOLD)
    BY <2>3, <2>4, <2>6 DEF Sticky
  <2>8. LiveOf(v) \in live' /\ MmuOf(v) \in prot'
    BY <2>1, <2>3, <2>4, <2>5
  <2> QED
    BY <2>7, <2>8 DEF Sticky
<1>5. CASE Rewind
  BY <1>5 DEF Rewind
<1>6. CASE LoadState
  BY <1>6 DEF LoadState, Reinit
<1>7. CASE UNCHANGED allVars
  BY <1>0, <1>7 DEF allVars, smcVars, vars, Sticky
<1> QED
  BY <1>1, <1>2, <1>3, <1>4, <1>5, <1>6, <1>7 DEF SmcNext

\* Marking a store: only the word stored to is new.
LEMMA MarkAdds ==
    ASSUME SmcType, NEW w \in Words, NEW es, NEW a \in 0 .. MaxEnd
    PROVE  Mark(w, es)[a] \subseteq changed[a] \cup {w}
BY DEF SmcType, Mark

LEMMA FreshStep ==
    ASSUME SmcInv, [SmcNext]_allVars
    PROVE  PageFresh'
<1> SUFFICES ASSUME NEW v \in Words, (entries[v])' # Default
             PROVE  (changed[entries[v]] \cap LivePage(v) = {})'
  BY DEF PageFresh
<1>0. /\ SmcType /\ EntryType /\ MemInv
      /\ entries[v] # Default => /\ changed[entries[v]] \cap LivePage(v) = {}
                                 /\ entries[v] \in 0 .. MaxEnd
                                 /\ LiveOf(v) \in live /\ MmuOf(v) \in prot
  BY EntryPages DEF SmcInv, EntryWatched, PageFresh, MemInv, InMemory
<1>1. ASSUME NEW pc \in Targets, Interpret(pc)
      PROVE  (changed[entries[v]] \cap LivePage(v) = {})'
  BY <1>0, <1>1 DEF Interpret, vars, LivePage
<1>2. ASSUME NEW pc \in Targets, NEW size \in CodeSizes, Compile(pc, size)
      PROVE  (changed[entries[v]] \cap LivePage(v) = {})'
  <2>0. MemInv'
    BY <1>0, <1>2, InsertStep DEF Compile
  <2>1. entries'[v] \in 0 .. MaxEnd
    <3>1. InMemory'
      BY <2>0, EntryPages, PTL
    <3> QED
      BY <3>1 DEF InMemory, MaxEnd
  <2>2. changed'[entries'[v]] = IF entries'[v] \in Reachable(entries') /\ entries'[v] # entries'[pc]
                                THEN changed[entries'[v]] ELSE {}
    BY <1>0, <1>2, <2>1 DEF Compile, SmcType
  <2>3. entries'[v] = entries[v] \/ entries'[v] = entries'[pc]
    BY <1>0, <1>2, InsertEntries DEF Compile
  <2> QED
    BY <1>0, <2>2, <2>3 DEF LivePage
<1>3. ASSUME NEW w \in Words, PlainStore(w)
      PROVE  (changed[entries[v]] \cap LivePage(v) = {})'
  <2>1. entries' = entries /\ changed' = Mark(w, entries)
    BY <1>3 DEF PlainStore, vars
  <2>2. changed'[entries[v]] \subseteq changed[entries[v]] \cup {w}
    BY <1>0, <2>1, MarkAdds
  <2>3. w \notin LivePage(v)
    BY <1>0, <1>3, <2>1, SamePage DEF PlainStore, LivePage
  <2> QED
    BY <1>0, <2>1, <2>2, <2>3 DEF LivePage
<1>4. ASSUME NEW w \in Words, HitStore(w)
      PROVE  (changed[entries[v]] \cap LivePage(v) = {})'
  <2>1. \E S : entries' = WriteEntries(entries, Killed(w) \cup S, Default)
    BY <1>4 DEF HitStore
  <2>2. v \notin LivePage(w) /\ entries'[v] = entries[v]
    BY <2>1 DEF WriteEntries, Killed
  <2>3. changed'[entries[v]] \subseteq changed[entries[v]] \cup {w}
    BY <1>0, <1>4, <2>2, MarkAdds DEF HitStore
  <2>4. w \notin LivePage(v)
    BY <2>2 DEF LivePage
  <2> QED
    BY <1>0, <2>2, <2>3, <2>4 DEF LivePage
<1>5. CASE Rewind
  BY <1>5 DEF Rewind
<1>6. CASE LoadState
  BY <1>6 DEF LoadState, Reinit
<1>7. CASE UNCHANGED allVars
  BY <1>0, <1>7 DEF allVars, smcVars, vars, LivePage
<1> QED
  BY <1>1, <1>2, <1>3, <1>4, <1>5, <1>6, <1>7 DEF SmcNext

\* SmcInv is inductive: the freshness of a page rests on its being watched, and
\* both on the entries being blocks of the ring.
THEOREM SmcInvariant == SmcSpec => []SmcInv
<1>1. SmcInv /\ [SmcNext]_allVars => SmcInv'
  <2> SUFFICES ASSUME SmcInv, [SmcNext]_allVars PROVE SmcInv'
    OBVIOUS
  <2>1. MemInv'
    BY SmcStepIsStep, MemStep DEF SmcInv, MemInv
  <2>2. SmcType'
    BY SmcTypeStep DEF SmcInv
  <2> QED
    BY <2>1, <2>2, WatchedStep, FreshStep DEF SmcInv
<1> QED
  BY <1>1, SmcInitInv, PTL DEF SmcSpec

\* A page that has compiled code is watched, and a page given up as
\* self-modifying has none (mem.rs write_iwram, jit_memory.rs).
THEOREM PagesWatched == SmcSpec => []EntryWatched
<1>1. SmcInv => EntryWatched
  BY DEF SmcInv
<1> QED
  BY <1>1, SmcInvariant, PTL

\* An entry never leads to a block whose words in the entry's own page changed
\* since the block was compiled (jit_memory.rs invalidate_block).
THEOREM PagesFresh == SmcSpec => []PageFresh
<1>1. SmcInv => PageFresh
  BY DEF SmcInv
<1> QED
  BY <1>1, SmcInvariant, PTL

=============================================================================
