------------------------------ MODULE GifProofs ------------------------------
(* Proofs about the two parts that write a GIF: GifFrame, the codes of one    *)
(* frame and their reader, then AnimatedGifEncoder, the blocks of the files.  *)
EXTENDS AnimatedGifEncoder, GifFrame, FiniteSetTheorems, WellFoundedInduction,
        SequenceTheorems, TLAPS

-----------------------------------------------------------------------------
(* Counting and recursion.                                                    *)

\* A set of natural numbers has a least element.
LEMMA NatMin ==
  ASSUME NEW S \in SUBSET Nat, S # {}
  PROVE  \E m \in S : \A s \in S : m <= s
<1> DEFINE Below(s) == 0..s
           T == {Below(s) : s \in S}
<1>1. T \subseteq FiniteSubsetsOf(Nat) /\ T # {}
  <2>1. \A s \in S : Below(s) \in SUBSET Nat /\ IsFiniteSet(Below(s))
    BY FS_Interval
  <2> QED BY <2>1 DEF FiniteSubsetsOf
<1>2. PICK x \in T : \A y \in T : <<y, x>> \notin StrictSubsetOrdering(Nat)
  <2> HIDE DEF T
  <2> QED BY <1>1, WFMin, FS_StrictSubsetOrderingWellFounded
<1>3. PICK m \in S : x = Below(m)
  BY <1>2
<1>4. ASSUME NEW s \in S, s < m
      PROVE  FALSE
  <2>1. Below(s) \in T /\ Below(s) \subseteq Below(m) /\ m \in Below(m) /\ m \notin Below(s)
    BY <1>4
  <2>2. <<Below(s), x>> \in StrictSubsetOrdering(Nat)
    BY <2>1, <1>3 DEF StrictSubsetOrdering
  <2> QED BY <2>1, <2>2, <1>2
<1> QED BY <1>4

\* What holds at first, and after every turn at which it held, holds.
LEMMA Turns ==
  ASSUME NEW f, NEW T, f[0] \in T, \A k \in Nat : f[k] \in T => f[k + 1] \in T
  PROVE  \A k \in Nat : f[k] \in T
<1> DEFINE Bad == {k \in Nat : f[k] \notin T}
<1> SUFFICES ASSUME Bad # {} PROVE FALSE
  OBVIOUS
<1>1. PICK m \in Bad : \A s \in Bad : m <= s
  <2>1. Bad \in SUBSET Nat
    OBVIOUS
  <2> HIDE DEF Bad
  <2> QED BY <2>1, NatMin
<1>2. m \in Nat /\ f[m] \notin T /\ m # 0
  BY <1>1
<1>3. m - 1 \in Nat /\ m - 1 \notin Bad
  <2>1. m - 1 \in Nat /\ ~(m <= m - 1)
    BY <1>2
  <2> HIDE DEF Bad
  <2> QED BY <1>1, <2>1
<1>4. f[(m - 1) + 1] \in T
  BY <1>3
<1> QED BY <1>2, <1>4

Follows(g, T, first, step) ==
  g \in [Nat -> T] /\ g[0] = first /\ \A k \in Nat : g[k + 1] = step[<<k, g[k]>>]

\* A first value and a step make a function.
LEMMA Steps ==
  ASSUME NEW T, NEW first \in T, NEW step \in [Nat \X T -> T]
  PROVE  \E g : Follows(g, T, first, step)
<1> DEFINE Upto(n, g) == g \in [0..n -> T] /\ g[0] = first
                         /\ \A k \in 0..(n - 1) : g[k + 1] = step[<<k, g[k]>>]
           Bad == {n \in Nat : ~ \E g \in [0..n -> T] : Upto(n, g)}
<1>1. \A n \in Nat : \E g \in [0..n -> T] : Upto(n, g)
  <2> SUFFICES ASSUME Bad # {} PROVE FALSE
    OBVIOUS
  <2>1. PICK m \in Bad : \A s \in Bad : m <= s
    <3>1. Bad \in SUBSET Nat
      OBVIOUS
    <3> HIDE DEF Bad
    <3> QED BY <3>1, NatMin
  <2>2. m \in Nat /\ ~ \E g \in [0..m -> T] : Upto(m, g)
    BY <2>1
  <2>3. m # 0
    <3> SUFFICES ASSUME m = 0 PROVE FALSE
      OBVIOUS
    <3> DEFINE g == [k \in 0..0 |-> first]
    <3>1. Upto(0, g) /\ g \in [0..0 -> T]
      OBVIOUS
    <3> HIDE DEF g, Upto
    <3> QED BY <2>2, <3>1
  <2>4. m - 1 \in Nat /\ m - 1 \notin Bad
    <3>1. m - 1 \in Nat /\ ~(m <= m - 1)
      BY <2>2, <2>3
    <3> HIDE DEF Bad
    <3> QED BY <2>1, <3>1
  <2>5. PICK h \in [0..(m - 1) -> T] : Upto(m - 1, h)
    BY <2>4
  <2> DEFINE g == [k \in 0..m |-> IF k = m THEN step[<<m - 1, h[m - 1]>>] ELSE h[k]]
  <2>6. g \in [0..m -> T]
    <3>1. h[m - 1] \in T
      BY <2>4, <2>5
    <3>2. step[<<m - 1, h[m - 1]>>] \in T
      BY <2>4, <3>1
    <3>3. \A k \in 0..m : k # m => h[k] \in T
      BY <2>2, <2>5
    <3> QED BY <3>2, <3>3
  <2>7. Upto(m, g)
    <3>1. g[0] = first
      BY <2>2, <2>3, <2>5
    <3>2. ASSUME NEW k \in 0..(m - 1) PROVE g[k + 1] = step[<<k, g[k]>>]
      <4>1. g[k] = h[k]
        BY <2>2
      <4>2. CASE k = m - 1
        <5>1. k + 1 = m /\ k + 1 \in 0..m
          BY <2>2, <4>2
        <5> HIDE DEF Upto, Bad
        <5>2. g[k + 1] = step[<<m - 1, h[m - 1]>>]
          BY <5>1
        <5> QED BY <4>1, <4>2, <5>2
      <4>3. CASE k # m - 1
        <5>1. k \in 0..(m - 1 - 1) /\ k + 1 \in 0..m /\ k + 1 # m
          BY <2>2, <4>3
        <5>2. g[k + 1] = h[k + 1]
          BY <5>1
        <5>3. h[k + 1] = step[<<k, h[k]>>]
          BY <2>5, <5>1
        <5> QED BY <4>1, <5>2, <5>3
      <4> QED BY <4>2, <4>3
    <3> QED BY <2>6, <3>1, <3>2
  <2> HIDE DEF g, Upto
  <2> QED BY <2>2, <2>6, <2>7
<1> DEFINE G(n) == CHOOSE g \in [0..n -> T] : Upto(n, g)
<1>2. \A n \in Nat : G(n) \in [0..n -> T] /\ Upto(n, G(n))
  <2> HIDE DEF Upto
  <2> QED BY <1>1
<1> HIDE DEF G
<1>3. ASSUME NEW n \in Nat, NEW k \in 0..n
      PROVE  G(n + 1)[k] = G(n)[k]
  <2> DEFINE a == G(n + 1)
             b == G(n)
  <2>1. /\ a[0] = first /\ \A x \in 0..n : a[x + 1] = step[<<x, a[x]>>]
        /\ b[0] = first /\ \A x \in 0..(n - 1) : b[x + 1] = step[<<x, b[x]>>]
    <3>1. Upto(n + 1, a) /\ Upto(n, b) /\ n + 1 \in Nat
      BY <1>2
    <3> QED BY <3>1
  <2> HIDE DEF a, b
  <2> DEFINE Off == {x \in Nat : x <= n /\ a[x] # b[x]}
  <2>2. SUFFICES ASSUME Off # {} PROVE FALSE
    BY DEF a, b
  <2>3. PICK m \in Off : \A s \in Off : m <= s
    <3>1. Off \in SUBSET Nat
      OBVIOUS
    <3> HIDE DEF Off
    <3> QED BY <2>2, <3>1, NatMin
  <2>4. m \in 0..n /\ a[m] # b[m]
    BY <2>3
  <2>5. m # 0
    BY <2>1, <2>4
  <2> DEFINE x == m - 1
  <2>6. x \in 0..(n - 1) /\ x + 1 = m
    BY <2>4, <2>5
  <2> HIDE DEF x
  <2>7. a[x] = b[x]
    <3>1. x \in Nat /\ ~(m <= x) /\ x <= n
      BY <2>4, <2>6
    <3>2. x \notin Off
      <4> HIDE DEF Off
      <4> QED BY <2>3, <3>1
    <3> QED BY <3>1, <3>2
  <2>8. a[x + 1] = b[x + 1]
    <3>1. x \in 0..n
      BY <2>6
    <3> QED BY <2>1, <2>6, <2>7, <3>1
  <2> QED BY <2>4, <2>6, <2>8
<1> DEFINE g == [n \in Nat |-> G(n)[n]]
<1>4. g \in [Nat -> T]
  <2>1. \A n \in Nat : n \in 0..n /\ G(n) \in [0..n -> T]
    BY <1>2
  <2> QED BY <2>1
<1>5. g[0] = first
  BY <1>2
<1>6. ASSUME NEW n \in Nat
      PROVE  g[n + 1] = step[<<n, g[n]>>]
  <2>1. n + 1 \in Nat /\ n \in 0..(n + 1 - 1) /\ n \in 0..n
    OBVIOUS
  <2>2. G(n + 1)[n + 1] = step[<<n, G(n + 1)[n]>>]
    BY <1>2, <2>1
  <2>3. G(n + 1)[n] = G(n)[n]
    BY <1>3, <2>1
  <2> QED BY <2>1, <2>2, <2>3
<1> HIDE DEF g
<1> QED BY <1>4, <1>5, <1>6 DEF Follows

-----------------------------------------------------------------------------
(* Powers of two.                                                             *)

LEMMA Pow2Def == \A n \in Nat : Pow2[n] = IF n = 0 THEN 1 ELSE 2 * Pow2[n - 1]
<1> DEFINE T == Int
           step == [p \in Nat \X T |-> 2 * p[2]]
<1>1. step \in [Nat \X T -> T] /\ 1 \in T
  OBVIOUS
<1>2. PICK g : Follows(g, T, 1, step)
  <2> HIDE DEF step, T
  <2> QED BY <1>1, Steps
<1>3. ASSUME NEW n \in Nat PROVE g[n] = IF n = 0 THEN 1 ELSE 2 * g[n - 1]
  <2>1. CASE n = 0
    BY <1>2, <2>1 DEF Follows
  <2>2. CASE n # 0
    <3>1. n - 1 \in Nat /\ (n - 1) + 1 = n
      BY <2>2
    <3>2. g[(n - 1) + 1] = 2 * g[n - 1]
      BY <1>2, <3>1 DEF Follows
    <3> QED BY <2>2, <3>1, <3>2
  <2> QED BY <2>1, <2>2
<1>4. g = [n \in Nat |-> IF n = 0 THEN 1 ELSE 2 * g[n - 1]]
  BY <1>2, <1>3 DEF Follows
<1>5. Pow2 = [n \in Nat |-> IF n = 0 THEN 1 ELSE 2 * Pow2[n - 1]]
  BY <1>4 DEF Pow2
<1> QED BY <1>5

LEMMA Pow2Step == Pow2[0] = 1 /\ \A n \in Nat : Pow2[n + 1] = 2 * Pow2[n]
<1>1. Pow2[0] = 1
  BY Pow2Def
<1>2. ASSUME NEW n \in Nat
      PROVE  Pow2[n + 1] = 2 * Pow2[n]
  <2>1. n + 1 \in Nat /\ n + 1 # 0 /\ (n + 1) - 1 = n
    OBVIOUS
  <2> QED BY <2>1, Pow2Def
<1> QED BY <1>1, <1>2

LEMMA Pow2Type == \A n \in Nat : Pow2[n] \in Nat \ {0}
<1>1. Pow2[0] \in Nat \ {0}
  BY Pow2Step
<1>2. \A k \in Nat : Pow2[k] \in Nat \ {0} => Pow2[k + 1] \in Nat \ {0}
  BY Pow2Step
<1> DEFINE T == Nat \ {0}
<1> HIDE DEF T
<1>3. \A k \in Nat : Pow2[k] \in T
  BY <1>1, <1>2, Turns DEF T
<1> QED BY <1>3 DEF T

LEMMA Pow2Sum ==
  ASSUME NEW a \in Nat, NEW b \in Nat
  PROVE  Pow2[a + b] = Pow2[a] * Pow2[b]
<1> DEFINE Goal(k) == Pow2[a + k] = Pow2[a] * Pow2[k]
           f == [k \in Nat |-> IF Goal(k) THEN 1 ELSE 0]
<1>1. Goal(0)
  <2>1. a + 0 = a /\ Pow2[a] \in Nat /\ Pow2[0] = 1
    BY Pow2Type, Pow2Step
  <2>2. Pow2[a] * 1 = Pow2[a]
    BY <2>1
  <2> QED BY <2>1, <2>2
<1>2. ASSUME NEW k \in Nat, Goal(k)
      PROVE  Goal(k + 1)
  <2>1. a + (k + 1) = (a + k) + 1 /\ a + k \in Nat
    OBVIOUS
  <2>2. Pow2[a + (k + 1)] = 2 * Pow2[a + k] /\ Pow2[k + 1] = 2 * Pow2[k]
    BY <2>1, Pow2Step
  <2>3. Pow2[a] \in Int /\ Pow2[k] \in Int
    BY Pow2Type
  <2>4. 2 * (Pow2[a] * Pow2[k]) = Pow2[a] * (2 * Pow2[k])
    BY <2>3
  <2> QED BY <1>2, <2>2, <2>4
<1> HIDE DEF Goal
<1>3. f[0] \in {1} /\ \A k \in Nat : f[k] \in {1} => f[k + 1] \in {1}
  BY <1>1, <1>2
<1>4. \A k \in Nat : f[k] \in {1}
  <2> HIDE DEF f
  <2> QED BY <1>3, Turns
<1>5. Goal(b)
  BY <1>4
<1> QED BY <1>5 DEF Goal

LEMMA Pow2Mono ==
  ASSUME NEW a \in Nat, NEW b \in Nat, a <= b
  PROVE  Pow2[a] <= Pow2[b]
<1> DEFINE c == b - a
<1>1. c \in Nat /\ b = a + c
  OBVIOUS
<1> HIDE DEF c
<1>2. Pow2[b] = Pow2[a] * Pow2[c]
  BY <1>1, Pow2Sum
<1>3. Pow2[a] \in Nat /\ Pow2[c] \in Nat \ {0}
  BY <1>1, Pow2Type
<1>4. Pow2[a] * 1 <= Pow2[a] * Pow2[c]
  <2> DEFINE x == Pow2[a]
             y == Pow2[c]
  <2> HIDE DEF x, y
  <2>1. x \in Nat /\ y \in Nat \ {0}
    BY <1>3 DEF x, y
  <2>2. x * 1 <= x * y
    BY <2>1
  <2> QED BY <2>2 DEF x, y
<1> QED BY <1>2, <1>3, <1>4

LEMMA SizeFacts ==
  /\ BITS \in Nat \ {0} /\ HSIZE \in Nat \ {0} /\ PACKET \in 1 .. 255 /\ Depth \in Nat \ {0}
  /\ initCodeSize \in 2 .. 255 /\ initCodeSize + 1 < BITS /\ Depth <= initCodeSize
  /\ maxmaxcode \in Nat \ {0} /\ maxmaxcode <= HSIZE
  /\ ClearCode \in Nat /\ ClearCode >= 4
  /\ Pow2[initCodeSize + 1] = 2 * ClearCode /\ 2 * Pow2[initCodeSize + 1] <= maxmaxcode
  /\ Pow2[Depth] \in Nat \ {0} /\ Pow2[Depth] <= ClearCode
<1>1. /\ BITS \in Nat \ {0} /\ HSIZE \in Nat \ {0} /\ PACKET \in 1 .. 255 /\ Depth \in Nat \ {0}
      /\ initCodeSize + 1 < BITS /\ BITS + 7 < 32 /\ maxmaxcode <= HSIZE
  <2>1. {BITS, HSIZE, PACKET, Depth} \subseteq Nat \ {0} /\ PACKET < 256
        /\ initCodeSize + 1 < BITS /\ BITS + 7 < 32 /\ maxmaxcode <= HSIZE
    BY SizesAssumption
  <2>2. PACKET \in Nat \ {0} /\ PACKET < 256
    BY <2>1
  <2>3. PACKET \in 1 .. 255
    BY <2>2
  <2> QED BY <2>1, <2>3
<1>2. initCodeSize \in 2 .. 255 /\ Depth <= initCodeSize
  BY <1>1 DEF initCodeSize
<1>3. maxmaxcode \in Nat \ {0} /\ ClearCode \in Nat \ {0} /\ Pow2[Depth] \in Nat \ {0}
  <2>1. initCodeSize \in Nat /\ BITS \in Nat /\ Depth \in Nat
    BY <1>1, <1>2
  <2> QED BY <2>1, Pow2Type DEF maxmaxcode, ClearCode
<1>4. ClearCode >= 4
  <2>1. Pow2[1] = 2 /\ Pow2[2] = 4
    <3>1. 0 + 1 = 1 /\ 1 + 1 = 2 /\ 0 \in Nat /\ 1 \in Nat
      OBVIOUS
    <3> QED BY <3>1, Pow2Step
  <2>2. 2 \in Nat /\ initCodeSize \in Nat /\ 2 <= initCodeSize
    BY <1>2
  <2>3. Pow2[2] <= Pow2[initCodeSize]
    BY <2>2, Pow2Mono
  <2> QED BY <2>1, <2>3 DEF ClearCode
<1>5. Pow2[initCodeSize + 1] = 2 * ClearCode /\ 2 * Pow2[initCodeSize + 1] <= maxmaxcode
  <2>1. initCodeSize \in Nat /\ initCodeSize + 1 \in Nat /\ (initCodeSize + 1) + 1 \in Nat
        /\ (initCodeSize + 1) + 1 <= BITS /\ BITS \in Nat
    BY <1>1, <1>2
  <2>2. Pow2[(initCodeSize + 1) + 1] <= Pow2[BITS]
    BY <2>1, Pow2Mono
  <2> QED BY <2>1, <2>2, Pow2Step DEF maxmaxcode, ClearCode
<1>6. Pow2[Depth] <= ClearCode
  <2>1. Depth \in Nat /\ initCodeSize \in Nat
    BY <1>1, <1>2
  <2> QED BY <1>2, <2>1, Pow2Mono DEF ClearCode
<1> QED BY <1>1, <1>2, <1>3, <1>4, <1>5, <1>6

-----------------------------------------------------------------------------
(* Bytes and sub-blocks.                                                      *)

Bytes == 0 .. 255

EncType ==
  [pc : {"start", "pixel", "probe", "emit", "done"}, outs : Seq(Bytes), accum : Seq(Bytes),
   cur_accum : Int, cur_bits : Int, n_bits : Nat, maxcode : Nat, clear_flg : BOOLEAN,
   free_ent : Nat, htab : [Slot -> Int], codetab : [Slot -> Nat],
   curPixel : Nat, ent : Nat, c : Nat, i : Nat, disp : Nat]

(* Whole sub-blocks, behind the code size, as the places of length bytes tell.*)
Blocked(o) ==
  /\ o[1] = initCodeSize
  /\ \E P \in SUBSET (2 .. Len(o) + 1) :
       /\ 2 \in P /\ Len(o) + 1 \in P
       /\ \A p \in P : p <= Len(o) => o[p] \in 1 .. PACKET /\ p + o[p] + 1 \in P

Packed(e) == e \in EncType /\ Len(e.accum) < PACKET /\ Blocked(e.outs)

(* All that writing bytes leaves alone.                                       *)
SameCoder(f, e) ==
  /\ f.n_bits = e.n_bits /\ f.maxcode = e.maxcode /\ f.clear_flg = e.clear_flg
  /\ f.free_ent = e.free_ent /\ f.pc = e.pc
  /\ f.htab = e.htab /\ f.codetab = e.codetab /\ f.curPixel = e.curPixel
  /\ f.ent = e.ent /\ f.c = e.c /\ f.i = e.i /\ f.disp = e.disp
SameBits(f, e) == f.cur_accum = e.cur_accum /\ f.cur_bits = e.cur_bits

(* A packet behind its length is a sub-block more.                            *)
LEMMA OneBlockMore ==
  ASSUME NEW o \in Seq(Bytes), Blocked(o), NEW a \in Seq(Bytes), Len(a) \in 1 .. PACKET
  PROVE  (o \o <<Len(a)>>) \o a \in Seq(Bytes) /\ Blocked((o \o <<Len(a)>>) \o a)
<1> DEFINE n == Len(a)
           b == (o \o <<n>>) \o a
<1>1. n \in Bytes /\ n \in 1 .. PACKET
  <2>1. n \in 1 .. PACKET
    OBVIOUS
  <2>2. PACKET \in 1 .. 255
    BY SizeFacts
  <2> HIDE DEF n
  <2> QED BY <2>1, <2>2 DEF Bytes
<1>2. o \o <<n>> \in Seq(Bytes) /\ Len(o \o <<n>>) = Len(o) + 1
      /\ \A k \in 1 .. Len(o) + 1 : (o \o <<n>>)[k] = IF k <= Len(o) THEN o[k] ELSE n
  <2> HIDE DEF n
  <2> QED BY <1>1
<1>3. /\ b \in Seq(Bytes) /\ Len(b) = Len(o) + 1 + n
      /\ \A k \in 1 .. Len(o) : b[k] = o[k]
      /\ b[Len(o) + 1] = n
  <2> DEFINE x == o \o <<n>>
  <2>1. x \in Seq(Bytes) /\ Len(x) = Len(o) + 1
        /\ \A k \in 1 .. Len(o) + 1 : x[k] = IF k <= Len(o) THEN o[k] ELSE n
    BY <1>2
  <2> HIDE DEF x
  <2>2. x \o a \in Seq(Bytes) /\ Len(x \o a) = Len(x) + Len(a)
        /\ \A k \in 1 .. Len(x) : (x \o a)[k] = x[k]
    BY <2>1
  <2>3. Len(o) \in Nat /\ n \in Nat
    OBVIOUS
  <2> HIDE DEF n
  <2> QED BY <2>1, <2>2, <2>3 DEF x, n
<1> HIDE DEF b
<1>4. PICK P \in SUBSET (2 .. Len(o) + 1) :
        /\ 2 \in P /\ Len(o) + 1 \in P
        /\ \A p \in P : p <= Len(o) => o[p] \in 1 .. PACKET /\ p + o[p] + 1 \in P
  BY DEF Blocked
<1> DEFINE Q == P \cup {Len(b) + 1}
<1>5. Len(o) \in Nat /\ n \in Nat /\ Q \in SUBSET (2 .. Len(b) + 1) /\ 2 \in Q /\ Len(b) + 1 \in Q
  <2>1. Len(o) \in Nat /\ n \in Nat
    OBVIOUS
  <2> HIDE DEF n
  <2>2. 2 .. Len(o) + 1 \subseteq 2 .. Len(b) + 1 /\ Len(b) + 1 \in 2 .. Len(b) + 1
    BY <1>1, <1>3, <2>1
  <2> QED BY <1>4, <2>1, <2>2
<1>6. ASSUME NEW p \in Q, p <= Len(b)
      PROVE  b[p] \in 1 .. PACKET /\ p + b[p] + 1 \in Q
  <2> HIDE DEF n
  <2>1. p \in P /\ p \in 2 .. Len(o) + 1
    BY <1>3, <1>4, <1>5, <1>6
  <2>2. CASE p <= Len(o)
    <3>1. b[p] = o[p]
      BY <1>3, <1>5, <2>1, <2>2
    <3> QED BY <1>4, <2>1, <2>2, <3>1
  <2>3. CASE p = Len(o) + 1
    BY <1>1, <1>3, <1>5, <2>3
  <2> QED BY <1>5, <2>1, <2>2, <2>3
<1>7. Blocked(b)
  <2>1. o[1] = initCodeSize
    BY DEF Blocked
  <2>2. 1 \in 1 .. Len(o)
    BY <1>4, <1>5
  <2>3. b[1] = initCodeSize
    BY <1>3, <2>1, <2>2
  <2> HIDE DEF Q
  <2> QED BY <1>5, <1>6, <2>3 DEF Blocked
<1> QED BY <1>3, <1>7 DEF b

LEMMA FlushKeeps ==
  ASSUME NEW e \in EncType, Blocked(e.outs), Len(e.accum) <= PACKET
  PROVE  /\ Packed(flush_char(e)) /\ flush_char(e).accum = <<>>
         /\ SameCoder(flush_char(e), e) /\ SameBits(flush_char(e), e)
<1>1. e.accum \in Seq(Bytes) /\ e.outs \in Seq(Bytes)
  BY DEF EncType
<1>2. CASE e.accum = <<>>
  <2>1. Len(e.accum) = 0
    BY <1>2
  <2>2. flush_char(e) = e
    BY <1>2 DEF flush_char
  <2> QED BY <1>2, <2>1, <2>2, SizeFacts DEF Packed, SameCoder, SameBits
<1>3. CASE e.accum # <<>>
  <2> DEFINE o == (e.outs \o <<Len(e.accum)>>) \o e.accum
             f == [e EXCEPT !.outs = o, !.accum = <<>>]
  <2>1. flush_char(e) = f
    BY <1>3 DEF flush_char
  <2>2. Len(e.accum) \in 1 .. PACKET
    BY <1>1, <1>3, SizeFacts
  <2>3. o \in Seq(Bytes) /\ Blocked(o)
    BY <1>1, <2>2, OneBlockMore
  <2> HIDE DEF o
  <2>4. f \in EncType /\ f.outs = o /\ f.accum = <<>> /\ SameCoder(f, e) /\ SameBits(f, e)
    <3>1. <<>> \in Seq(Bytes)
      OBVIOUS
    <3> QED BY <2>3, <3>1 DEF EncType, SameCoder, SameBits
  <2>5. Len(<<>>) = 0 /\ 0 < PACKET
    BY SizeFacts
  <2> HIDE DEF f
  <2> QED BY <2>1, <2>3, <2>4, <2>5 DEF Packed
<1> QED BY <1>2, <1>3

LEMMA CharOutKeeps ==
  ASSUME NEW e, Packed(e), NEW byte \in Bytes
  PROVE  Packed(char_out(e, byte)) /\ SameCoder(char_out(e, byte), e) /\ SameBits(char_out(e, byte), e)
<1> DEFINE f == [e EXCEPT !.accum = Append(@, byte)]
<1>1. e \in EncType /\ e.accum \in Seq(Bytes)
  BY DEF Packed, EncType
<1>2. Append(e.accum, byte) \in Seq(Bytes) /\ Len(Append(e.accum, byte)) = Len(e.accum) + 1
  BY <1>1
<1>3. f \in EncType /\ f.outs = e.outs /\ f.accum = Append(e.accum, byte) /\ SameCoder(f, e) /\ SameBits(f, e)
  BY <1>1, <1>2 DEF EncType, SameCoder, SameBits
<1>4. char_out(e, byte) = IF Len(f.accum) >= PACKET THEN flush_char(f) ELSE f
  BY DEF char_out
<1> HIDE DEF f
<1>5. Len(f.accum) <= PACKET /\ Blocked(f.outs) /\ Len(f.accum) \in Nat
  BY <1>1, <1>2, <1>3, SizeFacts DEF Packed
<1>6. CASE Len(f.accum) >= PACKET
  <2>1. Packed(flush_char(f)) /\ SameCoder(flush_char(f), f) /\ SameBits(flush_char(f), f)
    BY <1>3, <1>5, FlushKeeps
  <2> QED BY <1>3, <1>4, <1>6, <2>1 DEF SameCoder, SameBits
<1>7. CASE ~(Len(f.accum) >= PACKET)
  BY <1>3, <1>4, <1>5, <1>7, SizeFacts DEF Packed
<1> QED BY <1>6, <1>7

-----------------------------------------------------------------------------
(* output.                                                                    *)

LEMMA DivLess ==
  ASSUME NEW a \in Nat, NEW d \in Nat \ {0}, NEW c \in Nat, a < c * d
  PROVE  a \div d \in 0 .. c - 1
OBVIOUS

LEMMA ByteRest ==
  ASSUME NEW a \in Int
  PROVE  a % 256 \in Bytes
BY DEF Bytes

(* The loop over whole bytes, turn by turn.                                   *)
LowByte(bits, k) == (bits \div Pow2[8 * k]) % 256

LoopTurns(after, e, bits) ==
  /\ after[0] = e
  /\ \A k \in Nat :
       /\ after[k + 1] = char_out(after[k], LowByte(bits, k))
       /\ Packed(after[k]) /\ SameCoder(after[k], e) /\ SameBits(after[k], e)
       /\ LowByte(bits, k) \in Bytes
  /\ \A n \in Nat : LowBytes(e, bits, n) = after[n]

LEMMA LowBytesTurns ==
  ASSUME NEW e, Packed(e), NEW bits \in Nat
  PROVE  \E after : LoopTurns(after, e, bits)
<1> DEFINE T == {f \in EncType : Packed(f) /\ SameCoder(f, e) /\ SameBits(f, e)}
           byte(k) == (bits \div Pow2[8 * (k - 1)]) % 256
           step == [p \in Nat \X T |-> char_out(p[2], byte(p[1] + 1))]
           after[k \in Nat] == IF k = 0 THEN e ELSE char_out(after[k - 1], byte(k))
<1>1. \A k \in Nat : byte(k + 1) \in Bytes /\ byte(k + 1) = LowByte(bits, k)
  <2> SUFFICES ASSUME NEW k \in Nat PROVE byte(k + 1) \in Bytes /\ byte(k + 1) = LowByte(bits, k)
    OBVIOUS
  <2>1. (k + 1) - 1 = k /\ 8 * k \in Nat
    OBVIOUS
  <2>2. Pow2[8 * k] \in Nat \ {0}
    BY <2>1, Pow2Type
  <2>3. bits \div Pow2[8 * k] \in Int
    BY <2>2
  <2> QED BY <2>1, <2>3, ByteRest DEF LowByte
<1> HIDE DEF byte
<1>2. e \in T
  BY DEF Packed, SameCoder, SameBits
<1>3. \A f \in T, k \in Nat : char_out(f, byte(k + 1)) \in T
  <2> SUFFICES ASSUME NEW f \in T, NEW k \in Nat PROVE char_out(f, byte(k + 1)) \in T
    OBVIOUS
  <2> DEFINE g == char_out(f, byte(k + 1))
  <2>1. Packed(g) /\ SameCoder(g, f) /\ SameBits(g, f)
    BY <1>1, CharOutKeeps
  <2> HIDE DEF g
  <2>2. SameCoder(g, e) /\ SameBits(g, e) /\ g \in EncType
    BY <2>1 DEF SameCoder, SameBits, Packed
  <2> QED BY <2>1, <2>2 DEF g
<1>4. step \in [Nat \X T -> T]
  <2> HIDE DEF T
  <2> QED BY <1>3
<1>5. PICK g : Follows(g, T, e, step)
  <2> HIDE DEF T, step
  <2> QED BY <1>2, <1>4, Steps
<1>6. \A k \in Nat : g[k] \in T /\ g[k + 1] = char_out(g[k], byte(k + 1))
  <2> HIDE DEF T
  <2> QED BY <1>5 DEF Follows
<1>7. g = [k \in Nat |-> IF k = 0 THEN e ELSE char_out(g[k - 1], byte(k))]
  <2>1. ASSUME NEW k \in Nat PROVE g[k] = IF k = 0 THEN e ELSE char_out(g[k - 1], byte(k))
    <3>1. CASE k = 0
      BY <1>5, <3>1 DEF Follows
    <3>2. CASE k # 0
      <4>1. k - 1 \in Nat /\ (k - 1) + 1 = k
        BY <3>2
      <4> QED BY <1>6, <3>2, <4>1
    <3> QED BY <3>1, <3>2
  <2>2. DOMAIN g = Nat /\ g = [k \in DOMAIN g |-> g[k]]
    <3> HIDE DEF T
    <3> QED BY <1>5 DEF Follows
  <2> QED BY <2>1, <2>2
<1>8. after = [k \in Nat |-> IF k = 0 THEN e ELSE char_out(after[k - 1], byte(k))]
  BY <1>7
<1>9. \A n \in Nat : LowBytes(e, bits, n) = after[n]
  BY DEF LowBytes, byte
<1> HIDE DEF after
<1>10. after[0] = e
  BY <1>8
<1>11. \A k \in Nat : after[k + 1] = char_out(after[k], byte(k + 1))
  <2> SUFFICES ASSUME NEW k \in Nat PROVE after[k + 1] = char_out(after[k], byte(k + 1))
    OBVIOUS
  <2>1. k + 1 \in Nat /\ k + 1 # 0 /\ (k + 1) - 1 = k
    OBVIOUS
  <2>2. after[k + 1] = char_out(after[(k + 1) - 1], byte(k + 1))
    BY <1>8, <2>1
  <2> QED BY <2>1, <2>2
<1>12. \A k \in Nat : after[k] \in T
  <2>1. \A k \in Nat : after[k] \in T => after[k + 1] \in T
    BY <1>3, <1>11
  <2> HIDE DEF T
  <2> QED BY <1>2, <1>10, <2>1, Turns
<1>13. LoopTurns(after, e, bits)
  BY <1>1, <1>9, <1>10, <1>11, <1>12 DEF LoopTurns
<1> QED BY <1>13

LEMMA LowBytesKeep ==
  ASSUME NEW e, Packed(e), NEW bits \in Nat, NEW n \in Nat
  PROVE  LET f == LowBytes(e, bits, n) IN Packed(f) /\ SameCoder(f, e) /\ SameBits(f, e)
<1>1. PICK after : LoopTurns(after, e, bits)
  BY LowBytesTurns
<1> QED BY <1>1 DEF LoopTurns

(* The bits that wait are fewer than eight and fit a byte.                    *)
Waiting(e) == e.cur_bits \in 0 .. 7 /\ e.cur_accum \in 0 .. Pow2[e.cur_bits] - 1

LEMMA Pow2Seven == Pow2[7] = 128 /\ Pow2[8] = 256
<1>1. \A k \in {0, 1, 2, 3, 4, 5, 6, 7} : Pow2[k + 1] = 2 * Pow2[k]
  BY Pow2Step
<1>2. 0 + 1 = 1 /\ 1 + 1 = 2 /\ 2 + 1 = 3 /\ 3 + 1 = 4 /\ 4 + 1 = 5 /\ 5 + 1 = 6 /\ 6 + 1 = 7 /\ 7 + 1 = 8
  OBVIOUS
<1>3. /\ Pow2[1] = 2 * Pow2[0] /\ Pow2[2] = 2 * Pow2[1] /\ Pow2[3] = 2 * Pow2[2]
      /\ Pow2[4] = 2 * Pow2[3] /\ Pow2[5] = 2 * Pow2[4] /\ Pow2[6] = 2 * Pow2[5]
      /\ Pow2[7] = 2 * Pow2[6] /\ Pow2[8] = 2 * Pow2[7]
  BY <1>1, <1>2
<1>4. Pow2[0] = 1
  BY Pow2Step
<1> QED BY <1>3, <1>4

LEMMA WaitingByte ==
  ASSUME NEW e, Waiting(e)
  PROVE  /\ e.cur_bits \in 0 .. 7 /\ e.cur_accum \in 0 .. 127
         /\ e.cur_bits \in Nat /\ e.cur_accum \in Nat
<1> DEFINE b == e.cur_bits
           a == e.cur_accum
           w == Pow2[b]
<1>1. b \in 0 .. 7 /\ a \in 0 .. w - 1
  BY DEF Waiting
<1> HIDE DEF a, b
<1>2. w \in Nat /\ w <= 128
  <2>1. b \in Nat /\ 7 \in Nat /\ b <= 7
    BY <1>1
  <2>2. Pow2[b] <= Pow2[7]
    BY <2>1, Pow2Mono
  <2> QED BY <2>1, <2>2, Pow2Seven, Pow2Type
<1> HIDE DEF w
<1> QED BY <1>1, <1>2 DEF a, b

LEMMA Accumulated ==
  ASSUME NEW a \in Nat, NEW b \in Nat, NEW n \in Nat, NEW code \in Nat, code < Pow2[n]
  PROVE  /\ (a % Pow2[b]) + code * Pow2[b] \in Nat
         /\ (a % Pow2[b]) + code * Pow2[b] < Pow2[b + n]
<1> DEFINE x == Pow2[b]
           y == Pow2[n]
<1>1. x \in Nat \ {0} /\ y \in Nat \ {0} /\ Pow2[b + n] = x * y
  BY Pow2Type, Pow2Sum
<1> HIDE DEF x
<1>2. a % x \in 0 .. x - 1
  BY <1>1
<1>3. code < y
  OBVIOUS
<1> HIDE DEF y
<1>4. code * x \in Nat /\ code * x <= (y - 1) * x
  BY <1>1, <1>3
<1>5. (y - 1) * x = x * y - x
  BY <1>1
<1>6. x * y \in Int
  BY <1>1
<1>7. (a % x) + code * x < x * y
  BY <1>1, <1>2, <1>4, <1>5, <1>6
<1>8. (a % x) + code * x \in Nat
  BY <1>2, <1>4
<1> QED BY <1>1, <1>7, <1>8 DEF x

LEMMA PackKeeps ==
  ASSUME NEW e, Packed(e), Waiting(e), NEW code \in Nat, code < Pow2[e.n_bits]
  PROVE  Packed(Pack(e, code)) /\ SameCoder(Pack(e, code), e) /\ Waiting(Pack(e, code))
<1> DEFINE acc == (e.cur_accum % Pow2[e.cur_bits]) + code * Pow2[e.cur_bits]
           n == e.cur_bits + e.n_bits
           q == n \div 8
           r == n % 8
           f == LowBytes(e, acc, q)
<1>1. e \in EncType /\ e.n_bits \in Nat /\ e.cur_bits \in Nat /\ e.cur_accum \in Nat /\ n \in Nat
  <2>1. e \in EncType
    BY DEF Packed
  <2>2. e.n_bits \in Nat
    BY <2>1 DEF EncType
  <2>3. e.cur_bits \in Nat /\ e.cur_accum \in Nat
    BY WaitingByte
  <2> QED BY <2>1, <2>2, <2>3
<1>2. acc \in Nat /\ acc < Pow2[n]
  BY <1>1, Accumulated
<1>3. Pack(e, code) = [f EXCEPT !.cur_accum = acc \div Pow2[8 * q], !.cur_bits = r]
  BY DEF Pack
<1> HIDE DEF acc, n
<1>4. q \in Nat /\ r \in 0 .. 7 /\ n = 8 * q + r
  BY <1>1
<1> HIDE DEF q, r
<1>5. acc \div Pow2[8 * q] \in 0 .. Pow2[r] - 1
  <2>1. 8 * q \in Nat /\ r \in Nat
    BY <1>4
  <2>2. Pow2[n] = Pow2[r] * Pow2[8 * q]
    <3>1. n = r + 8 * q
      BY <1>4, <2>1
    <3> QED BY <2>1, <3>1, Pow2Sum
  <2>3. Pow2[r] \in Nat \ {0} /\ Pow2[8 * q] \in Nat \ {0}
    BY <2>1, Pow2Type
  <2> QED BY <1>2, <2>2, <2>3, DivLess
<1>6. Packed(f) /\ SameCoder(f, e) /\ SameBits(f, e)
  BY <1>2, <1>4, LowBytesKeep
<1> HIDE DEF f
<1> DEFINE a == acc \div Pow2[8 * q]
           g == [f EXCEPT !.cur_accum = a, !.cur_bits = r]
<1>7. a \in 0 .. Pow2[r] - 1
  BY <1>5
<1> HIDE DEF a
<1>8. g \in EncType /\ g.outs = f.outs /\ g.accum = f.accum /\ SameCoder(g, f)
      /\ g.cur_accum = a /\ g.cur_bits = r
  <2>1. f \in EncType
    BY <1>6 DEF Packed
  <2>2. a \in Int /\ r \in Int
    BY <1>4, <1>7
  <2> QED BY <2>1, <2>2 DEF EncType, SameCoder
<1>9. Pack(e, code) = g
  BY <1>3 DEF a
<1> HIDE DEF g
<1>10. Packed(g) /\ Waiting(g)
  BY <1>4, <1>6, <1>7, <1>8 DEF Packed, Waiting
<1>11. SameCoder(g, e)
  BY <1>6, <1>8 DEF SameCoder
<1> QED BY <1>9, <1>10, <1>11

(* The width fits the table: the next entry is at most one past it.           *)
Widths(e) ==
  /\ e.n_bits \in initCodeSize + 1 .. BITS
  /\ e.maxcode = IF e.n_bits = BITS THEN maxmaxcode ELSE Pow2[e.n_bits] - 1
  /\ e.free_ent \in ClearCode + 2 .. maxmaxcode
Filled(e) == IF e.clear_flg THEN e.free_ent = ClearCode + 2 ELSE e.free_ent <= Pow2[e.n_bits]
Room(e) == e.free_ent < maxmaxcode => e.free_ent < Pow2[e.n_bits]

(* What a change of width leaves alone.                                       *)
SameTable(f, e) ==
  /\ f.free_ent = e.free_ent /\ f.pc = e.pc
  /\ f.htab = e.htab /\ f.codetab = e.codetab /\ f.curPixel = e.curPixel
  /\ f.ent = e.ent /\ f.c = e.c /\ f.i = e.i /\ f.disp = e.disp

LEMMA WidenKeeps ==
  ASSUME NEW e, Packed(e), Waiting(e), Widths(e),
         Filled(e)
  PROVE  LET f == Widen(e) IN
         /\ Packed(f) /\ Waiting(f) /\ Widths(f) /\ SameTable(f, e)
         /\ ~f.clear_flg /\ f.free_ent <= Pow2[f.n_bits] /\ Room(f)
<1> DEFINE w == initCodeSize + 1
           f == [e EXCEPT !.n_bits = w, !.maxcode = Pow2[w] - 1, !.clear_flg = FALSE]
           h == IF e.n_bits + 1 = BITS THEN maxmaxcode ELSE Pow2[e.n_bits + 1] - 1
           g == [e EXCEPT !.n_bits = e.n_bits + 1, !.maxcode = h]
<1>1. e \in EncType /\ e.n_bits \in Nat /\ e.free_ent \in Nat /\ e.maxcode \in Nat /\ e.clear_flg \in BOOLEAN
  <2>1. e \in EncType
    BY DEF Packed
  <2> QED BY <2>1 DEF EncType
<1>2. BITS \in Nat /\ w \in Nat /\ w < BITS /\ Pow2[w] = 2 * ClearCode /\ ClearCode \in Nat /\ ClearCode >= 4
      /\ maxmaxcode \in Nat /\ 2 * Pow2[w] <= maxmaxcode
  BY SizeFacts
<1>3. Widen(e) = IF e.clear_flg THEN f ELSE IF e.free_ent > e.maxcode THEN g ELSE e
  BY DEF Widen, WidenAt, MAXCODE
<1> HIDE DEF w, f, g, h
<1>4. CASE e.clear_flg
  <2>1. /\ f.n_bits = w /\ f.maxcode = Pow2[w] - 1 /\ f.clear_flg = FALSE
        /\ SameTable(f, e) /\ f.outs = e.outs /\ f.accum = e.accum /\ SameBits(f, e)
    BY <1>1 DEF f, EncType, SameTable, SameBits
  <2>2. f \in EncType
    <3>1. w \in Nat /\ Pow2[w] - 1 \in Nat
      BY <1>2
    <3> QED BY <1>1, <3>1 DEF f, EncType
  <2>3. Packed(f) /\ Waiting(f)
    BY <2>1, <2>2 DEF Packed, Waiting, SameBits
  <2>4. w \in w .. BITS /\ w # BITS
    BY <1>2
  <2>5. Widths(f)
    <3>1. f.free_ent \in ClearCode + 2 .. maxmaxcode
      BY <2>1 DEF Widths, SameTable
    <3> QED BY <2>1, <2>4, <3>1 DEF Widths, w
  <2>6. f.free_ent < Pow2[f.n_bits]
    BY <1>2, <1>4, <2>1 DEF SameTable, Filled
  <2>7. f.free_ent \in Nat /\ f.free_ent <= Pow2[f.n_bits]
    BY <1>1, <1>2, <2>1, <2>6 DEF SameTable
  <2> QED BY <1>3, <1>4, <2>1, <2>3, <2>5, <2>6, <2>7 DEF Room
<1>5. ASSUME ~e.clear_flg, e.free_ent > e.maxcode
      PROVE  e.n_bits < BITS /\ e.free_ent = Pow2[e.n_bits] /\ e.n_bits + 1 \in Nat
             /\ Pow2[e.n_bits + 1] = 2 * Pow2[e.n_bits] /\ Pow2[e.n_bits] \in Nat \ {0}
  <2>1. e.n_bits # BITS
    BY <1>2, <1>5 DEF Widths
  <2>2. e.n_bits < BITS /\ e.n_bits + 1 \in Nat
    BY <1>1, <1>2, <2>1 DEF Widths
  <2>3. e.maxcode = Pow2[e.n_bits] - 1 /\ Pow2[e.n_bits] \in Nat \ {0}
    BY <1>1, <2>1, Pow2Type DEF Widths
  <2>4. e.free_ent = Pow2[e.n_bits]
    BY <1>1, <1>5, <2>3 DEF Filled
  <2> QED BY <1>1, <2>2, <2>3, <2>4, Pow2Step
<1>6. CASE ~e.clear_flg /\ e.free_ent > e.maxcode
  <2>1. /\ g.n_bits = e.n_bits + 1 /\ g.maxcode = h /\ g.clear_flg = e.clear_flg
        /\ SameTable(g, e) /\ g.outs = e.outs /\ g.accum = e.accum /\ SameBits(g, e)
    BY <1>1 DEF g, EncType, SameTable, SameBits
  <2>2. g \in EncType
    <3>1. e.n_bits + 1 \in Nat /\ h \in Nat
      <4>1. Pow2[e.n_bits + 1] - 1 \in Nat
        BY <1>5, <1>6
      <4> QED BY <1>2, <1>5, <1>6, <4>1 DEF h
    <3> QED BY <1>1, <3>1 DEF g, EncType
  <2>3. Packed(g) /\ Waiting(g)
    BY <2>1, <2>2 DEF Packed, Waiting, SameBits
  <2>4. Widths(g)
    <3>1. e.n_bits + 1 \in initCodeSize + 1 .. BITS
      <4>1. initCodeSize \in Nat /\ e.n_bits \in initCodeSize + 1 .. BITS
        BY SizeFacts DEF Widths
      <4> QED BY <1>2, <1>5, <1>6, <4>1
    <3>2. g.free_ent \in ClearCode + 2 .. maxmaxcode
      BY <2>1 DEF Widths, SameTable
    <3> QED BY <2>1, <3>1, <3>2 DEF Widths, h
  <2>5. g.free_ent \in Nat /\ g.free_ent < Pow2[g.n_bits] /\ g.free_ent <= Pow2[g.n_bits]
    BY <1>1, <1>5, <1>6, <2>1 DEF SameTable
  <2> QED BY <1>3, <1>6, <2>1, <2>3, <2>4, <2>5 DEF Room
<1>7. CASE ~e.clear_flg /\ ~(e.free_ent > e.maxcode)
  <2>1. e.free_ent < maxmaxcode => e.free_ent < Pow2[e.n_bits]
    <3>1. CASE e.n_bits = BITS
      BY <3>1 DEF maxmaxcode
    <3>2. CASE e.n_bits # BITS
      <4>1. e.maxcode = Pow2[e.n_bits] - 1 /\ Pow2[e.n_bits] \in Nat
        BY <1>1, <3>2, Pow2Type DEF Widths
      <4> QED BY <1>1, <1>7, <4>1
    <3> QED BY <3>1, <3>2
  <2> QED BY <1>3, <1>7, <2>1 DEF Room, SameTable, Filled
<1> QED BY <1>4, <1>6, <1>7

(* What output asks of the record and gives back.                             *)
Ready(e) == Packed(e) /\ Waiting(e) /\ Widths(e) /\ Filled(e)
Wrote(f, e) ==
  /\ Packed(f) /\ Waiting(f) /\ Widths(f) /\ SameTable(f, e)
  /\ ~f.clear_flg /\ f.free_ent <= Pow2[f.n_bits] /\ Room(f)

LEMMA PackWiden ==
  ASSUME NEW e, Ready(e), NEW code \in Nat, code < Pow2[e.n_bits]
  PROVE  Wrote(Widen(Pack(e, code)), e)
<1> DEFINE p == Pack(e, code)
<1>1. Packed(p) /\ SameCoder(p, e) /\ Waiting(p)
  BY PackKeeps DEF Ready
<1> HIDE DEF p
<1>2. Widths(p) /\ Filled(p) /\ SameTable(p, e)
  BY <1>1 DEF Ready, Widths, Filled, SameCoder, SameTable
<1> DEFINE f == Widen(p)
<1>3. /\ Packed(f) /\ Waiting(f) /\ Widths(f) /\ SameTable(f, p)
      /\ ~f.clear_flg /\ f.free_ent <= Pow2[f.n_bits] /\ Room(f)
  BY <1>1, <1>2, WidenKeeps
<1> HIDE DEF f
<1>4. Wrote(f, e)
  BY <1>2, <1>3 DEF Wrote, SameTable
<1> QED BY <1>4 DEF f, p

LEMMA OutputKeeps ==
  ASSUME NEW e, Ready(e), NEW code \in Nat, code < Pow2[e.n_bits], code # EOFCode
  PROVE  Wrote(Output(e, code), e)
<1>1. Output(e, code) = Widen(Pack(e, code))
  BY DEF Output
<1> QED BY <1>1, PackWiden

(* After the end code nothing waits any more.                                 *)
Ended(f, e) ==
  /\ f \in EncType /\ Blocked(f.outs) /\ f.accum = <<>>
  /\ f.cur_bits \in -7 .. 7 /\ f.cur_accum \in 0 .. 127
  /\ Widths(f) /\ SameTable(f, e)

LEMMA OutputEnds ==
  ASSUME NEW e, Ready(e), EOFCode < Pow2[e.n_bits]
  PROVE  Ended(Output(e, EOFCode), e)
<1> DEFINE next == Widen(Pack(e, EOFCode))
           byte == next.cur_accum % 256
           rest == [char_out(next, byte) EXCEPT !.cur_bits = @ - 8]
           last == IF next.cur_bits > 0 THEN rest ELSE next
<1>1. Output(e, EOFCode) = flush_char(last)
  BY DEF Output
<1>2. Wrote(next, e)
  <2>1. EOFCode \in Nat
    BY SizeFacts DEF EOFCode
  <2> QED BY <2>1, PackWiden
<1> HIDE DEF next
<1>3. Packed(next) /\ Waiting(next) /\ Widths(next) /\ SameTable(next, e)
  BY <1>2 DEF Wrote
<1>4. byte \in Bytes
  BY <1>3, ByteRest DEF Waiting
<1> HIDE DEF byte
<1>5. /\ Packed(last) /\ last.cur_bits \in -7 .. 7 /\ last.cur_accum \in 0 .. 127
      /\ Widths(last) /\ SameTable(last, e)
  <2>1. CASE next.cur_bits > 0
    <3> DEFINE o == char_out(next, byte)
               b == o.cur_bits - 8
               r == [o EXCEPT !.cur_bits = b]
    <3>1. Packed(o) /\ SameCoder(o, next) /\ SameBits(o, next)
      BY <1>3, <1>4, CharOutKeeps
    <3> HIDE DEF o
    <3>2. b \in -7 .. -1
      BY <1>3, <2>1, <3>1 DEF Waiting, SameBits
    <3> HIDE DEF b
    <3>3. o \in EncType
      BY <3>1 DEF Packed
    <3>4. r \in EncType /\ r.outs = o.outs /\ r.accum = o.accum /\ r.cur_bits = b
          /\ r.cur_accum = o.cur_accum /\ SameCoder(r, o)
      <4>1. b \in Int
        BY <3>2
      <4> QED BY <3>3, <4>1 DEF EncType, SameCoder
    <3>5. last = r
      BY <2>1 DEF b, o
    <3> HIDE DEF r
    <3>6. Packed(r)
      BY <3>1, <3>4 DEF Packed
    <3>7. r.cur_bits \in -7 .. 7 /\ r.cur_accum \in 0 .. 127
      <4>1. next.cur_accum \in 0 .. 127
        BY <1>3, WaitingByte
      <4> QED BY <3>1, <3>2, <3>4, <4>1 DEF SameBits
    <3>8. SameCoder(r, next)
      BY <3>1, <3>4 DEF SameCoder
    <3>9. Widths(r) /\ SameTable(r, e)
      BY <1>3, <3>8 DEF SameCoder, SameTable, Widths
    <3> QED BY <3>5, <3>6, <3>7, <3>9
  <2>2. CASE ~(next.cur_bits > 0)
    <3>1. next.cur_bits \in 0 .. 7 /\ next.cur_accum \in 0 .. 127
      BY <1>3, WaitingByte
    <3>2. next.cur_bits \in -7 .. 7 /\ last = next
      BY <2>2, <3>1
    <3> QED BY <1>3, <3>1, <3>2
  <2> QED BY <2>1, <2>2
<1> HIDE DEF last
<1> DEFINE f == flush_char(last)
<1>6. /\ Packed(f) /\ f.accum = <<>> /\ SameCoder(f, last) /\ SameBits(f, last)
  <2>1. last \in EncType /\ Blocked(last.outs) /\ Len(last.accum) <= PACKET
    <3>1. last \in EncType /\ Blocked(last.outs) /\ Len(last.accum) < PACKET
      BY <1>5 DEF Packed
    <3>2. Len(last.accum) \in Nat
      BY <3>1 DEF EncType
    <3> QED BY <3>1, <3>2, SizeFacts
  <2> QED BY <2>1, FlushKeeps
<1> HIDE DEF f
<1>7. Ended(f, e)
  <2>1. f \in EncType /\ Blocked(f.outs)
    BY <1>6 DEF Packed
  <2>2. f.cur_bits \in -7 .. 7 /\ f.cur_accum \in 0 .. 127
    BY <1>5, <1>6 DEF SameBits
  <2>3. Widths(f) /\ SameTable(f, e)
    BY <1>5, <1>6 DEF SameCoder, SameTable, Widths
  <2> QED BY <1>6, <2>1, <2>2, <2>3 DEF Ended
<1> QED BY <1>1, <1>7 DEF f

-----------------------------------------------------------------------------
(* The hash.                                                                  *)

LEMMA XorInside ==
  ASSUME NEW a \in Nat, NEW b \in Nat
  PROVE  Xor(a, b) \in 0 .. maxmaxcode - 1
<1> DEFINE bit(k) == IF (a \div Pow2[k - 1]) % 2 = (b \div Pow2[k - 1]) % 2 THEN 0 ELSE Pow2[k - 1]
           T == Nat
           step == [p \in Nat \X T |-> p[2] + bit(p[1] + 1)]
           low[k \in Nat] == IF k = 0 THEN 0 ELSE low[k - 1] + bit(k)
<1>1. \A k \in Nat : bit(k + 1) \in 0 .. Pow2[k] /\ Pow2[k] \in Nat /\ bit(k + 1) \in Nat
  <2> SUFFICES ASSUME NEW k \in Nat PROVE bit(k + 1) \in 0 .. Pow2[k] /\ Pow2[k] \in Nat
    OBVIOUS
  <2>1. (k + 1) - 1 = k /\ Pow2[k] \in Nat
    BY Pow2Type
  <2> QED BY <2>1
<1>2. Xor(a, b) = low[BITS]
  BY DEF Xor
<1> HIDE DEF bit
<1>3. step \in [Nat \X T -> T] /\ 0 \in T
  BY <1>1
<1>4. PICK g : Follows(g, T, 0, step)
  <2> HIDE DEF step, T
  <2> QED BY <1>3, Steps
<1>5. \A k \in Nat : g[k] \in Nat /\ g[k + 1] = g[k] + bit(k + 1)
  BY <1>4 DEF Follows
<1>6. g = [k \in Nat |-> IF k = 0 THEN 0 ELSE g[k - 1] + bit(k)]
  <2>1. ASSUME NEW k \in Nat PROVE g[k] = IF k = 0 THEN 0 ELSE g[k - 1] + bit(k)
    <3>1. CASE k = 0
      BY <1>4, <3>1 DEF Follows
    <3>2. CASE k # 0
      <4>1. k - 1 \in Nat /\ (k - 1) + 1 = k
        BY <3>2
      <4> QED BY <1>5, <3>2, <4>1
    <3> QED BY <3>1, <3>2
  <2> QED BY <1>4, <2>1 DEF Follows
<1>7. low = [k \in Nat |-> IF k = 0 THEN 0 ELSE low[k - 1] + bit(k)]
  BY <1>6
<1> HIDE DEF low, step
<1> DEFINE U == {p \in Nat \X Nat : p[2] < Pow2[p[1]]}
           pair == [k \in Nat |-> <<k, low[k]>>]
<1>8. low[0] = 0 /\ \A k \in Nat : low[k + 1] = low[k] + bit(k + 1)
  <2>1. \A k \in Nat : k + 1 \in Nat /\ k + 1 # 0 /\ (k + 1) - 1 = k
    OBVIOUS
  <2> QED BY <1>7, <2>1
<1>9. \A k \in Nat : low[k] \in Nat /\ low[k] < Pow2[k]
  <2>1. pair[0] \in U
    BY <1>8, Pow2Step
  <2>2. ASSUME NEW k \in Nat, pair[k] \in U PROVE pair[k + 1] \in U
    <3>1. low[k] \in Nat /\ low[k] < Pow2[k]
      BY <2>2
    <3>2. Pow2[k + 1] = 2 * Pow2[k] /\ low[k + 1] = low[k] + bit(k + 1) /\ k + 1 \in Nat
      BY <1>8, Pow2Step
    <3>3. low[k + 1] \in Nat /\ low[k + 1] < Pow2[k + 1]
      BY <1>1, <3>1, <3>2
    <3> QED BY <3>2, <3>3
  <2>3. \A k \in Nat : pair[k] \in U
    <3> HIDE DEF U, pair
    <3> QED BY <2>1, <2>2, Turns
  <2> QED BY <2>3
<1>10. BITS \in Nat
  BY SizeFacts
<1>11. low[BITS] \in Nat /\ low[BITS] < maxmaxcode /\ maxmaxcode \in Nat
  BY <1>9, <1>10, SizeFacts DEF maxmaxcode
<1> QED BY <1>2, <1>11

-----------------------------------------------------------------------------
(* The bits a decoder holds.                                                  *)

DecFields ==
  {"mode", "pos", "bs", "bbuf", "bbits", "codesize", "cursize", "top_slot", "newcodes", "slot",
   "fc", "oc", "code", "suffix", "prefix", "out", "read"}
IsDec(d) ==
  /\ DOMAIN d = DecFields /\ d = [x \in DecFields |-> d[x]]
  /\ d.pos \in Nat \ {0} /\ d.bs \in Int /\ d.bbuf \in Nat /\ d.bbits \in Nat
(* All that fetching bytes leaves alone.                                      *)
SameDecoder(f, d) ==
  /\ f.mode = d.mode /\ f.codesize = d.codesize /\ f.cursize = d.cursize /\ f.top_slot = d.top_slot
  /\ f.newcodes = d.newcodes /\ f.slot = d.slot /\ f.fc = d.fc /\ f.oc = d.oc /\ f.code = d.code
  /\ f.suffix = d.suffix /\ f.prefix = d.prefix /\ f.out = d.out /\ f.read = d.read

LEMMA SamePowers == D!Pow2 = Pow2
BY DEF D!Pow2, Pow2

LEMMA ByteType ==
  ASSUME gb \in Seq(Bytes), NEW p \in Nat \ {0}
  PROVE  D!Byte(p) \in 0 .. 255
<1>1. CASE p <= Len(gb)
  <2>1. p \in 1 .. Len(gb)
    BY <1>1
  <2>2. gb[p] \in Bytes
    BY <2>1
  <2> QED BY <1>1, <2>2 DEF D!Byte, Bytes
<1>2. CASE ~(p <= Len(gb))
  BY <1>2 DEF D!Byte
<1> QED BY <1>1, <1>2

(* GetByte: over a length byte, then a byte of data above the bits that wait. *)
LEMMA GetByteAdds ==
  ASSUME gb \in Seq(Bytes), NEW d, IsDec(d)
  PROVE  LET f == D!GetByte(d)
             p == IF d.bs = 0 THEN d.pos + 1 ELSE d.pos
         IN  /\ IsDec(f) /\ SameDecoder(f, d)
             /\ f.bbits = d.bbits + 8 /\ f.pos = p + 1
             /\ f.bs = (IF d.bs = 0 THEN D!Byte(d.pos) ELSE d.bs) - 1
             /\ f.bbuf = d.bbuf + D!Byte(p) * Pow2[d.bbits]
<1> DEFINE first == D!Byte(d.pos)
           e == IF d.bs = 0 THEN [d EXCEPT !.bs = first, !.pos = @ + 1] ELSE d
           add == D!Byte(e.pos) * Pow2[e.bbits]
           f == [e EXCEPT !.bbuf = @ + add, !.bbits = @ + 8, !.pos = @ + 1, !.bs = @ - 1]
           p == IF d.bs = 0 THEN d.pos + 1 ELSE d.pos
<1>1. D!GetByte(d) = f
  BY SamePowers DEF D!GetByte
<1>2. first \in Nat
  <2>1. d.pos \in Nat \ {0}
    BY DEF IsDec
  <2>2. first \in 0 .. 255
    BY <2>1, ByteType
  <2> HIDE DEF first
  <2> QED BY <2>2
<1>3. /\ IsDec(e) /\ SameDecoder(e, d) /\ e.bbits = d.bbits /\ e.bbuf = d.bbuf /\ e.pos = p
      /\ e.bs = IF d.bs = 0 THEN first ELSE d.bs
  <2> HIDE DEF first
  <2>1. CASE d.bs = 0
    <3> DEFINE g == [d EXCEPT !.bs = first, !.pos = @ + 1]
    <3>1. DOMAIN g = DecFields /\ g = [x \in DecFields |-> g[x]] /\ g.bs = first /\ g.pos = d.pos + 1
          /\ g.bbuf = d.bbuf /\ g.bbits = d.bbits
      BY DEF IsDec, DecFields
    <3>2. SameDecoder(g, d)
      BY DEF IsDec, DecFields, SameDecoder
    <3>3. e = g
      BY <2>1
    <3> HIDE DEF g
    <3>4. IsDec(g)
      BY <1>2, <3>1 DEF IsDec
    <3> QED BY <2>1, <3>1, <3>2, <3>3, <3>4
  <2>2. CASE d.bs # 0
    BY <2>2 DEF SameDecoder
  <2> QED BY <2>1, <2>2
<1> HIDE DEF e
<1>4. add \in Nat /\ add = D!Byte(p) * Pow2[d.bbits]
  <2>1. D!Byte(e.pos) \in 0 .. 255 /\ e.bbits \in Nat
    <3>1. e.pos \in Nat \ {0} /\ e.bbits \in Nat
      BY <1>3 DEF IsDec
    <3> QED BY <3>1, ByteType
  <2>2. Pow2[e.bbits] \in Nat
    BY <2>1, Pow2Type
  <2>3. add \in Nat
    <3> DEFINE x == D!Byte(e.pos)
               y == Pow2[e.bbits]
    <3> HIDE DEF x, y
    <3>1. x \in Nat /\ y \in Nat
      <4>1. x \in 0 .. 255
        BY <2>1 DEF x
      <4>2. y \in Nat
        BY <2>2 DEF y
      <4> QED BY <4>1, <4>2
    <3>2. x * y \in Nat
      BY <3>1
    <3> QED BY <3>2 DEF x, y
  <2>4. add = D!Byte(p) * Pow2[d.bbits]
    BY <1>3
  <2> QED BY <2>3, <2>4
<1> HIDE DEF add
<1>5. /\ DOMAIN f = DecFields /\ f = [x \in DecFields |-> f[x]]
      /\ f.bbuf = e.bbuf + add /\ f.bbits = e.bbits + 8 /\ f.pos = e.pos + 1 /\ f.bs = e.bs - 1
  BY <1>3 DEF IsDec, DecFields
<1>6. SameDecoder(f, e)
  BY <1>3 DEF IsDec, DecFields, SameDecoder
<1> HIDE DEF f, p
<1>7. IsDec(f)
  <2>1. e.pos \in Nat \ {0} /\ e.bs \in Int /\ e.bbuf \in Nat /\ e.bbits \in Nat
    BY <1>3 DEF IsDec
  <2> DEFINE pos == e.pos
             bs == e.bs
             buf == e.bbuf
             bits == e.bbits
  <2>2. f.pos = pos + 1 /\ f.bs = bs - 1 /\ f.bbuf = buf + add /\ f.bbits = bits + 8
    BY <1>5
  <2>3. pos \in Nat \ {0} /\ bs \in Int /\ buf \in Nat /\ bits \in Nat
    BY <2>1
  <2> HIDE DEF pos, bs, buf, bits
  <2>4. f.pos \in Nat \ {0} /\ f.bs \in Int
    BY <2>2, <2>3
  <2>5. add \in Nat
    BY <1>4
  <2>6. f.bbuf \in Nat
    BY <2>2, <2>3, <2>5
  <2>7. f.bbits \in Nat
    BY <2>2, <2>3
  <2> QED BY <1>5, <2>4, <2>6, <2>7 DEF IsDec
<1>8. SameDecoder(f, d)
  BY <1>3, <1>6 DEF SameDecoder
<1>9. f.bbits = d.bbits + 8 /\ f.pos = p + 1 /\ f.bs = (IF d.bs = 0 THEN first ELSE d.bs) - 1
      /\ f.bbuf = d.bbuf + D!Byte(p) * Pow2[d.bbits]
  BY <1>3, <1>4, <1>5
<1> QED BY <1>1, <1>7, <1>8, <1>9 DEF p

(* The code at the bottom of what has been fetched.                           *)
Taken(e, d) ==
  [e EXCEPT !.code = e.bbuf % Pow2[d.cursize], !.bbuf = @ \div Pow2[d.cursize],
            !.bbits = @ - d.cursize,
            !.read = Append(@, [code |-> e.bbuf % Pow2[d.cursize], width |-> d.cursize])]
Missing(d) == IF d.bbits >= d.cursize THEN 0 ELSE ((d.cursize - d.bbits) + 7) \div 8
Fetches(g, d) ==
  /\ g[0] = d
  /\ \A k \in Nat : /\ g[k + 1] = D!GetByte(g[k])
                    /\ IsDec(g[k]) /\ SameDecoder(g[k], d) /\ g[k].bbits = d.bbits + 8 * k
  /\ D!lzw_get_code(d) = Taken(g[Missing(d)], d)

LEMMA FetchTurns ==
  ASSUME gb \in Seq(Bytes), NEW d, IsDec(d), d.bbits \in 0 .. 7, d.cursize \in Nat
  PROVE  \E g : Fetches(g, d)
<1> DEFINE U == {d[x] : x \in DecFields} \cup Int
           T == {f \in [DecFields -> U] : IsDec(f) /\ SameDecoder(f, d)}
           step == [p \in Nat \X T |-> D!GetByte(p[2])]
           fetched[k \in Nat] == IF k = 0 THEN d ELSE D!GetByte(fetched[k - 1])
<1>1. ASSUME NEW f, IsDec(f), SameDecoder(f, d)
      PROVE  f \in T
  <2>1. ASSUME NEW x \in DecFields PROVE f[x] \in U
    <3>1. CASE x \in {"pos", "bs", "bbuf", "bbits"}
      BY <1>1, <3>1 DEF IsDec
    <3>2. CASE x \notin {"pos", "bs", "bbuf", "bbits"}
      <4>1. f[x] = d[x]
        BY <1>1, <3>2 DEF SameDecoder, DecFields
      <4> QED BY <4>1
    <3> QED BY <3>1, <3>2
  <2> HIDE DEF U
  <2> QED BY <1>1, <2>1 DEF IsDec
<1>2. d \in T
  BY <1>1 DEF SameDecoder
<1>3. ASSUME NEW f \in T
      PROVE  D!GetByte(f) \in T /\ D!GetByte(f).bbits = f.bbits + 8
  <2> DEFINE h == D!GetByte(f)
  <2>1. IsDec(f) /\ SameDecoder(f, d)
    OBVIOUS
  <2>2. IsDec(h) /\ SameDecoder(h, f) /\ h.bbits = f.bbits + 8
    BY <2>1, GetByteAdds
  <2> HIDE DEF h
  <2>3. SameDecoder(h, d)
    BY <2>1, <2>2 DEF SameDecoder
  <2> HIDE DEF T
  <2> QED BY <1>1, <2>2, <2>3 DEF h
<1> HIDE DEF T
<1>4. step \in [Nat \X T -> T]
  BY <1>3
<1>5. PICK g : Follows(g, T, d, step)
  <2> HIDE DEF step
  <2> QED BY <1>2, <1>4, Steps
<1>6. \A k \in Nat : g[k] \in T /\ g[k + 1] = D!GetByte(g[k])
  BY <1>5 DEF Follows
<1>7. g = [k \in Nat |-> IF k = 0 THEN d ELSE D!GetByte(g[k - 1])]
  <2>1. ASSUME NEW k \in Nat PROVE g[k] = IF k = 0 THEN d ELSE D!GetByte(g[k - 1])
    <3>1. CASE k = 0
      BY <1>5, <3>1 DEF Follows
    <3>2. CASE k # 0
      <4>1. k - 1 \in Nat /\ (k - 1) + 1 = k
        BY <3>2
      <4> QED BY <1>6, <3>2, <4>1
    <3> QED BY <3>1, <3>2
  <2> QED BY <1>5, <2>1 DEF Follows
<1>8. fetched = [k \in Nat |-> IF k = 0 THEN d ELSE D!GetByte(fetched[k - 1])]
  BY <1>7
<1>9. D!lzw_get_code(d) = Taken(fetched[Missing(d)], d)
  BY SamePowers DEF D!lzw_get_code, Taken, Missing
<1> HIDE DEF fetched, step
<1>10. fetched[0] = d
  BY <1>8
<1>11. \A k \in Nat : fetched[k + 1] = D!GetByte(fetched[k])
  <2> SUFFICES ASSUME NEW k \in Nat PROVE fetched[k + 1] = D!GetByte(fetched[k])
    OBVIOUS
  <2>1. k + 1 \in Nat /\ k + 1 # 0 /\ (k + 1) - 1 = k
    OBVIOUS
  <2>2. fetched[k + 1] = D!GetByte(fetched[(k + 1) - 1])
    BY <1>8, <2>1
  <2> QED BY <2>1, <2>2
<1>12. \A k \in Nat : fetched[k] \in T
  <2>1. \A k \in Nat : fetched[k] \in T => fetched[k + 1] \in T
    BY <1>3, <1>11
  <2> QED BY <1>2, <1>10, <2>1, Turns
<1>13. \A k \in Nat : fetched[k].bbits = d.bbits + 8 * k
  <2> DEFINE right == [k \in Nat |-> IF fetched[k].bbits = d.bbits + 8 * k THEN 1 ELSE 0]
  <2>1. right[0] \in {1}
    BY <1>10
  <2>2. ASSUME NEW k \in Nat, right[k] \in {1} PROVE right[k + 1] \in {1}
    <3>1. fetched[k + 1].bbits = fetched[k].bbits + 8
      BY <1>3, <1>11, <1>12
    <3>2. fetched[k].bbits = d.bbits + 8 * k
      BY <2>2
    <3>3. fetched[k + 1].bbits = d.bbits + 8 * (k + 1)
      BY <3>1, <3>2
    <3> QED BY <3>3
  <2>3. \A k \in Nat : right[k] \in {1}
    <3> HIDE DEF right
    <3> QED BY <2>1, <2>2, Turns
  <2> QED BY <2>3
<1>14. Fetches(fetched, d)
  BY <1>9, <1>10, <1>11, <1>12, <1>13 DEF Fetches, T
<1> QED BY <1>14

(* What taking a code leaves alone.                                           *)
SameTables(f, d) ==
  /\ f.mode = d.mode /\ f.codesize = d.codesize /\ f.cursize = d.cursize /\ f.top_slot = d.top_slot
  /\ f.newcodes = d.newcodes /\ f.slot = d.slot /\ f.fc = d.fc /\ f.oc = d.oc
  /\ f.suffix = d.suffix /\ f.prefix = d.prefix /\ f.out = d.out

LEMMA TakenKeeps ==
  ASSUME NEW e, IsDec(e), NEW d, SameDecoder(e, d), d.cursize \in Nat, e.bbits >= d.cursize
  PROVE  LET f == Taken(e, d)
             c == e.bbuf % Pow2[d.cursize]
         IN  /\ IsDec(f) /\ SameTables(f, d) /\ f.pos = e.pos /\ f.bs = e.bs
             /\ f.code = c /\ f.read = Append(d.read, [code |-> c, width |-> d.cursize])
             /\ f.bbuf = e.bbuf \div Pow2[d.cursize] /\ f.bbits = e.bbits - d.cursize
             /\ c \in Nat
<1> DEFINE w == Pow2[d.cursize]
           c == e.bbuf % w
           u == e.bbuf \div w
           v == e.bbits - d.cursize
           x == [code |-> c, width |-> d.cursize]
           f == [e EXCEPT !.code = c, !.bbuf = u, !.bbits = v, !.read = Append(@, x)]
<1>1. Taken(e, d) = f
  BY DEF Taken
<1>2. w \in Nat \ {0} /\ e.bbuf \in Nat /\ e.bbits \in Nat
  BY Pow2Type DEF IsDec
<1> HIDE DEF w
<1>3. c \in Nat /\ u \in Nat /\ v \in Nat
  BY <1>2
<1> HIDE DEF c, u, v, x
<1>4. /\ DOMAIN f = DecFields /\ f = [y \in DecFields |-> f[y]]
      /\ f.code = c /\ f.bbuf = u /\ f.bbits = v /\ f.read = Append(e.read, x)
      /\ f.pos = e.pos /\ f.bs = e.bs
  BY DEF IsDec, DecFields
<1>5. SameTables(f, e)
  BY DEF IsDec, DecFields, SameTables
<1> HIDE DEF f
<1>6. e.pos \in Nat \ {0} /\ e.bs \in Int
  BY DEF IsDec
<1>7. IsDec(f)
  BY <1>3, <1>4, <1>6 DEF IsDec
<1>8. SameTables(f, d) /\ f.read = Append(d.read, x)
  BY <1>4, <1>5 DEF SameTables, SameDecoder
<1> QED BY <1>1, <1>3, <1>4, <1>7, <1>8 DEF c, u, v, x, w

LEMMA MissingEnough ==
  ASSUME NEW d, d.bbits \in 0 .. 7, d.cursize \in Nat
  PROVE  Missing(d) \in Nat /\ (d.bbits + 8 * Missing(d)) - d.cursize \in 0 .. 7
<1> DEFINE b == d.bbits
           c == d.cursize
<1>1. b \in 0 .. 7 /\ c \in Nat
  OBVIOUS
<1>2. Missing(d) = IF b >= c THEN 0 ELSE ((c - b) + 7) \div 8
  BY DEF Missing
<1> HIDE DEF b, c
<1>3. CASE b >= c
  <2>1. Missing(d) = 0
    BY <1>2, <1>3
  <2>2. (b + 8 * 0) - c \in 0 .. 7
    BY <1>1, <1>3
  <2> QED BY <2>1, <2>2 DEF b, c
<1>4. CASE ~(b >= c)
  <2>1. ((c - b) + 7) \div 8 \in Nat /\ (b + 8 * (((c - b) + 7) \div 8)) - c \in 0 .. 7
    BY <1>1, <1>4
  <2> QED BY <1>2, <1>4, <2>1 DEF b, c
<1> QED BY <1>3, <1>4

(* lzw_get_code: fewer than eight bits wait again, and the tables are as they *)
(* were.                                                                      *)
LEMMA GetCodeKeeps ==
  ASSUME gb \in Seq(Bytes), NEW d, IsDec(d), d.bbits \in 0 .. 7, d.cursize \in Nat
  PROVE  LET f == D!lzw_get_code(d) IN IsDec(f) /\ SameTables(f, d) /\ f.bbits \in 0 .. 7
<1>1. PICK g : Fetches(g, d)
  BY FetchTurns
<1> DEFINE e == g[Missing(d)]
<1>2. Missing(d) \in Nat /\ (d.bbits + 8 * Missing(d)) - d.cursize \in 0 .. 7
  BY MissingEnough
<1>3. IsDec(e) /\ SameDecoder(e, d) /\ e.bbits = d.bbits + 8 * Missing(d) /\ D!lzw_get_code(d) = Taken(e, d)
  BY <1>1, <1>2 DEF Fetches
<1> HIDE DEF e
<1>4. e.bbits >= d.cursize /\ e.bbits - d.cursize \in 0 .. 7
  <2>1. e.bbits \in Nat
    BY <1>3 DEF IsDec
  <2>2. e.bbits - d.cursize \in 0 .. 7
    <3> DEFINE x == d.bbits + 8 * Missing(d)
    <3>1. x - d.cursize \in 0 .. 7 /\ e.bbits = x
      BY <1>2, <1>3
    <3> HIDE DEF x
    <3> QED BY <3>1
  <2> QED BY <2>1, <2>2
<1> QED BY <1>3, <1>4, TakenKeeps

-----------------------------------------------------------------------------
(* The invariant.                                                             *)

(* A code the table knows.                                                    *)
Known(x, e) == x \in Nat /\ x < e.free_ent /\ x \notin {ClearCode, EOFCode}
Entries(e) == \A s \in Slot : e.htab[s] >= 0 => Known(e.codetab[s], e)
Probing(e) == e.i \in Slot /\ e.disp \in 0 .. HSIZE

(* In the loop of compress.                                                   *)
Running(e) ==
  /\ Ready(e) /\ ~e.clear_flg
  /\ Known(e.ent, e) /\ Entries(e) /\ e.c \in Pixel

Closed(e) ==
  /\ e.cur_bits \in -7 .. 7 /\ e.cur_accum \in 0 .. 127 /\ e.accum = <<>> /\ Widths(e)
  /\ \E o \in Seq(Bytes) : Blocked(o) /\ e.outs = Append(o, 0)

Begun(e) ==
  /\ e.outs = <<>> /\ e.accum = <<>> /\ e.cur_accum = 0 /\ e.cur_bits = 0 /\ ~e.clear_flg /\ e.c = 0

CodesFit == \A k \in DOMAIN codes : codes[k].code < maxmaxcode /\ codes[k].code < Pow2[codes[k].width]

EncoderInv ==
  /\ image \in Images /\ enc \in EncType /\ Probing(enc) /\ codes \in Seq([code : Nat, width : Nat]) /\ CodesFit
  /\ enc.pc = "start" => Begun(enc)
  /\ enc.pc \in {"pixel", "probe", "emit"} => Running(enc)
  /\ enc.pc = "done" => Closed(enc)

DecoderInv ==
  /\ IsDec(dec) /\ dec.mode \in {"closed", "decode", "done"}
  /\ dec.bbits \in 0 .. 7 /\ dec.cursize \in initCodeSize + 1 .. BITS /\ dec.codesize = initCodeSize
  /\ dec.mode # "closed" => enc.pc = "done" /\ gb \in Seq(Bytes)

FrameInv == EncoderInv /\ DecoderInv

LEMMA ImageType == image \in Images => image \in Seq(Pixel) /\ Len(image) \in Nat \ {0}
BY ImagesAssumption

LEMMA PixelKnown ==
  ASSUME NEW x \in Pixel, NEW e, Widths(e)
  PROVE  Known(x, e)
<1>1. Pow2[Depth] \in Nat /\ Pow2[Depth] <= ClearCode /\ ClearCode \in Nat
  BY SizeFacts
<1>2. x \in Nat /\ x < ClearCode
  BY <1>1 DEF Pixel
<1>3. e.free_ent \in Nat /\ e.free_ent >= ClearCode + 2
  BY <1>1, SizeFacts DEF Widths
<1> QED BY <1>1, <1>2, <1>3 DEF Known, EOFCode

LEMMA WidthPowers ==
  ASSUME NEW e, Widths(e), e.n_bits \in Nat
  PROVE  ClearCode < Pow2[e.n_bits] /\ EOFCode < Pow2[e.n_bits] /\ Pow2[e.n_bits] \in Nat
         /\ EOFCode \in Nat /\ ClearCode < maxmaxcode /\ EOFCode < maxmaxcode
<1>1. initCodeSize + 1 \in Nat /\ initCodeSize + 1 <= e.n_bits
  BY SizeFacts DEF Widths
<1>2. Pow2[initCodeSize + 1] <= Pow2[e.n_bits] /\ Pow2[e.n_bits] \in Nat
  BY <1>1, Pow2Mono, Pow2Type
<1>3. Pow2[initCodeSize + 1] = 2 * ClearCode /\ ClearCode \in Nat /\ ClearCode >= 4
      /\ 2 * Pow2[initCodeSize + 1] <= maxmaxcode /\ maxmaxcode \in Nat
  BY SizeFacts
<1> QED BY <1>2, <1>3 DEF EOFCode

(* A code more in the history.                                                *)
LEMMA WrittenFits ==
  ASSUME NEW cs \in Seq([code : Nat, width : Nat]),
         \A k \in DOMAIN cs : cs[k].code < maxmaxcode /\ cs[k].code < Pow2[cs[k].width],
         NEW x \in Nat, NEW w \in Nat, x < maxmaxcode, x < Pow2[w]
  PROVE  LET ds == Append(cs, [code |-> x, width |-> w])
         IN  /\ ds \in Seq([code : Nat, width : Nat])
             /\ \A k \in DOMAIN ds : ds[k].code < maxmaxcode /\ ds[k].code < Pow2[ds[k].width]
<1> DEFINE y == [code |-> x, width |-> w]
           ds == Append(cs, y)
<1>1. y \in [code : Nat, width : Nat] /\ y.code = x /\ y.width = w
  OBVIOUS
<1> HIDE DEF y
<1>2. ds \in Seq([code : Nat, width : Nat]) /\ DOMAIN ds = 1 .. Len(cs) + 1
  BY <1>1
<1>3. ASSUME NEW k \in DOMAIN ds PROVE ds[k].code < maxmaxcode /\ ds[k].code < Pow2[ds[k].width]
  <2>1. CASE k = Len(cs) + 1
    <3>1. ds[k] = y
      BY <2>1
    <3> QED BY <1>1, <3>1
  <2>2. CASE k # Len(cs) + 1
    <3>1. k \in DOMAIN cs /\ ds[k] = cs[k]
      BY <1>2, <2>2
    <3> QED BY <3>1
  <2> QED BY <2>1, <2>2
<1> QED BY <1>2, <1>3 DEF y

LEMMA DecoderStart ==
  ASSUME NEW c
  PROVE  LET d == D!DecoderInit(c) IN
         IsDec(d) /\ d.bbits = 0 /\ d.cursize = c + 1 /\ d.codesize = c /\ d.mode = "decode"
<1> DEFINE d == D!DecoderInit(c)
<1>1. DOMAIN d = DecFields
  BY DEF D!DecoderInit, DecFields
<1>2. d = [x \in DecFields |-> d[x]]
  BY DEF D!DecoderInit, DecFields
<1>3. d.pos = 1 /\ d.bs = 0 /\ d.bbuf = 0 /\ d.bbits = 0 /\ d.cursize = c + 1 /\ d.codesize = c /\ d.mode = "decode"
  BY DEF D!DecoderInit
<1> HIDE DEF d
<1>4. IsDec(d)
  BY <1>1, <1>2, <1>3 DEF IsDec
<1> QED BY <1>3, <1>4 DEF d

LEMMA InitFrame == FrameInit => FrameInv
<1> SUFFICES ASSUME FrameInit PROVE FrameInv
  OBVIOUS
<1>1. EncoderInv
  <2>1. HSIZE \in Nat \ {0} /\ 0 \in Slot
    BY SizeFacts DEF Slot
  <2>2. <<>> \in Seq(Bytes) /\ <<>> \in Seq([code : Nat, width : Nat]) /\ DOMAIN <<>> = {}
    OBVIOUS
  <2>3. enc \in EncType
    BY <2>2 DEF FrameInit, EncoderInit, EncType
  <2>4. Begun(enc) /\ Probing(enc)
    BY <2>1 DEF FrameInit, EncoderInit, Begun, Probing
  <2>5. enc.pc = "start" /\ codes = <<>> /\ image \in Images
    BY DEF FrameInit, EncoderInit
  <2> QED BY <2>2, <2>3, <2>4, <2>5 DEF EncoderInv, CodesFit
<1>2. DecoderInv
  <2>1. IsDec(dec) /\ dec.mode = "closed" /\ dec.bbits = 0 /\ dec.cursize = initCodeSize + 1 /\ dec.codesize = initCodeSize
    <3> DEFINE d == D!DecoderInit(initCodeSize)
    <3>1. IsDec(d) /\ d.bbits = 0 /\ d.cursize = initCodeSize + 1 /\ d.codesize = initCodeSize
      BY DecoderStart
    <3>2. dec = [d EXCEPT !.mode = "closed"]
      BY DEF FrameInit
    <3> HIDE DEF d
    <3> QED BY <3>1, <3>2 DEF IsDec, DecFields
  <2>2. initCodeSize + 1 \in initCodeSize + 1 .. BITS
    BY SizeFacts
  <2> QED BY <2>1, <2>2 DEF DecoderInv
<1> QED BY <1>1, <1>2 DEF FrameInv

LEMMA EncFields ==
  ASSUME NEW e \in EncType
  PROVE  /\ e.outs \in Seq(Bytes) /\ e.accum \in Seq(Bytes) /\ e.n_bits \in Nat /\ e.maxcode \in Nat
         /\ e.free_ent \in Nat /\ e.htab \in [Slot -> Int] /\ e.codetab \in [Slot -> Nat]
         /\ e.curPixel \in Nat /\ e.ent \in Nat /\ e.c \in Nat /\ e.i \in Nat /\ e.disp \in Nat
         /\ e.cur_bits \in Int /\ e.cur_accum \in Int /\ e.clear_flg \in BOOLEAN
BY DEF EncType

(* What output wrote stays in the loop.                                       *)
LEMMA WroteRuns ==
  ASSUME NEW e, NEW f, Wrote(f, e), Known(e.ent, e), Entries(e), e.c \in Pixel
  PROVE  Running(f)
<1>1. Ready(f) /\ ~f.clear_flg
  BY DEF Wrote, Ready, Filled
<1>2. f.free_ent = e.free_ent /\ f.htab = e.htab /\ f.codetab = e.codetab /\ f.ent = e.ent /\ f.c = e.c
  BY DEF Wrote, SameTable
<1>3. Known(f.ent, f) /\ Entries(f)
  BY <1>2 DEF Known, Entries
<1> QED BY <1>1, <1>2, <1>3 DEF Running

(* The record compress hands to its first output. *)
Opening ==
  [enc EXCEPT !.pc = "pixel", !.outs = <<initCodeSize>>, !.htab = EmptyTable,
     !.n_bits = initCodeSize + 1, !.maxcode = MAXCODE(initCodeSize + 1),
     !.free_ent = ClearCode + 2, !.ent = image[1], !.curPixel = 1]

LEMMA OpeningReady ==
  ASSUME EncoderInv, enc.pc = "start"
  PROVE  LET e == Opening IN
         /\ Ready(e) /\ e.pc = "pixel" /\ e.outs = <<initCodeSize>> /\ e.accum = <<>> /\ e.cur_bits = 0
         /\ e.cur_accum = 0 /\ ~e.clear_flg /\ e.c = 0 /\ e.i = enc.i /\ e.disp = enc.disp /\ e.htab = EmptyTable
         /\ e.n_bits = initCodeSize + 1 /\ e.free_ent = ClearCode + 2 /\ e.ent = image[1] /\ image[1] \in Pixel
         /\ ClearCode # EOFCode /\ ClearCode < Pow2[e.n_bits] /\ ClearCode < maxmaxcode
<1> DEFINE w == initCodeSize + 1
           e == [enc EXCEPT !.pc = "pixel", !.outs = <<initCodeSize>>, !.htab = EmptyTable,
                   !.n_bits = w, !.maxcode = Pow2[w] - 1,
                   !.free_ent = ClearCode + 2, !.ent = image[1], !.curPixel = 1]
<1>1. Opening = e
  BY DEF Opening, MAXCODE
<1>2. enc \in EncType /\ Begun(enc)
  BY DEF EncoderInv
<1>3. /\ initCodeSize \in Bytes /\ w \in Nat /\ w < BITS /\ BITS \in Nat
      /\ ClearCode \in Nat /\ ClearCode >= 4 /\ Pow2[w] = 2 * ClearCode /\ maxmaxcode \in Nat
      /\ 2 * Pow2[w] <= maxmaxcode /\ image[1] \in Pixel
  <2>1. image \in Seq(Pixel) /\ Len(image) \in Nat \ {0}
    BY ImageType DEF EncoderInv
  <2>2. image[1] \in Pixel
    BY <2>1
  <2> QED BY <2>2, SizeFacts DEF Bytes
<1>4. image[1] \in Nat
  BY <1>3 DEF Pixel
<1>5. /\ e.pc = "pixel" /\ e.outs = <<initCodeSize>> /\ e.htab = EmptyTable /\ e.n_bits = w
      /\ e.maxcode = Pow2[w] - 1 /\ e.free_ent = ClearCode + 2 /\ e.ent = image[1]
      /\ e.accum = enc.accum /\ SameBits(e, enc) /\ e.clear_flg = enc.clear_flg /\ e.c = enc.c
      /\ e.i = enc.i /\ e.disp = enc.disp
  <2> HIDE DEF w
  <2> QED BY <1>2 DEF EncType, SameBits
<1>6. e \in EncType
  <2>1. EmptyTable \in [Slot -> Int] /\ <<initCodeSize>> \in Seq(Bytes) /\ Pow2[w] - 1 \in Nat /\ ClearCode + 2 \in Nat
    BY <1>3 DEF EmptyTable
  <2> HIDE DEF w
  <2> QED BY <1>2, <1>3, <1>4, <2>1 DEF EncType
<1> HIDE DEF e
<1>7. Ready(e)
  <2>1. Blocked(e.outs)
    <3>1. Len(<<initCodeSize>>) = 1 /\ <<initCodeSize>>[1] = initCodeSize
      OBVIOUS
    <3>2. {2} \in SUBSET (2 .. 1 + 1) /\ 2 \in {2} /\ 1 + 1 \in {2} /\ \A p \in {2} : ~(p <= 1)
      OBVIOUS
    <3> QED BY <1>5, <3>1, <3>2 DEF Blocked
  <2>2. Packed(e)
    <3>1. Len(e.accum) = 0 /\ PACKET \in 1 .. 255
      BY <1>2, <1>5, SizeFacts DEF Begun
    <3> QED BY <1>6, <2>1, <3>1 DEF Packed
  <2>3. Waiting(e)
    <3>1. e.cur_bits = 0 /\ e.cur_accum = 0
      BY <1>2, <1>5 DEF Begun, SameBits
    <3>2. Pow2[0] = 1
      BY Pow2Step
    <3> QED BY <3>1, <3>2 DEF Waiting
  <2>4. Widths(e)
    <3>1. w \in w .. BITS /\ w # BITS
      BY <1>3
    <3>2. e.free_ent \in ClearCode + 2 .. maxmaxcode
      BY <1>3, <1>5
    <3> QED BY <1>5, <3>1, <3>2 DEF Widths
  <2>5. Filled(e)
    <3>1. ~e.clear_flg
      BY <1>2, <1>5 DEF Begun
    <3>2. ClearCode + 2 <= 2 * ClearCode
      BY <1>3
    <3> QED BY <1>3, <1>5, <3>1, <3>2 DEF Filled
  <2> QED BY <2>2, <2>3, <2>4, <2>5 DEF Ready
<1>8. ClearCode # EOFCode /\ ClearCode < Pow2[e.n_bits] /\ ClearCode < maxmaxcode
  BY <1>3, <1>5 DEF EOFCode
<1>9. e.accum = <<>> /\ e.cur_bits = 0 /\ e.cur_accum = 0 /\ ~e.clear_flg /\ e.c = 0
  BY <1>2, <1>5 DEF Begun, SameBits
<1> QED BY <1>1, <1>3, <1>5, <1>7, <1>8, <1>9

LEMMA PrologueKeeps ==
  ASSUME EncoderInv, Prologue, UNCHANGED image
  PROVE  EncoderInv'
<1> DEFINE e == Opening
           f == Output(e, ClearCode)
<1>1. enc.pc = "start" /\ enc' = f /\ codes' = Append(codes, [code |-> ClearCode, width |-> e.n_bits])
  BY DEF Prologue, Written, Opening
<1>2. enc \in EncType /\ Probing(enc)
  BY DEF EncoderInv
<1>3. /\ Ready(e) /\ e.pc = "pixel" /\ e.c = 0 /\ e.i = enc.i /\ e.disp = enc.disp /\ e.htab = EmptyTable
      /\ e.ent = image[1] /\ image[1] \in Pixel
      /\ ClearCode # EOFCode /\ ClearCode < Pow2[e.n_bits] /\ ClearCode < maxmaxcode
  BY <1>1, OpeningReady
<1> HIDE DEF e
<1>4. ClearCode \in Nat /\ e.n_bits \in Nat
  BY <1>3, EncFields, SizeFacts DEF Ready, Packed
<1>5. Wrote(f, e)
  BY <1>3, <1>4, OutputKeeps
<1> HIDE DEF f
<1>6. Running(f)
  <2>1. Known(e.ent, e)
    BY <1>3, PixelKnown DEF Ready
  <2>2. Entries(e)
    BY <1>3 DEF Entries, EmptyTable
  <2>3. e.c \in Pixel
    <3>1. Pow2[Depth] \in Nat \ {0}
      BY SizeFacts
    <3> QED BY <1>3, <3>1 DEF Pixel
  <2> QED BY <1>5, <2>1, <2>2, <2>3, WroteRuns
<1>7. f \in EncType /\ f.pc = "pixel" /\ Probing(f)
  <2>1. f \in EncType /\ f.pc = e.pc /\ f.i = e.i /\ f.disp = e.disp
    BY <1>5 DEF Wrote, SameTable, Packed
  <2> QED BY <1>2, <1>3, <2>1 DEF Probing
<1>8. codes' \in Seq([code : Nat, width : Nat]) /\ CodesFit'
  <2>1. codes \in Seq([code : Nat, width : Nat]) /\ CodesFit
    BY DEF EncoderInv
  <2> QED BY <1>1, <1>3, <1>4, <2>1, WrittenFits DEF CodesFit
<1>9. image' \in Images
  BY DEF EncoderInv
<1> QED BY <1>1, <1>6, <1>7, <1>8, <1>9 DEF EncoderInv

(* The fields the search of the table leaves alone.                           *)
SameCode(f, e) ==
  /\ f.outs = e.outs /\ f.accum = e.accum /\ f.cur_accum = e.cur_accum /\ f.cur_bits = e.cur_bits
  /\ f.n_bits = e.n_bits /\ f.maxcode = e.maxcode /\ f.clear_flg = e.clear_flg
  /\ f.free_ent = e.free_ent /\ f.htab = e.htab /\ f.codetab = e.codetab

LEMMA SearchRuns ==
  ASSUME NEW e, Running(e), NEW f \in EncType, SameCode(f, e), f.c \in Pixel, Known(f.ent, e)
  PROVE  Running(f)
<1>1. Packed(f)
  BY DEF Running, Ready, Packed, SameCode
<1>2. Waiting(f) /\ Widths(f) /\ Filled(f) /\ ~f.clear_flg
  BY DEF Running, Ready, Waiting, Widths, Filled, SameCode
<1>3. Known(f.ent, f) /\ Entries(f)
  BY DEF Running, Known, Entries, SameCode
<1> QED BY <1>1, <1>2, <1>3 DEF Running, Ready

LEMMA MatchRuns ==
  ASSUME NEW e \in EncType, Running(e), Probing(e), NEW s \in Slot, e.htab[s] = fcode(e)
  PROVE  Match(e, s) \in EncType /\ Match(e, s).pc = "pixel" /\ Running(Match(e, s)) /\ Probing(Match(e, s))
<1> DEFINE x == e.codetab[s]
           f == [e EXCEPT !.pc = "pixel", !.ent = x]
<1>1. Match(e, s) = f
  BY DEF Match
<1>2. fcode(e) >= 0
  <2>1. e.c \in Nat /\ e.ent \in Nat
    BY EncFields
  <2>2. Pow2[BITS] \in Nat
    BY SizeFacts, Pow2Type
  <2> DEFINE b == Pow2[BITS]
             c == e.c
             t == e.ent
  <2>3. b \in Nat /\ c \in Nat /\ t \in Nat
    BY <2>1, <2>2
  <2>4. fcode(e) = c * b + t
    BY DEF fcode
  <2> HIDE DEF b, c, t
  <2>5. c * b \in Nat
    BY <2>3
  <2> QED BY <2>3, <2>4, <2>5
<1>3. Known(x, e)
  BY <1>2 DEF Running, Entries
<1> HIDE DEF x
<1>4. x \in Nat
  BY <1>3 DEF Known
<1>5. f \in EncType /\ f.pc = "pixel" /\ f.ent = x /\ SameCode(f, e) /\ f.c = e.c /\ f.i = e.i /\ f.disp = e.disp
  BY <1>4 DEF EncType, SameCode
<1> HIDE DEF f
<1>6. Running(f)
  <2>1. f.c \in Pixel
    BY <1>5 DEF Running
  <2> QED BY <1>3, <1>5, <2>1, SearchRuns
<1>7. Probing(f)
  BY <1>5 DEF Probing
<1> QED BY <1>1, <1>5, <1>6, <1>7

LEMMA SlotZero == Slot \subseteq 0 .. HSIZE /\ HSIZE \in Nat \ {0} /\ \A s \in 0 .. maxmaxcode - 1 : s \in Slot
<1>1. HSIZE \in Nat \ {0} /\ maxmaxcode \in Nat /\ maxmaxcode <= HSIZE
  BY SizeFacts
<1> QED BY <1>1 DEF Slot

LEMMA NextPixelKeeps ==
  ASSUME EncoderInv, NextPixel, UNCHANGED image
  PROVE  EncoderInv'
<1> DEFINE c == image[enc.curPixel + 1]
           s == Xor(c * Pow2[HSHIFT], enc.ent)
           cur == enc.curPixel + 1
           e == [enc EXCEPT !.curPixel = cur, !.c = c, !.i = s]
           pc == IF e.htab[s] >= 0 THEN "probe" ELSE "emit"
           d == IF s = 0 THEN 1 ELSE HSIZE - s
           f == [e EXCEPT !.pc = pc, !.disp = d]
<1>1. enc.pc = "pixel" /\ enc.curPixel < Len(image) /\ codes' = codes /\ image' = image
      /\ enc' = IF e.htab[s] = fcode(e) THEN Match(e, s) ELSE f
  BY DEF NextPixel
<1>2. enc \in EncType /\ Running(enc) /\ Probing(enc)
  BY <1>1 DEF EncoderInv
<1>3. c \in Pixel /\ c \in Nat /\ cur \in Nat
  <2>1. image \in Seq(Pixel) /\ enc.curPixel \in Nat
    BY <1>2, ImageType, EncFields DEF EncoderInv
  <2>2. enc.curPixel + 1 \in 1 .. Len(image) /\ cur \in Nat
    BY <1>1, <2>1
  <2>3. c \in Pixel
    BY <2>1, <2>2
  <2> QED BY <2>2, <2>3 DEF Pixel
<1> HIDE DEF c, cur
<1>4. s \in Slot
  <2>1. enc.ent \in Nat /\ Pow2[HSHIFT] \in Nat
    BY <1>2, EncFields, SizesAssumption, Pow2Type
  <2> DEFINE a == c * Pow2[HSHIFT]
  <2>2. a \in Nat
    <3> DEFINE y == Pow2[HSHIFT]
    <3>1. y \in Nat
      BY <2>1
    <3> HIDE DEF y
    <3>2. c * y \in Nat
      BY <1>3, <3>1
    <3> QED BY <3>2 DEF y
  <2> HIDE DEF a
  <2>3. Xor(a, enc.ent) \in 0 .. maxmaxcode - 1
    BY <2>1, <2>2, XorInside
  <2> QED BY <2>3, SlotZero DEF a
<1> HIDE DEF s
<1>5. s \in Nat /\ s < HSIZE /\ d \in 0 .. HSIZE
  BY <1>4, SlotZero DEF Slot
<1> HIDE DEF d
<1>6. /\ e \in EncType /\ e.pc = enc.pc /\ e.i = s /\ e.disp = enc.disp /\ e.c = c /\ e.ent = enc.ent
      /\ SameCode(e, enc)
  BY <1>2, <1>3, <1>5 DEF EncType, SameCode
<1> HIDE DEF e
<1>7. Running(e) /\ Probing(e)
  <2>1. Known(e.ent, enc)
    BY <1>2, <1>6 DEF Running
  <2>2. Running(e)
    BY <1>2, <1>3, <1>6, <2>1, SearchRuns
  <2> QED BY <1>2, <1>4, <1>6, <2>2 DEF Probing
<1>8. CASE e.htab[s] = fcode(e)
  <2>1. enc' = Match(e, s)
    BY <1>1, <1>8
  <2>2. enc' \in EncType /\ enc'.pc = "pixel" /\ Running(enc') /\ Probing(enc')
    BY <1>4, <1>6, <1>7, <1>8, <2>1, MatchRuns
  <2> QED BY <1>1, <2>2 DEF EncoderInv, CodesFit
<1>9. CASE e.htab[s] # fcode(e)
  <2>1. pc \in {"probe", "emit"}
    OBVIOUS
  <2>2. enc' = f
    BY <1>1, <1>9
  <2> HIDE DEF pc
  <2>3. f \in EncType /\ f.pc = pc /\ f.i = s /\ f.disp = d /\ f.c = e.c /\ f.ent = e.ent /\ SameCode(f, e)
    <3>1. d \in Nat
      BY <1>5, SlotZero
    <3> QED BY <1>6, <2>1, <3>1 DEF EncType, SameCode
  <2> HIDE DEF f
  <2>4. Running(f)
    <3>1. f.c \in Pixel /\ Known(f.ent, e)
      BY <1>7, <2>3 DEF Running
    <3> QED BY <1>7, <2>3, <3>1, SearchRuns
  <2>5. Probing(f)
    BY <1>4, <1>5, <2>3 DEF Probing
  <2> QED BY <1>1, <2>1, <2>2, <2>3, <2>4, <2>5 DEF EncoderInv, CodesFit
<1> QED BY <1>8, <1>9

LEMMA ProbeKeeps ==
  ASSUME EncoderInv, Probe, UNCHANGED image
  PROVE  EncoderInv'
<1> DEFINE back == enc.i - enc.disp
           s == IF back < 0 THEN back + HSIZE ELSE back
           e == [enc EXCEPT !.i = s]
           pc == IF e.htab[s] >= 0 THEN "probe" ELSE "emit"
           f == [e EXCEPT !.pc = pc]
<1>1. enc.pc = "probe" /\ codes' = codes /\ image' = image
      /\ enc' = IF e.htab[s] = fcode(e) THEN Match(e, s) ELSE f
  BY DEF Probe
<1>2. enc \in EncType /\ Running(enc) /\ Probing(enc)
  BY <1>1 DEF EncoderInv
<1>3. s \in Slot /\ s \in Nat
  <2>1. enc.i \in 0 .. HSIZE - 1 /\ enc.disp \in 0 .. HSIZE
    BY <1>2 DEF Probing, Slot
  <2> QED BY <2>1, SlotZero DEF Slot
<1> HIDE DEF s
<1>4. /\ e \in EncType /\ e.pc = enc.pc /\ e.i = s /\ e.disp = enc.disp /\ e.c = enc.c /\ e.ent = enc.ent
      /\ SameCode(e, enc)
  BY <1>2, <1>3 DEF EncType, SameCode
<1> HIDE DEF e
<1>5. Running(e) /\ Probing(e)
  <2>1. Known(e.ent, enc) /\ e.c \in Pixel
    BY <1>2, <1>4 DEF Running
  <2>2. Running(e)
    BY <1>2, <1>4, <2>1, SearchRuns
  <2> QED BY <1>2, <1>3, <1>4, <2>2 DEF Probing
<1>6. CASE e.htab[s] = fcode(e)
  <2>1. enc' = Match(e, s)
    BY <1>1, <1>6
  <2>2. enc' \in EncType /\ enc'.pc = "pixel" /\ Running(enc') /\ Probing(enc')
    BY <1>3, <1>4, <1>5, <1>6, <2>1, MatchRuns
  <2> QED BY <1>1, <2>2 DEF EncoderInv, CodesFit
<1>7. CASE e.htab[s] # fcode(e)
  <2>1. pc \in {"probe", "emit"}
    OBVIOUS
  <2>2. enc' = f
    BY <1>1, <1>7
  <2> HIDE DEF pc
  <2>3. f \in EncType /\ f.pc = pc /\ f.i = e.i /\ f.disp = e.disp /\ f.c = e.c /\ f.ent = e.ent /\ SameCode(f, e)
    BY <1>4, <2>1 DEF EncType, SameCode
  <2> HIDE DEF f
  <2>4. Running(f)
    <3>1. f.c \in Pixel /\ Known(f.ent, e)
      BY <1>5, <2>3 DEF Running
    <3> QED BY <1>5, <2>3, <3>1, SearchRuns
  <2>5. Probing(f)
    BY <1>5, <2>3 DEF Probing
  <2> QED BY <1>1, <2>1, <2>2, <2>3, <2>4, <2>5 DEF EncoderInv, CodesFit
<1> QED BY <1>6, <1>7

(* The code compress holds can be written: it is no end code and it fits.     *)
LEMMA EntFits ==
  ASSUME NEW e \in EncType, Running(e)
  PROVE  e.ent \in Nat /\ e.ent # EOFCode /\ e.ent < Pow2[e.n_bits] /\ e.ent < maxmaxcode
<1>1. e.ent \in Nat /\ e.free_ent \in Nat /\ e.n_bits \in Nat
  BY EncFields
<1>2. e.ent < e.free_ent /\ e.ent # EOFCode
  BY DEF Running, Known
<1>3. e.free_ent <= Pow2[e.n_bits] /\ Pow2[e.n_bits] \in Nat
  BY <1>1, Pow2Type DEF Running, Ready, Filled
<1>4. e.free_ent <= maxmaxcode /\ maxmaxcode \in Nat
  <2>1. maxmaxcode \in Nat /\ ClearCode \in Nat
    BY SizeFacts
  <2> QED BY <2>1 DEF Running, Ready, Widths
<1> QED BY <1>1, <1>2, <1>3, <1>4

LEMMA CodeNat ==
  ASSUME NEW e \in EncType
  PROVE  fcode(e) \in Nat
<1> DEFINE b == Pow2[BITS]
           c == e.c
           t == e.ent
<1>1. b \in Nat /\ c \in Nat /\ t \in Nat
  BY EncFields, SizeFacts, Pow2Type
<1>2. fcode(e) = c * b + t
  BY DEF fcode
<1> HIDE DEF b, c, t
<1>3. c * b \in Nat
  BY <1>1
<1> QED BY <1>1, <1>2, <1>3

(* The pair enters the table. *)
LEMMA EntryRuns ==
  ASSUME NEW e \in EncType, Running(e), Room(e), e.free_ent < maxmaxcode, NEW i \in Slot, NEW h \in Nat
  PROVE  LET f == [e EXCEPT !.codetab[i] = e.free_ent, !.free_ent = @ + 1, !.htab[i] = h]
         IN  f \in EncType /\ Running(f) /\ f.pc = e.pc /\ f.i = e.i /\ f.disp = e.disp
<1> DEFINE n == e.free_ent + 1
           tab == [e.codetab EXCEPT ![i] = e.free_ent]
           hash == [e.htab EXCEPT ![i] = h]
           f == [e EXCEPT !.codetab = tab, !.free_ent = n, !.htab = hash]
<1>1. [e EXCEPT !.codetab[i] = e.free_ent, !.free_ent = @ + 1, !.htab[i] = h] = f
  BY DEF EncType
<1>2. e.free_ent \in Nat /\ n \in Nat /\ e.codetab \in [Slot -> Nat] /\ e.htab \in [Slot -> Int] /\ e.n_bits \in Nat
  BY EncFields
<1>3. tab \in [Slot -> Nat] /\ hash \in [Slot -> Int]
  BY <1>2
<1>4. \A s \in Slot : tab[s] = (IF s = i THEN e.free_ent ELSE e.codetab[s]) /\ hash[s] = (IF s = i THEN h ELSE e.htab[s])
  BY <1>2
<1> HIDE DEF tab, hash
<1>5. /\ f \in EncType /\ f.codetab = tab /\ f.free_ent = n /\ f.htab = hash /\ SameBits(f, e)
      /\ f.outs = e.outs /\ f.accum = e.accum /\ f.n_bits = e.n_bits /\ f.maxcode = e.maxcode
      /\ f.clear_flg = e.clear_flg /\ f.c = e.c /\ f.ent = e.ent /\ f.pc = e.pc /\ f.i = e.i /\ f.disp = e.disp
  <2> HIDE DEF n
  <2> QED BY <1>2, <1>3 DEF EncType, SameBits
<1> HIDE DEF f
<1>6. e.free_ent \in ClearCode + 2 .. maxmaxcode /\ ClearCode \in Nat /\ maxmaxcode \in Nat
  BY SizeFacts DEF Running, Ready, Widths
<1>7. Packed(f) /\ Waiting(f)
  BY <1>5 DEF Running, Ready, Packed, Waiting, SameBits
<1>8. Widths(f)
  <2>1. f.free_ent \in ClearCode + 2 .. maxmaxcode
    BY <1>2, <1>5, <1>6
  <2> QED BY <1>5, <2>1 DEF Running, Ready, Widths
<1>9. Filled(f) /\ ~f.clear_flg
  <2>1. ~f.clear_flg
    BY <1>5 DEF Running
  <2>2. e.free_ent < Pow2[e.n_bits] /\ Pow2[e.n_bits] \in Nat
    BY <1>2, Pow2Type DEF Room
  <2>3. n <= Pow2[e.n_bits]
    BY <1>2, <2>2
  <2> QED BY <1>5, <2>1, <2>3 DEF Filled
<1>10. Known(f.ent, f)
  BY <1>2, <1>5 DEF Running, Known
<1>11. Entries(f)
  <2> SUFFICES ASSUME NEW s \in Slot, f.htab[s] >= 0 PROVE Known(f.codetab[s], f)
    BY DEF Entries
  <2>1. CASE s = i
    <3>1. f.codetab[s] = e.free_ent
      BY <1>4, <1>5, <2>1
    <3> QED BY <1>2, <1>5, <1>6, <3>1 DEF Known, EOFCode
  <2>2. CASE s # i
    <3>1. f.codetab[s] = e.codetab[s] /\ e.htab[s] >= 0
      BY <1>4, <1>5, <2>2
    <3>2. Known(e.codetab[s], e)
      BY <3>1 DEF Running, Entries
    <3> QED BY <1>2, <1>5, <3>1, <3>2 DEF Known
  <2> QED BY <2>1, <2>2
<1>12. Running(f)
  <2>1. f.c \in Pixel
    BY <1>5 DEF Running
  <2> QED BY <1>7, <1>8, <1>9, <1>10, <1>11, <2>1 DEF Running, Ready
<1> QED BY <1>1, <1>5, <1>12

(* The table is full and cleared. *)
LEMMA ClearedReady ==
  ASSUME NEW e \in EncType, Running(e), e.ent \in Pixel
  PROVE  LET f == ClearBlock(e)
         IN  /\ f \in EncType /\ Ready(f) /\ Known(f.ent, f) /\ Entries(f) /\ f.c \in Pixel
             /\ f.pc = e.pc /\ f.i = e.i /\ f.disp = e.disp /\ f.n_bits = e.n_bits
<1> DEFINE n == ClearCode + 2
           f == [e EXCEPT !.htab = EmptyTable, !.free_ent = n, !.clear_flg = TRUE]
<1>1. ClearBlock(e) = f
  BY DEF ClearBlock
<1>2. EmptyTable \in [Slot -> Int] /\ n \in Nat /\ n \in n .. maxmaxcode
  BY SizeFacts DEF EmptyTable
<1>3. /\ f \in EncType /\ f.htab = EmptyTable /\ f.free_ent = n /\ f.clear_flg = TRUE /\ SameBits(f, e)
      /\ f.outs = e.outs /\ f.accum = e.accum /\ f.n_bits = e.n_bits /\ f.maxcode = e.maxcode
      /\ f.c = e.c /\ f.ent = e.ent /\ f.pc = e.pc /\ f.i = e.i /\ f.disp = e.disp
  <2> HIDE DEF n
  <2> QED BY <1>2 DEF EncType, SameBits
<1> HIDE DEF f
<1>4. Packed(f) /\ Waiting(f)
  BY <1>3 DEF Running, Ready, Packed, Waiting, SameBits
<1>5. Widths(f) /\ Filled(f)
  BY <1>2, <1>3 DEF Running, Ready, Widths, Filled
<1>6. Known(f.ent, f)
  BY <1>3, <1>5, PixelKnown
<1>7. Entries(f)
  BY <1>3 DEF Entries, EmptyTable
<1>8. f.c \in Pixel
  BY <1>3 DEF Running
<1> QED BY <1>1, <1>3, <1>4, <1>5, <1>6, <1>7, <1>8 DEF Ready

LEMMA EmitKeeps ==
  ASSUME EncoderInv, Emit, UNCHANGED image
  PROVE  EncoderInv'
<1> DEFINE o == Output(enc, enc.ent)
           e == [o EXCEPT !.pc = "pixel", !.ent = enc.c]
           cleared == ClearBlock(e)
           added == [e EXCEPT !.codetab[enc.i] = e.free_ent, !.free_ent = @ + 1, !.htab[enc.i] = fcode(enc)]
           once == Append(codes, [code |-> enc.ent, width |-> enc.n_bits])
           twice == Append(once, [code |-> ClearCode, width |-> cleared.n_bits])
<1>1. enc.pc = "emit" /\ \/ e.free_ent < maxmaxcode /\ enc' = added /\ codes' = once
                         \/ e.free_ent >= maxmaxcode /\ enc' = Output(cleared, ClearCode) /\ codes' = twice
  BY DEF Emit, Written
<1>2. enc \in EncType /\ Running(enc) /\ Probing(enc)
  BY <1>1 DEF EncoderInv
<1>3. enc.ent \in Nat /\ enc.ent # EOFCode /\ enc.ent < Pow2[enc.n_bits] /\ enc.ent < maxmaxcode
  BY <1>2, EntFits
<1>4. Wrote(o, enc)
  BY <1>2, <1>3, OutputKeeps DEF Running
<1> HIDE DEF o
<1>5. o \in EncType /\ Running(o) /\ Room(o) /\ o.c = enc.c /\ Probing(o) /\ o.free_ent = enc.free_ent
  <2>1. Running(o)
    BY <1>2, <1>4, WroteRuns DEF Running
  <2>2. Probing(o)
    BY <1>2, <1>4 DEF Probing, Wrote, SameTable
  <2> QED BY <1>4, <2>1, <2>2 DEF Wrote, SameTable, Packed
<1>6. enc.c \in Pixel /\ enc.c \in Nat
  <2>1. enc.c \in Pixel
    BY <1>2 DEF Running
  <2> QED BY <1>2, <2>1, EncFields
<1>7. /\ e \in EncType /\ e.pc = "pixel" /\ e.ent = enc.c /\ e.c = o.c /\ SameCode(e, o)
      /\ e.i = o.i /\ e.disp = o.disp
  BY <1>5, <1>6 DEF EncType, SameCode
<1> HIDE DEF e
<1>8. Running(e) /\ Room(e) /\ Probing(e)
  <2>1. Known(e.ent, o)
    BY <1>5, <1>6, <1>7, PixelKnown DEF Running, Ready
  <2>2. Running(e)
    BY <1>5, <1>6, <1>7, <2>1, SearchRuns
  <2> QED BY <1>5, <1>7, <2>2 DEF Room, Probing, SameCode
<1>9. /\ once \in Seq([code : Nat, width : Nat])
      /\ \A k \in DOMAIN once : once[k].code < maxmaxcode /\ once[k].code < Pow2[once[k].width]
  <2>1. codes \in Seq([code : Nat, width : Nat]) /\ CodesFit /\ enc.n_bits \in Nat
    BY <1>2, EncFields DEF EncoderInv
  <2> QED BY <1>3, <2>1, WrittenFits DEF CodesFit
<1> HIDE DEF once
<1>10. CASE e.free_ent < maxmaxcode /\ enc' = added /\ codes' = once
  <2>1. fcode(enc) \in Nat /\ enc.i \in Slot
    BY <1>2, CodeNat DEF Probing
  <2>2. added \in EncType /\ Running(added) /\ added.pc = "pixel" /\ added.i = e.i /\ added.disp = e.disp
    BY <1>7, <1>8, <1>10, <2>1, EntryRuns
  <2> HIDE DEF added
  <2>3. Probing(added)
    BY <1>8, <2>2 DEF Probing
  <2>4. image' \in Images
    BY DEF EncoderInv
  <2> QED BY <1>9, <1>10, <2>2, <2>3, <2>4 DEF EncoderInv, CodesFit
<1>11. CASE e.free_ent >= maxmaxcode /\ enc' = Output(cleared, ClearCode) /\ codes' = twice
  <2>1. e.ent \in Pixel
    BY <1>6, <1>7
  <2>2. /\ cleared \in EncType /\ Ready(cleared) /\ Known(cleared.ent, cleared) /\ Entries(cleared)
        /\ cleared.c \in Pixel /\ cleared.pc = e.pc /\ cleared.i = e.i /\ cleared.disp = e.disp
    BY <1>7, <1>8, <2>1, ClearedReady
  <2> HIDE DEF cleared
  <2>3. cleared.n_bits \in Nat /\ ClearCode \in Nat /\ ClearCode # EOFCode
    BY <2>2, EncFields, SizeFacts DEF EOFCode
  <2>4. ClearCode < Pow2[cleared.n_bits] /\ ClearCode < maxmaxcode
    BY <2>2, <2>3, WidthPowers DEF Ready
  <2> DEFINE f == Output(cleared, ClearCode)
  <2>5. Wrote(f, cleared)
    BY <2>2, <2>3, <2>4, OutputKeeps
  <2> HIDE DEF f
  <2>6. Running(f)
    BY <2>2, <2>5, WroteRuns
  <2>7. f \in EncType /\ f.pc = "pixel" /\ Probing(f)
    <3>1. f \in EncType /\ f.pc = cleared.pc /\ f.i = cleared.i /\ f.disp = cleared.disp
      BY <2>5 DEF Wrote, Packed, SameTable
    <3> QED BY <1>7, <1>8, <2>2, <3>1 DEF Probing
  <2>8. codes' \in Seq([code : Nat, width : Nat]) /\ CodesFit'
    BY <1>9, <1>11, <2>3, <2>4, WrittenFits DEF CodesFit
  <2>9. image' \in Images /\ enc' = f
    BY <1>11 DEF EncoderInv, f
  <2> QED BY <2>6, <2>7, <2>8, <2>9 DEF EncoderInv
<1> QED BY <1>1, <1>10, <1>11

LEMMA EpilogueKeeps ==
  ASSUME EncoderInv, Epilogue, UNCHANGED image
  PROVE  EncoderInv'
<1> DEFINE e == Output(enc, enc.ent)
           f == Output(e, EOFCode)
           o == f.outs
           g == [f EXCEPT !.pc = "done", !.outs = Append(@, 0)]
           once == Append(codes, [code |-> enc.ent, width |-> enc.n_bits])
           twice == Append(once, [code |-> EOFCode, width |-> e.n_bits])
<1>1. enc.pc = "pixel" /\ enc' = g /\ codes' = twice
  BY DEF Epilogue, Written
<1>2. enc \in EncType /\ Running(enc) /\ Probing(enc)
  BY <1>1 DEF EncoderInv
<1>3. enc.ent \in Nat /\ enc.ent # EOFCode /\ enc.ent < Pow2[enc.n_bits] /\ enc.ent < maxmaxcode
  BY <1>2, EntFits
<1>4. Wrote(e, enc)
  BY <1>2, <1>3, OutputKeeps DEF Running
<1> HIDE DEF e
<1>5. Ready(e) /\ e \in EncType /\ e.n_bits \in Nat
  <2>1. Ready(e) /\ e \in EncType
    BY <1>4 DEF Wrote, Ready, Filled, Packed
  <2> QED BY <2>1, EncFields
<1>6. EOFCode < Pow2[e.n_bits] /\ EOFCode < maxmaxcode /\ EOFCode \in Nat
  BY <1>5, WidthPowers DEF Ready
<1>7. Ended(f, e)
  BY <1>5, <1>6, OutputEnds
<1> HIDE DEF f
<1>8. f \in EncType /\ o \in Seq(Bytes) /\ Blocked(o)
  <2>1. f \in EncType /\ Blocked(f.outs)
    BY <1>7 DEF Ended
  <2> QED BY <2>1, EncFields
<1>9. Append(o, 0) \in Seq(Bytes)
  BY <1>8 DEF Bytes
<1> HIDE DEF o
<1>10. /\ g \in EncType /\ g.pc = "done" /\ g.outs = Append(o, 0) /\ g.accum = f.accum /\ SameBits(g, f)
       /\ g.n_bits = f.n_bits /\ g.maxcode = f.maxcode /\ g.free_ent = f.free_ent /\ g.i = f.i /\ g.disp = f.disp
  BY <1>8, <1>9 DEF EncType, SameBits, o
<1> HIDE DEF g
<1>11. Closed(g)
  BY <1>7, <1>8, <1>10 DEF Closed, Ended, Widths, SameBits
<1>12. Probing(g)
  BY <1>2, <1>4, <1>7, <1>10 DEF Probing, Wrote, Ended, SameTable
<1>13. codes' \in Seq([code : Nat, width : Nat]) /\ CodesFit'
  <2>1. codes \in Seq([code : Nat, width : Nat]) /\ CodesFit /\ enc.n_bits \in Nat
    BY <1>2, EncFields DEF EncoderInv
  <2>2. /\ once \in Seq([code : Nat, width : Nat])
        /\ \A k \in DOMAIN once : once[k].code < maxmaxcode /\ once[k].code < Pow2[once[k].width]
    BY <1>3, <2>1, WrittenFits DEF CodesFit
  <2> HIDE DEF once
  <2> QED BY <1>1, <1>5, <1>6, <2>2, WrittenFits DEF CodesFit
<1>14. image' \in Images
  BY DEF EncoderInv
<1> QED BY <1>1, <1>10, <1>11, <1>12, <1>13, <1>14 DEF EncoderInv

(* What a decoder keeps whatever the code was. *)
Decodes(d) ==
  /\ IsDec(d) /\ d.mode \in {"closed", "decode", "done"}
  /\ d.bbits \in 0 .. 7 /\ d.cursize \in initCodeSize + 1 .. BITS /\ d.codesize = initCodeSize

LEMMA ResetKeeps ==
  ASSUME NEW d, Decodes(d)
  PROVE  LET f == D!ResetTable(d) IN
         /\ Decodes(f) /\ f.mode = d.mode /\ f.pos = d.pos /\ f.bs = d.bs /\ f.bbuf = d.bbuf /\ f.bbits = d.bbits
         /\ f.read = d.read /\ f.cursize = d.codesize + 1 /\ f.slot = d.newcodes /\ f.top_slot = Pow2[d.codesize + 1]
         /\ f.oc = -1 /\ f.newcodes = d.newcodes /\ f.out = d.out
<1> DEFINE w == d.codesize + 1
           t == Pow2[w]
           f == [d EXCEPT !.cursize = w, !.slot = d.newcodes, !.top_slot = t, !.fc = -1, !.oc = -1]
<1>1. D!ResetTable(d) = f
  BY SamePowers DEF D!ResetTable
<1>2. w \in initCodeSize + 1 .. BITS
  BY SizeFacts DEF Decodes
<1> HIDE DEF t
<1>3. /\ DOMAIN f = DecFields /\ f = [x \in DecFields |-> f[x]]
      /\ f.mode = d.mode /\ f.pos = d.pos /\ f.bs = d.bs /\ f.bbuf = d.bbuf /\ f.bbits = d.bbits
      /\ f.read = d.read /\ f.cursize = w /\ f.slot = d.newcodes /\ f.top_slot = t
      /\ f.oc = -1 /\ f.codesize = d.codesize /\ f.newcodes = d.newcodes /\ f.out = d.out
  <2> HIDE DEF w
  <2> QED BY DEF Decodes, IsDec, DecFields
<1> HIDE DEF f
<1>4. IsDec(f)
  BY <1>3 DEF Decodes, IsDec
<1> QED BY <1>1, <1>2, <1>3, <1>4 DEF Decodes, t

(* AddEntry and the pixels it puts out: one slot and one bit more at most.    *)
Added(d, first, pixels) == [D!AddEntry(d, first) EXCEPT !.out = @ \o pixels]

LEMMA EntryKeeps ==
  ASSUME NEW d, Decodes(d), NEW first, NEW pixels
  PROVE  LET f == Added(d, first, pixels)
             slot == IF d.slot < d.top_slot /\ d.oc >= 0 THEN d.slot + 1 ELSE d.slot
             wider == slot >= d.top_slot /\ d.cursize < BITS
         IN
         /\ Decodes(f) /\ f.mode = d.mode /\ f.pos = d.pos /\ f.bs = d.bs /\ f.bbuf = d.bbuf /\ f.bbits = d.bbits
         /\ f.read = d.read /\ f.slot = slot /\ f.oc = d.code /\ f.newcodes = d.newcodes
         /\ f.cursize = (IF wider THEN d.cursize + 1 ELSE d.cursize)
         /\ f.top_slot = (IF wider THEN 2 * d.top_slot ELSE d.top_slot)
         /\ f.out = d.out \o pixels
<1> DEFINE slot == IF d.slot < d.top_slot /\ d.oc >= 0 THEN d.slot + 1 ELSE d.slot
           wider == slot >= d.top_slot /\ d.cursize < BITS
           e == IF d.slot < d.top_slot /\ d.oc >= 0
                THEN [d EXCEPT !.suffix[d.slot] = first, !.prefix[d.slot] = d.oc, !.slot = @ + 1] ELSE d
           h == [e EXCEPT !.fc = first, !.oc = d.code]
           g == IF h.slot >= h.top_slot /\ h.cursize < BITS
                THEN [h EXCEPT !.top_slot = 2 * @, !.cursize = @ + 1] ELSE h
           f == [g EXCEPT !.out = @ \o pixels]
<1>1. Added(d, first, pixels) = f
  BY DEF D!AddEntry, Added
<1>2. /\ DOMAIN d = DecFields /\ d = [x \in DecFields |-> d[x]]
  BY DEF Decodes, IsDec
<1>3. /\ DOMAIN e = DecFields /\ e = [x \in DecFields |-> e[x]]
      /\ e.mode = d.mode /\ e.pos = d.pos /\ e.bs = d.bs /\ e.bbuf = d.bbuf /\ e.bbits = d.bbits
      /\ e.read = d.read /\ e.cursize = d.cursize /\ e.slot = slot /\ e.top_slot = d.top_slot
      /\ e.codesize = d.codesize /\ e.newcodes = d.newcodes /\ e.out = d.out
  BY <1>2 DEF DecFields
<1> HIDE DEF e, slot
<1>4. /\ DOMAIN h = DecFields /\ h = [x \in DecFields |-> h[x]]
      /\ h.mode = d.mode /\ h.pos = d.pos /\ h.bs = d.bs /\ h.bbuf = d.bbuf /\ h.bbits = d.bbits
      /\ h.read = d.read /\ h.cursize = d.cursize /\ h.slot = slot /\ h.top_slot = d.top_slot
      /\ h.codesize = d.codesize /\ h.newcodes = d.newcodes /\ h.out = d.out /\ h.oc = d.code
  BY <1>3 DEF DecFields
<1> HIDE DEF h
<1>5. /\ DOMAIN g = DecFields /\ g = [x \in DecFields |-> g[x]]
      /\ g.mode = d.mode /\ g.pos = d.pos /\ g.bs = d.bs /\ g.bbuf = d.bbuf /\ g.bbits = d.bbits
      /\ g.read = d.read /\ g.slot = slot /\ g.codesize = d.codesize /\ g.newcodes = d.newcodes
      /\ g.out = d.out /\ g.oc = d.code
      /\ g.cursize = (IF wider THEN d.cursize + 1 ELSE d.cursize)
      /\ g.top_slot = (IF wider THEN 2 * d.top_slot ELSE d.top_slot)
  BY <1>4 DEF DecFields
<1> HIDE DEF g, wider
<1>6. /\ DOMAIN f = DecFields /\ f = [x \in DecFields |-> f[x]]
      /\ f.mode = d.mode /\ f.pos = d.pos /\ f.bs = d.bs /\ f.bbuf = d.bbuf /\ f.bbits = d.bbits
      /\ f.read = d.read /\ f.slot = slot /\ f.codesize = d.codesize /\ f.newcodes = d.newcodes
      /\ f.out = d.out \o pixels /\ f.oc = d.code
      /\ f.cursize = (IF wider THEN d.cursize + 1 ELSE d.cursize)
      /\ f.top_slot = (IF wider THEN 2 * d.top_slot ELSE d.top_slot)
  BY <1>5 DEF DecFields
<1> HIDE DEF f
<1>7. IsDec(f)
  BY <1>6 DEF Decodes, IsDec
<1>8. f.cursize \in initCodeSize + 1 .. BITS
  <2>1. d.cursize \in initCodeSize + 1 .. BITS /\ initCodeSize \in Nat /\ BITS \in Nat
    BY SizeFacts DEF Decodes
  <2> QED BY <1>6, <2>1 DEF wider
<1>9. Decodes(f)
  BY <1>6, <1>7, <1>8 DEF Decodes
<1> QED BY <1>1, <1>6, <1>9 DEF slot, wider

(* One code on its way through the decoder: what follows from it. *)
LEMMA DecodeSteps ==
  ASSUME NEW k, D!DecodeCode(k)
  PROVE  LET d == D!lzw_get_code(dec) IN
         /\ dec.mode = "decode" /\ gb' = gb
         /\ \/ d.code = d.newcodes - 2 /\ dec' = D!ResetTable(d)
            \/ dec' = [d EXCEPT !.mode = "done"]
            \/ /\ d.code \notin {d.newcodes - 2, d.newcodes - 1}
               /\ \E first, pixels : dec' = Added(d, first, pixels)
<1> DEFINE d == D!lzw_get_code(dec)
           px == D!Pixels(d)
           pixels == IF d.code = d.slot /\ d.fc >= 0 THEN Append(px[d.oc], d.fc) ELSE px[d.code]
<1>1. /\ dec.mode = "decode" /\ gb' = gb
      /\ \/ d.code = d.newcodes - 2 /\ dec' = D!ResetTable(d)
         \/ dec' = [d EXCEPT !.mode = "done"]
         \/ /\ d.code \notin {d.newcodes - 2, d.newcodes - 1}
            /\ dec' = Added(d, pixels[1], pixels)
  BY DEF D!DecodeCode, Added
<1> HIDE DEF pixels, d
<1> QED BY <1>1 DEF d

LEMMA OneTime ==
  ASSUME NEW d, Decodes(d)
  PROVE  LET f == [d EXCEPT !.mode = "done"] IN
         /\ Decodes(f) /\ f.mode = "done" /\ f.read = d.read /\ f.bs = d.bs /\ f.out = d.out
<1> DEFINE f == [d EXCEPT !.mode = "done"]
<1>1. /\ DOMAIN f = DecFields /\ f = [x \in DecFields |-> f[x]]
      /\ f.mode = "done" /\ f.pos = d.pos /\ f.bs = d.bs /\ f.bbuf = d.bbuf /\ f.bbits = d.bbits
      /\ f.read = d.read /\ f.cursize = d.cursize /\ f.codesize = d.codesize /\ f.out = d.out
  BY DEF Decodes, IsDec, DecFields
<1> HIDE DEF f
<1>2. IsDec(f)
  BY <1>1 DEF Decodes, IsDec
<1> QED BY <1>1, <1>2 DEF Decodes, f

LEMMA DecodeKeeps ==
  ASSUME FrameInv, Decode
  PROVE  FrameInv'
<1>1. UNCHANGED <<image, enc, codes>>
  BY DEF Decode
<1>2. EncoderInv'
  BY <1>1 DEF FrameInv, EncoderInv, CodesFit
<1>3. Decodes(dec)
  BY DEF FrameInv, DecoderInv, Decodes
<1>4. CASE D!DecodeCode(Len(image))
  <2> DEFINE d == D!lzw_get_code(dec)
  <2>1. /\ dec.mode = "decode" /\ gb' = gb
        /\ \/ d.code = d.newcodes - 2 /\ dec' = D!ResetTable(d)
           \/ dec' = [d EXCEPT !.mode = "done"]
           \/ /\ d.code \notin {d.newcodes - 2, d.newcodes - 1}
              /\ \E first, pixels : dec' = Added(d, first, pixels)
    BY <1>4, DecodeSteps
  <2>2. enc.pc = "done" /\ gb \in Seq(Bytes)
    BY <2>1 DEF FrameInv, DecoderInv
  <2>3. Decodes(d) /\ d.mode = "decode"
    <3>1. dec.cursize \in Nat
      BY <1>3, SizeFacts DEF Decodes
    <3>2. IsDec(d) /\ SameTables(d, dec) /\ d.bbits \in 0 .. 7
      BY <1>3, <2>2, <3>1, GetCodeKeeps DEF Decodes
    <3> HIDE DEF d
    <3> QED BY <1>3, <2>1, <3>2 DEF Decodes, SameTables
  <2> HIDE DEF d
  <2>4. Decodes(dec') /\ dec'.mode \in {"decode", "done"}
    <3>1. CASE dec' = D!ResetTable(d)
      BY <2>3, <3>1, ResetKeeps
    <3>2. CASE dec' = [d EXCEPT !.mode = "done"]
      BY <2>3, <3>2, OneTime
    <3>3. CASE \E first, pixels : dec' = Added(d, first, pixels)
      <4>1. PICK first, pixels : dec' = Added(d, first, pixels)
        BY <3>3
      <4> QED BY <2>3, <4>1, EntryKeeps
    <3> QED BY <2>1, <3>1, <3>2, <3>3
  <2>5. DecoderInv'
    BY <1>1, <2>1, <2>2, <2>4 DEF DecoderInv, Decodes, IsDec
  <2> QED BY <1>2, <2>5 DEF FrameInv
<1>5. CASE D!Complete(Len(image))
  <2>1. dec.mode = "decode" /\ dec' = [dec EXCEPT !.mode = "done"] /\ gb' = gb
    BY <1>5 DEF D!Complete
  <2>2. Decodes(dec')
    BY <1>3, <2>1, OneTime
  <2>3. enc.pc = "done" /\ gb \in Seq(Bytes)
    BY <2>1 DEF FrameInv, DecoderInv
  <2>4. DecoderInv'
    BY <1>1, <2>1, <2>2, <2>3 DEF DecoderInv, Decodes, IsDec
  <2> QED BY <1>2, <2>4 DEF FrameInv
<1> QED BY <1>4, <1>5 DEF Decode

LEMMA OpenKeeps ==
  ASSUME FrameInv, Open
  PROVE  FrameInv'
<1>1. enc.pc = "done" /\ dec.mode = "closed" /\ UNCHANGED <<image, enc, codes>>
      /\ gb' = Tail(enc.outs) /\ dec' = D!DecoderInit(Head(enc.outs))
  BY DEF Open
<1>2. EncoderInv'
  BY <1>1 DEF FrameInv, EncoderInv, CodesFit
<1>3. PICK o \in Seq(Bytes) : Blocked(o) /\ enc.outs = Append(o, 0)
  BY <1>1 DEF FrameInv, EncoderInv, Closed
<1>4. Len(o) \in Nat /\ Len(o) >= 1 /\ o[1] = initCodeSize
  BY <1>3 DEF Blocked
<1>5. Append(o, 0) \in Seq(Bytes) /\ Append(o, 0) # <<>> /\ Append(o, 0)[1] = initCodeSize
  BY <1>4 DEF Bytes
<1>6. Head(enc.outs) = initCodeSize /\ gb' \in Seq(Bytes)
  BY <1>1, <1>3, <1>5
<1>7. Decodes(dec') /\ dec'.mode = "decode"
  <2>1. initCodeSize + 1 \in initCodeSize + 1 .. BITS
    BY SizeFacts
  <2> QED BY <1>1, <1>6, <2>1, DecoderStart DEF Decodes
<1>8. DecoderInv'
  BY <1>1, <1>6, <1>7 DEF DecoderInv, Decodes, IsDec
<1> QED BY <1>2, <1>8 DEF FrameInv

LEMMA FrameStep ==
  ASSUME FrameInv, [FrameNext]_frameVars
  PROVE  FrameInv'
<1>1. CASE Encode
  <2>1. UNCHANGED <<image, gb, dec>>
    BY <1>1 DEF Encode, EncoderNext
  <2>2. EncoderInv'
    BY <1>1, <2>1, PrologueKeeps, NextPixelKeeps, ProbeKeeps, EmitKeeps, EpilogueKeeps
    DEF FrameInv, Encode, EncoderNext
  <2>3. enc.pc # "done"
    BY <1>1 DEF Encode, EncoderNext, Prologue, NextPixel, Probe, Emit, Epilogue
  <2>4. dec.mode = "closed"
    BY <2>3 DEF FrameInv, DecoderInv
  <2>5. DecoderInv'
    BY <2>1, <2>4 DEF FrameInv, DecoderInv, IsDec
  <2> QED BY <2>2, <2>5 DEF FrameInv
<1>2. CASE Open
  BY <1>2, OpenKeeps
<1>3. CASE Decode
  BY <1>3, DecodeKeeps
<1>4. CASE UNCHANGED frameVars
  BY <1>4 DEF frameVars, FrameInv, EncoderInv, CodesFit, DecoderInv, IsDec
<1>5. CASE Done
  BY <1>4, <1>5 DEF Done
<1> QED BY <1>1, <1>2, <1>3, <1>4, <1>5 DEF FrameNext

LEMMA FrameAlways == FrameSpec => []FrameInv
<1>1. FrameInit => FrameInv
  BY InitFrame
<1>2. FrameInv /\ [FrameNext]_frameVars => FrameInv'
  BY FrameStep
<1> QED BY <1>1, <1>2, PTL DEF FrameSpec

-----------------------------------------------------------------------------
(* The theorems.                                                              *)

(* The fields of the compressor and the bits of the decoder keep their ranges *)
(* for every code space, table and image.                                     *)
THEOREM FrameTypes == FrameSpec => []FrameTypeOK
<1>1. ASSUME FrameInv PROVE FrameTypeOK
  <2>1. enc \in EncType /\ Probing(enc) /\ image \in Images /\ CodesFit
    BY <1>1 DEF FrameInv, EncoderInv
  <2>2. enc.pc \in {"start", "pixel", "probe", "emit", "done"} /\ enc.outs \in Seq(Bytes) /\ enc.accum \in Seq(Bytes)
    BY <2>1 DEF EncType
  <2>3. enc.cur_bits \in -7 .. 7 /\ enc.cur_accum \in 0 .. 127 /\ Len(enc.accum) < PACKET
        /\ (enc.pc # "start" => Widths(enc))
    <3>1. Len(<<>>) = 0 /\ 0 < PACKET
      BY SizeFacts
    <3>2. CASE enc.pc = "start"
      BY <1>1, <3>1, <3>2 DEF FrameInv, EncoderInv, Begun
    <3>3. CASE enc.pc \in {"pixel", "probe", "emit"}
      <4>1. Packed(enc) /\ Waiting(enc) /\ Widths(enc)
        BY <1>1, <3>3 DEF FrameInv, EncoderInv, Running, Ready
      <4>2. enc.cur_bits \in 0 .. 7 /\ enc.cur_accum \in 0 .. 127
        BY <4>1, WaitingByte
      <4> QED BY <4>1, <4>2 DEF Packed
    <3>4. CASE enc.pc = "done"
      BY <1>1, <3>1, <3>4 DEF FrameInv, EncoderInv, Closed
    <3> QED BY <2>2, <3>2, <3>3, <3>4
  <2>4. enc.cur_accum \in 0 .. 255
    BY <2>3
  <2>5. /\ \A k \in DOMAIN enc.accum : enc.accum[k] \in 0 .. 255
        /\ \A k \in DOMAIN enc.outs : enc.outs[k] \in 0 .. 255
    <3>1. \A k \in DOMAIN enc.accum : enc.accum[k] \in Bytes
      BY <2>2
    <3>2. \A k \in DOMAIN enc.outs : enc.outs[k] \in Bytes
      BY <2>2
    <3> QED BY <3>1, <3>2 DEF Bytes
  <2>6. {enc.i, enc.disp} \subseteq 0 .. HSIZE /\ enc.i < HSIZE
    <3>1. enc.i \in 0 .. HSIZE - 1 /\ enc.disp \in 0 .. HSIZE /\ HSIZE \in Nat
      BY <2>1, SizeFacts DEF Probing, Slot
    <3> QED BY <3>1
  <2>7. EncoderTypeOK
    BY <2>1, <2>2, <2>3, <2>4, <2>5, <2>6 DEF EncoderTypeOK, Widths, CodesFit
  <2> QED BY <1>1, <2>7 DEF FrameTypeOK, FrameInv, DecoderInv
<1>2. FrameSpec => []FrameInv
  BY FrameAlways
<1> QED BY <1>1, <1>2, PTL

(* From length byte to length byte. *)
LEMMA Walked ==
  ASSUME NEW o \in Seq(Bytes), Blocked(o), enc.outs = Append(o, 0), enc.pc = "done"
  PROVE  BlocksWellFormed
<1> DEFINE L == Len(enc.outs)
           go(p) == IF p \in 1 .. L /\ enc.outs[p] \in 1 .. PACKET THEN p + enc.outs[p] + 1 ELSE p
           T == Nat
           step == [x \in Nat \X T |-> go(x[2])]
           lengthByte[k \in Nat] == IF k = 0 THEN 2 ELSE go(lengthByte[k - 1])
<1>1. /\ Len(o) \in Nat /\ L = Len(o) + 1 /\ enc.outs \in Seq(Bytes) /\ enc.outs[L] = 0
      /\ \A p \in 1 .. Len(o) : enc.outs[p] = o[p]
  BY DEF Bytes
<1>2. PICK P \in SUBSET (2 .. Len(o) + 1) :
        /\ 2 \in P /\ Len(o) + 1 \in P
        /\ \A p \in P : p <= Len(o) => o[p] \in 1 .. PACKET /\ p + o[p] + 1 \in P
  BY DEF Blocked
<1>3. BlocksWellFormed <=> lengthByte[L] = L /\ enc.outs[L] = 0
  BY DEF BlocksWellFormed
<1> HIDE DEF L
<1>4. \A p \in T : go(p) \in T
  <2> SUFFICES ASSUME NEW p \in Nat PROVE go(p) \in Nat
    OBVIOUS
  <2>1. CASE p \in 1 .. L /\ enc.outs[p] \in 1 .. PACKET
    <3> DEFINE x == enc.outs[p]
    <3>1. x \in 1 .. PACKET /\ go(p) = p + x + 1
      BY <2>1
    <3> HIDE DEF x, go
    <3>2. x \in Nat
      BY <3>1
    <3> QED BY <3>1, <3>2
  <2>2. CASE ~(p \in 1 .. L /\ enc.outs[p] \in 1 .. PACKET)
    BY <2>2
  <2> QED BY <2>1, <2>2
<1>5. ASSUME NEW p \in P
      PROVE  p \in Nat /\ p <= L /\ go(p) \in P /\ (go(p) > p \/ go(p) = L)
  <2>1. p \in 2 .. L
    BY <1>1, <1>2
  <2>2. CASE p = L
    BY <1>1, <1>2, <2>1, <2>2
  <2>3. CASE p # L
    <3>1. p <= Len(o) /\ p \in 1 .. Len(o) /\ p \in 1 .. L
      BY <1>1, <2>1, <2>3
    <3>2. o[p] \in 1 .. PACKET /\ p + o[p] + 1 \in P
      BY <1>2, <3>1
    <3>3. go(p) = p + o[p] + 1
      BY <1>1, <3>1, <3>2
    <3> QED BY <2>1, <3>2, <3>3
  <2> QED BY <2>2, <2>3
<1> HIDE DEF go
<1>6. step \in [Nat \X T -> T] /\ 2 \in T
  BY <1>4
<1>7. PICK g : Follows(g, T, 2, step)
  <2> HIDE DEF step, T
  <2> QED BY <1>6, Steps
<1>8. \A k \in Nat : g[k] \in Nat /\ g[k + 1] = go(g[k])
  BY <1>7 DEF Follows
<1>9. g = [k \in Nat |-> IF k = 0 THEN 2 ELSE go(g[k - 1])]
  <2>1. ASSUME NEW k \in Nat PROVE g[k] = IF k = 0 THEN 2 ELSE go(g[k - 1])
    <3>1. CASE k = 0
      BY <1>7, <3>1 DEF Follows
    <3>2. CASE k # 0
      <4>1. k - 1 \in Nat /\ (k - 1) + 1 = k
        BY <3>2
      <4> QED BY <1>8, <3>2, <4>1
    <3> QED BY <3>1, <3>2
  <2> QED BY <1>7, <2>1 DEF Follows
<1>10. lengthByte = [k \in Nat |-> IF k = 0 THEN 2 ELSE go(lengthByte[k - 1])]
  BY <1>9
<1> HIDE DEF lengthByte, step
<1>11. lengthByte[0] = 2 /\ \A k \in Nat : lengthByte[k + 1] = go(lengthByte[k])
  <2>1. \A k \in Nat : k + 1 \in Nat /\ k + 1 # 0 /\ (k + 1) - 1 = k
    OBVIOUS
  <2> QED BY <1>10, <2>1
<1> DEFINE Far(k, p) == p \in P /\ (p >= k + 2 \/ p = L)
           far == [k \in Nat |-> IF Far(k, lengthByte[k]) THEN 1 ELSE 0]
<1>12. far[0] \in {1}
  BY <1>2, <1>11
<1>13. ASSUME NEW k \in Nat, far[k] \in {1} PROVE far[k + 1] \in {1}
  <2> DEFINE p == lengthByte[k]
  <2>1. p \in P /\ (p >= k + 2 \/ p = L)
    BY <1>13
  <2> HIDE DEF p
  <2>2. p \in Nat /\ p <= L /\ go(p) \in P /\ (go(p) > p \/ go(p) = L)
    BY <1>5, <2>1
  <2>3. go(p) \in Nat /\ go(p) <= L
    BY <1>5, <2>2
  <2>4. Far(k + 1, go(p))
    BY <2>1, <2>2, <2>3
  <2>5. lengthByte[k + 1] = go(p)
    BY <1>11 DEF p
  <2> QED BY <2>4, <2>5
<1>14. \A k \in Nat : far[k] \in {1}
  <2> HIDE DEF far
  <2> QED BY <1>12, <1>13, Turns
<1>15. lengthByte[L] = L
  <2> DEFINE p == lengthByte[L]
  <2>1. L \in Nat
    BY <1>1
  <2>2. p \in P /\ (p >= L + 2 \/ p = L)
    BY <1>14, <2>1
  <2> HIDE DEF p
  <2>3. p \in Nat /\ p <= L
    BY <1>5, <2>2
  <2> QED BY <2>1, <2>2, <2>3 DEF p
<1> QED BY <1>1, <1>3, <1>15

(* A reader that steps from length byte to length byte meets the terminator   *)
(* and nothing else that is zero, whatever the packets and the image.         *)
THEOREM FrameSubBlocks == FrameSpec => []BlocksWellFormed
<1>1. ASSUME FrameInv PROVE BlocksWellFormed
  <2>1. CASE enc.pc = "done"
    <3>1. PICK o \in Seq(Bytes) : Blocked(o) /\ enc.outs = Append(o, 0)
      BY <1>1, <2>1 DEF FrameInv, EncoderInv, Closed
    <3> QED BY <2>1, <3>1, Walked
  <2>2. CASE enc.pc # "done"
    BY <2>2 DEF BlocksWellFormed
  <2> QED BY <2>1, <2>2
<1>2. FrameSpec => []FrameInv
  BY FrameAlways
<1> QED BY <1>1, <1>2, PTL
-----------------------------------------------------------------------------
(* The bits on the way: what the bytes hold.                                  *)

LEMMA Factors ==
  ASSUME NEW a \in Int, NEW b \in Int, NEW c \in Int
  PROVE  /\ (a * b) * c = a * (b * c) /\ a * b = b * a /\ a * b \in Int
         /\ a * (b + c) = a * b + a * c /\ a * (b - c) = a * b - a * c
         /\ (a * c) * b = (a * b) * c
OBVIOUS

LEMMA ProductNat ==
  ASSUME NEW a \in Nat, NEW b \in Nat
  PROVE  a * b \in Nat
OBVIOUS

Together(x, s, t, b, c) == b + t * c \in Nat /\ (x + s * b) + (s * t) * c = x + s * (b + t * c)

LEMMA TwoSteps ==
  ASSUME NEW s \in Nat, NEW t \in Nat, NEW b \in Nat, NEW c \in Nat, NEW x \in Nat
  PROVE  Together(x, s, t, b, c)
<1> DEFINE y == t * c
           u == s * b
<1>1. y \in Nat /\ u \in Nat /\ (s * t) * c = s * y
  BY ProductNat, Factors
<1> HIDE DEF y
<1>2. s * (b + y) = u + s * y /\ s * y \in Nat
  BY <1>1, ProductNat, Factors
<1> HIDE DEF u
<1>3. b + y \in Nat
  BY <1>1
<1> QED BY <1>1, <1>2, <1>3 DEF y, u, Together

(* A quotient and a remainder are the only ones. *)
LEMMA DivUnique ==
  ASSUME NEW a \in Int, NEW d \in Nat \ {0}, NEW q \in Int, NEW r \in 0 .. d - 1, a = q * d + r
  PROVE  a \div d = q /\ a % d = r
<1> DEFINE x == a \div d
           y == a % d
<1>1. x \in Int /\ y \in 0 .. d - 1 /\ y = a - d * x
  OBVIOUS
<1> HIDE DEF x, y
<1>2. r - y = (x - q) * d
  <2>1. r - y = d * x - q * d
    BY <1>1
  <2>2. (x - q) * d = d * x - q * d
    BY <1>1
  <2> QED BY <2>1, <2>2
<1>3. r - y < d /\ r - y > -d
  BY <1>1
<1>4. x = q
  <2> DEFINE z == x - q
  <2>1. z \in Int /\ z * d < d /\ z * d > -d
    BY <1>1, <1>2, <1>3
  <2> HIDE DEF z
  <2>2. ~(z >= 1)
    <3>1. z >= 1 => z * d >= d
      BY <2>1
    <3> QED BY <2>1, <3>1
  <2>3. ~(z <= -1)
    <3>1. z <= -1 => z * d <= -d
      BY <2>1
    <3> QED BY <2>1, <3>1
  <2>4. z = 0
    BY <2>1, <2>2, <2>3
  <2> QED BY <1>1, <2>4 DEF z
<1>5. d * q = q * d /\ q * d \in Int
  OBVIOUS
<1> QED BY <1>1, <1>4, <1>5 DEF x, y

(* A sum that grows by multiples of ever larger powers: any later value is an *)
(* earlier one and a multiple of its power.                                   *)
Grows(lo, hi, w, v) ==
  \A j \in lo .. hi - 1 :
     w[j] <= w[j + 1] /\ \E c \in Nat : v[j + 1] = v[j] + Pow2[w[j]] * c

LEMMA Grown ==
  ASSUME NEW lo \in Nat, NEW hi \in Nat, NEW w \in [lo .. hi -> Nat], NEW v \in [lo .. hi -> Nat],
         Grows(lo, hi, w, v), NEW i \in lo .. hi, NEW j \in lo .. hi, i <= j
  PROVE  w[i] <= w[j] /\ \E c \in Nat : v[j] = v[i] + Pow2[w[i]] * c
<1> DEFINE Up(k) == w[i] <= w[k] /\ \E c \in Nat : v[k] = v[i] + Pow2[w[i]] * c
           f == [k \in Nat |-> IF i + k <= hi => Up(i + k) THEN 1 ELSE 0]
<1>1. \A k \in lo .. hi : w[k] \in Nat /\ v[k] \in Nat /\ Pow2[w[k]] \in Nat \ {0}
  BY Pow2Type
<1>2. Up(i)
  <2>1. v[i] = v[i] + Pow2[w[i]] * 0
    BY <1>1
  <2> QED BY <1>1, <2>1
<1>3. ASSUME NEW k \in i .. hi - 1, Up(k) PROVE Up(k + 1)
  <2>1. k \in lo .. hi - 1 /\ k \in lo .. hi /\ k + 1 \in lo .. hi
    OBVIOUS
  <2>2. w[k] <= w[k + 1]
    BY <2>1 DEF Grows
  <2>3. PICK c \in Nat : v[k + 1] = v[k] + Pow2[w[k]] * c
    BY <2>1 DEF Grows
  <2>4. PICK b \in Nat : v[k] = v[i] + Pow2[w[i]] * b
    BY <1>3
  <2> DEFINE m == w[k] - w[i]
             s == Pow2[w[i]]
             t == Pow2[m]
  <2>5. m \in Nat /\ w[k] = w[i] + m /\ w[i] \in Nat
    BY <1>1, <1>3, <2>1
  <2>6. Pow2[w[k]] = s * t /\ s \in Nat /\ t \in Nat
    <3> HIDE DEF m
    <3> QED BY <2>5, Pow2Sum, Pow2Type
  <2>7. v[i] \in Nat /\ v[k] \in Nat
    BY <1>1, <2>1
  <2> HIDE DEF s, t, m
  <2>8. b + t * c \in Nat /\ (v[i] + s * b) + (s * t) * c = v[i] + s * (b + t * c)
    <3>1. Together(v[i], s, t, b, c)
      BY <2>6, <2>7, TwoSteps
    <3> QED BY <3>1 DEF Together
  <2>9. v[k + 1] = v[i] + s * (b + t * c)
    BY <2>3, <2>4, <2>6, <2>8 DEF s
  <2>10. w[i] <= w[k + 1]
    BY <1>1, <1>3, <2>1, <2>2
  <2> QED BY <2>8, <2>9, <2>10 DEF s
<1> HIDE DEF Up
<1>4. f[0] \in {1}
  BY <1>2
<1>5. ASSUME NEW k \in Nat, f[k] \in {1} PROVE f[k + 1] \in {1}
  <2>1. CASE i + (k + 1) <= hi
    <3>1. i + k \in i .. hi - 1 /\ (i + k) + 1 = i + (k + 1)
      BY <2>1
    <3>2. Up(i + k)
      BY <1>5, <3>1
    <3>3. Up(i + (k + 1))
      BY <1>3, <3>1, <3>2
    <3> QED BY <3>3
  <2>2. CASE ~(i + (k + 1) <= hi)
    BY <2>2
  <2> QED BY <2>1, <2>2
<1>6. \A k \in Nat : f[k] \in {1}
  <2> HIDE DEF f
  <2> QED BY <1>4, <1>5, Turns
<1>7. j - i \in Nat /\ i + (j - i) = j /\ i + (j - i) <= hi
  OBVIOUS
<1>8. Up(j)
  <2> DEFINE m == j - i
  <2>1. m \in Nat /\ i + m = j /\ i + m <= hi
    BY <1>7
  <2> HIDE DEF m
  <2>2. f[m] \in {1}
    BY <1>6, <2>1
  <2>3. Up(i + m)
    BY <2>1, <2>2
  <2> QED BY <2>1, <2>3
<1> QED BY <1>8 DEF Up

(* The places of the length bytes, and at each place the number and the value *)
(* of the bytes of data before it.                                            *)
Lined(o, P, N, X) ==
  /\ P \in SUBSET (2 .. Len(o) + 1) /\ 2 \in P /\ Len(o) + 1 \in P
  /\ \A p \in P : p <= Len(o) => /\ o[p] \in 1 .. PACKET /\ p + o[p] + 1 \in P
                                 /\ \A q \in p + 1 .. p + o[p] : q \notin P
  /\ N \in [2 .. Len(o) + 1 -> Nat] /\ X \in [2 .. Len(o) + 1 -> Nat] /\ N[2] = 0 /\ X[2] = 0
  /\ \A p \in 2 .. Len(o) :
       IF p \in P THEN N[p + 1] = N[p] /\ X[p + 1] = X[p]
       ELSE N[p + 1] = N[p] + 1 /\ X[p + 1] = X[p] + o[p] * Pow2[8 * N[p]]
(* The values of the first bytes of a packet.                                 *)
Heaped(a, A, n, x) ==
  /\ A \in [0 .. Len(a) -> Nat] /\ A[0] = x
  /\ \A k \in 0 .. Len(a) - 1 : A[k + 1] = A[k] + a[k + 1] * Pow2[8 * (n + k)]

(* The sub-blocks o and the packet a hold b bytes of value x.                 *)
Holds(o, a, b, x) ==
  \E P, N, X, A :
    /\ Lined(o, P, N, X) /\ Heaped(a, A, N[Len(o) + 1], X[Len(o) + 1])
    /\ b = N[Len(o) + 1] + Len(a) /\ x = A[Len(a)]

LEMMA HoldsType ==
  ASSUME NEW o \in Seq(Bytes), NEW a \in Seq(Bytes), NEW b, NEW x, Holds(o, a, b, x)
  PROVE  b \in Nat /\ x \in Nat
<1>1. PICK P, N, X, A :
         /\ Lined(o, P, N, X) /\ Heaped(a, A, N[Len(o) + 1], X[Len(o) + 1])
         /\ b = N[Len(o) + 1] + Len(a) /\ x = A[Len(a)]
  BY DEF Holds
<1>2. Len(o) + 1 \in 2 .. Len(o) + 1 /\ Len(a) \in 0 .. Len(a) /\ Len(a) \in Nat
  BY <1>1 DEF Lined
<1>3. N[Len(o) + 1] \in Nat /\ A[Len(a)] \in Nat
  BY <1>1, <1>2 DEF Lined, Heaped
<1> QED BY <1>1, <1>2, <1>3

LEMMA HoldsNone ==
  ASSUME NEW o \in Seq(Bytes), Len(o) = 1
  PROVE  Holds(o, <<>>, 0, 0)
<1> DEFINE P == {2}
           N == [p \in {2} |-> 0]
           A == [k \in {0} |-> 0]
<1>1. 2 .. Len(o) + 1 = {2} /\ 2 .. Len(o) = {} /\ Len(o) + 1 = 2 /\ 0 .. Len(<<>>) = {0} /\ Len(<<>>) = 0
      /\ 0 .. Len(<<>>) - 1 = {}
  OBVIOUS
<1>2. Lined(o, P, N, N)
  <2>1. N \in [2 .. Len(o) + 1 -> Nat] /\ N[2] = 0 /\ P \in SUBSET (2 .. Len(o) + 1) /\ 2 \in P /\ Len(o) + 1 \in P
    BY <1>1
  <2>2. \A p \in P : ~(p <= Len(o))
    OBVIOUS
  <2> HIDE DEF P, N
  <2> QED BY <1>1, <2>1, <2>2 DEF Lined
<1>3. Heaped(<<>>, A, N[2], N[2])
  <2>1. A \in [0 .. Len(<<>>) -> Nat] /\ A[0] = N[2]
    BY <1>1
  <2> HIDE DEF A, N
  <2> QED BY <1>1, <2>1 DEF Heaped
<1>4. 0 = N[Len(o) + 1] + Len(<<>>) /\ 0 = A[Len(<<>>)]
  BY <1>1
<1> HIDE DEF P, N, A
<1> QED BY <1>1, <1>2, <1>3, <1>4 DEF Holds

(* A byte behind the packet is worth its place. *)
LEMMA HoldsByte ==
  ASSUME NEW o \in Seq(Bytes), NEW a \in Seq(Bytes), NEW b, NEW x, Holds(o, a, b, x), NEW byte \in Bytes
  PROVE  Holds(o, Append(a, byte), b + 1, x + byte * Pow2[8 * b])
<1>1. PICK P, N, X, A :
         /\ Lined(o, P, N, X) /\ Heaped(a, A, N[Len(o) + 1], X[Len(o) + 1])
         /\ b = N[Len(o) + 1] + Len(a) /\ x = A[Len(a)]
  BY DEF Holds
<1> DEFINE n == Len(a)
           c == Append(a, byte)
           y == x + byte * Pow2[8 * b]
           B == [k \in 0 .. n + 1 |-> IF k <= n THEN A[k] ELSE y]
<1>2. b \in Nat /\ x \in Nat /\ n \in Nat /\ Len(c) = n + 1 /\ c[n + 1] = byte
      /\ \A k \in 1 .. n : c[k] = a[k]
  BY HoldsType
<1>3. y \in Nat
  <2>1. 8 * b \in Nat /\ byte \in Nat
    <3>1. byte \in Nat
      BY DEF Bytes
    <3>2. 8 * b \in Nat
      BY <1>2
    <3> QED BY <3>1, <3>2
  <2>2. Pow2[8 * b] \in Nat
    BY <2>1, Pow2Type
  <2>3. byte * Pow2[8 * b] \in Nat
    BY <2>1, <2>2, ProductNat
  <2> QED BY <1>2, <2>3
<1>4. A \in [0 .. n -> Nat] /\ A[0] = X[Len(o) + 1]
      /\ \A k \in 0 .. n - 1 : A[k + 1] = A[k] + a[k + 1] * Pow2[8 * (N[Len(o) + 1] + k)]
  BY <1>1 DEF Heaped
<1>5. B \in [0 .. n + 1 -> Nat] /\ B[0] = A[0] /\ B[n + 1] = y
  <2> HIDE DEF n, y
  <2> QED BY <1>2, <1>3, <1>4
<1>6. ASSUME NEW k \in 0 .. n
      PROVE  B[k + 1] = B[k] + c[k + 1] * Pow2[8 * (N[Len(o) + 1] + k)]
  <2>1. B[k] = A[k]
    BY <1>2
  <2>2. CASE k = n
    BY <1>1, <1>2, <1>5, <2>1, <2>2
  <2>3. CASE k # n
    <3>1. k \in 0 .. n - 1 /\ k + 1 \in 1 .. n /\ k + 1 \in 0 .. n + 1
      BY <1>2, <2>3
    <3>2. B[k + 1] = A[k + 1] /\ c[k + 1] = a[k + 1]
      BY <1>2, <3>1
    <3> QED BY <1>4, <2>1, <3>1, <3>2
  <2> QED BY <2>2, <2>3
<1> HIDE DEF B, c, y
<1>7. Heaped(c, B, N[Len(o) + 1], X[Len(o) + 1])
  <2>1. 0 .. Len(c) = 0 .. n + 1 /\ 0 .. Len(c) - 1 = 0 .. n
    BY <1>2
  <2> QED BY <1>4, <1>5, <1>6, <2>1 DEF Heaped
<1>8. b + 1 = N[Len(o) + 1] + Len(c) /\ y = B[Len(c)]
  <2>1. N[Len(o) + 1] \in Nat
    <3>1. Len(o) + 1 \in 2 .. Len(o) + 1
      BY <1>1 DEF Lined
    <3> QED BY <1>1, <3>1 DEF Lined
  <2> QED BY <1>1, <1>2, <1>5, <2>1
<1>9. Holds(o, c, b + 1, y)
  BY <1>1, <1>7, <1>8 DEF Holds
<1> QED BY <1>9 DEF c, y

(* A full packet behind its length holds what it held. *)
LEMMA HoldsFlush ==
  ASSUME NEW o \in Seq(Bytes), NEW a \in Seq(Bytes), Len(a) \in 1 .. PACKET, NEW b, NEW x, Holds(o, a, b, x)
  PROVE  Holds((o \o <<Len(a)>>) \o a, <<>>, b, x)
<1>1. PICK P, N, X, A :
         /\ Lined(o, P, N, X) /\ Heaped(a, A, N[Len(o) + 1], X[Len(o) + 1])
         /\ b = N[Len(o) + 1] + Len(a) /\ x = A[Len(a)]
  BY DEF Holds
<1> DEFINE n == Len(a)
           L == Len(o)
           c == (o \o <<n>>) \o a
<1>2. n \in Bytes /\ n \in 1 .. PACKET /\ n \in Nat /\ L \in Nat
  <2>1. n \in 1 .. PACKET /\ n \in Nat /\ L \in Nat
    OBVIOUS
  <2>2. PACKET \in 1 .. 255
    BY SizeFacts
  <2> HIDE DEF n, L
  <2> QED BY <2>1, <2>2 DEF Bytes
<1>3. o \o <<n>> \in Seq(Bytes) /\ Len(o \o <<n>>) = L + 1
      /\ \A k \in 1 .. L + 1 : (o \o <<n>>)[k] = IF k <= L THEN o[k] ELSE n
  <2> HIDE DEF n
  <2> QED BY <1>2
<1>4. /\ c \in Seq(Bytes) /\ Len(c) = L + 1 + n
      /\ \A k \in 1 .. L : c[k] = o[k]
      /\ c[L + 1] = n /\ \A k \in 1 .. n : c[L + 1 + k] = a[k]
  <2> DEFINE y == o \o <<n>>
  <2>1. y \in Seq(Bytes) /\ Len(y) = L + 1
        /\ \A k \in 1 .. L + 1 : y[k] = IF k <= L THEN o[k] ELSE n
    BY <1>3
  <2> HIDE DEF y
  <2>2. y \o a \in Seq(Bytes) /\ Len(y \o a) = Len(y) + Len(a)
        /\ (\A k \in 1 .. Len(y) : (y \o a)[k] = y[k])
        /\ \A k \in 1 .. Len(a) : (y \o a)[Len(y) + k] = a[k]
    BY <2>1
  <2>3. c = y \o a
    BY DEF y
  <2> HIDE DEF n, L, c
  <2> QED BY <1>2, <2>1, <2>2, <2>3 DEF n, L
<1> HIDE DEF c
<1>5. /\ P \in SUBSET (2 .. L + 1) /\ 2 \in P /\ L + 1 \in P
      /\ \A p \in P : p <= L => /\ o[p] \in 1 .. PACKET /\ p + o[p] + 1 \in P
                               /\ \A q \in p + 1 .. p + o[p] : q \notin P
      /\ N \in [2 .. L + 1 -> Nat] /\ X \in [2 .. L + 1 -> Nat] /\ N[2] = 0 /\ X[2] = 0
      /\ \A p \in 2 .. L :
           IF p \in P THEN N[p + 1] = N[p] /\ X[p + 1] = X[p]
           ELSE N[p + 1] = N[p] + 1 /\ X[p + 1] = X[p] + o[p] * Pow2[8 * N[p]]
  BY <1>1 DEF Lined
<1>6. /\ A \in [0 .. n -> Nat] /\ A[0] = X[L + 1]
      /\ \A k \in 0 .. n - 1 : A[k + 1] = A[k] + a[k + 1] * Pow2[8 * (N[L + 1] + k)]
  BY <1>1 DEF Heaped
<1>7. b = N[L + 1] + n /\ x = A[n]
  BY <1>1
<1> HIDE DEF n, L
<1> DEFINE e == L + n + 2
           Q == P \cup {e}
           M == [p \in 2 .. e |-> IF p <= L + 1 THEN N[p] ELSE N[L + 1] + (p - (L + 2))]
           Y == [p \in 2 .. e |-> IF p <= L + 1 THEN X[p] ELSE A[p - (L + 2)]]
<1>8. Len(c) + 1 = e /\ e \in Nat /\ L + 1 \in 2 .. L + 1 /\ N[L + 1] \in Nat /\ e > L + 2 /\ L >= 1
  <2>1. L + 1 \in 2 .. L + 1
    BY <1>5
  <2>2. N[L + 1] \in Nat
    BY <1>5, <2>1
  <2>3. n >= 1
    BY <1>2
  <2> QED BY <1>2, <1>4, <2>1, <2>2, <2>3
<1>9. Q \in SUBSET (2 .. e) /\ 2 \in Q /\ e \in Q /\ \A p \in L + 2 .. L + n + 1 : p \notin Q
  <2>1. 2 .. L + 1 \subseteq 2 .. e /\ e \in 2 .. e
    BY <1>2, <1>8
  <2>2. \A p \in L + 2 .. L + n + 1 : p \notin 2 .. L + 1 /\ p # e
    BY <1>2
  <2> QED BY <1>5, <2>1, <2>2
<1>10. ASSUME NEW p \in Q, p <= Len(c)
       PROVE  /\ c[p] \in 1 .. PACKET /\ p + c[p] + 1 \in Q
              /\ \A q \in p + 1 .. p + c[p] : q \notin Q
  <2>1. p \in P /\ p \in 2 .. L + 1
    BY <1>2, <1>5, <1>8, <1>10
  <2>2. CASE p <= L
    <3>1. p \in 1 .. L /\ c[p] = o[p]
      BY <1>2, <1>4, <2>1, <2>2
    <3>2. o[p] \in 1 .. PACKET /\ p + o[p] + 1 \in P /\ \A q \in p + 1 .. p + o[p] : q \notin P
      BY <1>5, <2>1, <2>2
    <3> DEFINE l == o[p]
    <3>3. l \in Nat /\ p + l + 1 \in 2 .. L + 1
      <4>1. l \in 1 .. PACKET
        BY <3>2
      <4> HIDE DEF l
      <4>2. l \in Nat
        BY <4>1
      <4> QED BY <1>5, <3>2, <4>2 DEF l
    <3>4. \A q \in p + 1 .. p + l : q # e
      <4> HIDE DEF l
      <4> QED BY <1>2, <1>8, <2>1, <3>3
    <3> QED BY <3>1, <3>2, <3>4
  <2>3. CASE p = L + 1
    <3>1. c[p] = n
      BY <1>4, <2>3
    <3>2. p + n + 1 = e
      BY <1>2, <2>3
    <3>3. \A q \in p + 1 .. p + n : q \in L + 2 .. L + n + 1
      BY <1>2, <2>3
    <3> QED BY <1>2, <1>9, <3>1, <3>2, <3>3
  <2> QED BY <1>2, <2>1, <2>2, <2>3
<1>11. M \in [2 .. e -> Nat] /\ Y \in [2 .. e -> Nat] /\ M[2] = 0 /\ Y[2] = 0 /\ M[e] = b /\ Y[e] = x
  <2>1. ASSUME NEW p \in 2 .. e PROVE M[p] \in Nat /\ Y[p] \in Nat
    <3>1. CASE p <= L + 1
      <4>1. p \in 2 .. L + 1
        BY <1>2, <1>8, <3>1
      <4> QED BY <1>5, <3>1, <4>1
    <3>2. CASE ~(p <= L + 1)
      <4>1. p - (L + 2) \in 0 .. n
        BY <1>2, <1>8, <3>2
      <4> QED BY <1>6, <1>8, <3>2, <4>1
    <3> QED BY <3>1, <3>2
  <2>2. 2 \in 2 .. e /\ 2 <= L + 1
    BY <1>2, <1>8
  <2>3. e - (L + 2) = n /\ ~(e <= L + 1) /\ e \in 2 .. e
    BY <1>2, <1>8
  <2>4. M[e] = b /\ Y[e] = x
    BY <1>7, <2>3
  <2> QED BY <1>5, <2>1, <2>2, <2>4
<1>12. ASSUME NEW p \in 2 .. Len(c)
       PROVE  IF p \in Q THEN M[p + 1] = M[p] /\ Y[p + 1] = Y[p]
              ELSE M[p + 1] = M[p] + 1 /\ Y[p + 1] = Y[p] + c[p] * Pow2[8 * M[p]]
  <2>1. p \in 2 .. e - 1 /\ p \in 2 .. e /\ p + 1 \in 2 .. e /\ p \in Nat
    BY <1>2, <1>4, <1>8
  <2>2. CASE p <= L
    <3>1. p \in 2 .. L /\ p <= L + 1 /\ p + 1 <= L + 1 /\ p # e /\ p \in 1 .. L
      BY <1>2, <1>8, <2>1, <2>2
    <3>2. M[p] = N[p] /\ M[p + 1] = N[p + 1] /\ Y[p] = X[p] /\ Y[p + 1] = X[p + 1] /\ c[p] = o[p]
      BY <1>4, <2>1, <3>1
    <3>3. p \in Q <=> p \in P
      BY <3>1
    <3> HIDE DEF M, Y, Q
    <3> QED BY <1>5, <3>1, <3>2, <3>3
  <2>3. CASE p = L + 1
    <3>1. p \in Q /\ p <= L + 1 /\ ~(p + 1 <= L + 1) /\ (p + 1) - (L + 2) = 0
      BY <1>2, <1>5, <2>3
    <3>2. M[p] = N[L + 1] /\ Y[p] = X[L + 1] /\ M[p + 1] = N[L + 1] + 0 /\ Y[p + 1] = A[0]
      BY <2>1, <2>3, <3>1
    <3> HIDE DEF M, Y, Q
    <3> QED BY <1>6, <1>8, <3>1, <3>2
  <2>4. CASE p > L + 1
    <3> DEFINE k == p - (L + 2)
    <3>1. k \in 0 .. n - 1 /\ (p + 1) - (L + 2) = k + 1 /\ p = L + 1 + (k + 1) /\ k + 1 \in 1 .. n
          /\ p \in L + 2 .. L + n + 1 /\ ~(p <= L + 1) /\ ~(p + 1 <= L + 1)
      BY <1>2, <1>8, <2>1, <2>4
    <3>2. M[p] = N[L + 1] + k /\ M[p + 1] = N[L + 1] + (k + 1) /\ Y[p] = A[k] /\ Y[p + 1] = A[k + 1]
      BY <2>1, <3>1
    <3>3. c[p] = a[k + 1] /\ p \notin Q
      BY <1>4, <1>9, <3>1
    <3> HIDE DEF M, Y, Q, k
    <3>4. M[p + 1] = M[p] + 1
      <4>1. k \in Nat
        BY <1>2, <3>1
      <4> DEFINE m == N[L + 1]
      <4>2. m \in Nat /\ M[p] = m + k /\ M[p + 1] = m + (k + 1)
        BY <1>8, <3>2
      <4> HIDE DEF m
      <4> QED BY <4>1, <4>2
    <3>5. Y[p + 1] = Y[p] + c[p] * Pow2[8 * M[p]]
      BY <1>6, <3>1, <3>2, <3>3
    <3> QED BY <3>3, <3>4, <3>5
  <2> QED BY <1>2, <2>1, <2>2, <2>3, <2>4
<1> HIDE DEF M, Y, Q
<1>13. Lined(c, Q, M, Y)
  <2> HIDE DEF e
  <2> QED BY <1>8, <1>9, <1>10, <1>11, <1>12 DEF Lined
<1> DEFINE B == [k \in {0} |-> Y[e]]
<1>14. Heaped(<<>>, B, M[e], Y[e])
  <2>1. 0 .. Len(<<>>) = {0} /\ 0 .. Len(<<>>) - 1 = {}
    OBVIOUS
  <2>2. Y[e] \in Nat
    BY <1>11, HoldsType
  <2> HIDE DEF e
  <2>3. B \in [0 .. Len(<<>>) -> Nat] /\ B[0] = Y[e]
    BY <2>1, <2>2
  <2> HIDE DEF B
  <2> QED BY <2>1, <2>3 DEF Heaped
<1>15. b = M[Len(c) + 1] + Len(<<>>) /\ x = B[Len(<<>>)]
  <2>1. Len(<<>>) = 0 /\ M[e] \in Nat
    BY <1>11, HoldsType
  <2> HIDE DEF e
  <2> QED BY <1>8, <1>11, <2>1
<1>16. Holds(c, <<>>, b, x)
  <2> HIDE DEF B, e
  <2> QED BY <1>8, <1>13, <1>14, <1>15 DEF Holds
<1> QED BY <1>16 DEF c, n

LEMMA DivDiv ==
  ASSUME NEW a \in Nat, NEW d \in Nat \ {0}, NEW e \in Nat \ {0}
  PROVE  (a \div d) \div e = a \div (d * e)
<1> DEFINE q == a \div d
           r == a % d
           p == q \div e
           s == q % e
<1>1. q \in Nat /\ r \in 0 .. d - 1 /\ r = a - d * q
  OBVIOUS
<1> HIDE DEF q, r
<1>2. p \in Nat /\ s \in 0 .. e - 1 /\ s = q - e * p
  BY <1>1
<1> HIDE DEF p, s
<1>3. d * e \in Nat \ {0}
  OBVIOUS
<1>4. d * s + r \in 0 .. d * e - 1
  <2>1. d * s <= d * (e - 1) /\ d * s >= 0 /\ d * s \in Int
    BY <1>2
  <2>2. d * (e - 1) = d * e - d
    BY Factors
  <2> QED BY <1>1, <1>3, <2>1, <2>2
<1>5. a = p * (d * e) + (d * s + r)
  <2>1. a = d * q + r /\ q = e * p + s
    <3>1. d * q \in Int /\ e * p \in Int
      BY <1>1, <1>2
    <3> QED BY <1>1, <1>2, <3>1
  <2>2. d * (e * p + s) = d * (e * p) + d * s
    <3> DEFINE y == e * p
    <3>1. y \in Int
      BY <1>2
    <3> HIDE DEF y
    <3>2. d * (y + s) = d * y + d * s
      BY <1>2, <3>1
    <3> QED BY <3>2 DEF y
  <2>3. d * (e * p) = (d * e) * p /\ (d * e) * p = p * (d * e)
    BY <1>2, Factors
  <2>4. d * (e * p) \in Int /\ d * s \in Int
    <3>1. e * p \in Int
      BY <1>2
    <3> QED BY <1>2, <3>1, Factors
  <2> QED BY <1>1, <2>1, <2>2, <2>3, <2>4
<1> DEFINE de == d * e
           ds == d * s + r
<1>6. de \in Nat \ {0} /\ ds \in 0 .. de - 1 /\ a = p * de + ds
  BY <1>3, <1>4, <1>5
<1> HIDE DEF de, ds
<1>7. a \div de = p
  BY <1>2, <1>6, DivUnique
<1> QED BY <1>7 DEF de, p, q

LEMMA FlushHolds ==
  ASSUME NEW e \in EncType, Len(e.accum) <= PACKET, NEW b, NEW x, Holds(e.outs, e.accum, b, x)
  PROVE  LET f == flush_char(e) IN Holds(f.outs, f.accum, b, x)
<1>1. e.outs \in Seq(Bytes) /\ e.accum \in Seq(Bytes)
  BY EncFields
<1>2. CASE e.accum = <<>>
  BY <1>2 DEF flush_char
<1>3. CASE e.accum # <<>>
  <2> DEFINE o == (e.outs \o <<Len(e.accum)>>) \o e.accum
             f == [e EXCEPT !.outs = o, !.accum = <<>>]
  <2>1. flush_char(e) = f
    BY <1>3 DEF flush_char
  <2>2. Len(e.accum) \in 1 .. PACKET
    BY <1>1, <1>3, SizeFacts
  <2>3. Holds(o, <<>>, b, x)
    BY <1>1, <2>2, HoldsFlush
  <2> HIDE DEF o
  <2>4. f.outs = o /\ f.accum = <<>>
    BY DEF EncType
  <2> HIDE DEF f
  <2> QED BY <2>1, <2>3, <2>4
<1> QED BY <1>2, <1>3

LEMMA CharOutHolds ==
  ASSUME NEW e, Packed(e), NEW byte \in Bytes, NEW b, NEW x, Holds(e.outs, e.accum, b, x)
  PROVE  LET f == char_out(e, byte) IN Holds(f.outs, f.accum, b + 1, x + byte * Pow2[8 * b])
<1> DEFINE f == [e EXCEPT !.accum = Append(@, byte)]
           y == x + byte * Pow2[8 * b]
<1>1. e \in EncType /\ e.accum \in Seq(Bytes) /\ e.outs \in Seq(Bytes)
  BY EncFields DEF Packed
<1>2. Append(e.accum, byte) \in Seq(Bytes) /\ Len(Append(e.accum, byte)) = Len(e.accum) + 1
  BY <1>1
<1>3. f \in EncType /\ f.outs = e.outs /\ f.accum = Append(e.accum, byte)
  BY <1>1, <1>2 DEF EncType
<1>4. char_out(e, byte) = IF Len(f.accum) >= PACKET THEN flush_char(f) ELSE f
  BY DEF char_out
<1> HIDE DEF f
<1>5. Holds(f.outs, f.accum, b + 1, y)
  BY <1>1, <1>3, HoldsByte
<1> HIDE DEF y
<1>6. Len(f.accum) <= PACKET
  BY <1>1, <1>2, <1>3, SizeFacts DEF Packed
<1>7. CASE Len(f.accum) >= PACKET
  <2>1. Holds(flush_char(f).outs, flush_char(f).accum, b + 1, y)
    BY <1>3, <1>5, <1>6, FlushHolds
  <2> QED BY <1>4, <1>7, <2>1 DEF y
<1>8. CASE ~(Len(f.accum) >= PACKET)
  BY <1>4, <1>5, <1>8 DEF y
<1> QED BY <1>7, <1>8

(* The bytes of a number, from the lowest. *)
LEMMA ByteUp ==
  ASSUME NEW y \in Nat, NEW bits \in Nat, NEW m \in Nat, NEW k \in Nat
  PROVE  (y + LowByte(bits, k) * Pow2[m]) + Pow2[m + 8] * (bits \div Pow2[8 * (k + 1)])
           = y + Pow2[m] * (bits \div Pow2[8 * k])
<1> DEFINE u == bits \div Pow2[8 * k]
           v == bits \div Pow2[8 * (k + 1)]
           c == u % 256
           s == Pow2[m]
<1>1. 8 * k \in Nat /\ 8 * (k + 1) = 8 * k + 8 /\ 8 \in Nat
  OBVIOUS
<1>2. Pow2[8 * k] \in Nat \ {0} /\ s \in Nat /\ Pow2[8] = 256
  BY <1>1, Pow2Type, Pow2Seven
<1>3. Pow2[8 * (k + 1)] = Pow2[8 * k] * 256 /\ Pow2[m + 8] = s * 256
  <2> DEFINE t == 8 * k
  <2>1. t \in Nat /\ 8 \in Nat /\ 8 * (k + 1) = t + 8
    BY <1>1
  <2> HIDE DEF t
  <2>2. Pow2[t + 8] = Pow2[t] * Pow2[8]
    BY <2>1, Pow2Sum
  <2>3. Pow2[m + 8] = Pow2[m] * Pow2[8]
    BY <2>1, Pow2Sum
  <2> QED BY <1>2, <2>1, <2>2, <2>3 DEF t
<1>4. u \in Nat /\ v = u \div 256
  <2> DEFINE d == Pow2[8 * k]
  <2>1. d \in Nat \ {0} /\ 256 \in Nat \ {0}
    BY <1>2
  <2> HIDE DEF d
  <2>2. (bits \div d) \div 256 = bits \div (d * 256) /\ bits \div d \in Nat
    BY <2>1, DivDiv
  <2> QED BY <1>3, <2>2 DEF d
<1> HIDE DEF u
<1>5. LowByte(bits, k) = c
  BY DEF LowByte, u
<1>6. v \in Nat /\ c \in Nat /\ u = c + 256 * v
  <2> DEFINE z == u \div 256
  <2>1. z \in Nat /\ c \in Nat /\ c = u - 256 * z
    BY <1>4
  <2> HIDE DEF z, c
  <2>2. u = c + 256 * z
    BY <1>4, <2>1
  <2> HIDE DEF v
  <2> QED BY <1>4, <2>1, <2>2 DEF z
<1> HIDE DEF v, c, s
<1>7. s * u = s * c + s * (256 * v) /\ c * s = s * c /\ (s * 256) * v = s * (256 * v)
  <2>1. c \in Int /\ s \in Int /\ v \in Int /\ 256 * v \in Int
    BY <1>2, <1>6
  <2> QED BY <1>6, <2>1, Factors
<1>8. s * c \in Int /\ s * (256 * v) \in Int
  <2>1. c \in Int /\ s \in Int /\ 256 * v \in Int
    BY <1>2, <1>6
  <2> QED BY <2>1, Factors
<1>9. (y + c * s) + (s * 256) * v = y + s * u
  <2> DEFINE sc == s * c
             sv == s * (256 * v)
  <2>1. sc \in Int /\ sv \in Int /\ s * u = sc + sv /\ c * s = sc /\ (s * 256) * v = sv
    BY <1>7, <1>8
  <2> HIDE DEF sc, sv
  <2>2. (y + sc) + sv = y + (sc + sv)
    BY <2>1
  <2> QED BY <2>1, <2>2
<1> QED BY <1>3, <1>5, <1>9 DEF s, u, v

(* The loop over whole bytes moves value from the number to the bytes.        *)
Moved(f, bits, b, x, k, total) ==
  \E y \in Nat : Holds(f.outs, f.accum, b + k, y) /\ y + Pow2[8 * (b + k)] * (bits \div Pow2[8 * k]) = total

LEMMA LowBytesHold ==
  ASSUME NEW e, Packed(e), NEW bits \in Nat, NEW n \in Nat, NEW b, NEW x, Holds(e.outs, e.accum, b, x)
  PROVE  Moved(LowBytes(e, bits, n), bits, b, x, n, x + Pow2[8 * b] * bits)
<1> DEFINE total == x + Pow2[8 * b] * bits
<1>1. PICK after : LoopTurns(after, e, bits)
  BY LowBytesTurns
<1> DEFINE f == [k \in Nat |-> IF Moved(after[k], bits, b, x, k, total) THEN 1 ELSE 0]
<1>2. b \in Nat /\ x \in Nat
  <2>1. e.outs \in Seq(Bytes) /\ e.accum \in Seq(Bytes)
    BY EncFields DEF Packed
  <2> QED BY <2>1, HoldsType
<1>3. Moved(after[0], bits, b, x, 0, total)
  <2>1. after[0] = e
    BY <1>1 DEF LoopTurns
  <2>2. b + 0 = b /\ 8 * 0 = 0 /\ Pow2[0] = 1 /\ bits \div 1 = bits
    BY <1>2, Pow2Step
  <2>3. Holds(e.outs, e.accum, b + 0, x)
    BY <2>2
  <2>4. x + Pow2[8 * (b + 0)] * (bits \div Pow2[8 * 0]) = total
    BY <2>2
  <2> HIDE DEF total
  <2> QED BY <1>2, <2>1, <2>3, <2>4 DEF Moved
<1> HIDE DEF total
<1>4. ASSUME NEW k \in Nat, Moved(after[k], bits, b, x, k, total)
      PROVE  Moved(after[k + 1], bits, b, x, k + 1, total)
  <2> DEFINE g == after[k]
             byte == LowByte(bits, k)
             m == 8 * (b + k)
  <2>1. Packed(g) /\ after[k + 1] = char_out(g, byte) /\ byte \in Bytes
    BY <1>1 DEF LoopTurns
  <2>2. PICK y \in Nat : Holds(g.outs, g.accum, b + k, y) /\ y + Pow2[m] * (bits \div Pow2[8 * k]) = total
    BY <1>4 DEF Moved
  <2> DEFINE z == y + byte * Pow2[m]
  <2>3. Holds(char_out(g, byte).outs, char_out(g, byte).accum, (b + k) + 1, z)
    BY <2>1, <2>2, CharOutHolds
  <2>4. (b + k) + 1 = b + (k + 1) /\ 8 * (b + (k + 1)) = m + 8 /\ m \in Nat
    BY <1>2
  <2> HIDE DEF m
  <2>5. z + Pow2[m + 8] * (bits \div Pow2[8 * (k + 1)]) = y + Pow2[m] * (bits \div Pow2[8 * k])
    BY <2>4, ByteUp
  <2>6. z \in Nat
    <3>1. byte \in Nat /\ Pow2[m] \in Nat
      BY <2>1, <2>4, Pow2Type DEF Bytes
    <3> HIDE DEF byte
    <3>2. byte * Pow2[m] \in Nat
      BY <3>1, ProductNat
    <3> QED BY <3>2
  <2> HIDE DEF z, g, byte
  <2> DEFINE h == char_out(g, byte)
  <2>7. Holds(h.outs, h.accum, b + (k + 1), z)
    BY <2>3, <2>4
  <2>8. z + Pow2[8 * (b + (k + 1))] * (bits \div Pow2[8 * (k + 1)]) = total
    BY <2>2, <2>4, <2>5
  <2>9. Moved(h, bits, b, x, k + 1, total)
    <3> HIDE DEF h
    <3> QED BY <2>6, <2>7, <2>8 DEF Moved
  <2> QED BY <2>1, <2>9
<1>5. f[0] \in {1} /\ \A k \in Nat : f[k] \in {1} => f[k + 1] \in {1}
  <2> SUFFICES ASSUME NEW k \in Nat, f[k] \in {1} PROVE f[k + 1] \in {1}
    BY <1>3
  <2>1. Moved(after[k], bits, b, x, k, total)
    OBVIOUS
  <2>2. Moved(after[k + 1], bits, b, x, k + 1, total)
    BY <1>4, <2>1
  <2> QED BY <2>2
<1>6. f[n] \in {1}
  <2> HIDE DEF f
  <2> QED BY <1>5, Turns
<1>7. Moved(after[n], bits, b, x, n, total)
  BY <1>6
<1>8. LowBytes(e, bits, n) = after[n]
  BY <1>1 DEF LoopTurns
<1> QED BY <1>7, <1>8 DEF total

-----------------------------------------------------------------------------
(* The codes on the way: how many bits they are and what value.               *)

Coded == [code : Nat, width : Nat]
Measured(cs, W, V) ==
  /\ W \in [0 .. Len(cs) -> Nat] /\ V \in [0 .. Len(cs) -> Nat] /\ W[0] = 0 /\ V[0] = 0
  /\ \A k \in 0 .. Len(cs) - 1 : /\ W[k + 1] = W[k] + cs[k + 1].width
                                /\ V[k + 1] = V[k] + cs[k + 1].code * Pow2[W[k]]
Total(cs, w, v) == \E W, V : Measured(cs, W, V) /\ w = W[Len(cs)] /\ v = V[Len(cs)]

LEMMA TotalNone == Total(<<>>, 0, 0)
<1> DEFINE Z == [k \in {0} |-> 0]
<1>1. 0 .. Len(<<>>) = {0} /\ 0 .. Len(<<>>) - 1 = {} /\ Len(<<>>) = 0
  OBVIOUS
<1>2. Z \in [0 .. Len(<<>>) -> Nat] /\ Z[0] = 0
  BY <1>1
<1> HIDE DEF Z
<1>3. Measured(<<>>, Z, Z)
  BY <1>1, <1>2 DEF Measured
<1> QED BY <1>1, <1>2, <1>3 DEF Total

LEMMA TotalMore ==
  ASSUME NEW cs \in Seq(Coded), NEW w, NEW v, Total(cs, w, v), NEW code \in Nat, NEW width \in Nat
  PROVE  /\ w \in Nat /\ v \in Nat
         /\ Total(Append(cs, [code |-> code, width |-> width]), w + width, v + code * Pow2[w])
<1> DEFINE n == Len(cs)
           y == [code |-> code, width |-> width]
           ds == Append(cs, y)
           u == v + code * Pow2[w]
<1>1. PICK W, V : Measured(cs, W, V) /\ w = W[n] /\ v = V[n]
  BY DEF Total
<1> DEFINE A == [k \in 0 .. n + 1 |-> IF k <= n THEN W[k] ELSE w + width]
           B == [k \in 0 .. n + 1 |-> IF k <= n THEN V[k] ELSE u]
<1>2. y \in Coded /\ y.code = code /\ y.width = width
  BY DEF Coded
<1> HIDE DEF y
<1>3. n \in Nat /\ ds \in Seq(Coded) /\ Len(ds) = n + 1 /\ ds[n + 1] = y /\ \A k \in 1 .. n : ds[k] = cs[k]
  BY <1>2
<1>4. /\ W \in [0 .. n -> Nat] /\ V \in [0 .. n -> Nat] /\ W[0] = 0 /\ V[0] = 0
      /\ \A k \in 0 .. n - 1 : W[k + 1] = W[k] + cs[k + 1].width /\ V[k + 1] = V[k] + cs[k + 1].code * Pow2[W[k]]
  BY <1>1 DEF Measured
<1> HIDE DEF n, ds
<1>5. w \in Nat /\ v \in Nat
  <2>1. n \in 0 .. n
    BY <1>3
  <2> QED BY <1>1, <1>4, <2>1
<1>6. u \in Nat
  <2>1. Pow2[w] \in Nat
    BY <1>5, Pow2Type
  <2>2. code * Pow2[w] \in Nat
    BY <2>1, ProductNat
  <2> QED BY <1>5, <2>2
<1> HIDE DEF u
<1>7. /\ A \in [0 .. n + 1 -> Nat] /\ B \in [0 .. n + 1 -> Nat] /\ A[0] = 0 /\ B[0] = 0
      /\ A[n + 1] = w + width /\ B[n + 1] = u
  <2>1. ASSUME NEW k \in 0 .. n + 1 PROVE A[k] \in Nat /\ B[k] \in Nat
    <3>1. CASE k <= n
      <4>1. k \in 0 .. n
        BY <1>3, <3>1
      <4> QED BY <1>4, <3>1, <4>1
    <3>2. CASE ~(k <= n)
      BY <1>5, <1>6, <3>2
    <3> QED BY <3>1, <3>2
  <2>2. 0 \in 0 .. n + 1 /\ n + 1 \in 0 .. n + 1 /\ 0 <= n /\ ~(n + 1 <= n)
    BY <1>3
  <2> QED BY <1>4, <2>1, <2>2
<1>8. ASSUME NEW k \in 0 .. n
      PROVE  A[k + 1] = A[k] + ds[k + 1].width /\ B[k + 1] = B[k] + ds[k + 1].code * Pow2[A[k]]
  <2>1. A[k] = W[k] /\ B[k] = V[k]
    BY <1>3
  <2>2. CASE k = n
    <3>1. A[k + 1] = w + width /\ B[k + 1] = u /\ ds[k + 1] = y /\ A[k] = w /\ B[k] = v
      BY <1>1, <1>3, <1>7, <2>1, <2>2
    <3> HIDE DEF A, B
    <3> QED BY <1>2, <3>1 DEF u
  <2>3. CASE k # n
    <3>1. k \in 0 .. n - 1 /\ k + 1 \in 1 .. n /\ k + 1 \in 0 .. n + 1 /\ k + 1 <= n
      BY <1>3, <2>3
    <3>2. A[k + 1] = W[k + 1] /\ B[k + 1] = V[k + 1] /\ ds[k + 1] = cs[k + 1]
      BY <1>3, <3>1
    <3> HIDE DEF A, B
    <3> QED BY <1>4, <2>1, <3>1, <3>2
  <2> QED BY <2>2, <2>3
<1> HIDE DEF A, B
<1>9. Measured(ds, A, B)
  <2>1. 0 .. Len(ds) = 0 .. n + 1 /\ 0 .. Len(ds) - 1 = 0 .. n
    BY <1>3
  <2> QED BY <1>7, <1>8, <2>1 DEF Measured
<1>10. Total(ds, w + width, u)
  BY <1>3, <1>7, <1>9 DEF Total
<1> QED BY <1>5, <1>10 DEF ds, u, y

(* Nothing is lost between the two: what output was given is what the bytes   *)
(* and the waiting bits hold.                                                 *)
Carried(e, cs) ==
  \E b, x : /\ Holds(e.outs, e.accum, b, x)
            /\ Total(cs, 8 * b + e.cur_bits, x + Pow2[8 * b] * e.cur_accum)

Spread(x, m, n, a, code) == x + Pow2[m] * (a + code * Pow2[n]) = (x + Pow2[m] * a) + code * Pow2[m + n]

LEMMA OverBits ==
  ASSUME NEW x \in Nat, NEW m \in Nat, NEW n \in Nat, NEW a \in Nat, NEW code \in Nat
  PROVE  Spread(x, m, n, a, code)
<1> DEFINE s == Pow2[m]
           t == Pow2[n]
           ct == code * t
           sa == s * a
           sct == s * ct
<1>1. s \in Nat /\ t \in Nat /\ Pow2[m + n] = s * t
  BY Pow2Type, Pow2Sum
<1> HIDE DEF s, t
<1>2. ct \in Nat /\ sa \in Nat
  BY <1>1, ProductNat
<1>3. s * (a + ct) = sa + sct /\ sct \in Int
  <2> HIDE DEF ct
  <2> QED BY <1>1, <1>2, Factors
<1>4. sct = code * (s * t)
  <2>1. s * (code * t) = (s * code) * t /\ (s * code) * t = (code * s) * t /\ (code * s) * t = code * (s * t)
    BY <1>1, Factors
  <2> QED BY <2>1
<1> HIDE DEF sa, sct
<1>5. x + (sa + sct) = (x + sa) + sct
  BY <1>2, <1>3
<1> QED BY <1>1, <1>3, <1>4, <1>5 DEF s, t, ct, sa, Spread

LEMMA PackCarries ==
  ASSUME NEW e, Packed(e), Waiting(e), NEW cs \in Seq(Coded), Carried(e, cs),
         NEW code \in Nat, code < Pow2[e.n_bits]
  PROVE  Carried(Pack(e, code), Append(cs, [code |-> code, width |-> e.n_bits]))
<1> DEFINE acc == (e.cur_accum % Pow2[e.cur_bits]) + code * Pow2[e.cur_bits]
           n == e.cur_bits + e.n_bits
           q == n \div 8
           r == n % 8
           f == LowBytes(e, acc, q)
<1>1. e \in EncType /\ e.n_bits \in Nat /\ e.cur_bits \in Nat /\ e.cur_accum \in Nat /\ n \in Nat
      /\ e.outs \in Seq(Bytes) /\ e.accum \in Seq(Bytes)
  <2>1. e \in EncType
    BY DEF Packed
  <2>2. e.n_bits \in Nat /\ e.outs \in Seq(Bytes) /\ e.accum \in Seq(Bytes)
    BY <2>1, EncFields
  <2>3. e.cur_bits \in Nat /\ e.cur_accum \in Nat
    BY WaitingByte
  <2> QED BY <2>1, <2>2, <2>3
<1>2. acc \in Nat /\ acc < Pow2[n]
  BY <1>1, Accumulated
<1>3. acc = e.cur_accum + code * Pow2[e.cur_bits]
  <2> DEFINE p == Pow2[e.cur_bits]
             a == e.cur_accum
  <2>1. p \in Nat \ {0} /\ a \in 0 .. p - 1
    BY <1>1, Pow2Type DEF Waiting
  <2> HIDE DEF p, a
  <2>2. a % p = a
    BY <2>1
  <2> QED BY <2>2 DEF p, a
<1>4. Pack(e, code) = [f EXCEPT !.cur_accum = acc \div Pow2[8 * q], !.cur_bits = r]
  BY DEF Pack
<1>5. PICK b, x : /\ Holds(e.outs, e.accum, b, x)
                  /\ Total(cs, 8 * b + e.cur_bits, x + Pow2[8 * b] * e.cur_accum)
  BY DEF Carried
<1> HIDE DEF acc
<1>6. q \in Nat /\ r \in 0 .. 7 /\ n = 8 * q + r
  <2> HIDE DEF n
  <2> QED BY <1>1
<1> DEFINE w == 8 * b + e.cur_bits
           v == x + Pow2[8 * b] * e.cur_accum
<1>7. b \in Nat /\ x \in Nat /\ 8 * b \in Nat
  <2>1. b \in Nat /\ x \in Nat
    BY <1>1, <1>5, HoldsType
  <2> QED BY <2>1
<1>8. Total(Append(cs, [code |-> code, width |-> e.n_bits]), w + e.n_bits, v + code * Pow2[w])
  <2> HIDE DEF w, v
  <2>1. Total(cs, w, v)
    BY <1>5 DEF w, v
  <2> QED BY <1>1, <2>1, TotalMore
<1> HIDE DEF n, q, r
<1>9. Moved(f, acc, b, x, q, x + Pow2[8 * b] * acc)
  BY <1>2, <1>5, <1>6, LowBytesHold
<1>10. PICK y \in Nat : /\ Holds(f.outs, f.accum, b + q, y)
                        /\ y + Pow2[8 * (b + q)] * (acc \div Pow2[8 * q]) = x + Pow2[8 * b] * acc
  BY <1>9 DEF Moved
<1>11. x + Pow2[8 * b] * acc = v + code * Pow2[w]
  <2> DEFINE m == 8 * b
             l == e.cur_bits
             a == e.cur_accum
  <2>1. m \in Nat /\ l \in Nat /\ a \in Nat
    BY <1>1, <1>7
  <2> HIDE DEF m, l, a
  <2>2. x + Pow2[m] * (a + code * Pow2[l]) = (x + Pow2[m] * a) + code * Pow2[m + l]
    <3>1. Spread(x, m, l, a, code)
      BY <1>7, <2>1, OverBits
    <3> QED BY <3>1 DEF Spread
  <2> QED BY <1>3, <2>2 DEF m, l, a
<1>12. 8 * (b + q) + r = w + e.n_bits
  <2> DEFINE l == e.cur_bits
             t == e.n_bits
  <2>1. l \in Nat /\ t \in Nat /\ n = l + t /\ w = 8 * b + l
    BY <1>1 DEF n
  <2> HIDE DEF l, t, w
  <2>2. 8 * b \in Nat /\ 8 * q \in Nat /\ 8 * (b + q) = 8 * b + 8 * q /\ r \in Nat
    BY <1>6, <1>7
  <2>3. 8 * q + r = l + t
    BY <1>6, <2>1
  <2>4. (8 * b + 8 * q) + r = (8 * b + l) + t
    <3> DEFINE lo == 8 * b
               hi == 8 * q
    <3>1. lo \in Nat /\ hi \in Nat /\ r \in Nat /\ l \in Nat /\ t \in Nat /\ hi + r = l + t
      BY <2>1, <2>2, <2>3
    <3> HIDE DEF lo, hi
    <3>2. (lo + hi) + r = (lo + l) + t
      BY <3>1
    <3> QED BY <3>2 DEF lo, hi
  <2>5. 8 * (b + q) + r = w + t
    BY <2>1, <2>2, <2>4
  <2> QED BY <2>5 DEF t
<1> HIDE DEF w, v
<1> DEFINE u == acc \div Pow2[8 * q]
           g == [f EXCEPT !.cur_accum = u, !.cur_bits = r]
<1>13. g.outs = f.outs /\ g.accum = f.accum /\ g.cur_accum = u /\ g.cur_bits = r
  <2>1. f \in EncType
    <3>1. Packed(f)
      BY <1>2, <1>6, LowBytesKeep
    <3> QED BY <3>1 DEF Packed
  <2> HIDE DEF f, u
  <2> QED BY <2>1 DEF EncType
<1>14. Pack(e, code) = g
  BY <1>4 DEF q, r, n, acc
<1> HIDE DEF g, f
<1>15. Holds(g.outs, g.accum, b + q, y)
  BY <1>10, <1>13
<1>16. Total(Append(cs, [code |-> code, width |-> e.n_bits]),
             8 * (b + q) + g.cur_bits, y + Pow2[8 * (b + q)] * g.cur_accum)
  BY <1>8, <1>10, <1>11, <1>12, <1>13
<1>17. Carried(g, Append(cs, [code |-> code, width |-> e.n_bits]))
  BY <1>15, <1>16 DEF Carried
<1> QED BY <1>14, <1>17

Wider(e) == e.free_ent >= Pow2[e.n_bits] /\ e.n_bits < BITS

(* The width after a code, and the bytes a change of width leaves alone.      *)
LEMMA WidenSame ==
  ASSUME NEW e \in EncType, Widths(e)
  PROVE  LET f == Widen(e) IN
         /\ f.outs = e.outs /\ f.accum = e.accum /\ f.cur_bits = e.cur_bits /\ f.cur_accum = e.cur_accum
         /\ f.n_bits = IF e.clear_flg THEN initCodeSize + 1 ELSE IF Wider(e) THEN e.n_bits + 1 ELSE e.n_bits
<1> DEFINE w == initCodeSize + 1
           f == [e EXCEPT !.n_bits = w, !.maxcode = Pow2[w] - 1, !.clear_flg = FALSE]
           h == IF e.n_bits + 1 = BITS THEN maxmaxcode ELSE Pow2[e.n_bits + 1] - 1
           g == [e EXCEPT !.n_bits = e.n_bits + 1, !.maxcode = h]
<1>1. Widen(e) = IF e.clear_flg THEN f ELSE IF e.free_ent > e.maxcode THEN g ELSE e
  BY DEF Widen, WidenAt, MAXCODE
<1> HIDE DEF w, h
<1>2. /\ f.outs = e.outs /\ f.accum = e.accum /\ f.cur_bits = e.cur_bits /\ f.cur_accum = e.cur_accum
      /\ f.n_bits = w
  BY DEF EncType
<1>3. /\ g.outs = e.outs /\ g.accum = e.accum /\ g.cur_bits = e.cur_bits /\ g.cur_accum = e.cur_accum
      /\ g.n_bits = e.n_bits + 1
  BY DEF EncType
<1> HIDE DEF f, g
<1>4. e.free_ent > e.maxcode <=> Wider(e)
  <2>1. e.free_ent \in Nat /\ e.n_bits \in Nat /\ BITS \in Nat /\ maxmaxcode \in Nat /\ e.free_ent <= maxmaxcode
        /\ e.n_bits <= BITS
    <3>1. e.free_ent \in Nat /\ e.n_bits \in Nat
      BY EncFields
    <3>2. BITS \in Nat /\ maxmaxcode \in Nat /\ ClearCode \in Nat /\ initCodeSize \in Nat
      BY SizeFacts
    <3> QED BY <3>1, <3>2 DEF Widths
  <2>2. Pow2[e.n_bits] \in Nat
    BY <2>1, Pow2Type
  <2>3. CASE e.n_bits = BITS
    BY <2>1, <2>3 DEF Widths, Wider
  <2>4. CASE e.n_bits # BITS
    <3>1. e.maxcode = Pow2[e.n_bits] - 1 /\ e.n_bits < BITS
      BY <2>1, <2>4 DEF Widths
    <3> QED BY <2>1, <2>2, <3>1 DEF Wider
  <2> QED BY <2>3, <2>4
<1> QED BY <1>1, <1>2, <1>3, <1>4 DEF w

NextWidth(e) == IF e.clear_flg THEN initCodeSize + 1 ELSE IF Wider(e) THEN e.n_bits + 1 ELSE e.n_bits

LEMMA PackWidenCarries ==
  ASSUME NEW e, Ready(e), NEW cs \in Seq(Coded), Carried(e, cs), NEW code \in Nat, code < Pow2[e.n_bits]
  PROVE  LET f == Widen(Pack(e, code)) IN
         Carried(f, Append(cs, [code |-> code, width |-> e.n_bits])) /\ f.n_bits = NextWidth(e)
<1> DEFINE p == Pack(e, code)
           f == Widen(p)
           ds == Append(cs, [code |-> code, width |-> e.n_bits])
<1>1. Packed(p) /\ SameCoder(p, e) /\ Waiting(p)
  BY PackKeeps DEF Ready
<1>2. Carried(p, ds)
  BY PackCarries DEF Ready
<1> HIDE DEF p, ds
<1>3. p \in EncType /\ Widths(p) /\ NextWidth(p) = NextWidth(e)
  BY <1>1 DEF Ready, Packed, Widths, SameCoder, NextWidth, Wider
<1>4. /\ f.outs = p.outs /\ f.accum = p.accum /\ f.cur_bits = p.cur_bits /\ f.cur_accum = p.cur_accum
      /\ f.n_bits = NextWidth(p)
  BY <1>3, WidenSame DEF NextWidth
<1> HIDE DEF f
<1>5. Carried(f, ds)
  BY <1>2, <1>4 DEF Carried
<1> QED BY <1>3, <1>4, <1>5 DEF f, p, ds

LEMMA OutputCarries ==
  ASSUME NEW e, Ready(e), NEW cs \in Seq(Coded), Carried(e, cs), NEW code \in Nat, code < Pow2[e.n_bits],
         code # EOFCode
  PROVE  LET f == Output(e, code) IN
         Carried(f, Append(cs, [code |-> code, width |-> e.n_bits])) /\ f.n_bits = NextWidth(e)
<1>1. Output(e, code) = Widen(Pack(e, code))
  BY DEF Output
<1> QED BY <1>1, PackWidenCarries

(* All the bits are in whole bytes at last. *)
Delivered(o, cs) == \E b, x, w : Holds(o, <<>>, b, x) /\ Total(cs, w, x) /\ w <= 8 * b

LEMMA OutputDelivers ==
  ASSUME NEW e, Ready(e), NEW cs \in Seq(Coded), Carried(e, cs), EOFCode < Pow2[e.n_bits]
  PROVE  Delivered(Output(e, EOFCode).outs, Append(cs, [code |-> EOFCode, width |-> e.n_bits]))
<1> DEFINE next == Widen(Pack(e, EOFCode))
           byte == next.cur_accum % 256
           rest == [char_out(next, byte) EXCEPT !.cur_bits = @ - 8]
           last == IF next.cur_bits > 0 THEN rest ELSE next
           ds == Append(cs, [code |-> EOFCode, width |-> e.n_bits])
<1>1. Output(e, EOFCode) = flush_char(last)
  BY DEF Output
<1>2. Packed(next) /\ Waiting(next) /\ Carried(next, ds)
  <2>1. EOFCode \in Nat
    BY SizeFacts DEF EOFCode
  <2>2. Wrote(next, e)
    BY <2>1, PackWiden
  <2>3. Carried(next, ds)
    BY <2>1, PackWidenCarries
  <2> QED BY <2>2, <2>3 DEF Wrote
<1> HIDE DEF next, ds
<1>3. PICK b, x : /\ Holds(next.outs, next.accum, b, x)
                  /\ Total(ds, 8 * b + next.cur_bits, x + Pow2[8 * b] * next.cur_accum)
  BY <1>2 DEF Carried
<1>4. next.cur_bits \in 0 .. 7 /\ next.cur_accum \in 0 .. 127 /\ byte \in Bytes /\ byte = next.cur_accum
      /\ next.cur_accum \in Nat /\ next.cur_bits \in Nat
  <2> DEFINE a == next.cur_accum
  <2>1. a \in 0 .. 127 /\ next.cur_bits \in 0 .. 7 /\ next.cur_accum \in Nat /\ next.cur_bits \in Nat
    BY <1>2, WaitingByte
  <2>2. byte = a % 256
    OBVIOUS
  <2> HIDE DEF a, byte
  <2>3. \A k \in 0 .. 127 : k % 256 = k /\ k \in 0 .. 255
    OBVIOUS
  <2>4. byte = a /\ a \in 0 .. 255
    BY <2>1, <2>2, <2>3
  <2> QED BY <2>1, <2>4 DEF a, Bytes
<1>5. b \in Nat /\ x \in Nat
  <2>1. next.outs \in Seq(Bytes) /\ next.accum \in Seq(Bytes)
    BY <1>2, EncFields DEF Packed
  <2> QED BY <1>3, <2>1, HoldsType
<1> HIDE DEF byte
<1>6. /\ last \in EncType /\ Len(last.accum) < PACKET
      /\ \E c, y, w : Holds(last.outs, last.accum, c, y) /\ Total(ds, w, y) /\ w <= 8 * c
  <2>1. CASE next.cur_bits > 0
    <3> DEFINE o == char_out(next, byte)
               l == o.cur_bits - 8
               r == [o EXCEPT !.cur_bits = l]
               y == x + byte * Pow2[8 * b]
    <3>1. Packed(o) /\ SameBits(o, next)
      BY <1>2, <1>4, CharOutKeeps
    <3>2. Holds(o.outs, o.accum, b + 1, y)
      BY <1>2, <1>3, <1>4, CharOutHolds
    <3> HIDE DEF o
    <3>3. o \in EncType /\ l \in Int
      <4>1. o \in EncType
        BY <3>1 DEF Packed
      <4>2. o.cur_bits \in Int
        BY <4>1, EncFields
      <4> QED BY <4>1, <4>2
    <3> HIDE DEF l
    <3>4. r \in EncType /\ r.outs = o.outs /\ r.accum = o.accum
      BY <3>3 DEF EncType
    <3>5. last = r
      BY <2>1 DEF l, o
    <3> HIDE DEF r
    <3>6. Len(r.accum) < PACKET
      BY <3>1, <3>4 DEF Packed
    <3>7. x + Pow2[8 * b] * next.cur_accum = y
      <4>1. 8 * b \in Nat /\ byte \in Nat
        BY <1>4, <1>5
      <4>2. Pow2[8 * b] \in Int /\ byte \in Int
        BY <4>1, Pow2Type
      <4>3. Pow2[8 * b] * byte = byte * Pow2[8 * b]
        BY <4>2, Factors
      <4> QED BY <1>4, <4>3
    <3> HIDE DEF y
    <3>8. Total(ds, 8 * b + next.cur_bits, y) /\ 8 * b + next.cur_bits <= 8 * (b + 1)
      BY <1>3, <1>4, <1>5, <3>7
    <3>9. Holds(r.outs, r.accum, b + 1, y)
      BY <3>2, <3>4
    <3> QED BY <3>4, <3>5, <3>6, <3>8, <3>9
  <2>2. CASE ~(next.cur_bits > 0)
    <3>1. next.cur_bits = 0 /\ next.cur_accum = 0
      <4>1. next.cur_bits = 0
        BY <1>4, <2>2
      <4>2. next.cur_accum \in 0 .. Pow2[0] - 1
        BY <1>2, <4>1 DEF Waiting
      <4> QED BY <4>1, <4>2, Pow2Step
    <3>2. Total(ds, 8 * b, x)
      <4>1. 8 * b + 0 = 8 * b /\ 8 * b \in Nat
        BY <1>5
      <4>2. x + Pow2[8 * b] * 0 = x
        BY <1>5, <4>1, Pow2Type
      <4> QED BY <1>3, <3>1, <4>1, <4>2
    <3>3. last = next /\ next \in EncType /\ Len(next.accum) < PACKET /\ 8 * b <= 8 * b
      BY <1>2, <1>5, <2>2 DEF Packed
    <3> QED BY <1>3, <3>2, <3>3
  <2> QED BY <2>1, <2>2
<1>7. PICK c, y, w : Holds(last.outs, last.accum, c, y) /\ Total(ds, w, y) /\ w <= 8 * c
  BY <1>6
<1> HIDE DEF last
<1>8. Len(last.accum) <= PACKET /\ Blocked(last.outs) => flush_char(last).accum = <<>>
  BY <1>6, FlushKeeps
<1>9. Len(last.accum) <= PACKET
  <2>1. Len(last.accum) \in Nat
    BY <1>6, EncFields
  <2> QED BY <1>6, <2>1, SizeFacts
<1>10. Holds(flush_char(last).outs, flush_char(last).accum, c, y)
  BY <1>6, <1>7, <1>9, FlushHolds
<1>11. flush_char(last).accum = <<>>
  BY <1>6 DEF flush_char, EncType
<1>12. Delivered(flush_char(last).outs, ds)
  BY <1>7, <1>10, <1>11 DEF Delivered
<1> QED BY <1>1, <1>12 DEF ds

-----------------------------------------------------------------------------
(* The widths on the way: the entries the table has and the width of the next *)
(* code, after each of the codes written.                                     *)

After(code, m, g, m2, g2) ==
  IF code = ClearCode THEN m2 = 0 /\ g2 = initCodeSize + 1
  ELSE /\ m2 = m + 1
       /\ g2 = IF ClearCode + 2 + m >= Pow2[g] /\ g < BITS THEN g + 1 ELSE g
       /\ code # EOFCode => ClearCode + 2 + m <= Pow2[g]
Ruled(cs, M, G) ==
  /\ M \in [0 .. Len(cs) -> Nat] /\ G \in [0 .. Len(cs) -> Nat] /\ M[0] = 0 /\ G[0] = initCodeSize + 1
  /\ \A k \in 0 .. Len(cs) - 1 :
       cs[k + 1].width = G[k] /\ After(cs[k + 1].code, M[k], G[k], M[k + 1], G[k + 1])
Rated(cs, m, g) == \E M, G : Ruled(cs, M, G) /\ m = M[Len(cs)] /\ g = G[Len(cs)]

LEMMA RatedNone == Rated(<<>>, 0, initCodeSize + 1)
<1> DEFINE Z == [k \in {0} |-> 0]
           S == [k \in {0} |-> initCodeSize + 1]
<1>1. 0 .. Len(<<>>) = {0} /\ 0 .. Len(<<>>) - 1 = {} /\ Len(<<>>) = 0
  OBVIOUS
<1>2. initCodeSize + 1 \in Nat
  BY SizeFacts
<1>3. Z \in [0 .. Len(<<>>) -> Nat] /\ Z[0] = 0 /\ S \in [0 .. Len(<<>>) -> Nat] /\ S[0] = initCodeSize + 1
  BY <1>1, <1>2
<1> HIDE DEF Z, S
<1>4. Ruled(<<>>, Z, S)
  BY <1>1, <1>3 DEF Ruled
<1> QED BY <1>1, <1>3, <1>4 DEF Rated

LEMMA RatedMore ==
  ASSUME NEW cs \in Seq(Coded), NEW m, NEW g, Rated(cs, m, g), NEW code \in Nat,
         NEW m2 \in Nat, NEW g2 \in Nat, After(code, m, g, m2, g2)
  PROVE  m \in Nat /\ g \in Nat /\ Rated(Append(cs, [code |-> code, width |-> g]), m2, g2)
<1> DEFINE n == Len(cs)
           y == [code |-> code, width |-> g]
           ds == Append(cs, y)
<1>1. PICK M, G : Ruled(cs, M, G) /\ m = M[n] /\ g = G[n]
  BY DEF Rated
<1> DEFINE A == [k \in 0 .. n + 1 |-> IF k <= n THEN M[k] ELSE m2]
           B == [k \in 0 .. n + 1 |-> IF k <= n THEN G[k] ELSE g2]
<1>2. /\ M \in [0 .. n -> Nat] /\ G \in [0 .. n -> Nat] /\ M[0] = 0 /\ G[0] = initCodeSize + 1
      /\ \A k \in 0 .. n - 1 : cs[k + 1].width = G[k] /\ After(cs[k + 1].code, M[k], G[k], M[k + 1], G[k + 1])
  BY <1>1 DEF Ruled
<1>3. m \in Nat /\ g \in Nat
  <2>1. n \in 0 .. n
    OBVIOUS
  <2> QED BY <1>1, <1>2, <2>1
<1>4. y \in Coded /\ y.code = code /\ y.width = g
  BY <1>3 DEF Coded
<1> HIDE DEF y
<1>5. n \in Nat /\ ds \in Seq(Coded) /\ Len(ds) = n + 1 /\ ds[n + 1] = y /\ \A k \in 1 .. n : ds[k] = cs[k]
  BY <1>4
<1> HIDE DEF n, ds
<1>6. /\ A \in [0 .. n + 1 -> Nat] /\ B \in [0 .. n + 1 -> Nat] /\ A[0] = 0 /\ B[0] = initCodeSize + 1
      /\ A[n + 1] = m2 /\ B[n + 1] = g2
  <2>1. ASSUME NEW k \in 0 .. n + 1 PROVE A[k] \in Nat /\ B[k] \in Nat
    <3>1. CASE k <= n
      <4>1. k \in 0 .. n
        BY <1>5, <3>1
      <4> QED BY <1>2, <3>1, <4>1
    <3>2. CASE ~(k <= n)
      BY <3>2
    <3> QED BY <3>1, <3>2
  <2>2. 0 \in 0 .. n + 1 /\ n + 1 \in 0 .. n + 1 /\ 0 <= n /\ ~(n + 1 <= n)
    BY <1>5
  <2> QED BY <1>2, <2>1, <2>2
<1>7. ASSUME NEW k \in 0 .. n
      PROVE  ds[k + 1].width = B[k] /\ After(ds[k + 1].code, A[k], B[k], A[k + 1], B[k + 1])
  <2>1. A[k] = M[k] /\ B[k] = G[k]
    BY <1>5
  <2>2. CASE k = n
    <3>1. A[k + 1] = m2 /\ B[k + 1] = g2 /\ ds[k + 1] = y /\ A[k] = m /\ B[k] = g
      BY <1>1, <1>5, <1>6, <2>1, <2>2
    <3> HIDE DEF A, B
    <3> QED BY <1>4, <3>1
  <2>3. CASE k # n
    <3>1. k \in 0 .. n - 1 /\ k + 1 \in 1 .. n /\ k + 1 \in 0 .. n + 1 /\ k + 1 <= n
      BY <1>5, <2>3
    <3>2. A[k + 1] = M[k + 1] /\ B[k + 1] = G[k + 1] /\ ds[k + 1] = cs[k + 1]
      BY <1>5, <3>1
    <3> HIDE DEF A, B
    <3> QED BY <1>2, <2>1, <3>1, <3>2
  <2> QED BY <2>2, <2>3
<1> HIDE DEF A, B
<1>8. Ruled(ds, A, B)
  <2>1. 0 .. Len(ds) = 0 .. n + 1 /\ 0 .. Len(ds) - 1 = 0 .. n
    BY <1>5
  <2> QED BY <1>6, <1>7, <2>1 DEF Ruled
<1>9. Rated(ds, m2, g2)
  BY <1>5, <1>6, <1>8 DEF Rated
<1> QED BY <1>3, <1>9 DEF ds, y

(* No end code yet.                                                           *)
Unended(cs) == \A k \in 1 .. Len(cs) : cs[k].code # EOFCode

LEMMA UnendedMore ==
  ASSUME NEW cs \in Seq(Coded), Unended(cs), NEW code \in Nat, NEW width \in Nat, code # EOFCode
  PROVE  Unended(Append(cs, [code |-> code, width |-> width]))
<1> DEFINE y == [code |-> code, width |-> width]
           ds == Append(cs, y)
<1>1. y \in Coded /\ y.code = code
  BY DEF Coded
<1> HIDE DEF y
<1>2. Len(ds) = Len(cs) + 1 /\ ds[Len(cs) + 1] = y /\ (\A k \in 1 .. Len(cs) : ds[k] = cs[k]) /\ Len(cs) \in Nat
  BY <1>1
<1>3. ASSUME NEW k \in 1 .. Len(cs) + 1 PROVE ds[k].code # EOFCode
  <2>1. CASE k = Len(cs) + 1
    BY <1>1, <1>2, <2>1
  <2>2. CASE k # Len(cs) + 1
    <3>1. k \in 1 .. Len(cs)
      BY <1>2, <2>2
    <3> QED BY <1>2, <3>1 DEF Unended
  <2> QED BY <2>1, <2>2
<1>4. Unended(ds)
  BY <1>2, <1>3 DEF Unended
<1> QED BY <1>4 DEF y

(* The stream while it is written, and when it is whole.                      *)
Carrying(e, cs) ==
  /\ Carried(e, cs) /\ Unended(cs)
  /\ \E m \in Nat : e.free_ent = ClearCode + 2 + m /\ Rated(cs, m, e.n_bits)

IsStream(S, o, cs) ==
  /\ Lined(o, S.P, S.N, S.X) /\ Measured(cs, S.W, S.V) /\ Ruled(cs, S.M, S.G)
  /\ S.X[Len(o) + 1] = S.V[Len(cs)] /\ S.W[Len(cs)] <= 8 * S.N[Len(o) + 1]
Finished(cs) ==
  /\ Len(cs) >= 1 /\ cs[Len(cs)].code = EOFCode
  /\ \A k \in 1 .. Len(cs) - 1 : cs[k].code # EOFCode
Streamed ==
  /\ Finished(codes)
  /\ \E o, S : o \in Seq(Bytes) /\ enc.outs = Append(o, 0) /\ IsStream(S, o, codes)

StreamInv ==
  /\ enc.pc = "start" => codes = <<>>
  /\ enc.pc \in {"pixel", "probe", "emit"} => Carrying(enc, codes)
  /\ enc.pc = "done" => Streamed

LEMMA StreamCoded == EncoderInv => codes \in Seq(Coded)
BY DEF EncoderInv, Coded

LEMMA PrologueStreams ==
  ASSUME EncoderInv, StreamInv, Prologue
  PROVE  StreamInv'
<1> DEFINE w == initCodeSize + 1
           e == Opening
           f == Output(e, ClearCode)
           ds == Append(<<>>, [code |-> ClearCode, width |-> e.n_bits])
<1>1. enc.pc = "start" /\ enc' = f /\ codes' = Append(codes, [code |-> ClearCode, width |-> e.n_bits])
  BY DEF Prologue, Written, Opening
<1>2. codes = <<>>
  BY <1>1 DEF StreamInv
<1>3. /\ Ready(e) /\ e.pc = "pixel" /\ e.outs = <<initCodeSize>> /\ e.accum = <<>> /\ e.cur_bits = 0
      /\ e.cur_accum = 0 /\ ~e.clear_flg /\ e.n_bits = w /\ e.free_ent = ClearCode + 2
      /\ ClearCode # EOFCode /\ ClearCode < Pow2[e.n_bits]
  BY <1>1, OpeningReady
<1> HIDE DEF e
<1>4. initCodeSize \in Bytes /\ w \in Nat /\ ClearCode \in Nat /\ ClearCode >= 4 /\ Pow2[w] = 2 * ClearCode
  BY SizeFacts DEF Bytes
<1>5. Carried(e, <<>>)
  <2>1. Holds(e.outs, <<>>, 0, 0)
    <3>1. e.outs \in Seq(Bytes) /\ Len(e.outs) = 1
      BY <1>3, <1>4
    <3> QED BY <3>1, HoldsNone
  <2>2. 8 * 0 + 0 = 0 /\ 0 + Pow2[8 * 0] * 0 = 0
    <3>1. 8 * 0 = 0 /\ Pow2[0] = 1
      BY Pow2Step
    <3> QED BY <3>1
  <2>3. Total(<<>>, 8 * 0 + e.cur_bits, 0 + Pow2[8 * 0] * e.cur_accum)
    BY <1>3, <2>2, TotalNone
  <2> QED BY <1>3, <2>1, <2>3 DEF Carried
<1>6. <<>> \in Seq(Coded)
  OBVIOUS
<1>7. Carried(f, ds) /\ f.n_bits = NextWidth(e)
  BY <1>3, <1>4, <1>5, <1>6, OutputCarries
<1>8. Wrote(f, e)
  BY <1>3, <1>4, OutputKeeps
<1> HIDE DEF f
<1>9. f.n_bits = w /\ f.free_ent = ClearCode + 2 + 0 /\ f.pc = "pixel"
  <2>1. ~Wider(e)
    BY <1>3, <1>4 DEF Wider
  <2>2. f.n_bits = w
    BY <1>3, <1>7, <2>1 DEF NextWidth
  <2>3. f.free_ent = e.free_ent /\ f.pc = e.pc
    BY <1>8 DEF Wrote, SameTable
  <2> QED BY <1>3, <1>4, <2>2, <2>3
<1>10. Rated(ds, 0, w)
  <2>1. After(ClearCode, 0, w, 0, w)
    BY DEF After
  <2> HIDE DEF w
  <2>2. Rated(<<>>, 0, w)
    BY RatedNone DEF w
  <2> QED BY <1>3, <1>4, <1>6, <2>1, <2>2, RatedMore
<1>11. Unended(ds)
  <2>1. Unended(<<>>)
    BY DEF Unended
  <2> QED BY <1>3, <1>4, <1>6, <2>1, UnendedMore
<1>12. Carrying(f, ds)
  BY <1>7, <1>9, <1>10, <1>11 DEF Carrying
<1> QED BY <1>1, <1>2, <1>9, <1>12 DEF StreamInv

(* The search of the table writes nothing. *)
LEMMA SearchStreams ==
  ASSUME NEW e, NEW f, SameCode(f, e), NEW cs, Carrying(e, cs)
  PROVE  Carrying(f, cs)
BY DEF SameCode, Carrying, Carried

LEMMA NextPixelStreams ==
  ASSUME EncoderInv, StreamInv, NextPixel
  PROVE  StreamInv'
<1> DEFINE c == image[enc.curPixel + 1]
           s == Xor(c * Pow2[HSHIFT], enc.ent)
           cur == enc.curPixel + 1
           e == [enc EXCEPT !.curPixel = cur, !.c = c, !.i = s]
           pc == IF e.htab[s] >= 0 THEN "probe" ELSE "emit"
           d == IF s = 0 THEN 1 ELSE HSIZE - s
           f == [e EXCEPT !.pc = pc, !.disp = d]
           x == e.codetab[s]
           h == [e EXCEPT !.pc = "pixel", !.ent = x]
<1>1. enc.pc = "pixel" /\ codes' = codes /\ enc' = IF e.htab[s] = fcode(e) THEN h ELSE f
  BY DEF NextPixel, Match
<1>2. enc \in EncType /\ Carrying(enc, codes)
  BY <1>1 DEF EncoderInv, StreamInv
<1>3. DOMAIN e = DOMAIN enc /\ SameCode(e, enc)
  <2> HIDE DEF c, s, cur
  <2> QED BY <1>2 DEF EncType, SameCode
<1> HIDE DEF e
<1>4. f.pc = pc /\ SameCode(f, e)
  <2> HIDE DEF pc, d
  <2> QED BY <1>2, <1>3 DEF EncType, SameCode
<1>5. h.pc = "pixel" /\ SameCode(h, e)
  <2> HIDE DEF x
  <2> QED BY <1>2, <1>3 DEF EncType, SameCode
<1>6. pc \in {"probe", "emit"}
  OBVIOUS
<1> HIDE DEF f, h, pc
<1>7. Carrying(f, codes) /\ Carrying(h, codes)
  BY <1>2, <1>3, <1>4, <1>5, SearchStreams
<1> QED BY <1>1, <1>4, <1>5, <1>6, <1>7 DEF StreamInv

LEMMA ProbeStreams ==
  ASSUME EncoderInv, StreamInv, Probe
  PROVE  StreamInv'
<1> DEFINE back == enc.i - enc.disp
           s == IF back < 0 THEN back + HSIZE ELSE back
           e == [enc EXCEPT !.i = s]
           pc == IF e.htab[s] >= 0 THEN "probe" ELSE "emit"
           f == [e EXCEPT !.pc = pc]
           x == e.codetab[s]
           h == [e EXCEPT !.pc = "pixel", !.ent = x]
<1>1. enc.pc = "probe" /\ codes' = codes /\ enc' = IF e.htab[s] = fcode(e) THEN h ELSE f
  BY DEF Probe, Match
<1>2. enc \in EncType /\ Carrying(enc, codes)
  BY <1>1 DEF EncoderInv, StreamInv
<1>3. DOMAIN e = DOMAIN enc /\ SameCode(e, enc)
  <2> HIDE DEF s
  <2> QED BY <1>2 DEF EncType, SameCode
<1> HIDE DEF e
<1>4. f.pc = pc /\ SameCode(f, e)
  <2> HIDE DEF pc
  <2> QED BY <1>2, <1>3 DEF EncType, SameCode
<1>5. h.pc = "pixel" /\ SameCode(h, e)
  <2> HIDE DEF x
  <2> QED BY <1>2, <1>3 DEF EncType, SameCode
<1>6. pc \in {"probe", "emit"}
  OBVIOUS
<1> HIDE DEF f, h, pc
<1>7. Carrying(f, codes) /\ Carrying(h, codes)
  BY <1>2, <1>3, <1>4, <1>5, SearchStreams
<1> QED BY <1>1, <1>4, <1>5, <1>6, <1>7 DEF StreamInv

(* A code of the loop: the rule of the widths is what Widen does.             *)
LEMMA OutputStreams ==
  ASSUME NEW e \in EncType, Running(e), NEW cs \in Seq(Coded), Carrying(e, cs)
  PROVE  LET f == Output(e, e.ent)
             ds == Append(cs, [code |-> e.ent, width |-> e.n_bits])
         IN  /\ ds \in Seq(Coded) /\ Carried(f, ds) /\ Unended(ds)
             /\ \E m \in Nat : e.free_ent = ClearCode + 2 + m /\ Rated(ds, m + 1, f.n_bits)
<1> DEFINE f == Output(e, e.ent)
           ds == Append(cs, [code |-> e.ent, width |-> e.n_bits])
<1>1. e.ent \in Nat /\ e.ent # EOFCode /\ e.ent < Pow2[e.n_bits] /\ e.n_bits \in Nat /\ e.free_ent \in Nat
  BY EntFits, EncFields
<1>2. Carried(f, ds) /\ f.n_bits = NextWidth(e)
  BY <1>1, OutputCarries DEF Running, Carrying
<1>3. Unended(ds)
  BY <1>1, UnendedMore DEF Carrying
<1>4. ds \in Seq(Coded)
  BY <1>1 DEF Coded
<1>5. PICK m \in Nat : e.free_ent = ClearCode + 2 + m /\ Rated(cs, m, e.n_bits)
  BY DEF Carrying
<1>6. After(e.ent, m, e.n_bits, m + 1, NextWidth(e))
  <2>1. e.ent # ClearCode /\ ~e.clear_flg
    BY DEF Running, Known
  <2>2. ClearCode + 2 + m <= Pow2[e.n_bits]
    BY <1>5 DEF Running, Ready, Filled
  <2>3. NextWidth(e) = IF ClearCode + 2 + m >= Pow2[e.n_bits] /\ e.n_bits < BITS THEN e.n_bits + 1 ELSE e.n_bits
    BY <1>5, <2>1 DEF NextWidth, Wider
  <2> QED BY <2>1, <2>2, <2>3 DEF After
<1>7. NextWidth(e) \in Nat /\ m + 1 \in Nat
  <2>1. NextWidth(e) \in {initCodeSize + 1, e.n_bits, e.n_bits + 1}
    BY DEF NextWidth
  <2> QED BY <1>1, <2>1, SizeFacts
<1>8. Rated(ds, m + 1, f.n_bits)
  <2> HIDE DEF f
  <2> QED BY <1>1, <1>2, <1>5, <1>6, <1>7, RatedMore
<1> QED BY <1>2, <1>3, <1>4, <1>5, <1>8

LEMMA EmitStreams ==
  ASSUME EncoderInv, StreamInv, Emit
  PROVE  StreamInv'
<1> DEFINE o == Output(enc, enc.ent)
           e == [o EXCEPT !.pc = "pixel", !.ent = enc.c]
           n == e.free_ent + 1
           cleared == ClearBlock(e)
           tab == [e.codetab EXCEPT ![enc.i] = e.free_ent]
           hash == [e.htab EXCEPT ![enc.i] = fcode(enc)]
           added == [e EXCEPT !.codetab = tab, !.free_ent = n, !.htab = hash]
           once == Append(codes, [code |-> enc.ent, width |-> enc.n_bits])
           twice == Append(once, [code |-> ClearCode, width |-> cleared.n_bits])
<1>1. enc.pc = "emit" /\ \/ e.free_ent < maxmaxcode /\ enc' = added /\ codes' = once
                         \/ e.free_ent >= maxmaxcode /\ enc' = Output(cleared, ClearCode) /\ codes' = twice
  <2>1. [e EXCEPT !.codetab[enc.i] = e.free_ent, !.free_ent = @ + 1, !.htab[enc.i] = fcode(enc)] = added
    OBVIOUS
  <2> QED BY <2>1 DEF Emit, Written
<1>2. enc \in EncType /\ Running(enc) /\ Carrying(enc, codes) /\ codes \in Seq(Coded)
  BY <1>1, StreamCoded DEF EncoderInv, StreamInv
<1>3. enc.ent \in Nat /\ enc.ent # EOFCode /\ enc.ent < Pow2[enc.n_bits]
  BY <1>2, EntFits
<1>4. Wrote(o, enc)
  BY <1>2, <1>3, OutputKeeps DEF Running
<1>5. once \in Seq(Coded) /\ Carried(o, once) /\ Unended(once)
  BY <1>2, OutputStreams
<1>6. PICK m \in Nat : enc.free_ent = ClearCode + 2 + m /\ Rated(once, m + 1, o.n_bits)
  BY <1>2, OutputStreams
<1> HIDE DEF o, once
<1>7. o \in EncType /\ o.free_ent = enc.free_ent /\ Running(o) /\ o.c = enc.c
  <2>1. Running(o)
    BY <1>2, <1>4, WroteRuns DEF Running
  <2> QED BY <1>4, <2>1 DEF Wrote, SameTable, Packed
<1>8. enc.c \in Pixel /\ enc.c \in Nat
  <2>1. enc.c \in Pixel
    BY <1>2 DEF Running
  <2> QED BY <1>2, <2>1, EncFields
<1>9. e \in EncType /\ e.pc = "pixel" /\ SameCode(e, o) /\ e.ent = enc.c /\ e.c = o.c
  BY <1>7, <1>8 DEF EncType, SameCode
<1> HIDE DEF e
<1>10. Carried(e, once) /\ e.free_ent = ClearCode + 2 + m /\ e.n_bits = o.n_bits
  BY <1>5, <1>6, <1>7, <1>9 DEF Carried, SameCode
<1>11. CASE e.free_ent < maxmaxcode /\ enc' = added /\ codes' = once
  <2>1. /\ added.outs = e.outs /\ added.accum = e.accum /\ added.cur_bits = e.cur_bits
        /\ added.cur_accum = e.cur_accum /\ added.n_bits = e.n_bits /\ added.free_ent = n /\ added.pc = "pixel"
    <3> HIDE DEF tab, hash, n
    <3> QED BY <1>9 DEF EncType
  <2> HIDE DEF added
  <2>2. Carried(added, once)
    BY <1>10, <2>1 DEF Carried
  <2>3. m + 1 \in Nat /\ added.free_ent = ClearCode + 2 + (m + 1)
    <3>1. ClearCode \in Nat
      BY SizeFacts
    <3> QED BY <1>10, <2>1, <3>1
  <2>4. Carrying(added, once)
    BY <1>5, <1>6, <1>10, <2>1, <2>2, <2>3 DEF Carrying
  <2> QED BY <1>11, <2>1, <2>4 DEF StreamInv
<1>12. CASE e.free_ent >= maxmaxcode /\ enc' = Output(cleared, ClearCode) /\ codes' = twice
  <2>1. Running(e)
    <3>1. Known(e.ent, o)
      BY <1>7, <1>8, <1>9, PixelKnown DEF Running, Ready
    <3> QED BY <1>7, <1>8, <1>9, <3>1, SearchRuns
  <2>2. cleared \in EncType /\ Ready(cleared) /\ cleared.pc = "pixel" /\ cleared.n_bits = e.n_bits
    <3>1. e.ent \in Pixel
      BY <1>8, <1>9
    <3> QED BY <1>9, <2>1, <3>1, ClearedReady
  <2>3. cleared.clear_flg = TRUE /\ cleared.free_ent = ClearCode + 2 /\ SameBits(cleared, e)
        /\ cleared.outs = e.outs /\ cleared.accum = e.accum
    <3> DEFINE k == ClearCode + 2
               g == [e EXCEPT !.htab = EmptyTable, !.free_ent = k, !.clear_flg = TRUE]
    <3>1. cleared = g
      BY DEF ClearBlock
    <3> HIDE DEF k
    <3>2. g.clear_flg = TRUE /\ g.free_ent = k /\ SameBits(g, e) /\ g.outs = e.outs /\ g.accum = e.accum
      BY <1>9 DEF EncType, SameBits
    <3> QED BY <3>1, <3>2 DEF k
  <2> HIDE DEF cleared
  <2>4. cleared.n_bits \in Nat /\ ClearCode \in Nat /\ ClearCode # EOFCode
    BY <2>2, EncFields, SizeFacts DEF EOFCode
  <2>5. ClearCode < Pow2[cleared.n_bits]
    BY <2>2, <2>4, WidthPowers DEF Ready
  <2>6. Carried(cleared, once)
    BY <1>10, <2>3 DEF Carried, SameBits
  <2> DEFINE f == Output(cleared, ClearCode)
  <2>7. Wrote(f, cleared)
    BY <2>2, <2>4, <2>5, OutputKeeps
  <2>8. Carried(f, twice) /\ f.n_bits = NextWidth(cleared)
    BY <1>5, <2>2, <2>4, <2>5, <2>6, OutputCarries
  <2>9. Unended(twice)
    BY <1>5, <2>4, UnendedMore
  <2>10. initCodeSize + 1 \in Nat /\ After(ClearCode, m + 1, o.n_bits, 0, initCodeSize + 1)
    BY SizeFacts DEF After
  <2>11. Rated(twice, 0, initCodeSize + 1)
    <3> DEFINE w == initCodeSize + 1
    <3>1. w \in Nat /\ After(ClearCode, m + 1, o.n_bits, 0, w)
      BY <2>10
    <3> HIDE DEF w
    <3>2. Rated(twice, 0, w)
      BY <1>5, <1>6, <1>10, <2>2, <2>4, <3>1, RatedMore
    <3> QED BY <3>2 DEF w
  <2> HIDE DEF f, twice
  <2>12. f.n_bits = initCodeSize + 1 /\ f.free_ent = ClearCode + 2 + 0 /\ f.pc = "pixel"
    BY <2>2, <2>3, <2>4, <2>7, <2>8 DEF NextWidth, Wrote, SameTable
  <2>13. Carrying(f, twice)
    BY <2>8, <2>9, <2>11, <2>12 DEF Carrying
  <2>14. enc' = f /\ codes' = twice
    BY <1>12 DEF f
  <2> QED BY <2>12, <2>13, <2>14 DEF StreamInv
<1> QED BY <1>1, <1>11, <1>12

LEMMA EpilogueStreams ==
  ASSUME EncoderInv, StreamInv, Epilogue
  PROVE  StreamInv'
<1> DEFINE e == Output(enc, enc.ent)
           f == Output(e, EOFCode)
           o == f.outs
           g == [f EXCEPT !.pc = "done", !.outs = Append(@, 0)]
           once == Append(codes, [code |-> enc.ent, width |-> enc.n_bits])
           twice == Append(once, [code |-> EOFCode, width |-> e.n_bits])
<1>1. enc.pc = "pixel" /\ enc' = g /\ codes' = twice
  BY DEF Epilogue, Written
<1>2. enc \in EncType /\ Running(enc) /\ Carrying(enc, codes) /\ codes \in Seq(Coded)
  BY <1>1, StreamCoded DEF EncoderInv, StreamInv
<1>3. enc.ent \in Nat /\ enc.ent # EOFCode /\ enc.ent < Pow2[enc.n_bits]
  BY <1>2, EntFits
<1>4. Wrote(e, enc)
  BY <1>2, <1>3, OutputKeeps DEF Running
<1>5. once \in Seq(Coded) /\ Carried(e, once) /\ Unended(once)
  BY <1>2, OutputStreams
<1>6. PICK m \in Nat : Rated(once, m + 1, e.n_bits)
  BY <1>2, OutputStreams
<1> HIDE DEF e, once
<1>7. Ready(e) /\ e \in EncType /\ e.n_bits \in Nat
  <2>1. Ready(e) /\ e \in EncType
    BY <1>4 DEF Wrote, Ready, Filled, Packed
  <2> QED BY <2>1, EncFields
<1>8. EOFCode < Pow2[e.n_bits] /\ EOFCode \in Nat
  BY <1>7, WidthPowers DEF Ready
<1>9. Delivered(o, twice)
  BY <1>5, <1>7, <1>8, OutputDelivers
<1>10. Ended(f, e)
  BY <1>7, <1>8, OutputEnds
<1>11. o \in Seq(Bytes) /\ f \in EncType
  <2>1. f \in EncType
    BY <1>10 DEF Ended
  <2> QED BY <2>1, EncFields
<1>12. g.pc = "done" /\ g.outs = Append(o, 0)
  <2> HIDE DEF f
  <2> QED BY <1>11 DEF EncType
<1>13. \E a, b \in Nat : Rated(twice, a, b)
  <2>1. EOFCode # ClearCode /\ (m + 1) + 1 \in Nat
    BY SizeFacts DEF EOFCode
  <2> DEFINE b == IF ClearCode + 2 + (m + 1) >= Pow2[e.n_bits] /\ e.n_bits < BITS THEN e.n_bits + 1 ELSE e.n_bits
  <2>2. b \in Nat
    BY <1>7
  <2>3. After(EOFCode, m + 1, e.n_bits, (m + 1) + 1, b)
    BY <2>1 DEF After
  <2> HIDE DEF b
  <2>4. Rated(twice, (m + 1) + 1, b)
    BY <1>5, <1>6, <1>8, <2>1, <2>2, <2>3, RatedMore
  <2> QED BY <2>1, <2>2, <2>4
<1>14. Finished(twice)
  <2> DEFINE y == [code |-> EOFCode, width |-> e.n_bits]
  <2>1. y \in Coded /\ y.code = EOFCode
    BY <1>7, <1>8 DEF Coded
  <2> HIDE DEF y
  <2>2. /\ Len(twice) = Len(once) + 1 /\ twice[Len(once) + 1].code = EOFCode
        /\ \A k \in 1 .. Len(once) : twice[k] = once[k]
    <3>1. twice = Append(once, y)
      BY DEF y
    <3> HIDE DEF twice
    <3> QED BY <1>5, <2>1, <3>1
  <2> HIDE DEF twice
  <2> QED BY <1>5, <2>2 DEF Unended, Finished
<1> HIDE DEF g, f, twice, o
<1>15. PICK b, x, w : Holds(o, <<>>, b, x) /\ Total(twice, w, x) /\ w <= 8 * b
  BY <1>9 DEF Delivered
<1>16. PICK P, N, X, A :
         /\ Lined(o, P, N, X) /\ Heaped(<<>>, A, N[Len(o) + 1], X[Len(o) + 1])
         /\ b = N[Len(o) + 1] + Len(<<>>) /\ x = A[Len(<<>>)]
  BY <1>15 DEF Holds
<1>17. b = N[Len(o) + 1] /\ x = X[Len(o) + 1]
  <2>1. Len(<<>>) = 0 /\ Len(o) + 1 \in 2 .. Len(o) + 1
    BY <1>16 DEF Lined
  <2>2. N[Len(o) + 1] \in Nat /\ A[0] = X[Len(o) + 1]
    BY <1>16, <2>1 DEF Lined, Heaped
  <2> QED BY <1>16, <2>1, <2>2
<1>18. PICK W, V : Measured(twice, W, V) /\ w = W[Len(twice)] /\ x = V[Len(twice)]
  BY <1>15 DEF Total
<1>19. PICK M, G : Ruled(twice, M, G)
  BY <1>13 DEF Rated
<1> DEFINE S == [P |-> P, N |-> N, X |-> X, W |-> W, V |-> V, M |-> M, G |-> G]
<1>20. S.P = P /\ S.N = N /\ S.X = X /\ S.W = W /\ S.V = V /\ S.M = M /\ S.G = G
  OBVIOUS
<1> HIDE DEF S
<1>21. IsStream(S, o, twice)
  BY <1>15, <1>16, <1>17, <1>18, <1>19, <1>20 DEF IsStream
<1>22. Streamed'
  BY <1>1, <1>11, <1>12, <1>14, <1>21 DEF Streamed
<1> QED BY <1>1, <1>12, <1>22 DEF StreamInv

-----------------------------------------------------------------------------
(* The decoder reads what was written.                                        *)

(* The bytes the decoder meets are the sub-blocks o behind the code size.     *)
Reads(bytes, o) == \A p \in 2 .. Len(o) : p - 1 <= Len(bytes) /\ bytes[p - 1] = o[p]

LEMMA ReadsTail ==
  ASSUME NEW o \in Seq(Bytes), NEW bytes, bytes = Tail(Append(o, 0))
  PROVE  Reads(bytes, o)
<1> DEFINE a == Append(o, 0)
<1>1. /\ a \in Seq(Bytes) /\ Len(a) = Len(o) + 1 /\ Len(o) \in Nat /\ a # <<>>
      /\ \A p \in 1 .. Len(o) : a[p] = o[p]
  BY DEF Bytes
<1> HIDE DEF a
<1>2. Len(Tail(a)) = Len(o) /\ \A k \in 1 .. Len(o) : Tail(a)[k] = a[k + 1]
  BY <1>1
<1>3. ASSUME NEW p \in 2 .. Len(o) PROVE p - 1 <= Len(bytes) /\ bytes[p - 1] = o[p]
  <2>1. p - 1 \in 1 .. Len(o) /\ (p - 1) + 1 = p /\ p \in 1 .. Len(o)
    BY <1>1
  <2>2. bytes[p - 1] = a[p] /\ p - 1 <= Len(bytes)
    BY <1>1, <1>2, <2>1 DEF a
  <2> QED BY <1>1, <2>1, <2>2
<1> QED BY <1>3 DEF Reads

(* Where the decoder stands: bs bytes before the next length byte, and the    *)
(* bits it holds are those of the bytes before it that no code has taken.     *)
Stands(S, o, d, w, v) ==
  LET p == d.pos + 1 IN
  /\ p \in 2 .. Len(o) + 1 /\ d.bs \in 0 .. PACKET
  /\ p + d.bs \in S.P /\ \A q \in p .. p + d.bs - 1 : q \notin S.P
  /\ 8 * S.N[p] = w + d.bbits /\ S.X[p] = v + Pow2[w] * d.bbuf

LEMMA ByteComes ==
  ASSUME gb \in Seq(Bytes), NEW o \in Seq(Bytes), Reads(gb, o), NEW S, Lined(o, S.P, S.N, S.X),
         NEW d, IsDec(d), NEW w \in Nat, NEW v \in Nat, Stands(S, o, d, w, v),
         w + d.bbits < 8 * S.N[Len(o) + 1]
  PROVE  Stands(S, o, D!GetByte(d), w, v)
<1> DEFINE L == Len(o)
           P == S.P
           N == S.N
           X == S.X
           p == d.pos + 1
           q == IF d.bs = 0 THEN p + 1 ELSE p
           f == D!GetByte(d)
<1>1. /\ P \in SUBSET (2 .. L + 1) /\ 2 \in P /\ L + 1 \in P /\ L \in Nat
      /\ \A k \in P : k <= L => /\ o[k] \in 1 .. PACKET /\ k + o[k] + 1 \in P
                               /\ \A j \in k + 1 .. k + o[k] : j \notin P
      /\ N \in [2 .. L + 1 -> Nat] /\ X \in [2 .. L + 1 -> Nat] /\ N[2] = 0 /\ X[2] = 0
      /\ \A k \in 2 .. L : IF k \in P THEN N[k + 1] = N[k] /\ X[k + 1] = X[k]
                           ELSE N[k + 1] = N[k] + 1 /\ X[k + 1] = X[k] + o[k] * Pow2[8 * N[k]]
  <2>1. L \in Nat
    OBVIOUS
  <2> QED BY <2>1 DEF Lined
<1>2. /\ p \in 2 .. L + 1 /\ d.bs \in 0 .. PACKET /\ p + d.bs \in P /\ \A k \in p .. p + d.bs - 1 : k \notin P
      /\ 8 * N[p] = w + d.bbits /\ X[p] = v + Pow2[w] * d.bbuf
  BY DEF Stands
<1>3. d.pos \in Nat \ {0} /\ d.bbuf \in Nat /\ d.bbits \in Nat /\ PACKET \in Nat
  <2>1. PACKET \in 1 .. 255
    BY SizeFacts
  <2>2. PACKET \in Nat
    BY <2>1
  <2> QED BY <2>2 DEF IsDec
<1>4. N[p] \in Nat /\ X[p] \in Nat /\ N[L + 1] \in Nat /\ p \in Nat /\ p # L + 1 /\ p \in 2 .. L
  <2>1. L + 1 \in 2 .. L + 1
    BY <1>1
  <2>2. N[p] \in Nat /\ X[p] \in Nat /\ N[L + 1] \in Nat
    BY <1>1, <1>2, <2>1
  <2>3. N[p] # N[L + 1]
    <3> DEFINE y == N[p]
               z == N[L + 1]
               b == d.bbits
    <3>1. y \in Nat /\ z \in Nat /\ b \in Nat /\ 8 * y = w + b /\ w + b < 8 * z
      BY <1>2, <1>3, <2>2
    <3> HIDE DEF y, z, b
    <3>2. y # z
      BY <3>1
    <3> QED BY <3>2 DEF y, z
  <2>4. p # L + 1
    BY <2>3
  <2>5. p \in 2 .. L + 1
    BY <1>2
  <2> HIDE DEF p, L
  <2>6. p \in Nat /\ p \in 2 .. L
    BY <1>1, <2>4, <2>5
  <2> QED BY <2>2, <2>4, <2>6
<1>5. /\ f.bbits = d.bbits + 8 /\ f.pos + 1 = q + 1
      /\ f.bs = (IF d.bs = 0 THEN D!Byte(p - 1) ELSE d.bs) - 1
      /\ f.bbuf = d.bbuf + D!Byte(q - 1) * Pow2[d.bbits]
  <2> DEFINE y == IF d.bs = 0 THEN d.pos + 1 ELSE d.pos
  <2>1. /\ f.bbits = d.bbits + 8 /\ f.pos = y + 1
        /\ f.bs = (IF d.bs = 0 THEN D!Byte(d.pos) ELSE d.bs) - 1
        /\ f.bbuf = d.bbuf + D!Byte(y) * Pow2[d.bbits]
    BY GetByteAdds
  <2>2. p - 1 = d.pos /\ q - 1 = y /\ y + 1 = q
    BY <1>3
  <2> HIDE DEF f, y, p, q
  <2> QED BY <2>1, <2>2
<1>6. D!Byte(p - 1) = o[p]
  BY <1>4 DEF Reads, D!Byte
<1> HIDE DEF f, N, X, P
<1>7. /\ q \in 2 .. L /\ q \notin P /\ N[q] = N[p] /\ X[q] = X[p]
      /\ f.bs \in 0 .. PACKET /\ (q + 1) + f.bs \in P /\ \A k \in q + 1 .. (q + 1) + f.bs - 1 : k \notin P
  <2>1. CASE d.bs = 0
    <3>1. p \in P /\ q = p + 1
      BY <1>2, <1>4, <2>1
    <3> DEFINE l == o[p]
    <3>2. l \in 1 .. PACKET /\ p + l + 1 \in P /\ \A j \in p + 1 .. p + l : j \notin P
      <4> HIDE DEF p, L
      <4>1. p <= L
        BY <1>4
      <4> QED BY <1>1, <3>1, <4>1
    <3>3. f.bs = l - 1
      BY <1>5, <1>6, <2>1
    <3>4. N[p + 1] = N[p] /\ X[p + 1] = X[p]
      BY <1>1, <1>4, <3>1
    <3> HIDE DEF l, p, q, L
    <3>5. p + l + 1 \in 2 .. L + 1
      BY <1>1, <3>2
    <3>6. q \in 2 .. L /\ q \in p + 1 .. p + l
      BY <1>1, <1>3, <1>4, <3>1, <3>2, <3>5
    <3>7. f.bs \in 0 .. PACKET /\ (q + 1) + f.bs = p + l + 1
      BY <1>3, <1>4, <3>1, <3>2, <3>3
    <3>8. \A k \in q + 1 .. (q + 1) + f.bs - 1 : k \in p + 1 .. p + l
      BY <1>3, <1>4, <3>1, <3>2, <3>3
    <3> QED BY <3>1, <3>2, <3>4, <3>6, <3>7, <3>8
  <2>2. CASE d.bs # 0
    <3>1. q = p /\ d.bs \in 1 .. PACKET /\ f.bs = d.bs - 1
      <4>1. d.bs \in 0 .. PACKET
        BY <1>2
      <4>2. d.bs \in 1 .. PACKET
        BY <1>3, <2>2, <4>1
      <4> QED BY <1>5, <2>2, <4>2
    <3> HIDE DEF p, q, L
    <3>2. p \notin P
      BY <1>2, <1>4, <3>1
    <3>3. f.bs \in 0 .. PACKET /\ (q + 1) + f.bs = p + d.bs
      <4> DEFINE s == d.bs
      <4>1. s \in 1 .. PACKET /\ f.bs = s - 1
        BY <3>1
      <4> HIDE DEF s
      <4>2. s - 1 \in 0 .. PACKET /\ (p + 1) + (s - 1) = p + s
        BY <1>3, <1>4, <4>1
      <4> QED BY <3>1, <4>1, <4>2 DEF s
    <3>4. \A k \in q + 1 .. (q + 1) + f.bs - 1 : k \in p .. p + d.bs - 1
      BY <1>3, <1>4, <3>1
    <3> QED BY <1>2, <1>4, <3>1, <3>2, <3>3, <3>4
  <2> QED BY <2>1, <2>2
<1> HIDE DEF p
<1>8. q \in Nat /\ q + 1 \in 2 .. L + 1 /\ D!Byte(q - 1) = o[q] /\ o[q] \in Nat
  <2> HIDE DEF q
  <2>1. q \in Nat /\ q + 1 \in 2 .. L + 1 /\ q \in 1 .. L
    BY <1>1, <1>7
  <2>2. o[q] \in Bytes
    BY <2>1
  <2>3. o[q] \in Nat
    <3> DEFINE c == o[q]
    <3>1. c \in 0 .. 255
      BY <2>2 DEF Bytes
    <3> HIDE DEF c
    <3>2. c \in Nat
      BY <3>1
    <3> QED BY <3>2 DEF c
  <2> QED BY <1>7, <2>1, <2>3 DEF Reads, D!Byte
<1> HIDE DEF q
<1>9. N[q + 1] = N[p] + 1 /\ X[q + 1] = X[p] + o[q] * Pow2[8 * N[p]]
  BY <1>1, <1>7
<1>10. 8 * N[q + 1] = w + f.bbits
  <2>1. 8 * (N[p] + 1) = w + (d.bbits + 8)
    <3> DEFINE y == N[p]
               z == d.bbits
    <3>1. y \in Nat /\ z \in Nat /\ 8 * y = w + z
      BY <1>2, <1>3, <1>4
    <3> HIDE DEF y, z
    <3>2. 8 * (y + 1) = w + (z + 8)
      BY <3>1
    <3> QED BY <3>2 DEF y, z
  <2> QED BY <1>5, <1>9, <2>1
<1>11. X[q + 1] = v + Pow2[w] * f.bbuf
  <2> DEFINE b == d.bbits
             u == d.bbuf
             c == o[q]
  <2>1. b \in Nat /\ u \in Nat /\ c \in Nat
    BY <1>3, <1>8
  <2>2. X[q + 1] = (v + Pow2[w] * u) + c * Pow2[w + b] /\ f.bbuf = u + c * Pow2[b]
    BY <1>2, <1>5, <1>8, <1>9
  <2> HIDE DEF b, u, c
  <2>3. Spread(v, w, b, u, c)
    BY <2>1, OverBits
  <2> QED BY <2>2, <2>3 DEF Spread
<1>12. Stands(S, o, f, w, v)
  BY <1>5, <1>7, <1>8, <1>10, <1>11 DEF Stands, P, N, X
<1> QED BY <1>12 DEF f

(* What comes later stands above what came before. *)
LEMMA ByteGrows ==
  ASSUME NEW o \in Seq(Bytes), NEW P, NEW N, NEW X, Lined(o, P, N, X), NEW p \in 2 .. Len(o) + 1
  PROVE  \E c \in Nat : X[Len(o) + 1] = X[p] + Pow2[8 * N[p]] * c
<1> DEFINE L == Len(o)
           w == [k \in 2 .. L + 1 |-> 8 * N[k]]
<1>1. L \in Nat
  OBVIOUS
<1>2. /\ N \in [2 .. L + 1 -> Nat] /\ X \in [2 .. L + 1 -> Nat]
      /\ \A k \in 2 .. L : IF k \in P THEN N[k + 1] = N[k] /\ X[k + 1] = X[k]
                           ELSE N[k + 1] = N[k] + 1 /\ X[k + 1] = X[k] + o[k] * Pow2[8 * N[k]]
  BY DEF Lined
<1>3. \A k \in 2 .. L : o[k] \in Nat
  <2> SUFFICES ASSUME NEW k \in 2 .. L PROVE o[k] \in Nat
    OBVIOUS
  <2> DEFINE c == o[k]
  <2>1. c \in 0 .. 255
    <3>1. k \in 1 .. Len(o)
      BY <1>1
    <3>2. o[k] \in Bytes
      BY <3>1
    <3> QED BY <3>2 DEF Bytes
  <2> HIDE DEF c
  <2>2. c \in Nat
    BY <2>1
  <2> QED BY <2>2 DEF c
<1>4. p \in 2 .. L + 1 /\ L + 1 \in 2 .. L + 1 /\ p <= L + 1 /\ L + 1 \in Nat
  BY <1>1
<1> HIDE DEF L
<1>5. w \in [2 .. L + 1 -> Nat]
  <2>1. ASSUME NEW k \in 2 .. L + 1 PROVE 8 * N[k] \in Nat
    <3>1. N[k] \in Nat
      BY <1>2
    <3> QED BY <3>1
  <2> QED BY <2>1
<1>6. Grows(2, L + 1, w, X)
  <2> SUFFICES ASSUME NEW k \in 2 .. (L + 1) - 1
               PROVE  w[k] <= w[k + 1] /\ \E c \in Nat : X[k + 1] = X[k] + Pow2[w[k]] * c
    BY DEF Grows
  <2>1. k \in 2 .. L /\ k \in 2 .. L + 1 /\ k + 1 \in 2 .. L + 1
    BY <1>1
  <2>2. N[k] \in Nat /\ N[k + 1] \in Nat /\ X[k] \in Nat /\ w[k] = 8 * N[k] /\ w[k + 1] = 8 * N[k + 1]
    BY <1>2, <2>1
  <2>3. 8 * N[k] \in Nat
    BY <2>2
  <2>4. Pow2[8 * N[k]] \in Nat
    BY <2>3, Pow2Type
  <2> DEFINE s == Pow2[8 * N[k]]
             y == X[k]
  <2> HIDE DEF w
  <2>5. CASE k \in P
    <3>1. N[k + 1] = N[k] /\ X[k + 1] = X[k]
      BY <1>2, <2>1, <2>5
    <3>2. y + s * 0 = y
      <4>1. y \in Nat /\ s \in Nat
        BY <2>2, <2>4
      <4> HIDE DEF y, s
      <4> QED BY <4>1
    <3> QED BY <2>2, <3>1, <3>2
  <2>6. CASE k \notin P
    <3>1. N[k + 1] = N[k] + 1 /\ X[k + 1] = y + o[k] * s
      BY <1>2, <2>1, <2>6
    <3>2. o[k] * s = s * o[k] /\ o[k] \in Nat
      <4>1. o[k] \in Nat /\ s \in Nat
        BY <1>3, <2>1, <2>4
      <4> HIDE DEF s
      <4> QED BY <4>1, Factors
    <3>3. 8 * N[k] <= 8 * N[k + 1]
      <4> DEFINE z == N[k]
      <4>1. z \in Nat /\ N[k + 1] = z + 1
        BY <2>2, <3>1
      <4> HIDE DEF z
      <4>2. 8 * z <= 8 * (z + 1)
        BY <4>1
      <4> QED BY <4>1, <4>2 DEF z
    <3> QED BY <2>2, <3>1, <3>2, <3>3
  <2> QED BY <2>5, <2>6
<1>7. \E c \in Nat : X[L + 1] = X[p] + Pow2[w[p]] * c
  <2> DEFINE h == L + 1
  <2>1. 2 \in Nat /\ h \in Nat /\ w \in [2 .. h -> Nat] /\ X \in [2 .. h -> Nat] /\ Grows(2, h, w, X)
        /\ p \in 2 .. h /\ h \in 2 .. h /\ p <= h
    BY <1>2, <1>4, <1>5, <1>6
  <2> HIDE DEF w, h
  <2>2. w[p] <= w[h] /\ \E c \in Nat : X[h] = X[p] + Pow2[w[p]] * c
    BY <2>1, Grown
  <2> QED BY <2>2 DEF h
<1>8. w[p] = 8 * N[p]
  BY <1>4
<1> QED BY <1>7, <1>8 DEF L

LEMMA CodeGrows ==
  ASSUME NEW cs \in Seq(Coded), NEW W, NEW V, Measured(cs, W, V), NEW i \in 0 .. Len(cs)
  PROVE  W[i] <= W[Len(cs)] /\ \E c \in Nat : V[Len(cs)] = V[i] + Pow2[W[i]] * c
<1> DEFINE n == Len(cs)
<1>1. n \in Nat /\ 0 \in Nat /\ i \in 0 .. n /\ n \in 0 .. n /\ i <= n
  OBVIOUS
<1>2. /\ W \in [0 .. n -> Nat] /\ V \in [0 .. n -> Nat]
      /\ \A k \in 0 .. n - 1 : W[k + 1] = W[k] + cs[k + 1].width /\ V[k + 1] = V[k] + cs[k + 1].code * Pow2[W[k]]
  BY DEF Measured
<1>3. \A k \in 0 .. n - 1 : cs[k + 1] \in Coded
  <2> SUFFICES ASSUME NEW k \in 0 .. n - 1 PROVE cs[k + 1] \in Coded
    OBVIOUS
  <2>1. k + 1 \in 1 .. n
    BY <1>1
  <2> QED BY <2>1
<1> HIDE DEF n
<1>4. Grows(0, n, W, V)
  <2> SUFFICES ASSUME NEW k \in 0 .. n - 1
               PROVE  W[k] <= W[k + 1] /\ \E c \in Nat : V[k + 1] = V[k] + Pow2[W[k]] * c
    BY DEF Grows
  <2>1. k \in 0 .. n
    BY <1>1
  <2>2. W[k] \in Nat /\ V[k] \in Nat
    BY <1>2, <2>1
  <2> DEFINE a == cs[k + 1].code
             b == cs[k + 1].width
             s == Pow2[W[k]]
  <2>3. a \in Nat /\ b \in Nat
    BY <1>3 DEF Coded
  <2>4. s \in Nat
    BY <2>2, Pow2Type
  <2>5. W[k + 1] = W[k] + b /\ V[k + 1] = V[k] + a * s
    BY <1>2
  <2> HIDE DEF a, b, s
  <2>6. a * s = s * a
    BY <2>3, <2>4, Factors
  <2>7. W[k] <= W[k + 1]
    BY <2>2, <2>3, <2>5
  <2> QED BY <2>3, <2>5, <2>6, <2>7 DEF s
<1> QED BY <1>1, <1>2, <1>4, Grown DEF n

(* The code is the lowest bits of what has been fetched. *)
Lowest(v, w, l, u, code) ==
  u % Pow2[l] = code /\ v + Pow2[w] * u = (v + code * Pow2[w]) + Pow2[w + l] * (u \div Pow2[l])

LEMMA Extracted ==
  ASSUME NEW v \in Nat, NEW w \in Nat, NEW l \in Nat, NEW t \in Nat, NEW u \in Nat, NEW code \in Nat,
         NEW a \in Nat, NEW b \in Nat, code < Pow2[l],
         (v + Pow2[w] * u) + Pow2[(w + l) + t] * a = (v + code * Pow2[w]) + Pow2[w + l] * b
  PROVE  Lowest(v, w, l, u, code)
<1> DEFINE s == Pow2[w]
           d == Pow2[l]
           e == Pow2[t]
           ea == e * a
           q == b - ea
<1>1. s \in Nat \ {0} /\ d \in Nat \ {0} /\ e \in Nat \ {0} /\ w + l \in Nat
      /\ Pow2[w + l] = s * d /\ Pow2[(w + l) + t] = (s * d) * e
  <2>1. w + l \in Nat
    OBVIOUS
  <2> QED BY <2>1, Pow2Type, Pow2Sum
<1>2. (v + s * u) + ((s * d) * e) * a = (v + code * s) + (s * d) * b /\ code < d
  BY <1>1
<1> HIDE DEF s, d, e
<1>3. ea \in Nat /\ s * d \in Nat /\ s * u \in Nat /\ code * s \in Nat
  BY <1>1, ProductNat
<1>4. ((s * d) * e) * a = (s * d) * ea
  BY <1>1, <1>3, Factors
<1> HIDE DEF ea
<1>5. (s * d) * b \in Nat /\ (s * d) * ea \in Nat
  BY <1>1, <1>3, ProductNat
<1>6. (s * d) * b - (s * d) * ea = (s * d) * q /\ q \in Int
  <2> DEFINE x == s * d
  <2>1. x \in Int
    BY <1>3
  <2> HIDE DEF x
  <2>2. x * (b - ea) = x * b - x * ea
    BY <1>3, <2>1, Factors
  <2>3. b - ea \in Int
    BY <1>3
  <2> QED BY <2>2, <2>3 DEF x
<1> HIDE DEF q
<1>7. (s * d) * q = s * (d * q) /\ code * s = s * code /\ d * q \in Int
  BY <1>1, <1>6, Factors
<1>8. s * u = s * (code + d * q)
  <2> DEFINE x == d * q
             y == s * x
             z == s * code
  <2>1. s * (code + x) = z + y /\ y \in Int /\ z \in Int
    <3>1. x \in Int
      BY <1>7
    <3> HIDE DEF x
    <3> QED BY <1>1, <3>1, Factors
  <2>2. s * u = z + y
    <3>1. (v + s * u) + (s * d) * ea = (v + z) + (s * d) * b
      BY <1>2, <1>4, <1>7
    <3>2. (s * d) * b - (s * d) * ea = y
      BY <1>6, <1>7
    <3> DEFINE k == s * u
               m == (s * d) * ea
               n == (s * d) * b
    <3>3. k \in Nat /\ m \in Nat /\ n \in Nat /\ z \in Int /\ y \in Int
          /\ (v + k) + m = (v + z) + n /\ n - m = y
      BY <1>3, <1>5, <2>1, <3>1, <3>2
    <3> HIDE DEF k, m, n, z, y
    <3>4. k = z + y
      BY <3>3
    <3> QED BY <3>4 DEF k
  <2> QED BY <2>1, <2>2
<1>9. u = code + d * q
  <2> DEFINE x == code + d * q
  <2>1. x \in Int /\ s * u = s * x
    BY <1>7, <1>8
  <2> HIDE DEF x
  <2>2. s * (u - x) = 0
    <3>1. s * (u - x) = s * u - s * x /\ s * u \in Int
      BY <1>1, <2>1, Factors
    <3> QED BY <2>1, <3>1
  <2>3. u - x = 0
    <3> DEFINE y == u - x
    <3>1. y \in Int /\ s * y = 0
      BY <2>1, <2>2
    <3> HIDE DEF y
    <3>2. y = 0
      BY <1>1, <3>1
    <3> QED BY <3>2 DEF y
  <2>4. u = x
    BY <2>1, <2>3
  <2> QED BY <2>4 DEF x
<1>10. u \div d = q /\ u % d = code
  <2>1. u = q * d + code
    <3>1. d * q = q * d
      BY <1>1, <1>6, Factors
    <3> QED BY <1>6, <1>7, <1>9, <3>1
  <2>2. code \in 0 .. d - 1
    BY <1>1, <1>2
  <2>3. u \in Int /\ d \in Nat \ {0} /\ q \in Int
    BY <1>1, <1>6
  <2> QED BY <2>1, <2>2, <2>3, DivUnique
<1>11. v + s * u = (v + code * s) + (s * d) * (u \div d)
  <2> DEFINE y == s * (d * q)
             z == code * s
  <2>1. s * u = z + y
    <3> DEFINE x == d * q
    <3>1. x \in Int
      BY <1>7
    <3>2. s * (code + x) = s * code + s * x
      <4> HIDE DEF x
      <4> QED BY <1>1, <3>1, Factors
    <3> QED BY <1>7, <1>8, <3>2
  <2>2. y \in Int /\ z \in Int /\ (s * d) * (u \div d) = y
    BY <1>1, <1>3, <1>7, <1>10, Factors
  <2> HIDE DEF y, z
  <2>3. v + (z + y) = (v + z) + y
    BY <2>2
  <2> QED BY <2>1, <2>2, <2>3 DEF z
<1> QED BY <1>1, <1>10, <1>11 DEF Lowest, s, d

(* What is known of the next code. *)
NextCode(S, r, w, v, l, code) ==
  /\ w = S.W[r] /\ v = S.V[r] /\ l = S.G[r] /\ w \in Nat /\ v \in Nat /\ l \in Nat
  /\ codes[r + 1] = [code |-> code, width |-> l] /\ code \in Nat /\ code < Pow2[l]
  /\ S.W[r + 1] = w + l /\ S.V[r + 1] = v + code * Pow2[w]
  /\ w + l <= S.W[Len(codes)]
  /\ \E c \in Nat : S.V[Len(codes)] = (v + code * Pow2[w]) + Pow2[w + l] * c

LEMMA NextKnown ==
  ASSUME codes \in Seq(Coded), CodesFit, NEW S, Measured(codes, S.W, S.V), Ruled(codes, S.M, S.G),
         NEW r \in 0 .. Len(codes) - 1
  PROVE  NextCode(S, r, S.W[r], S.V[r], S.G[r], codes[r + 1].code)
<1> DEFINE n == Len(codes)
           W == S.W
           V == S.V
           G == S.G
           y == codes[r + 1]
<1>1. n \in Nat /\ r \in 0 .. n /\ r + 1 \in 0 .. n /\ r + 1 \in 1 .. n
  OBVIOUS
<1>2. W[r] \in Nat /\ V[r] \in Nat /\ W[r + 1] = W[r] + y.width /\ V[r + 1] = V[r] + y.code * Pow2[W[r]]
  BY <1>1 DEF Measured
<1>3. G[r] \in Nat /\ y.width = G[r]
  BY <1>1 DEF Ruled
<1>4. y \in Coded
  BY <1>1
<1>5. y.code \in Nat /\ y.code < Pow2[y.width] /\ y = [code |-> y.code, width |-> y.width]
  <2>1. y.code \in Nat /\ y = [code |-> y.code, width |-> y.width]
    BY <1>4 DEF Coded
  <2>2. r + 1 \in DOMAIN codes
    BY <1>1
  <2> QED BY <2>1, <2>2 DEF CodesFit
<1>6. W[r + 1] <= W[n] /\ \E c \in Nat : V[n] = V[r + 1] + Pow2[W[r + 1]] * c
  <2> DEFINE i == r + 1
  <2>1. i \in 0 .. Len(codes)
    BY <1>1
  <2> HIDE DEF i
  <2>2. W[i] <= W[Len(codes)] /\ \E c \in Nat : V[Len(codes)] = V[i] + Pow2[W[i]] * c
    BY <2>1, CodeGrows
  <2> QED BY <2>2 DEF i
<1> HIDE DEF y, n
<1>7. W[r + 1] = W[r] + G[r]
  BY <1>2, <1>3
<1>8. codes[r + 1] = [code |-> y.code, width |-> G[r]] /\ y.code < Pow2[G[r]]
  BY <1>3, <1>5 DEF y
<1>9. W[r] + G[r] <= W[n] /\ \E c \in Nat : V[n] = (V[r] + y.code * Pow2[W[r]]) + Pow2[W[r] + G[r]] * c
  BY <1>2, <1>6, <1>7
<1> QED BY <1>2, <1>3, <1>5, <1>7, <1>8, <1>9 DEF NextCode, n, y

LEMMA CodeComes ==
  ASSUME gb \in Seq(Bytes), NEW o \in Seq(Bytes), Reads(gb, o), codes \in Seq(Coded), CodesFit,
         NEW S, IsStream(S, o, codes), NEW d, IsDec(d), d.bbits \in 0 .. 7,
         NEW r \in 0 .. Len(codes) - 1, d.cursize = S.G[r], Stands(S, o, d, S.W[r], S.V[r])
  PROVE  LET f == D!lzw_get_code(d) IN
         /\ IsDec(f) /\ SameTables(f, d) /\ f.bbits \in 0 .. 7
         /\ f.code = codes[r + 1].code /\ f.read = Append(d.read, codes[r + 1])
         /\ Stands(S, o, f, S.W[r + 1], S.V[r + 1])
<1> DEFINE f == D!lzw_get_code(d)
           w == S.W[r]
           v == S.V[r]
           l == S.G[r]
           code == codes[r + 1].code
           n == Missing(d)
           end == Len(o) + 1
<1>1. NextCode(S, r, w, v, l, code) /\ S.W[Len(codes)] <= 8 * S.N[end] /\ S.X[end] = S.V[Len(codes)]
      /\ Lined(o, S.P, S.N, S.X)
  BY NextKnown DEF IsStream
<1>2. /\ d.cursize = l /\ Stands(S, o, d, w, v)
  OBVIOUS
<1> HIDE DEF w, v, l, code
<1>3. w \in Nat /\ v \in Nat /\ l \in Nat /\ code \in Nat /\ code < Pow2[l] /\ w + l <= S.W[Len(codes)]
  BY <1>1 DEF NextCode
<1>4. w + l <= 8 * S.N[end] /\ S.N[end] \in Nat /\ end \in 2 .. Len(o) + 1
  <2>1. end \in 2 .. Len(o) + 1 /\ S.N \in [2 .. Len(o) + 1 -> Nat]
    BY <1>1 DEF Lined
  <2>2. S.N[end] \in Nat
    BY <2>1
  <2>3. S.W[Len(codes)] \in Nat
    <3>1. Len(codes) \in 0 .. Len(codes)
      OBVIOUS
    <3> QED BY <3>1 DEF IsStream, Measured
  <2> DEFINE x == S.W[Len(codes)]
             y == S.N[end]
  <2>4. x \in Nat /\ y \in Nat /\ x <= 8 * y /\ w + l <= x
    BY <1>1, <1>3, <2>2, <2>3
  <2> HIDE DEF x, y
  <2>5. w + l <= 8 * y
    BY <1>3, <2>4
  <2> QED BY <2>1, <2>2, <2>5 DEF y
<1>5. d.cursize \in Nat
  BY <1>2, <1>3
<1>6. PICK g : Fetches(g, d)
  BY <1>5, FetchTurns
<1>7. n \in Nat /\ (d.bbits + 8 * n) - l \in 0 .. 7
  BY <1>2, <1>5, MissingEnough
<1>8. /\ g[0] = d /\ D!lzw_get_code(d) = Taken(g[n], d)
      /\ \A k \in Nat : /\ g[k + 1] = D!GetByte(g[k])
                        /\ IsDec(g[k]) /\ SameDecoder(g[k], d) /\ g[k].bbits = d.bbits + 8 * k
  BY <1>6 DEF Fetches
<1> HIDE DEF n, end
<1> DEFINE At(k) == k <= n => Stands(S, o, g[k], w, v)
           at == [k \in Nat |-> IF At(k) THEN 1 ELSE 0]
<1>9. at[0] \in {1}
  BY <1>2, <1>8
<1>10. ASSUME NEW k \in Nat, at[k] \in {1} PROVE at[k + 1] \in {1}
  <2>1. At(k)
    BY <1>10
  <2>2. ASSUME k + 1 <= n PROVE Stands(S, o, g[k + 1], w, v)
    <3>1. Stands(S, o, g[k], w, v) /\ IsDec(g[k]) /\ g[k].bbits = d.bbits + 8 * k
          /\ g[k + 1] = D!GetByte(g[k])
      <4>1. k <= n
        BY <1>7, <2>2
      <4> QED BY <1>8, <2>1, <4>1
    <3>2. w + g[k].bbits < 8 * S.N[end]
      <4> DEFINE b == d.bbits
                 e == 8 * S.N[end]
      <4>1. b \in 0 .. 7 /\ e \in Nat /\ w + l <= e /\ (b + 8 * n) - l <= 7 /\ g[k].bbits = b + 8 * k
        <5>1. e \in Nat /\ w + l <= e
          BY <1>4
        <5>2. (b + 8 * n) - l <= 7
          <6> DEFINE x == (b + 8 * n) - l
          <6>1. x \in 0 .. 7
            BY <1>7
          <6> HIDE DEF x
          <6>2. x <= 7
            BY <6>1
          <6> QED BY <6>2 DEF x
        <5> HIDE DEF e
        <5> QED BY <3>1, <5>1, <5>2
      <4> HIDE DEF b, e
      <4>2. w + (b + 8 * k) < e
        BY <1>3, <1>7, <2>2, <4>1
      <4> QED BY <4>1, <4>2 DEF e
    <3> QED BY <1>1, <1>3, <3>1, <3>2, ByteComes DEF end
  <2> QED BY <2>2
<1>11. \A k \in Nat : at[k] \in {1}
  <2> HIDE DEF at
  <2> QED BY <1>9, <1>10, Turns
<1> DEFINE e == g[n]
<1>12. Stands(S, o, e, w, v) /\ IsDec(e) /\ SameDecoder(e, d) /\ e.bbits = d.bbits + 8 * n /\ f = Taken(e, d)
  <2>1. at[n] \in {1} /\ n <= n
    BY <1>7, <1>11
  <2>2. Stands(S, o, e, w, v)
    BY <1>7, <2>1
  <2> QED BY <1>7, <1>8, <2>2
<1> HIDE DEF at, e, f
<1>13. e.bbits \in Nat /\ e.bbuf \in Nat /\ e.bbits >= l /\ e.bbits - l \in 0 .. 7
  <2>1. e.bbits \in Nat /\ e.bbuf \in Nat
    BY <1>12 DEF IsDec
  <2>2. e.bbits - l \in 0 .. 7
    BY <1>7, <1>12
  <2>3. e.bbits >= l
    <3> DEFINE x == e.bbits
    <3>1. x \in Nat /\ x - l \in 0 .. 7
      BY <2>1, <2>2
    <3> HIDE DEF x
    <3>2. x >= l
      BY <1>3, <3>1
    <3> QED BY <3>2 DEF x
  <2> QED BY <2>1, <2>2, <2>3
<1> DEFINE u == e.bbuf
           t == e.bbits - l
           p == e.pos + 1
<1>14. p \in 2 .. Len(o) + 1 /\ 8 * S.N[p] = (w + l) + t /\ S.X[p] = v + Pow2[w] * u /\ t \in Nat /\ u \in Nat
  <2>1. p \in 2 .. Len(o) + 1 /\ 8 * S.N[p] = w + e.bbits /\ S.X[p] = v + Pow2[w] * u
    BY <1>12 DEF Stands
  <2>2. t \in Nat /\ w + e.bbits = (w + l) + t
    BY <1>3, <1>13
  <2> QED BY <1>13, <2>1, <2>2
<1>15. PICK a \in Nat : S.X[end] = S.X[p] + Pow2[8 * S.N[p]] * a
  BY <1>1, <1>14, ByteGrows DEF end
<1>16. PICK b \in Nat : S.V[Len(codes)] = (v + code * Pow2[w]) + Pow2[w + l] * b
  BY <1>1 DEF NextCode
<1> HIDE DEF u, t, p
<1>17. Lowest(v, w, l, u, code)
  <2>1. (v + Pow2[w] * u) + Pow2[(w + l) + t] * a = (v + code * Pow2[w]) + Pow2[w + l] * b
    BY <1>1, <1>14, <1>15, <1>16
  <2> QED BY <1>3, <1>14, <2>1, Extracted
<1>18. /\ IsDec(f) /\ SameTables(f, d) /\ f.pos = e.pos /\ f.bs = e.bs
       /\ f.code = u % Pow2[l] /\ f.read = Append(d.read, [code |-> u % Pow2[l], width |-> l])
       /\ f.bbuf = u \div Pow2[l] /\ f.bbits = e.bbits - l
  <2>1. e.bbits >= d.cursize
    BY <1>2, <1>13
  <2> QED BY <1>2, <1>5, <1>12, <2>1, TakenKeeps DEF u
<1>19. f.code = code /\ f.read = Append(d.read, codes[r + 1]) /\ f.bbits \in 0 .. 7
  <2>1. u % Pow2[l] = code
    BY <1>17 DEF Lowest
  <2>2. codes[r + 1] = [code |-> code, width |-> l]
    BY <1>1 DEF NextCode
  <2> QED BY <1>13, <1>18, <2>1, <2>2
<1>20. Stands(S, o, f, S.W[r + 1], S.V[r + 1])
  <2>1. S.W[r + 1] = w + l /\ S.V[r + 1] = v + code * Pow2[w]
    BY <1>1 DEF NextCode
  <2>2. f.bbits = t /\ f.pos + 1 = p
    BY <1>18 DEF t, p
  <2>3. 8 * S.N[p] = (w + l) + t
    BY <1>14
  <2>4. S.X[p] = (v + code * Pow2[w]) + Pow2[w + l] * f.bbuf
    BY <1>14, <1>17, <1>18 DEF Lowest
  <2>5. p \in 2 .. Len(o) + 1 /\ e.bs \in 0 .. PACKET
        /\ p + e.bs \in S.P /\ \A q \in p .. p + e.bs - 1 : q \notin S.P
    BY <1>12 DEF Stands, p
  <2> QED BY <1>18, <2>1, <2>2, <2>3, <2>4, <2>5 DEF Stands
<1> QED BY <1>18, <1>19, <1>20 DEF f, code

LEMMA PrefixMore ==
  ASSUME NEW cs \in Seq(Coded), NEW r \in 0 .. Len(cs) - 1
  PROVE  Append(SubSeq(cs, 1, r), cs[r + 1]) = SubSeq(cs, 1, r + 1)
<1>1. cs[r + 1] \in Coded /\ r \in Nat
  <2>1. r + 1 \in 1 .. Len(cs)
    OBVIOUS
  <2> QED BY <2>1
<1>2. SubSeq(cs, 1, r) \in Seq(Coded) /\ Len(SubSeq(cs, 1, r)) = r
      /\ \A k \in 1 .. r : SubSeq(cs, 1, r)[k] = cs[k]
  <2>1. \A k \in 1 .. r : cs[k] \in Coded
    OBVIOUS
  <2> QED BY <1>1, <2>1
<1>3. SubSeq(cs, 1, r + 1) \in Seq(Coded) /\ Len(SubSeq(cs, 1, r + 1)) = r + 1
      /\ \A k \in 1 .. r + 1 : SubSeq(cs, 1, r + 1)[k] = cs[k]
  <2>1. \A k \in 1 .. r + 1 : cs[k] \in Coded
    OBVIOUS
  <2> QED BY <1>1, <2>1
<1> DEFINE s == SubSeq(cs, 1, r)
           t == SubSeq(cs, 1, r + 1)
           y == cs[r + 1]
<1> HIDE DEF s, t, y
<1>4. s \in Seq(Coded) /\ Len(s) = r /\ t \in Seq(Coded) /\ Len(t) = r + 1 /\ y \in Coded
      /\ (\A k \in 1 .. r : s[k] = cs[k]) /\ \A k \in 1 .. r + 1 : t[k] = cs[k]
  BY <1>1, <1>2, <1>3 DEF s, t, y
<1>5. Append(s, y) \in Seq(Coded) /\ Len(Append(s, y)) = r + 1
      /\ (\A k \in 1 .. r : Append(s, y)[k] = s[k]) /\ Append(s, y)[r + 1] = y
  BY <1>1, <1>4
<1>6. ASSUME NEW k \in 1 .. r + 1 PROVE Append(s, y)[k] = t[k]
  <2>1. CASE k = r + 1
    BY <1>1, <1>4, <1>5, <2>1 DEF y
  <2>2. CASE k # r + 1
    <3>1. k \in 1 .. r
      BY <1>1, <2>2
    <3> QED BY <1>4, <1>5, <3>1
  <2> QED BY <2>1, <2>2
<1>7. Append(s, y) = t
  BY <1>4, <1>5, <1>6, SeqEqual
<1> QED BY <1>7 DEF s, t, y

(* Both sides count alike. *)
Rates(S, d, r) ==
  /\ d.cursize = S.G[r] /\ d.top_slot = Pow2[S.G[r]] /\ d.newcodes = ClearCode + 2
  /\ d.slot = (IF S.M[r] = 0 THEN ClearCode + 2 ELSE ClearCode + 1 + S.M[r])
  /\ d.oc \in Int /\ (d.oc >= 0 <=> S.M[r] >= 1)
ReadTo(S, o, d, r) ==
  /\ d.read = SubSeq(codes, 1, r) /\ Stands(S, o, d, S.W[r], S.V[r]) /\ Rates(S, d, r)
Reading ==
  /\ Finished(codes)
  /\ \E o, S :
       /\ o \in Seq(Bytes) /\ Reads(gb, o) /\ IsStream(S, o, codes)
       /\ \E r \in 0 .. Len(codes) - 1 : ReadTo(S, o, dec, r)

ReadInv ==
  /\ dec.mode = "closed" => dec.read = <<>> /\ dec.bs = 0
  /\ dec.mode = "decode" => Reading
  /\ dec.mode = "done" => WidthsAgree

LEMMA Agreed ==
  ASSUME codes \in Seq(Coded), NEW d, NEW r \in 0 .. Len(codes), d.read = SubSeq(codes, 1, r)
  PROVE  IsPrefix(d.read, codes)
<1> DEFINE s == SubSeq(codes, 1, r)
<1>1. Len(s) = r /\ r <= Len(codes)
  <2>1. r \in Nat
    OBVIOUS
  <2> QED BY <2>1
<1> HIDE DEF s
<1>2. d.read = s
  BY DEF s
<1> QED BY <1>1, <1>2 DEF IsPrefix, s

(* The table is reset. *)
LEMMA ResetReads ==
  ASSUME codes \in Seq(Coded), Finished(codes), NEW o \in Seq(Bytes), NEW S, IsStream(S, o, codes),
         NEW r \in 0 .. Len(codes) - 1, NEW d, Decodes(d), Rates(S, d, r), d.code = codes[r + 1].code,
         d.read = SubSeq(codes, 1, r + 1), Stands(S, o, d, S.W[r + 1], S.V[r + 1]), d.code = ClearCode
  PROVE  r + 1 \in 0 .. Len(codes) - 1 /\ ReadTo(S, o, D!ResetTable(d), r + 1)
<1> DEFINE f == D!ResetTable(d)
<1>1. r + 1 \in 0 .. Len(codes) - 1
  <2>1. ClearCode # EOFCode
    BY SizeFacts DEF EOFCode
  <2>2. r + 1 # Len(codes)
    BY <2>1 DEF Finished
  <2> QED BY <2>2
<1>2. /\ f.pos = d.pos /\ f.bs = d.bs /\ f.bbuf = d.bbuf /\ f.bbits = d.bbits
      /\ f.read = d.read /\ f.cursize = d.codesize + 1 /\ f.slot = d.newcodes /\ f.top_slot = Pow2[d.codesize + 1]
      /\ f.oc = -1 /\ f.newcodes = d.newcodes
  BY ResetKeeps
<1> HIDE DEF f
<1>3. S.M[r + 1] = 0 /\ S.G[r + 1] = initCodeSize + 1
  BY DEF IsStream, Ruled, After
<1>4. d.codesize = initCodeSize /\ d.newcodes = ClearCode + 2
  BY DEF Decodes, Rates
<1>5. Rates(S, f, r + 1)
  BY <1>2, <1>3, <1>4 DEF Rates
<1>6. Stands(S, o, f, S.W[r + 1], S.V[r + 1])
  BY <1>2 DEF Stands
<1>7. ReadTo(S, o, f, r + 1)
  BY <1>2, <1>5, <1>6 DEF ReadTo
<1> QED BY <1>1, <1>7 DEF f

(* A code enters the table. *)
LEMMA AddReads ==
  ASSUME codes \in Seq(Coded), Finished(codes), NEW o \in Seq(Bytes), NEW S, IsStream(S, o, codes),
         NEW r \in 0 .. Len(codes) - 1, NEW d, Decodes(d), Rates(S, d, r), d.code = codes[r + 1].code,
         d.read = SubSeq(codes, 1, r + 1), Stands(S, o, d, S.W[r + 1], S.V[r + 1]),
         d.code \notin {ClearCode, EOFCode}, NEW first, NEW pixels
  PROVE  r + 1 \in 0 .. Len(codes) - 1 /\ ReadTo(S, o, Added(d, first, pixels), r + 1)
<1> DEFINE f == Added(d, first, pixels)
           slot == IF d.slot < d.top_slot /\ d.oc >= 0 THEN d.slot + 1 ELSE d.slot
           wider == slot >= d.top_slot /\ d.cursize < BITS
           m == S.M[r]
           g == S.G[r]
<1>1. r + 1 \in 0 .. Len(codes) - 1
  <2>1. r + 1 # Len(codes)
    BY DEF Finished
  <2> QED BY <2>1
<1>2. /\ f.pos = d.pos /\ f.bs = d.bs /\ f.bbuf = d.bbuf /\ f.bbits = d.bbits
      /\ f.read = d.read /\ f.slot = slot /\ f.oc = d.code /\ f.newcodes = d.newcodes
      /\ f.cursize = (IF wider THEN d.cursize + 1 ELSE d.cursize)
      /\ f.top_slot = (IF wider THEN 2 * d.top_slot ELSE d.top_slot)
  BY EntryKeeps
<1> HIDE DEF f
<1>3. /\ m \in Nat /\ g \in Nat /\ S.M[r + 1] = m + 1
      /\ S.G[r + 1] = (IF ClearCode + 2 + m >= Pow2[g] /\ g < BITS THEN g + 1 ELSE g)
      /\ ClearCode + 2 + m <= Pow2[g]
  <2>1. r \in 0 .. Len(codes)
    OBVIOUS
  <2> QED BY <2>1 DEF IsStream, Ruled, After
<1>4. Pow2[g] \in Nat /\ ClearCode \in Nat /\ Pow2[g + 1] = 2 * Pow2[g]
  BY <1>3, Pow2Type, Pow2Step, SizeFacts
<1>5. d.cursize = g /\ d.top_slot = Pow2[g] /\ d.newcodes = ClearCode + 2
      /\ d.slot = (IF m = 0 THEN ClearCode + 2 ELSE ClearCode + 1 + m) /\ (d.oc >= 0 <=> m >= 1)
  BY DEF Rates
<1> HIDE DEF m, g
<1>6. slot = ClearCode + 1 + (m + 1)
  <2>1. CASE m = 0
    <3>1. slot = d.slot
      BY <1>5, <2>1
    <3> HIDE DEF slot
    <3> QED BY <1>4, <1>5, <2>1, <3>1
  <2>2. CASE m # 0
    <3>1. d.slot = ClearCode + 1 + m /\ m >= 1
      BY <1>3, <1>5, <2>2
    <3>2. d.slot < d.top_slot /\ d.oc >= 0
      BY <1>3, <1>4, <1>5, <3>1
    <3> QED BY <1>3, <1>4, <3>1, <3>2
  <2> QED BY <2>1, <2>2
<1> HIDE DEF slot
<1>7. wider <=> ClearCode + 2 + m >= Pow2[g] /\ g < BITS
  BY <1>3, <1>4, <1>5, <1>6
<1> HIDE DEF wider
<1>8. f.cursize = S.G[r + 1] /\ f.top_slot = Pow2[S.G[r + 1]]
  BY <1>2, <1>3, <1>4, <1>5, <1>7
<1>9. f.oc \in Nat
  <2>1. codes[r + 1] \in Coded
    <3>1. r + 1 \in 1 .. Len(codes)
      OBVIOUS
    <3> QED BY <3>1
  <2> QED BY <1>2, <2>1 DEF Coded
<1>10. Rates(S, f, r + 1)
  BY <1>2, <1>3, <1>5, <1>6, <1>8, <1>9 DEF Rates
<1>11. Stands(S, o, f, S.W[r + 1], S.V[r + 1])
  BY <1>2 DEF Stands
<1>12. ReadTo(S, o, f, r + 1)
  BY <1>2, <1>10, <1>11 DEF ReadTo
<1> QED BY <1>1, <1>12 DEF f

LEMMA OpenReads ==
  ASSUME FrameInv, StreamInv, ReadInv, Open
  PROVE  ReadInv'
<1>1. /\ enc.pc = "done" /\ codes' = codes /\ gb' = Tail(enc.outs) /\ dec' = D!DecoderInit(Head(enc.outs))
  BY DEF Open
<1>2. codes \in Seq(Coded) /\ Streamed
  BY <1>1, StreamCoded DEF FrameInv, StreamInv
<1>3. PICK o, S : o \in Seq(Bytes) /\ enc.outs = Append(o, 0) /\ IsStream(S, o, codes)
  BY <1>2 DEF Streamed
<1>4. Head(enc.outs) = initCodeSize
  <2>1. PICK q \in Seq(Bytes) : Blocked(q) /\ enc.outs = Append(q, 0)
    BY <1>1 DEF FrameInv, EncoderInv, Closed
  <2>2. Len(q) \in Nat /\ Len(q) >= 1 /\ q[1] = initCodeSize
    BY <2>1 DEF Blocked
  <2>3. Append(q, 0) \in Seq(Bytes) /\ Append(q, 0) # <<>> /\ Append(q, 0)[1] = initCodeSize
    BY <2>2 DEF Bytes
  <2> QED BY <2>1, <2>3
<1>5. Reads(gb', o)
  BY <1>1, <1>3, ReadsTail
<1> DEFINE d == D!DecoderInit(initCodeSize)
<1>6. /\ d.mode = "decode" /\ d.pos = 1 /\ d.bs = 0 /\ d.bbuf = 0 /\ d.bbits = 0 /\ d.read = <<>> /\ d.oc = -1
      /\ d.cursize = initCodeSize + 1 /\ d.top_slot = Pow2[initCodeSize + 1]
      /\ d.newcodes = ClearCode + 2 /\ d.slot = ClearCode + 2
  BY SamePowers DEF D!DecoderInit, ClearCode
<1>7. dec' = d
  BY <1>1, <1>4
<1> HIDE DEF d
<1>8. 0 \in 0 .. Len(codes) - 1
  BY <1>2 DEF Streamed, Finished
<1>9. S.W[0] = 0 /\ S.V[0] = 0 /\ S.M[0] = 0 /\ S.G[0] = initCodeSize + 1
  BY <1>3 DEF IsStream, Measured, Ruled
<1>10. Stands(S, o, d, S.W[0], S.V[0])
  <2>1. 2 \in S.P /\ 2 \in 2 .. Len(o) + 1 /\ S.N[2] = 0 /\ S.X[2] = 0
    BY <1>3 DEF IsStream, Lined
  <2>2. d.pos + 1 = 2 /\ d.bs \in 0 .. PACKET /\ 2 + d.bs = 2 /\ 2 .. (2 + d.bs) - 1 = {}
    <3>1. PACKET \in 1 .. 255
      BY SizeFacts
    <3> QED BY <1>6, <3>1
  <2>3. 8 * 0 = 0 + d.bbits /\ 0 = 0 + Pow2[0] * d.bbuf
    BY <1>6, Pow2Step
  <2> DEFINE p == d.pos + 1
  <2>4. p = 2 /\ d.bs = 0 /\ p + d.bs = 2 /\ p .. p + d.bs - 1 = {}
    BY <1>6, <2>2
  <2>5. 8 * S.N[p] = S.W[0] + d.bbits /\ S.X[p] = S.V[0] + Pow2[S.W[0]] * d.bbuf
    BY <1>9, <2>1, <2>3, <2>4
  <2>6. p + d.bs \in S.P /\ p \in 2 .. Len(o) + 1
    BY <2>1, <2>4
  <2> QED BY <2>2, <2>4, <2>5, <2>6 DEF Stands
<1>11. Rates(S, d, 0)
  BY <1>6, <1>9 DEF Rates
<1>12. d.read = SubSeq(codes, 1, 0)
  BY <1>6, SubSeqEmpty
<1>13. ReadTo(S, o, d, 0)
  BY <1>10, <1>11, <1>12 DEF ReadTo
<1>14. Reading'
  BY <1>1, <1>2, <1>3, <1>5, <1>7, <1>8, <1>13 DEF Reading, ReadTo, Stands, Streamed
<1> QED BY <1>6, <1>7, <1>14 DEF ReadInv

LEMMA ReadAgrees ==
  ASSUME codes \in Seq(Coded), NEW o, NEW S, NEW d, NEW r \in 0 .. Len(codes), NEW w, NEW v,
         d.read = SubSeq(codes, 1, r), Stands(S, o, d, w, v)
  PROVE  IsPrefix(d.read, codes) /\ d.bs \in 0 .. PACKET
BY Agreed DEF Stands

LEMMA DecodeReads ==
  ASSUME FrameInv, ReadInv, Decode
  PROVE  ReadInv'
<1>1. codes' = codes
  BY DEF Decode
<1>2. codes \in Seq(Coded) /\ CodesFit
  BY StreamCoded DEF FrameInv, EncoderInv
<1>3. dec.mode = "decode"
  BY DEF Decode, D!DecodeCode, D!Complete
<1>4. Finished(codes) /\ gb \in Seq(Bytes) /\ Decodes(dec)
  BY <1>3 DEF ReadInv, Reading, FrameInv, DecoderInv, Decodes
<1>5. PICK o, S :
        /\ o \in Seq(Bytes) /\ Reads(gb, o) /\ IsStream(S, o, codes)
        /\ \E r \in 0 .. Len(codes) - 1 : ReadTo(S, o, dec, r)
  BY <1>3 DEF ReadInv, Reading
<1>6. PICK r \in 0 .. Len(codes) - 1 : ReadTo(S, o, dec, r)
  BY <1>5
<1>7. r \in 0 .. Len(codes) /\ r + 1 \in 0 .. Len(codes)
  OBVIOUS
<1>8. CASE D!DecodeCode(Len(image))
  <2> DEFINE d == D!lzw_get_code(dec)
  <2>1. /\ gb' = gb
        /\ \/ d.code = d.newcodes - 2 /\ dec' = D!ResetTable(d)
           \/ dec' = [d EXCEPT !.mode = "done"]
           \/ /\ d.code \notin {d.newcodes - 2, d.newcodes - 1}
              /\ \E first, pixels : dec' = Added(d, first, pixels)
    BY <1>8, DecodeSteps
  <2>2. /\ IsDec(d) /\ SameTables(d, dec) /\ d.bbits \in 0 .. 7
        /\ d.code = codes[r + 1].code /\ d.read = Append(dec.read, codes[r + 1])
        /\ Stands(S, o, d, S.W[r + 1], S.V[r + 1])
    <3>1. IsDec(dec) /\ dec.bbits \in 0 .. 7
      BY <1>4 DEF Decodes
    <3>2. dec.cursize = S.G[r] /\ Stands(S, o, dec, S.W[r], S.V[r])
      BY <1>6 DEF ReadTo, Rates
    <3> QED BY <1>2, <1>4, <1>5, <3>1, <3>2, CodeComes
  <2> HIDE DEF d
  <2>3. d.read = SubSeq(codes, 1, r + 1)
    BY <1>2, <1>6, <2>2, PrefixMore DEF ReadTo
  <2>4. Decodes(d) /\ d.mode = "decode"
    BY <1>3, <1>4, <2>2 DEF Decodes, SameTables
  <2>5. Rates(S, d, r)
    BY <1>6, <2>2 DEF ReadTo, Rates, SameTables
  <2>6. d.newcodes - 2 = ClearCode /\ d.newcodes - 1 = EOFCode
    <3>1. d.newcodes = ClearCode + 2 /\ ClearCode \in Nat
      BY <2>5, SizeFacts DEF Rates
    <3> QED BY <3>1 DEF EOFCode
  <2>7. CASE d.code = d.newcodes - 2 /\ dec' = D!ResetTable(d)
    <3>1. r + 1 \in 0 .. Len(codes) - 1 /\ ReadTo(S, o, D!ResetTable(d), r + 1)
      BY <1>2, <1>4, <1>5, <2>2, <2>3, <2>4, <2>5, <2>6, <2>7, ResetReads
    <3>2. D!ResetTable(d).mode = "decode"
      BY <2>4, ResetKeeps
    <3>3. Reading'
      BY <1>1, <1>4, <1>5, <2>1, <2>7, <3>1 DEF Reading, ReadTo, Stands
    <3> QED BY <2>7, <3>2, <3>3 DEF ReadInv
  <2>8. CASE dec' = [d EXCEPT !.mode = "done"]
    <3>1. IsPrefix(d.read, codes) /\ d.bs \in 0 .. PACKET
      BY <1>2, <1>7, <2>2, <2>3, ReadAgrees
    <3>2. dec'.mode = "done" /\ dec'.read = d.read /\ dec'.bs = d.bs
      BY <2>4, <2>8, OneTime
    <3> QED BY <1>1, <3>1, <3>2 DEF ReadInv, WidthsAgree
  <2>9. CASE /\ d.code \notin {d.newcodes - 2, d.newcodes - 1}
             /\ \E first, pixels : dec' = Added(d, first, pixels)
    <3>1. PICK first, pixels : dec' = Added(d, first, pixels)
      BY <2>9
    <3>2. r + 1 \in 0 .. Len(codes) - 1 /\ ReadTo(S, o, Added(d, first, pixels), r + 1)
      BY <1>2, <1>4, <1>5, <2>2, <2>3, <2>4, <2>5, <2>6, <2>9, AddReads
    <3>3. Added(d, first, pixels).mode = "decode"
      BY <2>4, EntryKeeps
    <3>4. Reading'
      BY <1>1, <1>4, <1>5, <2>1, <3>1, <3>2 DEF Reading, ReadTo, Stands
    <3> QED BY <3>1, <3>3, <3>4 DEF ReadInv
  <2> QED BY <2>1, <2>7, <2>8, <2>9
<1>9. CASE D!Complete(Len(image))
  <2>1. dec' = [dec EXCEPT !.mode = "done"]
    BY <1>9 DEF D!Complete
  <2>2. IsPrefix(dec.read, codes) /\ dec.bs \in 0 .. PACKET
    BY <1>2, <1>6, <1>7, ReadAgrees DEF ReadTo
  <2>3. dec'.mode = "done" /\ dec'.read = dec.read /\ dec'.bs = dec.bs
    BY <1>4, <2>1, OneTime
  <2> QED BY <1>1, <2>2, <2>3 DEF ReadInv, WidthsAgree
<1> QED BY <1>8, <1>9 DEF Decode

(* What both sides keep together. *)
WidthInv == FrameInv /\ StreamInv /\ ReadInv

LEMMA WidthInit == FrameInit => WidthInv
<1> SUFFICES ASSUME FrameInit PROVE WidthInv
  OBVIOUS
<1>1. FrameInv
  BY InitFrame
<1>2. StreamInv
  BY DEF FrameInit, EncoderInit, StreamInv
<1>3. dec.mode = "closed" /\ dec.read = <<>> /\ dec.bs = 0
  BY DEF FrameInit, D!DecoderInit
<1> QED BY <1>1, <1>2, <1>3 DEF WidthInv, ReadInv

LEMMA WidthStep == WidthInv /\ [FrameNext]_frameVars => WidthInv'
<1> SUFFICES ASSUME WidthInv, [FrameNext]_frameVars PROVE WidthInv'
  OBVIOUS
<1>1. FrameInv /\ StreamInv /\ ReadInv
  BY DEF WidthInv
<1>2. FrameInv'
  BY <1>1, FrameStep
<1>3. ASSUME UNCHANGED <<enc, codes>> PROVE StreamInv'
  BY <1>1, <1>3 DEF StreamInv, Streamed
<1>4. CASE Encode
  <2>1. UNCHANGED <<image, gb, dec>>
    BY <1>4 DEF Encode, EncoderNext
  <2>2. StreamInv'
    BY <1>1, <1>4, PrologueStreams, NextPixelStreams, ProbeStreams, EmitStreams, EpilogueStreams
    DEF FrameInv, Encode, EncoderNext
  <2>3. enc.pc # "done"
    BY <1>4 DEF Encode, EncoderNext, Prologue, NextPixel, Probe, Emit, Epilogue
  <2>4. dec.mode = "closed"
    BY <1>1, <2>3 DEF FrameInv, DecoderInv
  <2>5. ReadInv'
    BY <1>1, <2>1, <2>4 DEF ReadInv
  <2> QED BY <1>2, <2>2, <2>5 DEF WidthInv
<1>5. CASE Open
  <2>1. UNCHANGED <<enc, codes>>
    BY <1>5 DEF Open
  <2> QED BY <1>1, <1>2, <1>3, <1>5, <2>1, OpenReads DEF WidthInv
<1>6. CASE Decode
  <2>1. UNCHANGED <<enc, codes>>
    BY <1>6 DEF Decode
  <2> QED BY <1>1, <1>2, <1>3, <1>6, <2>1, DecodeReads DEF WidthInv
<1>7. CASE UNCHANGED frameVars
  <2>1. UNCHANGED <<enc, codes, gb, dec>>
    BY <1>7 DEF frameVars
  <2>2. ReadInv'
    <3>1. Reading => Reading'
      BY <2>1 DEF Reading, ReadTo
    <3>2. WidthsAgree => WidthsAgree'
      BY <2>1 DEF WidthsAgree
    <3> QED BY <1>1, <2>1, <3>1, <3>2 DEF ReadInv
  <2> QED BY <1>2, <1>3, <2>1, <2>2 DEF WidthInv
<1>8. CASE Done
  BY <1>7, <1>8 DEF Done
<1> QED BY <1>4, <1>5, <1>6, <1>7, <1>8 DEF FrameNext

(* The two sides agree on where a code starts, how wide it is and what it is, *)
(* for every code space, table, packet and image: the decoder reads the codes *)
(* the encoder wrote, and never takes the terminator for a sub-block.         *)
THEOREM FrameWidths == FrameSpec => []WidthsAgree
<1>1. ASSUME WidthInv PROVE WidthsAgree
  <2>1. codes \in Seq(Coded) /\ FrameInv /\ ReadInv /\ dec.mode \in {"closed", "decode", "done"}
    BY <1>1, StreamCoded DEF WidthInv, FrameInv, DecoderInv
  <2>2. CASE dec.mode = "closed"
    <3>1. dec.read = <<>> /\ dec.bs = 0
      BY <2>1, <2>2 DEF ReadInv
    <3>2. 0 \in 0 .. Len(codes) /\ dec.read = SubSeq(codes, 1, 0) /\ dec.bs \in 0 .. PACKET
      <4>1. PACKET \in 1 .. 255
        BY SizeFacts
      <4> QED BY <2>1, <3>1, <4>1, SubSeqEmpty
    <3>3. IsPrefix(dec.read, codes)
      BY <2>1, <3>2, Agreed
    <3> QED BY <3>2, <3>3 DEF WidthsAgree
  <2>3. CASE dec.mode = "decode"
    <3>1. PICK o, S : o \in Seq(Bytes) /\ \E r \in 0 .. Len(codes) - 1 : ReadTo(S, o, dec, r)
      BY <2>1, <2>3 DEF ReadInv, Reading
    <3>2. PICK r \in 0 .. Len(codes) - 1 : ReadTo(S, o, dec, r)
      BY <3>1
    <3>3. r \in 0 .. Len(codes)
      OBVIOUS
    <3> QED BY <2>1, <3>2, <3>3, ReadAgrees DEF ReadTo, WidthsAgree
  <2>4. CASE dec.mode = "done"
    BY <2>1, <2>4 DEF ReadInv
  <2> QED BY <2>1, <2>2, <2>3, <2>4
<1>2. FrameInit => WidthInv
  BY WidthInit
<1>3. WidthInv /\ [FrameNext]_frameVars => WidthInv'
  BY WidthStep
<1> QED BY <1>1, <1>2, <1>3, PTL DEF FrameSpec


-----------------------------------------------------------------------------
(* The pixels on the way: what each code stands for.                          *)

(* The pixels behind the first a up to the first b, and two equal stretches.  *)
Text(im, a, b) == [i \in 1 .. b - a |-> im[a + i]]
Same(im, a, b, p, q) == b - a = q - p /\ \A i \in 1 .. b - a : im[a + i] = im[p + i]

(* M counts the codes since the last clear code, and cs[k + 1] ends at pixel  *)
(* B[k + 1]. The j-th entry since the clear code z is the text of cs[z + j +  *)
(* 1] and the pixel behind it.                                                *)
Stood(im, B, z, m, c, a, b) ==
  /\ a < b /\ b <= Len(im)
  /\ \/ c < ClearCode /\ b = a + 1 /\ im[b] = c
     \/ \E j \in 0 .. m - 1 : c = ClearCode + 2 + j /\ Same(im, a, b, B[z + j], B[z + j + 1] + 1)
Counted(cs, M) ==
  /\ M \in [0 .. Len(cs) -> Nat]
  /\ \A k \in 0 .. Len(cs) : M[k] <= k /\ \A i \in 0 .. M[k] : M[k - i] = M[k] - i
  /\ \A k \in 0 .. Len(cs) - 1 : M[k + 1] = IF cs[k + 1].code = ClearCode THEN 0 ELSE M[k] + 1
Spelled(im, cs, M, B) ==
  /\ Counted(cs, M)
  /\ B \in [0 .. Len(cs) -> 0 .. Len(im)] /\ B[0] = 0
  /\ \A i, k \in 0 .. Len(cs) : i <= k => B[i] <= B[k]
  /\ \A k \in 0 .. Len(cs) - 1 :
       IF cs[k + 1].code \in {ClearCode, EOFCode} THEN B[k + 1] = B[k]
       ELSE Stood(im, B, k - M[k], M[k], cs[k + 1].code, B[k], B[k + 1])

(* The table holds the entries since the clear code, and no other. *)
Stored(im, e, cs, B, z, m) ==
  \A s \in Slot : e.htab[s] >= 0 =>
    \E j \in 0 .. m - 1 :
      /\ e.codetab[s] = ClearCode + 2 + j
      /\ e.htab[s] = im[B[z + j + 1] + 1] * Pow2[BITS] + cs[z + j + 1].code
Matched(e) == IF e.pc = "pixel" THEN e.curPixel ELSE e.curPixel - 1
Writing(im, e, cs, M, B) ==
  LET n == Len(cs)
      m == M[n]
  IN  /\ e.free_ent = ClearCode + 2 + m
      /\ e.curPixel \in 1 .. Len(im) /\ (e.pc # "pixel" => e.c = im[e.curPixel])
      /\ Stood(im, B, n - m, m, e.ent, B[n], Matched(e))
      /\ Stored(im, e, cs, B, n - m, m)
SpellInv ==
  /\ enc.pc \in {"pixel", "probe", "emit"} => \E M, B : Spelled(image, codes, M, B) /\ Writing(image, enc, codes, M, B)
  /\ enc.pc = "done" => \E M, B : Spelled(image, codes, M, B) /\ B[Len(codes)] = Len(image)

(* The entries of the decoder are the codes since the clear code.             *)
Kept(im, d, cs, B, z, m) ==
  /\ d.prefix \in [0 .. maxmaxcode - 1 -> Int] /\ d.suffix \in [0 .. maxmaxcode - 1 -> Int]
  /\ \A j \in 0 .. m - 2 : /\ d.prefix[ClearCode + 2 + j] = cs[z + j + 1].code
                           /\ d.suffix[ClearCode + 2 + j] = im[B[z + j + 1] + 1]

(* What the decoder has put out, and the last code and pixel it holds.        *)
Decoded(im, d, cs, M, B) ==
  LET r == Len(d.read)
      m == M[r]
  IN  /\ d.out = Text(im, 0, B[r])
      /\ IF m = 0 THEN d.fc = -1 ELSE d.oc = cs[r].code /\ d.fc = im[B[r - 1] + 1]
      /\ Kept(im, d, cs, B, r - m, m)
DeliverInv ==
  /\ dec.mode = "closed" => dec.out = <<>>
  /\ dec.mode = "decode" =>
       \E M, B : Spelled(image, codes, M, B) /\ B[Len(codes)] = Len(image) /\ Decoded(image, dec, codes, M, B)
  /\ dec.mode = "done" => dec.out = image
LosslessInv == WidthInv /\ SpellInv /\ DeliverInv

LEMMA TextType ==
  ASSUME NEW im \in Seq(Pixel), NEW a \in Nat, NEW b \in Nat, a <= b, b <= Len(im)
  PROVE  /\ Text(im, a, b) \in Seq(Pixel) /\ Len(Text(im, a, b)) = b - a /\ DOMAIN Text(im, a, b) = 1 .. b - a
         /\ \A i \in 1 .. b - a : Text(im, a, b)[i] = im[a + i]
<1>1. b - a \in Nat
  OBVIOUS
<1>2. ASSUME NEW i \in 1 .. b - a PROVE im[a + i] \in Pixel
  <2>1. a + i \in 1 .. Len(im)
    OBVIOUS
  <2> QED BY <2>1
<1>3. Text(im, a, b) \in [1 .. b - a -> Pixel]
  BY <1>2 DEF Text
<1>4. Text(im, a, b) \in Seq(Pixel) /\ Len(Text(im, a, b)) = b - a /\ DOMAIN Text(im, a, b) = 1 .. b - a
  BY <1>1, <1>3
<1> QED BY <1>4 DEF Text

LEMMA TextMore ==
  ASSUME NEW im \in Seq(Pixel), NEW a \in Nat, NEW b \in Nat, a <= b, b < Len(im)
  PROVE  Append(Text(im, a, b), im[b + 1]) = Text(im, a, b + 1)
<1> DEFINE s == Text(im, a, b)
           t == Text(im, a, b + 1)
           x == im[b + 1]
<1>1. s \in Seq(Pixel) /\ Len(s) = b - a /\ \A i \in 1 .. b - a : s[i] = im[a + i]
  <2>1. b <= Len(im)
    OBVIOUS
  <2> QED BY <2>1, TextType
<1>2. t \in Seq(Pixel) /\ Len(t) = (b + 1) - a /\ \A i \in 1 .. (b + 1) - a : t[i] = im[a + i]
  <2>1. b + 1 \in Nat /\ a <= b + 1 /\ b + 1 <= Len(im)
    OBVIOUS
  <2> QED BY <2>1, TextType
<1>3. x \in Pixel
  <2>1. b + 1 \in 1 .. Len(im)
    OBVIOUS
  <2> QED BY <2>1
<1>4. t[(b + 1) - a] = x
  <2>1. (b + 1) - a \in 1 .. (b + 1) - a /\ a + ((b + 1) - a) = b + 1
    OBVIOUS
  <2> QED BY <1>2, <2>1
<1> HIDE DEF s, t, x
<1>5. Append(s, x) \in Seq(Pixel) /\ Len(Append(s, x)) = Len(t)
  BY <1>1, <1>2, <1>3
<1>6. ASSUME NEW i \in 1 .. Len(t) PROVE Append(s, x)[i] = t[i]
  <2>1. CASE i = (b + 1) - a
    <3>1. i = Len(s) + 1
      BY <1>1, <2>1
    <3> QED BY <1>1, <1>3, <1>4, <2>1, <3>1
  <2>2. CASE i # (b + 1) - a
    <3>1. i \in 1 .. b - a /\ i \in 1 .. (b + 1) - a
      BY <1>2, <2>2
    <3>2. Append(s, x)[i] = s[i]
      BY <1>1, <1>3, <3>1
    <3> QED BY <1>1, <1>2, <3>1, <3>2
  <2> QED BY <2>1, <2>2
<1>7. Append(s, x) = t
  BY <1>2, <1>5, <1>6, SeqEqual
<1> QED BY <1>7 DEF s, t, x

LEMMA TextFirst ==
  ASSUME NEW im \in Seq(Pixel), NEW b \in Nat, b <= Len(im)
  PROVE  Text(im, 0, b) \in Seq(Pixel) /\ Len(Text(im, 0, b)) = b /\ \A i \in 1 .. b : Text(im, 0, b)[i] = im[i]
<1>1. /\ Text(im, 0, b) \in Seq(Pixel) /\ Len(Text(im, 0, b)) = b - 0
      /\ \A i \in 1 .. b - 0 : Text(im, 0, b)[i] = im[0 + i]
  BY TextType
<1>2. b - 0 = b /\ \A i \in 1 .. b : 0 + i = i
  OBVIOUS
<1> QED BY <1>1, <1>2

LEMMA TextConcat ==
  ASSUME NEW im \in Seq(Pixel), NEW a \in Nat, NEW b \in Nat, a <= b, b <= Len(im)
  PROVE  Text(im, 0, a) \o Text(im, a, b) = Text(im, 0, b)
<1> DEFINE s == Text(im, 0, a)
           t == Text(im, a, b)
           u == Text(im, 0, b)
<1>1. s \in Seq(Pixel) /\ Len(s) = a /\ \A i \in 1 .. a : s[i] = im[i]
  <2>1. a <= Len(im)
    OBVIOUS
  <2> QED BY <2>1, TextFirst
<1>2. t \in Seq(Pixel) /\ Len(t) = b - a /\ \A i \in 1 .. b - a : t[i] = im[a + i]
  BY TextType
<1>3. u \in Seq(Pixel) /\ Len(u) = b /\ \A i \in 1 .. b : u[i] = im[i]
  BY TextFirst
<1> HIDE DEF s, t, u
<1>4. s \o t \in Seq(Pixel) /\ Len(s \o t) = b
  <2>1. s \o t \in Seq(Pixel) /\ Len(s \o t) = Len(s) + Len(t)
    BY <1>1, <1>2, ConcatProperties
  <2>2. a + (b - a) = b
    OBVIOUS
  <2> QED BY <1>1, <1>2, <2>1, <2>2
<1>5. ASSUME NEW i \in 1 .. b PROVE (s \o t)[i] = u[i]
  <2>1. CASE i <= a
    <3>1. i \in 1 .. Len(s) /\ i \in 1 .. a
      BY <1>1, <2>1
    <3>2. (s \o t)[i] = s[i]
      BY <1>1, <1>2, <3>1, ConcatProperties
    <3> QED BY <1>1, <1>3, <3>1, <3>2
  <2>2. CASE ~(i <= a)
    <3> DEFINE j == i - a
    <3>1. j \in 1 .. b - a /\ a + j = i /\ i \in 1 .. a + (b - a) /\ i > a
      BY <2>2
    <3>2. (s \o t)[i] = t[j]
      BY <1>1, <1>2, <3>1, ConcatProperties
    <3> QED BY <1>2, <1>3, <3>1, <3>2
  <2> QED BY <2>1, <2>2
<1>6. s \o t = u
  BY <1>3, <1>4, <1>5, SeqEqual
<1> QED BY <1>6 DEF s, t, u

LEMMA TextFromFirst ==
  ASSUME NEW im \in Seq(Pixel), NEW n \in Nat, n <= Len(im)
  PROVE  Text(im, 0, n) = SubSeq(im, 1, n)
<1> DEFINE s == Text(im, 0, n)
           t == SubSeq(im, 1, n)
<1>1. s \in Seq(Pixel) /\ Len(s) = n /\ \A i \in 1 .. n : s[i] = im[i]
  BY TextFirst
<1>2. t \in Seq(Pixel) /\ Len(t) = n /\ \A i \in 1 .. n : t[i] = im[i]
  <2>1. \A i \in 1 .. n : im[i] \in Pixel
    OBVIOUS
  <2> QED BY <2>1
<1> HIDE DEF s, t
<1>3. s = t
  BY <1>1, <1>2, SeqEqual
<1> QED BY <1>3 DEF s, t

LEMMA SameText ==
  ASSUME NEW im, NEW a, NEW b, NEW p, NEW q, Same(im, a, b, p, q)
  PROVE  Text(im, a, b) = Text(im, p, q)
BY DEF Same, Text

(* What stands for a text goes on standing for it.                            *)
LEMMA StoodMore ==
  ASSUME NEW im, NEW B, NEW z \in Nat, NEW m \in Nat, NEW c, NEW a, NEW b, Stood(im, B, z, m, c, a, b),
         NEW C, NEW l \in Nat, m <= l, \A k \in z .. z + m : C[k] = B[k]
  PROVE  Stood(im, C, z, l, c, a, b)
<1>1. CASE c < ClearCode /\ b = a + 1 /\ im[b] = c
  BY <1>1 DEF Stood
<1>2. CASE \E j \in 0 .. m - 1 : c = ClearCode + 2 + j /\ Same(im, a, b, B[z + j], B[z + j + 1] + 1)
  <2>1. PICK j \in 0 .. m - 1 : c = ClearCode + 2 + j /\ Same(im, a, b, B[z + j], B[z + j + 1] + 1)
    BY <1>2
  <2>2. j \in 0 .. l - 1 /\ z + j \in z .. z + m /\ z + j + 1 \in z .. z + m
    OBVIOUS
  <2>3. C[z + j] = B[z + j] /\ C[z + j + 1] = B[z + j + 1]
    BY <2>2
  <2> QED BY <2>1, <2>2, <2>3 DEF Stood
<1> QED BY <1>1, <1>2 DEF Stood

(* A code stands for one text only. *)
LEMMA SameWord ==
  ASSUME NEW im, NEW B, NEW z, NEW m \in Nat, NEW l \in Nat, NEW c \in Nat,
         NEW a \in Nat, NEW b \in Nat, NEW p \in Nat, NEW q \in Nat,
         Stood(im, B, z, m, c, a, b), Stood(im, B, z, l, c, p, q)
  PROVE  Same(im, a, b, p, q)
<1>1. ClearCode \in Nat
  BY SizeFacts
<1>2. CASE c < ClearCode
  <2>1. b = a + 1 /\ im[b] = c /\ q = p + 1 /\ im[q] = c
    BY <1>1, <1>2 DEF Stood
  <2>2. b - a = 1 /\ q - p = 1 /\ \A i \in 1 .. 1 : a + i = b /\ p + i = q
    BY <2>1
  <2> QED BY <2>1, <2>2 DEF Same
<1>3. CASE ~(c < ClearCode)
  <2>1. PICK j \in 0 .. m - 1 : c = ClearCode + 2 + j /\ Same(im, a, b, B[z + j], B[z + j + 1] + 1)
    BY <1>3 DEF Stood
  <2>2. PICK i \in 0 .. l - 1 : c = ClearCode + 2 + i /\ Same(im, p, q, B[z + i], B[z + i + 1] + 1)
    BY <1>3 DEF Stood
  <2>3. i = j
    BY <1>1, <2>1, <2>2
  <2> QED BY <2>1, <2>2, <2>3 DEF Same
<1> QED BY <1>2, <1>3

(* Two equal texts and an equal pixel behind them. *)
LEMMA SameMore ==
  ASSUME NEW im, NEW a \in Nat, NEW b \in Nat, NEW p \in Nat, NEW q \in Nat, a <= b, Same(im, a, b, p, q),
         im[b + 1] = im[q + 1]
  PROVE  Same(im, a, b + 1, p, q + 1)
<1>1. b - a = q - p /\ \A i \in 1 .. b - a : im[a + i] = im[p + i]
  BY DEF Same
<1>2. (b + 1) - a = (q + 1) - p
  BY <1>1
<1>3. ASSUME NEW i \in 1 .. (b + 1) - a PROVE im[a + i] = im[p + i]
  <2>1. CASE i = (b + 1) - a
    <3>1. a + i = b + 1 /\ p + i = q + 1
      BY <1>2, <2>1
    <3> QED BY <3>1
  <2>2. CASE i # (b + 1) - a
    <3>1. i \in 1 .. b - a
      BY <2>2
    <3> QED BY <1>1, <3>1
  <2> QED BY <2>1, <2>2
<1> QED BY <1>2, <1>3 DEF Same

(* A code more.                                                               *)
Follow(im, cs, M, B, x, N, C) ==
  /\ Spelled(im, Append(cs, x), N, C)
  /\ N[Len(cs) + 1] = (IF x.code = ClearCode THEN 0 ELSE M[Len(cs)] + 1)
  /\ \A k \in 0 .. Len(cs) : N[k] = M[k] /\ C[k] = B[k]

LEMMA CountedMore ==
  ASSUME NEW cs \in Seq(Coded), NEW M, Counted(cs, M), NEW x \in Coded, NEW N,
         N \in [0 .. Len(cs) + 1 -> Nat], \A k \in 0 .. Len(cs) : N[k] = M[k],
         N[Len(cs) + 1] = IF x.code = ClearCode THEN 0 ELSE M[Len(cs)] + 1
  PROVE  Counted(Append(cs, x), N)
<1> DEFINE n == Len(cs)
           ds == Append(cs, x)
<1>1. n \in Nat /\ Len(ds) = n + 1 /\ ds[n + 1] = x /\ \A k \in 1 .. n : ds[k] = cs[k]
  OBVIOUS
<1>2. /\ M \in [0 .. n -> Nat] /\ N \in [0 .. n + 1 -> Nat]
      /\ \A k \in 0 .. n : M[k] <= k /\ \A i \in 0 .. M[k] : M[k - i] = M[k] - i
      /\ \A k \in 0 .. n - 1 : M[k + 1] = IF cs[k + 1].code = ClearCode THEN 0 ELSE M[k] + 1
      /\ N[n + 1] = IF x.code = ClearCode THEN 0 ELSE M[n] + 1
      /\ \A k \in 0 .. n : N[k] = M[k]
  BY DEF Counted
<1> HIDE DEF n, ds
<1>3. ASSUME NEW k \in 0 .. n + 1
      PROVE  N[k] <= k /\ \A i \in 0 .. N[k] : N[k - i] = N[k] - i
  <2>1. CASE k \in 0 .. n
    <3>1. N[k] = M[k] /\ M[k] <= k /\ M[k] \in Nat
      BY <1>2, <2>1
    <3>2. ASSUME NEW i \in 0 .. N[k] PROVE N[k - i] = N[k] - i
      <4>1. k - i \in 0 .. n /\ i \in 0 .. M[k]
        BY <1>1, <2>1, <3>1
      <4> QED BY <1>2, <2>1, <3>1, <4>1
    <3> QED BY <3>1, <3>2
  <2>2. CASE k = n + 1 /\ x.code = ClearCode
    <3>1. N[k] = 0
      BY <1>2, <2>2
    <3> QED BY <3>1
  <2>3. CASE k = n + 1 /\ x.code # ClearCode
    <3>1. n \in 0 .. n
      BY <1>1
    <3>2. N[k] = M[n] + 1 /\ M[n] \in Nat /\ M[n] <= n
      BY <1>2, <2>3, <3>1
    <3>3. ASSUME NEW i \in 0 .. N[k] PROVE N[k - i] = N[k] - i
      <4>1. CASE i = 0
        BY <2>3, <3>2, <4>1
      <4>2. CASE i # 0
        <5> DEFINE h == i - 1
        <5>1. h \in 0 .. M[n] /\ k - i = n - h /\ n - h \in 0 .. n /\ N[k] - i = M[n] - h
          BY <1>1, <2>3, <3>2, <4>2
        <5>2. M[n - h] = M[n] - h /\ N[n - h] = M[n - h]
          BY <1>2, <3>1, <5>1
        <5> QED BY <5>1, <5>2
      <4> QED BY <4>1, <4>2
    <3> QED BY <1>1, <2>3, <3>2, <3>3
  <2> QED BY <1>1, <2>1, <2>2, <2>3
<1>4. ASSUME NEW k \in 0 .. n
      PROVE  N[k + 1] = IF ds[k + 1].code = ClearCode THEN 0 ELSE N[k] + 1
  <2>1. CASE k = n
    <3>1. N[k] = M[n]
      BY <1>2, <2>1
    <3> QED BY <1>1, <1>2, <2>1, <3>1
  <2>2. CASE k # n
    <3>1. k \in 0 .. n - 1 /\ k + 1 \in 0 .. n /\ k + 1 \in 1 .. n
      BY <1>1, <2>2
    <3>2. N[k + 1] = M[k + 1] /\ N[k] = M[k] /\ ds[k + 1] = cs[k + 1]
      BY <1>1, <1>2, <3>1
    <3> QED BY <1>2, <3>1, <3>2
  <2> QED BY <2>1, <2>2
<1>5. Len(ds) - 1 = n
  BY <1>1
<1>6. Counted(ds, N)
  BY <1>1, <1>2, <1>3, <1>4, <1>5 DEF Counted
<1> QED BY <1>6 DEF ds

LEMMA SpelledMore ==
  ASSUME NEW im \in Seq(Pixel), NEW cs \in Seq(Coded), NEW M, NEW B, Spelled(im, cs, M, B), NEW x \in Coded,
         NEW b \in B[Len(cs)] .. Len(im),
         IF x.code \in {ClearCode, EOFCode} THEN b = B[Len(cs)]
         ELSE Stood(im, B, Len(cs) - M[Len(cs)], M[Len(cs)], x.code, B[Len(cs)], b)
  PROVE  \E N, C : Follow(im, cs, M, B, x, N, C) /\ C[Len(cs) + 1] = b
<1> DEFINE n == Len(cs)
           ds == Append(cs, x)
           l == IF x.code = ClearCode THEN 0 ELSE M[n] + 1
           N == [k \in 0 .. n + 1 |-> IF k = n + 1 THEN l ELSE M[k]]
           C == [k \in 0 .. n + 1 |-> IF k = n + 1 THEN b ELSE B[k]]
<1>1. n \in Nat /\ Len(ds) = n + 1 /\ ds[n + 1] = x /\ (\A k \in 1 .. n : ds[k] = cs[k]) /\ Len(im) \in Nat
  OBVIOUS
<1>2. /\ M \in [0 .. n -> Nat] /\ B \in [0 .. n -> 0 .. Len(im)] /\ B[0] = 0
      /\ \A k \in 0 .. n : M[k] <= k
      /\ \A i, k \in 0 .. n : i <= k => B[i] <= B[k]
      /\ \A k \in 0 .. n - 1 :
           IF cs[k + 1].code \in {ClearCode, EOFCode} THEN B[k + 1] = B[k]
           ELSE Stood(im, B, k - M[k], M[k], cs[k + 1].code, B[k], B[k + 1])
  BY DEF Spelled, Counted
<1>3. IF x.code \in {ClearCode, EOFCode} THEN b = B[n] ELSE Stood(im, B, n - M[n], M[n], x.code, B[n], b)
  OBVIOUS
<1>4. b \in B[n] .. Len(im)
  OBVIOUS
<1> HIDE DEF n
<1>5. n \in 0 .. n /\ 0 \in 0 .. n
  BY <1>1
<1>6. M[n] \in Nat /\ B[n] \in 0 .. Len(im) /\ l \in Nat /\ b \in 0 .. Len(im) /\ b >= B[n]
  <2>1. M[n] \in Nat /\ B[n] \in 0 .. Len(im)
    BY <1>2, <1>5
  <2> QED BY <1>1, <1>4, <2>1
<1> HIDE DEF l
<1>7. N \in [0 .. n + 1 -> Nat] /\ N[n + 1] = l /\ \A k \in 0 .. n : N[k] = M[k]
  <2>1. ASSUME NEW k \in 0 .. n + 1 PROVE (IF k = n + 1 THEN l ELSE M[k]) \in Nat
    <3>1. k = n + 1 \/ k \in 0 .. n
      BY <1>1
    <3> QED BY <1>2, <1>6, <3>1
  <2>2. n + 1 \in 0 .. n + 1 /\ \A k \in 0 .. n : k \in 0 .. n + 1 /\ k # n + 1
    BY <1>1
  <2> QED BY <2>1, <2>2
<1>8. C \in [0 .. n + 1 -> 0 .. Len(im)] /\ C[n + 1] = b /\ \A k \in 0 .. n : C[k] = B[k]
  <2>1. ASSUME NEW k \in 0 .. n + 1 PROVE (IF k = n + 1 THEN b ELSE B[k]) \in 0 .. Len(im)
    <3>1. k = n + 1 \/ k \in 0 .. n
      BY <1>1
    <3> QED BY <1>2, <1>6, <3>1
  <2>2. n + 1 \in 0 .. n + 1 /\ \A k \in 0 .. n : k \in 0 .. n + 1 /\ k # n + 1
    BY <1>1
  <2> QED BY <2>1, <2>2
<1> HIDE DEF N, C, ds
<1>9. Counted(ds, N)
  <2>1. Counted(cs, M)
    BY DEF Spelled
  <2> QED BY <1>7, <2>1, CountedMore DEF n, l, ds
<1>10. ASSUME NEW i \in 0 .. n + 1, NEW k \in 0 .. n + 1, i <= k
       PROVE  C[i] <= C[k]
  <2>1. CASE k \in 0 .. n
    <3>1. i \in 0 .. n
      BY <1>1, <1>10, <2>1
    <3> QED BY <1>2, <1>8, <1>10, <2>1, <3>1
  <2>2. CASE k = n + 1 /\ i \in 0 .. n
    <3>1. i <= n
      BY <1>1, <2>2
    <3>2. B[i] <= B[n] /\ B[i] \in 0 .. Len(im)
      BY <1>2, <1>5, <2>2, <3>1
    <3>3. C[i] = B[i] /\ C[k] = b
      BY <1>8, <2>2
    <3> QED BY <1>1, <1>6, <3>2, <3>3
  <2>3. CASE k = n + 1 /\ i = n + 1
    BY <1>1, <1>6, <1>8, <2>3
  <2> QED BY <1>1, <2>1, <2>2, <2>3
<1>11. ASSUME NEW k \in 0 .. n
       PROVE  IF ds[k + 1].code \in {ClearCode, EOFCode} THEN C[k + 1] = C[k]
              ELSE Stood(im, C, k - N[k], N[k], ds[k + 1].code, C[k], C[k + 1])
  <2> DEFINE b1 == IF k = n THEN b ELSE B[k + 1]
             y == ds[k + 1].code
  <2>1. C[k] = B[k] /\ N[k] = M[k] /\ M[k] \in Nat /\ M[k] <= k
    BY <1>2, <1>7, <1>8
  <2>2. C[k + 1] = b1 /\ (y \in {ClearCode, EOFCode} => b1 = B[k])
        /\ (y \notin {ClearCode, EOFCode} => Stood(im, B, k - M[k], M[k], y, B[k], b1))
    <3>1. CASE k = n
      BY <1>1, <1>3, <1>8, <3>1
    <3>2. CASE k # n
      <4>1. k \in 0 .. n - 1 /\ k + 1 \in 0 .. n /\ k + 1 \in 1 .. n
        BY <1>1, <3>2
      <4>2. C[k + 1] = B[k + 1] /\ ds[k + 1] = cs[k + 1]
        BY <1>1, <1>8, <4>1
      <4> QED BY <1>2, <3>2, <4>1, <4>2
    <3> QED BY <3>1, <3>2
  <2> HIDE DEF b1, y
  <2>3. ASSUME y \notin {ClearCode, EOFCode} PROVE Stood(im, C, k - M[k], M[k], y, B[k], b1)
    <3> DEFINE m == M[k]
               z == k - m
    <3>1. m \in Nat /\ z \in Nat /\ m <= m /\ \A h \in z .. z + m : h \in 0 .. n
      BY <1>1, <2>1
    <3>2. \A h \in z .. z + m : C[h] = B[h]
      BY <1>8, <3>1
    <3>3. Stood(im, B, z, m, y, B[k], b1)
      BY <2>2, <2>3
    <3> HIDE DEF m, z
    <3>4. Stood(im, C, z, m, y, B[k], b1)
      BY <3>1, <3>2, <3>3, StoodMore
    <3> QED BY <3>4 DEF m, z
  <2>4. IF y \in {ClearCode, EOFCode} THEN C[k + 1] = C[k] ELSE Stood(im, C, k - N[k], N[k], y, C[k], C[k + 1])
    BY <2>1, <2>2, <2>3
  <2> QED BY <2>4 DEF y
<1>12. Len(ds) - 1 = n /\ C[0] = 0
  BY <1>1, <1>2, <1>5, <1>8
<1>13. Spelled(im, ds, N, C)
  BY <1>1, <1>8, <1>9, <1>10, <1>11, <1>12 DEF Spelled
<1>14. Follow(im, cs, M, B, x, N, C) /\ C[Len(cs) + 1] = b
  BY <1>7, <1>8, <1>13 DEF Follow, ds, l, n
<1> QED BY <1>14

(* The codes since the last clear code are those of the entries.              *)
LEMMA EntryCode ==
  ASSUME NEW im, NEW cs \in Seq(Coded), NEW M, NEW B, Spelled(im, cs, M, B),
         NEW r \in 0 .. Len(cs), NEW j \in 0 .. M[r] - 1
  PROVE  LET k == (r - M[r]) + j IN
         /\ k \in 0 .. Len(cs) - 1 /\ k + 1 \in 1 .. r /\ M[k] = j /\ M[k + 1] = j + 1
         /\ cs[k + 1] \in Coded /\ cs[k + 1].code # ClearCode
         /\ cs[k + 1].code # EOFCode => Stood(im, B, r - M[r], j, cs[k + 1].code, B[k], B[k + 1])
<1> DEFINE n == Len(cs)
           m == M[r]
           k == (r - m) + j
<1>1. /\ n \in Nat /\ r \in 0 .. n /\ m \in Nat /\ m <= r
      /\ \A i \in 0 .. m : M[r - i] = m - i
      /\ \A h \in 0 .. n - 1 : M[h + 1] = IF cs[h + 1].code = ClearCode THEN 0 ELSE M[h] + 1
      /\ \A h \in 0 .. n - 1 : cs[h + 1].code \notin {ClearCode, EOFCode} =>
                              Stood(im, B, h - M[h], M[h], cs[h + 1].code, B[h], B[h + 1])
  BY DEF Spelled, Counted
<1> HIDE DEF n, m
<1>2. j \in 0 .. m - 1
  BY DEF m
<1>3. k \in 0 .. n - 1 /\ k + 1 \in 1 .. r /\ k \in Nat /\ k - j = r - m
  BY <1>1, <1>2
<1>4. M[k] = j /\ M[k + 1] = j + 1
  <2>1. m - j \in 0 .. m /\ r - (m - j) = k /\ m - (m - j) = j
    BY <1>1, <1>2
  <2>2. (m - j) - 1 \in 0 .. m /\ r - ((m - j) - 1) = k + 1 /\ m - ((m - j) - 1) = j + 1
    BY <1>1, <1>2
  <2>3. M[r - (m - j)] = m - (m - j) /\ M[r - ((m - j) - 1)] = m - ((m - j) - 1)
    BY <1>1, <2>1, <2>2
  <2> QED BY <2>1, <2>2, <2>3
<1> HIDE DEF k
<1>5. cs[k + 1].code # ClearCode
  BY <1>1, <1>2, <1>3, <1>4
<1>6. cs[k + 1] \in Coded
  <2>1. k + 1 \in 1 .. Len(cs)
    BY <1>1, <1>3 DEF n
  <2> QED BY <2>1
<1>7. cs[k + 1].code # EOFCode => Stood(im, B, r - m, j, cs[k + 1].code, B[k], B[k + 1])
  BY <1>1, <1>3, <1>4, <1>5
<1> QED BY <1>3, <1>4, <1>5, <1>6, <1>7 DEF k, m, n

(* Pixels up to a code, and the one behind an older code.                     *)
LEMMA Bounds ==
  ASSUME NEW im \in Seq(Pixel), NEW cs \in Seq(Coded), NEW M, NEW B, Spelled(im, cs, M, B),
         NEW r \in 0 .. Len(cs)
  PROVE  /\ M[r] \in Nat /\ r - M[r] \in Nat /\ B[r] \in Nat /\ B[r] <= Len(im)
         /\ \A k \in 0 .. r : B[k] \in Nat /\ B[k] <= B[r]
         /\ B[r] < Len(im) => \A k \in 0 .. r : im[B[k] + 1] \in Pixel
<1>1. /\ Len(cs) \in Nat /\ Len(im) \in Nat /\ M[r] \in Nat /\ M[r] <= r
      /\ B \in [0 .. Len(cs) -> 0 .. Len(im)] /\ \A i, k \in 0 .. Len(cs) : i <= k => B[i] <= B[k]
  BY DEF Spelled, Counted
<1>2. r - M[r] \in Nat
  BY <1>1
<1>3. B[r] \in 0 .. Len(im)
  BY <1>1
<1>4. ASSUME NEW k \in 0 .. r PROVE B[k] \in Nat /\ B[k] <= B[r]
  <2>1. k \in 0 .. Len(cs) /\ k <= r
    BY <1>1
  <2>2. B[k] \in 0 .. Len(im)
    BY <1>1, <2>1
  <2> QED BY <1>1, <2>1, <2>2
<1>5. ASSUME B[r] < Len(im), NEW k \in 0 .. r PROVE im[B[k] + 1] \in Pixel
  <2> DEFINE b == B[k]
             c == B[r]
  <2>1. b \in Nat /\ b <= c /\ c \in Nat /\ c < Len(im)
    BY <1>3, <1>4, <1>5
  <2> HIDE DEF b, c
  <2>2. b + 1 \in 1 .. Len(im)
    BY <1>1, <2>1
  <2>3. im[b + 1] \in Pixel
    BY <2>2
  <2> QED BY <2>3 DEF b
<1>6. B[r] \in Nat /\ B[r] <= Len(im)
  BY <1>1, <1>3
<1> QED BY <1>1, <1>2, <1>4, <1>5, <1>6

(* A pair of the table stands for the text so far and the pixel behind it.    *)
LEMMA MatchStands ==
  ASSUME NEW im \in Seq(Pixel), NEW cs \in Seq(Coded), \A k \in 1 .. Len(cs) : cs[k].code < maxmaxcode,
         Unended(cs), NEW M, NEW B, Spelled(im, cs, M, B),
         NEW e \in EncType, e.ent < maxmaxcode, NEW a \in Nat, a < Len(im), e.c = im[a + 1],
         Stood(im, B, Len(cs) - M[Len(cs)], M[Len(cs)], e.ent, B[Len(cs)], a),
         Stored(im, e, cs, B, Len(cs) - M[Len(cs)], M[Len(cs)]),
         NEW s \in Slot, e.htab[s] = fcode(e)
  PROVE  Stood(im, B, Len(cs) - M[Len(cs)], M[Len(cs)], e.codetab[s], B[Len(cs)], a + 1)
<1> DEFINE n == Len(cs)
           m == M[n]
           z == n - m
<1>1. n \in 0 .. Len(cs) /\ n \in Nat
  OBVIOUS
<1>2. /\ m \in Nat /\ z \in Nat /\ B[n] \in Nat
      /\ \A k \in 0 .. n : B[k] \in Nat /\ B[k] <= B[n]
      /\ B[n] < Len(im) => \A k \in 0 .. n : im[B[k] + 1] \in Pixel
  BY <1>1, Bounds
<1>3. e.ent \in Nat /\ e.c \in Nat /\ e.htab[s] = e.c * Pow2[BITS] + e.ent /\ e.htab[s] \in Nat
  BY EncFields, CodeNat DEF fcode
<1>4. Stood(im, B, z, m, e.ent, B[n], a) /\ Stored(im, e, cs, B, z, m)
  OBVIOUS
<1>5. PICK j \in 0 .. m - 1 :
        /\ e.codetab[s] = ClearCode + 2 + j
        /\ e.htab[s] = im[B[z + j + 1] + 1] * Pow2[BITS] + cs[z + j + 1].code
  <2>1. e.htab[s] >= 0
    BY <1>3
  <2> QED BY <1>4, <2>1 DEF Stored
<1> DEFINE k == z + j
           y == cs[k + 1].code
           x == im[B[k + 1] + 1]
<1>6. /\ k \in 0 .. n - 1 /\ k + 1 \in 1 .. n /\ cs[k + 1] \in Coded
      /\ y # EOFCode => Stood(im, B, z, j, y, B[k], B[k + 1])
  <2>1. j \in 0 .. M[n] - 1
    BY <1>5
  <2> QED BY <1>1, <2>1, EntryCode
<1> HIDE DEF n, m, z, k
<1>7. y \in Nat /\ y < maxmaxcode /\ y # EOFCode
  <2>1. y \in Nat
    BY <1>6 DEF Coded
  <2>2. k + 1 \in 1 .. Len(cs)
    BY <1>6 DEF n
  <2> QED BY <2>1, <2>2 DEF Unended
<1>8. x \in Nat /\ B[k] \in Nat /\ B[k + 1] \in Nat /\ B[n] < a
  <2>1. k \in 0 .. n /\ k + 1 \in 0 .. n
    BY <1>1, <1>6
  <2>2. B[n] < a
    BY <1>4 DEF Stood
  <2>3. B[n] < Len(im)
    <3> DEFINE b == B[n]
    <3>1. b \in Nat /\ b < a
      BY <1>2, <2>2
    <3> HIDE DEF b
    <3>2. b < Len(im)
      BY <3>1
    <3> QED BY <3>2 DEF b
  <2>4. x \in Pixel
    BY <1>2, <2>1, <2>3
  <2>5. Pixel \subseteq Nat
    BY SizeFacts DEF Pixel
  <2> QED BY <1>2, <2>1, <2>2, <2>4, <2>5
<1>9. e.c = x /\ e.ent = y
  <2> DEFINE p == Pow2[BITS]
             h == e.htab[s]
             c == e.c
             ent == e.ent
  <2>1. p \in Nat \ {0} /\ y \in 0 .. p - 1 /\ ent \in 0 .. p - 1
    <3>1. p = maxmaxcode
      BY DEF maxmaxcode
    <3>2. p \in Nat \ {0}
      BY <3>1, SizeFacts
    <3>3. y < p /\ ent < p /\ ent \in Nat
      BY <1>3, <1>7, <3>1
    <3> HIDE DEF p, ent, y
    <3> QED BY <1>7, <3>2, <3>3
  <2>2. h = x * p + y /\ h = c * p + ent /\ h \in Nat /\ c \in Nat
    BY <1>3, <1>5 DEF k
  <2> HIDE DEF p, h, c, ent, x, y
  <2>3. x \in Int /\ c \in Int /\ h \in Int
    BY <1>8, <2>2
  <2>4. h \div p = x /\ h % p = y
    BY ONLY <2>1, <2>2, <2>3, DivUnique
  <2>5. h \div p = c /\ h % p = ent
    BY ONLY <2>1, <2>2, <2>3, DivUnique
  <2> QED BY <2>4, <2>5 DEF c, ent
<1>10. Same(im, B[n], a, B[k], B[k + 1])
  <2>1. Stood(im, B, z, m, y, B[n], a) /\ Stood(im, B, z, j, y, B[k], B[k + 1])
    BY <1>4, <1>6, <1>7, <1>9
  <2>2. j \in Nat
    BY <1>2, <1>5
  <2> HIDE DEF y
  <2> QED BY <1>2, <1>7, <1>8, <2>1, <2>2, SameWord
<1>11. Same(im, B[n], a + 1, B[k], B[k + 1] + 1)
  <2>1. im[a + 1] = im[B[k + 1] + 1] /\ B[n] <= a
    BY <1>2, <1>8, <1>9
  <2> QED BY <1>2, <1>8, <1>10, <2>1, SameMore
<1>12. B[n] < a + 1 /\ a + 1 <= Len(im)
  BY <1>2, <1>8
<1>13. Stood(im, B, z, m, e.codetab[s], B[n], a + 1)
  BY <1>5, <1>11, <1>12 DEF Stood, k
<1> QED BY <1>13 DEF n, m, z

(* The search of the table writes nothing.                                    *)
LEMMA WritingOn ==
  ASSUME NEW im, NEW cs, NEW M, NEW B, NEW e, NEW f, Writing(im, e, cs, M, B), SameCode(f, e),
         f.curPixel \in 1 .. Len(im), f.pc # "pixel" => f.c = im[f.curPixel],
         Stood(im, B, Len(cs) - M[Len(cs)], M[Len(cs)], f.ent, B[Len(cs)], Matched(f))
  PROVE  Writing(im, f, cs, M, B)
BY DEF Writing, Stored, SameCode

LEMMA StreamCodes ==
  ASSUME EncoderInv, StreamInv, enc.pc \in {"pixel", "probe", "emit"}
  PROVE  /\ enc \in EncType /\ Running(enc) /\ codes \in Seq(Coded) /\ Unended(codes)
         /\ \A k \in 1 .. Len(codes) : codes[k].code < maxmaxcode
         /\ image \in Seq(Pixel) /\ Len(image) \in Nat \ {0} /\ enc.ent \in Nat /\ enc.ent < maxmaxcode
         /\ enc.curPixel \in Nat
<1>1. enc \in EncType /\ Running(enc) /\ codes \in Seq(Coded) /\ image \in Images
  BY StreamCoded DEF EncoderInv
<1>2. Unended(codes)
  BY DEF StreamInv, Carrying
<1>3. \A k \in 1 .. Len(codes) : codes[k].code < maxmaxcode
  BY <1>1 DEF EncoderInv, CodesFit
<1>4. enc.ent \in Nat /\ enc.ent < maxmaxcode
  BY <1>1, EntFits
<1> QED BY <1>1, <1>2, <1>3, <1>4, ImageType, EncFields

LEMMA FirstSlot ==
  ASSUME NEW x \in Nat, NEW y \in Nat
  PROVE  Xor(x * Pow2[HSHIFT], y) \in Slot
<1> DEFINE p == Pow2[HSHIFT]
<1>1. p \in Nat
  BY SizesAssumption, Pow2Type
<1> HIDE DEF p
<1>2. x * p \in Nat
  BY <1>1
<1>3. Xor(x * p, y) \in 0 .. maxmaxcode - 1
  BY <1>2, XorInside
<1> QED BY <1>3, SlotZero DEF p

LEMMA NextPixelSpells ==
  ASSUME EncoderInv, StreamInv, SpellInv, NextPixel, UNCHANGED image
  PROVE  SpellInv'
<1> DEFINE c == image[enc.curPixel + 1]
           s == Xor(c * Pow2[HSHIFT], enc.ent)
           cur == enc.curPixel + 1
           e == [enc EXCEPT !.curPixel = cur, !.c = c, !.i = s]
           pc == IF e.htab[s] >= 0 THEN "probe" ELSE "emit"
           d == IF s = 0 THEN 1 ELSE HSIZE - s
           f == [e EXCEPT !.pc = pc, !.disp = d]
           x == e.codetab[s]
           h == [e EXCEPT !.pc = "pixel", !.ent = x]
<1>1. /\ enc.pc = "pixel" /\ enc.curPixel < Len(image) /\ codes' = codes /\ image' = image
      /\ enc' = IF e.htab[s] = fcode(e) THEN h ELSE f
  BY DEF NextPixel, Match
<1>2. /\ enc \in EncType /\ Running(enc) /\ codes \in Seq(Coded) /\ Unended(codes)
      /\ \A k \in 1 .. Len(codes) : codes[k].code < maxmaxcode
      /\ image \in Seq(Pixel) /\ Len(image) \in Nat \ {0} /\ enc.ent \in Nat /\ enc.ent < maxmaxcode
      /\ enc.curPixel \in Nat
  BY <1>1, StreamCodes
<1>3. PICK M, B : Spelled(image, codes, M, B) /\ Writing(image, enc, codes, M, B)
  BY <1>1 DEF SpellInv
<1> DEFINE n == Len(codes)
           m == M[n]
<1>4. Stood(image, B, n - m, m, enc.ent, B[n], enc.curPixel) /\ Stored(image, enc, codes, B, n - m, m)
      /\ enc.curPixel \in 1 .. Len(image)
  BY <1>1, <1>3 DEF Writing, Matched
<1>5. cur \in 1 .. Len(image) /\ cur - 1 = enc.curPixel /\ cur \in Nat
  BY <1>1, <1>2
<1>6. c \in Pixel /\ c \in Nat
  <2>1. c \in Pixel
    BY <1>2, <1>5
  <2> QED BY <2>1, SizeFacts DEF Pixel
<1>7. s \in Slot
  BY <1>2, <1>6, FirstSlot
<1>8. c = image[cur]
  OBVIOUS
<1> HIDE DEF c, s, cur, n, m
<1>9. s \in Nat
  BY <1>7 DEF Slot
<1>10. /\ e \in EncType /\ SameCode(e, enc) /\ e.curPixel = cur /\ e.c = c /\ e.ent = enc.ent
       /\ e.i = s /\ e.pc = "pixel"
  BY <1>1, <1>2, <1>5, <1>6, <1>9 DEF EncType, SameCode
<1> HIDE DEF e
<1>11. f.pc = pc /\ SameCode(f, e) /\ f.curPixel = cur /\ f.c = c /\ f.ent = enc.ent
  <2> HIDE DEF pc, d
  <2> QED BY <1>10 DEF EncType, SameCode
<1>12. h.pc = "pixel" /\ SameCode(h, e) /\ h.curPixel = cur /\ h.ent = e.codetab[s]
  <2> HIDE DEF x
  <2>1. h.pc = "pixel" /\ SameCode(h, e) /\ h.curPixel = cur /\ h.ent = x
    BY <1>10 DEF EncType, SameCode
  <2> QED BY <2>1 DEF x
<1>13. pc \in {"probe", "emit"}
  OBVIOUS
<1> HIDE DEF f, h, pc, x, d
<1>14. SameCode(f, enc) /\ SameCode(h, enc)
  BY <1>10, <1>11, <1>12 DEF SameCode
<1>15. CASE e.htab[s] = fcode(e)
  <2>1. Stored(image, e, codes, B, n - m, m)
    BY <1>4, <1>10 DEF Stored, SameCode
  <2>2. e.ent < maxmaxcode /\ enc.curPixel \in Nat /\ e.c = image[enc.curPixel + 1]
        /\ Stood(image, B, n - m, m, e.ent, B[n], enc.curPixel)
    BY <1>2, <1>4, <1>10 DEF c
  <2>3. Stood(image, B, n - m, m, e.codetab[s], B[n], enc.curPixel + 1)
    BY <1>1, <1>2, <1>3, <1>7, <1>10, <1>15, <2>1, <2>2, MatchStands DEF n, m
  <2>4. Matched(h) = enc.curPixel + 1
    BY <1>12 DEF Matched, cur
  <2>5. Writing(image, h, codes, M, B)
    BY <1>3, <1>5, <1>12, <1>14, <2>3, <2>4, WritingOn DEF n, m
  <2> QED BY <1>1, <1>3, <1>12, <1>15, <2>5 DEF SpellInv
<1>16. CASE e.htab[s] # fcode(e)
  <2>1. Matched(f) = enc.curPixel
    BY <1>5, <1>11, <1>13 DEF Matched
  <2>2. Writing(image, f, codes, M, B)
    BY <1>3, <1>4, <1>5, <1>8, <1>11, <1>14, <2>1, WritingOn DEF n, m
  <2> QED BY <1>1, <1>3, <1>11, <1>13, <1>16, <2>2 DEF SpellInv
<1> QED BY <1>15, <1>16

LEMMA ProbeSpells ==
  ASSUME EncoderInv, StreamInv, SpellInv, Probe, UNCHANGED image
  PROVE  SpellInv'
<1> DEFINE back == enc.i - enc.disp
           s == IF back < 0 THEN back + HSIZE ELSE back
           e == [enc EXCEPT !.i = s]
           pc == IF e.htab[s] >= 0 THEN "probe" ELSE "emit"
           f == [e EXCEPT !.pc = pc]
           x == e.codetab[s]
           h == [e EXCEPT !.pc = "pixel", !.ent = x]
<1>1. enc.pc = "probe" /\ codes' = codes /\ image' = image /\ enc' = IF e.htab[s] = fcode(e) THEN h ELSE f
  BY DEF Probe, Match
<1>2. /\ enc \in EncType /\ Running(enc) /\ codes \in Seq(Coded) /\ Unended(codes)
      /\ \A k \in 1 .. Len(codes) : codes[k].code < maxmaxcode
      /\ image \in Seq(Pixel) /\ Len(image) \in Nat \ {0} /\ enc.ent \in Nat /\ enc.ent < maxmaxcode
      /\ enc.curPixel \in Nat
  BY <1>1, StreamCodes
<1>3. PICK M, B : Spelled(image, codes, M, B) /\ Writing(image, enc, codes, M, B)
  BY <1>1 DEF SpellInv
<1> DEFINE n == Len(codes)
           m == M[n]
           a == enc.curPixel - 1
<1>4. Stood(image, B, n - m, m, enc.ent, B[n], a) /\ Stored(image, enc, codes, B, n - m, m)
      /\ enc.curPixel \in 1 .. Len(image) /\ enc.c = image[enc.curPixel]
  BY <1>1, <1>3 DEF Writing, Matched
<1>5. a \in Nat /\ a < Len(image) /\ a + 1 = enc.curPixel
  BY <1>2, <1>4
<1>6. s \in Slot /\ s \in Nat
  <2>1. enc.i \in 0 .. HSIZE - 1 /\ enc.disp \in 0 .. HSIZE
    BY DEF EncoderInv, Probing, Slot
  <2> QED BY <2>1, SlotZero DEF Slot
<1> HIDE DEF s, n, m, a
<1>7. /\ e \in EncType /\ SameCode(e, enc) /\ e.curPixel = enc.curPixel /\ e.c = enc.c /\ e.ent = enc.ent
      /\ e.i = s
  BY <1>2, <1>6 DEF EncType, SameCode
<1> HIDE DEF e
<1>8. f.pc = pc /\ SameCode(f, e) /\ f.curPixel = enc.curPixel /\ f.c = enc.c /\ f.ent = enc.ent
  <2> HIDE DEF pc
  <2> QED BY <1>7 DEF EncType, SameCode
<1>9. h.pc = "pixel" /\ SameCode(h, e) /\ h.curPixel = enc.curPixel /\ h.ent = e.codetab[s]
  <2> HIDE DEF x
  <2>1. h.pc = "pixel" /\ SameCode(h, e) /\ h.curPixel = enc.curPixel /\ h.ent = x
    BY <1>7 DEF EncType, SameCode
  <2> QED BY <2>1 DEF x
<1>10. pc \in {"probe", "emit"}
  OBVIOUS
<1> HIDE DEF f, h, pc, x
<1>11. SameCode(f, enc) /\ SameCode(h, enc)
  BY <1>7, <1>8, <1>9 DEF SameCode
<1>12. CASE e.htab[s] = fcode(e)
  <2>1. Stored(image, e, codes, B, n - m, m)
    BY <1>4, <1>7 DEF Stored, SameCode
  <2>2. e.ent < maxmaxcode /\ e.c = image[a + 1] /\ Stood(image, B, n - m, m, e.ent, B[n], a)
    BY <1>2, <1>4, <1>5, <1>7
  <2>3. Stood(image, B, n - m, m, e.codetab[s], B[n], a + 1)
    BY <1>2, <1>3, <1>5, <1>6, <1>7, <1>12, <2>1, <2>2, MatchStands DEF n, m
  <2>4. Matched(h) = a + 1
    BY <1>5, <1>9 DEF Matched
  <2>5. Writing(image, h, codes, M, B)
    BY <1>3, <1>4, <1>9, <1>11, <2>3, <2>4, WritingOn DEF n, m
  <2> QED BY <1>1, <1>3, <1>9, <1>12, <2>5 DEF SpellInv
<1>13. CASE e.htab[s] # fcode(e)
  <2>1. Matched(f) = a
    BY <1>8, <1>10 DEF Matched, a
  <2>2. Writing(image, f, codes, M, B)
    BY <1>3, <1>4, <1>8, <1>11, <2>1, WritingOn DEF n, m
  <2> QED BY <1>1, <1>3, <1>8, <1>10, <1>13, <2>2 DEF SpellInv
<1> QED BY <1>12, <1>13

LEMMA SpelledNone ==
  ASSUME NEW im \in Seq(Pixel)
  PROVE  \E M, B : Spelled(im, <<>>, M, B) /\ M[0] = 0 /\ B[0] = 0
<1> DEFINE M == [k \in 0 .. 0 |-> 0]
<1>1. /\ Len(<<>>) = 0 /\ Len(im) \in Nat /\ M[0] = 0 /\ 0 .. 0 - 1 = {} /\ 0 .. 0 = {0}
      /\ M \in [0 .. 0 -> Nat] /\ M \in [0 .. 0 -> 0 .. Len(im)]
  OBVIOUS
<1> HIDE DEF M
<1>2. \A k \in 0 .. 0 : M[k] <= k /\ \A i \in 0 .. M[k] : M[k - i] = M[k] - i
  BY <1>1
<1>3. Counted(<<>>, M)
  BY <1>1, <1>2 DEF Counted
<1>4. \A i, k \in 0 .. 0 : i <= k => M[i] <= M[k]
  BY <1>1
<1>5. Spelled(im, <<>>, M, M)
  BY <1>1, <1>3, <1>4 DEF Spelled
<1> QED BY <1>1, <1>5

(* A pixel stands for itself. *)
LEMMA PixelStands ==
  ASSUME NEW im \in Seq(Pixel), NEW B, NEW z, NEW m, NEW a \in Nat, a < Len(im)
  PROVE  Stood(im, B, z, m, im[a + 1], a, a + 1)
<1>1. a + 1 \in 1 .. Len(im) /\ a < a + 1 /\ a + 1 <= Len(im)
  OBVIOUS
<1>2. im[a + 1] \in Pixel
  BY <1>1
<1>3. im[a + 1] < ClearCode
  BY <1>2, SizeFacts DEF Pixel
<1> QED BY <1>1, <1>3 DEF Stood

(* A clear code or the end code: no pixel more. *)
LEMMA MarkSpells ==
  ASSUME NEW im \in Seq(Pixel), NEW cs \in Seq(Coded), NEW M, NEW B, Spelled(im, cs, M, B),
         NEW x \in Coded, x.code \in {ClearCode, EOFCode}
  PROVE  \E N, C : Follow(im, cs, M, B, x, N, C) /\ C[Len(cs) + 1] = B[Len(cs)]
<1> DEFINE b == B[Len(cs)]
<1>1. Len(cs) \in 0 .. Len(cs) /\ Len(im) \in Nat
  OBVIOUS
<1>2. b \in Nat /\ b <= Len(im)
  BY <1>1, Bounds
<1>3. b \in b .. Len(im)
  BY <1>1, <1>2
<1>4. IF x.code \in {ClearCode, EOFCode} THEN b = B[Len(cs)]
      ELSE Stood(im, B, Len(cs) - M[Len(cs)], M[Len(cs)], x.code, B[Len(cs)], b)
  OBVIOUS
<1> HIDE DEF b
<1>5. b \in B[Len(cs)] .. Len(im)
  BY <1>3 DEF b
<1>6. \E N, C : Follow(im, cs, M, B, x, N, C) /\ C[Len(cs) + 1] = b
  BY <1>4, <1>5, SpelledMore
<1> QED BY <1>6 DEF b

(* The first clear code, and the first pixel in hand. *)
LEMMA PrologueSpells ==
  ASSUME EncoderInv, StreamInv, Prologue, UNCHANGED image
  PROVE  SpellInv'
<1> DEFINE e == Opening
           f == Output(e, ClearCode)
           x == [code |-> ClearCode, width |-> e.n_bits]
<1>1. enc.pc = "start" /\ enc' = f /\ codes' = Append(codes, x) /\ image' = image
  BY DEF Prologue, Written, Opening
<1>2. codes = <<>>
  BY <1>1 DEF StreamInv
<1>3. /\ Ready(e) /\ e.pc = "pixel" /\ e.htab = EmptyTable /\ e.free_ent = ClearCode + 2 /\ e.ent = image[1]
      /\ ClearCode # EOFCode /\ ClearCode < Pow2[e.n_bits]
  BY <1>1, OpeningReady
<1>4. e.curPixel = 1 /\ e.n_bits \in Nat
  <2> DEFINE k == ClearCode + 2
             w == initCodeSize + 1
             l == MAXCODE(w)
             h == EmptyTable
             p == image[1]
             o == <<initCodeSize>>
  <2>1. e = [enc EXCEPT !.pc = "pixel", !.outs = o, !.htab = h, !.n_bits = w, !.maxcode = l,
                        !.free_ent = k, !.ent = p, !.curPixel = 1]
    BY DEF Opening
  <2>2. enc \in EncType /\ w \in Nat
    BY SizeFacts DEF EncoderInv
  <2> HIDE DEF k, w, l, h, p, o, e
  <2> QED BY <2>1, <2>2 DEF EncType
<1> HIDE DEF e
<1>5. ClearCode \in Nat
  BY SizeFacts
<1>6. SameTable(f, e)
  BY <1>3, <1>5, OutputKeeps DEF Wrote
<1> HIDE DEF f
<1>7. f.free_ent = ClearCode + 2 /\ f.pc = "pixel" /\ f.htab = EmptyTable /\ f.curPixel = 1 /\ f.ent = image[1]
  BY <1>3, <1>4, <1>6 DEF SameTable
<1>8. image \in Seq(Pixel) /\ Len(image) \in Nat \ {0}
  BY ImageType DEF EncoderInv
<1>9. x \in Coded /\ x.code = ClearCode
  BY <1>4, <1>5 DEF Coded
<1> HIDE DEF x
<1>10. PICK M, B : Spelled(image, codes, M, B) /\ M[0] = 0 /\ B[0] = 0
  BY <1>2, <1>8, SpelledNone
<1>11. codes \in Seq(Coded) /\ Len(codes) = 0 /\ 0 \in B[Len(codes)] .. Len(image) /\ B[Len(codes)] = 0
  BY <1>2, <1>8, <1>10
<1>12. PICK N, C : Follow(image, codes, M, B, x, N, C) /\ C[Len(codes) + 1] = 0
  <2>1. Spelled(image, codes, M, B) /\ x.code \in {ClearCode, EOFCode} /\ codes \in Seq(Coded)
    BY <1>9, <1>10, <1>11
  <2>2. \E N, C : Follow(image, codes, M, B, x, N, C) /\ C[Len(codes) + 1] = B[Len(codes)]
    BY ONLY <1>8, <1>9, <2>1, MarkSpells
  <2> QED BY <1>11, <2>2
<1> DEFINE ds == Append(codes, x)
<1>13. Spelled(image, ds, N, C) /\ N[1] = 0 /\ C[1] = 0 /\ Len(ds) = 1
  BY <1>2, <1>9, <1>11, <1>12 DEF Follow
<1> HIDE DEF ds
<1>14. Stood(image, C, 1 - 0, 0, image[0 + 1], 0, 0 + 1)
  <2>1. 0 \in Nat /\ 0 < Len(image)
    BY <1>8
  <2> QED BY <1>8, <2>1, PixelStands
<1>15. Stood(image, C, 1 - 0, 0, f.ent, 0, Matched(f))
  <2>1. Matched(f) = 1 /\ 0 + 1 = 1
    BY <1>7 DEF Matched
  <2> QED BY <1>7, <1>14, <2>1
<1>16. Stored(image, f, ds, C, 1 - 0, 0)
  BY <1>7 DEF Stored, EmptyTable
<1>17. Writing(image, f, ds, N, C)
  <2>1. f.free_ent = ClearCode + 2 + 0 /\ f.curPixel \in 1 .. Len(image)
    BY <1>5, <1>7, <1>8
  <2> QED BY <1>7, <1>13, <1>15, <1>16, <2>1 DEF Writing
<1>18. enc' = f /\ codes' = ds /\ image' = image
  BY <1>1 DEF ds
<1> QED BY <1>7, <1>13, <1>17, <1>18 DEF SpellInv

(* A pair more in the table. *)
Entered(f, e, i, h, v) == f.htab = [e.htab EXCEPT ![i] = h] /\ f.codetab = [e.codetab EXCEPT ![i] = v]

LEMMA StoredMore ==
  ASSUME NEW im \in Seq(Pixel), NEW cs \in Seq(Coded), NEW M, NEW B, Spelled(im, cs, M, B),
         NEW e \in EncType, Stored(im, e, cs, B, Len(cs) - M[Len(cs)], M[Len(cs)]),
         NEW x \in Coded, NEW N, NEW C, Follow(im, cs, M, B, x, N, C), NEW i \in Slot, NEW h,
         h = im[C[Len(cs) + 1] + 1] * Pow2[BITS] + x.code, NEW f, NEW v, v = ClearCode + 2 + M[Len(cs)],
         Entered(f, e, i, h, v)
  PROVE  Stored(im, f, Append(cs, x), C, Len(cs) - M[Len(cs)], M[Len(cs)] + 1)
<1> DEFINE n == Len(cs)
           m == M[n]
           z == n - m
           ds == Append(cs, x)
<1>1. n \in Nat /\ n \in 0 .. Len(cs) /\ ds[n + 1] = x /\ \A k \in 1 .. n : ds[k] = cs[k]
  OBVIOUS
<1>2. m \in Nat /\ z \in Nat
  BY <1>1, Bounds
<1>3. \A k \in 0 .. n : C[k] = B[k]
  BY DEF Follow
<1>4. e.htab \in [Slot -> Int] /\ e.codetab \in [Slot -> Nat]
  BY EncFields
<1>5. Stored(im, e, cs, B, z, m)
  OBVIOUS
<1>6. h = im[C[n + 1] + 1] * Pow2[BITS] + x.code /\ f.htab = [e.htab EXCEPT ![i] = h]
      /\ f.codetab = [e.codetab EXCEPT ![i] = v] /\ v = ClearCode + 2 + m
  BY DEF Entered
<1>7. z + m = n
  BY <1>1, <1>2
<1> HIDE DEF n, m, z, ds
<1>8. ASSUME NEW s \in Slot, f.htab[s] >= 0
      PROVE  \E j \in 0 .. (m + 1) - 1 :
               /\ f.codetab[s] = ClearCode + 2 + j
               /\ f.htab[s] = im[C[z + j + 1] + 1] * Pow2[BITS] + ds[z + j + 1].code
  <2>1. CASE s = i
    <3>1. f.htab[s] = h /\ f.codetab[s] = v
      BY <1>4, <1>6, <2>1
    <3>2. m \in 0 .. (m + 1) - 1 /\ z + m + 1 = n + 1
      BY <1>2, <1>7
    <3>3. f.codetab[s] = ClearCode + 2 + m
      BY <1>6, <3>1
    <3>4. f.htab[s] = im[C[z + m + 1] + 1] * Pow2[BITS] + ds[z + m + 1].code
      BY <1>1, <1>6, <3>1, <3>2
    <3> QED BY <3>2, <3>3, <3>4
  <2>2. CASE s # i
    <3>1. f.htab[s] = e.htab[s] /\ f.codetab[s] = e.codetab[s]
      BY <1>4, <1>6, <2>2
    <3>2. PICK j \in 0 .. m - 1 :
            /\ e.codetab[s] = ClearCode + 2 + j
            /\ e.htab[s] = im[B[z + j + 1] + 1] * Pow2[BITS] + cs[z + j + 1].code
      BY <1>5, <1>8, <3>1 DEF Stored
    <3>3. j \in 0 .. (m + 1) - 1 /\ z + j + 1 \in 0 .. n /\ z + j + 1 \in 1 .. n
      BY <1>2, <1>7, <3>2
    <3>4. C[z + j + 1] = B[z + j + 1] /\ ds[z + j + 1] = cs[z + j + 1]
      BY <1>1, <1>3, <3>3
    <3> QED BY <3>1, <3>2, <3>3, <3>4
  <2> QED BY <2>1, <2>2
<1>9. Stored(im, f, ds, C, z, m + 1)
  BY <1>8 DEF Stored
<1> QED BY <1>9 DEF n, m, z, ds

(* The code of the match, and the pixel behind it begins the next one. *)
LEMMA CodeSpells ==
  ASSUME NEW im \in Seq(Pixel), NEW cs \in Seq(Coded), NEW M, NEW B, NEW e \in EncType, Running(e),
         Spelled(im, cs, M, B), Stood(im, B, Len(cs) - M[Len(cs)], M[Len(cs)], e.ent, B[Len(cs)], Matched(e))
  PROVE  /\ [code |-> e.ent, width |-> e.n_bits] \in Coded
         /\ \E N, C : /\ Follow(im, cs, M, B, [code |-> e.ent, width |-> e.n_bits], N, C)
                      /\ N[Len(cs) + 1] = M[Len(cs)] + 1 /\ C[Len(cs) + 1] = Matched(e)
<1> DEFINE n == Len(cs)
           x == [code |-> e.ent, width |-> e.n_bits]
           b == Matched(e)
<1>1. e.ent \in Nat /\ e.ent \notin {ClearCode, EOFCode} /\ e.n_bits \in Nat /\ e.curPixel \in Nat
  BY EncFields DEF Running, Known
<1>2. x \in Coded /\ x.code = e.ent
  BY <1>1 DEF Coded
<1> HIDE DEF x
<1>3. b \in Int
  BY <1>1 DEF Matched
<1> HIDE DEF b
<1>4. n \in 0 .. Len(cs) /\ B[n] \in Nat /\ Len(im) \in Nat
  <2>1. n \in 0 .. Len(cs) /\ Len(im) \in Nat
    OBVIOUS
  <2> QED BY <2>1, Bounds
<1>5. Stood(im, B, n - M[n], M[n], x.code, B[n], b)
  BY <1>2 DEF b
<1>6. b \in B[n] .. Len(im)
  BY <1>3, <1>4, <1>5 DEF Stood
<1>7. PICK N, C : Follow(im, cs, M, B, x, N, C) /\ C[n + 1] = b
  <2>1. IF x.code \in {ClearCode, EOFCode} THEN b = B[n] ELSE Stood(im, B, n - M[n], M[n], x.code, B[n], b)
    BY <1>1, <1>2, <1>5
  <2> QED BY <1>2, <1>6, <2>1, SpelledMore
<1>8. N[n + 1] = M[n] + 1
  BY <1>1, <1>2, <1>7 DEF Follow
<1> QED BY <1>2, <1>7, <1>8 DEF x, b

LEMMA EmitSpells ==
  ASSUME EncoderInv, StreamInv, SpellInv, Emit, UNCHANGED image
  PROVE  SpellInv'
<1> DEFINE o == Output(enc, enc.ent)
           e == [o EXCEPT !.pc = "pixel", !.ent = enc.c]
           l == e.free_ent + 1
           cleared == ClearBlock(e)
           v == e.free_ent
           tab == [e.codetab EXCEPT ![enc.i] = v]
           hash == [e.htab EXCEPT ![enc.i] = fcode(enc)]
           added == [e EXCEPT !.codetab = tab, !.free_ent = l, !.htab = hash]
           x == [code |-> enc.ent, width |-> enc.n_bits]
           once == Append(codes, x)
           twice == Append(once, [code |-> ClearCode, width |-> cleared.n_bits])
           n == Len(codes)
           a == enc.curPixel - 1
<1>1. enc.pc = "emit" /\ image' = image
      /\ \/ e.free_ent < maxmaxcode /\ enc' = added /\ codes' = once
         \/ e.free_ent >= maxmaxcode /\ enc' = Output(cleared, ClearCode) /\ codes' = twice
  <2>1. [e EXCEPT !.codetab[enc.i] = e.free_ent, !.free_ent = @ + 1, !.htab[enc.i] = fcode(enc)] = added
    OBVIOUS
  <2> QED BY <2>1 DEF Emit, Written
<1>2. /\ enc \in EncType /\ Running(enc) /\ codes \in Seq(Coded)
      /\ image \in Seq(Pixel) /\ Len(image) \in Nat \ {0} /\ enc.ent \in Nat /\ enc.curPixel \in Nat
  BY <1>1, StreamCodes
<1>3. PICK M, B : Spelled(image, codes, M, B) /\ Writing(image, enc, codes, M, B)
  BY <1>1 DEF SpellInv
<1>4. /\ enc.free_ent = ClearCode + 2 + M[n] /\ enc.curPixel \in 1 .. Len(image) /\ enc.c = image[enc.curPixel]
      /\ Stood(image, B, n - M[n], M[n], enc.ent, B[n], a)
      /\ Stored(image, enc, codes, B, n - M[n], M[n]) /\ Matched(enc) = a
  BY <1>1, <1>3 DEF Writing, Matched
<1>5. a \in Nat /\ a < Len(image) /\ a + 1 = enc.curPixel /\ n \in Nat /\ n \in 0 .. Len(codes)
  BY <1>2, <1>4
<1>6. M[n] \in Nat
  BY <1>2, <1>3, <1>5, Bounds
<1>7. PICK N, C : Follow(image, codes, M, B, x, N, C) /\ N[n + 1] = M[n] + 1 /\ C[n + 1] = a
  <2>1. Spelled(image, codes, M, B) /\ Stood(image, B, n - M[n], M[n], enc.ent, B[n], Matched(enc))
    BY <1>3, <1>4
  <2> QED BY <1>2, <1>4, <2>1, CodeSpells
<1>8. x \in Coded /\ x.code = enc.ent
  <2>1. Spelled(image, codes, M, B) /\ Stood(image, B, n - M[n], M[n], enc.ent, B[n], Matched(enc))
    BY <1>3, <1>4
  <2> QED BY <1>2, <2>1, CodeSpells
<1> HIDE DEF x, n, a
<1>9. once \in Seq(Coded) /\ Len(once) = n + 1 /\ Spelled(image, once, N, C)
  BY <1>2, <1>7, <1>8 DEF Follow, n
<1>10. enc.ent < Pow2[enc.n_bits] /\ enc.ent # EOFCode
  BY <1>2, EntFits
<1>11. Wrote(o, enc)
  BY <1>2, <1>10, OutputKeeps DEF Running
<1> HIDE DEF o
<1>12. o \in EncType /\ SameTable(o, enc) /\ Running(o)
  <2>1. Running(o)
    BY <1>2, <1>11, WroteRuns DEF Running
  <2> QED BY <1>11, <2>1 DEF Wrote, Packed
<1>13. enc.c \in Pixel /\ enc.c \in Nat
  <2>1. enc.c \in Pixel
    BY <1>2 DEF Running
  <2> QED BY <1>2, <2>1, EncFields
<1>14. /\ e \in EncType /\ e.pc = "pixel" /\ SameCode(e, o) /\ e.ent = enc.c /\ e.c = o.c
       /\ e.curPixel = enc.curPixel /\ e.free_ent = enc.free_ent /\ e.htab = enc.htab /\ e.codetab = enc.codetab
  <2>1. e \in EncType /\ e.pc = "pixel" /\ SameCode(e, o) /\ e.ent = enc.c /\ e.c = o.c /\ e.curPixel = o.curPixel
    BY <1>12, <1>13 DEF EncType, SameCode
  <2> QED BY <1>12, <2>1 DEF SameCode, SameTable
<1> HIDE DEF e
<1>15. ClearCode \in Nat
  BY SizeFacts
<1>16. CASE e.free_ent < maxmaxcode /\ enc' = added /\ codes' = once
  <2>1. /\ added.pc = "pixel" /\ added.ent = e.ent /\ added.curPixel = e.curPixel /\ added.free_ent = l
        /\ added.codetab = tab /\ added.htab = hash
    <3> HIDE DEF tab, hash, l
    <3> QED BY <1>14 DEF EncType
  <2> HIDE DEF added
  <2>2. Stood(image, C, (n + 1) - N[n + 1], N[n + 1], image[a + 1], a, a + 1)
    BY <1>2, <1>5, PixelStands
  <2>3. Matched(added) = a + 1 /\ added.ent = image[a + 1]
    BY <1>4, <1>5, <1>14, <2>1 DEF Matched
  <2>4. Stored(image, added, once, C, n - M[n], M[n] + 1)
    <3> DEFINE i == enc.i
               h == fcode(enc)
    <3>1. i \in Slot
      BY DEF EncoderInv, Probing
    <3>2. h = image[C[n + 1] + 1] * Pow2[BITS] + x.code
      BY <1>4, <1>5, <1>7, <1>8 DEF fcode
    <3> HIDE DEF i, h
    <3>4. /\ Spelled(image, codes, M, B) /\ Follow(image, codes, M, B, x, N, C)
          /\ Stored(image, enc, codes, B, Len(codes) - M[Len(codes)], M[Len(codes)])
          /\ h = image[C[Len(codes) + 1] + 1] * Pow2[BITS] + x.code
          /\ v = ClearCode + 2 + M[Len(codes)]
      BY <1>3, <1>4, <1>7, <1>14, <3>2 DEF n
    <3>5. image \in Seq(Pixel) /\ codes \in Seq(Coded) /\ enc \in EncType /\ x \in Coded
          /\ Entered(added, enc, i, h, v)
      BY <1>2, <1>8, <1>14, <2>1 DEF Entered, i, h
    <3> HIDE DEF v
    <3>6. Stored(image, added, Append(codes, x), C, Len(codes) - M[Len(codes)], M[Len(codes)] + 1)
      BY ONLY <3>1, <3>4, <3>5, StoredMore
    <3> QED BY <3>6 DEF n
  <2>5. (n + 1) - N[n + 1] = n - M[n] /\ added.free_ent = ClearCode + 2 + N[n + 1]
    <3> DEFINE m == M[n]
               free == enc.free_ent
    <3>1. m \in Nat /\ n \in Nat /\ N[n + 1] = m + 1 /\ free = ClearCode + 2 + m /\ added.free_ent = free + 1
      BY <1>4, <1>5, <1>6, <1>7, <1>14, <2>1
    <3> HIDE DEF m, free
    <3>2. (n + 1) - N[n + 1] = n - m /\ added.free_ent = ClearCode + 2 + N[n + 1]
      BY <1>15, <3>1
    <3> QED BY <3>2 DEF m
  <2>6. Writing(image, added, once, N, C)
    BY <1>4, <1>7, <1>9, <1>14, <2>1, <2>2, <2>3, <2>4, <2>5 DEF Writing
  <2> QED BY <1>1, <1>9, <1>16, <2>1, <2>6 DEF SpellInv
<1>17. CASE e.free_ent >= maxmaxcode /\ enc' = Output(cleared, ClearCode) /\ codes' = twice
  <2>1. Running(e) /\ e.ent \in Pixel
    <3>1. Known(e.ent, o) /\ o.c \in Pixel
      BY <1>12, <1>13, <1>14, PixelKnown DEF Running, Ready
    <3> QED BY <1>12, <1>13, <1>14, <3>1, SearchRuns
  <2>2. cleared \in EncType /\ Ready(cleared) /\ cleared.pc = "pixel"
    BY <1>14, <2>1, ClearedReady
  <2>3. /\ cleared.htab = EmptyTable /\ cleared.free_ent = ClearCode + 2
        /\ cleared.ent = e.ent /\ cleared.curPixel = e.curPixel
    <3> DEFINE k == ClearCode + 2
               h == EmptyTable
               g == [e EXCEPT !.htab = h, !.free_ent = k, !.clear_flg = TRUE]
    <3>1. cleared = g
      BY DEF ClearBlock
    <3> HIDE DEF k, h
    <3>2. g.htab = h /\ g.free_ent = k /\ g.ent = e.ent /\ g.curPixel = e.curPixel
      BY <1>14 DEF EncType
    <3> QED BY <3>1, <3>2 DEF k, h
  <2> DEFINE y == [code |-> ClearCode, width |-> cleared.n_bits]
  <2> HIDE DEF cleared
  <2>4. cleared.n_bits \in Nat /\ ClearCode # EOFCode /\ ClearCode < Pow2[cleared.n_bits]
    <3>1. cleared.n_bits \in Nat /\ ClearCode # EOFCode
      BY <1>15, <2>2, EncFields DEF EOFCode
    <3> QED BY <2>2, <3>1, WidthPowers DEF Ready
  <2>5. y \in Coded /\ y.code = ClearCode
    BY <1>15, <2>4 DEF Coded
  <2> DEFINE f == Output(cleared, ClearCode)
  <2>6. SameTable(f, cleared)
    BY <1>15, <2>2, <2>4, OutputKeeps DEF Wrote
  <2> HIDE DEF f, y, once
  <2>7. PICK P, Q : Follow(image, once, N, C, y, P, Q) /\ Q[Len(once) + 1] = C[Len(once)]
    BY <1>2, <1>9, <2>5, MarkSpells
  <2> DEFINE ds == Append(once, y)
             k == n + 2
  <2>8. Spelled(image, ds, P, Q) /\ Len(ds) = k /\ P[k] = 0 /\ Q[k] = a
    BY <1>5, <1>7, <1>9, <2>5, <2>7 DEF Follow
  <2> HIDE DEF ds, k
  <2>9. f.pc = "pixel" /\ f.htab = EmptyTable /\ f.free_ent = ClearCode + 2 /\ f.ent = image[a + 1]
        /\ f.curPixel = a + 1 /\ f.curPixel \in 1 .. Len(image)
    BY <1>4, <1>5, <1>14, <2>2, <2>3, <2>6 DEF SameTable
  <2>10. Stood(image, Q, k - 0, 0, f.ent, a, Matched(f))
    <3>1. Stood(image, Q, k - 0, 0, image[a + 1], a, a + 1)
      BY <1>2, <1>5, PixelStands
    <3> QED BY <2>9, <3>1 DEF Matched
  <2>11. Stored(image, f, ds, Q, k - 0, 0)
    BY <2>9 DEF Stored, EmptyTable
  <2>12. Writing(image, f, ds, P, Q)
    <3>1. f.free_ent = ClearCode + 2 + 0
      BY <1>15, <2>9
    <3> QED BY <2>8, <2>9, <2>10, <2>11, <3>1 DEF Writing
  <2>13. enc' = f /\ codes' = ds
    BY <1>17 DEF f, ds, y
  <2> QED BY <1>1, <2>8, <2>9, <2>12, <2>13 DEF SpellInv
<1> QED BY <1>1, <1>16, <1>17

LEMMA EpilogueSpells ==
  ASSUME EncoderInv, StreamInv, SpellInv, Epilogue, UNCHANGED image
  PROVE  SpellInv'
<1> DEFINE e == Output(enc, enc.ent)
           f == Output(e, EOFCode)
           g == [f EXCEPT !.pc = "done", !.outs = Append(@, 0)]
           x == [code |-> enc.ent, width |-> enc.n_bits]
           y == [code |-> EOFCode, width |-> e.n_bits]
           once == Append(codes, x)
           n == Len(codes)
<1>1. enc.pc = "pixel" /\ enc' = g /\ codes' = Append(once, y) /\ image' = image /\ enc.curPixel = Len(image)
  BY DEF Epilogue, Written
<1>2. /\ enc \in EncType /\ Running(enc) /\ codes \in Seq(Coded)
      /\ image \in Seq(Pixel) /\ Len(image) \in Nat \ {0} /\ enc.ent \in Nat /\ enc.curPixel \in Nat
  BY <1>1, StreamCodes
<1>3. PICK M, B : Spelled(image, codes, M, B) /\ Writing(image, enc, codes, M, B)
  BY <1>1 DEF SpellInv
<1>4. Stood(image, B, n - M[n], M[n], enc.ent, B[n], Matched(enc)) /\ Matched(enc) = Len(image)
  BY <1>1, <1>3 DEF Writing, Matched
<1>5. PICK N, C : Follow(image, codes, M, B, x, N, C) /\ C[n + 1] = Len(image)
  BY <1>2, <1>3, <1>4, CodeSpells
<1>6. x \in Coded
  BY <1>2, <1>3, <1>4, CodeSpells
<1> HIDE DEF x
<1>7. once \in Seq(Coded) /\ Len(once) = n + 1 /\ Spelled(image, once, N, C)
  BY <1>2, <1>5, <1>6 DEF Follow
<1>8. enc.ent < Pow2[enc.n_bits] /\ enc.ent # EOFCode
  BY <1>2, EntFits
<1>9. Wrote(e, enc)
  BY <1>2, <1>8, OutputKeeps DEF Running
<1> HIDE DEF e, once
<1>10. Ready(e) /\ e \in EncType /\ e.n_bits \in Nat
  <2>1. Ready(e) /\ e \in EncType
    BY <1>9 DEF Wrote, Ready, Filled, Packed
  <2> QED BY <2>1, EncFields
<1>11. EOFCode < Pow2[e.n_bits] /\ EOFCode \in Nat
  BY <1>10, WidthPowers DEF Ready
<1>12. y \in Coded /\ y.code = EOFCode
  BY <1>10, <1>11 DEF Coded
<1>13. Ended(f, e)
  BY <1>10, <1>11, OutputEnds
<1>14. g.pc = "done"
  <2>1. f \in EncType
    BY <1>13 DEF Ended
  <2> HIDE DEF f
  <2> QED BY <2>1 DEF EncType
<1> HIDE DEF g, f, y
<1>15. PICK P, Q : Follow(image, once, N, C, y, P, Q) /\ Q[Len(once) + 1] = C[Len(once)]
  BY <1>2, <1>7, <1>12, MarkSpells
<1>16. Spelled(image, Append(once, y), P, Q) /\ Len(Append(once, y)) = Len(once) + 1
  BY <1>7, <1>12, <1>15 DEF Follow
<1>17. Q[Len(Append(once, y))] = Len(image)
  BY <1>5, <1>7, <1>15, <1>16
<1> QED BY <1>1, <1>14, <1>16, <1>17 DEF SpellInv

-----------------------------------------------------------------------------
(* The pixels on the way back.                                                *)

(* The two counts of the codes since the last clear code agree. *)
LEMMA CountAgrees ==
  ASSUME NEW cs \in Seq(Coded), NEW M, Counted(cs, M), NEW N, NEW G, Ruled(cs, N, G)
  PROVE  \A k \in 0 .. Len(cs) : M[k] = N[k]
<1> DEFINE n == Len(cs)
           Bad == {k \in 0 .. n : M[k] # N[k]}
<1>1. /\ n \in Nat /\ M \in [0 .. n -> Nat] /\ N \in [0 .. n -> Nat] /\ N[0] = 0
      /\ \A k \in 0 .. n : M[k] <= k
      /\ \A k \in 0 .. n - 1 : M[k + 1] = IF cs[k + 1].code = ClearCode THEN 0 ELSE M[k] + 1
      /\ \A k \in 0 .. n - 1 : N[k + 1] = IF cs[k + 1].code = ClearCode THEN 0 ELSE N[k] + 1
  <2>1. /\ N \in [0 .. n -> Nat] /\ N[0] = 0
        /\ \A k \in 0 .. n - 1 : N[k + 1] = IF cs[k + 1].code = ClearCode THEN 0 ELSE N[k] + 1
    BY DEF Ruled, After
  <2>2. /\ M \in [0 .. n -> Nat] /\ \A k \in 0 .. n : M[k] <= k
        /\ \A k \in 0 .. n - 1 : M[k + 1] = IF cs[k + 1].code = ClearCode THEN 0 ELSE M[k] + 1
    BY DEF Counted
  <2>3. n \in Nat
    OBVIOUS
  <2> QED BY <2>1, <2>2, <2>3
<1> HIDE DEF n
<1> SUFFICES ASSUME Bad # {} PROVE FALSE
  BY DEF n
<1>2. PICK k \in Bad : \A s \in Bad : k <= s
  <2>1. Bad \in SUBSET Nat
    BY <1>1
  <2> HIDE DEF Bad
  <2> QED BY <2>1, NatMin
<1>3. k \in 0 .. n /\ M[k] # N[k]
  BY <1>2
<1>4. k # 0
  <2>1. 0 \in 0 .. n
    BY <1>1
  <2>2. M[0] <= 0 /\ M[0] \in Nat
    BY <1>1, <2>1
  <2> QED BY <1>1, <1>3, <2>2
<1>5. k - 1 \in 0 .. n - 1 /\ k - 1 \in 0 .. n /\ (k - 1) + 1 = k /\ ~(k <= k - 1)
  BY <1>1, <1>3, <1>4
<1>6. M[k - 1] = N[k - 1]
  BY <1>2, <1>5
<1>7. M[(k - 1) + 1] = N[(k - 1) + 1]
  BY <1>1, <1>5, <1>6
<1> QED BY <1>3, <1>5, <1>7

(* What a code below the next slot is, in pixels.                             *)
Word(im, B, z, c) ==
  IF c < ClearCode + 2 THEN <<c>>
  ELSE Text(im, B[z + (c - (ClearCode + 2))], B[z + (c - (ClearCode + 2)) + 1] + 1)

LEMMA WordText ==
  ASSUME NEW im, NEW B, NEW z \in Nat, NEW m \in Nat, NEW c \in Nat, NEW a \in Nat, NEW b \in Nat,
         Stood(im, B, z, m, c, a, b)
  PROVE  Word(im, B, z, c) = Text(im, a, b)
<1>1. ClearCode \in Nat
  BY SizeFacts
<1>2. CASE c < ClearCode
  <2>1. b = a + 1 /\ im[b] = c
    BY <1>1, <1>2 DEF Stood
  <2>2. b - a = 1 /\ \A i \in 1 .. 1 : a + i = b
    BY <2>1
  <2>3. Text(im, a, b) = [i \in 1 .. 1 |-> c]
    BY <2>1, <2>2 DEF Text
  <2>4. <<c>> = [i \in 1 .. 1 |-> c]
    OBVIOUS
  <2>5. c < ClearCode + 2
    BY <1>1, <1>2
  <2> QED BY <2>3, <2>4, <2>5 DEF Word
<1>3. CASE ~(c < ClearCode)
  <2>1. PICK j \in 0 .. m - 1 : c = ClearCode + 2 + j /\ Same(im, a, b, B[z + j], B[z + j + 1] + 1)
    BY <1>3 DEF Stood
  <2>2. ~(c < ClearCode + 2) /\ c - (ClearCode + 2) = j
    BY <1>1, <2>1
  <2>3. Word(im, B, z, c) = Text(im, B[z + j], B[z + j + 1] + 1)
    BY <2>2 DEF Word
  <2> QED BY <2>1, <2>3, SameText
<1> QED BY <1>2, <1>3

(* The slots in use. *)
Slots(d, m) == d.newcodes = ClearCode + 2 /\ d.slot = IF m = 0 THEN ClearCode + 2 ELSE ClearCode + 1 + m

(* A slot stands for its prefix and the pixel behind it. *)
LEMMA SlotWord ==
  ASSUME NEW im \in Seq(Pixel), NEW cs \in Seq(Coded), NEW M, NEW B, Spelled(im, cs, M, B),
         NEW r \in 0 .. Len(cs), \A k \in 1 .. r : cs[k].code # EOFCode, B[r] < Len(im),
         NEW j \in 0 .. M[r] - 1
  PROVE  LET z == r - M[r]
             y == cs[z + j + 1].code
         IN  /\ y \in Nat /\ y < ClearCode + 2 + j
             /\ Word(im, B, z, ClearCode + 2 + j) = Append(Word(im, B, z, y), im[B[z + j + 1] + 1])
<1> DEFINE m == M[r]
           z == r - m
           k == z + j
           y == cs[k + 1].code
           a == B[k]
           b == B[k + 1]
<1>1. /\ k \in 0 .. Len(cs) - 1 /\ k + 1 \in 1 .. r /\ cs[k + 1] \in Coded
      /\ cs[k + 1].code # EOFCode => Stood(im, B, z, j, y, a, b)
  BY EntryCode
<1>2. /\ m \in Nat /\ z \in Nat /\ \A i \in 0 .. r : B[i] \in Nat /\ B[i] <= B[r]
      /\ B[r] \in Nat
  BY Bounds
<1>3. B[r] < Len(im) /\ j \in 0 .. m - 1 /\ r \in Nat /\ Len(im) \in Nat
  OBVIOUS
<1> HIDE DEF m, z, k
<1>4. y \in Nat /\ Stood(im, B, z, j, y, a, b) /\ j \in Nat
  BY <1>1, <1>2, <1>3 DEF Coded
<1>5. a \in Nat /\ b \in Nat /\ b < Len(im) /\ a < b
  <2>1. k \in 0 .. r /\ k + 1 \in 0 .. r
    BY <1>1, <1>3
  <2>2. a \in Nat /\ b \in Nat /\ b <= B[r]
    BY <1>2, <2>1
  <2>3. a < b
    BY <1>4 DEF Stood
  <2> HIDE DEF a, b
  <2> QED BY <1>2, <1>3, <2>2, <2>3
<1>6. ClearCode \in Nat
  BY SizeFacts
<1>7. y < ClearCode + 2 + j
  BY <1>4, <1>6 DEF Stood
<1> HIDE DEF y
<1>8. Word(im, B, z, y) = Text(im, a, b)
  <2> HIDE DEF a, b
  <2> QED BY <1>2, <1>4, <1>5, WordText
<1>9. Word(im, B, z, ClearCode + 2 + j) = Text(im, a, b + 1)
  <2>1. ~(ClearCode + 2 + j < ClearCode + 2) /\ (ClearCode + 2 + j) - (ClearCode + 2) = j
    BY <1>4, <1>6
  <2> QED BY <2>1 DEF Word, k
<1>10. Append(Text(im, a, b), im[b + 1]) = Text(im, a, b + 1)
  <2> HIDE DEF a, b
  <2>1. a <= b
    BY <1>5
  <2> QED BY <1>5, <2>1, TextMore
<1>11. y = cs[z + j + 1].code /\ im[b + 1] = im[B[z + j + 1] + 1]
  BY DEF y, k
<1> HIDE DEF a, b
<1> QED BY <1>4, <1>7, <1>8, <1>9, <1>10, <1>11 DEF z, m

(* The recursion over the prefixes gives the pixels of every slot.            *)
LEMMA PixelsWords ==
  ASSUME NEW im \in Seq(Pixel), NEW cs \in Seq(Coded), NEW M, NEW B, Spelled(im, cs, M, B),
         NEW r \in 0 .. Len(cs), \A k \in 1 .. r : cs[k].code # EOFCode, B[r] < Len(im),
         NEW d, Slots(d, M[r]), Kept(im, d, cs, B, r - M[r], M[r])
  PROVE  \A c \in 0 .. d.slot - 1 : D!Pixels(d)[c] = Word(im, B, r - M[r], c)
<1> DEFINE m == M[r]
           z == r - m
           I == 0 .. d.slot - 1
           W == [c \in I |-> Word(im, B, z, c)]
           px[c \in I] == IF c < d.newcodes THEN <<c>> ELSE Append(px[d.prefix[c]], d.suffix[c])
<1>1. m \in Nat /\ z \in Nat
  BY Bounds
<1>2. \A j \in 0 .. m - 1 :
        /\ cs[z + j + 1].code \in Nat /\ cs[z + j + 1].code < ClearCode + 2 + j
        /\ Word(im, B, z, ClearCode + 2 + j) = Append(Word(im, B, z, cs[z + j + 1].code), im[B[z + j + 1] + 1])
  BY SlotWord
<1>3. Slots(d, m) /\ Kept(im, d, cs, B, z, m)
  OBVIOUS
<1> HIDE DEF m, z
<1>4. d.newcodes = ClearCode + 2 /\ d.slot = (IF m = 0 THEN ClearCode + 2 ELSE ClearCode + 1 + m) /\ ClearCode \in Nat
      /\ I \subseteq Nat
  BY <1>1, <1>3, SizeFacts DEF Slots
<1>5. ASSUME NEW c \in I, ~(c < d.newcodes)
      PROVE  /\ d.prefix[c] \in I /\ d.prefix[c] < c
             /\ Word(im, B, z, c) = Append(Word(im, B, z, d.prefix[c]), d.suffix[c])
  <2> DEFINE j == c - (ClearCode + 2)
  <2>1. j \in 0 .. m - 2 /\ j \in 0 .. m - 1 /\ c = ClearCode + 2 + j
    BY <1>1, <1>4, <1>5
  <2>2. d.prefix[c] = cs[z + j + 1].code /\ d.suffix[c] = im[B[z + j + 1] + 1]
    BY <1>3, <2>1 DEF Kept
  <2> HIDE DEF j
  <2>3. d.prefix[c] \in Nat /\ d.prefix[c] < c
    BY <1>2, <2>1, <2>2
  <2>4. d.prefix[c] \in I
    <3> DEFINE q == d.prefix[c]
               t == d.slot
    <3>1. q \in Nat /\ q < c /\ t \in Int /\ c \in 0 .. t - 1
      BY <1>1, <1>4, <2>3
    <3> HIDE DEF q, t
    <3>2. q \in 0 .. t - 1
      BY <3>1
    <3> QED BY <3>2 DEF q, t
  <2> QED BY <1>2, <2>1, <2>2, <2>3, <2>4
<1>6. W = [c \in I |-> IF c < d.newcodes THEN <<c>> ELSE Append(W[d.prefix[c]], d.suffix[c])]
  <2>1. ASSUME NEW c \in I
        PROVE  W[c] = IF c < d.newcodes THEN <<c>> ELSE Append(W[d.prefix[c]], d.suffix[c])
    <3>1. CASE c < d.newcodes
      BY <1>4, <3>1 DEF Word
    <3>2. CASE ~(c < d.newcodes)
      <4>1. d.prefix[c] \in I /\ W[c] = Append(Word(im, B, z, d.prefix[c]), d.suffix[c])
        BY <1>5, <3>2
      <4> QED BY <3>2, <4>1
    <3> QED BY <3>1, <3>2
  <2> HIDE DEF I
  <2> QED BY <2>1
<1>7. px = [c \in I |-> IF c < d.newcodes THEN <<c>> ELSE Append(px[d.prefix[c]], d.suffix[c])]
  <2> HIDE DEF W, I
  <2> QED BY <1>6
<1>8. D!Pixels(d) = px
  BY DEF D!Pixels
<1> DEFINE Bad == {c \in I : px[c] # W[c]}
<1>9. Bad = {}
  <2> SUFFICES ASSUME Bad # {} PROVE FALSE
    OBVIOUS
  <2> HIDE DEF px, W
  <2>1. PICK c \in Bad : \A s \in Bad : c <= s
    <3>1. Bad \in SUBSET Nat
      BY <1>4
    <3> HIDE DEF Bad
    <3> QED BY <3>1, NatMin
  <2>2. c \in I /\ px[c] # W[c] /\ c \in Nat
    BY <1>4, <2>1
  <2> HIDE DEF I
  <2>3. ~(c < d.newcodes)
    BY <1>6, <1>7, <2>2
  <2>4. d.prefix[c] \in I /\ d.prefix[c] < c
    BY <1>5, <2>2, <2>3
  <2>5. px[d.prefix[c]] = W[d.prefix[c]]
    <3>1. d.prefix[c] \in Nat
      BY <1>4, <2>4
    <3>2. ~(c <= d.prefix[c])
      BY <2>2, <2>4, <3>1
    <3> QED BY <2>1, <2>4, <3>2
  <2>6. px[c] = W[c]
    <3>1. px[c] = Append(px[d.prefix[c]], d.suffix[c])
      BY <1>7, <2>2, <2>3
    <3>2. W[c] = Append(W[d.prefix[c]], d.suffix[c])
      BY <1>6, <2>2, <2>3
    <3> QED BY <2>5, <3>1, <3>2
  <2> QED BY <2>2, <2>6
<1>10. \A c \in I : px[c] = Word(im, B, z, c)
  <2> HIDE DEF px
  <2> QED BY <1>9
<1> QED BY <1>8, <1>10 DEF z, m

(* What the table is after a code, entry by entry. *)
Put(t, s, x) == [t EXCEPT ![s] = x]
Adds(d) == d.slot < d.top_slot /\ d.oc >= 0
LEMMA EntryTables ==
  ASSUME NEW d, Decodes(d), NEW first, NEW pixels
  PROVE  LET f == Added(d, first, pixels)
         IN  /\ f.fc = first
             /\ f.prefix = IF Adds(d) THEN Put(d.prefix, d.slot, d.oc) ELSE d.prefix
             /\ f.suffix = IF Adds(d) THEN Put(d.suffix, d.slot, first) ELSE d.suffix
<1> DEFINE adds == d.slot < d.top_slot /\ d.oc >= 0
           p == [d.prefix EXCEPT ![d.slot] = d.oc]
           s == [d.suffix EXCEPT ![d.slot] = first]
           e == IF adds THEN [d EXCEPT !.suffix[d.slot] = first, !.prefix[d.slot] = d.oc, !.slot = @ + 1] ELSE d
           h == [e EXCEPT !.fc = first, !.oc = d.code]
           g == IF h.slot >= h.top_slot /\ h.cursize < BITS
                THEN [h EXCEPT !.top_slot = 2 * @, !.cursize = @ + 1] ELSE h
           f == [g EXCEPT !.out = @ \o pixels]
<1>1. Added(d, first, pixels) = f
  BY DEF D!AddEntry, Added
<1>2. DOMAIN d = DecFields /\ d = [x \in DecFields |-> d[x]]
  BY DEF Decodes, IsDec
<1>3. /\ DOMAIN e = DecFields /\ e = [x \in DecFields |-> e[x]]
      /\ e.prefix = (IF adds THEN p ELSE d.prefix) /\ e.suffix = (IF adds THEN s ELSE d.suffix)
  <2> HIDE DEF adds
  <2> QED BY <1>2 DEF DecFields
<1> HIDE DEF e, p, s, adds
<1>4. /\ DOMAIN h = DecFields /\ h = [x \in DecFields |-> h[x]]
      /\ h.prefix = e.prefix /\ h.suffix = e.suffix /\ h.fc = first
  BY <1>3 DEF DecFields
<1> HIDE DEF h
<1>5. /\ DOMAIN g = DecFields /\ g = [x \in DecFields |-> g[x]]
      /\ g.prefix = e.prefix /\ g.suffix = e.suffix /\ g.fc = first
  BY <1>4 DEF DecFields
<1> HIDE DEF g
<1>6. f.prefix = e.prefix /\ f.suffix = e.suffix /\ f.fc = first
  BY <1>5 DEF DecFields
<1> HIDE DEF f
<1> QED BY <1>1, <1>3, <1>6 DEF adds, p, s, Put, Adds

LEMMA ResetTables ==
  ASSUME NEW d, Decodes(d)
  PROVE  LET f == D!ResetTable(d) IN f.fc = -1 /\ f.prefix = d.prefix /\ f.suffix = d.suffix
<1> DEFINE w == d.codesize + 1
           t == Pow2[w]
           f == [d EXCEPT !.cursize = w, !.slot = d.newcodes, !.top_slot = t, !.fc = -1, !.oc = -1]
<1>1. D!ResetTable(d) = f
  BY SamePowers DEF D!ResetTable
<1> HIDE DEF t, w
<1>2. f.fc = -1 /\ f.prefix = d.prefix /\ f.suffix = d.suffix
  BY DEF Decodes, IsDec, DecFields
<1> QED BY <1>1, <1>2

(* One code on its way through the decoder, to the pixel. *)
Spoken(d) ==
  LET px == D!Pixels(d)
  IN  IF d.code = d.slot /\ d.fc >= 0 THEN Append(px[d.oc], d.fc) ELSE px[d.code]
LEMMA DecodePixels ==
  ASSUME NEW k, D!DecodeCode(k)
  PROVE  LET d == D!lzw_get_code(dec) IN
         /\ Len(dec.out) < k
         /\ \/ d.code = d.newcodes - 2 /\ dec' = D!ResetTable(d)
            \/ d.code = d.newcodes - 1
            \/ /\ d.code \notin {d.newcodes - 2, d.newcodes - 1}
               /\ d.code > d.slot \/ (d.code = d.slot /\ d.fc < 0)
            \/ /\ d.code \notin {d.newcodes - 2, d.newcodes - 1}
               /\ d.code < d.slot \/ (d.code = d.slot /\ d.fc >= 0)
               /\ dec' = Added(d, Spoken(d)[1], Spoken(d))
<1> DEFINE d == D!lzw_get_code(dec)
<1>1. /\ Len(dec.out) < k
      /\ \/ d.code = d.newcodes - 2 /\ dec' = D!ResetTable(d)
         \/ d.code = d.newcodes - 1
         \/ /\ d.code \notin {d.newcodes - 2, d.newcodes - 1}
            /\ d.code > d.slot \/ (d.code = d.slot /\ d.fc < 0)
         \/ /\ d.code \notin {d.newcodes - 2, d.newcodes - 1}
            /\ d.code < d.slot \/ (d.code = d.slot /\ d.fc >= 0)
            /\ dec' = Added(d, Spoken(d)[1], Spoken(d))
  BY DEF D!DecodeCode, Added, Spoken
<1> QED BY <1>1

(* The decoder at the r-th code. *)
Held(im, d, cs, M, B, r) ==
  /\ Slots(d, M[r]) /\ Kept(im, d, cs, B, r - M[r], M[r])
  /\ IF M[r] = 0 THEN d.fc = -1 ELSE d.oc = cs[r].code /\ d.fc = im[B[r - 1] + 1]

(* The pixels of a code, known or the one about to be known, are the next of  *)
(* the image; no other code comes.                                            *)
LEMMA SpokenText ==
  ASSUME NEW im \in Seq(Pixel), NEW cs \in Seq(Coded), NEW M, NEW B, Spelled(im, cs, M, B),
         NEW r \in 0 .. Len(cs) - 1, \A k \in 1 .. r + 1 : cs[k].code # EOFCode, B[r] < Len(im),
         NEW d, Held(im, d, cs, M, B, r), d.code = cs[r + 1].code, d.code # ClearCode
  PROVE  /\ d.code < d.slot \/ (d.code = d.slot /\ d.fc >= 0)
         /\ Spoken(d) = Text(im, B[r], B[r + 1])
         /\ B[r] \in Nat /\ B[r + 1] \in Nat /\ B[r] < B[r + 1] /\ B[r + 1] <= Len(im)
<1> DEFINE m == M[r]
           z == r - m
           c == d.code
           a == B[r]
           b == B[r + 1]
<1>1. /\ r \in 0 .. Len(cs) /\ r + 1 \in 0 .. Len(cs) /\ r + 1 \in 1 .. r + 1 /\ r \in Nat /\ r \in 0 .. r
      /\ (\A k \in 1 .. r : cs[k].code # EOFCode) /\ Len(im) \in Nat
  OBVIOUS
<1>2. /\ m \in Nat /\ z \in Nat /\ a \in Nat /\ a < Len(im) /\ (\A k \in 0 .. r : B[k] \in Nat /\ B[k] <= a)
      /\ \A k \in 0 .. r : im[B[k] + 1] \in Pixel
  BY <1>1, Bounds
<1>3. b \in Nat /\ b <= Len(im)
  BY <1>1, Bounds
<1>4. c \in Nat /\ c # EOFCode /\ c # ClearCode
  <2>1. r + 1 \in 1 .. Len(cs)
    OBVIOUS
  <2>2. cs[r + 1] \in Coded
    BY <2>1
  <2> QED BY <1>1, <2>2 DEF Coded
<1>5. Stood(im, B, z, m, c, a, b)
  <2>1. c = cs[r + 1].code
    OBVIOUS
  <2> HIDE DEF c
  <2> QED BY <1>4, <2>1 DEF Spelled
<1>6. /\ d.newcodes = ClearCode + 2 /\ d.slot = (IF m = 0 THEN ClearCode + 2 ELSE ClearCode + 1 + m)
      /\ IF m = 0 THEN d.fc = -1 ELSE d.oc = cs[r].code /\ d.fc = im[B[r - 1] + 1]
  BY DEF Held, Slots
<1>7. \A i \in 0 .. d.slot - 1 : D!Pixels(d)[i] = Word(im, B, z, i)
  BY <1>1, PixelsWords DEF Held
<1>8. ClearCode \in Nat
  BY SizeFacts
<1>9. a < b
  BY <1>5 DEF Stood
<1>10. c = cs[r + 1].code
  OBVIOUS
<1> HIDE DEF m, z, c, a, b
<1>11. c < d.slot \/ (c = d.slot /\ m # 0 /\ c = ClearCode + 2 + (m - 1))
  BY <1>2, <1>4, <1>5, <1>6, <1>8 DEF Stood
<1>12. ASSUME c < d.slot
       PROVE  Spoken(d) = Text(im, a, b)
  <2>1. c # d.slot /\ c \in 0 .. d.slot - 1
    <3>1. d.slot \in Nat
      BY <1>2, <1>6, <1>8
    <3> QED BY <1>4, <1>12, <3>1
  <2>2. Spoken(d) = Word(im, B, z, c)
    BY <1>7, <2>1 DEF Spoken, c
  <2> QED BY <1>2, <1>3, <1>4, <1>5, <2>2, WordText
<1>13. ASSUME c = d.slot, m # 0, c = ClearCode + 2 + (m - 1)
       PROVE  d.fc >= 0 /\ Spoken(d) = Text(im, a, b)
  <2> DEFINE p == B[r - 1]
             y == cs[r].code
  <2>1. m - 1 \in 0 .. m - 1 /\ z + (m - 1) = r - 1 /\ (r - 1) + 1 = r /\ r - 1 \in 0 .. r /\ z + (m - 1) + 1 = r
        /\ m - 1 \in Nat
    <3>1. z = r - m
      BY DEF z
    <3> QED BY <1>1, <1>2, <1>13, <3>1
  <2>2. y \in Nat /\ y < ClearCode + 2 + (m - 1)
        /\ Stood(im, B, z, m - 1, y, p, a)
    <3>1. m - 1 \in 0 .. M[r] - 1
      BY <2>1 DEF m
    <3>2. /\ cs[z + (m - 1) + 1].code # EOFCode =>
               Stood(im, B, z, m - 1, cs[z + (m - 1) + 1].code, B[z + (m - 1)], B[z + (m - 1) + 1])
          /\ cs[z + (m - 1) + 1] \in Coded /\ z + (m - 1) + 1 \in 1 .. r
      BY <1>1, <3>1, EntryCode DEF m, z
    <3>3. cs[r].code # EOFCode => Stood(im, B, z, m - 1, cs[r].code, B[r - 1], B[r])
      BY <2>1, <3>2
    <3>4. cs[r] \in Coded /\ r \in 1 .. r
      BY <2>1, <3>2
    <3>5. Stood(im, B, z, m - 1, y, p, a) /\ y \in Nat
      BY <1>1, <3>3, <3>4 DEF Coded, a
    <3>6. y < ClearCode + 2 + (m - 1)
      <4> HIDE DEF y, p
      <4> QED BY <1>8, <2>1, <3>5 DEF Stood
    <3> QED BY <3>5, <3>6
  <2>3. p \in Nat /\ p < a /\ im[p + 1] \in Pixel
    <3>1. p \in Nat /\ im[p + 1] \in Pixel
      BY <1>2, <2>1
    <3> QED BY <2>2, <3>1 DEF Stood
  <2>4. Same(im, a, b, p, a + 1)
    <3>1. \E j \in 0 .. m - 1 : c = ClearCode + 2 + j /\ Same(im, a, b, B[z + j], B[z + j + 1] + 1)
      BY <1>2, <1>5, <1>8, <1>13, <2>1 DEF Stood
    <3>2. PICK j \in 0 .. m - 1 : c = ClearCode + 2 + j /\ Same(im, a, b, B[z + j], B[z + j + 1] + 1)
      BY <3>1
    <3>3. j = m - 1
      BY <1>2, <1>8, <1>13, <3>2
    <3> QED BY <2>1, <3>2, <3>3 DEF a
  <2>5. im[a + 1] = im[p + 1]
    <3>1. 1 \in 1 .. b - a
      BY <1>2, <1>3, <1>9
    <3> QED BY <2>4, <3>1 DEF Same
  <2>6. d.oc = y /\ d.fc = im[p + 1]
    BY <1>6, <1>13
  <2> HIDE DEF p, y
  <2>7. d.fc >= 0
    <3>1. Pixel \subseteq Nat
      BY SizeFacts DEF Pixel
    <3>2. d.fc \in Pixel
      BY <2>3, <2>6
    <3>3. \A x \in Nat : x >= 0
      OBVIOUS
    <3> QED BY <3>1, <3>2, <3>3
  <2>8. D!Pixels(d)[y] = Word(im, B, z, y)
    <3>1. y \in 0 .. d.slot - 1
      BY <1>2, <1>8, <1>13, <2>1, <2>2
    <3> QED BY <1>7, <3>1
  <2>9. Word(im, B, z, y) = Text(im, p, a)
    BY <1>2, <2>1, <2>2, <2>3, WordText
  <2>10. Append(Text(im, p, a), im[a + 1]) = Text(im, p, a + 1)
    <3>1. p <= a
      BY <1>2, <2>3
    <3> QED BY <1>2, <2>3, <3>1, TextMore
  <2>11. Text(im, a, b) = Text(im, p, a + 1)
    BY <2>4, SameText
  <2>12. Spoken(d) = Append(D!Pixels(d)[y], im[p + 1])
    <3>1. d.code = d.slot
      BY <1>13 DEF c
    <3> QED BY <2>6, <2>7, <3>1 DEF Spoken
  <2> QED BY <2>5, <2>7, <2>8, <2>9, <2>10, <2>11, <2>12
<1>14. /\ c < d.slot \/ (c = d.slot /\ d.fc >= 0)
       /\ Spoken(d) = Text(im, a, b)
  BY <1>11, <1>12, <1>13
<1> QED BY <1>2, <1>3, <1>9, <1>14 DEF a, b, c

(* The decoder after the r-th code. *)
Delivers(im, d, cs, M, B, r) == Held(im, d, cs, M, B, r) /\ d.out = Text(im, 0, B[r])

LEMMA CodeDelivers ==
  ASSUME NEW im \in Seq(Pixel), NEW cs \in Seq(Coded), NEW M, NEW B, Spelled(im, cs, M, B),
         NEW r \in 0 .. Len(cs) - 1, \A k \in 1 .. r + 1 : cs[k].code # EOFCode, B[r] < Len(im),
         NEW d, Decodes(d), Delivers(im, d, cs, M, B, r), d.code = cs[r + 1].code, d.code # ClearCode,
         d.oc \in Int, d.oc >= 0 <=> M[r] >= 1, M[r] >= 1 => d.slot < d.top_slot /\ d.slot < maxmaxcode
  PROVE  LET f == Added(d, Spoken(d)[1], Spoken(d)) IN
         /\ Kept(im, f, cs, B, (r + 1) - M[r + 1], M[r + 1]) /\ M[r + 1] = M[r] + 1
         /\ f.oc = cs[r + 1].code /\ f.fc = im[B[r] + 1] /\ f.out = Text(im, 0, B[r + 1])
<1> DEFINE m == M[r]
           z == r - m
           a == B[r]
           b == B[r + 1]
           first == Spoken(d)[1]
           f == Added(d, first, Spoken(d))
<1>1. /\ r \in 0 .. Len(cs) /\ r + 1 \in 0 .. Len(cs) /\ r \in Nat /\ r \in 0 .. r
      /\ r + 1 \in 1 .. r + 1 /\ Len(im) \in Nat /\ r + 1 \in 1 .. Len(cs)
  OBVIOUS
<1>2. m \in Nat /\ z \in Nat /\ a < Len(im) /\ \A k \in 0 .. r : B[k] \in Nat /\ im[B[k] + 1] \in Pixel
  BY <1>1, Bounds
<1>3. /\ d.code < d.slot \/ (d.code = d.slot /\ d.fc >= 0)
      /\ Spoken(d) = Text(im, a, b)
      /\ a \in Nat /\ b \in Nat /\ a < b /\ b <= Len(im)
  BY SpokenText DEF Delivers
<1>4. first = im[a + 1]
  <2> HIDE DEF a, b
  <2>1. a <= b /\ 1 \in 1 .. b - a
    BY <1>3
  <2>2. Text(im, a, b)[1] = im[a + 1]
    BY <1>3, <2>1, TextType
  <2> QED BY <1>3, <2>2
<1>5. /\ f.oc = d.code /\ f.out = d.out \o Spoken(d) /\ f.fc = first
      /\ f.prefix = (IF d.slot < d.top_slot /\ d.oc >= 0 THEN [d.prefix EXCEPT ![d.slot] = d.oc] ELSE d.prefix)
      /\ f.suffix = (IF d.slot < d.top_slot /\ d.oc >= 0 THEN [d.suffix EXCEPT ![d.slot] = first] ELSE d.suffix)
  <2>1. f.oc = d.code /\ f.out = d.out \o Spoken(d)
    BY EntryKeeps
  <2> DEFINE pixels == Spoken(d)
             g == Added(d, first, pixels)
  <2> HIDE DEF first, pixels
  <2>2. /\ g.fc = first
        /\ g.prefix = IF Adds(d) THEN Put(d.prefix, d.slot, d.oc) ELSE d.prefix
        /\ g.suffix = IF Adds(d) THEN Put(d.suffix, d.slot, first) ELSE d.suffix
    BY EntryTables
  <2>3. f = g
    BY DEF pixels
  <2> HIDE DEF f, g
  <2> QED BY <2>1, <2>2, <2>3 DEF Put, Adds
<1>6. /\ d.out = Text(im, 0, a) /\ Kept(im, d, cs, B, z, m)
      /\ d.slot = (IF m = 0 THEN ClearCode + 2 ELSE ClearCode + 1 + m)
      /\ m # 0 => d.oc = cs[r].code
  BY DEF Delivers, Held, Slots
<1>7. d.oc \in Int /\ (d.oc >= 0 <=> m >= 1) /\ (m >= 1 => d.slot < d.top_slot /\ d.slot < maxmaxcode)
      /\ d.code = cs[r + 1].code
  OBVIOUS
<1>8. M[r + 1] = m + 1
  BY <1>1 DEF Spelled, Counted
<1> HIDE DEF f, first, m, z, a, b
<1>9. f.out = Text(im, 0, b)
  <2>1. a <= b
    BY <1>3
  <2>2. Text(im, 0, a) \o Text(im, a, b) = Text(im, 0, b)
    BY <1>3, <2>1, TextConcat
  <2> QED BY <1>3, <1>5, <1>6, <2>2
<1>10. ClearCode \in Nat /\ maxmaxcode \in Nat
  BY SizeFacts
<1>11. first \in Int
  <2>1. Pixel \subseteq Int
    BY SizeFacts DEF Pixel
  <2>2. im[a + 1] \in Pixel
    BY <1>1, <1>2 DEF a
  <2> QED BY <1>4, <2>1, <2>2
<1>12. CASE m = 0
  <2>1. f.prefix = d.prefix /\ f.suffix = d.suffix
    BY <1>5, <1>7, <1>12
  <2>2. 0 .. (m + 1) - 2 = {}
    BY <1>12
  <2>3. Kept(im, f, cs, B, z, m + 1)
    BY <1>6, <2>1, <2>2 DEF Kept
  <2>4. (r + 1) - M[r + 1] = z
    BY <1>1, <1>2, <1>8 DEF z, m
  <2> QED BY <1>4, <1>5, <1>7, <1>8, <1>9, <2>3, <2>4 DEF f, first, m, a, b
<1>13. CASE m # 0
  <2> DEFINE s == d.slot
  <2>1. s = ClearCode + 1 + m /\ s \in 0 .. maxmaxcode - 1 /\ d.oc >= 0 /\ s < d.top_slot /\ m >= 1
    BY <1>2, <1>6, <1>7, <1>10, <1>13
  <2>2. f.prefix = [d.prefix EXCEPT ![s] = d.oc] /\ f.suffix = [d.suffix EXCEPT ![s] = first]
    BY <1>5, <2>1
  <2> HIDE DEF s
  <2>3. d.prefix \in [0 .. maxmaxcode - 1 -> Int] /\ d.suffix \in [0 .. maxmaxcode - 1 -> Int]
        /\ \A j \in 0 .. m - 2 : /\ d.prefix[ClearCode + 2 + j] = cs[z + j + 1].code
                                 /\ d.suffix[ClearCode + 2 + j] = im[B[z + j + 1] + 1]
    BY <1>6 DEF Kept
  <2>4. f.prefix \in [0 .. maxmaxcode - 1 -> Int] /\ f.suffix \in [0 .. maxmaxcode - 1 -> Int]
    BY <1>7, <1>11, <2>2, <2>3
  <2>5. z + m = r
    BY <1>1, <1>2 DEF z
  <2>6. ASSUME NEW j \in 0 .. (m + 1) - 2
        PROVE  f.prefix[ClearCode + 2 + j] = cs[z + j + 1].code /\ f.suffix[ClearCode + 2 + j] = im[B[z + j + 1] + 1]
    <3>1. CASE j = m - 1
      <4>1. ClearCode + 2 + j = s /\ z + j + 1 = r
        <5>1. m \in Nat /\ z \in Nat /\ s = ClearCode + 1 + m
          BY <1>2, <2>1
        <5>2. j = m - 1
          BY <3>1
        <5> QED BY ONLY <1>10, <2>5, <5>1, <5>2
      <4>2. f.prefix[s] = d.oc /\ f.suffix[s] = first
        BY <2>1, <2>2, <2>3
      <4> QED BY <1>4, <1>6, <1>13, <4>1, <4>2 DEF a
    <3>2. CASE j # m - 1
      <4> DEFINE t == ClearCode + 2 + j
      <4>1. j \in 0 .. m - 2 /\ t # s /\ t \in 0 .. maxmaxcode - 1
        BY <1>2, <1>10, <2>1, <3>2
      <4>2. d.prefix[t] = cs[z + j + 1].code /\ d.suffix[t] = im[B[z + j + 1] + 1]
        BY <2>3, <4>1
      <4> HIDE DEF t
      <4>3. f.prefix[t] = d.prefix[t] /\ f.suffix[t] = d.suffix[t]
        BY <2>2, <2>3, <4>1
      <4>4. f.prefix[t] = cs[z + j + 1].code /\ f.suffix[t] = im[B[z + j + 1] + 1]
        BY <4>2, <4>3
      <4> QED BY <4>4 DEF t
    <3> QED BY <3>1, <3>2
  <2>7. Kept(im, f, cs, B, z, m + 1)
    BY <2>4, <2>6 DEF Kept
  <2>8. (r + 1) - M[r + 1] = z
    BY <1>1, <1>2, <1>8 DEF z, m
  <2> QED BY <1>4, <1>5, <1>7, <1>8, <1>9, <2>7, <2>8 DEF f, first, m, a, b
<1> QED BY <1>12, <1>13

ChannelVars == <<image, dec.out, dec.mode = "done">>

LEMMA LengthRead ==
  ASSUME NEW cs \in Seq(Coded), NEW r \in 0 .. Len(cs)
  PROVE  Len(SubSeq(cs, 1, r)) = r
<1>1. r \in Nat /\ \A k \in 1 .. r : cs[k] \in Coded
  OBVIOUS
<1> QED BY <1>1

(* A code: the pixels it stands for are delivered. *)
LEMMA CodeStep ==
  ASSUME WidthInv, DeliverInv, D!DecodeCode(Len(image)), UNCHANGED <<image, enc, codes>>
  PROVE  DeliverInv' /\ [Channel!Next]_ChannelVars
<1> DEFINE d == D!lzw_get_code(dec)
<1>1. dec.mode = "decode" /\ Len(dec.out) < Len(image)
      /\ \/ d.code = d.newcodes - 2 /\ dec' = D!ResetTable(d)
         \/ d.code = d.newcodes - 1
         \/ /\ d.code \notin {d.newcodes - 2, d.newcodes - 1}
            /\ d.code > d.slot \/ (d.code = d.slot /\ d.fc < 0)
         \/ /\ d.code \notin {d.newcodes - 2, d.newcodes - 1}
            /\ d.code < d.slot \/ (d.code = d.slot /\ d.fc >= 0)
            /\ dec' = Added(d, Spoken(d)[1], Spoken(d))
  BY DecodePixels DEF D!DecodeCode
<1>2. image' = image /\ codes' = codes
  OBVIOUS
<1>3. /\ codes \in Seq(Coded) /\ CodesFit /\ image \in Seq(Pixel) /\ Len(image) \in Nat
      /\ gb \in Seq(Bytes) /\ Decodes(dec) /\ Finished(codes)
  BY <1>1, StreamCoded, ImageType DEF WidthInv, FrameInv, EncoderInv, DecoderInv, Decodes, ReadInv, Reading
<1>4. PICK o, S :
        /\ o \in Seq(Bytes) /\ Reads(gb, o) /\ IsStream(S, o, codes)
        /\ \E r \in 0 .. Len(codes) - 1 : ReadTo(S, o, dec, r)
  BY <1>1 DEF WidthInv, ReadInv, Reading
<1>5. PICK r \in 0 .. Len(codes) - 1 : ReadTo(S, o, dec, r)
  BY <1>4
<1>6. r \in 0 .. Len(codes) /\ r + 1 \in 0 .. Len(codes) /\ r + 1 \in 1 .. Len(codes) /\ Len(codes) \in Nat /\ r \in Nat
  BY <1>3
<1>7. PICK M, B : Spelled(image, codes, M, B) /\ B[Len(codes)] = Len(image) /\ Decoded(image, dec, codes, M, B)
  BY <1>1 DEF DeliverInv
<1>8. M[r] = S.M[r] /\ M[r] \in Nat /\ B[r] \in Nat /\ B[r] <= Len(image)
  <2>1. Counted(codes, M) /\ Ruled(codes, S.M, S.G)
    BY <1>4, <1>7 DEF Spelled, IsStream
  <2>2. M[r] = S.M[r]
    BY <1>3, <1>6, <2>1, CountAgrees
  <2> QED BY <1>3, <1>6, <1>7, <2>2, Bounds
<1>9. Delivers(image, dec, codes, M, B, r) /\ dec.oc \in Int /\ (dec.oc >= 0 <=> M[r] >= 1)
  <2>1. Len(dec.read) = r
    BY <1>3, <1>5, <1>6, LengthRead DEF ReadTo
  <2>2. Slots(dec, M[r]) /\ dec.oc \in Int /\ (dec.oc >= 0 <=> M[r] >= 1)
    BY <1>5, <1>8 DEF ReadTo, Rates, Slots
  <2> QED BY <1>7, <2>1, <2>2 DEF Decoded, Delivers, Held, Kept
<1>10. B[r] < Len(image) /\ Len(dec.out) = B[r]
  <2>1. dec.out = Text(image, 0, B[r])
    BY <1>9 DEF Delivers
  <2>2. Len(dec.out) = B[r]
    BY <1>3, <1>8, <2>1, TextFirst
  <2> QED BY <1>1, <2>2
<1>11. /\ IsDec(d) /\ SameTables(d, dec) /\ d.bbits \in 0 .. 7
       /\ d.code = codes[r + 1].code /\ d.read = Append(dec.read, codes[r + 1])
  <2>1. IsDec(dec) /\ dec.bbits \in 0 .. 7
    BY <1>3 DEF Decodes
  <2>2. dec.cursize = S.G[r] /\ Stands(S, o, dec, S.W[r], S.V[r])
    BY <1>5 DEF ReadTo, Rates
  <2>3. codes \in Seq(Coded) /\ CodesFit /\ gb \in Seq(Bytes)
    BY <1>3
  <2>4. o \in Seq(Bytes) /\ Reads(gb, o) /\ IsStream(S, o, codes)
    BY <1>4
  <2> QED BY ONLY r \in 0 .. Len(codes) - 1, <2>1, <2>2, <2>3, <2>4, CodeComes
<1> HIDE DEF d
<1>12. d.read = SubSeq(codes, 1, r + 1) /\ Len(d.read) = r + 1
  BY <1>3, <1>5, <1>6, <1>11, PrefixMore, LengthRead DEF ReadTo
<1>13. Decodes(d) /\ d.mode = "decode" /\ Rates(S, d, r)
  BY <1>1, <1>3, <1>5, <1>11 DEF Decodes, ReadTo, Rates, SameTables
<1>14. Delivers(image, d, codes, M, B, r) /\ d.oc \in Int /\ (d.oc >= 0 <=> M[r] >= 1)
  BY <1>9, <1>11 DEF Delivers, Held, Slots, Kept, SameTables
<1>15. d.newcodes - 2 = ClearCode /\ d.newcodes - 1 = EOFCode
  <2>1. d.newcodes = ClearCode + 2 /\ ClearCode \in Nat
    BY <1>13, SizeFacts DEF Rates
  <2> QED BY <2>1 DEF EOFCode
<1>16. \A k \in 1 .. r + 1 : codes[k].code # EOFCode
  <2>1. codes[r + 1].code # EOFCode
    <3> SUFFICES ASSUME codes[r + 1].code = EOFCode PROVE FALSE
      OBVIOUS
    <3>1. r + 1 = Len(codes)
      BY <1>3, <1>6 DEF Finished
    <3>2. B[r + 1] = B[r]
      BY <1>7 DEF Spelled
    <3> QED BY <1>7, <1>10, <3>1, <3>2
  <2>2. ASSUME NEW k \in 1 .. r + 1 PROVE codes[k].code # EOFCode
    <3>1. k = r + 1 \/ k \in 1 .. Len(codes) - 1
      BY <1>6
    <3> QED BY <1>3, <2>1, <3>1 DEF Finished
  <2> QED BY <2>2
<1>17. ASSUME dec'.mode = "decode", Decoded(image, dec', codes, M, B),
              \/ dec'.out = dec.out
              \/ \E n \in Len(dec.out) + 1 .. Len(image) : dec'.out = SubSeq(image, 1, n)
       PROVE  DeliverInv' /\ [Channel!Next]_ChannelVars
  <2>1. DeliverInv'
    BY <1>2, <1>7, <1>17 DEF DeliverInv
  <2>2. [Channel!Next]_ChannelVars
    BY <1>1, <1>2, <1>17 DEF ChannelVars, Channel!Next, Channel!Deliver
  <2> QED BY <2>1, <2>2
<1>18. CASE d.code = ClearCode /\ dec' = D!ResetTable(d)
  <2> DEFINE f == D!ResetTable(d)
  <2>1. f.mode = "decode" /\ f.read = d.read /\ f.out = d.out /\ f.fc = -1 /\ f.prefix = d.prefix /\ f.suffix = d.suffix
    BY <1>13, ResetKeeps, ResetTables
  <2> HIDE DEF f
  <2>2. M[r + 1] = 0 /\ B[r + 1] = B[r]
    BY <1>7, <1>11, <1>18 DEF Spelled, Counted
  <2>3. 0 .. 0 - 2 = {}
    OBVIOUS
  <2>4. Decoded(image, f, codes, M, B)
    BY <1>12, <1>14, <2>1, <2>2, <2>3 DEF Decoded, Delivers, Held, Kept
  <2>5. f.out = dec.out
    BY <1>9, <1>14, <2>1 DEF Delivers
  <2> QED BY <1>17, <1>18, <2>1, <2>4, <2>5 DEF f
<1>19. CASE d.code # ClearCode /\ dec' = Added(d, Spoken(d)[1], Spoken(d))
  <2> DEFINE f == Added(d, Spoken(d)[1], Spoken(d))
  <2>1. M[r] >= 1 => d.slot < d.top_slot /\ d.slot < maxmaxcode
    <3> DEFINE m == M[r]
               g == S.G[r]
    <3>1. d.cursize = g /\ d.top_slot = Pow2[g] /\ d.slot = (IF m = 0 THEN ClearCode + 2 ELSE ClearCode + 1 + m)
      BY <1>8, <1>13 DEF Rates
    <3>2. ClearCode + 2 + m <= Pow2[g]
      <4>1. After(codes[r + 1].code, S.M[r], S.G[r], S.M[r + 1], S.G[r + 1])
        BY <1>4 DEF IsStream, Ruled
      <4>2. codes[r + 1].code # EOFCode /\ codes[r + 1].code # ClearCode
        BY <1>6, <1>11, <1>16, <1>19
      <4> QED BY <1>8, <4>1, <4>2 DEF After
    <3>3. g \in Nat /\ g <= BITS /\ BITS \in Nat
      <4>1. d.cursize \in initCodeSize + 1 .. BITS /\ initCodeSize \in Nat /\ BITS \in Nat
        BY <1>13, SizeFacts DEF Decodes
      <4> QED BY <3>1, <4>1
    <3>4. Pow2[g] <= maxmaxcode /\ Pow2[g] \in Nat /\ maxmaxcode \in Nat /\ ClearCode \in Nat
      BY <3>3, Pow2Mono, Pow2Type, SizeFacts DEF maxmaxcode
    <3>5. m \in Nat
      BY <1>8
    <3> HIDE DEF m, g
    <3>6. m >= 1 => d.slot < d.top_slot /\ d.slot < maxmaxcode
      BY <3>1, <3>2, <3>4, <3>5
    <3> QED BY <3>6 DEF m
  <2>2. /\ Kept(image, f, codes, B, (r + 1) - M[r + 1], M[r + 1]) /\ M[r + 1] = M[r] + 1
        /\ f.oc = codes[r + 1].code /\ f.fc = image[B[r] + 1] /\ f.out = Text(image, 0, B[r + 1])
    BY <1>3, <1>7, <1>10, <1>11, <1>13, <1>14, <1>16, <1>19, <2>1, CodeDelivers
  <2>3. B[r] < B[r + 1] /\ B[r + 1] \in Nat /\ B[r + 1] <= Len(image)
    BY <1>3, <1>7, <1>10, <1>11, <1>14, <1>16, <1>19, SpokenText DEF Delivers
  <2>4. f.mode = "decode" /\ f.read = d.read
    BY <1>13, EntryKeeps
  <2> HIDE DEF f
  <2>5. (r + 1) - 1 = r /\ M[r + 1] # 0
    BY <1>6, <1>8, <2>2
  <2>6. Decoded(image, f, codes, M, B)
    BY <1>12, <2>2, <2>4, <2>5 DEF Decoded, Kept
  <2>7. f.out = SubSeq(image, 1, B[r + 1])
    BY <1>3, <2>2, <2>3, TextFromFirst
  <2>8. B[r + 1] \in Len(dec.out) + 1 .. Len(image)
    <3> DEFINE a == B[r]
               b == B[r + 1]
    <3>1. a \in Nat /\ b \in Nat /\ a < b /\ b <= Len(image) /\ Len(dec.out) = a
      BY <1>8, <1>10, <2>3
    <3> HIDE DEF a, b
    <3>2. b \in Len(dec.out) + 1 .. Len(image)
      BY <1>3, <3>1
    <3> QED BY <3>2 DEF b
  <2> QED BY <1>17, <1>19, <2>4, <2>6, <2>7, <2>8 DEF f
<1>20. d.code # EOFCode
  BY <1>6, <1>11, <1>16
<1>21. ASSUME d.code # ClearCode PROVE d.code < d.slot \/ (d.code = d.slot /\ d.fc >= 0)
  BY <1>3, <1>7, <1>10, <1>11, <1>14, <1>16, <1>21, SpokenText DEF Delivers
<1>22. ASSUME d.code # ClearCode PROVE ~(d.code > d.slot \/ (d.code = d.slot /\ d.fc < 0))
  <2>1. d.code \in Nat /\ d.slot \in Nat
    <3>1. codes[r + 1] \in Coded
      BY <1>3, <1>6
    <3>2. d.slot \in Nat
      <4> DEFINE m == M[r]
      <4>1. d.slot = (IF m = 0 THEN ClearCode + 2 ELSE ClearCode + 1 + m) /\ m \in Nat
        BY <1>8, <1>13 DEF Rates
      <4>2. ClearCode \in Nat
        BY SizeFacts
      <4> HIDE DEF m
      <4> QED BY <4>1, <4>2
    <3> QED BY <1>11, <3>1, <3>2 DEF Coded
  <2>2. d.fc \in Int
    <3>1. CASE M[r] = 0
      BY <1>14, <3>1 DEF Delivers, Held
    <3>2. CASE M[r] # 0
      <4>1. r - 1 \in 0 .. r
        <5>1. M[r] <= r
          BY <1>6, <1>7 DEF Spelled, Counted
        <5> QED BY <1>6, <1>8, <3>2, <5>1
      <4>2. image[B[r - 1] + 1] \in Pixel
        BY <1>3, <1>6, <1>7, <1>10, <4>1, Bounds
      <4>3. Pixel \subseteq Int
        BY SizeFacts DEF Pixel
      <4> QED BY <1>14, <3>2, <4>2, <4>3 DEF Delivers, Held
    <3> QED BY <3>1, <3>2
  <2> QED BY <1>21, <1>22, <2>1, <2>2
<1> QED BY <1>1, <1>15, <1>18, <1>19, <1>20, <1>22

(* The end: every pixel was delivered. *)
LEMMA CompleteStep ==
  ASSUME WidthInv, DeliverInv, D!Complete(Len(image)), UNCHANGED <<image, enc, codes>>
  PROVE  DeliverInv' /\ [Channel!Next]_ChannelVars
<1>1. dec.mode = "decode" /\ Len(dec.out) >= Len(image) /\ dec' = [dec EXCEPT !.mode = "done"] /\ image' = image
  BY DEF D!Complete
<1>2. codes \in Seq(Coded) /\ image \in Seq(Pixel) /\ Len(image) \in Nat /\ Decodes(dec)
  BY <1>1, StreamCoded, ImageType DEF WidthInv, FrameInv, EncoderInv, DecoderInv, Decodes
<1>3. PICK o, S : \E r \in 0 .. Len(codes) - 1 : ReadTo(S, o, dec, r)
  BY <1>1 DEF WidthInv, ReadInv, Reading
<1>4. PICK r \in 0 .. Len(codes) - 1 : ReadTo(S, o, dec, r)
  BY <1>3
<1>5. r \in 0 .. Len(codes)
  BY <1>2
<1>6. PICK M, B : Spelled(image, codes, M, B) /\ Decoded(image, dec, codes, M, B)
  BY <1>1 DEF DeliverInv
<1>7. Len(dec.read) = r
  BY <1>2, <1>4, <1>5, LengthRead DEF ReadTo
<1> DEFINE b == B[r]
<1>8. dec.out = Text(image, 0, b) /\ b \in Nat /\ b <= Len(image)
  BY <1>2, <1>5, <1>6, <1>7, Bounds DEF Decoded
<1> HIDE DEF b
<1>9. Len(dec.out) = b /\ dec.out = SubSeq(image, 1, b)
  BY <1>2, <1>8, TextFirst, TextFromFirst
<1>10. dec.out = image
  <2>1. b = Len(image)
    BY <1>1, <1>2, <1>8, <1>9
  <2>2. SubSeq(image, 1, Len(image)) = image
    BY <1>2, SubSeqFull
  <2> QED BY <1>9, <2>1, <2>2
<1>11. dec'.mode = "done" /\ dec'.out = dec.out
  BY <1>1, <1>2, OneTime
<1>12. DeliverInv'
  BY <1>1, <1>10, <1>11 DEF DeliverInv
<1>13. [Channel!Next]_ChannelVars
  BY <1>1, <1>10, <1>11 DEF ChannelVars, Channel!Next, Channel!Close
<1> QED BY <1>12, <1>13

(* The decoder is opened: nothing is delivered yet. *)
LEMMA OpenStep ==
  ASSUME WidthInv, SpellInv, DeliverInv, Open
  PROVE  DeliverInv' /\ UNCHANGED ChannelVars
<1>1. /\ enc.pc = "done" /\ dec.mode = "closed" /\ codes' = codes /\ image' = image
      /\ dec' = D!DecoderInit(Head(enc.outs))
  BY DEF Open
<1>2. Head(enc.outs) = initCodeSize
  <2>1. PICK q \in Seq(Bytes) : Blocked(q) /\ enc.outs = Append(q, 0)
    BY <1>1 DEF WidthInv, FrameInv, EncoderInv, Closed
  <2>2. Len(q) \in Nat /\ Len(q) >= 1 /\ q[1] = initCodeSize
    BY <2>1 DEF Blocked
  <2>3. Append(q, 0) \in Seq(Bytes) /\ Append(q, 0) # <<>> /\ Append(q, 0)[1] = initCodeSize
    BY <2>2 DEF Bytes
  <2> QED BY <2>1, <2>3
<1> DEFINE d == D!DecoderInit(initCodeSize)
           I == 0 .. maxmaxcode - 1
<1>3. d.mode = "decode" /\ d.read = <<>> /\ d.out = <<>> /\ d.fc = -1
      /\ d.suffix = [s \in I |-> 0] /\ d.prefix = [s \in I |-> 0]
  BY SamePowers DEF D!DecoderInit, maxmaxcode
<1>4. dec' = d
  BY <1>1, <1>2
<1> HIDE DEF d
<1>5. PICK M, B : Spelled(image, codes, M, B) /\ B[Len(codes)] = Len(image)
  BY <1>1 DEF SpellInv
<1>6. Len(d.read) = 0 /\ Len(codes) \in Nat /\ image \in Seq(Pixel) /\ Len(image) \in Nat
  BY <1>3, StreamCoded, ImageType DEF WidthInv, FrameInv, EncoderInv
<1>7. M[0] = 0 /\ B[0] = 0
  <2>1. 0 \in 0 .. Len(codes)
    BY <1>6
  <2>2. M[0] \in Nat /\ M[0] <= 0
    BY <1>5, <2>1 DEF Spelled, Counted
  <2> QED BY <1>5, <2>2 DEF Spelled
<1>8. d.out = Text(image, 0, 0)
  <2>1. Text(image, 0, 0) \in Seq(Pixel) /\ Len(Text(image, 0, 0)) = 0
    BY <1>6, TextFirst
  <2> QED BY <1>3, <2>1
<1>9. d.prefix \in [I -> Int] /\ d.suffix \in [I -> Int] /\ 0 .. 0 - 2 = {}
  BY <1>3
<1>10. Decoded(image, d, codes, M, B)
  BY <1>3, <1>6, <1>7, <1>8, <1>9 DEF Decoded, Kept
<1>11. DeliverInv'
  BY <1>1, <1>3, <1>4, <1>5, <1>10 DEF DeliverInv
<1>12. dec.out = <<>>
  BY <1>1 DEF DeliverInv
<1> QED BY <1>1, <1>3, <1>4, <1>11, <1>12 DEF ChannelVars

LEMMA LosslessInit == FrameInit => LosslessInv /\ Channel!Init
<1> SUFFICES ASSUME FrameInit PROVE LosslessInv /\ Channel!Init
  OBVIOUS
<1>1. WidthInv
  BY WidthInit
<1>2. enc.pc = "start"
  BY DEF FrameInit, EncoderInit
<1>3. dec.mode = "closed" /\ dec.out = <<>>
  BY DEF FrameInit, D!DecoderInit
<1>4. SpellInv /\ DeliverInv
  BY <1>2, <1>3 DEF SpellInv, DeliverInv
<1>5. Channel!Init
  BY <1>3 DEF Channel!Init
<1> QED BY <1>1, <1>4, <1>5 DEF LosslessInv

LEMMA LosslessStep == LosslessInv /\ [FrameNext]_frameVars => LosslessInv' /\ [Channel!Next]_ChannelVars
<1> SUFFICES ASSUME LosslessInv, [FrameNext]_frameVars PROVE LosslessInv' /\ [Channel!Next]_ChannelVars
  OBVIOUS
<1>1. WidthInv /\ SpellInv /\ DeliverInv /\ FrameInv /\ StreamInv /\ EncoderInv
  BY DEF LosslessInv, WidthInv, FrameInv
<1>2. WidthInv'
  BY <1>1, WidthStep
<1>3. ASSUME UNCHANGED <<image, enc, codes>> PROVE SpellInv'
  BY <1>1, <1>3 DEF SpellInv
<1>4. CASE Encode
  <2>1. UNCHANGED <<image, gb, dec>>
    BY <1>4 DEF Encode, EncoderNext
  <2>2. SpellInv'
    BY <1>1, <1>4, <2>1, PrologueSpells, NextPixelSpells, ProbeSpells, EmitSpells, EpilogueSpells
    DEF Encode, EncoderNext
  <2>3. enc.pc # "done"
    BY <1>4 DEF Encode, EncoderNext, Prologue, NextPixel, Probe, Emit, Epilogue
  <2>4. dec.mode = "closed"
    BY <1>1, <2>3 DEF FrameInv, DecoderInv
  <2>5. DeliverInv'
    BY <1>1, <2>1, <2>4 DEF DeliverInv
  <2>6. UNCHANGED ChannelVars
    BY <2>1 DEF ChannelVars
  <2> QED BY <1>2, <2>2, <2>5, <2>6 DEF LosslessInv
<1>5. CASE Open
  <2>1. UNCHANGED <<image, enc, codes>>
    BY <1>5 DEF Open
  <2> QED BY <1>1, <1>2, <1>3, <1>5, <2>1, OpenStep DEF LosslessInv
<1>6. CASE Decode
  <2>1. UNCHANGED <<image, enc, codes>>
    BY <1>6 DEF Decode
  <2> QED BY <1>1, <1>2, <1>3, <1>6, <2>1, CodeStep, CompleteStep DEF LosslessInv, Decode
<1>7. CASE UNCHANGED frameVars
  <2>1. UNCHANGED <<image, enc, codes, gb, dec>>
    BY <1>7 DEF frameVars
  <2>2. DeliverInv'
    BY <1>1, <2>1 DEF DeliverInv
  <2>3. UNCHANGED ChannelVars
    BY <2>1 DEF ChannelVars
  <2> QED BY <1>2, <1>3, <2>1, <2>2, <2>3 DEF LosslessInv
<1>8. CASE Done
  BY <1>7, <1>8 DEF Done
<1> QED BY <1>4, <1>5, <1>6, <1>7, <1>8 DEF FrameNext

(* What a viewer sees is what was encoded: for every code space, table,       *)
(* packet and image, the pixels the decoder puts out are the first of the     *)
(* image, in order, and it stops only when all of them are out. The initial   *)
(* states of encoder and decoder are initial states of the lossless channel,  *)
(* and every step of theirs is one of its steps or leaves it as it is.        *)
THEOREM FrameLossless ==
  FrameSpec => Channel!Init /\ [][Channel!Next]_<<image, dec.out, dec.mode = "done">>
<1>1. FrameInit => LosslessInv /\ Channel!Init
  BY LosslessInit
<1>2. LosslessInv /\ [FrameNext]_frameVars
      => LosslessInv' /\ [Channel!Next]_<<image, dec.out, dec.mode = "done">>
  BY LosslessStep DEF ChannelVars
<1> QED BY <1>1, <1>2, PTL DEF FrameSpec

-----------------------------------------------------------------------------
(* AnimatedGifEncoder, for any sizes, files, frames and failing writes.       *)

USE EncoderAssumption DEF EncoderAssumption, None, NoSize

(* The stream being written is not finished, and closeStream says whether the *)
(* encoder opened it.                                                         *)
Streaming ==
  /\ started => ~files[out].finished
  /\ out # None => files[out].named = closeStream

(* Blocks that carry a size; in a clean file they all carry the same one, and *)
(* in the stream being written it is the one the encoder is set to, once the  *)
(* first frame is written whole.                                              *)
Sized(b) == b.kind \in {"lsd", "descriptor"}
Fits(f, s) == \A i \in DOMAIN f.blocks : Sized(f.blocks[i]) => f.blocks[i].size = s
NoneSized(f) == \A i \in DOMAIN f.blocks : ~Sized(f.blocks[i])
SizesAgree ==
  /\ \A k \in DOMAIN files : Clean(files[k]) => \E s \in Sizes : Fits(files[k], s)
  /\ started /\ Clean(files[out]) /\ firstFrame => NoneSized(files[out])
  /\ started /\ Clean(files[out]) /\ ~firstFrame => sizeSet /\ Fits(files[out], size)

(* firstFrame is FALSE only while the stream being written has a frame or was *)
(* started over one that had.                                                 *)
Ongoing(f) == HasFrame(f) \/ f.restarted
FrameWritten == firstFrame \/ (out # None /\ Ongoing(files[out]))

(* Of the stream being written, firstFrame says whether it has only a header. *)
Whole(f) ==
  /\ Grammatical(f.blocks)
  /\ Last(f.blocks).kind \in IF f.finished THEN {"trailer"} ELSE {"header", "data"}
AtWork ==
  started /\ Clean(files[out]) => Last(files[out].blocks).kind = IF firstFrame THEN "header" ELSE "data"

IInv ==
  /\ TypeOK /\ Streaming /\ SizesAgree /\ FrameWritten /\ ClosesItsOwn
  /\ WellFormed /\ AtWork

-----------------------------------------------------------------------------
(* Helpers about the list of files.                                           *)
LEMMA Replace ==
  ASSUME NEW fs \in Seq(File), NEW k \in 1 .. Len(fs), NEW g \in File
  PROVE  LET new == [fs EXCEPT ![k] = g]
         IN  /\ new \in Seq(File) /\ Len(new) = Len(fs) /\ DOMAIN new = DOMAIN fs
             /\ new[k] = g /\ \A j \in DOMAIN fs : j # k => new[j] = fs[j]
OBVIOUS

LEMMA Extend ==
  ASSUME NEW fs \in Seq(File), NEW g \in File
  PROVE  LET new == Append(fs, g)
         IN  /\ new \in Seq(File) /\ Len(new) = Len(fs) + 1
             /\ DOMAIN new = 1 .. Len(fs) + 1 /\ DOMAIN fs = 1 .. Len(fs)
             /\ new[Len(fs) + 1] = g /\ \A j \in DOMAIN fs : new[j] = fs[j]
OBVIOUS

LEMMA BlockType ==
  ASSUME NEW kind \in {"header", "lsd", "netscape", "gct", "lct", "gce", "descriptor", "data", "trailer"},
         NEW s \in Sizes
  PROVE  Block(kind) \in Blocks /\ [Block(kind) EXCEPT !.size = s] \in Blocks
BY DEF Block, Blocks

LEMMA LastOfTwo ==
  ASSUME NEW S, NEW p \in Seq(S), NEW q \in Seq(S), Len(q) = 1
  PROVE  /\ Len(p \o q) = Len(p) + 1 /\ (p \o q)[Len(p) + 1] = q[1]
BY ConcatProperties

(* The blocks of a frame: their sized ones have the frame's size, and the     *)
(* last of them is the data.                                                  *)
LEMMA FrameShape ==
  ASSUME NEW s \in Sizes, firstFrame \in BOOLEAN, repeat \in {-1, 0}
  PROVE  /\ FrameBlocks(s) \in Seq(Blocks) /\ Len(FrameBlocks(s)) >= 1
         /\ \A i \in DOMAIN FrameBlocks(s) :
              Sized(FrameBlocks(s)[i]) => FrameBlocks(s)[i].size = s
         /\ FrameBlocks(s)[Len(FrameBlocks(s))].kind = "data"
<1> DEFINE first == IF firstFrame
                    THEN <<[Block("lsd") EXCEPT !.size = s], Block("gct")>> \o
                         (IF repeat >= 0 THEN <<Block("netscape")>> ELSE <<>>)
                    ELSE <<>>
           middle == <<Block("gce"), [Block("descriptor") EXCEPT !.size = s]>>
           local == IF firstFrame THEN <<>> ELSE <<Block("lct")>>
           data == <<Block("data")>>
           OK(q) == q \in Seq(Blocks) /\ \A i \in DOMAIN q : Sized(q[i]) => q[i].size = s
<1>1. ASSUME NEW p, NEW q, OK(p), OK(q)
      PROVE  OK(p \o q)
  <2>1. p \o q \in Seq(Blocks)
    BY <1>1
  <2>2. ASSUME NEW i \in DOMAIN (p \o q), Sized((p \o q)[i])
        PROVE  (p \o q)[i].size = s
    <3>1. CASE i <= Len(p)
      BY <1>1, <2>2, <3>1
    <3>2. CASE i > Len(p)
      <4>1. (p \o q)[i] = q[i - Len(p)] /\ i - Len(p) \in DOMAIN q
        BY <1>1, <2>2, <3>2
      <4> QED
        BY <1>1, <2>2, <4>1
    <3> QED
      BY <1>1, <2>2, <3>1, <3>2
  <2> QED
    BY <2>1, <2>2
<1> DEFINE Right(b) == b \in Blocks /\ (Sized(b) => b.size = s)
<1>a. /\ Right(Block("gct")) /\ Right(Block("netscape")) /\ Right(Block("gce"))
      /\ Right(Block("lct")) /\ Right(Block("data"))
  BY BlockType DEF Block, Sized
<1>b. Right([Block("lsd") EXCEPT !.size = s]) /\ Right([Block("descriptor") EXCEPT !.size = s])
  BY BlockType DEF Block
<1>c. OK(<<>>) /\ \A b : Right(b) => OK(<<b>>)
  OBVIOUS
<1>d. ASSUME NEW b, NEW c, Right(b), Right(c)
      PROVE  OK(<<b, c>>)
  BY <1>d
<1> HIDE DEF Right, OK
<1>3. OK(first)
  <2>1. OK(<<[Block("lsd") EXCEPT !.size = s], Block("gct")>>)
    BY <1>a, <1>b, <1>d
  <2>2. OK(IF repeat >= 0 THEN <<Block("netscape")>> ELSE <<>>)
    BY <1>a, <1>c
  <2> QED
    BY <1>1, <1>c, <2>1, <2>2
<1>4. OK(middle) /\ OK(local) /\ OK(data)
  BY <1>a, <1>b, <1>c, <1>d
<1>5. FrameBlocks(s) = ((first \o middle) \o local) \o data
  BY DEF FrameBlocks
<1> HIDE DEF first, middle, local, data
<1>6. OK((first \o middle) \o local)
  <2>1. OK(first \o middle)
    BY <1>1, <1>3, <1>4
  <2> QED
    BY <1>1, <1>4, <2>1
<1>7. OK(FrameBlocks(s))
  BY <1>1, <1>4, <1>5, <1>6
<1> USE DEF OK
<1>8. Len(data) = 1 /\ data[1].kind = "data" /\ data \in Seq(Blocks)
  BY <1>4 DEF data, Block
<1>9. ASSUME NEW p \in Seq(Blocks)
      PROVE  Len(p \o data) = Len(p) + 1 /\ (p \o data)[Len(p) + 1] = data[1]
  BY <1>8, LastOfTwo
<1> DEFINE before == (first \o middle) \o local
<1> HIDE DEF before
<1>10. before \in Seq(Blocks) /\ FrameBlocks(s) = before \o data
  BY <1>5, <1>6 DEF before
<1>11. Len(FrameBlocks(s)) = Len(before) + 1 /\ FrameBlocks(s)[Len(before) + 1] = data[1]
  BY <1>9, <1>10
<1> QED
  BY <1>7, <1>8, <1>10, <1>11

-----------------------------------------------------------------------------
(* The grammar: sequences of blocks that begin with one kind, end with        *)
(* another, and in which each may follow the one before.                      *)
Chained(b, first, last) ==
  /\ b \in Seq(Blocks) /\ Len(b) >= 1
  /\ b[1].kind = first /\ b[Len(b)].kind = last
  /\ \A i \in 2 .. Len(b) : <<b[i - 1].kind, b[i].kind>> \in MayFollow
NoData(b) == \A i \in 1 .. Len(b) : b[i].kind # "data"

LEMMA Concat ==
  ASSUME NEW b \in Seq(Blocks), NEW c \in Seq(Blocks)
  PROVE  /\ b \o c \in Seq(Blocks) /\ Len(b \o c) = Len(b) + Len(c)
         /\ Len(b) \in Nat /\ Len(c) \in Nat
         /\ \A i \in 1 .. Len(b) + Len(c) : (b \o c)[i] = IF i <= Len(b) THEN b[i] ELSE c[i - Len(b)]
BY ConcatProperties

LEMMA ChainConcat ==
  ASSUME NEW b, NEW c, NEW k, NEW l, NEW m, NEW n,
         Chained(b, k, l), Chained(c, m, n), <<l, m>> \in MayFollow
  PROVE  Chained(b \o c, k, n) /\ (NoData(b) /\ NoData(c) => NoData(b \o c))
<1> DEFINE d == b \o c
<1>1. /\ d \in Seq(Blocks) /\ Len(d) = Len(b) + Len(c)
      /\ \A i \in 1 .. Len(b) + Len(c) : d[i] = IF i <= Len(b) THEN b[i] ELSE c[i - Len(b)]
      /\ Len(b) \in Nat /\ Len(c) \in Nat
  BY Concat DEF Chained
<1> HIDE DEF d
<1>2. d[1].kind = k /\ d[Len(d)].kind = n /\ Len(b) >= 1 /\ Len(c) >= 1
  BY <1>1 DEF Chained
<1>3. ASSUME NEW i \in 2 .. Len(d) PROVE <<d[i - 1].kind, d[i].kind>> \in MayFollow
  <2>1. CASE i <= Len(b)
    <3>1. i \in 2 .. Len(b) /\ i \in 1 .. Len(b) + Len(c) /\ i - 1 \in 1 .. Len(b) + Len(c) /\ i - 1 <= Len(b)
      BY <1>1, <1>3, <2>1
    <3>2. d[i] = b[i] /\ d[i - 1] = b[i - 1]
      BY <1>1, <2>1, <3>1
    <3> QED
      BY <3>1, <3>2 DEF Chained
  <2>2. CASE i = Len(b) + 1
    <3>1. d[i - 1] = b[Len(b)] /\ d[i] = c[1]
      BY <1>1, <1>2, <2>2
    <3> QED
      BY <3>1 DEF Chained
  <2>3. CASE i > Len(b) + 1
    <3>1. i - Len(b) \in 2 .. Len(c) /\ i \in 1 .. Len(b) + Len(c) /\ i - 1 \in 1 .. Len(b) + Len(c)
      BY <1>1, <1>3, <2>3
    <3>2. d[i] = c[i - Len(b)] /\ d[i - 1] = c[(i - 1) - Len(b)]
      BY <1>1, <2>3, <3>1
    <3>3. (i - 1) - Len(b) = (i - Len(b)) - 1
      BY <1>1, <1>3
    <3> QED
      BY <3>1, <3>2, <3>3 DEF Chained
  <2> QED
    BY <1>1, <1>3, <2>1, <2>2, <2>3
<1>4. NoData(b) /\ NoData(c) => NoData(d)
  BY <1>1 DEF NoData
<1> QED
  BY <1>1, <1>2, <1>3, <1>4 DEF d, Chained

LEMMA ChainOne ==
  ASSUME NEW b \in Blocks
  PROVE  Chained(<<b>>, b.kind, b.kind) /\ (b.kind # "data" => NoData(<<b>>))
BY DEF Chained, NoData

(* The blocks of a frame are a chain that ends with its only data block.      *)
LEMMA FrameChain ==
  ASSUME NEW s \in Sizes, firstFrame \in BOOLEAN, repeat \in {-1, 0}
  PROVE  \E b : /\ FrameBlocks(s) = b \o <<Block("data")>> /\ NoData(b)
               /\ Chained(b, IF firstFrame THEN "lsd" ELSE "gce", IF firstFrame THEN "descriptor" ELSE "lct")
<1> DEFINE lsd == [Block("lsd") EXCEPT !.size = s]
           descriptor == [Block("descriptor") EXCEPT !.size = s]
           Link(b, k, l) == Chained(b, k, l) /\ NoData(b)
<1>1. /\ lsd \in Blocks /\ lsd.kind = "lsd" /\ descriptor \in Blocks /\ descriptor.kind = "descriptor"
      /\ Block("gct") \in Blocks /\ Block("gct").kind = "gct"
      /\ Block("netscape") \in Blocks /\ Block("netscape").kind = "netscape"
      /\ Block("gce") \in Blocks /\ Block("gce").kind = "gce"
      /\ Block("lct") \in Blocks /\ Block("lct").kind = "lct"
  BY BlockType DEF Block
<1> HIDE DEF lsd, descriptor
<1>2. ASSUME NEW b, NEW c, NEW k, NEW l, NEW m, NEW n, Link(b, k, l), Link(c, m, n), <<l, m>> \in MayFollow
      PROVE  Link(b \o c, k, n)
  BY <1>2, ChainConcat
<1>3. \A b \in Blocks : b.kind # "data" => Link(<<b>>, b.kind, b.kind)
  BY ChainOne
<1>4. ASSUME NEW b \in Blocks, NEW c \in Blocks, <<b.kind, c.kind>> \in MayFollow,
             b.kind # "data", c.kind # "data"
      PROVE  Link(<<b, c>>, b.kind, c.kind)
  BY <1>4 DEF Chained, NoData
<1> HIDE DEF Link
<1>5. Link(<<Block("gce"), descriptor>>, "gce", "descriptor")
  BY <1>1, <1>4 DEF MayFollow
<1>6. CASE firstFrame
  <2>1. Link(<<lsd, Block("gct")>>, "lsd", "gct") /\ Link(<<Block("netscape")>>, "netscape", "netscape")
    BY <1>1, <1>3, <1>4 DEF MayFollow
  <2> DEFINE head == <<lsd, Block("gct")>> \o (IF repeat >= 0 THEN <<Block("netscape")>> ELSE <<>>)
             before == head \o <<Block("gce"), descriptor>>
  <2>2. \E k \in {"gct", "netscape"} : Link(head, "lsd", k)
    <3>1. CASE repeat >= 0
      <4>1. Link(<<lsd, Block("gct")>> \o <<Block("netscape")>>, "lsd", "netscape")
        BY <1>2, <2>1 DEF MayFollow
      <4> QED
        BY <3>1, <4>1
    <3>2. CASE ~(repeat >= 0)
      <4>1. <<lsd, Block("gct")>> \o <<>> = <<lsd, Block("gct")>>
        BY <1>1
      <4> QED
        BY <2>1, <3>2, <4>1
    <3> QED
      BY <3>1, <3>2
  <2> HIDE DEF head
  <2>3. Link(before, "lsd", "descriptor")
    BY <1>2, <1>5, <2>2 DEF MayFollow
  <2>4. FrameBlocks(s) = (before \o <<>>) \o <<Block("data")>>
    BY <1>6 DEF FrameBlocks, head, lsd, descriptor
  <2>5. before \o <<>> = before
    <3>1. before \in Seq(Blocks)
      BY <2>3 DEF Link, Chained
    <3> QED
      BY <3>1
  <2> QED
    BY <1>6, <2>3, <2>4, <2>5 DEF Link
<1>7. CASE ~firstFrame
  <2> DEFINE middle == <<Block("gce"), descriptor>>
             before == middle \o <<Block("lct")>>
  <2>1. Link(before, "gce", "lct")
    <3>1. Link(<<Block("lct")>>, "lct", "lct")
      BY <1>1, <1>3
    <3> QED
      BY <1>2, <1>5, <3>1 DEF MayFollow
  <2>2. FrameBlocks(s) = ((<<>> \o middle) \o <<Block("lct")>>) \o <<Block("data")>>
    BY <1>7 DEF FrameBlocks, descriptor
  <2>3. <<>> \o middle = middle
    <3>1. middle \in Seq(Blocks)
      BY <1>1
    <3> HIDE DEF middle
    <3> QED
      BY <3>1
  <2> QED
    BY <1>7, <2>1, <2>2, <2>3 DEF Link
<1> QED
  BY <1>6, <1>7

(* A well-formed stream is a chain, and has an image unless it ends with its  *)
(* header.                                                                    *)
LEMMA WholeChain ==
  ASSUME NEW b \in Seq(Blocks), Grammatical(b)
  PROVE  /\ Chained(b, "header", Last(b).kind)
         /\ Last(b).kind = "header" => NoData(b)
         /\ Last(b).kind = "data" => \E j \in 1 .. Len(b) : b[j].kind = "data"
<1>1. Len(b) \in Nat /\ Len(b) >= 1 /\ Last(b) = b[Len(b)]
  BY DEF Grammatical, Last
<1>2. Chained(b, "header", Last(b).kind)
  BY <1>1 DEF Chained, Grammatical
<1>3. ASSUME Last(b).kind = "header" PROVE NoData(b)
  <2>1. ~(Len(b) >= 2)
    <3> SUFFICES ASSUME Len(b) >= 2 PROVE FALSE
      OBVIOUS
    <3>1. <<b[Len(b) - 1].kind, "header">> \in MayFollow
      BY <1>1, <1>3 DEF Grammatical
    <3> QED
      BY <3>1 DEF MayFollow
  <2> QED
    BY <1>1, <1>3, <2>1 DEF NoData
<1> QED
  BY <1>1, <1>2, <1>3

(* One more frame, of the kind the flag asks for, or the trailer, keeps a     *)
(* stream well-formed.                                                        *)
LEMMA FrameGrammar ==
  ASSUME NEW b \in Seq(Blocks), Grammatical(b), NEW s \in Sizes,
         firstFrame \in BOOLEAN, repeat \in {-1, 0},
         Last(b).kind = IF firstFrame THEN "header" ELSE "data"
  PROVE  Grammatical(b \o FrameBlocks(s)) /\ Last(b \o FrameBlocks(s)).kind = "data"
<1>1. PICK c : /\ FrameBlocks(s) = c \o <<Block("data")>> /\ NoData(c)
               /\ Chained(c, IF firstFrame THEN "lsd" ELSE "gce", IF firstFrame THEN "descriptor" ELSE "lct")
  BY FrameChain
<1> DEFINE d == b \o c
           data == <<Block("data")>>
           e == d \o data
           last == IF firstFrame THEN "descriptor" ELSE "lct"
<1>2. Chained(d, "header", last)
  <2>1. Chained(b, "header", IF firstFrame THEN "header" ELSE "data")
    BY WholeChain
  <2> QED
    BY <1>1, <2>1, ChainConcat DEF MayFollow
<1>3. Chained(data, "data", "data")
  <2>1. Block("data") \in Blocks /\ Block("data").kind = "data"
    BY BlockType DEF Block
  <2> QED
    BY <2>1, ChainOne
<1> HIDE DEF d, data
<1>4. Chained(e, "header", "data")
  BY <1>2, <1>3, ChainConcat DEF MayFollow
<1>5. /\ Len(e) = Len(d) + 1 /\ Len(d) \in Nat /\ Len(d) >= 1 /\ e[Len(e)].kind = "data"
      /\ \A i \in 1 .. Len(d) : e[i] = d[i]
  <2>1. Len(data) = 1
    BY DEF data
  <2> QED
    BY <1>2, <1>3, <1>4, <2>1, Concat DEF Chained
<1>6. /\ Len(d) = Len(b) + Len(c) /\ Len(b) \in Nat /\ Len(c) \in Nat
      /\ \A i \in 1 .. Len(d) : d[i] = IF i <= Len(b) THEN b[i] ELSE c[i - Len(b)]
  BY <1>1, Concat DEF Chained, d
<1>7. ASSUME NEW i \in 2 .. Len(e), e[i].kind = "data"
      PROVE  e[i - 1].kind = "lct" <=> \E j \in 1 .. i - 1 : e[j].kind = "data"
  <2>1. CASE i <= Len(b)
    <3>1. i \in 2 .. Len(b) /\ i - 1 \in 1 .. i /\ i \in 1 .. i /\ 1 .. i - 1 \subseteq 1 .. i
      BY <1>6, <1>7, <2>1
    <3>2. \A j \in 1 .. i : e[j] = b[j]
      BY <1>5, <1>6, <2>1
    <3>3. b[i - 1].kind = "lct" <=> \E j \in 1 .. i - 1 : b[j].kind = "data"
      BY <1>7, <3>1, <3>2 DEF Grammatical
    <3> QED
      BY <3>1, <3>2, <3>3
  <2>2. CASE i > Len(b) /\ i <= Len(d)
    <3>1. e[i] = c[i - Len(b)] /\ i - Len(b) \in 1 .. Len(c)
      BY <1>5, <1>6, <1>7, <2>2
    <3> QED
      BY <1>1, <1>7, <3>1 DEF NoData
  <2>3. CASE i = Len(d) + 1
    <3>1. e[i - 1].kind = last
      BY <1>2, <1>5, <2>3 DEF Chained
    <3>2. (\E j \in 1 .. Len(d) : e[j].kind = "data") <=> (\E j \in 1 .. Len(b) : b[j].kind = "data")
      <4>1. \A j \in 1 .. Len(d) : e[j].kind = "data" => j <= Len(b) /\ e[j] = b[j]
        <5> SUFFICES ASSUME NEW j \in 1 .. Len(d), e[j].kind = "data"
                     PROVE  j <= Len(b) /\ e[j] = b[j]
          OBVIOUS
        <5>1. e[j] = IF j <= Len(b) THEN b[j] ELSE c[j - Len(b)]
          BY <1>5, <1>6
        <5>2. ~(j <= Len(b)) => j - Len(b) \in 1 .. Len(c)
          BY <1>6
        <5> QED
          BY <1>1, <5>1, <5>2 DEF NoData
      <4>2. \A j \in 1 .. Len(b) : j \in 1 .. Len(d) /\ e[j] = b[j]
        BY <1>5, <1>6
      <4> QED
        BY <1>5, <1>6, <4>1, <4>2
    <3>3. (\E j \in 1 .. Len(b) : b[j].kind = "data") <=> ~firstFrame
      BY WholeChain DEF NoData
    <3> QED
      BY <1>5, <2>3, <3>1, <3>2, <3>3
  <2> QED
    <3>1. i \in Nat /\ i <= Len(d) + 1
      BY <1>5, <1>7
    <3> QED
      BY <1>5, <1>6, <2>1, <2>2, <2>3, <3>1
<1>8. Grammatical(e) /\ Last(e).kind = "data"
  <2>1. e \in Seq(Blocks) /\ Len(e) >= 1 /\ e[1].kind = "header" /\ e[Len(e)].kind = "data"
    BY <1>4 DEF Chained
  <2>2. \A i \in 2 .. Len(e) : <<e[i - 1].kind, e[i].kind>> \in MayFollow
    BY <1>4 DEF Chained
  <2>3. e # <<>>
    BY <2>1
  <2> QED
    BY <1>7, <2>1, <2>2, <2>3 DEF Grammatical, Last
<1>9. e = b \o FrameBlocks(s)
  <2>1. c \in Seq(Blocks) /\ <<Block("data")>> \in Seq(Blocks)
    BY <1>1, <1>3 DEF Chained, data
  <2> HIDE DEF Chained
  <2> QED
    BY <1>1, <2>1, ConcatAssociative DEF d, data
<1> QED
  BY <1>8, <1>9

LEMMA TrailerGrammar ==
  ASSUME NEW b \in Seq(Blocks), Grammatical(b), Last(b).kind \in {"header", "data"}
  PROVE  /\ Grammatical(Append(b, Block("trailer")))
         /\ Last(Append(b, Block("trailer"))).kind = "trailer"
<1> DEFINE c == Append(b, Block("trailer"))
<1>1. Block("trailer").kind = "trailer" /\ Len(b) \in Nat /\ Len(b) >= 1 /\ Last(b) = b[Len(b)]
  BY DEF Block, Grammatical, Last
<1>2. /\ Len(c) = Len(b) + 1 /\ c[Len(c)].kind = "trailer" /\ c # <<>>
      /\ \A i \in 1 .. Len(b) : c[i] = b[i]
  BY <1>1
<1> HIDE DEF c
<1>3. ASSUME NEW i \in 2 .. Len(c)
      PROVE  /\ <<c[i - 1].kind, c[i].kind>> \in MayFollow
             /\ c[i].kind = "data" => (c[i - 1].kind = "lct" <=> \E j \in 1 .. i - 1 : c[j].kind = "data")
  <2>1. CASE i <= Len(b)
    <3>1. \A j \in 1 .. i : c[j] = b[j]
      BY <1>1, <1>2, <2>1
    <3>2. i \in 2 .. Len(b) /\ i \in 1 .. i /\ i - 1 \in 1 .. i /\ 1 .. i - 1 \subseteq 1 .. i
      BY <1>1, <1>2, <2>1
    <3> QED
      BY <3>1, <3>2 DEF Grammatical
  <2>2. CASE i = Len(b) + 1
    <3>1. c[i - 1] = Last(b) /\ c[i].kind = "trailer"
      BY <1>1, <1>2, <2>2
    <3> QED
      BY <3>1 DEF MayFollow
  <2> QED
    BY <1>1, <1>2, <2>1, <2>2
<1>4. c[1].kind = "header"
  BY <1>1, <1>2 DEF Grammatical
<1> QED
  BY <1>2, <1>3, <1>4 DEF Grammatical, Last, c

-----------------------------------------------------------------------------
LEMMA InitIInv == Init => IInv
<1> SUFFICES ASSUME Init PROVE IInv
  OBVIOUS
<1>1. files = <<>> /\ files \in Seq(File) /\ Len(files) = 0 /\ DOMAIN files = {}
  BY DEF Init
<1>2. out = 0 /\ ~started /\ firstFrame
  BY DEF Init
<1>3. TypeOK
  <2>1. {started, firstFrame, closeStream, sizeSet, sizeChosen} \subseteq BOOLEAN
    BY DEF Init
  <2>2. size \in Sizes /\ repeat \in {-1, 0} /\ 0 <= MaxFiles
    BY DEF Init
  <2> QED
    BY <1>1, <1>2, <2>1, <2>2 DEF TypeOK
<1> QED
  BY <1>1, <1>2, <1>3 DEF IInv, Streaming, SizesAgree, FrameWritten, ClosesItsOwn, WellFormed, AtWork

(* start: the new stream has no sized block; it is clean only when firstFrame *)
(* is TRUE, and started over another's frames whenever firstFrame is FALSE.   *)
LEMMA StartKeeps ==
  ASSUME IInv, NEW named \in BOOLEAN, NEW ok \in BOOLEAN,
         StartOn(named, ok), closeStream' = named
  PROVE  IInv'
<1> DEFINE f == [NewFile(named) EXCEPT !.blocks = IF ok THEN <<Block("header")>> ELSE <<>>,
                                       !.failed = ~ok]
           n == Len(files) + 1
<1>1. f \in File
  <2>1. NewFile(named) \in File
    BY DEF NewFile, File
  <2>2. (IF ok THEN <<Block("header")>> ELSE <<>>) \in Seq(Blocks)
    <3>1. Block("header") \in Blocks
      BY BlockType
    <3> QED
      BY <3>1
  <2> QED
    BY <2>1, <2>2 DEF File
<1>2. /\ f.named = named /\ ~f.closed /\ ~f.finished /\ NoneSized(f)
      /\ firstFrame \/ f.restarted
      /\ Clean(f) => firstFrame /\ Whole(f) /\ Last(f.blocks).kind = "header"
  <2>1. f.named = named /\ ~f.closed /\ ~f.finished
    BY DEF NewFile
  <2>2. f.blocks = IF ok THEN <<Block("header")>> ELSE <<>>
    BY DEF NewFile
  <2>3. NoneSized(f)
    BY <2>2 DEF NoneSized, Sized, Block
  <2>4. f.restarted = (out # None /\ Ongoing(files[out]))
    BY DEF NewFile, Ongoing
  <2>5. firstFrame \/ f.restarted
    BY <2>4 DEF IInv, FrameWritten
  <2>7. Clean(f) => firstFrame
    BY <2>5 DEF Clean
  <2>6. Clean(f) => Whole(f) /\ Last(f.blocks).kind = "header"
    <3>1. Clean(f) => f.blocks = <<Block("header")>>
      BY <2>2 DEF Clean, NewFile
    <3>2. Block("header").kind = "header"
      BY DEF Block
    <3> QED
      BY <2>1, <3>1, <3>2 DEF Whole, Grammatical, Last
  <2> QED
    BY <2>1, <2>3, <2>5, <2>6, <2>7
<1>3. files' = Append(files, f) /\ out' = n /\ started' = ok /\ Len(files) < MaxFiles
  BY DEF StartOn
<1> HIDE DEF f
<1>4. files \in Seq(File) /\ out \in 0 .. Len(files)
  BY DEF IInv, TypeOK
<1>5. /\ files' \in Seq(File) /\ Len(files') = n /\ DOMAIN files' = 1 .. n
      /\ DOMAIN files = 1 .. Len(files) /\ files'[n] = f
      /\ \A j \in DOMAIN files : files'[j] = files[j]
  BY <1>1, <1>3, <1>4, Extend
<1>6. DOMAIN files' = DOMAIN files \cup {n} /\ n \notin DOMAIN files /\ n # 0 /\ Len(files) \in Nat
  BY <1>4, <1>5
<1>7. TypeOK'
  BY <1>3, <1>5, <1>6 DEF StartOn, IInv, TypeOK
<1>8. Streaming'
  BY <1>2, <1>3, <1>5 DEF Streaming
<1>9. SizesAgree'
  <2>1. (\A k \in DOMAIN files : Clean(files[k]) => \E s \in Sizes : Fits(files[k], s))'
    BY <1>2, <1>5, <1>6 DEF IInv, SizesAgree, Clean, Fits, NoneSized
  <2>2. firstFrame' = firstFrame
    BY DEF StartOn
  <2> QED
    BY <1>2, <1>3, <1>5, <2>1, <2>2 DEF SizesAgree, Clean, NoneSized
<1>10. FrameWritten'
  <2>1. firstFrame' = firstFrame
    BY DEF StartOn
  <2> QED
    BY <1>2, <1>3, <1>5, <1>6, <2>1 DEF FrameWritten, Ongoing
<1>11. ClosesItsOwn'
  BY <1>2, <1>5, <1>6 DEF IInv, ClosesItsOwn
<1>12. WellFormed'
  <2>1. \A k \in DOMAIN files : Clean(files[k]) => Whole(files[k])
    BY DEF IInv, WellFormed, Whole
  <2>2. \A k \in DOMAIN files' : Clean(files'[k]) => Whole(files'[k])
    BY <1>2, <1>5, <1>6, <2>1
  <2> QED
    BY <2>2 DEF WellFormed, Whole
<1>13. AtWork'
  BY <1>2, <1>3, <1>5 DEF StartOn, AtWork
<1> QED
  BY <1>7, <1>8, <1>9, <1>10, <1>11, <1>12, <1>13 DEF IInv

(* addFrame and finish replace the record of the stream being written.        *)
LEMMA AddKeeps ==
  ASSUME IInv, NEW im \in Sizes, AddFrame(im)
  PROVE  IInv' /\ \A k \in DOMAIN files : files[k].finished => files'[k] = files[k]
<1> DEFINE s == IF sizeSet THEN size ELSE im
           blocks == FrameBlocks(s)
           f == files[out]
<1>1. PICK n \in 0 .. Len(blocks) :
        /\ firstFrame' = (firstFrame /\ n < Len(blocks))
        /\ files' = [files EXCEPT
             ![out].blocks = @ \o SubSeq(blocks, 1, n), ![out].failed = @ \/ n < Len(blocks),
             ![out].calls = @ + 1, ![out].first = IF @ = NoSize THEN im ELSE @]
  BY DEF AddFrame
<1>2. /\ started /\ f.calls < MaxFrames /\ sizeSet' = TRUE /\ size' = s
      /\ UNCHANGED <<started, closeStream, repeat, out, sizeChosen>>
  BY DEF AddFrame
<1> DEFINE added == SubSeq(blocks, 1, n)
           g == [f EXCEPT !.blocks = @ \o added, !.failed = @ \/ n < Len(blocks),
                          !.calls = @ + 1, !.first = IF @ = NoSize THEN im ELSE @]
<1>3. /\ files \in Seq(File) /\ out \in 1 .. Len(files) /\ f \in File
      /\ s \in Sizes /\ firstFrame \in BOOLEAN /\ repeat \in {-1, 0}
  BY <1>2 DEF IInv, TypeOK
<1>4. files' = [files EXCEPT ![out] = g]
  BY <1>1, <1>3
<1>5. /\ blocks \in Seq(Blocks) /\ Len(blocks) >= 1
      /\ \A i \in DOMAIN blocks : Sized(blocks[i]) => blocks[i].size = s
      /\ blocks[Len(blocks)].kind = "data"
  BY <1>3, FrameShape
<1>a. ASSUME NEW b \in Seq(Blocks), Grammatical(b), Last(b).kind = IF firstFrame THEN "header" ELSE "data"
      PROVE  Grammatical(b \o blocks) /\ Last(b \o blocks).kind = "data"
  BY <1>3, <1>a, FrameGrammar
<1> HIDE DEF blocks, s
<1>6. added \in Seq(Blocks) /\ Len(added) = n /\ \A i \in 1 .. n : added[i] = blocks[i]
  BY <1>5
<1> HIDE DEF added
<1>7. /\ f.blocks \o added \in Seq(Blocks) /\ Len(f.blocks \o added) = Len(f.blocks) + n
      /\ \A i \in 1 .. Len(f.blocks) + n : (f.blocks \o added)[i] =
           IF i <= Len(f.blocks) THEN f.blocks[i] ELSE added[i - Len(f.blocks)]
      /\ f.blocks \in Seq(Blocks)
  <2>1. f.blocks \in Seq(Blocks)
    BY <1>3 DEF File
  <2> DEFINE old == f.blocks
  <2> HIDE DEF f, old
  <2>2. old \in Seq(Blocks)
    BY <2>1 DEF old
  <2>3. /\ old \o added \in Seq(Blocks) /\ Len(old \o added) = Len(old) + Len(added)
        /\ \A i \in 1 .. Len(old) + Len(added) : (old \o added)[i] =
             IF i <= Len(old) THEN old[i] ELSE added[i - Len(old)]
    BY <1>6, <2>2, ConcatProperties
  <2> QED
    BY <1>6, <2>1, <2>3 DEF old
<1> HIDE DEF f
<1>8. /\ g.blocks = f.blocks \o added /\ g.failed = (f.failed \/ n < Len(blocks))
      /\ g.named = f.named /\ g.closed = f.closed /\ g.finished = f.finished
      /\ g.restarted = f.restarted
  <2>1. DOMAIN f = {"blocks", "named", "closed", "failed", "restarted", "finished", "calls", "first"}
    BY <1>3 DEF File
  <2> QED
    BY <2>1
<1>9. g \in File
  <2>1. f.calls + 1 \in 0 .. MaxFrames
    BY <1>2, <1>3 DEF File
  <2>2. (f.failed \/ n < Len(blocks)) \in BOOLEAN
    OBVIOUS
  <2>3. (IF f.first = NoSize THEN im ELSE f.first) \in Sizes \cup {NoSize}
    BY <1>3 DEF File
  <2> QED
    BY <1>3, <1>7, <2>1, <2>2, <2>3 DEF File
<1> HIDE DEF g
<1>10. /\ files' \in Seq(File) /\ Len(files') = Len(files) /\ DOMAIN files' = DOMAIN files
       /\ files'[out] = g /\ (\A j \in DOMAIN files : j # out => files'[j] = files[j])
       /\ out \in DOMAIN files
  BY <1>3, <1>4, <1>9, Replace
<1>11. files[out] = f /\ ~f.finished /\ (f.named = closeStream)
  BY <1>2, <1>3 DEF f, IInv, Streaming
<1>12. \A i \in DOMAIN f.blocks : i \in DOMAIN g.blocks /\ g.blocks[i] = f.blocks[i]
  BY <1>7, <1>8
<1>13. TypeOK'
  BY <1>1, <1>2, <1>3, <1>10 DEF IInv, TypeOK
<1>14. Streaming'
  BY <1>2, <1>8, <1>10, <1>11 DEF Streaming
<1>15. SizesAgree'
  <2>1. Clean(g) => Clean(f) /\ n = Len(blocks) /\ ~firstFrame'
    <3>1. Clean(g) => Clean(f) /\ ~(n < Len(blocks))
      BY <1>8 DEF Clean
    <3>2. ~(n < Len(blocks)) => n = Len(blocks)
      BY <1>5
    <3>3. ~(n < Len(blocks)) => ~firstFrame'
      BY <1>1
    <3> QED
      BY <3>1, <3>2, <3>3
  <2>2. Clean(g) => Fits(g, s)
    <3> SUFFICES ASSUME Clean(g), NEW i \in DOMAIN g.blocks, Sized(g.blocks[i])
                 PROVE  g.blocks[i].size = s
      BY DEF Fits
    <3>1. Clean(f) /\ n = Len(blocks)
      BY <2>1
    <3>2. CASE i <= Len(f.blocks)
      <4>1. i \in DOMAIN f.blocks /\ g.blocks[i] = f.blocks[i]
        BY <1>7, <1>8, <3>2
      <4>2. CASE firstFrame
        BY <1>2, <1>11, <3>1, <4>1, <4>2 DEF IInv, SizesAgree, NoneSized
      <4>3. CASE ~firstFrame
        BY <1>2, <1>11, <3>1, <4>1, <4>3 DEF IInv, SizesAgree, Fits, s
      <4> QED
        BY <4>2, <4>3
    <3>3. CASE i > Len(f.blocks)
      <4>1. i - Len(f.blocks) \in 1 .. n /\ g.blocks[i] = added[i - Len(f.blocks)]
        BY <1>7, <1>8, <3>3
      <4>2. g.blocks[i] = blocks[i - Len(f.blocks)] /\ i - Len(f.blocks) \in DOMAIN blocks
        BY <1>5, <1>6, <4>1
      <4> QED
        BY <1>5, <4>2
    <3>4. i \in Nat /\ Len(f.blocks) \in Nat
      BY <1>7, <1>8
    <3> QED
      BY <3>2, <3>3, <3>4
  <2>3. (\A k \in DOMAIN files : Clean(files[k]) => \E t \in Sizes : Fits(files[k], t))'
    BY <1>3, <1>10, <2>2 DEF IInv, SizesAgree
  <2> QED
    BY <1>2, <1>10, <2>1, <2>2, <2>3 DEF SizesAgree
<1>16. FrameWritten'
  <2>1. CASE firstFrame /\ n = Len(blocks)
    <3>1. Len(f.blocks) + n \in DOMAIN g.blocks /\ g.blocks[Len(f.blocks) + n] = blocks[n]
      BY <1>5, <1>6, <1>7, <1>8, <2>1
    <3>2. HasFrame(g)
      BY <1>5, <2>1, <3>1 DEF HasFrame
    <3> QED
      BY <1>2, <1>3, <1>10, <3>2 DEF FrameWritten, Ongoing
  <2>2. CASE firstFrame /\ n < Len(blocks)
    BY <1>1, <2>2 DEF FrameWritten
  <2>3. CASE ~firstFrame
    <3>1. Ongoing(f)
      BY <1>11, <2>3 DEF IInv, FrameWritten
    <3>2. Ongoing(g)
      BY <1>8, <1>12, <3>1 DEF Ongoing, HasFrame
    <3> QED
      BY <1>2, <1>3, <1>10, <3>2 DEF FrameWritten
  <2> QED
    BY <1>5, <2>1, <2>2, <2>3
<1>17. ClosesItsOwn'
  BY <1>8, <1>10, <1>11 DEF IInv, ClosesItsOwn
<1>18. Clean(g) => Grammatical(g.blocks) /\ Last(g.blocks).kind = "data" /\ ~firstFrame'
  <2> SUFFICES ASSUME Clean(g) PROVE Grammatical(g.blocks) /\ Last(g.blocks).kind = "data" /\ ~firstFrame'
    OBVIOUS
  <2>1. Clean(f) /\ n = Len(blocks)
    <3>1. Clean(f) /\ ~(n < Len(blocks))
      BY <1>8 DEF Clean
    <3> QED
      BY <1>5, <3>1
  <2>2. ~firstFrame'
    <3>1. ~(n < Len(blocks))
      BY <1>5, <2>1
    <3> QED
      BY <1>1, <3>1
  <2>3. added = blocks
    BY <1>5, <1>6, <2>1
  <2>4. Grammatical(f.blocks) /\ Last(f.blocks).kind = IF firstFrame THEN "header" ELSE "data"
    BY <1>2, <1>10, <1>11, <2>1 DEF IInv, WellFormed, AtWork
  <2> QED
    BY <1>7, <1>8, <1>a, <2>2, <2>3, <2>4
<1>19. WellFormed'
  <2>1. Clean(g) => Whole(g)
    BY <1>8, <1>11, <1>18 DEF Whole
  <2>2. \A k \in DOMAIN files : Clean(files[k]) => Whole(files[k])
    BY DEF IInv, WellFormed, Whole
  <2>3. \A k \in DOMAIN files' : Clean(files'[k]) => Whole(files'[k])
    BY <1>10, <2>1, <2>2
  <2> QED
    BY <2>3 DEF WellFormed, Whole
<1>20. AtWork'
  BY <1>2, <1>10, <1>18 DEF AtWork
<1> QED
  BY <1>10, <1>11, <1>13, <1>14, <1>15, <1>16, <1>17, <1>19, <1>20 DEF IInv

LEMMA FinishKeeps ==
  ASSUME IInv, Finish
  PROVE  IInv' /\ \A k \in DOMAIN files : files[k].finished => files'[k] = files[k]
<1> DEFINE f == files[out]
           trailer == Block("trailer")
<1>1. PICK at \in {"trailer", "flush", "end"} :
        files' = [files EXCEPT
          ![out].blocks = IF at = "trailer" THEN @ ELSE Append(@, trailer),
          ![out].failed = @ \/ at # "end", ![out].finished = TRUE,
          ![out].closed = closeStream /\ at = "end"]
  BY DEF Finish
<1>2. /\ started /\ started' = FALSE /\ firstFrame' = TRUE /\ closeStream' = FALSE /\ out' = 0
      /\ UNCHANGED <<sizeSet, size, repeat, sizeChosen>>
  BY DEF Finish, Reset
<1> DEFINE written == IF at = "trailer" THEN f.blocks ELSE Append(f.blocks, trailer)
           g == [f EXCEPT !.blocks = written, !.failed = @ \/ at # "end", !.finished = TRUE,
                          !.closed = closeStream /\ at = "end"]
<1>3. files \in Seq(File) /\ out \in 1 .. Len(files) /\ f \in File /\ closeStream \in BOOLEAN
  BY <1>2 DEF IInv, TypeOK
<1>4. files' = [files EXCEPT ![out] = g]
  BY <1>1, <1>3
<1>5. /\ written \in Seq(Blocks)
      /\ \A i \in DOMAIN written :
           (i \in DOMAIN f.blocks /\ written[i] = f.blocks[i]) \/ written[i] = trailer
  <2>1. f.blocks \in Seq(Blocks)
    BY <1>3 DEF File
  <2>2. trailer \in Blocks
    BY BlockType
  <2> HIDE DEF f, trailer
  <2>3. Append(f.blocks, trailer) \in Seq(Blocks)
    BY <2>1, <2>2
  <2>4. \A i \in DOMAIN Append(f.blocks, trailer) :
          \/ i \in DOMAIN f.blocks /\ Append(f.blocks, trailer)[i] = f.blocks[i]
          \/ Append(f.blocks, trailer)[i] = trailer
    BY <2>1, <2>2
  <2> QED
    BY <2>1, <2>3, <2>4
<1> HIDE DEF written
<1>6. /\ g.blocks = written /\ g.failed = (f.failed \/ at # "end") /\ g.finished = TRUE
      /\ g.closed = (closeStream /\ at = "end") /\ g.named = f.named /\ g.restarted = f.restarted
  <2>1. DOMAIN f = {"blocks", "named", "closed", "failed", "restarted", "finished", "calls", "first"}
    BY <1>3 DEF File
  <2> QED
    BY <2>1
<1>7. g \in File
  <2>1. (f.failed \/ at # "end") \in BOOLEAN /\ (closeStream /\ at = "end") \in BOOLEAN
    OBVIOUS
  <2> QED
    BY <1>3, <1>5, <2>1 DEF File
<1> HIDE DEF g
<1>8. /\ files' \in Seq(File) /\ Len(files') = Len(files) /\ DOMAIN files' = DOMAIN files
      /\ files'[out] = g /\ (\A j \in DOMAIN files : j # out => files'[j] = files[j])
      /\ out \in DOMAIN files
  BY <1>3, <1>4, <1>7, Replace
<1>9. ~f.finished /\ f.named = closeStream
  BY <1>2, <1>3 DEF IInv, Streaming
<1> HIDE DEF f
<1>10. files[out] = f
  BY DEF f
<1>11. TypeOK'
  <2>1. {started', firstFrame', closeStream', sizeSet', sizeChosen'} \subseteq BOOLEAN
    BY <1>2 DEF IInv, TypeOK
  <2>2. size' \in Sizes /\ repeat' \in {-1, 0} /\ out' \in 0 .. Len(files') /\ Len(files') <= MaxFiles
    BY <1>2, <1>3, <1>8 DEF IInv, TypeOK
  <2> QED
    BY <1>2, <1>8, <2>1, <2>2 DEF TypeOK
<1>12. Streaming'
  BY <1>2 DEF Streaming
<1>13. SizesAgree'
  <2>1. Clean(g) => Clean(f)
    BY <1>6 DEF Clean
  <2>2. ~Sized(trailer)
    BY DEF Sized, Block
  <2>3. \A s \in Sizes : Fits(f, s) => Fits(g, s)
    BY <1>5, <1>6, <2>2 DEF Fits
  <2>4. (\A k \in DOMAIN files : Clean(files[k]) => \E s \in Sizes : Fits(files[k], s))'
    BY <1>8, <1>10, <2>1, <2>3 DEF IInv, SizesAgree
  <2> QED
    BY <1>2, <2>4 DEF SizesAgree
<1>14. FrameWritten'
  BY <1>2 DEF FrameWritten
<1>15. ClosesItsOwn'
  BY <1>6, <1>8, <1>9 DEF IInv, ClosesItsOwn
<1>16. WellFormed'
  <2>1. Clean(g) => Whole(g)
    <3> SUFFICES ASSUME Clean(g) PROVE Whole(g)
      OBVIOUS
    <3>1. Clean(f) /\ at = "end"
      BY <1>6 DEF Clean
    <3>2. f.blocks \in Seq(Blocks)
      BY <1>3, <1>10 DEF File
    <3>3. Grammatical(f.blocks) /\ Last(f.blocks).kind \in {"header", "data"}
      BY <1>8, <1>9, <1>10, <3>1 DEF IInv, WellFormed
    <3>4. written = Append(f.blocks, Block("trailer"))
      BY <3>1 DEF written
    <3> QED
      BY <1>6, <3>2, <3>3, <3>4, TrailerGrammar DEF Whole
  <2>2. \A k \in DOMAIN files : Clean(files[k]) => Whole(files[k])
    BY DEF IInv, WellFormed, Whole
  <2>3. \A k \in DOMAIN files' : Clean(files'[k]) => Whole(files'[k])
    BY <1>8, <2>1, <2>2
  <2> QED
    BY <2>3 DEF WellFormed, Whole
<1>17. AtWork'
  BY <1>2 DEF AtWork
<1> QED
  BY <1>8, <1>9, <1>10, <1>11, <1>12, <1>13, <1>14, <1>15, <1>16, <1>17 DEF IInv

(* The steps that leave the files alone. setSize is refused once a frame is   *)
(* written, so the size of a file with frames in it never changes.            *)
LEMMA SettersKeep ==
  ASSUME IInv, SetRepeat \/ (\E s \in Sizes : SetSize(s)) \/ StartNoFile \/ UNCHANGED vars
  PROVE  IInv' /\ files' = files
<1>1. /\ files' = files /\ out' = out /\ closeStream' = closeStream /\ firstFrame' = firstFrame
  BY DEF SetRepeat, SetSize, StartNoFile, vars
<1>2. started' \in BOOLEAN /\ (started' => started)
  <2>1. started' = started \/ started' = FALSE
    BY DEF SetRepeat, SetSize, StartNoFile, vars
  <2>2. CASE started' = started
    BY <2>2 DEF IInv, TypeOK
  <2>3. CASE started' = FALSE
    BY <2>3
  <2> QED
    BY <2>1, <2>2, <2>3
<1>3. started' /\ ~firstFrame => size' = size /\ sizeSet' = sizeSet
  BY DEF SetRepeat, SetSize, StartNoFile, vars
<1>4. TypeOK'
  <2>1. size' \in Sizes /\ repeat' \in {-1, 0}
    BY DEF IInv, TypeOK, SetRepeat, SetSize, StartNoFile, vars
  <2>2. sizeSet' \in BOOLEAN /\ sizeChosen' \in BOOLEAN
    BY DEF IInv, TypeOK, SetRepeat, SetSize, StartNoFile, vars
  <2>3. {started', firstFrame', closeStream', sizeSet', sizeChosen'} \subseteq BOOLEAN
    BY <1>1, <1>2, <2>2 DEF IInv, TypeOK
  <2>4. started' => out' # None
    BY <1>1, <1>2 DEF IInv, TypeOK
  <2> QED
    BY <1>1, <2>1, <2>3, <2>4 DEF IInv, TypeOK
<1>5. Streaming'
  BY <1>1, <1>2 DEF IInv, Streaming
<1>6. FrameWritten' /\ ClosesItsOwn'
  BY <1>1 DEF IInv, FrameWritten, ClosesItsOwn
<1>7. SizesAgree'
  BY <1>1, <1>2, <1>3 DEF IInv, SizesAgree
<1>8. WellFormed' /\ AtWork'
  BY <1>1, <1>2 DEF IInv, WellFormed, AtWork
<1> QED
  BY <1>1, <1>4, <1>5, <1>6, <1>7, <1>8 DEF IInv

LEMMA StepKeeps ==
  ASSUME IInv, [Next]_vars
  PROVE  IInv' /\ \A k \in DOMAIN files : files[k].finished => files'[k] = files[k]
<1>1. ASSUME NEW ok \in BOOLEAN, NEW named \in BOOLEAN, StartOn(named, ok), closeStream' = named
      PROVE  IInv' /\ \A k \in DOMAIN files : files'[k] = files[k]
  <2>1. PICK f : files' = Append(files, f)
    BY <1>1 DEF StartOn
  <2>2. files \in Seq(File)
    BY DEF IInv, TypeOK
  <2>3. \A k \in DOMAIN files : files'[k] = files[k]
    BY <2>1, <2>2
  <2> QED
    BY <1>1, <2>3, StartKeeps
<1>2. CASE \E ok \in BOOLEAN : StartStream(ok)
  BY <1>1, <1>2 DEF StartStream
<1>3. CASE \E ok \in BOOLEAN : StartFile(ok)
  BY <1>1, <1>3 DEF StartFile
<1>4. CASE \E im \in Sizes : AddFrame(im)
  BY <1>4, AddKeeps
<1>5. CASE Finish
  BY <1>5, FinishKeeps
<1>6. CASE SetRepeat \/ (\E s \in Sizes : SetSize(s)) \/ StartNoFile \/ UNCHANGED vars
  BY <1>6, SettersKeep
<1> QED
  BY <1>2, <1>3, <1>4, <1>5, <1>6 DEF Next

-----------------------------------------------------------------------------
(* What is needed to know about the encoder holds in every state.             *)
THEOREM Invariance == Spec => []IInv
<1>1. IInv /\ [Next]_vars => IInv'
  BY StepKeeps
<1> QED
  BY InitIInv, <1>1, PTL DEF Spec

(* The fields and the streams have their types.                               *)
THEOREM TypeCorrect == Spec => []TypeOK
<1>1. IInv => TypeOK
  BY DEF IInv
<1> QED
  BY Invariance, <1>1, PTL

(* All frames of a clean file (nothing threw on it, and it was not started    *)
(* over another's frames without a finish) have the size its screen           *)
(* descriptor gives, whenever setSize is called (setSize's first test).       *)
THEOREM FramesHaveOneSize == Spec => []OneSize
<1>1. IInv => OneSize
  <2> SUFFICES ASSUME IInv, NEW k \in DOMAIN files, Clean(files[k]),
                      NEW i \in DOMAIN files[k].blocks, NEW j \in DOMAIN files[k].blocks,
                      {files[k].blocks[i].kind, files[k].blocks[j].kind} \subseteq {"lsd", "descriptor"}
               PROVE  files[k].blocks[i].size = files[k].blocks[j].size
    BY DEF OneSize
  <2>1. PICK s \in Sizes : Fits(files[k], s)
    BY DEF IInv, SizesAgree
  <2>2. Sized(files[k].blocks[i]) /\ Sized(files[k].blocks[j])
    BY DEF Sized
  <2> QED
    BY <2>1, <2>2 DEF Fits
<1> QED
  BY Invariance, <1>1, PTL

(* Every clean file (nothing threw on it, and it was started on a new object, *)
(* after a finish, or when no frame was written since) is one header, frames  *)
(* of which the first has the global table and the others a table of their    *)
(* own, and when finish was called the trailer. Of a file started over        *)
(* another's frames without a finish the theorem says nothing: it has no      *)
(* screen descriptor.                                                         *)
THEOREM FilesWellFormed == Spec => []WellFormed
<1>1. IInv => WellFormed
  BY DEF IInv
<1> QED
  BY Invariance, <1>1, PTL

(* finish closes what start(String) opened, unless a write threw, and nothing *)
(* else (closeStream).                                                        *)
THEOREM ClosesOwnFiles == Spec => []ClosesItsOwn
<1>1. IInv => ClosesItsOwn
  BY DEF IInv
<1> QED
  BY Invariance, <1>1, PTL

(* No call on the object changes a file that was finished.                    *)
THEOREM FinishedStays == Spec => FinishedIsFinal
<1>1. IInv /\ [Next]_vars => [\A k \in DOMAIN files : files[k].finished => files'[k] = files[k]]_vars
  BY StepKeeps
<1> QED
  BY Invariance, <1>1, PTL DEF Spec, FinishedIsFinal
=============================================================================
