--------------------------- MODULE NeuQuantProofs ---------------------------
(***************************************************************************)
(* Proofs about NeuQuant, for networks, colours and pictures of any size   *)
(* and any of its factors.                                                 *)
(***************************************************************************)
EXTENDS NeuQuant, FiniteSetTheorems, WellFoundedInduction, TLAPS

-----------------------------------------------------------------------------
(* Arithmetic                                                              *)

\* Dividing a natural number does not make it larger.
LEMMA DivRange ==
  ASSUME NEW a \in Nat, NEW d \in Nat \ {0}
  PROVE  a \div d \in 0..a
OBVIOUS

\* A quotient is at most c when the number is at most c times the divisor.
LEMMA DivAtMost ==
  ASSUME NEW a \in Nat, NEW d \in Nat \ {0}, NEW c \in Nat, a <= c * d
  PROVE  a \div d \in 0..c
OBVIOUS

\* The same for less than.
LEMMA DivLess ==
  ASSUME NEW a \in Nat, NEW d \in Nat \ {0}, NEW c \in Nat, a < c * d
  PROVE  a \div d \in 0..(c - 1)
OBVIOUS

\* A product of natural numbers grows with its factors.
LEMMA TimesMono ==
  ASSUME NEW a \in Nat, NEW b \in Nat, NEW c \in Nat, a <= b
  PROVE  a * c <= b * c /\ c * a <= c * b /\ a * c \in Nat /\ b * c \in Nat
OBVIOUS

\* A set of natural numbers has a least element.
LEMMA NatMin ==
  ASSUME NEW S \in SUBSET Nat, S # {}
  PROVE  \E m \in S : \A s \in S : m <= s
<1> DEFINE Below(s) == 0..s
           T == {Below(s) : s \in S}
<1>1. T \subseteq FiniteSubsetsOf(Nat) /\ T # {}
  <2>1. \A s \in S : Below(s) \in SUBSET Nat /\ IsFiniteSet(Below(s))
    BY FS_Interval
  <2> QED BY <2>1 DEF FiniteSubsetsOf
<1>2. PICK x \in T : \A y \in T : <<y, x>> \notin StrictSubsetOrdering(Nat)
  <2> HIDE DEF T
  <2> QED BY <1>1, WFMin, FS_StrictSubsetOrderingWellFounded
<1>3. PICK m \in S : x = Below(m)
  BY <1>2
<1>4. ASSUME NEW s \in S, s < m
      PROVE  FALSE
  <2>1. Below(s) \in T /\ Below(s) \subseteq Below(m) /\ m \in Below(m) /\ m \notin Below(s)
    BY <1>4
  <2>2. <<Below(s), x>> \in StrictSubsetOrdering(Nat)
    BY <2>1, <1>3 DEF StrictSubsetOrdering
  <2> QED BY <2>1, <2>2, <1>2
<1> QED BY <1>4

\* Of the values on an interval, there is a first that is least.
LEMMA LeastExists ==
  ASSUME NEW a \in Nat, NEW b \in Nat, a <= b, NEW f, \A n \in a..b : f[n] \in Int
  PROVE  \E k \in a..b : \A m \in a..b : f[k] <= f[m] /\ (m < k => f[m] > f[k])
<1> DEFINE First(k, n) == \A m \in a..n : f[k] <= f[m] /\ (m < k => f[m] > f[k])
           Bad == {n \in a..b : ~ \E k \in a..n : First(k, n)}
<1> SUFFICES ASSUME b \in Bad PROVE FALSE
  OBVIOUS
<1>1. PICK n \in Bad : \A s \in Bad : n <= s
  <2>1. Bad \in SUBSET Nat
    OBVIOUS
  <2>2. Bad # {}
    <3> HIDE DEF Bad
    <3> QED OBVIOUS
  <2> HIDE DEF Bad
  <2> QED BY <2>1, <2>2, NatMin
<1>2. n \in a..b /\ ~ \E k \in a..n : First(k, n)
  BY <1>1
<1>3. CASE n = a
  <2>1. First(n, n)
    BY <1>2, <1>3
  <2> QED BY <1>2, <2>1
<1>4. CASE n > a
  <2>1. n - 1 \in a..b /\ ~(n <= n - 1)
    BY <1>2, <1>4
  <2>2. n - 1 \notin Bad
    <3> HIDE DEF Bad
    <3> QED BY <1>1, <2>1
  <2>3. PICK k \in a..(n - 1) : First(k, n - 1)
    <3> HIDE DEF First
    <3> QED BY <2>1, <2>2
  <2>4. CASE f[k] <= f[n]
    <3>1. First(k, n)
      BY <1>2, <2>3, <2>4
    <3> QED BY <1>2, <1>4, <3>1
  <2>5. CASE ~(f[k] <= f[n])
    <3>1. \A m \in a..(n - 1) : f[n] <= f[m] /\ m < n /\ f[m] > f[n]
      BY <1>2, <2>3, <2>5
    <3>2. \A m \in a..n : m \in a..(n - 1) \/ m = n
      BY <1>2
    <3>3. First(n, n)
      BY <1>2, <3>1, <3>2
    <3> QED BY <1>2, <3>3
  <2> QED BY <2>4, <2>5
<1> QED BY <1>2, <1>3, <1>4

-----------------------------------------------------------------------------
(* The pieces of a step                                                    *)

LEMMA Sizes ==
  /\ netsize \in Nat \ {0} /\ ncycles \in Nat \ {0} /\ Levels \in Nat \ {0} /\ Far \in Nat
  /\ netbias \in Nat \ {0} /\ intbias \in Nat \ {0} /\ betadiv \in Nat \ {0}
  /\ gammadiv \in Nat \ {0} /\ initalpha \in Nat \ {0} /\ radbias \in Nat \ {0}
  /\ radiusbias \in Nat \ {0} /\ radiusdec \in Nat \ {0} /\ initrad \in Nat
BY SizeAssumption, ScaleAssumption

\* A picture is at least as long as the step from sample to sample.
LEMMA StepFits ==
  ASSUME picture \in Pictures
  PROVE  step \in 1..Len(picture) /\ Len(picture) \in Nat \ {0} /\ picture \in Seq(Pixel)
<1>1. picture \in Seq(Pixel) /\ Len(picture) \in Nat \ {0}
  BY PictureAssumption
<1>2. /\ prime1 \in 1..prime4 /\ prime2 \in 1..prime4 /\ prime3 \in 1..prime4 /\ prime4 \in Nat \ {0}
  BY SizeAssumption
<1>3. CASE Len(picture) < prime4
  BY <1>1, <1>2, <1>3 DEF step
<1>4. CASE Len(picture) >= prime4
  <2>1. step \in {prime1, prime2, prime3, prime4}
    BY <1>1, <1>2, <1>4 DEF step
  <2> QED BY <1>1, <1>2, <1>4, <2>1
<1> QED BY <1>1, <1>2, <1>3, <1>4

\* A component moves towards that of the sample, and not past it.
LEMMA MoveBetween ==
  ASSUME NEW a \in Nat, NEW w \in Nat \ {0}, a <= w, NEW top \in Nat,
         NEW old \in 0..top, NEW new \in 0..top
  PROVE  old - Quot(a * (old - new), w) \in 0..top
<1>1. CASE old >= new
  <2> DEFINE d == old - new
             x == a * d
  <2>1. d \in Nat /\ d <= old
    BY <1>1
  <2> HIDE DEF d
  <2>2. x \in Nat /\ x <= d * w
    BY <2>1, TimesMono
  <2> HIDE DEF x
  <2>3. x \div w \in 0..d
    BY <2>1, <2>2, DivAtMost
  <2>4. Quot(x, w) \in 0..d
    BY <2>2, <2>3 DEF Quot
  <2>5. old - Quot(x, w) \in 0..top
    BY <2>1, <2>4
  <2> QED BY <2>5 DEF x, d
<1>2. CASE old < new
  <2> DEFINE d == new - old
             x == a * d
  <2>1. d \in Nat /\ old + d <= top /\ a * (old - new) = -x
    BY <1>2
  <2> HIDE DEF d
  <2>2. x \in Nat /\ x <= d * w
    BY <2>1, TimesMono
  <2> HIDE DEF x
  <2>3. x \div w \in 0..d
    BY <2>1, <2>2, DivAtMost
  <2>4. Quot(-x, w) = -(x \div w)
    <3>1. CASE x = 0
      BY <3>1, <2>3 DEF Quot
    <3>2. CASE x > 0
      BY <3>2, <2>2 DEF Quot
    <3> QED BY <3>1, <3>2, <2>2
  <2>5. old - Quot(-x, w) \in 0..top
    BY <2>1, <2>3, <2>4
  <2> QED BY <2>1, <2>5
<1> QED BY <1>1, <1>2

\* A neighbour's share is at most the whole.
LEMMA RadPower ==
  ASSUME alpha \in 0..initalpha, radius \in Nat, rad # 0, NEW m \in 0..(rad - 1)
  PROVE  radpower(m) \in 0..alpharadbias
<1>1. rad \in Nat \ {0}
  BY Sizes, DivRange DEF rad
<1> DEFINE sq == rad * rad
           diff == rad * rad - m * m
           x == diff * radbias
<1>2. rad * rad \in Nat /\ m * m \in Nat /\ m * m <= rad * rad /\ rad * rad > 0
  BY <1>1, TimesMono
<1>3. sq \in Nat \ {0} /\ diff \in Nat /\ diff <= sq
  BY <1>2
<1> HIDE DEF sq, diff
<1>4. x \in Nat /\ x <= radbias * sq
  <2>1. diff * radbias <= sq * radbias /\ diff * radbias \in Nat /\ sq * radbias = radbias * sq
    BY <1>3, Sizes, TimesMono
  <2> QED BY <2>1
<1> HIDE DEF x
<1> DEFINE q == x \div sq
<1>5. q \in 0..radbias
  BY <1>3, <1>4, Sizes, DivAtMost
<1> HIDE DEF q
<1>6. alpha * q \in Nat /\ alpha * q <= initalpha * radbias
  <2>1. alpha \in Nat /\ initalpha \in Nat /\ alpha <= initalpha /\ q \in Nat /\ q <= radbias /\ radbias \in Nat
    BY <1>5, Sizes
  <2>2. alpha * q <= alpha * radbias /\ alpha * radbias <= initalpha * radbias
        /\ alpha * q \in Nat /\ alpha * radbias \in Nat /\ initalpha * radbias \in Nat
    BY <2>1, TimesMono
  <2> QED BY <2>2
<1>7. radpower(m) = alpha * q
  BY DEF radpower, q, x, diff, sq
<1> QED BY <1>6, <1>7, Sizes DEF alpharadbias

Top == Levels * netbias - 1

Neuron(values) == [b : values, g : values, r : values, n : Net]

\* A neuron that moves towards a sample stays in the range of the samples.
LEMMA MoveType ==
  ASSUME NEW old \in Neuron(0..Top), NEW s \in [b : 0..Top, g : 0..Top, r : 0..Top],
         NEW a \in Nat, NEW w \in Nat \ {0}, a <= w
  PROVE  Move(old, s, a, w) \in Neuron(0..Top)
<1>1. Top \in Nat
  <2>1. Levels * netbias \in Nat /\ Levels * netbias > 0
    BY Sizes
  <2> QED BY <2>1 DEF Top
<1> HIDE DEF Top
<1> DEFINE nb == old.b - Quot(a * (old.b - s.b), w)
           ng == old.g - Quot(a * (old.g - s.g), w)
           nr == old.r - Quot(a * (old.r - s.r), w)
<1>2. nb \in 0..Top /\ ng \in 0..Top /\ nr \in 0..Top
  <2>1. old.b \in 0..Top /\ old.g \in 0..Top /\ old.r \in 0..Top
        /\ s.b \in 0..Top /\ s.g \in 0..Top /\ s.r \in 0..Top
    BY DEF Neuron
  <2> QED BY <1>1, <2>1, MoveBetween
<1>3. Move(old, s, a, w) = [old EXCEPT !.b = nb, !.g = ng, !.r = nr]
  BY DEF Move, Neuron
<1> HIDE DEF nb, ng, nr
<1> QED BY <1>2, <1>3 DEF Neuron

\* The first neuron with the least of some values.
LEMMA FirstLeastType ==
  ASSUME NEW value, \A n \in Net : value[n] \in Int
  PROVE  FirstLeast(value) \in Net
<1>1. \E k \in Net : \A m \in Net : value[k] <= value[m] /\ (m < k => value[m] > value[k])
  <2>1. netsize - 1 \in Nat /\ 0 \in Nat /\ 0 <= netsize - 1
    BY Sizes
  <2> QED BY <2>1, LeastExists DEF Net
<1>2. \E k \in Net : /\ \A m \in Net : value[k] <= value[m]
                     /\ \A m \in Net : m < k => value[m] > value[k]
  BY <1>1
<1> QED BY <1>2 DEF FirstLeast

\* A sample is in the range of the network.
LEMMA SampleType ==
  ASSUME picture \in Pictures, NEW k \in 0..(Len(picture) - 1)
  PROVE  Sample(k) \in [b : 0..Top, g : 0..Top, r : 0..Top]
<1>1. picture[k + 1] \in Pixel
  BY StepFits
<1>2. ASSUME NEW c \in Component
      PROVE  c * netbias \in 0..Top
  <2>1. c \in Nat /\ c <= Levels - 1 /\ Levels - 1 \in Nat /\ netbias \in Nat /\ netbias > 0
    BY Sizes DEF Component
  <2>2. c * netbias <= (Levels - 1) * netbias /\ c * netbias \in Nat
    BY <2>1, TimesMono
  <2>3. (Levels - 1) * netbias = Levels * netbias - netbias
    BY Sizes
  <2>4. Levels * netbias \in Nat
    BY Sizes
  <2> QED BY <2>1, <2>2, <2>3, <2>4 DEF Top
<1> DEFINE p == picture[k + 1]
<1>3. p \in Pixel /\ Sample(k) = [b |-> p.b * netbias, g |-> p.g * netbias, r |-> p.r * netbias]
  BY <1>1 DEF Sample
<1> HIDE DEF p
<1>4. p.b * netbias \in 0..Top /\ p.g * netbias \in 0..Top /\ p.r * netbias \in 0..Top
  BY <1>2, <1>3 DEF Pixel
<1> QED BY <1>3, <1>4

\* Distances are natural numbers.
LEMMA DistType ==
  ASSUME NEW p, NEW q, p.b \in Int, p.g \in Int, p.r \in Int,
         q.b \in Int, q.g \in Int, q.r \in Int
  PROVE  /\ Dist(p, q) \in Nat
         /\ Dist(p, q) >= p.g - q.g /\ Dist(p, q) >= q.g - p.g
BY DEF Dist, Abs

\* The network, in learn and after it.
NetworkType == network \in [Net -> Neuron(Values)]

LearnType ==
  /\ pix \in 0..(Len(picture) - 1) /\ taken \in 0..samplepixels /\ seen \subseteq Nat
  /\ alpha \in 0..initalpha /\ radius \in 0..(initrad * radiusbias)
  /\ freq \in [Net -> Int] /\ bias \in [Net -> Int]

IndexType ==
  /\ pos \in 0..netsize /\ previouscol \in Component /\ startpos \in Net
  /\ netindex \in [Component -> Net]

SearchType ==
  /\ query \in Pixel /\ i \in 0..netsize /\ j \in -1..(netsize - 1)
  /\ bestd \in 0..Far /\ best \in -1..(netsize - 1)

InputType ==
  /\ picture \in Pictures /\ samplefac \in Nat \ {0}
  /\ pc \in {"learn", "sort", "ready", "up", "down", "found"}

LEMMA TypeParts == TypeOK <=> InputType /\ LearnType /\ NetworkType /\ IndexType /\ SearchType
BY DEF TypeOK, InputType, LearnType, NetworkType, IndexType, SearchType, Neuron

LEMMA NextTypeParts == InputType' /\ LearnType' /\ NetworkType' /\ IndexType' /\ SearchType' => TypeOK'
BY DEF TypeOK, InputType, LearnType, NetworkType, IndexType, SearchType, Neuron

\* The numbers of samples and the steps between two changes of alpha.
LEMMA LearnSizes ==
  ASSUME InputType
  PROVE  samplepixels \in Nat /\ alphadec \in Nat \ {0}
<1>1. Len(picture) \in Nat /\ samplefac \in Nat \ {0}
  BY StepFits DEF InputType
<1>2. Len(picture) \div samplefac \in Nat
  BY <1>1, DivRange
<1>3. (samplefac - 1) \div 3 \in Nat
  BY <1>1
<1> QED BY <1>2, <1>3 DEF samplepixels, alphadec

LEMMA InitType == Init => TypeOK
<1> SUFFICES ASSUME Init PROVE TypeOK
  OBVIOUS
<1>1. InputType
  <2>1. samplefac \in Nat \ {0}
    BY SizeAssumption DEF Init
  <2> QED BY <2>1 DEF Init, InputType
<1>2. LearnType
  <2>1. Len(picture) \in Nat \ {0} /\ samplepixels \in Nat
    BY <1>1, StepFits, LearnSizes DEF InputType
  <2>2. initrad * radiusbias \in Nat /\ initalpha \in Nat
    BY Sizes
  <2>3. intbias \div netsize \in Int
    BY Sizes, DivRange
  <2>4. pix = 0 /\ taken = 0 /\ seen = {} /\ alpha = initalpha /\ radius = initrad * radiusbias
        /\ freq = [n \in Net |-> intbias \div netsize] /\ bias = [n \in Net |-> 0]
    BY DEF Init
  <2> QED BY <2>1, <2>2, <2>3, <2>4 DEF LearnType
<1>3. NetworkType
  <2>1. ASSUME NEW n \in Net
        PROVE  (n * netbias * Levels) \div netsize \in 0..Top
    <3> DEFINE c == Levels * netbias
               x == n * c
    <3>1. c \in Nat /\ c > 0 /\ n \in Nat /\ n <= netsize - 1 /\ netsize - 1 \in Nat
      BY Sizes DEF Net
    <3>2. n * netbias * Levels = x
      BY <3>1, Sizes
    <3> HIDE DEF c
    <3>3. x <= (netsize - 1) * c /\ x \in Nat
      BY <3>1, TimesMono
    <3>4. (netsize - 1) * c = c * netsize - c /\ c * netsize \in Nat
      BY <3>1, Sizes
    <3>5. x < c * netsize
      BY <3>1, <3>3, <3>4
    <3> HIDE DEF x
    <3>6. x \div netsize \in 0..(c - 1)
      BY <3>1, <3>3, <3>5, Sizes, DivLess
    <3> QED BY <3>2, <3>6 DEF Top, c
  <2>2. Values = 0..Top
    BY DEF Init, Values, Top
  <2>3. 0 \in Net
    BY Sizes DEF Net
  <2>4. network = [n \in Net |-> LET grey == (n * netbias * Levels) \div netsize
                              IN  [b |-> grey, g |-> grey, r |-> grey, n |-> 0]]
    BY DEF Init
  <2> HIDE DEF Top
  <2> QED BY <2>1, <2>2, <2>3, <2>4 DEF NetworkType, Neuron
<1>4. IndexType /\ SearchType
  <2>1. 0 \in Component /\ 0 \in Net /\ 0 \in 0..netsize /\ -1 \in -1..(netsize - 1) /\ Far \in 0..Far
    BY Sizes DEF Component, Net
  <2> QED BY <2>1 DEF Init, IndexType, SearchType, Pixel
<1> QED BY <1>1, <1>2, <1>3, <1>4, TypeParts

\* learn keeps the network in the range of the samples.
LEMMA AlteredType ==
  ASSUME TypeOK, pc = "learn", NEW winner \in Net,
         NEW s \in [b : 0..Top, g : 0..Top, r : 0..Top]
  PROVE  Altered(winner, s) \in [Net -> Neuron(0..Top)]
<1>1. network \in [Net -> Neuron(0..Top)]
  BY TypeParts DEF NetworkType, Values, Top
<1>2. alpha \in 0..initalpha /\ radius \in Nat /\ initalpha \in Nat \ {0}
  BY Sizes, TypeParts DEF LearnType
<1>3. alpharadbias \in Nat \ {0}
  BY Sizes DEF alpharadbias
<1>4. ASSUME NEW n \in Net
      PROVE  Altered(winner, s)[n] \in Neuron(0..Top)
  <2>1. CASE n = winner
    <3>1. Move(network[n], s, alpha, initalpha) \in Neuron(0..Top)
      BY <1>1, <1>2, MoveType
    <3> QED BY <2>1, <3>1 DEF Altered
  <2>2. CASE n # winner /\ Abs(n - winner) < rad
    <3> DEFINE m == Abs(n - winner)
    <3>1. m \in Nat /\ n - winner \in Int
      BY DEF Abs, Net
    <3>2. rad \in Nat
      BY <1>2, Sizes, DivRange DEF rad
    <3>3. m \in 0..(rad - 1) /\ rad # 0
      BY <2>2, <3>1, <3>2
    <3> HIDE DEF m
    <3>4. radpower(m) \in 0..alpharadbias
      BY <1>2, <3>3, RadPower
    <3>5. Move(network[n], s, radpower(m), alpharadbias) \in Neuron(0..Top)
      BY <1>1, <1>3, <3>4, MoveType
    <3> QED BY <2>2, <3>5 DEF Altered, m
  <2>3. CASE n # winner /\ ~(Abs(n - winner) < rad)
    BY <1>1, <2>3 DEF Altered
  <2> QED BY <2>1, <2>2, <2>3
<1> QED BY <1>4 DEF Altered

LEMMA LearnTypeStep == TypeOK /\ Learn => TypeOK'
<1> SUFFICES ASSUME TypeOK, Learn PROVE TypeOK'
  OBVIOUS
<1> DEFINE s == Sample(pix)
           L == Len(picture)
<1>1. InputType /\ LearnType /\ NetworkType /\ IndexType /\ SearchType /\ pc = "learn"
  BY TypeParts DEF Learn
<1>2. step \in 1..L /\ L \in Nat \ {0} /\ samplepixels \in Nat /\ alphadec \in Nat \ {0}
  BY <1>1, StepFits, LearnSizes DEF InputType
<1>3. s \in [b : 0..Top, g : 0..Top, r : 0..Top]
  BY <1>1, SampleType DEF InputType, LearnType
<1>4. ClosestBiased(s) \in Net
  <2> DEFINE value == [n \in Net |-> Dist(network[n], s) - bias[n] \div (intbias \div netbias)]
  <2>1. ASSUME NEW n \in Net
        PROVE  value[n] \in Int
    <3>1. network[n] \in Neuron(0..Top)
      BY <1>1 DEF NetworkType, Values, Top
    <3>2. Dist(network[n], s) \in Nat
      BY <1>3, <3>1, DistType DEF Neuron
    <3>3. intbias \div netbias \in Nat \ {0}
      <4>1. intbias = netbias * (intbias \div netbias)
        BY Sizes, ScaleAssumption
      <4>2. intbias \div netbias \in Nat
        BY Sizes, DivRange
      <4> QED BY <4>1, <4>2, Sizes
    <3>4. bias[n] \div (intbias \div netbias) \in Int
      BY <1>1, <3>3 DEF LearnType
    <3> QED BY <3>2, <3>4
  <2> HIDE DEF value
  <2>2. FirstLeast(value) \in Net
    BY <2>1, FirstLeastType
  <2> QED BY <2>2 DEF ClosestBiased, value
<1> HIDE DEF s
<1>5. /\ freq' = NewFreq(s) /\ bias' = NewBias(s) /\ network' = Altered(ClosestBiased(s), s)
      /\ taken < samplepixels /\ taken' = taken + 1 /\ seen' = seen \cup {pix} /\ pix' = NextPix
      /\ \/ alpha' = alpha - alpha \div alphadec /\ radius' = radius - radius \div radiusdec
         \/ UNCHANGED <<alpha, radius>>
      /\ UNCHANGED <<picture, samplefac, pc, indexVars, searchVars>>
  BY DEF Learn, s
<1>6. InputType'
  BY <1>1, <1>5 DEF InputType
<1>7. LearnType'
  <2>1. pix' \in 0..(L - 1)
    BY <1>1, <1>2, <1>5 DEF NextPix, LearnType
  <2>2. taken' \in 0..samplepixels /\ seen' \subseteq Nat
    BY <1>1, <1>2, <1>5 DEF LearnType
  <2>3. alpha' \in 0..initalpha
    <3>1. alpha \div alphadec \in 0..alpha /\ alpha \in 0..initalpha
      BY <1>1, <1>2, Sizes, DivRange DEF LearnType
    <3> QED BY <1>5, <3>1, Sizes
  <2>4. radius' \in 0..(initrad * radiusbias)
    <3>1. radius \in 0..(initrad * radiusbias) /\ initrad * radiusbias \in Nat
      BY <1>1, Sizes DEF LearnType
    <3>2. radius \div radiusdec \in 0..radius
      BY <3>1, Sizes, DivRange
    <3> QED BY <1>5, <3>1, <3>2
  <2>5. freq' \in [Net -> Int]
    <3>1. \A n \in Net : freq[n] \in Int /\ freq[n] \div betadiv \in Int
      BY <1>1, Sizes DEF LearnType
    <3>2. beta \in Int
      BY Sizes, DivRange DEF beta
    <3> QED BY <1>5, <3>1, <3>2 DEF NewFreq
  <2>6. bias' \in [Net -> Int]
    <3>1. gamma \in Int /\ betagamma \in Int
      BY Sizes DEF gamma, betagamma
    <3>2. ASSUME NEW n \in Net
          PROVE  NewBias(s)[n] \in Int
      <4> DEFINE raised == bias[n] + (freq[n] \div betadiv) * gamma
      <4>1. bias[n] \in Int /\ freq[n] \div betadiv \in Int
        BY <1>1, Sizes DEF LearnType
      <4>2. raised \in Int
        BY <4>1, <3>1
      <4>3. NewBias(s)[n] = IF n = Closest(s) THEN raised - betagamma ELSE raised
        BY DEF NewBias
      <4> HIDE DEF raised
      <4> QED BY <4>2, <4>3, <3>1
    <3>4. NewBias(s) \in [Net -> Int]
      BY <3>2 DEF NewBias
    <3> QED BY <1>5, <3>4
  <2>7. samplepixels' = samplepixels /\ Len(picture)' = L
    BY <1>5 DEF samplepixels
  <2> QED BY <2>1, <2>2, <2>3, <2>4, <2>5, <2>6, <2>7 DEF LearnType
<1>8. NetworkType'
  <2>1. Altered(ClosestBiased(s), s) \in [Net -> Neuron(0..Top)]
    BY <1>1, <1>3, <1>4, AlteredType
  <2>2. Values' = 0..Top
    BY <1>1, <1>5 DEF Values, Top
  <2> QED BY <1>5, <2>1, <2>2 DEF NetworkType
<1>9. IndexType' /\ SearchType'
  BY <1>1, <1>5 DEF indexVars, searchVars, IndexType, SearchType
<1> QED BY <1>6, <1>7, <1>8, <1>9, NextTypeParts

LEMMA UnbiasTypeStep == TypeOK /\ Unbias => TypeOK'
<1> SUFFICES ASSUME TypeOK, Unbias PROVE TypeOK'
  OBVIOUS
<1>1. InputType /\ LearnType /\ NetworkType /\ IndexType /\ SearchType
  BY TypeParts
<1>2. pc = "learn" /\ pc' = "sort" /\ UNCHANGED <<picture, samplefac, learnVars, indexVars, searchVars>>
  BY DEF Unbias
<1>3. ASSUME NEW x \in 0..Top
      PROVE  x \div netbias \in 0..(Levels - 1)
  <2>1. x \in Nat /\ x < Levels * netbias
    BY Sizes DEF Top
  <2> QED BY <2>1, Sizes, DivLess
<1>4. NetworkType'
  <2>1. network \in [Net -> Neuron(0..Top)] /\ Values' = 0..(Levels - 1)
    BY <1>1, <1>2 DEF NetworkType, Values, Top
  <2>2. network' = [n \in Net |-> [b |-> network[n].b \div netbias, g |-> network[n].g \div netbias,
                                  r |-> network[n].r \div netbias, n |-> n]]
    BY DEF Unbias
  <2>3. ASSUME NEW n \in Net
        PROVE  network'[n] \in Neuron(0..(Levels - 1))
    <3>1. network[n].b \in 0..Top /\ network[n].g \in 0..Top /\ network[n].r \in 0..Top
      BY <2>1 DEF Neuron
    <3>2. /\ network[n].b \div netbias \in 0..(Levels - 1) /\ network[n].g \div netbias \in 0..(Levels - 1)
          /\ network[n].r \div netbias \in 0..(Levels - 1)
      BY <1>3, <3>1
    <3> QED BY <2>2, <3>2 DEF Neuron
  <2> QED BY <2>1, <2>2, <2>3 DEF NetworkType
<1>5. InputType' /\ IndexType' /\ SearchType'
  BY <1>1, <1>2 DEF InputType, IndexType, SearchType, indexVars, searchVars
<1>6. LearnType'
  BY <1>1, <1>2 DEF LearnType, learnVars, samplepixels
<1> QED BY <1>4, <1>5, <1>6, NextTypeParts

\* The neuron the sort swaps to its place.
LEMMA SmallestType ==
  ASSUME TypeOK, pc = "sort", pos < netsize
  PROVE  /\ Smallest \in Net /\ Smallest >= pos
         /\ \A m \in Net : m >= pos => network[Smallest].g <= network[m].g
<1> DEFINE f == [n \in Net |-> network[n].g]
<1>1. network \in [Net -> Neuron(0..(Levels - 1))] /\ pos \in Nat /\ netsize - 1 \in Nat /\ pos <= netsize - 1
  BY Sizes, TypeParts DEF NetworkType, Values, IndexType
<1>2. \A n \in Net : f[n] = network[n].g /\ f[n] \in Int
  BY <1>1 DEF Neuron
<1>3. pos..(netsize - 1) \subseteq Net
  BY <1>1 DEF Net
<1> HIDE DEF f
<1>4. PICK k \in pos..(netsize - 1) :
        \A m \in pos..(netsize - 1) : f[k] <= f[m] /\ (m < k => f[m] > f[k])
  BY <1>1, <1>2, <1>3, LeastExists
<1>5. \E n \in Net : /\ n >= pos
                     /\ \A m \in Net : m >= pos => network[n].g <= network[m].g
                     /\ \A m \in Net : (m >= pos /\ m < n) => network[m].g > network[n].g
  <2>1. \A m \in Net : m >= pos => m \in pos..(netsize - 1)
    BY <1>1 DEF Net
  <2>2. k \in Net /\ k >= pos
    BY <1>3, <1>4
  <2> QED BY <1>2, <1>4, <2>1, <2>2
<1> QED BY <1>5 DEF Smallest

LEMMA SortTypeStep == TypeOK /\ SortStep => TypeOK'
<1> SUFFICES ASSUME TypeOK, SortStep PROVE TypeOK'
  OBVIOUS
<1> DEFINE s == Smallest
<1>1. InputType /\ LearnType /\ NetworkType /\ IndexType /\ SearchType /\ pc = "sort" /\ pos < netsize
  BY TypeParts DEF SortStep
<1>2. s \in Net /\ pos \in Net
  BY <1>1, SmallestType, Sizes DEF Net, IndexType
<1>3. network \in [Net -> Neuron(0..(Levels - 1))]
  BY <1>1 DEF NetworkType, Values
<1>4. network[s].g \in Component
  BY <1>2, <1>3 DEF Neuron, Component
<1> HIDE DEF s
<1>5. /\ network' = Swapped(pos, s) /\ pos' = pos + 1
      /\ \/ /\ netindex' = [c \in Component |->
                   IF c = previouscol THEN (startpos + pos) \div 2
                   ELSE IF previouscol < c /\ c < network[s].g THEN pos
                   ELSE netindex[c]]
            /\ previouscol' = network[s].g /\ startpos' = pos
         \/ UNCHANGED <<netindex, previouscol, startpos>>
      /\ UNCHANGED <<picture, samplefac, pc, learnVars, searchVars>>
  BY DEF SortStep, s
<1>6. InputType' /\ SearchType'
  BY <1>1, <1>5 DEF InputType, SearchType, searchVars
<1>7. LearnType'
  BY <1>1, <1>5 DEF LearnType, learnVars, samplepixels
<1>8. NetworkType'
  <2>1. network' \in [Net -> Neuron(0..(Levels - 1))]
    BY <1>2, <1>3, <1>5 DEF Swapped
  <2>2. Values' = 0..(Levels - 1)
    BY <1>1, <1>5 DEF Values
  <2> QED BY <2>1, <2>2 DEF NetworkType
<1>9. IndexType'
  <2>1. (startpos + pos) \div 2 \in Net
    BY <1>1, <1>2, Sizes DEF IndexType, Net
  <2>2. netindex' \in [Component -> Net]
    BY <1>1, <1>2, <1>5, <2>1 DEF IndexType
  <2>3. pos' \in 0..netsize
    BY <1>1, <1>5, Sizes DEF IndexType
  <2> QED BY <1>1, <1>2, <1>4, <1>5, <2>2, <2>3 DEF IndexType
<1> QED BY <1>6, <1>7, <1>8, <1>9, NextTypeParts

LEMMA IndexTypeStep == TypeOK /\ IndexRest => TypeOK'
<1> SUFFICES ASSUME TypeOK, IndexRest PROVE TypeOK'
  OBVIOUS
<1>1. InputType /\ LearnType /\ NetworkType /\ IndexType /\ SearchType
  BY TypeParts
<1>2. /\ pc = "sort" /\ pc' = "ready"
      /\ netindex' = [c \in Component |->
            IF c = previouscol THEN (startpos + netsize - 1) \div 2
            ELSE IF c > previouscol THEN netsize - 1
            ELSE netindex[c]]
      /\ UNCHANGED <<picture, samplefac, learnVars, network, pos, previouscol, startpos, searchVars>>
  BY DEF IndexRest
<1>3. (startpos + netsize - 1) \div 2 \in Net /\ netsize - 1 \in Net
  BY <1>1, Sizes DEF IndexType, Net
<1>4. netindex' \in [Component -> Net]
  BY <1>1, <1>2, <1>3 DEF IndexType
<1>5. NetworkType'
  BY <1>1, <1>2 DEF NetworkType, Values
<1>6. IndexType'
  BY <1>1, <1>2, <1>4 DEF IndexType
<1>7. LearnType'
  BY <1>1, <1>2 DEF LearnType, learnVars, samplepixels
<1>8. InputType' /\ SearchType'
  BY <1>1, <1>2 DEF InputType, SearchType, searchVars
<1> QED BY <1>5, <1>6, <1>7, <1>8, NextTypeParts

\* The parts a search leaves alone.
Frame == UNCHANGED <<picture, samplefac, learnVars, network, indexVars>>

LEMMA FrameType ==
  ASSUME TypeOK, Frame, pc # "learn", pc' \in {"up", "down", "found"}, SearchType'
  PROVE  TypeOK'
<1>1. InputType /\ LearnType /\ NetworkType /\ IndexType
  BY TypeParts
<1>2. InputType' /\ IndexType'
  BY <1>1 DEF Frame, InputType, IndexType, indexVars
<1>3. LearnType'
  BY <1>1 DEF Frame, LearnType, learnVars, samplepixels
<1>4. NetworkType'
  BY <1>1 DEF Frame, NetworkType, Values
<1> QED BY <1>2, <1>3, <1>4, NextTypeParts

\* Every neuron has a distance from the colour asked for, below Far.
LEMMA QueryDist ==
  ASSUME TypeOK, pc # "learn", NEW k \in Net
  PROVE  /\ network[k].g \in Component /\ query.g \in Component /\ network[k].n \in Net
         /\ Dist(network[k], query) \in Nat /\ Dist(network[k], query) < Far
         /\ Dist(network[k], query) >= network[k].g - query.g
         /\ Dist(network[k], query) >= query.g - network[k].g
<1>1. network[k] \in Neuron(0..(Levels - 1)) /\ query \in Pixel
  BY TypeParts DEF NetworkType, Values, SearchType
<1>2. /\ network[k].b \in Component /\ network[k].g \in Component /\ network[k].r \in Component
      /\ query.b \in Component /\ query.g \in Component /\ query.r \in Component
      /\ network[k].n \in Net
  BY <1>1 DEF Neuron, Pixel, Component
<1>3. Far > 3 * (Levels - 1) /\ Far \in Nat /\ Levels - 1 \in Nat
  BY SizeAssumption, Sizes
<1>4. ASSUME NEW x \in Component, NEW y \in Component
      PROVE  Abs(x - y) \in 0..(Levels - 1)
  BY Sizes DEF Component, Abs
<1>5. /\ Abs(network[k].b - query.b) \in 0..(Levels - 1)
      /\ Abs(network[k].g - query.g) \in 0..(Levels - 1)
      /\ Abs(network[k].r - query.r) \in 0..(Levels - 1)
  BY <1>2, <1>4
<1>6. Dist(network[k], query) \in Nat /\ Dist(network[k], query) < Far
  BY <1>3, <1>5 DEF Dist
<1>7. /\ Dist(network[k], query) >= network[k].g - query.g
      /\ Dist(network[k], query) >= query.g - network[k].g
  BY <1>2, DistType DEF Component
<1> QED BY <1>2, <1>6, <1>7

\* A comparison keeps the nearer of two.
LEMMA CompareType ==
  ASSUME TypeOK, pc # "learn", NEW k \in Net, Compare(network[k])
  PROVE  /\ bestd' \in 0..Far /\ best' \in -1..(netsize - 1)
         /\ bestd' <= bestd /\ bestd' <= Dist(network[k], query)
         /\ \/ UNCHANGED <<bestd, best>>
            \/ bestd' = Dist(network[k], query) /\ best' = network[k].n
<1>1. /\ Dist(network[k], query) \in Nat /\ network[k].n \in Net
      /\ bestd \in 0..Far /\ best \in -1..(netsize - 1)
  BY QueryDist, TypeParts DEF SearchType
<1>2. CASE Dist(network[k], query) < bestd
  BY <1>1, <1>2, Sizes DEF Compare, Net
<1>3. CASE ~(Dist(network[k], query) < bestd)
  BY <1>1, <1>3, Sizes DEF Compare
<1> QED BY <1>2, <1>3

LEMMA AskTypeStep == TypeOK /\ (\E q \in Queries : Ask(q)) => TypeOK'
<1> SUFFICES ASSUME TypeOK, NEW q \in Queries, Ask(q) PROVE TypeOK'
  OBVIOUS
<1>1. pc \in {"ready", "found"} /\ pc' = "up" /\ Frame
      /\ query' = q /\ i' = netindex[q.g] /\ j' = netindex[q.g] - 1 /\ bestd' = Far /\ best' = -1
  BY DEF Ask, Frame
<1>2. q \in Pixel /\ q.g \in Component
  BY PictureAssumption DEF Pixel
<1>3. netindex[q.g] \in Net
  BY <1>2, TypeParts DEF IndexType
<1>4. SearchType'
  BY <1>1, <1>2, <1>3, Sizes DEF SearchType, Net
<1> QED BY <1>1, <1>4, FrameType

LEMMA SearchTypeStep == TypeOK /\ (Up \/ Down \/ Found) => TypeOK'
<1> SUFFICES ASSUME TypeOK, Up \/ Down \/ Found PROVE TypeOK'
  OBVIOUS
<1>1. SearchType
  BY TypeParts
<1>2. CASE Up
  <2>1. pc = "up" /\ pc' = "down" /\ Frame /\ UNCHANGED <<query, j>>
    BY <1>2 DEF Up, Frame
  <2>2. i' \in 0..netsize /\ bestd' \in 0..Far /\ best' \in -1..(netsize - 1)
    <3>1. CASE i = netsize \/ TooFarUp
      BY <1>1, <1>2, <3>1, Sizes DEF Up, SearchType
    <3>2. CASE i # netsize /\ ~TooFarUp
      <4>1. i \in Net /\ i' = i + 1 /\ Compare(network[i])
        BY <1>1, <1>2, <3>2, Sizes DEF Up, SearchType, Net
      <4> QED BY <4>1, <2>1, CompareType, Sizes DEF Net
    <3> QED BY <3>1, <3>2
  <2>3. SearchType'
    BY <1>1, <2>1, <2>2 DEF SearchType
  <2> QED BY <2>1, <2>3, FrameType
<1>3. CASE Down
  <2>1. pc = "down" /\ pc' = "up" /\ Frame /\ UNCHANGED <<query, i>>
    BY <1>3 DEF Down, Frame
  <2>2. j' \in -1..(netsize - 1) /\ bestd' \in 0..Far /\ best' \in -1..(netsize - 1)
    <3>1. CASE j < 0 \/ TooFarDown
      BY <1>1, <1>3, <3>1, Sizes DEF Down, SearchType
    <3>2. CASE ~(j < 0) /\ ~TooFarDown
      <4>1. j \in Net /\ j' = j - 1 /\ Compare(network[j])
        BY <1>1, <1>3, <3>2, Sizes DEF Down, SearchType, Net
      <4> QED BY <4>1, <2>1, CompareType, Sizes DEF Net
    <3> QED BY <3>1, <3>2
  <2>3. SearchType'
    BY <1>1, <2>1, <2>2 DEF SearchType
  <2> QED BY <2>1, <2>3, FrameType
<1>4. CASE Found
  <2>1. pc = "up" /\ pc' = "found" /\ Frame /\ UNCHANGED searchVars
    BY <1>4 DEF Found, Frame
  <2>2. SearchType'
    BY <1>1, <2>1 DEF SearchType, searchVars
  <2> QED BY <2>1, <2>2, FrameType
<1> QED BY <1>2, <1>3, <1>4

LEMMA StutterType == TypeOK /\ UNCHANGED vars => TypeOK'
<1> SUFFICES ASSUME TypeOK, UNCHANGED vars PROVE TypeOK'
  OBVIOUS
<1>1. InputType /\ LearnType /\ NetworkType /\ IndexType /\ SearchType
  BY TypeParts
<1>2. InputType' /\ IndexType' /\ SearchType' /\ NetworkType'
  BY <1>1 DEF vars, InputType, IndexType, SearchType, NetworkType, Values, indexVars, searchVars
<1>3. LearnType'
  BY <1>1 DEF vars, LearnType, learnVars, samplepixels
<1> QED BY <1>2, <1>3, NextTypeParts

LEMMA TypeStep == TypeOK /\ [Next]_vars => TypeOK'
BY LearnTypeStep, UnbiasTypeStep, SortTypeStep, IndexTypeStep, AskTypeStep, SearchTypeStep, StutterType
   DEF Next

-----------------------------------------------------------------------------
(* Bias and frequency                                                      *)

\* What one neuron gains and loses in contest.
LEMMA OneBalance ==
  ASSUME NEW f \in 0..intbias, NEW c \in Nat, NEW x \in Int, x = gamma * (c - f),
         NEW wins \in BOOLEAN,
         NEW f1, f1 = IF wins THEN f - f \div betadiv + beta ELSE f - f \div betadiv,
         NEW x1, x1 = IF wins THEN (x + (f \div betadiv) * gamma) - betagamma
                      ELSE x + (f \div betadiv) * gamma
  PROVE  x1 = gamma * (c - f1) /\ f1 \in 0..intbias
<1> DEFINE q == f \div betadiv
<1>1. q \in 0..f
  BY Sizes, DivRange
<1>2. gamma \in Nat /\ beta \in Nat /\ betagamma \in Nat /\ intbias \in Nat
  BY Sizes, DivRange DEF gamma, beta, betagamma
<1>3. betadiv * beta = intbias
  BY Sizes, ScaleAssumption DEF beta
<1>4. gamma * beta = betagamma
  <2>1. gamma * beta = (betadiv * beta) * gammadiv
    BY Sizes, <1>2 DEF gamma
  <2> QED BY <2>1, <1>3 DEF betagamma
<1>5. f - q + beta <= intbias
  \* f - q is the share betadiv - 1 of f, rounded up, which grows with f.
  <2>1. f < betadiv * (q + 1) /\ f >= betadiv * q
    BY Sizes
  <2>2. ASSUME q <= beta - 1
        PROVE  f - q <= intbias - beta
    <3>1. (betadiv - 1) * q <= (betadiv - 1) * (beta - 1) /\ betadiv - 1 \in Nat
      BY <2>2, <1>1, <1>2, Sizes, TimesMono
    <3>2. f - q <= betadiv * q + betadiv - 1 - q
      BY <2>1, <1>1, Sizes
    <3>3. betadiv * q - q = (betadiv - 1) * q
      BY <1>1, Sizes
    <3>4. (betadiv - 1) * (beta - 1) = betadiv * beta - beta - betadiv + 1
      BY <1>2, Sizes
    <3>5. (betadiv - 1) * q \in Nat /\ (betadiv - 1) * (beta - 1) \in Int /\ betadiv * q \in Nat
      BY <3>1, <1>1, <1>2, Sizes
    <3> QED BY <3>1, <3>2, <3>3, <3>4, <3>5, <1>1, <1>2, <1>3, Sizes
  <2>3. ASSUME q >= beta
        PROVE  f - q <= intbias - beta
    BY <2>3, <1>1, <1>2
  <2> QED BY <2>2, <2>3, <1>1, <1>2
<1>6. f \in Int /\ q \in Int /\ f - q \in 0..intbias /\ f - q + beta \in 0..intbias
  BY <1>1, <1>2, <1>5
<1> HIDE DEF q
<1>7. CASE wins
  <2>1. f1 = f - q + beta /\ x1 = (x + q * gamma) - betagamma
    BY <1>7 DEF q
  <2> HIDE DEF beta, gamma, betagamma
  <2>2. c - f1 = (c - f) + (q - beta) /\ c - f \in Int /\ q - beta \in Int
    BY <2>1, <1>2, <1>6
  <2>3. gamma * ((c - f) + (q - beta)) = gamma * (c - f) + gamma * (q - beta)
    BY <2>2, <1>2
  <2>4. gamma * (q - beta) = gamma * q - gamma * beta /\ q * gamma = gamma * q
    BY <1>2, <1>6
  <2>5. gamma * q \in Int /\ gamma * (q - beta) \in Int /\ betagamma \in Int
    BY <2>2, <1>2, <1>6
  <2>6. x1 = x + gamma * (q - beta)
    BY <2>1, <2>4, <2>5, <1>4
  <2>7. x1 = gamma * (c - f1)
    BY <2>2, <2>3, <2>6
  <2> QED BY <2>1, <2>7, <1>6
<1>8. CASE ~wins
  <2>1. f1 = f - q /\ x1 = x + q * gamma
    BY <1>8 DEF q
  <2> HIDE DEF beta, gamma, betagamma
  <2>2. c - f1 = (c - f) + q /\ c - f \in Int
    BY <2>1, <1>6
  <2>3. gamma * ((c - f) + q) = gamma * (c - f) + gamma * q /\ q * gamma = gamma * q
    BY <2>2, <1>2, <1>6
  <2>4. x1 = gamma * (c - f1)
    BY <2>1, <2>2, <2>3
  <2> QED BY <2>1, <2>4, <1>6
<1> QED BY <1>7, <1>8

LEMMA InitBalance == Init => BiasBalanced
<1> SUFFICES ASSUME Init, NEW n \in Net
             PROVE  bias[n] = gamma * (intbias \div netsize - freq[n]) /\ freq[n] \in 0..intbias
  BY DEF BiasBalanced
<1>1. intbias \div netsize \in 0..intbias
  BY Sizes, DivRange
<1>2. freq[n] = intbias \div netsize /\ bias[n] = 0
  BY DEF Init
<1>3. gamma \in Nat
  BY Sizes DEF gamma
<1> QED BY <1>1, <1>2, <1>3

LEMMA BalanceStep == TypeOK /\ BiasBalanced /\ [Next]_vars => BiasBalanced'
<1> SUFFICES ASSUME TypeOK, BiasBalanced, [Next]_vars PROVE BiasBalanced'
  OBVIOUS
<1>1. CASE Learn
  <2> DEFINE s == Sample(pix)
  <2> SUFFICES ASSUME NEW n \in Net
               PROVE  bias'[n] = gamma * (intbias \div netsize - freq'[n]) /\ freq'[n] \in 0..intbias
    BY DEF BiasBalanced
  <2>1. freq' = NewFreq(s) /\ bias' = NewBias(s)
    BY <1>1 DEF Learn
  <2> HIDE DEF s
  <2> DEFINE f == freq[n]
             x == bias[n]
             c == intbias \div netsize
             wins == n = Closest(s)
             f1 == freq'[n]
             x1 == bias'[n]
  <2>2. c \in Nat
    BY Sizes, DivRange
  <2>3. x = gamma * (c - f) /\ f \in 0..intbias /\ x \in Int
    BY TypeParts DEF BiasBalanced, LearnType
  <2>4. /\ f1 = IF wins THEN f - f \div betadiv + beta ELSE f - f \div betadiv
        /\ x1 = IF wins THEN (x + (f \div betadiv) * gamma) - betagamma
                 ELSE x + (f \div betadiv) * gamma
    <3> DEFINE lowered == f - f \div betadiv
               raised == x + (f \div betadiv) * gamma
    <3>1. NewFreq(s)[n] = IF n = Closest(s) THEN lowered + beta ELSE lowered
      BY DEF NewFreq
    <3>2. NewBias(s)[n] = IF n = Closest(s) THEN raised - betagamma ELSE raised
      BY DEF NewBias
    <3>3. CASE wins
      <4>1. f1 = lowered + beta /\ x1 = raised - betagamma
        BY <2>1, <3>1, <3>2, <3>3
      <4> QED BY <3>3, <4>1
    <3>4. CASE ~wins
      <4>1. f1 = lowered /\ x1 = raised
        BY <2>1, <3>1, <3>2, <3>4
      <4> QED BY <3>4, <4>1
    <3> QED BY <3>3, <3>4
  <2>5. wins \in BOOLEAN
    OBVIOUS
  <2> HIDE DEF f, x, c, wins, f1, x1
  <2>6. x1 = gamma * (c - f1) /\ f1 \in 0..intbias
    BY <2>2, <2>3, <2>4, <2>5, OneBalance
  <2> QED BY <2>6 DEF c, f1, x1
<1>2. CASE ~Learn
  <2>1. UNCHANGED <<freq, bias>>
    BY <1>2 DEF Next, vars, learnVars, Unbias, SortStep, IndexRest, Ask, Up, Down, Found
  <2> QED BY <2>1 DEF BiasBalanced
<1> QED BY <1>1, <1>2

-----------------------------------------------------------------------------
(* The search                                                              *)

\* The neurons have the numbers of the palette, one each.
Numbered ==
  pc # "learn" =>
    /\ \A a, b \in Net : network[a].n = network[b].n => a = b
    /\ \A n \in Net : \E k \in Net : network[k].n = n

\* The first pos neurons are sorted, and not above the others.
SortedTo ==
  /\ pc = "learn" => pos = 0
  /\ pc \notin {"learn", "sort"} => pos = netsize
  /\ \A a, b \in Net : (a < pos /\ a < b) => network[a].g <= network[b].g

\* Between j and i nothing is nearer than bestd.
Searched ==
  pc \in {"up", "down", "found"} =>
    /\ j < i
    /\ \A k \in Net : (j < k /\ k < i) => Dist(network[k], query) >= bestd
    /\ \/ best = -1 /\ bestd = Far
       \/ \E k \in Net : network[k].n = best /\ Dist(network[k], query) = bestd
    /\ pc = "found" => i = netsize /\ j < 0

LEMMA SortNumbers ==
  ASSUME TypeOK, Numbered, SortedTo, SortStep
  PROVE  Numbered' /\ SortedTo'
<1> DEFINE s == Smallest
<1>1. pc = "sort" /\ pc' = "sort" /\ pos < netsize /\ pos' = pos + 1 /\ network' = Swapped(pos, s)
  BY DEF SortStep
<1>2. pos \in Net /\ s \in Net /\ s >= pos /\ \A m \in Net : m >= pos => network[s].g <= network[m].g
  BY <1>1, SmallestType, TypeParts, Sizes DEF IndexType, Net
<1> HIDE DEF s
<1> DEFINE to(a) == IF a = pos THEN s ELSE IF a = s THEN pos ELSE a
<1>3. \A a \in Net : to(a) \in Net /\ to(to(a)) = a
  BY <1>2
<1>4. \A a \in Net : network'[a] = network[to(a)]
  <2>1. DOMAIN network = Net
    BY TypeParts DEF NetworkType
  <2> QED BY <1>1, <1>2, <2>1 DEF Swapped
<1>5. Numbered'
  <2>1. /\ \A a, b \in Net : network[a].n = network[b].n => a = b
        /\ \A n \in Net : \E k \in Net : network[k].n = n
    BY <1>1 DEF Numbered
  <2>2. ASSUME NEW a \in Net, NEW b \in Net, network'[a].n = network'[b].n
        PROVE  a = b
    <3>1. network[to(a)].n = network[to(b)].n
      BY <1>4, <2>2
    <3>2. to(a) = to(b)
      BY <1>3, <2>1, <3>1
    <3> QED BY <1>3, <3>2
  <2>3. ASSUME NEW n \in Net
        PROVE  \E k \in Net : network'[k].n = n
    <3>1. PICK k \in Net : network[k].n = n
      BY <2>1
    <3>2. to(k) \in Net /\ network'[to(k)].n = n
      BY <1>3, <1>4, <3>1
    <3> QED BY <3>2
  <2> QED BY <2>2, <2>3 DEF Numbered
<1>6. SortedTo'
  <2>1. ASSUME NEW a \in Net, NEW b \in Net, a < pos + 1, a < b
        PROVE  network'[a].g <= network'[b].g
    <3>1. CASE a < pos
      <4>1. to(a) = a /\ to(b) \in Net /\ a < to(b)
        BY <1>2, <2>1, <3>1 DEF Net
      <4> QED BY <1>4, <3>1, <4>1 DEF SortedTo
    <3>2. CASE a = pos
      <4>1. to(a) = s /\ to(b) \in Net /\ to(b) >= pos
        BY <1>2, <2>1, <3>2 DEF Net
      <4> QED BY <1>2, <1>4, <4>1
    <3> QED BY <1>2, <2>1, <3>1, <3>2 DEF Net
  <2>2. pos' = pos + 1 /\ pc' = "sort"
    BY <1>1
  <2> QED BY <2>1, <2>2 DEF SortedTo
<1> QED BY <1>5, <1>6

LEMMA NumbersStep == TypeOK /\ Numbered /\ SortedTo /\ [Next]_vars => Numbered' /\ SortedTo'
<1> SUFFICES ASSUME TypeOK, Numbered, SortedTo, [Next]_vars PROVE Numbered' /\ SortedTo'
  OBVIOUS
<1>1. CASE Learn
  <2>1. pc = "learn" /\ pc' = "learn" /\ pos' = pos
    BY <1>1 DEF Learn, indexVars
  <2>2. \A a \in Net : ~(a < 0)
    BY DEF Net
  <2> QED BY <2>1, <2>2 DEF Numbered, SortedTo
<1>2. CASE Unbias
  <2>1. pc = "learn" /\ pc' = "sort" /\ pos' = pos /\ pos = 0
    BY <1>2 DEF Unbias, indexVars, SortedTo
  <2>2. \A n \in Net : network'[n].n = n /\ ~(n < 0)
    BY <1>2 DEF Unbias, Net
  <2> QED BY <2>1, <2>2 DEF Numbered, SortedTo
<1>3. CASE SortStep
  BY <1>3, SortNumbers
<1>4. CASE IndexRest
  <2>1. pc = "sort" /\ pc' = "ready" /\ pos = netsize /\ UNCHANGED <<pos, network>>
    BY <1>4 DEF IndexRest
  <2> QED BY <2>1 DEF Numbered, SortedTo
<1>5. CASE (\E q \in Queries : Ask(q)) \/ Up \/ Down \/ Found
  <2>1. pc \notin {"learn", "sort"} /\ pc' \notin {"learn", "sort"} /\ UNCHANGED <<pos, network>>
    BY <1>5 DEF Ask, Up, Down, Found, indexVars
  <2> QED BY <2>1 DEF Numbered, SortedTo
<1>6. CASE UNCHANGED vars
  BY <1>6 DEF vars, indexVars, Numbered, SortedTo
<1> QED BY <1>1, <1>2, <1>3, <1>4, <1>5, <1>6 DEF Next

\* What a comparison with neuron k makes of the best so far.
LEMMA CompareBest ==
  ASSUME TypeOK, pc # "learn", NEW k \in Net, Compare(network[k]),
         UNCHANGED <<network, query>>,
         \/ best = -1 /\ bestd = Far
         \/ \E m \in Net : network[m].n = best /\ Dist(network[m], query) = bestd
  PROVE  \/ best' = -1 /\ bestd' = Far
         \/ \E m \in Net : network'[m].n = best' /\ Dist(network'[m], query') = bestd'
<1>1. \/ UNCHANGED <<bestd, best>>
      \/ bestd' = Dist(network[k], query) /\ best' = network[k].n
  BY CompareType
<1> QED BY <1>1

\* The turn upwards leaves nothing nearer behind.
LEMMA UpSearched ==
  ASSUME TypeOK, SortedTo, Searched, Up
  PROVE  Searched'
<1>1. /\ pc = "up" /\ pc' = "down" /\ UNCHANGED <<network, query, j>>
      /\ i \in 0..netsize /\ j \in -1..(netsize - 1) /\ bestd \in 0..Far
  BY TypeParts DEF Up, SearchType
<1>2. /\ j < i
      /\ \A k \in Net : (j < k /\ k < i) => Dist(network[k], query) >= bestd
      /\ \/ best = -1 /\ bestd = Far
         \/ \E k \in Net : network[k].n = best /\ Dist(network[k], query) = bestd
  BY <1>1 DEF Searched
<1>3. CASE i = netsize
  BY <1>1, <1>2, <1>3 DEF Up, Searched
<1>4. CASE i # netsize /\ TooFarUp
  <2>1. i' = netsize /\ UNCHANGED <<bestd, best>> /\ i \in Net
    BY <1>1, <1>4, Sizes DEF Up, Net
  <2>2. ASSUME NEW k \in Net, k >= i
        PROVE  Dist(network[k], query) >= bestd
    <3>1. network[i].g <= network[k].g
      <4>1. CASE k = i
        BY <4>1, <2>1, QueryDist, <1>1 DEF Component
      <4>2. CASE k # i
        <5>1. pos = netsize
          BY <1>1 DEF SortedTo
        <5>2. i < pos /\ i < k
          BY <4>2, <5>1, <2>1, <2>2, <1>1, Sizes DEF Net
        <5> QED BY <2>1, <5>2 DEF SortedTo
      <4> QED BY <4>1, <4>2
    <3>2. /\ network[i].g \in Component /\ network[k].g \in Component /\ query.g \in Component
          /\ Dist(network[k], query) \in Nat /\ Dist(network[k], query) >= network[k].g - query.g
      BY <1>1, <2>1, QueryDist
    <3>3. network[i].g - query.g >= bestd
      BY <1>4 DEF TooFarUp
    <3> QED BY <3>1, <3>2, <3>3, <1>1, Sizes DEF Component
  <2>3. \A k \in Net : j < k => Dist(network[k], query) >= bestd
    <3>1. ASSUME NEW k \in Net, j < k
          PROVE  Dist(network[k], query) >= bestd
      <4>1. k < i \/ k >= i
        BY <1>1 DEF Net
      <4> QED BY <4>1, <1>2, <2>2, <3>1
    <3> QED BY <3>1
  <2>4. j' < i'
    BY <1>1, <2>1, Sizes
  <2> QED BY <1>1, <1>2, <2>1, <2>3, <2>4 DEF Searched
<1>5. CASE i # netsize /\ ~TooFarUp
  <2>1. i' = i + 1 /\ Compare(network[i]) /\ i \in Net
    BY <1>1, <1>5, Sizes DEF Up, Net
  <2>2. bestd' \in 0..Far /\ bestd' <= bestd /\ bestd' <= Dist(network[i], query)
    BY <1>1, <2>1, CompareType
  <2>3. \/ best' = -1 /\ bestd' = Far
        \/ \E k \in Net : network'[k].n = best' /\ Dist(network'[k], query') = bestd'
    BY <1>1, <1>2, <2>1, CompareBest
  <2>4. ASSUME NEW k \in Net, j < k, k < i + 1
        PROVE  Dist(network[k], query) >= bestd'
    <3>1. Dist(network[k], query) \in Nat /\ Dist(network[i], query) \in Nat
      BY <1>1, <2>1, QueryDist
    <3>2. CASE k < i
      BY <1>1, <1>2, <2>2, <2>4, <3>1, <3>2
    <3>3. CASE k = i
      BY <2>2, <3>1, <3>3
    <3> QED BY <1>1, <2>4, <3>2, <3>3 DEF Net
  <2>5. j' < i'
    BY <1>1, <1>2, <2>1
  <2> QED BY <1>1, <2>1, <2>3, <2>4, <2>5 DEF Searched
<1> QED BY <1>3, <1>4, <1>5

\* Nor does the turn downwards.
LEMMA DownSearched ==
  ASSUME TypeOK, SortedTo, Searched, Down
  PROVE  Searched'
<1>1. /\ pc = "down" /\ pc' = "up" /\ UNCHANGED <<network, query, i>>
      /\ i \in 0..netsize /\ j \in -1..(netsize - 1) /\ bestd \in 0..Far
  BY TypeParts DEF Down, SearchType
<1>2. /\ j < i
      /\ \A k \in Net : (j < k /\ k < i) => Dist(network[k], query) >= bestd
      /\ \/ best = -1 /\ bestd = Far
         \/ \E k \in Net : network[k].n = best /\ Dist(network[k], query) = bestd
  BY <1>1 DEF Searched
<1>3. CASE j < 0
  BY <1>1, <1>2, <1>3 DEF Down, Searched
<1>4. CASE ~(j < 0) /\ TooFarDown
  <2>1. j' = -1 /\ UNCHANGED <<bestd, best>> /\ j \in Net
    BY <1>1, <1>4, Sizes DEF Down, Net
  <2>2. ASSUME NEW k \in Net, k <= j
        PROVE  Dist(network[k], query) >= bestd
    <3>1. network[k].g <= network[j].g
      <4>1. CASE k = j
        BY <4>1, <2>1, QueryDist, <1>1 DEF Component
      <4>2. CASE k # j
        <5>1. pos = netsize
          BY <1>1 DEF SortedTo
        <5>2. k < pos /\ k < j
          BY <4>2, <5>1, <2>1, <2>2, <1>1, Sizes DEF Net
        <5> QED BY <2>1, <5>2 DEF SortedTo
      <4> QED BY <4>1, <4>2
    <3>2. /\ network[j].g \in Component /\ network[k].g \in Component /\ query.g \in Component
          /\ Dist(network[k], query) \in Nat /\ Dist(network[k], query) >= query.g - network[k].g
      BY <1>1, <2>1, QueryDist
    <3>3. query.g - network[j].g >= bestd
      BY <1>4 DEF TooFarDown
    <3> QED BY <3>1, <3>2, <3>3, <1>1, Sizes DEF Component
  <2>3. \A k \in Net : k < i => Dist(network[k], query) >= bestd
    <3>1. ASSUME NEW k \in Net, k < i
          PROVE  Dist(network[k], query) >= bestd
      <4>1. j < k \/ k <= j
        BY <1>1 DEF Net
      <4> QED BY <4>1, <1>2, <2>2, <3>1
    <3> QED BY <3>1
  <2>4. j' < i'
    BY <1>1, <2>1
  <2> QED BY <1>1, <1>2, <2>1, <2>3, <2>4 DEF Searched
<1>5. CASE ~(j < 0) /\ ~TooFarDown
  <2>1. j' = j - 1 /\ Compare(network[j]) /\ j \in Net
    BY <1>1, <1>5, Sizes DEF Down, Net
  <2>2. bestd' \in 0..Far /\ bestd' <= bestd /\ bestd' <= Dist(network[j], query)
    BY <1>1, <2>1, CompareType
  <2>3. \/ best' = -1 /\ bestd' = Far
        \/ \E k \in Net : network'[k].n = best' /\ Dist(network'[k], query') = bestd'
    BY <1>1, <1>2, <2>1, CompareBest
  <2>4. ASSUME NEW k \in Net, j - 1 < k, k < i
        PROVE  Dist(network[k], query) >= bestd'
    <3>1. Dist(network[k], query) \in Nat /\ Dist(network[j], query) \in Nat
      BY <1>1, <2>1, QueryDist
    <3>2. CASE j < k
      BY <1>1, <1>2, <2>2, <2>4, <3>1, <3>2
    <3>3. CASE k = j
      BY <2>2, <3>1, <3>3
    <3> QED BY <1>1, <2>4, <3>2, <3>3 DEF Net
  <2>5. j' < i'
    BY <1>1, <1>2, <2>1
  <2> QED BY <1>1, <2>1, <2>3, <2>4, <2>5 DEF Searched
<1> QED BY <1>3, <1>4, <1>5

LEMMA SearchedStep == TypeOK /\ SortedTo /\ Searched /\ [Next]_vars => Searched'
<1> SUFFICES ASSUME TypeOK, SortedTo, Searched, [Next]_vars PROVE Searched'
  OBVIOUS
<1>1. CASE Learn \/ Unbias \/ SortStep \/ IndexRest
  <2>1. pc' \notin {"up", "down", "found"}
    BY <1>1 DEF Learn, Unbias, SortStep, IndexRest
  <2> QED BY <2>1 DEF Searched
<1>2. CASE \E q \in Queries : Ask(q)
  <2>1. PICK q \in Queries : Ask(q)
    BY <1>2
  <2>2. pc' = "up" /\ i' = netindex[q.g] /\ j' = netindex[q.g] - 1 /\ bestd' = Far /\ best' = -1
    BY <2>1 DEF Ask
  <2>3. q.g \in Component
    BY PictureAssumption DEF Pixel
  <2>4. netindex[q.g] \in Net
    BY <2>3, TypeParts DEF IndexType
  <2>5. j' < i' /\ \A k \in Net : ~(j' < k /\ k < i')
    BY <2>2, <2>4 DEF Net
  <2> QED BY <2>2, <2>5 DEF Searched
<1>3. CASE Up
  BY <1>3, UpSearched
<1>4. CASE Down
  BY <1>4, DownSearched
<1>5. CASE Found
  BY <1>5 DEF Found, Searched, searchVars
<1>6. CASE UNCHANGED vars
  BY <1>6 DEF vars, searchVars, Searched
<1> QED BY <1>1, <1>2, <1>3, <1>4, <1>5, <1>6 DEF Next

-----------------------------------------------------------------------------
(* The samples                                                             *)

\* A number, its quotient and its rest.
LEMMA QuotientRest ==
  ASSUME NEW a \in Nat, NEW n \in Nat \ {0}
  PROVE  \E q \in Nat, r \in 0..(n - 1) : r = a % n /\ a = q * n + r
<1> DEFINE q == a \div n
           r == a % n
<1>1. q \in Nat /\ r \in 0..(n - 1) /\ r = a - n * q
  OBVIOUS
<1>2. r = a % n
  OBVIOUS
<1> HIDE DEF q, r
<1>3. a = q * n + r
  BY <1>1
<1> QED BY <1>1, <1>2, <1>3

\* A product in another order.
LEMMA Reorder ==
  ASSUME NEW a \in Int, NEW b \in Int, NEW c \in Int
  PROVE  a * (b * c) = (a * b) * c /\ a * (b * c) = c * (a * b)
OBVIOUS

\* A multiple leaves no rest.
LEMMA MultipleRest ==
  ASSUME NEW m \in Nat, NEW n \in Nat \ {0}
  PROVE  (m * n) % n = 0
OBVIOUS

\* When a prime does not divide a length, its first multiple that the length
\* divides is the one by the length. (The least factor that gives such a
\* multiple divides the length; the quotient divides the prime.)
LEMMA PrimeSteps ==
  ASSUME NEW p \in Nat \ {0}, \A d \in 2..(p - 1) : p % d # 0,
         NEW len \in Nat \ {0}, len % p # 0,
         NEW d \in 1..(len - 1), NEW a \in Int, d * p = a * len
  PROVE  FALSE
<1> DEFINE Hits == {x \in Nat \ {0} : \E c \in Int : x * p = c * len}
<1>1. d \in Hits /\ Hits \in SUBSET Nat
  OBVIOUS
<1>2. PICK d0 \in Hits : \A x \in Hits : d0 <= x
  <2> HIDE DEF Hits
  <2> QED BY <1>1, NatMin
<1>3. d0 \in Nat \ {0} /\ d0 <= d /\ \E c \in Int : d0 * p = c * len
  BY <1>1, <1>2
<1>4. PICK c \in Int : d0 * p = c * len
  BY <1>3
<1>5. PICK m \in Nat, r \in 0..(d0 - 1) : r = len % d0 /\ len = m * d0 + r
  BY <1>3, QuotientRest
<1>6. r = 0
  <2> SUFFICES ASSUME r # 0 PROVE FALSE
    OBVIOUS
  <2>1. r * p = (p - m * c) * len
    <3>1. r = len - m * d0
      BY <1>3, <1>5
    <3>2. r * p = len * p - m * (d0 * p)
      BY <1>3, <1>5, <3>1
    <3>3. m * (d0 * p) = (m * c) * len
      <4>1. m * (c * len) = (m * c) * len
        BY <1>4, <1>5, Reorder
      <4> QED BY <1>4, <4>1
    <3> QED BY <1>4, <1>5, <3>2, <3>3
  <2>2. p - m * c \in Int
    BY <1>4, <1>5
  <2>3. r \in Hits
    <3>1. r \in Nat \ {0}
      BY <1>3, <1>5
    <3> QED BY <2>1, <2>2, <3>1
  <2>4. d0 <= r
    <3> HIDE DEF Hits
    <3> QED BY <1>2, <2>3
  <2> QED BY <1>3, <1>5, <2>4
<1>7. len = m * d0
  BY <1>3, <1>5, <1>6
<1>8. p = c * m
  <2>1. d0 * p = d0 * (c * m)
    <3>1. c * (m * d0) = d0 * (c * m)
      BY <1>3, <1>4, <1>5, Reorder
    <3> QED BY <1>4, <1>7, <3>1
  <2>2. c * m \in Int
    BY <1>4, <1>5
  <2> DEFINE y == c * m
  <2> HIDE DEF y
  <2>3. d0 * (p - y) = 0
    <3>1. y \in Int /\ d0 * p = d0 * y
      BY <2>1, <2>2 DEF y
    <3>2. d0 * (p - y) = d0 * p - d0 * y /\ d0 * y \in Int
      BY <1>3, <3>1
    <3> QED BY <3>1, <3>2
  <2>4. p - y = 0
    BY <1>3, <2>2, <2>3 DEF y
  <2> QED BY <2>2, <2>4 DEF y
<1>9. m \in Nat \ {0} /\ c \in Nat \ {0}
  BY <1>4, <1>5, <1>8
<1>10. p % m = 0 /\ m <= p
  <2>1. p % m = 0
    BY <1>8, <1>9, MultipleRest
  <2>2. 1 * m <= c * m
    BY <1>9, TimesMono
  <2> QED BY <1>8, <1>9, <2>1, <2>2
<1>11. CASE m = 1
  BY <1>3, <1>7, <1>11
<1>12. CASE m = p
  <2>1. (d0 * p) % p = 0
    BY <1>3, MultipleRest
  <2>2. len = d0 * p
    BY <1>3, <1>7, <1>12
  <2> QED BY <2>1, <2>2
<1>13. CASE m # 1 /\ m # p
  <2>1. m \in 2..(p - 1)
    BY <1>9, <1>10, <1>13
  <2> QED BY <1>10, <2>1
<1> QED BY <1>11, <1>12, <1>13

\* The step that learn takes from sample to sample does not divide the length
\* unless it is one, or the length has all four primes for a factor.
LEMMA StepPrime ==
  ASSUME picture \in Pictures,
         \E p \in {prime1, prime2, prime3, prime4} : (3 * Len(picture)) % p # 0
  PROVE  \/ step = 1
         \/ /\ step \in Nat \ {0} /\ (\A d \in 2..(step - 1) : step % d # 0)
            /\ Len(picture) % step # 0
<1> DEFINE len == Len(picture)
<1>1. len \in Nat \ {0}
  BY StepFits
<1>2. CASE len < prime4
  <2>1. prime4 \in Nat /\ ~(len >= prime4)
    BY <1>1, <1>2, SizeAssumption
  <2> QED BY <1>2, <2>1 DEF step
<1>3. CASE ~(len < prime4)
  <2>1. prime4 \in Nat
    BY SizeAssumption
  <2>2. len >= prime4
    BY <1>1, <1>3, <2>1
  <2>3. step \in {prime1, prime2, prime3, prime4} /\ (3 * len) % step # 0
    <3> HIDE DEF len
    <3>1. step = IF (3 * len) % prime1 # 0 THEN prime1
                 ELSE IF (3 * len) % prime2 # 0 THEN prime2
                 ELSE IF (3 * len) % prime3 # 0 THEN prime3 ELSE prime4
      BY <1>3, <2>2 DEF step, len
    <3>2. \E p \in {prime1, prime2, prime3, prime4} : (3 * len) % p # 0
      BY DEF len
    <3> QED BY <3>1, <3>2
  <2>4. step \in Nat \ {0} /\ \A d \in 2..(step - 1) : step % d # 0
    BY <2>3, SizeAssumption, PrimeAssumption
  <2>5. len % step # 0
    <3> SUFFICES ASSUME len % step = 0 PROVE FALSE
      OBVIOUS
    <3>1. PICK q \in Nat : len = q * step
      <4>1. PICK q \in Nat, r \in 0..(step - 1) : r = len % step /\ len = q * step + r
        BY <1>1, <2>4, QuotientRest
      <4>2. len = q * step
        BY <2>4, <4>1
      <4> QED BY <4>2
    <3>2. ((3 * q) * step) % step = 0
      <4>1. 3 * q \in Nat
        BY <3>1
      <4> QED BY <2>4, <4>1, MultipleRest
    <3> HIDE DEF len
    <3>3. 3 * len = (3 * q) * step
      BY <2>4, <3>1
    <3> QED BY <2>3, <3>2, <3>3
  <2> QED BY <2>4, <2>5
<1> QED BY <1>2, <1>3

\* Where the pixels sampled lie: steps from the first, around the picture.
Sampled ==
  /\ \E a \in Int : taken * step = a * Len(picture) + pix
  /\ \A x \in seen : \E k \in 0..(taken - 1), a \in Int : k * step = a * Len(picture) + x
  /\ IsFiniteSet(seen)

LEMMA SampledLearn ==
  ASSUME TypeOK, Sampled, NoPixelTwice, Learn
  PROVE  Sampled' /\ NoPixelTwice'
<1> DEFINE len == Len(picture)
<1>1. /\ taken < samplepixels /\ taken' = taken + 1 /\ seen' = seen \cup {pix} /\ pix' = NextPix
      /\ UNCHANGED <<picture, samplefac>>
  BY DEF Learn
<1>2. step' = step /\ Len(picture)' = Len(picture)
  BY <1>1 DEF step
<1>3. step \in 1..len /\ len \in Nat \ {0} /\ pix \in 0..(len - 1) /\ taken \in Nat
  <2>1. InputType /\ LearnType
    BY TypeParts
  <2> QED BY <2>1, StepFits, LearnSizes DEF InputType, LearnType
<1>4. taken < len
  <2>1. samplefac \in Nat \ {0} /\ samplepixels \in 0..len
    BY <1>3, DivRange, TypeParts DEF samplepixels, InputType
  <2> QED BY <1>1, <1>3, <2>1
<1>5. PICK a \in Int : taken * step = a * len + pix
  BY DEF Sampled
<1>6. \E b \in Int : (taken + 1) * step = b * len + pix'
  <2>1. (taken + 1) * step = a * len + (pix + step)
    BY <1>3, <1>5
  <2>2. CASE pix + step >= len
    <3>1. pix' = pix + step - len
      BY <1>1, <2>2 DEF NextPix
    <3>2. (a + 1) * len = a * len + len
      BY <1>3
    <3>3. a * len \in Int
      BY <1>3
    <3>4. (taken + 1) * step = (a + 1) * len + pix'
      BY <1>3, <2>1, <3>1, <3>2, <3>3
    <3> QED BY <3>4
  <2>3. CASE ~(pix + step >= len)
    <3>1. pix' = pix + step
      BY <1>1, <2>3 DEF NextPix
    <3> QED BY <2>1, <3>1
  <2> QED BY <2>2, <2>3
<1>7. ASSUME NEW x \in seen \cup {pix}
      PROVE  \E k \in 0..taken, b \in Int : k * step = b * len + x
  <2>1. CASE x \in seen
    <3>1. PICK k \in 0..(taken - 1), b \in Int : k * step = b * len + x
      BY <2>1 DEF Sampled
    <3>2. k \in 0..taken
      BY <1>3
    <3> QED BY <3>1, <3>2
  <2>2. CASE x = pix
    <3>1. taken \in 0..taken
      BY <1>3
    <3> QED BY <1>5, <2>2, <3>1
  <2> QED BY <2>1, <2>2
<1>8. Sampled'
  <2>1. IsFiniteSet(seen \cup {pix})
    BY FS_AddElement DEF Sampled
  <2>2. taken' - 1 = taken
    BY <1>1, <1>3
  <2> QED BY <1>1, <1>2, <1>6, <1>7, <2>1, <2>2 DEF Sampled
<1>9. ASSUME \E p \in {prime1, prime2, prime3, prime4} : (3 * len) % p # 0
      PROVE  pix \notin seen
  <2> SUFFICES ASSUME pix \in seen PROVE FALSE
    OBVIOUS
  <2>1. PICK k \in 0..(taken - 1), b \in Int : k * step = b * len + pix
    BY DEF Sampled
  <2> DEFINE d == taken - k
  <2>2. d \in 1..(len - 1)
    BY <1>3, <1>4
  <2>3. d * step = (a - b) * len
    <3>1. d * step = taken * step - k * step
      BY <1>3
    <3>2. (a - b) * len = a * len - b * len
      BY <1>3
    <3>3. a * len \in Int /\ b * len \in Int
      BY <1>3
    <3> QED BY <1>3, <1>5, <2>1, <3>1, <3>2, <3>3
  <2>4. a - b \in Int
    OBVIOUS
  <2> HIDE DEF d, len
  <2>5. CASE step = 1
    <3> DEFINE e == a - b
    <3>1. d = e * len
      BY <2>2, <2>3, <2>5, <1>3
    <3> HIDE DEF e
    <3>2. e \in Int
      BY <2>4 DEF e
    <3>3. CASE e >= 1
      <4>1. 1 * len <= e * len
        BY <1>3, <3>2, <3>3, TimesMono
      <4> QED BY <1>3, <2>2, <3>1, <4>1
    <3>4. CASE e <= 0
      <4>1. 0 * len <= (-e) * len
        BY <1>3, <3>2, <3>4, TimesMono
      <4>2. (-e) * len = -(e * len)
        BY <1>3, <3>2
      <4> QED BY <1>3, <2>2, <3>1, <4>1, <4>2
    <3> QED BY <3>2, <3>3, <3>4
  <2>6. CASE step \in Nat \ {0} /\ (\A c \in 2..(step - 1) : step % c # 0) /\ len % step # 0
    BY <1>3, <2>2, <2>3, <2>4, <2>6, PrimeSteps
  <2>7. picture \in Pictures
    BY TypeParts DEF InputType
  <2> QED BY <1>9, <2>5, <2>6, <2>7, StepPrime DEF len
<1>10. NoPixelTwice'
  <2> SUFFICES ASSUME \E p \in {prime1, prime2, prime3, prime4} : (3 * len) % p # 0
               PROVE  Cardinality(seen') = taken'
    BY <1>2 DEF NoPixelTwice
  <2>1. Cardinality(seen) = taken
    BY DEF NoPixelTwice
  <2>2. pix \notin seen
    BY <1>9
  <2>3. Cardinality(seen \cup {pix}) = Cardinality(seen) + 1
    BY <2>2, FS_AddElement DEF Sampled
  <2> QED BY <1>1, <2>1, <2>3
<1> QED BY <1>8, <1>10

LEMMA SampledStep == TypeOK /\ Sampled /\ NoPixelTwice /\ [Next]_vars => Sampled' /\ NoPixelTwice'
<1> SUFFICES ASSUME TypeOK, Sampled, NoPixelTwice, [Next]_vars PROVE Sampled' /\ NoPixelTwice'
  OBVIOUS
<1>1. CASE Learn
  BY <1>1, SampledLearn
<1>2. CASE ~Learn
  <2>1. UNCHANGED <<picture, pix, taken, seen>>
    BY <1>2 DEF Next, vars, learnVars, Unbias, SortStep, IndexRest, Ask, Up, Down, Found
  <2>2. step' = step
    BY <2>1 DEF step
  <2> QED BY <2>1, <2>2 DEF Sampled, NoPixelTwice
<1> QED BY <1>1, <1>2

LEMMA InitSampled == Init => Sampled /\ NoPixelTwice
<1> SUFFICES ASSUME Init PROVE Sampled /\ NoPixelTwice
  OBVIOUS
<1>1. picture \in Pictures /\ taken = 0 /\ pix = 0 /\ seen = {}
  BY DEF Init
<1>2. step \in Nat /\ Len(picture) \in Nat
  BY <1>1, StepFits
<1>3. taken * step = 0 * Len(picture) + pix
  BY <1>1, <1>2
<1> QED BY <1>1, <1>3, FS_EmptySet DEF Sampled, NoPixelTwice

-----------------------------------------------------------------------------
(* The results                                                             *)

IInv == TypeOK /\ BiasBalanced /\ Numbered /\ SortedTo /\ Searched /\ Sampled /\ NoPixelTwice

LEMMA InitIInv == Init => IInv
<1> SUFFICES ASSUME Init PROVE IInv
  OBVIOUS
<1>1. TypeOK /\ BiasBalanced
  BY InitType, InitBalance
<1>2. pc = "learn" /\ pos = 0
  BY DEF Init
<1>3. \A a \in Net : ~(a < 0)
  BY DEF Net
<1> QED BY <1>1, <1>2, <1>3, InitSampled DEF IInv, Numbered, SortedTo, Searched

\* The inductive invariant: types, the balance of contest, the numbers of the
\* palette, the sorted part of the network, what a search has passed and where
\* the samples lie.
THEOREM QuantizerInvariant == Spec => []IInv
<1>1. IInv /\ [Next]_vars => IInv'
  BY TypeStep, BalanceStep, NumbersStep, SearchedStep, SampledStep DEF IInv
<1> QED BY InitIInv, <1>1, PTL DEF Spec

\* The network stays in the range of colours, and every index in its array.
THEOREM QuantizerTypes == Spec => []TypeOK
<1>1. IInv => TypeOK
  BY DEF IInv
<1> QED BY <1>1, QuantizerInvariant, PTL

\* However long it learns, bias[n] = gamma * (1/netsize - freq[n]), without
\* an error from rounding, and freq[n] stays between 0 and 1.
THEOREM QuantizerBalanced == Spec => []BiasBalanced
<1>1. IInv => BiasBalanced
  BY DEF IInv
<1> QED BY <1>1, QuantizerInvariant, PTL

\* Unless the length has all four primes for a factor, learn never comes to a
\* pixel twice, whatever the four primes are: the one chosen does not divide
\* the length, so only as many steps as there are pixels come around.
THEOREM QuantizerSamples == Spec => []NoPixelTwice
<1>1. IInv => NoPixelTwice
  BY DEF IInv
<1> QED BY <1>1, QuantizerInvariant, PTL

\* A palette colour is that of the neuron with its number.
LEMMA PaletteColour ==
  ASSUME TypeOK, Numbered, pc # "learn", NEW k \in Net
  PROVE  network[k].n \in Net /\ colorMap[network[k].n] = network[k]
<1>1. network[k].n \in Net
  BY QueryDist
<1>2. \A a, b \in Net : network[a].n = network[b].n => a = b
  BY DEF Numbered
<1>3. (CHOOSE m \in Net : network[m].n = network[k].n) = k
  BY <1>2
<1> QED BY <1>1, <1>3 DEF colorMap

LEMMA NearestFromIInv == IInv => NearestFound
<1> SUFFICES ASSUME IInv, pc = "found"
             PROVE  best \in Net /\ \A n \in Net : Dist(colorMap[best], query) <= Dist(colorMap[n], query)
  BY DEF NearestFound
<1>1. TypeOK /\ Numbered /\ Searched /\ pc # "learn"
  BY DEF IInv
<1>2. \A k \in Net : Dist(network[k], query) >= bestd
  <2>1. i = netsize /\ j < 0 /\ j \in Int
    BY <1>1, TypeParts DEF Searched, SearchType, IInv
  <2>2. \A k \in Net : j < k /\ k < i
    BY <2>1, Sizes DEF Net
  <2> QED BY <1>1, <2>2 DEF Searched, IInv
<1>3. PICK k \in Net : network[k].n = best /\ Dist(network[k], query) = bestd
  <2>1. 0 \in Net
    BY Sizes DEF Net
  <2>2. Dist(network[0], query) \in Nat /\ Dist(network[0], query) < Far /\ Dist(network[0], query) >= bestd
    BY <1>1, <1>2, <2>1, QueryDist
  <2>3. bestd # Far
    BY <2>2, Sizes
  <2> QED BY <1>1, <2>3 DEF Searched
<1>4. best \in Net /\ Dist(colorMap[best], query) = bestd
  BY <1>1, <1>3, PaletteColour
<1>5. ASSUME NEW n \in Net
      PROVE  Dist(colorMap[best], query) <= Dist(colorMap[n], query)
  <2>1. PICK m \in Net : network[m].n = n
    BY <1>1 DEF Numbered
  <2>2. colorMap[n] = network[m]
    BY <1>1, <2>1, PaletteColour
  <2>3. Dist(network[m], query) \in Nat /\ bestd \in Nat /\ Dist(network[m], query) >= bestd
    BY <1>1, <1>2, <1>3, QueryDist
  <2> QED BY <1>4, <2>2, <2>3
<1> QED BY <1>4, <1>5

\* map returns the nearest palette colour: what the two directions skip on
\* green alone is never nearer.
THEOREM QuantizerNearest == Spec => []NearestFound
BY NearestFromIInv, QuantizerInvariant, PTL
=============================================================================
