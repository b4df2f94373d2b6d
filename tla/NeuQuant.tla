------------------------------ MODULE NeuQuant ------------------------------
(***************************************************************************)
(* The colour quantizer, java/gif/NeuQuant.java: a line of neurons learns  *)
(* the colours of a picture, is sorted by green, and map finds the neuron  *)
(* nearest to a colour, searching from a green index in both directions.   *)
(*                                                                         *)
(* The sizes and shifts of the source are constants here: a shift by s is  *)
(* a factor of 2^s. Loops whose turns do not depend on each other (over    *)
(* all neurons of contest, over the neighbours of alterneigh) are one      *)
(* step; the turns of learn, of the sort and of the search are steps.      *)
(***************************************************************************)
EXTENDS Integers, Sequences, FiniteSets

CONSTANTS
  Pictures,              (* pictures, sequences of pixels *)
  Queries,               (* colours map is asked for *)
  Samplings,             (* samplefac *)
  Levels,                (* values of a colour component, 256 *)
  netsize, ncycles,
  prime1, prime2, prime3, prime4,
  netbias,               (* 1 << netbiasshift *)
  intbias, betadiv, gammadiv,    (* gamma is betadiv * gammadiv *)
  initalpha, radbias,
  initrad, radiusbias, radiusdec,
  Far                    (* bestd before anything is found, 1000 *)

Net == 0..(netsize - 1)
Component == 0..(Levels - 1)
Pixel == [b : Component, g : Component, r : Component]

ASSUME PictureAssumption == Pictures \subseteq Seq(Pixel) \ {<<>>} /\ Queries \subseteq Pixel
ASSUME SizeAssumption ==
  /\ {netsize, ncycles, Levels, Far} \subseteq Nat \ {0}
  /\ {prime1, prime2, prime3, prime4} \subseteq Nat \ {0}
  /\ prime1 <= prime4 /\ prime2 <= prime4 /\ prime3 <= prime4
  /\ Samplings \subseteq Nat \ {0}
  /\ Far > 3 * (Levels - 1)
ASSUME PrimeAssumption ==
  \A p \in {prime1, prime2, prime3, prime4} : p > 1 /\ \A d \in 2..(p - 1) : p % d # 0
ASSUME ScaleAssumption ==
  /\ {netbias, intbias, betadiv, gammadiv, initalpha, radbias, radiusbias, radiusdec} \subseteq Nat \ {0}
  /\ initrad \in Nat
  /\ intbias % betadiv = 0 /\ intbias % netsize = 0 /\ intbias % netbias = 0

beta == intbias \div betadiv
gamma == betadiv * gammadiv
betagamma == intbias * gammadiv
alpharadbias == initalpha * radbias

VARIABLES
  picture, samplefac,
  pc,                   (* "learn", "sort", "ready", "up", "down", "found" *)
  \* learn
  pix, taken, seen,     (* the pixel, pixels sampled, history: which *)
  alpha, radius,
  freq, bias,
  network,              (* its colours, and their numbers from unbiasnet on *)
  \* inxbuild
  pos, previouscol, startpos, netindex,
  \* map
  query, i, j, bestd, best

learnVars == <<pix, taken, seen, alpha, radius, freq, bias>>
indexVars == <<pos, previouscol, startpos, netindex>>
searchVars == <<query, i, j, bestd, best>>
vars == <<picture, samplefac, pc, learnVars, network, indexVars, searchVars>>

Init ==
  /\ picture \in Pictures
  /\ samplefac \in IF Len(picture) < prime4 THEN {1} ELSE Samplings
  /\ pc = "learn"
  /\ pix = 0 /\ taken = 0 /\ seen = {}
  /\ alpha = initalpha /\ radius = initrad * radiusbias
  /\ freq = [n \in Net |-> intbias \div netsize] /\ bias = [n \in Net |-> 0]
  /\ network = [n \in Net |-> LET grey == (n * netbias * Levels) \div netsize
                              IN  [b |-> grey, g |-> grey, r |-> grey, n |-> 0]]
  /\ pos = 0 /\ previouscol = 0 /\ startpos = 0 /\ netindex = [c \in Component |-> 0]
  /\ query = [b |-> 0, g |-> 0, r |-> 0] /\ i = 0 /\ j = -1 /\ bestd = Far /\ best = -1

-----------------------------------------------------------------------------
(* Distances                                                               *)

Abs(x) == IF x < 0 THEN -x ELSE x
Dist(p, q) == Abs(p.b - q.b) + Abs(p.g - q.g) + Abs(p.r - q.r)

\* Integer division of Java: towards zero.
Quot(x, d) == IF x >= 0 THEN x \div d ELSE -((-x) \div d)

\* The first neuron with the smallest of these values.
FirstLeast(value) ==
  CHOOSE n \in Net : /\ \A m \in Net : value[n] <= value[m]
                     /\ \A m \in Net : m < n => value[m] > value[n]

-----------------------------------------------------------------------------
(* learn                                                                   *)

samplepixels == Len(picture) \div samplefac
alphadec == 30 + (samplefac - 1) \div 3
delta == IF samplepixels \div ncycles = 0 THEN 1 ELSE samplepixels \div ncycles
rad == IF radius \div radiusbias <= 1 THEN 0 ELSE radius \div radiusbias

\* Altered step: the length is not looked at.
stepFirst == IF Len(picture) < prime4 THEN 1 ELSE prime1

\* The next sample is this many pixels on: a prime that does not divide the
\* length. (The code counts bytes, three for a pixel.)
step ==
  CASE Len(picture) < prime4 -> 1
    [] Len(picture) >= prime4 /\ (3 * Len(picture)) % prime1 # 0 -> prime1
    [] Len(picture) >= prime4 /\ (3 * Len(picture)) % prime1 = 0 /\ (3 * Len(picture)) % prime2 # 0 -> prime2
    [] OTHER -> IF (3 * Len(picture)) % prime3 # 0 THEN prime3 ELSE prime4

Sample(k) == LET p == picture[k + 1]
             IN  [b |-> p.b * netbias, g |-> p.g * netbias, r |-> p.r * netbias]

Closest(s) == FirstLeast([n \in Net |-> Dist(network[n], s)])
ClosestBiased(s) == FirstLeast([n \in Net |-> Dist(network[n], s) - bias[n] \div (intbias \div netbias)])

\* Altered NewBias: the winner's bias is lowered by beta, not betagamma.
NewBiasBeta(s) ==
  [n \in Net |->
    LET raised == bias[n] + (freq[n] \div betadiv) * gamma
    IN  IF n = Closest(s) THEN raised - beta ELSE raised]

\* contest: who wins becomes dearer, the others cheaper.
NewBias(s) ==
  [n \in Net |->
    LET raised == bias[n] + (freq[n] \div betadiv) * gamma
    IN  IF n = Closest(s) THEN raised - betagamma ELSE raised]
NewFreq(s) ==
  [n \in Net |->
    LET lowered == freq[n] - freq[n] \div betadiv
    IN  IF n = Closest(s) THEN lowered + beta ELSE lowered]

\* altersingle for the winner, alterneigh with radpower for its neighbours.
Move(old, s, a, whole) ==
  [old EXCEPT !.b = @ - Quot(a * (@ - s.b), whole),
              !.g = @ - Quot(a * (@ - s.g), whole),
              !.r = @ - Quot(a * (@ - s.r), whole)]
radpower(m) == alpha * (((rad * rad - m * m) * radbias) \div (rad * rad))
Altered(winner, s) ==
  [n \in Net |->
    IF n = winner THEN Move(network[n], s, alpha, initalpha)
    ELSE IF Abs(n - winner) < rad THEN Move(network[n], s, radpower(Abs(n - winner)), alpharadbias)
    ELSE network[n]]

\* Altered NextPix: the end of the picture itself does not wrap.
NextPixLate == IF pix + step > Len(picture) THEN pix + step - Len(picture) ELSE pix + step

NextPix == IF pix + step >= Len(picture) THEN pix + step - Len(picture) ELSE pix + step

Learn ==
  LET s == Sample(pix)
  IN  /\ pc = "learn" /\ taken < samplepixels
      /\ freq' = NewFreq(s) /\ bias' = NewBias(s)
      /\ network' = Altered(ClosestBiased(s), s)
      /\ seen' = seen \cup {pix} /\ taken' = taken + 1
      /\ pix' = NextPix
      /\ IF taken' % delta = 0
         THEN alpha' = alpha - alpha \div alphadec /\ radius' = radius - radius \div radiusdec
         ELSE UNCHANGED <<alpha, radius>>
      /\ UNCHANGED <<picture, samplefac, pc, indexVars, searchVars>>

\* unbiasnet: back to colours, which get their numbers.
Unbias ==
  /\ pc = "learn" /\ taken = samplepixels
  /\ network' = [n \in Net |-> [b |-> network[n].b \div netbias, g |-> network[n].g \div netbias,
                                r |-> network[n].r \div netbias, n |-> n]]
  /\ pc' = "sort"
  /\ UNCHANGED <<picture, samplefac, learnVars, indexVars, searchVars>>

-----------------------------------------------------------------------------
(* inxbuild: a selection sort by green, and where each green begins        *)

Smallest ==
  CHOOSE n \in Net :
    /\ n >= pos
    /\ \A m \in Net : m >= pos => network[n].g <= network[m].g
    /\ \A m \in Net : (m >= pos /\ m < n) => network[m].g > network[n].g

Swapped(a, b) == [network EXCEPT ![a] = network[b], ![b] = network[a]]

SortStep ==
  LET s == Smallest
      col == network[s].g
  IN  /\ pc = "sort" /\ pos < netsize
      /\ network' = Swapped(pos, s)
      /\ IF col # previouscol
         THEN /\ netindex' = [c \in Component |->
                   IF c = previouscol THEN (startpos + pos) \div 2
                   ELSE IF previouscol < c /\ c < col THEN pos
                   ELSE netindex[c]]
              /\ previouscol' = col /\ startpos' = pos
         ELSE UNCHANGED <<netindex, previouscol, startpos>>
      /\ pos' = pos + 1
      /\ UNCHANGED <<picture, samplefac, pc, learnVars, searchVars>>

\* The index of the last green, and beyond.
IndexRest ==
  /\ pc = "sort" /\ pos = netsize
  /\ netindex' = [c \in Component |->
       IF c = previouscol THEN (startpos + netsize - 1) \div 2
       ELSE IF c > previouscol THEN netsize - 1
       ELSE netindex[c]]
  /\ pc' = "ready"
  /\ UNCHANGED <<picture, samplefac, learnVars, network, pos, previouscol, startpos, searchVars>>

\* colorMap: the palette, in the order of the numbers.
colorMap == [n \in Net |-> network[CHOOSE k \in Net : network[k].n = n]]

-----------------------------------------------------------------------------
(* map                                                                     *)

Ask(q) ==
  /\ pc \in {"ready", "found"}
  /\ query' = q
  /\ i' = netindex[q.g] /\ j' = netindex[q.g] - 1
  /\ bestd' = Far /\ best' = -1
  /\ pc' = "up"
  /\ UNCHANGED <<picture, samplefac, learnVars, network, indexVars>>

\* A neuron nearer than the best so far takes its place.
Compare(p) ==
  IF Dist(p, query) < bestd
  THEN bestd' = Dist(p, query) /\ best' = p.n
  ELSE UNCHANGED <<bestd, best>>

\* Altered TooFarUp: off by one.
TooFarUpEarly == network[i].g - query.g + 1 >= bestd

\* From here on green alone is too far away.
TooFarUp == network[i].g - query.g >= bestd
TooFarDown == query.g - network[j].g >= bestd

\* The first half of a turn of the loop: upwards.
Up ==
  /\ pc = "up" /\ (i < netsize \/ j >= 0)
  /\ IF i = netsize
     THEN UNCHANGED <<i, bestd, best>>
     ELSE IF TooFarUp
          THEN i' = netsize /\ UNCHANGED <<bestd, best>>
          ELSE i' = i + 1 /\ Compare(network[i])
  /\ pc' = "down"
  /\ UNCHANGED <<picture, samplefac, learnVars, network, indexVars, query, j>>

\* The second half: downwards.
Down ==
  /\ pc = "down"
  /\ IF j < 0
     THEN UNCHANGED <<j, bestd, best>>
     ELSE IF TooFarDown
          THEN j' = -1 /\ UNCHANGED <<bestd, best>>
          ELSE j' = j - 1 /\ Compare(network[j])
  /\ pc' = "up"
  /\ UNCHANGED <<picture, samplefac, learnVars, network, indexVars, query, i>>

\* The loop ends: best is returned.
Found ==
  /\ pc = "up" /\ i = netsize /\ j < 0
  /\ pc' = "found"
  /\ UNCHANGED <<picture, samplefac, learnVars, network, indexVars, searchVars>>

-----------------------------------------------------------------------------
Next ==
  \/ Learn \/ Unbias \/ SortStep \/ IndexRest
  \/ \E q \in Queries : Ask(q)
  \/ Up \/ Down \/ Found

Spec == Init /\ [][Next]_vars

-----------------------------------------------------------------------------
(* Properties                                                              *)

Values == 0..(IF pc = "learn" THEN (Levels * netbias) - 1 ELSE Levels - 1)

\* The network never leaves the range of colours, which inxbuild and map use
\* as indices, nor an index the network.
TypeOK ==
  /\ picture \in Pictures /\ samplefac \in Nat \ {0}
  /\ pc \in {"learn", "sort", "ready", "up", "down", "found"}
  /\ pix \in 0..(Len(picture) - 1) /\ taken \in 0..samplepixels /\ seen \subseteq Nat
  /\ alpha \in 0..initalpha /\ radius \in 0..(initrad * radiusbias)
  /\ freq \in [Net -> Int] /\ bias \in [Net -> Int]
  /\ network \in [Net -> [b : Values, g : Values, r : Values, n : Net]]
  /\ pos \in 0..netsize /\ previouscol \in Component /\ startpos \in Net
  /\ netindex \in [Component -> Net]
  /\ query \in Pixel /\ i \in 0..netsize /\ j \in -1..(netsize - 1)
  /\ bestd \in 0..Far /\ best \in -1..(netsize - 1)

\* "for frequently chosen neurons, freq[i] is high and bias[i] is negative;
\* bias[i] = gamma*((1/netsize)-freq[i])": rounding never drives the two
\* apart, however long a picture is, and freq stays a fraction of intbias.
BiasBalanced ==
  \A n \in Net : /\ bias[n] = gamma * (intbias \div netsize - freq[n])
                 /\ freq[n] \in 0..intbias

\* No pixel is sampled a second time: step and length have no common factor,
\* but for an image "so large that it is divisible by all four primes".
NoPixelTwice ==
  (\E p \in {prime1, prime2, prime3, prime4} : (3 * Len(picture)) % p # 0) => Cardinality(seen) = taken

\* map returns the number of a palette colour nearest to the one it was asked
\* for, although it stops on green alone.
NearestFound ==
  pc = "found" => /\ best \in Net
                  /\ \A n \in Net : Dist(colorMap[best], query) <= Dist(colorMap[n], query)
=============================================================================
