--------------------------- MODULE SelectorProofs ---------------------------
(***************************************************************************)
(* Proofs about Selector, for every catalog and every set of machines.     *)
(***************************************************************************)
EXTENDS Selector, FiniteSetTheorems, SequenceTheorems,
        WellFoundedInduction, TLAPS

\* A function on a finite, non-empty set reaches a greatest value there: the
\* points above d, ordered by inclusion, are fewest at a greatest point.
LEMMA GreatestValue ==
    ASSUME NEW D, IsFiniteSet(D), D # {}, NEW f, \A d \in D : f[d] \in Int
    PROVE  \E d \in D : \A e \in D : f[e] <= f[d]
<1> DEFINE Above(d) == {e \in D : f[e] > f[d]}
           A == {Above(d) : d \in D}
<1>1. IsWellFoundedOn(StrictSubsetOrdering(D), FiniteSubsetsOf(D))
  BY FS_StrictSubsetOrderingWellFounded
<1>2. A # {} /\ A \subseteq FiniteSubsetsOf(D)
  <2>1. ASSUME NEW d \in D PROVE Above(d) \in FiniteSubsetsOf(D)
    <3>1. Above(d) \in SUBSET D
      OBVIOUS
    <3>2. IsFiniteSet(Above(d))
      BY <3>1, FS_Subset
    <3> QED BY <3>1, <3>2 DEF FiniteSubsetsOf
  <2> QED BY <2>1
<1>3. PICK m \in A : \A x \in A : <<x, m>> \notin StrictSubsetOrdering(D)
  <2> HIDE DEF A
  <2> QED BY <1>1, <1>2, WFMin
<1>4. PICK d \in D : m = Above(d)
  OBVIOUS
<1>5. ASSUME NEW e \in D, f[e] > f[d] PROVE FALSE
  <2>1. Above(e) \subseteq Above(d)
    BY <1>5
  <2>2. e \in Above(d) /\ e \notin Above(e)
    BY <1>5
  <2>3. <<Above(e), Above(d)>> \in StrictSubsetOrdering(D)
    <3>1. Above(e) \in SUBSET D /\ Above(d) \in SUBSET D
      OBVIOUS
    <3> HIDE DEF Above
    <3> QED BY <2>1, <2>2, <3>1 DEF StrictSubsetOrdering
  <2>4. Above(e) \in A
    OBVIOUS
  <2> QED BY <1>3, <1>4, <2>3, <2>4
<1>6. \A e \in D : f[e] <= f[d]
  BY <1>5
<1> QED BY <1>6

\* The GPUs of a machine are a list.
LEMMA MachineFacts ==
    ASSUME NEW m \in Machine
    PROVE  /\ m.ram \in Nat
           /\ m.gpus \in Seq(GPUInfo)
           /\ Len(m.gpus) \in Nat /\ DOMAIN m.gpus = 1 .. Len(m.gpus)
           /\ m.gpus # << >> => DOMAIN m.gpus # {}
           /\ \A i \in DOMAIN m.gpus : m.gpus[i] \in GPUInfo /\ m.gpus[i].vram \in Nat
<1>1. m.ram \in Nat /\ m.gpus \in Seq(GPUInfo)
  BY DEF Machine
<1>2. \A i \in 1 .. Len(m.gpus) : m.gpus[i] \in GPUInfo
  BY <1>1, ElementOfSeq
<1>3. \A gpu \in GPUInfo : gpu.vram \in Nat
  BY DEF GPUInfo
<1>4. m.gpus # << >> => Len(m.gpus) # 0
  BY <1>1, EmptySeq
<1> QED BY <1>1, <1>2, <1>3, <1>4

\* The best GPU is one of the machine's, and no other has more memory.
LEMMA GPUMemoryFacts ==
    ASSUME NEW m \in Machine
    PROVE  /\ GPUMemory(m) \in Nat
           /\ m.gpus = << >> => GPUMemory(m) = 0
           /\ m.gpus # << >> => \E i \in DOMAIN m.gpus : GPUMemory(m) = m.gpus[i].vram
           /\ \A i \in DOMAIN m.gpus : m.gpus[i].vram <= GPUMemory(m)
<1>1. CASE m.gpus = << >>
  BY <1>1 DEF GPUMemory
<1>2. CASE m.gpus # << >>
  <2> DEFINE D == DOMAIN m.gpus
             f == [i \in D |-> m.gpus[i].vram]
             S == {m.gpus[i].vram : i \in D}
  <2>1. D = 1 .. Len(m.gpus) /\ Len(m.gpus) \in Nat /\ D # {}
    BY <1>2, MachineFacts
  <2>2. \A i \in D : f[i] = m.gpus[i].vram /\ m.gpus[i].vram \in Nat /\ f[i] \in Int
    BY MachineFacts
  <2>3. IsFiniteSet(D)
    BY <2>1, FS_Interval
  <2>4. PICK i \in D : \A j \in D : f[j] <= f[i]
    <3> HIDE DEF D, f
    <3> QED BY <2>1, <2>2, <2>3, GreatestValue
  <2>5. m.gpus[i].vram \in S /\ \A x \in S : m.gpus[i].vram >= x
    BY <2>2, <2>4
  <2>6. Max(S) \in S /\ \A x \in S : Max(S) >= x
    BY <2>5 DEF Max
  <2>7. GPUMemory(m) = Max(S)
    BY <1>2 DEF GPUMemory
  <2> QED BY <1>2, <2>2, <2>6, <2>7
<1> QED BY <1>1, <1>2

\* A machine is unified exactly when it has a GPU of Apple's.
LEMMA UnifiedFacts ==
    ASSUME NEW m \in Machines
    PROVE  /\ m \in Machine
           /\ IsUnified(m) <=> \E i \in DOMAIN m.gpus : m.gpus[i].type = "apple"
<1>1. m \in Machine
  BY MachinesAssumption
<1> QED BY <1>1, MachineFacts, MachinesAssumption DEF IsUnified

\* The models of a pair have a size and a score.
LEMMA PairFacts ==
    ASSUME NEW p \in Pairs
    PROVE  /\ p = <<p[1], p[2]>> /\ p[1] \in DOMAIN Catalog /\ p[2] \in DOMAIN Catalog
           /\ p[1] \in Int /\ p[2] \in Int
           /\ LargeMemory(p) \in Nat \ {0}
           /\ SmallMemory(p) \in Nat \ {0}
           /\ Score(p) \in Int
<1>1. p[1] \in DOMAIN Catalog /\ p[2] \in DOMAIN Catalog /\ p = <<p[1], p[2]>>
  BY DEF Pairs, Large, Small
<1>2. Catalog[p[1]] \in Model /\ Catalog[p[2]] \in Model
  BY <1>1, CatalogAssumption
<1>3. p[1] \in Int /\ p[2] \in Int
  BY <1>1, CatalogAssumption
<1> QED BY <1>1, <1>2, <1>3 DEF Model, LargeMemory, SmallMemory, Score

\* What each device holds under each placement.
LEMMA LoadFacts ==
    ASSUME NEW p \in Pairs, NEW large, NEW small, NEW device
    PROVE  Load(p, On(large, small), device)
             = (IF large = device THEN LargeMemory(p) ELSE 0)
               + (IF small = device THEN SmallMemory(p) ELSE 0)
BY DEF Load, On

\* Whether a pair fits is a comparison of its sizes with the best GPU's memory.
LEMMA FitsFacts ==
    ASSUME NEW m \in Machines, NEW p \in Pairs,
           NEW large \in {"gpu", "cpu"}, NEW small \in {"gpu", "cpu"}
    PROVE  Fits(p, On(large, small), m) <=>
             IF IsUnified(m)
             THEN LargeMemory(p) + SmallMemory(p) <= m.ram
             ELSE /\ (IF large = "cpu" THEN LargeMemory(p) ELSE 0)
                        + (IF small = "cpu" THEN SmallMemory(p) ELSE 0) <= m.ram
                  /\ (IF large = "gpu" THEN LargeMemory(p) ELSE 0)
                        + (IF small = "gpu" THEN SmallMemory(p) ELSE 0) <= GPUMemory(m)
<1> DEFINE onGPU == Load(p, On(large, small), "gpu")
           onCPU == Load(p, On(large, small), "cpu")
<1>1. /\ onGPU = (IF large = "gpu" THEN LargeMemory(p) ELSE 0)
                   + (IF small = "gpu" THEN SmallMemory(p) ELSE 0)
      /\ onCPU = (IF large = "cpu" THEN LargeMemory(p) ELSE 0)
                   + (IF small = "cpu" THEN SmallMemory(p) ELSE 0)
  BY LoadFacts
<1>2. LargeMemory(p) \in Nat \ {0} /\ SmallMemory(p) \in Nat \ {0}
  BY PairFacts
<1>3. onGPU \in Nat /\ onCPU \in Nat
  <2> HIDE DEF onGPU, onCPU
  <2> QED BY <1>1, <1>2
<1>4. m \in Machine /\ (IsUnified(m) <=> \E i \in DOMAIN m.gpus : m.gpus[i].type = "apple")
  BY UnifiedFacts
<1>5. Fits(p, On(large, small), m) <=>
         IF IsUnified(m)
         THEN onGPU + onCPU <= m.ram
         ELSE onCPU <= m.ram /\ (onGPU = 0 \/ \E i \in DOMAIN m.gpus : onGPU <= m.gpus[i].vram)
  BY <1>4 DEF Fits
<1>6. (onGPU = 0 \/ \E i \in DOMAIN m.gpus : onGPU <= m.gpus[i].vram) <=> onGPU <= GPUMemory(m)
  <2>1. \A i \in DOMAIN m.gpus : m.gpus[i].vram \in Nat
    BY <1>4, MachineFacts
  <2> HIDE DEF onGPU
  <2> QED BY <1>3, <1>4, <2>1, GPUMemoryFacts
<1>7. IsUnified(m) => onGPU + onCPU = LargeMemory(p) + SmallMemory(p)
  <2> HIDE DEF onGPU, onCPU
  <2> QED BY <1>1, <1>2
<1> HIDE DEF onGPU, onCPU
<1> QED BY <1>1, <1>5, <1>6, <1>7

-----------------------------------------------------------------------------
\* FindBestPlacement places a pair where it fits, places every pair that fits
\* in some way, and puts the large model on the GPU when that is possible.
LEMMA PlacementFacts ==
    ASSUME NEW m \in Machines, NEW p \in Pairs
    PROVE  LET placement == FindBestPlacement(p, m)
           IN  /\ placement # Nowhere => placement \in Placements /\ Fits(p, placement, m)
               /\ placement = Nowhere => \A q \in Placements : ~Fits(p, q, m)
               /\ placement.large = "cpu" =>
                     \A q \in Placements : Fits(p, q, m) => q.large = "cpu"
<1> DEFINE placement == FindBestPlacement(p, m)
<1>1. /\ LargeMemory(p) \in Nat \ {0} /\ SmallMemory(p) \in Nat \ {0}
      /\ GPUMemory(m) \in Nat /\ m.ram \in Nat
  BY PairFacts, GPUMemoryFacts, UnifiedFacts, MachineFacts
<1>2. \A large, small \in {"gpu", "cpu"} :
        Fits(p, On(large, small), m) <=>
             IF IsUnified(m)
             THEN LargeMemory(p) + SmallMemory(p) <= m.ram
             ELSE /\ (IF large = "cpu" THEN LargeMemory(p) ELSE 0)
                        + (IF small = "cpu" THEN SmallMemory(p) ELSE 0) <= m.ram
                  /\ (IF large = "gpu" THEN LargeMemory(p) ELSE 0)
                        + (IF small = "gpu" THEN SmallMemory(p) ELSE 0) <= GPUMemory(m)
  BY FitsFacts
<1>3. \A large, small, other, another : On(large, small) = On(other, another) =>
                                            large = other /\ small = another
  BY DEF On
<1>4. placement \in Placements \cup {Nowhere}
  BY DEF FindBestPlacement, UnifiedPlacement, DiscretePlacement, Placements, Nowhere
<1>5. \A q \in Placements : \E large, small \in {"gpu", "cpu"} :
         q = On(large, small) /\ q.large = large /\ q # Nowhere
  BY DEF Placements, On, Nowhere
<1>6. CASE IsUnified(m)
  <2>1. placement = IF LargeMemory(p) + SmallMemory(p) <= m.ram
                    THEN On("gpu", "gpu") ELSE Nowhere
    BY <1>6 DEF FindBestPlacement, UnifiedPlacement
  <2>2. On("gpu", "gpu") \in Placements /\ On("gpu", "gpu").large = "gpu" /\ Nowhere.large = "none"
    BY DEF Placements, On, Nowhere
  <2> QED BY <1>1, <1>2, <1>5, <1>6, <2>1, <2>2
<1>7. CASE ~IsUnified(m)
  <2> DEFINE large == LargeMemory(p)
             small == SmallMemory(p)
             gpu == GPUMemory(m)
  <2>1. placement = IF large + small <= gpu THEN On("gpu", "gpu")
                    ELSE IF large <= gpu /\ small <= m.ram THEN On("gpu", "cpu")
                    ELSE IF small <= gpu /\ large <= m.ram THEN On("cpu", "gpu")
                    ELSE IF large + small <= m.ram THEN On("cpu", "cpu")
                    ELSE Nowhere
    BY <1>7 DEF FindBestPlacement, DiscretePlacement
  <2>2. /\ Fits(p, On("gpu", "gpu"), m) <=> large + small <= gpu
        /\ Fits(p, On("gpu", "cpu"), m) <=> large <= gpu /\ small <= m.ram
        /\ Fits(p, On("cpu", "gpu"), m) <=> small <= gpu /\ large <= m.ram
        /\ Fits(p, On("cpu", "cpu"), m) <=> large + small <= m.ram
    <3> HIDE DEF large, small, gpu
    <3> QED BY <1>1, <1>2, <1>7 DEF large, small, gpu
  <2>3. /\ \A x \in {"gpu", "cpu"} : \A y \in {"gpu", "cpu"} :
             On(x, y).large = x /\ On(x, y) # Nowhere /\ On(x, y) \in Placements
        /\ Nowhere.large = "none"
    BY DEF On, Nowhere, Placements
  <2>4. \A q \in Placements : \/ q = On("gpu", "gpu") \/ q = On("gpu", "cpu")
                               \/ q = On("cpu", "gpu") \/ q = On("cpu", "cpu")
    BY DEF Placements
  <2>5. CASE placement = Nowhere
    <3>1. /\ ~Fits(p, On("gpu", "gpu"), m) /\ ~Fits(p, On("gpu", "cpu"), m)
          /\ ~Fits(p, On("cpu", "gpu"), m) /\ ~Fits(p, On("cpu", "cpu"), m)
      <4> HIDE DEF placement, large, small, gpu
      <4> QED BY <2>1, <2>2, <2>3, <2>5
    <3>2. \A q \in Placements : ~Fits(p, q, m)
      BY <2>4, <3>1
    <3> HIDE DEF placement
    <3> QED BY <2>3, <2>5, <3>2 DEF placement
  <2>6. CASE placement # Nowhere
    <3>1. placement \in Placements
      BY <1>4, <2>6
    <3>2. Fits(p, placement, m)
      <4>1. CASE large + small <= gpu
        BY <2>1, <2>2, <4>1
      <4>2. CASE ~(large + small <= gpu) /\ large <= gpu /\ small <= m.ram
        BY <2>1, <2>2, <4>2
      <4>3. CASE ~(large + small <= gpu) /\ ~(large <= gpu /\ small <= m.ram)
        <5> HIDE DEF placement, large, small, gpu
        <5> QED BY <2>1, <2>2, <2>6, <4>3
      <4> QED BY <4>1, <4>2, <4>3
    <3>3. placement.large = "cpu" => \A q \in Placements : Fits(p, q, m) => q.large = "cpu"
      <4>1. placement.large = "cpu" => ~Fits(p, On("gpu", "gpu"), m) /\ ~Fits(p, On("gpu", "cpu"), m)
        <5> HIDE DEF placement, large, small, gpu
        <5> QED BY <2>1, <2>2, <2>3
      <4> HIDE DEF placement
      <4> QED BY <2>3, <2>4, <4>1
    <3> QED BY <2>6, <3>1, <3>2, <3>3
  <2> QED BY <2>5, <2>6
<1> QED BY <1>6, <1>7

-----------------------------------------------------------------------------
\* The order of the answer is total, and irreflexive and transitive.
LEMMA BeforeIsAnOrder ==
    /\ \A p \in Pairs : ~Before(p, p)
    /\ \A p, q \in Pairs : p = q \/ Before(p, q) \/ Before(q, p)
    /\ \A p, q, r \in Pairs : Before(p, q) /\ Before(q, r) => Before(p, r)
<1>1. \A p \in Pairs : /\ LargeMemory(p) \in Int /\ Score(p) \in Int
                       /\ p[1] \in Int /\ p[2] \in Int /\ p = <<p[1], p[2]>>
  BY PairFacts
<1>2. \A p, q \in Pairs : p[1] = q[1] /\ p[2] = q[2] => p = q
  BY <1>1
<1> QED BY <1>1, <1>2 DEF Before, BeforeInCatalog

\* There are finitely many pairs.
LEMMA PairsAreFinite == IsFiniteSet(Pairs)
<1>1. IsFiniteSet(DOMAIN Catalog)
  <2>1. DOMAIN Catalog = 1 .. Len(Catalog) /\ Len(Catalog) \in Nat
    BY CatalogAssumption
  <2> QED BY <2>1, FS_Interval
<1>2. IsFiniteSet(Large) /\ IsFiniteSet(Small)
  BY <1>1, FS_Subset DEF Large, Small
<1>3. IsFiniteSet(Large \X Small)
  BY <1>2, FS_Product, Zenon
<1>4. Pairs \subseteq Large \X Small
  BY DEF Pairs
<1> QED BY <1>3, <1>4, FS_Subset

\* Some pair comes first of those that are placed, and every other after it.
LEMMA FirstPair ==
    ASSUME NEW m, Placed(m) # {}
    PROVE  \E first \in Placed(m) :
              /\ Place(first, m) = 0
              /\ \A p \in Placed(m) : p = first \/ Before(first, p)
<1> DEFINE Earlier(p) == {q \in Placed(m) : Before(q, p)}
           f == [p \in Placed(m) |-> -Cardinality(Earlier(p))]
<1>1. Placed(m) \subseteq Pairs /\ IsFiniteSet(Placed(m))
  BY PairsAreFinite, FS_Subset DEF Placed
<1>2. ASSUME NEW p \in Placed(m)
      PROVE  IsFiniteSet(Earlier(p)) /\ Cardinality(Earlier(p)) \in Nat
  BY <1>1, FS_Subset, FS_CardinalityType
<1>3. \A p \in Placed(m) : f[p] = -Cardinality(Earlier(p)) /\ f[p] \in Int
  <2> HIDE DEF Earlier
  <2> QED BY <1>2
<1>4. PICK first \in Placed(m) : \A p \in Placed(m) : f[p] <= f[first]
  <2> HIDE DEF f
  <2> QED BY <1>1, <1>3, GreatestValue
<1>5. Earlier(first) = {}
  <2>1. SUFFICES ASSUME NEW q \in Earlier(first) PROVE FALSE
    OBVIOUS
  <2>2. q \in Placed(m) /\ Before(q, first)
    OBVIOUS
  <2>3. Earlier(q) \subseteq Earlier(first) /\ q \notin Earlier(q)
    BY <1>1, <2>2, BeforeIsAnOrder
  <2>4. Cardinality(Earlier(q)) < Cardinality(Earlier(first))
    <3> HIDE DEF Earlier
    <3> QED BY <1>2, <2>1, <2>2, <2>3, FS_Subset
  <2>5. /\ f[q] = -Cardinality(Earlier(q)) /\ f[first] = -Cardinality(Earlier(first))
        /\ Cardinality(Earlier(q)) \in Nat /\ Cardinality(Earlier(first)) \in Nat
        /\ f[q] <= f[first]
    <3> HIDE DEF f, Earlier
    <3> QED BY <1>2, <1>3, <1>4, <2>2
  <2> HIDE DEF f, Earlier
  <2> QED BY <2>4, <2>5
<1>6. Place(first, m) = 0
  BY <1>5, FS_EmptySet DEF Place
<1>7. \A p \in Placed(m) : p = first \/ Before(first, p)
  BY <1>1, <1>5, BeforeIsAnOrder
<1> QED BY <1>6, <1>7

\* A pair that comes before another has a lower place, so that no two share one.
LEMMA PlacesFollowTheOrder ==
    ASSUME NEW m, NEW p \in Placed(m)
    PROVE  /\ Place(p, m) \in Nat
           /\ \A q \in Placed(m) : Before(q, p) => Place(q, m) < Place(p, m)
<1> DEFINE Earlier(q) == {r \in Placed(m) : Before(r, q)}
<1>1. Placed(m) \subseteq Pairs /\ IsFiniteSet(Placed(m))
  BY PairsAreFinite, FS_Subset DEF Placed
<1>2. ASSUME NEW q \in Placed(m)
      PROVE  /\ IsFiniteSet(Earlier(q)) /\ Cardinality(Earlier(q)) \in Nat
             /\ Place(q, m) = Cardinality(Earlier(q))
  BY <1>1, FS_Subset, FS_CardinalityType DEF Place
<1>3. ASSUME NEW q \in Placed(m), Before(q, p)
      PROVE  Cardinality(Earlier(q)) < Cardinality(Earlier(p))
  <2>1. Earlier(q) \subseteq Earlier(p) /\ q \notin Earlier(q) /\ q \in Earlier(p)
    BY <1>1, <1>3, BeforeIsAnOrder
  <2> HIDE DEF Earlier
  <2> QED BY <1>2, <2>1, FS_Subset
<1> HIDE DEF Earlier
<1> QED BY <1>2, <1>3

\* SelectModels returns the five pairs that come first, or all of them.
LEMMA FirstFive ==
    ASSUME NEW m
    PROVE  LET offers == {p \in Placed(m) : Place(p, m) < 5}
           IN  /\ Cardinality(offers) <= 5
               /\ Cardinality(offers) = 5 \/ offers = Placed(m)
<1> DEFINE offers == {p \in Placed(m) : Place(p, m) < 5}
           left == Placed(m) \ offers
           place == [p \in offers |-> Place(p, m)]
           f == [p \in left |-> -Place(p, m)]
           Earlier(p) == {q \in Placed(m) : Before(q, p)}
<1>1. /\ Placed(m) \subseteq Pairs
      /\ IsFiniteSet(Placed(m)) /\ IsFiniteSet(offers) /\ IsFiniteSet(left)
      /\ Cardinality(offers) \in Nat
  <2>1. Placed(m) \subseteq Pairs /\ IsFiniteSet(Placed(m))
    BY PairsAreFinite, FS_Subset DEF Placed
  <2>2. offers \in SUBSET Placed(m) /\ left \in SUBSET Placed(m)
    OBVIOUS
  <2> HIDE DEF offers, left
  <2> QED BY <2>1, <2>2, FS_Subset, FS_CardinalityType
<1>2. Cardinality(offers) <= 5
  <2>0. PICK last \in Nat : last = 4
    OBVIOUS
  <2>1. \A p \in offers : place[p] = Place(p, m) /\ place[p] \in 0 .. last
    BY <2>0, PlacesFollowTheOrder
  <2>2. ASSUME NEW p \in offers, NEW q \in offers, place[p] = place[q]
        PROVE  p = q
    <3>1. p \in Placed(m) /\ q \in Placed(m) /\ Place(p, m) = Place(q, m)
      BY <2>1, <2>2
    <3>2. Place(p, m) \in Nat /\ ~Before(p, q) /\ ~Before(q, p)
      BY <3>1, PlacesFollowTheOrder
    <3> QED BY <1>1, <3>1, <3>2, BeforeIsAnOrder
  <2>3. place \in Injection(offers, 0 .. last)
    <3>1. place \in [offers -> 0 .. last]
      BY <2>1
    <3> HIDE DEF offers, place
    <3> QED BY <2>2, <3>1 DEF Injection, IsInjective
  <2>4. IsFiniteSet(0 .. last) /\ Cardinality(0 .. last) = 5
    <3>1. IsFiniteSet(0 .. last) /\ Cardinality(0 .. last) = last - 0 + 1
      BY FS_Interval
    <3> QED BY <2>0, <3>1
  <2> HIDE DEF offers, place
  <2> QED BY <2>3, <2>4, FS_Injection
<1>3. ASSUME left # {} PROVE Cardinality(offers) >= 5
  <2>1. \A p \in left : p \in Placed(m) /\ f[p] = -Place(p, m) /\ f[p] \in Int
    BY PlacesFollowTheOrder
  <2>2. PICK p \in left : \A q \in left : f[q] <= f[p]
    <3> HIDE DEF left, f
    <3> QED BY <1>1, <1>3, <2>1, GreatestValue
  <2>3. p \in Placed(m) /\ Place(p, m) \in Nat /\ Place(p, m) >= 5
    BY PlacesFollowTheOrder
  <2>4. Earlier(p) \subseteq offers
    <3> SUFFICES ASSUME NEW q \in Placed(m), Before(q, p), q \in left
                 PROVE  FALSE
      OBVIOUS
    <3>1. Place(q, m) \in Nat /\ Place(q, m) < Place(p, m)
      BY <2>3, PlacesFollowTheOrder
    <3>2. -Place(q, m) <= -Place(p, m)
      <4> HIDE DEF left, f
      <4> QED BY <2>1, <2>2
    <3> QED BY <2>3, <3>1, <3>2
  <2>5. Place(p, m) = Cardinality(Earlier(p))
    BY DEF Place
  <2>6. Cardinality(Earlier(p)) <= Cardinality(offers)
    <3> HIDE DEF offers, Earlier
    <3> QED BY <1>1, <2>4, FS_Subset
  <2> HIDE DEF offers, Earlier
  <2> QED BY <1>1, <2>3, <2>5, <2>6
<1>4. left = {} => offers = Placed(m)
  OBVIOUS
<1> HIDE DEF offers, left
<1> QED BY <1>1, <1>2, <1>3, <1>4 DEF offers

\* What has been answered is what SelectModels returns for the machine.
Answering ==
    /\ machine \in Machines
    /\ answered \in BOOLEAN
    /\ answered => answer = SelectModels(machine)
    /\ ~answered => answer = << >>

LEMMA AnsweringIsKept == Spec => []Answering
<1>1. Init => Answering
  BY DEF Init, Answering
<1>2. Answering /\ [Next]_vars => Answering'
  <2>1. CASE Select
    BY <2>1 DEF Answering, Select
  <2>2. CASE UNCHANGED vars
    BY <2>2 DEF Answering, vars
  <2> QED BY <2>1, <2>2 DEF Next
<1> QED BY <1>1, <1>2, PTL DEF Spec

\* The pairs offered are placed as FindBestPlacement places them.
LEMMA OfferedArePlaced ==
    ASSUME Answering, NEW p \in DOMAIN answer
    PROVE  /\ machine \in Machines
           /\ p \in Pairs
           /\ answer[p].placement = FindBestPlacement(p, machine)
           /\ answer[p].placement # Nowhere
<1>1. CASE answered
  <2>1. answer = SelectModels(machine)
    BY <1>1 DEF Answering
  <2>2. p \in Placed(machine) /\ answer[p].placement = FindBestPlacement(p, machine)
    BY <2>1 DEF SelectModels
  <2> QED BY <2>2 DEF Placed, Answering
<1>2. CASE ~answered
  <2>1. DOMAIN answer = {}
    BY <1>2 DEF Answering
  <2> QED BY <2>1
<1> QED BY <1>1, <1>2

\* Every pair SelectModels offers fits in the memory of the devices it is
\* placed on, on every machine and with every catalog.
THEOREM OffersAlwaysFit == Spec => []OffersFit
<1>1. Answering => OffersFit
  BY OfferedArePlaced, PlacementFacts DEF OffersFit
<1> QED BY <1>1, AnsweringIsKept, PTL

\* The large model is on the CPU only when the pair cannot fit with it on the
\* GPU.
THEOREM LargeModelsKeepGPU == Spec => []LargeKeepsGPU
<1>1. Answering => LargeKeepsGPU
  BY OfferedArePlaced, PlacementFacts DEF LargeKeepsGPU
<1> QED BY <1>1, AnsweringIsKept, PTL

\* The first offer is the best pair that fits in any way, and SelectModels
\* reports an error only when none does.
THEOREM BestOfferIsFirst == Spec => []BestIsFirst
<1>1. ASSUME Answering, answered, NEW p \in Pairs,
             \E placement \in Placements : Fits(p, placement, machine)
      PROVE  \E first \in DOMAIN answer :
                /\ answer[first].place = 0
                /\ \/ Score(first) > Score(p)
                   \/ /\ Score(first) = Score(p)
                      /\ LargeMemory(first) >= LargeMemory(p)
  <2>1. machine \in Machines /\ answer = SelectModels(machine)
    BY <1>1 DEF Answering
  <2>2. p \in Placed(machine)
    BY <1>1, <2>1, PlacementFacts DEF Placed
  <2>3. PICK first \in Placed(machine) :
           /\ Place(first, machine) = 0
           /\ p = first \/ Before(first, p)
    BY <2>2, FirstPair
  <2>4. first \in DOMAIN answer /\ answer[first].place = 0
    BY <2>1, <2>3 DEF SelectModels
  <2>5. first \in Pairs
    BY DEF Placed
  <2>6. \/ Score(first) > Score(p)
        \/ Score(first) = Score(p) /\ LargeMemory(first) >= LargeMemory(p)
    <3>1. /\ Score(first) \in Int /\ Score(p) \in Int
          /\ LargeMemory(first) \in Int /\ LargeMemory(p) \in Int
      BY <2>5, PairFacts
    <3> QED BY <2>3, <3>1 DEF Before
  <2> QED BY <2>4, <2>6
<1>2. Answering => BestIsFirst
  BY <1>1 DEF BestIsFirst
<1> QED BY <1>2, AnsweringIsKept, PTL

\* The offers are the five best of the pairs that fit in any way, the best
\* first, or all of them (SelectModels of selector.go).
THEOREM OffersAreAlwaysTheBest == Spec => []OffersAreTheBest
<1>1. ASSUME Answering, answered
      PROVE  OffersAreTheBest
  <2> DEFINE fitting ==
               {p \in Pairs : \E placement \in Placements : Fits(p, placement, machine)}
  <2>1. machine \in Machines /\ answer = SelectModels(machine)
    BY <1>1 DEF Answering
  <2>2. fitting = Placed(machine)
    BY <2>1, PlacementFacts DEF Placed
  <2>3. /\ DOMAIN answer = {p \in Placed(machine) : Place(p, machine) < 5}
        /\ \A p \in DOMAIN answer : answer[p].place = Place(p, machine)
    BY <2>1 DEF SelectModels
  <2>4. ASSUME NEW p \in DOMAIN answer, NEW q \in Placed(machine), Score(q) > Score(p)
        PROVE  q \in DOMAIN answer /\ answer[q].place < answer[p].place
    <3>1. p \in Placed(machine) /\ Place(p, machine) < 5
      BY <2>3
    <3>2. Before(q, p)
      BY <2>4 DEF Before
    <3>3. /\ Place(p, machine) \in Nat /\ Place(q, machine) \in Nat
          /\ Place(q, machine) < Place(p, machine)
      BY <3>1, <3>2, PlacesFollowTheOrder
    <3>4. q \in DOMAIN answer
      BY <2>3, <3>1, <3>3
    <3> QED BY <2>3, <3>3, <3>4
  <2>5. /\ Cardinality(DOMAIN answer) <= 5
        /\ Cardinality(DOMAIN answer) = 5 \/ DOMAIN answer = Placed(machine)
    BY <2>3, FirstFive
  <2>6. DOMAIN answer \subseteq Placed(machine)
    BY <2>3
  <2> QED BY <2>2, <2>4, <2>5, <2>6 DEF OffersAreTheBest
<1>2. Answering => OffersAreTheBest
  BY <1>1 DEF OffersAreTheBest
<1> QED BY <1>2, AnsweringIsKept, PTL

=============================================================================
