------------------------------ MODULE Selector ------------------------------
(***************************************************************************)
(* internal/platform/selector.go: which (large, small) pairs of models of  *)
(* the catalog are offered for a machine, and where each model is placed.  *)
(*                                                                         *)
(* Memory is counted in halves of a gigabyte, the unit of the catalog.  A  *)
(* pair is a pair of indices into the catalog.  The slice SelectModels     *)
(* returns is the function from the pairs in it to their placements and    *)
(* their places; it is empty when the code returns an error.               *)
(***************************************************************************)
EXTENDS Integers, Sequences, FiniteSets, FiniteSetsExt

CONSTANTS
    Catalog,        \* the models of catalog_embed.yaml
    Machines        \* the machines DetectHardware may describe

Model == [memory : Nat \ {0}, quality : Int, role : {"large", "small", "both"}]

ASSUME CatalogAssumption == Catalog \in Seq(Model)

GPUInfo == [type : {"apple", "nvidia", "amd"}, vram : Nat]

Machine == [ram : Nat, gpus : Seq(GPUInfo)]

ASSUME MachinesAssumption ==
    /\ Machines \subseteq Machine
    /\ \A machine \in Machines : \A i \in DOMAIN machine.gpus :
          machine.gpus[i].type = "apple" =>
             Len(machine.gpus) = 1 /\ machine.gpus[i].vram = machine.ram

VARIABLES
    machine,        \* the machine asked about
    answered,       \* SelectModels has returned
    answer          \* what it returned

vars == <<machine, answered, answer>>

-----------------------------------------------------------------------------
\* A mutant of GPUMemory: the first GPU instead of the best.
FirstGPUMemory(m) == IF m.gpus = << >> THEN 0 ELSE m.gpus[1].vram

\* BestGPU: only the largest GPU counts.
GPUMemory(m) ==
    IF m.gpus = << >> THEN 0 ELSE Max({m.gpus[i].vram : i \in DOMAIN m.gpus})

\* A mutant of IsUnified: Apple's memory is taken for a GPU's own.
NeverUnified(m) == FALSE

IsUnified(m) == Len(m.gpus) = 1 /\ m.gpus[1].type = "apple"

Large == {i \in DOMAIN Catalog : Catalog[i].role \in {"large", "both"}}

Small == {i \in DOMAIN Catalog : Catalog[i].role \in {"small", "both"}}

\* No model is paired with itself (docs/plans/2026-01-28-flexible-model-
\* selection-design.md:341 has such a pair); validate keeps names unique.
Pairs == {p \in Large \X Small : p[1] # p[2]}

LargeMemory(p) == Catalog[p[1]].memory

SmallMemory(p) == Catalog[p[2]].memory

Score(p) == Catalog[p[1]].quality + Catalog[p[2]].quality

On(large, small) == [large |-> large, small |-> small]

Nowhere == On("none", "none")

\* One pool holds both models, and both are said to be on the GPU.
UnifiedPlacement(large, small, ram) ==
    IF large + small <= ram THEN On("gpu", "gpu") ELSE Nowhere

\* A mutant of DiscretePlacement: the CPU must have room for the large model
\* of a split as well.
SplitNeedsRAMForBoth(large, small, gpu, ram) ==
    IF large + small <= gpu THEN On("gpu", "gpu")
    ELSE IF large <= gpu /\ large + small <= ram THEN On("gpu", "cpu")
    ELSE IF small <= gpu /\ large <= ram THEN On("cpu", "gpu")
    ELSE IF large + small <= ram THEN On("cpu", "cpu")
    ELSE Nowhere

\* The four strategies in the order they are tried.  No model is empty, so
\* none fits a GPU without memory.
DiscretePlacement(large, small, gpu, ram) ==
    IF large + small <= gpu THEN On("gpu", "gpu")
    ELSE IF large <= gpu /\ small <= ram THEN On("gpu", "cpu")
    ELSE IF small <= gpu /\ large <= ram THEN On("cpu", "gpu")
    ELSE IF large + small <= ram THEN On("cpu", "cpu")
    ELSE Nowhere

FindBestPlacement(p, m) ==
    IF IsUnified(m)
    THEN UnifiedPlacement(LargeMemory(p), SmallMemory(p), m.ram)
    ELSE DiscretePlacement(LargeMemory(p), SmallMemory(p), GPUMemory(m), m.ram)

\* The order of the loops, which the stable sort keeps between equals.
BeforeInCatalog(p, q) == p[1] < q[1] \/ (p[1] = q[1] /\ p[2] < q[2])

\* Score descending, then the memory of the large model descending.
Before(p, q) ==
    \/ Score(p) > Score(q)
    \/ /\ Score(p) = Score(q)
       /\ \/ LargeMemory(p) > LargeMemory(q)
          \/ (LargeMemory(p) = LargeMemory(q) /\ BeforeInCatalog(p, q))

\* A mutant of Placed: the inner loop stops at the first pair that fits.
OnePerLarge(m) ==
    {p \in Pairs :
        /\ FindBestPlacement(p, m) # Nowhere
        /\ \A q \in Pairs :
              q[1] = p[1] /\ q[2] < p[2] => FindBestPlacement(q, m) = Nowhere}

Placed(m) == {p \in Pairs : FindBestPlacement(p, m) # Nowhere}

\* The place of a pair among those that are placed, counted from 0.
Place(p, m) == Cardinality({q \in Placed(m) : Before(q, p)})

SelectModels(m) ==
    [p \in {q \in Placed(m) : Place(q, m) < 5} |->
        [placement |-> FindBestPlacement(p, m), place |-> Place(p, m)]]

-----------------------------------------------------------------------------
Init ==
    /\ machine \in Machines
    /\ answered = FALSE
    /\ answer = << >>

Select ==
    /\ ~answered
    /\ answered' = TRUE
    /\ answer' = SelectModels(machine)
    /\ UNCHANGED machine

Next == Select

Spec == Init /\ [][Next]_vars

-----------------------------------------------------------------------------
\* What the models of a pair take of a device.
Load(p, placement, device) ==
    (IF placement.large = device THEN LargeMemory(p) ELSE 0)
        + (IF placement.small = device THEN SmallMemory(p) ELSE 0)

\* A machine holds both models at once where they are placed: those on the GPU
\* together on one GPU, those on the CPU in the memory that is not the GPU's.
Fits(p, placement, m) ==
    IF \E i \in DOMAIN m.gpus : m.gpus[i].type = "apple"
    THEN Load(p, placement, "gpu") + Load(p, placement, "cpu") <= m.ram
    ELSE /\ Load(p, placement, "cpu") <= m.ram
         /\ \/ Load(p, placement, "gpu") = 0
            \/ \E i \in DOMAIN m.gpus : Load(p, placement, "gpu") <= m.gpus[i].vram

Placements == {On(large, small) : large, small \in {"gpu", "cpu"}}

\* No pair is offered that overfills the machine: the models of every offered
\* pair fit where they are placed, both loaded at the same time.
OffersFit ==
    \A p \in DOMAIN answer :
        /\ answer[p].placement \in Placements
        /\ Fits(p, answer[p].placement, machine)

\* internal/platform/selector.go:111: "large model benefits most from GPU".  It
\* is left on the CPU only when there is no way to fit the pair with it on the
\* GPU.  The two plans of 2026-01-28 try the splits in the other order
\* (design:136, implementation:2022): there the small model is preferred.
LargeKeepsGPU ==
    \A p \in DOMAIN answer :
        answer[p].placement.large = "cpu" =>
            \A placement \in Placements :
                Fits(p, placement, machine) => placement.large = "cpu"

\* The first offer is the best of all pairs that fit in any way: none has a
\* higher score, nor the same score and a bigger large model.  An error means
\* that no pair of two models fits in any way.  The design of 2026-01-28 names
\* another pair for 24 GB of unified memory, one of the same score (design:320).
BestIsFirst ==
    answered =>
        \A p \in Pairs :
            (\E placement \in Placements : Fits(p, placement, machine)) =>
                \E first \in DOMAIN answer :
                    /\ answer[first].place = 0
                    /\ \/ Score(first) > Score(p)
                       \/ /\ Score(first) = Score(p)
                          /\ LargeMemory(first) >= LargeMemory(p)

\* internal/platform/selector.go: "Return top configs (max 5)".  The offers are
\* the five best pairs, or all that fit: none is left out, or comes later, that
\* has a higher score than an offer.  The design of 2026-01-28 has fewer, the top
\* configuration and "2-3 ranked alternatives" (design:132 and :326).
OffersAreTheBest ==
    answered =>
        LET fitting ==
                {p \in Pairs : \E placement \in Placements : Fits(p, placement, machine)}
        IN  /\ DOMAIN answer \subseteq fitting
            /\ Cardinality(DOMAIN answer) <= 5
            /\ Cardinality(DOMAIN answer) = 5 \/ DOMAIN answer = fitting
            /\ \A p \in DOMAIN answer : \A q \in fitting :
                  Score(q) > Score(p) =>
                     q \in DOMAIN answer /\ answer[q].place < answer[p].place

=============================================================================
