\* The embedded catalog on machines around the sizes of its pairs.
SPECIFICATION Spec
CONSTANTS
    Catalog <- EmbeddedCatalog
    Machines <- SampleMachines
CHECK_DEADLOCK FALSE
INVARIANTS
    OffersFit
    LargeKeepsGPU
    BestIsFirst
    OffersAreTheBest
