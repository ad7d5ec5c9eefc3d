----------------------------- MODULE MCSelector -----------------------------
(***************************************************************************)
(* The embedded catalog and machines around its boundaries, for TLC.       *)
(***************************************************************************)
EXTENDS Selector

EmbeddedCatalog ==
    << [memory |-> 84, quality |-> 10, role |-> "large"],
       [memory |-> 40, quality |-> 8, role |-> "large"],
       [memory |-> 20, quality |-> 6, role |-> "large"],
       [memory |-> 10, quality |-> 4, role |-> "both"],
       [memory |-> 3, quality |-> 2, role |-> "small"] >>

\* Half gigabytes: too little, the exact size of a pair and one less, common sizes.
RAMSizes == {4, 12, 13, 16, 22, 23, 30, 32, 49, 50, 94, 96, 128}

GPU(type, vram) == [type |-> type, vram |-> vram]

VRAMSizes == {8, 13, 16, 24, 48, 94, 160}

SampleMachines ==
    {[ram |-> ram, gpus |-> << >>] : ram \in RAMSizes}
    \cup {[ram |-> ram, gpus |-> <<GPU("apple", ram)>>] : ram \in RAMSizes}
    \cup {[ram |-> ram, gpus |-> <<GPU("nvidia", vram)>>] :
             ram \in RAMSizes, vram \in VRAMSizes}
    \cup {[ram |-> ram, gpus |-> <<GPU("nvidia", vram), GPU("amd", other)>>] :
             ram \in RAMSizes, vram, other \in {16, 48}}

=============================================================================
