---------------------------- MODULE ConfigProofs ----------------------------
(***************************************************************************)
(* Proofs about Config, for every set of clients and of bodies.            *)
(***************************************************************************)
EXTENDS Config, TLAPS

\* The defaults are a configuration that passes Validate.
LEMMA DefaultIsValid ==
    DefaultServerConfig \in ServerConfig /\ Validate(DefaultServerConfig)
BY DEF DefaultServerConfig, ServerConfig, Fields, Texts, ByPresence, Counts,
       Validate, Devices

\* A body has numbers for some of the fields.
LEMMA PatchFacts ==
    ASSUME NEW patch \in Patches
    PROVE  /\ DOMAIN patch \subseteq Fields
           /\ \A f \in DOMAIN patch : patch[f] \in Int
           /\ Decoded(patch) \in ServerConfig
           /\ \A f \in Fields \ DOMAIN patch : Decoded(patch)[f] = 0
<1>1. PICK named \in SUBSET Fields : patch \in [named -> Int]
  BY PatchesAssumption
<1> QED BY <1>1 DEF Decoded, ServerConfig

\* Merging a body gives a configuration, and leaves alone what it does not name.
LEMMA MergeFacts ==
    ASSUME NEW cfg \in ServerConfig, NEW patch \in Patches
    PROVE  /\ MergeJSON(cfg, patch) \in ServerConfig
           /\ \A f \in Fields \ DOMAIN patch : MergeJSON(cfg, patch)[f] = cfg[f]
<1> DEFINE updates == Decoded(patch)
           merged == MergeJSON(cfg, patch)
<1>1. /\ \A f \in Fields : updates[f] \in Int
      /\ \A f \in Fields \ DOMAIN patch : updates[f] = 0
      /\ \A f \in DOMAIN patch : patch[f] \in Int
  BY PatchFacts DEF ServerConfig
<1>2. \A f \in Fields : Merge(cfg, updates)[f] \in {updates[f], cfg[f]}
  BY DEF Merge
<1>3. \A f \in Fields \ DOMAIN patch : Merge(cfg, updates)[f] = cfg[f]
  <2> HIDE DEF updates
  <2> QED BY <1>1 DEF Merge
<1>4. \A f \in Fields : cfg[f] \in Int
  BY DEF ServerConfig
<1>5. \A f \in Fields : merged[f] = IF f \in ByPresence /\ f \in DOMAIN patch
                                    THEN patch[f]
                                    ELSE Merge(cfg, updates)[f]
  BY DEF MergeJSON
<1>6. merged = [f \in Fields |-> merged[f]]
  BY DEF MergeJSON
<1>7. \A f \in Fields : merged[f] \in Int
  <2> HIDE DEF merged, updates
  <2> QED BY <1>1, <1>2, <1>4, <1>5
<1> HIDE DEF merged
<1>8. merged \in ServerConfig
  BY <1>6, <1>7 DEF ServerConfig
<1>9. \A f \in Fields \ DOMAIN patch : merged[f] = cfg[f]
  BY <1>3, <1>5
<1> QED BY <1>8, <1>9 DEF merged

\* A table that holds a whole configuration is read as it is.
LEMMA GetWhole ==
    ASSUME config \in ServerConfig
    PROVE  Get = config
BY DEF Get, Applied, ServerConfig

\* What a request reads of a table that is empty or whole.
LEMMA GetFacts ==
    ASSUME config = << >> \/ config \in ServerConfig
    PROVE  Get \in ServerConfig
<1>1. CASE config = << >>
  <2>1. DOMAIN config = {}
    BY <1>1
  <2>2. \A f \in Fields : DefaultServerConfig[f] \in Int
    BY DefaultIsValid DEF ServerConfig
  <2> QED BY <2>1, <2>2 DEF Get, Applied, ServerConfig
<1>2. CASE config \in ServerConfig
  BY <1>2, GetWhole
<1> QED BY <1>1, <1>2

\* Whatever requests race, the stored configuration passes Validate, and so
\* does the one any request has read (handleUpdateConfig).
THEOREM ConfigStaysValid == Spec => []StoredIsValid
<1>1. Init => StoredIsValid
  <2> SUFFICES ASSUME Init PROVE StoredIsValid
    OBVIOUS
  <2>1. config = << >> /\ DOMAIN config = {}
    BY DEF Init
  <2>2. Get = DefaultServerConfig
    <3>1. DefaultServerConfig = [f \in Fields |-> DefaultServerConfig[f]]
      BY DefaultIsValid DEF ServerConfig
    <3> QED BY <2>1, <3>1 DEF Get, Applied
  <2> QED BY <2>1, <2>2, DefaultIsValid DEF Init, StoredIsValid
<1>2. StoredIsValid /\ [Next]_vars => StoredIsValid'
  <2> SUFFICES ASSUME StoredIsValid, [Next]_vars PROVE StoredIsValid'
    OBVIOUS
  <2>0. Get \in ServerConfig /\ Validate(Get)
    BY GetFacts DEF StoredIsValid
  <2>1. CASE UNCHANGED vars
    BY <2>1 DEF StoredIsValid, vars, Get, Applied
  <2>2. ASSUME NEW c \in Clients, NEW patch \in Patches, LoadConfig(c, patch)
        PROVE  StoredIsValid'
    <3>1. [patch |-> patch, read |-> Get] \in Request
      BY <2>0 DEF Request
    <3>2. req' \in [Clients -> Request \cup {Idle}]
      BY <2>2, <3>1 DEF LoadConfig, StoredIsValid
    <3>3. UNCHANGED config /\ Get' = Get
      BY <2>2 DEF LoadConfig, Get, Applied
    <3> QED BY <2>0, <3>2, <3>3 DEF StoredIsValid
  <2>3. ASSUME NEW c \in Clients, SaveConfig(c)
        PROVE  StoredIsValid'
    <3>1. req[c] \in Request /\ req' \in [Clients -> Request \cup {Idle}]
      BY <2>3 DEF SaveConfig, Answer, Busy, StoredIsValid
    <3>2. config' \in ServerConfig /\ Validate(config')
      BY <2>3, <3>1, MergeFacts DEF SaveConfig, Merged, Request
    <3>3. Get' = config'
      BY <3>2 DEF Get, Applied, ServerConfig
    <3> QED BY <3>1, <3>2, <3>3 DEF StoredIsValid
  <2>4. ASSUME NEW c \in Clients, AnswerError(c)
        PROVE  StoredIsValid'
    <3>1. req' \in [Clients -> Request \cup {Idle}]
      BY <2>4 DEF AnswerError, Answer, StoredIsValid
    <3>2. UNCHANGED config /\ Get' = Get
      BY <2>4 DEF AnswerError, Get, Applied
    <3> QED BY <2>0, <3>1, <3>2 DEF StoredIsValid
  <2> QED BY <2>1, <2>2, <2>3, <2>4 DEF Next
<1> QED BY <1>1, <1>2, PTL DEF Spec

\* A PATCH loses another request's change only when the two overlap, and then
\* by restoring what it read (handleUpdateConfig saves every field).
THEOREM RevertsNeedOverlap == Spec => OnlyOverlapReverts
<1> DEFINE Goal == \A c \in Clients : Busy(c) /\ ~Busy(c)' =>
                      \A f \in Fields \ DOMAIN req[c].patch :
                         Get'[f] # Get[f] => /\ Get'[f] = req[c].read[f]
                                             /\ req[c].read # Get
<1>1. StoredIsValid /\ [Next]_vars => [Goal]_vars
  <2> SUFFICES ASSUME StoredIsValid, Next,
                      NEW c \in Clients, Busy(c), ~Busy(c)',
                      NEW f \in Fields \ DOMAIN req[c].patch,
                      Get'[f] # Get[f]
               PROVE  Get'[f] = req[c].read[f] /\ req[c].read # Get
    OBVIOUS
  <2>1. req[c] \in Request
    BY DEF StoredIsValid, Busy
  <2>2. ASSUME NEW d \in Clients, NEW patch \in Patches, LoadConfig(d, patch)
        PROVE  FALSE
    BY <2>2 DEF LoadConfig, Get, Applied
  <2>3. ASSUME NEW d \in Clients, AnswerError(d)
        PROVE  FALSE
    BY <2>3 DEF AnswerError, Get, Applied
  <2>4. PICK d \in Clients : SaveConfig(d)
    BY <2>2, <2>3 DEF Next
  <2>5. c = d
    BY <2>4 DEF SaveConfig, Answer, Busy, StoredIsValid
  <2>6. config' = MergeJSON(req[c].read, req[c].patch)
    BY <2>4, <2>5 DEF SaveConfig, Merged
  <2>7. config' \in ServerConfig /\ config'[f] = req[c].read[f]
    BY <2>1, <2>6, MergeFacts DEF Request
  <2>8. Get' = config'
    BY <2>7 DEF Get, Applied, ServerConfig
  <2> QED BY <2>7, <2>8
<1> QED BY <1>1, ConfigStaysValid, PTL DEF Spec, OnlyOverlapReverts

=============================================================================
