------------------------------- MODULE Config -------------------------------
(***************************************************************************)
(* The server configuration: internal/models/config.go, the config table   *)
(* of internal/db/config.go and PATCH /api/config of internal/api/config.go. *)
(* A PATCH reads the table, merges its body into what it read and saves    *)
(* the whole result, with no lock around the three.                        *)
(*                                                                         *)
(* A field holds a number: the zero value of its Go type ("", false or 0)  *)
(* is 0, and the other texts of a string field are numbered from 1.  A     *)
(* body is a function from the fields it names.                            *)
(***************************************************************************)
EXTENDS Integers

CONSTANTS
    Clients,        \* the PATCH requests in flight at a time
    Patches,        \* the bodies they send
    MayFail         \* a body may be malformed, the database may refuse a Save

Texts == {"host", "large_name", "large_device", "small_name", "small_device",
          "workspace_dir"}

\* The fields MergeJSON looks for in the body.
ByPresence == {"is_remote", "large_memory", "small_memory"}

Counts == {"default_max_iterations", "concurrent_jobs", "job_retention_days",
           "max_claude_retries", "max_git_retries", "git_retry_backoff_ms"}

Fields == Texts \cup ByPresence \cup Counts

ServerConfig == [Fields -> Int]

\* "", "gpu", "cpu" and "auto"; any other text is numbered from 4.
Devices == 0 .. 3

ASSUME PatchesAssumption ==
    \A patch \in Patches : \E named \in SUBSET Fields : patch \in [named -> Int]

ASSUME MayFailAssumption == MayFail \in BOOLEAN

VARIABLES
    config,     \* the config table: empty, or a value for every field
    req         \* per client, the body of its request and the config it read

vars == <<config, req>>

-----------------------------------------------------------------------------
\* The placements are on the cpu and the gpu; memory is in gigabytes.
DefaultServerConfig ==
    [host |-> 1, is_remote |-> 0,
     large_name |-> 1, large_device |-> 2, large_memory |-> 42,
     small_name |-> 2, small_device |-> 1, small_memory |-> 5,
     default_max_iterations |-> 50, concurrent_jobs |-> 1,
     workspace_dir |-> 0, job_retention_days |-> 30,
     max_claude_retries |-> 3, max_git_retries |-> 3,
     git_retry_backoff_ms |-> 1000]

Validate(cfg) ==
    /\ cfg.host # 0
    /\ cfg.large_name # 0 /\ cfg.large_device \in Devices
    /\ cfg.small_name # 0 /\ cfg.small_device \in Devices
    /\ cfg.default_max_iterations > 0
    /\ cfg.concurrent_jobs > 0
    /\ cfg.job_retention_days >= 0

\* The struct json.Unmarshal fills: what the body does not name is zero.
Decoded(patch) == [f \in Fields |-> IF f \in DOMAIN patch THEN patch[f] ELSE 0]

Merge(cfg, updates) ==
    [f \in Fields |->
        IF updates[f] > 0 \/ (f \notin Counts /\ updates[f] # 0)
        THEN updates[f]
        ELSE cfg[f]]

\* A mutant of MergeJSON: is_remote counts as named when its object is.
MergeByObject(cfg, patch) ==
    [f \in Fields |->
        IF f = "is_remote" /\ {"host", "is_remote"} \cap DOMAIN patch # {}
        THEN Decoded(patch)[f]
        ELSE Merge(cfg, Decoded(patch))[f]]

\* Merge, and the zeros of the fields it looks for.
MergeJSON(cfg, patch) ==
    [f \in Fields |->
        IF f \in ByPresence /\ f \in DOMAIN patch
        THEN patch[f]
        ELSE Merge(cfg, Decoded(patch))[f]]

\* A stored row, which parses back to the value Save formatted, replaces what
\* the field held; a field without a row keeps it.
Applied(cfg, f) == IF f \in DOMAIN config THEN config[f] ELSE cfg[f]

\* The rows of the table over the defaults, read by one SELECT.
Get == [f \in Fields |-> Applied(DefaultServerConfig, f)]

-----------------------------------------------------------------------------
Idle == [patch |-> << >>]

Busy(c) == req[c] # Idle

Init ==
    /\ config = << >>
    /\ req = [c \in Clients |-> Idle]

Answer(c) == req' = [req EXCEPT ![c] = Idle]

\* The handler reads the config first, and the body of the request after it.
LoadConfig(c, patch) ==
    /\ ~Busy(c)
    /\ req' = [req EXCEPT ![c] = [patch |-> patch, read |-> Get]]
    /\ UNCHANGED config

Merged(c) == MergeJSON(req[c].read, req[c].patch)

\* A mutant of SaveConfig: what was merged is saved without Validate.
SaveUnvalidated(c) ==
    /\ Busy(c)
    /\ config' = Merged(c)
    /\ Answer(c)

\* One transaction writes a row per field, named in the body or not.
SaveConfig(c) ==
    /\ Busy(c)
    /\ Validate(Merged(c))
    /\ config' = Merged(c)
    /\ Answer(c)

AnswerError(c) ==
    /\ Busy(c)
    /\ MayFail \/ ~Validate(Merged(c))
    /\ Answer(c)
    /\ UNCHANGED config

Next ==
    \E c \in Clients :
        \/ \E patch \in Patches : LoadConfig(c, patch)
        \/ SaveConfig(c)
        \/ AnswerError(c)

Spec == Init /\ [][Next]_vars

-----------------------------------------------------------------------------
Request == {r \in [patch : Patches, read : ServerConfig] : Validate(r.read)}

\* The table is empty or complete, and what it holds over the defaults, like
\* what any request has read of it, passes Validate at all times, whatever
\* requests race and whichever of them are refused.
StoredIsValid ==
    /\ config = << >> \/ config \in ServerConfig
    /\ Validate(Get)
    /\ req \in [Clients -> Request \cup {Idle}]

\* A PATCH changes a field that its body does not name only by putting back
\* what it read, over a change another request saved in the meantime.
OnlyOverlapReverts ==
    [][\A c \in Clients : Busy(c) /\ ~Busy(c)' =>
          \A f \in Fields \ DOMAIN req[c].patch :
             Get'[f] # Get[f] => /\ Get'[f] = req[c].read[f]
                                 /\ req[c].read # Get]_vars

\* internal/models/config.go: MergeJSON applies a partial update "correctly
\* handling zero values (false, 0)": a body that is accepted is applied.
AcceptedIsApplied ==
    [][\A c \in Clients : SaveConfig(c) =>
          \A f \in DOMAIN req[c].patch : Get'[f] = req[c].patch[f]]_vars

=============================================================================
