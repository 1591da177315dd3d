------------------------------- MODULE Config -------------------------------
(***************************************************************************)
(* What a config.toml means (internal/config/config.go).  A document is a  *)
(* function from the keys it defines to their values, so that an absent    *)
(* key is told from one set to its zero.  Sizes are in MiB, probe_bytes in *)
(* MiB, probe_threshold in milliseconds, probe_timeout in seconds.         *)
(***************************************************************************)
EXTENDS Integers, SequencesExt

DefaultTierOrder == <<"resume", "next-up", "recently-added">>

AllTiers == Append(DefaultTierOrder, "binge-ahead")

\* The tiers of a set, in the order of AllTiers.
inOrder(on) ==
    LET one(t) == IF t \in on THEN <<t>> ELSE <<>>
    IN  one("resume") \o one("next-up") \o one("recently-added") \o one("binge-ahead")

\* Mutant: binge-ahead takes part in the choice between the two readings.
deriveLegacyOrder_narrowedByBinge(stated) ==
    LET allowed == {t \in DOMAIN stated : stated[t]}
    IN  inOrder(IF allowed # {} THEN allowed ELSE ToSet(DefaultTierOrder) \ DOMAIN stated)

\* The order meant by `enabled` flags: a stated true makes an allow-list of the
\* original tiers, else the stated falses are a deny-list; binge-ahead is only
\* ever appended.
deriveLegacyOrder(stated) ==
    LET original == DOMAIN stated \cap ToSet(DefaultTierOrder)
        allowed  == {t \in original : stated[t]}
        binge    == {t \in DOMAIN stated \cap {"binge-ahead"} : stated[t]}
    IN  inOrder((IF allowed # {} THEN allowed ELSE ToSet(DefaultTierOrder) \ original) \cup binge)

\* [tiers] order as written, also when it is empty; else what the flags mean.
globalOrder(cfg) == IF cfg.OrderDefined THEN cfg.Order ELSE deriveLegacyOrder(cfg.Stated)

-----------------------------------------------------------------------------
\* The dials and names of the zero Config, before decoding.
Zero ==
    [Type |-> "", URL |-> "", Enabled |-> <<>>, Libraries |-> <<>>,
     Order |-> <<>>, Override |-> <<>>,
     RAMPercent |-> 0, TargetSeconds |-> 0, MinHeadMB |-> 0, MaxHeadMB |-> 0, TailMB |-> 0,
     SweepSeconds |-> 0, SessionPollSeconds |-> 0,
     ProbeBytes |-> 0, ProbeThreshold |-> 0, ProbeTimeout |-> 0]

\* Stated: the legacy flags a document defines; APIKey: a server.api_key.
Keys == DOMAIN Zero \cup {"Stated", "APIKey"}

decode(doc) == [k \in DOMAIN Zero |-> IF k \in DOMAIN doc THEN doc[k] ELSE Zero[k]]

\* UnmarshalTOML: an order with a name that is no tier's is a decoding error.
OrdersDecode(c) ==
    /\ ToSet(c.Order) \subseteq ToSet(AllTiers)
    /\ \A u \in DOMAIN c.Override : ToSet(c.Override[u]) \subseteq ToSet(AllTiers)

orDefault(n, default) == IF n = 0 THEN default ELSE n

\* Mutant: a zero min_head_mb is taken to mean no floor.
applyDefaults_zeroFloor(c, order) ==
    [c EXCEPT !.RAMPercent     = orDefault(@, 50),
              !.TargetSeconds  = orDefault(@, 20),
              !.MaxHeadMB      = orDefault(@, 250),
              !.TailMB         = orDefault(@, 16),
              !.SweepSeconds   = orDefault(@, 60), !.SessionPollSeconds = orDefault(@, 5),
              !.ProbeBytes     = orDefault(@, 1),
              !.ProbeThreshold = orDefault(@, 150), !.ProbeTimeout = orDefault(@, 30),
              !.Order          = order]

applyDefaults(c, order) ==
    [c EXCEPT !.RAMPercent     = orDefault(@, 50),
              !.TargetSeconds  = orDefault(@, 20),
              !.MinHeadMB      = orDefault(@, 8),
              !.MaxHeadMB      = orDefault(@, 250),
              !.TailMB         = orDefault(@, 16),
              !.SweepSeconds   = orDefault(@, 60), !.SessionPollSeconds = orDefault(@, 5),
              !.ProbeBytes     = orDefault(@, 1),
              !.ProbeThreshold = orDefault(@, 150), !.ProbeTimeout = orDefault(@, 30),
              !.Order          = order]

\* No tier twice.
validateTierOrder(order) == \A i, j \in DOMAIN order : order[i] = order[j] => i = j

Validate(c) ==
    /\ c.Type \in {"emby", "jellyfin"} /\ c.URL # ""
    /\ c.RAMPercent \in 1..100 /\ c.TargetSeconds >= 1
    /\ c.MinHeadMB >= 0 /\ c.MaxHeadMB >= 0 /\ c.TailMB >= 0
    /\ c.MaxHeadMB > 0 => c.MinHeadMB <= c.MaxHeadMB
    /\ c.SweepSeconds >= 1 /\ c.SessionPollSeconds >= 1
    /\ c.ProbeBytes > 0 /\ c.ProbeThreshold > 0
    /\ c.ProbeTimeout > 0 => c.ProbeTimeout >= 15
    /\ validateTierOrder(c.Order)
    /\ \A u \in DOMAIN c.Override : validateTierOrder(c.Override[u])

orderOf(doc) ==
    globalOrder([OrderDefined |-> "Order" \in DOMAIN doc,
                 Order  |-> decode(doc).Order,
                 Stated |-> IF "Stated" \in DOMAIN doc THEN doc["Stated"] ELSE <<>>])

resolve(doc) == applyDefaults(decode(doc), orderOf(doc))

Accepts(doc) ==
    /\ OrdersDecode(decode(doc))
    /\ "APIKey" \notin DOMAIN doc
    /\ \E c \in {resolve(doc)} : Validate(c)

Rejected == [Type |-> ""]

Load(doc) == IF Accepts(doc) THEN resolve(doc) ELSE Rejected

-----------------------------------------------------------------------------
MiB == 1048576

\* What the engine hands to the sizing of targets, from a config it loaded.
preCfg(c) ==
    [TargetSeconds |-> c.TargetSeconds, MinHeadBytes |-> c.MinHeadMB * MiB,
     MaxHeadBytes  |-> c.MaxHeadMB * MiB, TailBytes |-> c.TailMB * MiB]

\* What WarmPlan asks of its dials: DialsAssumption, and FrontReadAssumption for
\* a front read of one MiB.
SaneDials(dials) ==
    /\ dials.TargetSeconds \in Nat \ {0}
    /\ dials.MinHeadBytes \in Nat /\ dials.MaxHeadBytes \in Nat /\ dials.TailBytes \in Nat
    /\ dials.MinHeadBytes <= dials.MaxHeadBytes
    /\ MiB <= dials.MinHeadBytes
=============================================================================
