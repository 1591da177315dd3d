------------------------------ MODULE Settings ------------------------------
(***************************************************************************)
(* Saved settings on their way to the engine (scripts/rc.preloadd): render *)
(* turns the .cfg the page saves into config.toml and a cron entry, while  *)
(* cron starts sweeps and the operator projections that load whatever      *)
(* config.toml holds at that instant.  An edition of the .cfg is a         *)
(* function from the keys it has to their values; a negative number stands *)
(* for one that is not a run of digits.                                    *)
(***************************************************************************)
EXTENDS Config

CONSTANTS
    Editions,      \* what the page, an upgrade or a text editor may save
    Shipped,       \* default.cfg
    Left,          \* documents an editor or another release may have left in config.toml
    Renders,       \* rc.preloadd render processes
    MaxSaves,      \* bound: saves
    MaxReboots,    \* bound: power cuts
    MaxInFlight,   \* bound: projections computed at once
    Cuts           \* bound: after how many keys a half-written file is read

ASSUME EditionsAssumption ==
    \A e \in Editions \cup {Shipped} :
        /\ \A key \in {"RAM_PERCENT", "TARGET_SECONDS", "MIN_HEAD_MB", "MAX_HEAD_MB", "TAIL_MB"} :
              key \in DOMAIN e => e[key] \in Int
        /\ "TIER_ORDER" \in DOMAIN e => e["TIER_ORDER"] \in Seq(STRING)
        /\ "TIER_ORDER_OF" \in DOMAIN e =>
              \A u \in DOMAIN e["TIER_ORDER_OF"] : e["TIER_ORDER_OF"][u] \in Seq(STRING)

ASSUME LeftAssumption ==
    \A doc \in Left, key \in {"RAMPercent", "TargetSeconds", "MinHeadMB", "MaxHeadMB", "TailMB"} :
        key \in DOMAIN doc => doc[key] \in Int

VARIABLES
    cfgFile,      \* the .cfg
    config,       \* the document a reader finds in config.toml
    crontab,      \* minutes between sweeps, 0 for none
    estimate,     \* estimate.json
    projecting,   \* projections under way, by the config they loaded
    phase,        \* of each render
    src,          \* the edition each render has read
    clean,        \* history: the last render ran alone, and nothing failed
    torn,         \* history: a failed render has touched config.toml and dropped nothing
    swept,        \* history: what cron's last sweep since the last save ran with
    saves, reboots

vars == <<cfgFile, config, crontab, estimate, projecting, phase, src, clean, torn, swept,
          saves, reboots>>

bounds == <<saves, reboots>>

history == <<clean, torn, swept>>

Absent == <<>>                    \* no file, or an empty one

Garbled == [Type |-> "garbled"]   \* text toml.DecodeFile refuses

NoEstimate == [from |-> Absent, dropped |-> FALSE]

-----------------------------------------------------------------------------
cfg_get(cfg, key, default) == IF key \in DOMAIN cfg THEN cfg[key] ELSE default

num_or(n, default) == IF n < 0 THEN default ELSE n

\* Mutant: the interval is only checked for being digits.
num_min1_zero(n, default) == num_or(n, default)

num_min1(n, default) == IF n <= 0 THEN default ELSE n

number(cfg, key, default) == num_or(cfg_get(cfg, key, default), default)

\* The spellings of the .cfg, as the engine reads them.
ParseTierName ==
    [resume |-> "resume", nextup |-> "next-up", recent |-> "recently-added",
     binge |-> "binge-ahead"]

\* Mutant: a name that is no tier's is written too.
tier_csv_filter_junk(csv) ==
    FoldLeft(LAMBDA out, t : LET name == IF t \in DOMAIN ParseTierName THEN ParseTierName[t] ELSE t
                             IN  IF name \notin ToSet(out) THEN Append(out, name) ELSE out,
             <<>>, csv)

tier_csv_filter(csv) ==
    FoldLeft(LAMBDA out, t : IF t \in DOMAIN ParseTierName
                                /\ ParseTierName[t] \notin ToSet(out)
                             THEN Append(out, ParseTierName[t]) ELSE out, <<>>, csv)

\* The *_ENABLED flags, binge-ahead's off and the others' on by default.
flags(cfg) ==
    LET stated == cfg_get(cfg, "TIER_ENABLED", <<>>)
    IN  [t \in ToSet(AllTiers) |-> cfg_get(stated, t, t # "binge-ahead")]

\* Mutant: a tier that is not switched off by name is on.
legacy_order_from_flags_allOn(cfg) ==
    LET stated == cfg_get(cfg, "TIER_ENABLED", <<>>)
    IN  inOrder({t \in ToSet(AllTiers) : cfg_get(stated, t, TRUE)})

legacy_order_from_flags(cfg) == inOrder({t \in ToSet(AllTiers) : flags(cfg)[t]})

render_tier_overrides(cfg) ==
    LET own == cfg_get(cfg, "TIER_ORDER_OF", <<>>)
    IN  [u \in DOMAIN own |-> tier_csv_filter(own[u])]

rendered(cfg) ==
    [Type |-> cfg_get(cfg, "SERVER_TYPE", "emby"),
     URL  |-> cfg_get(cfg, "SERVER_URL", "http://localhost:8096"),
     Enabled   |-> cfg_get(cfg, "USERS", <<>>),
     Libraries |-> cfg_get(cfg, "LIBRARIES", <<>>),
     Order |-> IF "TIER_ORDER" \in DOMAIN cfg THEN tier_csv_filter(cfg["TIER_ORDER"])
               ELSE legacy_order_from_flags(cfg),
     Stated   |-> flags(cfg),
     Override |-> render_tier_overrides(cfg),
     RAMPercent    |-> number(cfg, "RAM_PERCENT", 50),
     TargetSeconds |-> number(cfg, "TARGET_SECONDS", 20),
     MinHeadMB |-> number(cfg, "MIN_HEAD_MB", 8), MaxHeadMB |-> number(cfg, "MAX_HEAD_MB", 250),
     TailMB    |-> number(cfg, "TAIL_MB", 1),
     SweepSeconds |-> 60, SessionPollSeconds |-> 5]

\* One document for every edition.
Rendered == [e \in Editions \cup {Shipped} |-> rendered(e)]

interval(cfg) == num_min1(cfg_get(cfg, "CRON_INTERVAL", 15), 15)

\* The keys as the file lists them.
Layout == <<"Type", "URL", "Enabled", "Libraries", "Order", "Stated", "Override",
            "RAMPercent", "TargetSeconds", "MinHeadMB", "MaxHeadMB", "TailMB",
            "SweepSeconds", "SessionPollSeconds">>

Numbers == {"RAMPercent", "TargetSeconds", "MinHeadMB", "MaxHeadMB", "TailMB",
            "SweepSeconds", "SessionPollSeconds"}

\* What is left of a value whose text is cut short and can still be read: the
\* leading digits of a number, the first of the [tiers.<tier>] tables.
Stumps(key, value) ==
    IF key \in Numbers THEN {value \div 10, value \div 100} \ {0}
    ELSE IF key = "Stated"
    THEN {[t \in {AllTiers[i] : i \in 1..n} |-> value[t]] : n \in 1..3}
    ELSE {}

\* The first n keys of a document, and the stump of the next.
Beginnings(doc) ==
    UNION {LET whole == {Layout[i] : i \in 1..n}
               last  == Layout[n + 1]
           IN  {[k \in whole |-> doc[k]]}
               \cup {[k \in whole \cup {last} |-> IF k = last THEN s ELSE doc[k]] :
                       s \in Stumps(last, doc[last])} :
           n \in Cuts \cap 0..(Len(Layout) - 1)}

\* Text written over the beginning of another.
Over(new, old) ==
    [k \in DOMAIN new \cup DOMAIN old |-> IF k \in DOMAIN new THEN new[k] ELSE old[k]]

-----------------------------------------------------------------------------
Idle == \A r \in Renders : phase[r] = "idle"

Starts(r) == phase' = [phase EXCEPT ![r] = "saved"] /\ clean' = Idle

\* A boot: config.toml is what the last run of the machine left there.
Init ==
    /\ cfgFile = Shipped /\ config \in {Absent, Garbled, Rendered[Shipped]} \cup Left
    /\ crontab = 0 /\ estimate = NoEstimate /\ projecting = {}
    /\ \E r \in Renders : phase = [q \in Renders |-> IF q = r THEN "saved" ELSE "idle"]
    /\ src = [r \in Renders |-> Absent]
    /\ clean = TRUE /\ torn = FALSE /\ swept = "other" /\ saves = 0 /\ reboots = 0

\* The page saves the .cfg and has rc.preloadd render it.
Save(r) ==
    /\ phase[r] = "idle" /\ saves < MaxSaves
    /\ saves' = saves + 1
    /\ \E e \in Editions : cfgFile' = e
    /\ Starts(r) /\ swept' = "other"
    /\ UNCHANGED <<config, crontab, estimate, projecting, src, torn, reboots>>

Proceed(r, from, to) == phase[r] = from /\ phase' = [phase EXCEPT ![r] = to]

Read(r) ==
    /\ Proceed(r, "saved", "read")
    /\ src' = [src EXCEPT ![r] = cfgFile]
    /\ UNCHANGED <<cfgFile, config, crontab, estimate, projecting, history, bounds>>

\* cat > config.toml, in three steps: the shell empties the file, ...
Truncate(r) ==
    /\ Proceed(r, "read", "truncated")
    /\ config' = Absent
    /\ UNCHANGED <<cfgFile, crontab, estimate, projecting, src, history, bounds>>

\* ... some of the text is there, over what another render has written since, ...
Pour(r) ==
    /\ Proceed(r, "truncated", "pouring")
    /\ config' \in {Over(b, config) : b \in Beginnings(Rendered[src[r]])} \cup {Garbled}
    /\ UNCHANGED <<cfgFile, crontab, estimate, projecting, src, history, bounds>>

\* ... and all of it.  The end of a longer text another render wrote stays.
Fill(r) ==
    /\ Proceed(r, "pouring", "filled")
    /\ config' \in {Rendered[src[r]]} \cup (IF clean THEN {} ELSE {Garbled})
    /\ UNCHANGED <<cfgFile, crontab, estimate, projecting, src, history, bounds>>

\* rm estimate.json.  History: the projections that are not in it yet.
Drop(r) ==
    /\ Proceed(r, "filled", "dropped")
    /\ estimate' = NoEstimate
    /\ projecting' = {[from |-> p.from, dropped |-> TRUE] : p \in projecting}
    /\ torn' = FALSE
    /\ UNCHANGED <<cfgFile, config, crontab, src, clean, swept, bounds>>

render_cron(r) ==
    /\ Proceed(r, "dropped", "idle")
    /\ crontab' = interval(src[r])
    /\ src' = [src EXCEPT ![r] = Absent]
    /\ UNCHANGED <<cfgFile, config, estimate, projecting, history, bounds>>

\* The flash drive is full or gone, or rm fails: set -e ends the script where it is.
RenderFails(r) ==
    /\ phase[r] # "idle"
    /\ phase' = [phase EXCEPT ![r] = "idle"] /\ clean' = FALSE
    /\ torn' = (torn \/ phase[r] \in {"truncated", "pouring", "filled"})
    /\ src' = [src EXCEPT ![r] = Absent]
    /\ UNCHANGED <<cfgFile, config, crontab, estimate, projecting, swept, bounds>>

-----------------------------------------------------------------------------
\* cron starts a sweep.  A config the engine refuses ends it before anything is
\* read; only the syslog knows.
SweepLoads ==
    /\ crontab > 0
    /\ swept' = IF ~Accepts(config) THEN "refused"
                ELSE IF config = Rendered[cfgFile] THEN "saved" ELSE "other"
    /\ UNCHANGED <<cfgFile, config, crontab, estimate, projecting, phase, src, clean, torn, bounds>>

EstimateLoads ==
    /\ Cardinality(projecting) < MaxInFlight
    /\ Accepts(config)
    /\ projecting' = projecting \cup {[from |-> Load(config), dropped |-> FALSE]}
    /\ UNCHANGED <<cfgFile, config, crontab, estimate, phase, src, history, bounds>>

\* A temp file renamed to estimate.json.
Publish(p) ==
    /\ estimate' = p /\ projecting' = projecting \ {p}
    /\ UNCHANGED <<cfgFile, config, crontab, phase, src, history, bounds>>

\* A request fails, /var is full, or the 120 s are over.
EstimateEnds(p) ==
    /\ projecting' = projecting \ {p}
    /\ UNCHANGED <<cfgFile, config, crontab, estimate, phase, src, history, bounds>>

\* Everything but the flash drive is lost, and the plugin installs itself again.
Reboot ==
    /\ reboots < MaxReboots /\ reboots' = reboots + 1
    /\ \E r \in Renders : phase' = [q \in Renders |-> IF q = r THEN "saved" ELSE "idle"]
    /\ crontab' = 0 /\ estimate' = NoEstimate /\ projecting' = {}
    /\ src' = [r \in Renders |-> Absent] /\ clean' = TRUE /\ torn' = FALSE
    /\ UNCHANGED <<cfgFile, config, swept, saves>>

\* Mutant: the projection is dropped before config.toml is rewritten.
Render_dropsFirst(r) ==
    \/ Read(r) \/ Pour(r) \/ Fill(r) \/ render_cron(r)
    \/ /\ Proceed(r, "read", "truncated")
       /\ config' = Absent /\ estimate' = NoEstimate
       /\ projecting' = {[from |-> p.from, dropped |-> TRUE] : p \in projecting}
       /\ UNCHANGED <<cfgFile, crontab, src, history, bounds>>
    \/ /\ Proceed(r, "filled", "dropped")
       /\ UNCHANGED <<cfgFile, config, crontab, estimate, projecting, src, history, bounds>>

Render(r) == Read(r) \/ Truncate(r) \/ Pour(r) \/ Fill(r) \/ Drop(r) \/ render_cron(r)

Next ==
    \/ \E r \in Renders : Save(r) \/ Render(r) \/ RenderFails(r)
    \/ SweepLoads \/ EstimateLoads
    \/ \E p \in projecting : Publish(p) \/ EstimateEnds(p)
    \/ Reboot

\* A script that is not stopped runs on, and cron keeps starting sweeps.
Fairness == (\A r \in Renders : WF_vars(Render(r))) /\ WF_vars(SweepLoads)

Spec == Init /\ [][Next]_vars /\ Fairness
=============================================================================
