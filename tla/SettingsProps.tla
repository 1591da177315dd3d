--------------------------- MODULE SettingsProps ---------------------------
(***************************************************************************)
(* What saved settings are promised on their way to a sweep.               *)
(***************************************************************************)
EXTENDS Settings

Whole == \E e \in Editions \cup {Shipped} : config = Rendered[e]

\* Since the last render that dropped the projection, none has touched
\* config.toml.
Quiet == ~torn /\ \A r \in Renders : phase[r] \notin {"truncated", "pouring", "filled"}

\* Whatever a process finds in config.toml, half written or edited by hand,
\* the sizes it works with are those the sizing of targets is written for.
LoadedDialsSane == Load(config) # Rejected => SaneDials(preCfg(Load(config)))

\* An order the renderer writes never keeps the engine from loading the file:
\* only the numbers, the type and the URL can (rc.preloadd:175-181).
OrdersAlwaysLoad ==
    Whole => Load(Over([Type |-> "emby", URL |-> "u"],
                       [k \in DOMAIN config \ Numbers |-> config[k]])) # Rejected

\* A .cfg from before TIER_ORDER keeps its meaning: the order render makes of
\* its flags is the one the engine would make of them (rc.preloadd:413-421).
UpgradeKeepsOrder ==
    \A r \in Renders :
        phase[r] = "filled" /\ config = Rendered[src[r]] /\ "TIER_ORDER" \notin DOMAIN src[r] =>
            config.Order = deriveLegacyOrder(config.Stated)

\* What the budget meter shows comes from the settings sweeps load, unless the
\* projection was already under way when a render dropped the old one.
StaleEstimateStraddles ==
    Quiet /\ estimate # NoEstimate =>
        estimate.from = Load(config) \/ estimate.dropped

\* "a projection computed under superseded settings is never shown"
\* (WatchAwarePreloader.page:189-190).
EstimateIsCurrent ==
    Quiet /\ estimate # NoEstimate => estimate.from = Load(config)

Refused == {e \in Editions \cup {Shipped} : ~Accepts(Rendered[e])}

\* Once a render has run alone and to its end, after any saves, failures and power
\* cuts, what was saved last decides every sweep for good: settings the engine
\* loads are those it sweeps with, and settings it refuses, a min_head_mb above
\* max_head_mb say, which render writes and exits 0 for, stop every sweep cron
\* starts (rc.preloadd:175-181); none goes on with older ones.
SavedSettingsDecide ==
    <>[]clean => <>[](swept = IF cfgFile \in Refused THEN "refused" ELSE "saved")
=============================================================================
