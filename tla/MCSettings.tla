----------------------------- MODULE MCSettings -----------------------------
(***************************************************************************)
(* The shipped settings, those of an older page, a file edited by hand     *)
(* into zeros, repeated and unknown tiers, and one whose numbers are not   *)
(* numbers or contradict each other.  In config.toml at first: nothing,    *)
(* half a file, the shipped settings, an old file with the API key in it   *)
(* or one edited by hand.                                                  *)
(***************************************************************************)
EXTENDS SettingsProps

MCShipped ==
    [SERVER_TYPE |-> "emby", SERVER_URL |-> "u", RAM_PERCENT |-> 50, TARGET_SECONDS |-> 20,
     MIN_HEAD_MB |-> 8, MAX_HEAD_MB |-> 250, TAIL_MB |-> 1, CRON_INTERVAL |-> 15]

Older ==
    [SERVER_TYPE |-> "jellyfin", SERVER_URL |-> "u", USERS |-> <<"a">>, MIN_HEAD_MB |-> 16,
     TIER_ENABLED |-> [t \in {"recently-added"} |-> FALSE]]

ByHand ==
    [SERVER_TYPE |-> "emby", SERVER_URL |-> "u", MIN_HEAD_MB |-> 0, MAX_HEAD_MB |-> 0,
     TARGET_SECONDS |-> 0, CRON_INTERVAL |-> 0,
     TIER_ORDER |-> <<"recent", "music", "recent", "resume">>,
     TIER_ORDER_OF |-> [u \in {"a"} |-> <<"binge", "binge">>]]

Broken ==
    [SERVER_TYPE |-> "emby", SERVER_URL |-> "u", RAM_PERCENT |-> -1, TARGET_SECONDS |-> -1,
     MIN_HEAD_MB |-> 300, MAX_HEAD_MB |-> 250, CRON_INTERVAL |-> -1]

WithKey == [Type |-> "emby", URL |-> "u", APIKey |-> "k", MinHeadMB |-> 16]

Edited ==
    [Type |-> "jellyfin", URL |-> "u", TargetSeconds |-> 0, MinHeadMB |-> 0, MaxHeadMB |-> 9,
     TailMB |-> 0, Order |-> <<"resume">>, ProbeTimeout |-> -1]

MCLeft == {WithKey, Edited}

MCEditions == {MCShipped, Older, ByHand, Broken}
=============================================================================
