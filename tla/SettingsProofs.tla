--------------------------- MODULE SettingsProofs ---------------------------
(***************************************************************************)
(* Any text a process finds in config.toml gives it the sizes WarmPlan is  *)
(* written for, or is refused; a projection that does not belong to        *)
(* config.toml was under way when a render dropped the previous one; and   *)
(* the orders a render writes load, and are those old flags have meant.    *)
(***************************************************************************)
EXTENDS SettingsProps, Loops

DialKeys == {"RAMPercent", "TargetSeconds", "MinHeadMB", "MaxHeadMB", "TailMB"}

Numeric(doc) == \A k \in DialKeys : k \in DOMAIN doc => doc[k] \in Int

LEMMA DecodedDials ==
    ASSUME NEW doc, Numeric(doc)
    PROVE  \A k \in DialKeys : decode(doc)[k] \in Int
<1>1. ASSUME NEW k \in DialKeys
      PROVE  k \in DOMAIN Zero /\ Zero[k] = 0
  <2>1. Zero.RAMPercent = 0 /\ Zero.TargetSeconds = 0 /\ Zero.MinHeadMB = 0
        /\ Zero.MaxHeadMB = 0 /\ Zero.TailMB = 0
    BY DEF Zero
  <2>2. DialKeys \subseteq DOMAIN Zero
    BY DEF DialKeys, Zero
  <2>. QED
    BY <2>1, <2>2 DEF DialKeys
<1>. QED
  BY <1>1 DEF decode, Numeric

\* config.Load: what applyDefaults and Validate make of the dials, together.
LEMMA LoadedDials ==
    ASSUME NEW doc, Numeric(doc), Load(doc) # Rejected
    PROVE  SaneDials(preCfg(Load(doc)))
<1>. DEFINE raw == decode(doc)
            c == applyDefaults(raw, orderOf(doc))
<1>1. Load(doc) = c /\ Validate(c)
  BY DEF Load, Accepts, resolve
<1>2. /\ raw.TargetSeconds \in Int /\ raw.MinHeadMB \in Int
      /\ raw.MaxHeadMB \in Int /\ raw.TailMB \in Int
  BY DecodedDials DEF DialKeys
<1>3. /\ c.TargetSeconds = orDefault(raw.TargetSeconds, 20)
      /\ c.MinHeadMB = orDefault(raw.MinHeadMB, 8)
      /\ c.MaxHeadMB = orDefault(raw.MaxHeadMB, 250)
      /\ c.TailMB = orDefault(raw.TailMB, 16)
  BY DEF applyDefaults, decode, Zero
<1>4. /\ c.TargetSeconds >= 1 /\ c.MinHeadMB >= 0 /\ c.MaxHeadMB >= 0 /\ c.TailMB >= 0
      /\ c.MaxHeadMB > 0 => c.MinHeadMB <= c.MaxHeadMB
  BY <1>1 DEF Validate
<1>. HIDE DEF raw, c
<1>5. /\ c.TargetSeconds \in Nat \ {0} /\ c.TailMB \in Nat
      /\ c.MinHeadMB \in Nat \ {0} /\ c.MaxHeadMB \in Nat /\ c.MinHeadMB <= c.MaxHeadMB
  BY <1>2, <1>3, <1>4 DEF orDefault
<1>. QED
  BY <1>1, <1>5 DEF SaneDials, preCfg, MiB

-----------------------------------------------------------------------------
LEMMA RenderedNumeric ==
    ASSUME NEW e \in Editions \cup {Shipped}
    PROVE  Numeric(Rendered[e])
<1>1. Rendered[e] = rendered(e)
  BY DEF Rendered
<1>2. ASSUME NEW key \in {"RAM_PERCENT", "TARGET_SECONDS", "MIN_HEAD_MB", "MAX_HEAD_MB", "TAIL_MB"},
             NEW default \in Int
      PROVE  number(e, key, default) \in Int
  BY <1>2, EditionsAssumption DEF number, cfg_get, num_or
<1>3. /\ rendered(e).RAMPercent \in Int /\ rendered(e).TargetSeconds \in Int
      /\ rendered(e).MinHeadMB \in Int /\ rendered(e).MaxHeadMB \in Int
      /\ rendered(e).TailMB \in Int
  BY <1>2 DEF rendered
<1>. QED
  BY <1>1, <1>3 DEF Numeric, DialKeys

LEMMA BeginningsNumeric ==
    ASSUME NEW doc, Numeric(doc), DialKeys \subseteq DOMAIN doc, NEW b \in Beginnings(doc)
    PROVE  Numeric(b)
<1>1. PICK n \in Cuts \cap 0..(Len(Layout) - 1) :
        \/ b = [k \in {Layout[i] : i \in 1..n} |-> doc[k]]
        \/ \E s \in Stumps(Layout[n + 1], doc[Layout[n + 1]]) :
              b = [k \in {Layout[i] : i \in 1..n} \cup {Layout[n + 1]} |->
                     IF k = Layout[n + 1] THEN s ELSE doc[k]]
  <2>. DEFINE keys(n)  == {Layout[i] : i \in 1..n}
              after(n) == {[k \in keys(n) \cup {Layout[n + 1]} |->
                              IF k = Layout[n + 1] THEN s ELSE doc[k]] :
                              s \in Stumps(Layout[n + 1], doc[Layout[n + 1]])}
              from(n)  == {[k \in keys(n) |-> doc[k]]} \cup after(n)
  <2>1. Beginnings(doc) = UNION {from(n) : n \in Cuts \cap 0..(Len(Layout) - 1)}
    BY DEF Beginnings
  <2>2. PICK n \in Cuts \cap 0..(Len(Layout) - 1) : b \in from(n)
    <3>. HIDE DEF from
    <3>. QED
      BY <2>1
  <2>. QED
    BY <2>2
<1>2. CASE b = [k \in {Layout[i] : i \in 1..n} |-> doc[k]]
  BY <1>2 DEF Numeric
<1>3. CASE \E s \in Stumps(Layout[n + 1], doc[Layout[n + 1]]) :
              b = [k \in {Layout[i] : i \in 1..n} \cup {Layout[n + 1]} |->
                     IF k = Layout[n + 1] THEN s ELSE doc[k]]
  <2>. DEFINE last == Layout[n + 1]
  <2>1. PICK s \in Stumps(last, doc[last]) :
          b = [k \in {Layout[i] : i \in 1..n} \cup {last} |-> IF k = last THEN s ELSE doc[k]]
    BY <1>3
  <2>2. ASSUME last \in DialKeys PROVE s \in Int
    <3>1. last \in Numbers /\ doc[last] \in Int
      BY <2>2 DEF Numbers, DialKeys, Numeric
    <3>. HIDE DEF last
    <3>. QED
      BY <2>1, <3>1 DEF Stumps
  <2>. HIDE DEF last
  <2>. QED
    BY <2>1, <2>2 DEF Numeric
<1>. QED
  BY <1>1, <1>2, <1>3

LEMMA OverNumeric ==
    ASSUME NEW f, NEW g, Numeric(f), Numeric(g)
    PROVE  Numeric(Over(f, g))
  BY DEF Numeric, Over

-----------------------------------------------------------------------------
\* Dials are numbers wherever a reader looks, and a render that writes has
\* read an edition.
SettingsInv ==
    /\ Numeric(config)
    /\ phase \in [Renders -> {"idle", "saved", "read", "truncated", "pouring",
                              "filled", "dropped"}]
    /\ src \in [Renders -> Editions \cup {Shipped, Absent}]
    /\ cfgFile \in Editions \cup {Shipped}
    /\ \A r \in Renders :
          phase[r] \in {"read", "truncated", "pouring", "filled"} =>
              src[r] \in Editions \cup {Shipped}

LEMMA RenderedDials ==
    ASSUME NEW e \in Editions \cup {Shipped}
    PROVE  DialKeys \subseteq DOMAIN Rendered[e]
  BY DEF Rendered, rendered, DialKeys

LEMMA SettingsInit == Init => SettingsInv
<1>. SUFFICES ASSUME Init PROVE SettingsInv
  OBVIOUS
<1>1. Numeric(Absent) /\ Numeric(Garbled)
  BY DEF Numeric, Absent, Garbled, DialKeys
<1>2. \A doc \in Left : Numeric(doc)
  BY LeftAssumption DEF Numeric, DialKeys
<1>3. Numeric(config)
  BY <1>1, <1>2, RenderedNumeric DEF Init
<1>. QED
  BY <1>3 DEF Init, SettingsInv

LEMMA SettingsStep == SettingsInv /\ [Next]_vars => SettingsInv'
<1>. SUFFICES ASSUME SettingsInv, [Next]_vars PROVE SettingsInv'
  OBVIOUS
<1>. USE DEF SettingsInv
<1>1. Numeric(Absent) /\ Numeric(Garbled)
  BY DEF Numeric, Absent, Garbled, DialKeys
<1>2. ASSUME NEW r \in Renders, Save(r) PROVE SettingsInv'
  BY <1>2 DEF Save, Starts
<1>3. ASSUME NEW r \in Renders, Read(r) PROVE SettingsInv'
  BY <1>3 DEF Read, Proceed
<1>4. ASSUME NEW r \in Renders, Truncate(r) PROVE SettingsInv'
  BY <1>1, <1>4 DEF Truncate, Proceed
<1>5. ASSUME NEW r \in Renders, Pour(r) PROVE SettingsInv'
  <2>1. Numeric(config')
    <3>1. src[r] \in Editions \cup {Shipped}
      BY <1>5 DEF Pour, Proceed
    <3>2. ASSUME NEW b \in Beginnings(Rendered[src[r]]) PROVE Numeric(Over(b, config))
      BY <3>1, RenderedNumeric, RenderedDials, BeginningsNumeric, OverNumeric
    <3>. QED
      BY <1>1, <1>5, <3>2 DEF Pour
  <2>. QED
    BY <2>1, <1>5 DEF Pour, Proceed
<1>6. ASSUME NEW r \in Renders, Fill(r) PROVE SettingsInv'
  <2>1. Numeric(config')
    BY <1>1, <1>6, RenderedNumeric DEF Fill, Proceed
  <2>. QED
    BY <2>1, <1>6 DEF Fill, Proceed
<1>7. ASSUME NEW r \in Renders, Drop(r) PROVE SettingsInv'
  BY <1>7 DEF Drop, Proceed
<1>8. ASSUME NEW r \in Renders, render_cron(r) PROVE SettingsInv'
  BY <1>8 DEF render_cron, Proceed
<1>9. ASSUME NEW r \in Renders, RenderFails(r) PROVE SettingsInv'
  BY <1>9 DEF RenderFails
<1>10. CASE SweepLoads \/ EstimateLoads \/ (\E p \in projecting : Publish(p) \/ EstimateEnds(p))
  BY <1>10 DEF SweepLoads, EstimateLoads, Publish, EstimateEnds, history
<1>11. CASE Reboot
  BY <1>11 DEF Reboot
<1>12. CASE UNCHANGED vars
  BY <1>12 DEF vars, history, bounds
<1>. QED
  BY <1>2, <1>3, <1>4, <1>5, <1>6, <1>7, <1>8, <1>9, <1>10, <1>11, <1>12 DEF Next, Render

\* The settings invariant: see SettingsInv.
THEOREM SettingsInvariant == Spec => []SettingsInv
  BY SettingsInit, SettingsStep, PTL DEF Spec

\* Half written, spliced or edited by hand: whatever config.toml holds when a
\* process loads it, WarmPlan's assumptions on its dials hold.
THEOREM DialsAreSane == Spec => []LoadedDialsSane
<1>1. SettingsInv => LoadedDialsSane
  BY LoadedDials DEF SettingsInv, LoadedDialsSane
<1>. QED
  BY <1>1, SettingsInvariant, PTL

-----------------------------------------------------------------------------
\* The estimates a reader may meet, now or once they are published.
ProjectionInv ==
    Quiet => \A p \in projecting \cup {estimate} :
                 p = NoEstimate \/ p.dropped \/ p.from = Load(config)

LEMMA ProjectionStep == SettingsInv /\ ProjectionInv /\ [Next]_vars => ProjectionInv'
<1>. SUFFICES ASSUME SettingsInv, ProjectionInv, [Next]_vars, Quiet'
              PROVE  \A p \in projecting' \cup {estimate'} :
                        p = NoEstimate \/ p.dropped \/ p.from = Load(config')
  BY DEF ProjectionInv
<1>. DEFINE Fits(p) == p = NoEstimate \/ p.dropped \/ p.from = Load(config)
            Same == UNCHANGED <<config, projecting, estimate>>
<1>0. phase \in [Renders -> {"idle", "saved", "read", "truncated", "pouring", "filled", "dropped"}]
  BY DEF SettingsInv
<1>1. ASSUME Quiet PROVE \A p \in projecting \cup {estimate} : Fits(p)
  BY <1>1 DEF ProjectionInv
<1>2. ASSUME NEW r \in Renders, Save(r) \/ Read(r) \/ render_cron(r) \/ RenderFails(r)
      PROVE  Quiet /\ Same
  <2>1. CASE Save(r)
    BY <1>0, <2>1 DEF Save, Starts, Quiet
  <2>2. CASE Read(r)
    BY <1>0, <2>2 DEF Read, Proceed, Quiet, history
  <2>3. CASE render_cron(r)
    BY <1>0, <2>3 DEF render_cron, Proceed, Quiet, history
  <2>4. CASE RenderFails(r)
    BY <1>0, <2>4 DEF RenderFails, Quiet
  <2>. QED
    BY <1>2, <2>1, <2>2, <2>3, <2>4
<1>3. ASSUME NEW r \in Renders, Truncate(r) \/ Pour(r) \/ Fill(r) PROVE FALSE
  BY <1>0, <1>3 DEF Truncate, Pour, Fill, Proceed, Quiet
<1>4. ASSUME NEW r \in Renders, Drop(r)
      PROVE  \A p \in projecting' \cup {estimate'} : p = NoEstimate \/ p.dropped
  BY <1>4 DEF Drop
<1>5. CASE SweepLoads
  BY <1>1, <1>5 DEF SweepLoads, Quiet
<1>6. CASE EstimateLoads
  <2>1. /\ Quiet /\ UNCHANGED <<config, estimate>>
        /\ projecting' = projecting \cup {[from |-> Load(config), dropped |-> FALSE]}
    BY <1>6 DEF EstimateLoads, Quiet, history
  <2>. QED
    BY <1>1, <2>1
<1>7. ASSUME NEW p \in projecting, Publish(p) \/ EstimateEnds(p)
      PROVE  /\ Quiet /\ UNCHANGED config
             /\ projecting' \cup {estimate'} \subseteq projecting \cup {estimate}
  BY <1>7 DEF Publish, EstimateEnds, Quiet, history
<1>8. CASE Reboot
  BY <1>8 DEF Reboot
<1>9. CASE UNCHANGED vars
  BY <1>1, <1>9 DEF vars, Quiet
<1>10. CASE \E r \in Renders : Save(r) \/ Render(r) \/ RenderFails(r)
  BY <1>1, <1>2, <1>3, <1>4, <1>10 DEF Render
<1>11. CASE \E p \in projecting : Publish(p) \/ EstimateEnds(p)
  BY <1>1, <1>7, <1>11
<1>. QED
  BY <1>5, <1>6, <1>8, <1>9, <1>10, <1>11 DEF Next

\* A projection that outlives its settings on the page was in flight when a
\* render removed estimate.json: no other order of events does that.
THEOREM StaleEstimatesStraddle == Spec => []StaleEstimateStraddles
<1>1. Init => ProjectionInv
  BY DEF Init, ProjectionInv
<1>2. ProjectionInv => StaleEstimateStraddles
  BY DEF ProjectionInv, StaleEstimateStraddles
<1>. QED
  BY <1>1, <1>2, ProjectionStep, SettingsInvariant, PTL DEF Spec
-----------------------------------------------------------------------------
(***************************************************************************)
(* The orders a render writes.  tier_csv_filter is a loop whose value is a *)
(* list without repetitions after every name, whatever the names are; the  *)
(* order made of the flags is the one the engine would make of them, as a  *)
(* rendered document states all four.                                      *)
(***************************************************************************)
LEMMA TierSets ==
    /\ ToSet(AllTiers) = {"resume", "next-up", "recently-added", "binge-ahead"}
    /\ ToSet(DefaultTierOrder) = {"resume", "next-up", "recently-added"}
  BY DEF ToSet, AllTiers, DefaultTierOrder

\* Lists of tiers without repetitions.
Orders == {order \in Seq(ToSet(AllTiers)) : validateTierOrder(order)}

LEMMA OneMoreTier ==
    ASSUME NEW order \in Orders, NEW t \in ToSet(AllTiers), \A i \in DOMAIN order : order[i] # t
    PROVE  Append(order, t) \in Orders
<1>. DEFINE longer == Append(order, t)
            n == Len(order)
<1>1. order \in Seq(ToSet(AllTiers)) /\ n \in Nat
  BY DEF Orders
<1>2. /\ longer \in Seq(ToSet(AllTiers)) /\ DOMAIN longer = 1 .. (n + 1)
      /\ \A i \in 1 .. n : longer[i] = order[i]
      /\ longer[n + 1] = t
  BY <1>1
<1>3. /\ \A i, j \in 1 .. n : order[i] = order[j] => i = j
      /\ \A i \in 1 .. n : order[i] # t
  BY <1>1 DEF Orders, validateTierOrder
<1>. HIDE DEF longer, n
<1>4. ASSUME NEW i \in 1 .. (n + 1), NEW j \in 1 .. (n + 1), longer[i] = longer[j]
      PROVE  i = j
  BY <1>1, <1>2, <1>3, <1>4
<1>5. validateTierOrder(longer)
  BY <1>2, <1>4 DEF validateTierOrder
<1>. QED
  BY <1>2, <1>5 DEF Orders, longer

LEMMA InOrderIsAnOrder ==
    ASSUME NEW on
    PROVE  inOrder(on) \in Orders
<1>. DEFINE one(t) == IF t \in on THEN <<t>> ELSE <<>>
            more(order, t) == IF t \in on THEN Append(order, t) ELSE order
            a == one("resume")
            b == more(a, "next-up")
            c == more(b, "recently-added")
            d == more(c, "binge-ahead")
<1>1. ASSUME NEW order \in Orders, NEW t \in ToSet(AllTiers)
      PROVE  order \o one(t) = more(order, t)
  BY DEF Orders
<1>2. a \in Orders /\ \A i \in DOMAIN a : a[i] = "resume"
  BY TierSets DEF Orders, validateTierOrder
<1>3. b \in Orders /\ \A i \in DOMAIN b : b[i] \in {"resume", "next-up"}
  <2>1. \A i \in DOMAIN a : a[i] # "next-up"
    BY <1>2
  <2>. HIDE DEF a
  <2>2. b \in Orders
    BY <1>2, <2>1, TierSets, OneMoreTier
  <2>. QED
    BY <1>2, <2>2 DEF Orders
<1>4. c \in Orders /\ \A i \in DOMAIN c : c[i] \in {"resume", "next-up", "recently-added"}
  <2>1. \A i \in DOMAIN b : b[i] # "recently-added"
    BY <1>3
  <2>. HIDE DEF b
  <2>2. c \in Orders
    BY <1>3, <2>1, TierSets, OneMoreTier
  <2>. QED
    BY <1>3, <2>2 DEF Orders
<1>5. d \in Orders
  <2>1. \A i \in DOMAIN c : c[i] # "binge-ahead"
    BY <1>4
  <2>. HIDE DEF c
  <2>. QED
    BY <1>4, <2>1, TierSets, OneMoreTier
<1>6. inOrder(on) = a \o one("next-up") \o one("recently-added") \o one("binge-ahead")
  BY DEF inOrder
<1>7. inOrder(on) = d
  <2>. HIDE DEF a, b, c, d, one, more
  <2>1. a \o one("next-up") = b
    BY <1>1, <1>2, TierSets DEF b
  <2>2. b \o one("recently-added") = c
    BY <1>1, <1>3, TierSets DEF c
  <2>3. c \o one("binge-ahead") = d
    BY <1>1, <1>4, TierSets DEF d
  <2>. QED
    BY <1>6, <2>1, <2>2, <2>3
<1>. QED
  BY <1>5, <1>7

LEMMA FilteredIsAnOrder ==
    ASSUME NEW csv \in Seq(STRING)
    PROVE  tier_csv_filter(csv) \in Orders
<1>. DEFINE known(out, t) == t \in DOMAIN ParseTierName /\ ParseTierName[t] \notin ToSet(out)
            op(out, t)    == IF known(out, t) THEN Append(out, ParseTierName[t]) ELSE out
            step          == [p \in Orders \X STRING |-> op(p[1], p[2])]
            Solves(iter)  == iter = [S \in SUBSET DOMAIN csv |->
                                       IF S = {} THEN <<>> ELSE op(iter[S \ {Max(S)}], csv[Max(S)])]
            it == CHOOSE iter : Solves(iter)
<1>1. tier_csv_filter(csv) = it[DOMAIN csv]
  BY DEF tier_csv_filter, FoldLeft, MapThenFoldSet
<1>2. ASSUME NEW out \in Orders, NEW t \in STRING
      PROVE  op(out, t) \in Orders
  <2>1. CASE known(out, t)
    <3>1. ParseTierName[t] \in ToSet(AllTiers)
      BY <2>1, TierSets DEF ParseTierName
    <3>2. \A i \in DOMAIN out : out[i] # ParseTierName[t]
      BY <2>1 DEF ToSet
    <3>3. op(out, t) = Append(out, ParseTierName[t])
      BY <2>1
    <3>. HIDE DEF op, known
    <3>. QED
      BY <3>1, <3>2, <3>3, OneMoreTier
  <2>. QED
    BY <2>1
<1>3. /\ <<>> \in Orders /\ step \in [Orders \X STRING -> Orders]
      /\ \A out \in Orders, t \in STRING : step[<<out, t>>] = op(out, t)
  <2>1. <<>> \in Orders
    BY DEF Orders, validateTierOrder
  <2>. HIDE DEF op
  <2>. QED
    BY <1>2, <2>1
<1>. HIDE DEF step, op
<1>4. Solves(it)
  <2>1. PICK iter : Iterates(iter, <<>>, step, csv) /\ Stays(iter, Orders, STRING, csv)
    BY <1>3, LoopRuns
  <2>2. Solves(iter)
    BY <1>3, <2>1 DEF Iterates, Stays
  <2>. QED
    BY <2>2
<1>. HIDE DEF it
<1>5. Follows(it, Orders, step, csv)
  <2>. SUFFICES ASSUME NEW k \in 1 .. Len(csv), it[1 .. (k - 1)] \in Orders
                PROVE  it[1 .. k] = step[<<it[1 .. (k - 1)], csv[k]>>]
    BY DEF Follows
  <2>1. /\ Max(1 .. k) = k /\ (1 .. k) \ {k} = 1 .. (k - 1)
        /\ 1 .. k # {} /\ 1 .. k \in SUBSET DOMAIN csv
    BY Beginning
  <2>2. it[1 .. k] = op(it[1 .. (k - 1)], csv[k])
    BY <1>4, <2>1
  <2>3. csv[k] \in STRING
    OBVIOUS
  <2>. HIDE DEF Solves
  <2>. QED
    BY <1>3, <2>2, <2>3
<1>6. it[{}] = <<>>
  BY <1>4
<1>. HIDE DEF Solves
<1>7. Runs(Along(it, csv), Orders, <<>>, step, csv)
  BY <1>3, <1>5, <1>6, LoopValues
<1>. QED
  BY <1>1, <1>7 DEF Along, Runs

\* The order made of the flags is the one the engine makes of what they state.
LEMMA FlagsMeanTheSame ==
    ASSUME NEW cfg
    PROVE  deriveLegacyOrder(flags(cfg)) = legacy_order_from_flags(cfg)
<1>. DEFINE stated == flags(cfg)
            S == {t \in ToSet(AllTiers) : stated[t]}
            original == DOMAIN stated \cap ToSet(DefaultTierOrder)
            allowed  == {t \in original : stated[t]}
            binge    == {t \in DOMAIN stated \cap {"binge-ahead"} : stated[t]}
<1>1. DOMAIN stated = ToSet(AllTiers)
  BY DEF flags
<1>. HIDE DEF stated
<1>2. (IF allowed # {} THEN allowed ELSE ToSet(DefaultTierOrder) \ original) \cup binge = S
  <2>1. original = ToSet(DefaultTierOrder)
    BY <1>1, TierSets
  <2>2. allowed \cup binge = S
    BY <1>1, TierSets
  <2>. QED
    BY <2>1, <2>2
<1>3. deriveLegacyOrder(stated)
        = inOrder((IF allowed # {} THEN allowed ELSE ToSet(DefaultTierOrder) \ original) \cup binge)
  BY DEF deriveLegacyOrder
<1>4. legacy_order_from_flags(cfg) = inOrder(S)
  BY DEF legacy_order_from_flags, stated
<1>. QED
  BY <1>2, <1>3, <1>4 DEF stated

\* When a render has poured out all of an old .cfg, the order in config.toml is
\* the one the flags beside it would have given.
THEOREM UpgradesKeepOrder == Spec => []UpgradeKeepsOrder
<1>1. SettingsInv => UpgradeKeepsOrder
  <2>. SUFFICES ASSUME SettingsInv, NEW r \in Renders, phase[r] = "filled",
                       config = Rendered[src[r]], "TIER_ORDER" \notin DOMAIN src[r]
                PROVE  config.Order = deriveLegacyOrder(config.Stated)
    BY DEF UpgradeKeepsOrder
  <2>1. config = rendered(src[r])
    BY DEF SettingsInv, Rendered
  <2>2. config.Order = legacy_order_from_flags(src[r]) /\ config.Stated = flags(src[r])
    BY <2>1 DEF rendered
  <2>. QED
    BY <2>2, FlagsMeanTheSame
<1>. QED
  BY <1>1, SettingsInvariant, PTL

\* A rendered document has orders in it, and nothing else where orders are due.
LEMMA RenderedOrders ==
    ASSUME NEW e \in Editions \cup {Shipped}
    PROVE  /\ rendered(e).Order \in Orders
           /\ \A u \in DOMAIN rendered(e).Override : rendered(e).Override[u] \in Orders
<1>1. rendered(e).Order \in Orders
  <2>1. CASE "TIER_ORDER" \in DOMAIN e
    <3>1. rendered(e).Order = tier_csv_filter(e["TIER_ORDER"])
      BY <2>1 DEF rendered
    <3>. QED
      BY <2>1, <3>1, EditionsAssumption, FilteredIsAnOrder
  <2>2. CASE "TIER_ORDER" \notin DOMAIN e
    <3>1. rendered(e).Order = legacy_order_from_flags(e)
      BY <2>2 DEF rendered
    <3>. QED
      BY <3>1, InOrderIsAnOrder DEF legacy_order_from_flags
  <2>. QED
    BY <2>1, <2>2
<1>2. ASSUME NEW u \in DOMAIN rendered(e).Override
      PROVE  rendered(e).Override[u] \in Orders
  <2>. DEFINE own == cfg_get(e, "TIER_ORDER_OF", <<>>)
  <2>1. rendered(e).Override = [v \in DOMAIN own |-> tier_csv_filter(own[v])]
    BY DEF rendered, render_tier_overrides
  <2>2. u \in DOMAIN own /\ rendered(e).Override[u] = tier_csv_filter(own[u])
    BY <1>2, <2>1
  <2>3. "TIER_ORDER_OF" \in DOMAIN e /\ own = e["TIER_ORDER_OF"]
    BY <2>2 DEF cfg_get
  <2>. HIDE DEF own
  <2>4. own[u] \in Seq(STRING)
    BY <2>2, <2>3, EditionsAssumption
  <2>. QED
    BY <2>2, <2>4, FilteredIsAnOrder
<1>. QED
  BY <1>1, <1>2

\* config.Load: a document with orders and override orders only, a type and a
\* URL gets its numbers from the defaults and is accepted.
LEMMA OrdersAreAccepted ==
    ASSUME NEW doc, doc["Type"] = "emby", doc["URL"] = "u",
           {"Type", "URL", "Order", "Override"} \subseteq DOMAIN doc,
           DOMAIN doc \cap (Numbers \cup {"ProbeBytes", "ProbeThreshold", "ProbeTimeout", "APIKey"}) = {},
           doc["Order"] \in Orders,
           \A u \in DOMAIN doc["Override"] : doc["Override"][u] \in Orders
    PROVE  Load(doc) # Rejected
<1>. DEFINE raw == decode(doc)
            c   == applyDefaults(raw, orderOf(doc))
<1>1. /\ raw.Type = "emby" /\ raw.URL = "u"
      /\ raw.Order = doc["Order"] /\ raw.Override = doc["Override"]
  BY DEF decode, Zero
<1>2. /\ raw.RAMPercent = 0 /\ raw.TargetSeconds = 0 /\ raw.MinHeadMB = 0
      /\ raw.MaxHeadMB = 0 /\ raw.TailMB = 0
      /\ raw.SweepSeconds = 0 /\ raw.SessionPollSeconds = 0
      /\ raw.ProbeBytes = 0 /\ raw.ProbeThreshold = 0 /\ raw.ProbeTimeout = 0
  BY DEF decode, Zero, Numbers
<1>3. orderOf(doc) = doc["Order"]
  BY <1>1 DEF orderOf, globalOrder
<1>. DEFINE order == orderOf(doc)
<1>4. DOMAIN raw = {"Type", "URL", "Enabled", "Libraries", "Order", "Override",
                    "RAMPercent", "TargetSeconds", "MinHeadMB", "MaxHeadMB", "TailMB",
                    "SweepSeconds", "SessionPollSeconds",
                    "ProbeBytes", "ProbeThreshold", "ProbeTimeout"}
  BY DEF decode, Zero
<1>5. /\ c.Type = "emby" /\ c.URL = "u" /\ c.Order = doc["Order"] /\ c.Override = doc["Override"]
      /\ c.RAMPercent = 50 /\ c.TargetSeconds = 20 /\ c.MinHeadMB = 8
      /\ c.MaxHeadMB = 250 /\ c.TailMB = 16
      /\ c.SweepSeconds = 60 /\ c.SessionPollSeconds = 5
      /\ c.ProbeBytes = 1 /\ c.ProbeThreshold = 150 /\ c.ProbeTimeout = 30
  <2>. HIDE DEF raw, order
  <2>1. applyDefaults(raw, order).Type = raw.Type /\ applyDefaults(raw, order).URL = raw.URL
        /\ applyDefaults(raw, order).Order = order
        /\ applyDefaults(raw, order).Override = raw.Override
    BY <1>4 DEF applyDefaults
  <2>2. /\ c.RAMPercent = orDefault(raw.RAMPercent, 50)
        /\ c.TargetSeconds = orDefault(raw.TargetSeconds, 20)
        /\ c.MinHeadMB = orDefault(raw.MinHeadMB, 8)
        /\ c.MaxHeadMB = orDefault(raw.MaxHeadMB, 250)
        /\ c.TailMB = orDefault(raw.TailMB, 16)
    BY <1>4 DEF applyDefaults
  <2>3. /\ c.SweepSeconds = orDefault(raw.SweepSeconds, 60)
        /\ c.SessionPollSeconds = orDefault(raw.SessionPollSeconds, 5)
        /\ c.ProbeBytes = orDefault(raw.ProbeBytes, 1)
        /\ c.ProbeThreshold = orDefault(raw.ProbeThreshold, 150)
        /\ c.ProbeTimeout = orDefault(raw.ProbeTimeout, 30)
    BY <1>4 DEF applyDefaults
  <2>. HIDE DEF c
  <2>. QED
    BY <1>1, <1>2, <1>3, <2>1, <2>2, <2>3 DEF orDefault, c, order
<1>6. OrdersDecode(raw) /\ (Validate(c) => Load(doc) = c)
  <2>1. \A o \in Orders : ToSet(o) \subseteq ToSet(AllTiers)
    BY DEF Orders, ToSet
  <2>2. OrdersDecode(raw)
    BY <1>1, <2>1 DEF OrdersDecode
  <2>3. Accepts(doc) <=> OrdersDecode(raw) /\ "APIKey" \notin DOMAIN doc /\ Validate(c)
    BY DEF Accepts, resolve
  <2>4. Load(doc) = IF Accepts(doc) THEN c ELSE Rejected
    BY DEF Load, resolve
  <2>. HIDE DEF raw, c
  <2>. QED
    BY <2>2, <2>3, <2>4
<1>. HIDE DEF c
<1>7. Validate(c)
  <2>1. validateTierOrder(c.Order) /\ \A u \in DOMAIN c.Override : validateTierOrder(c.Override[u])
    BY <1>5 DEF Orders
  <2>. QED
    BY <1>5, <2>1 DEF Validate
<1>8. c # Rejected
  <2>1. Rejected.Type = ""
    BY DEF Rejected
  <2>. QED
    BY <1>5, <2>1
<1>. QED
  BY <1>6, <1>7, <1>8

\* However tiers are repeated, misspelled, left out or switched off in a .cfg,
\* the orders rendered from it never keep the engine from loading config.toml.
THEOREM RenderedOrdersLoad == Spec => []OrdersAlwaysLoad
<1>1. OrdersAlwaysLoad
  <2>. DEFINE old == [k \in DOMAIN config \ Numbers |-> config[k]]
              doc == Over([Type |-> "emby", URL |-> "u"], old)
  <2>. SUFFICES ASSUME Whole PROVE Load(doc) # Rejected
    BY DEF OrdersAlwaysLoad
  <2>1. PICK e \in Editions \cup {Shipped} : config = rendered(e)
    BY DEF Whole, Rendered
  <2>2. DOMAIN config = {"Type", "URL", "Enabled", "Libraries", "Order", "Stated", "Override",
                         "RAMPercent", "TargetSeconds", "MinHeadMB", "MaxHeadMB", "TailMB",
                         "SweepSeconds", "SessionPollSeconds"}
    BY <2>1 DEF rendered
  <2>3. DOMAIN old = {"Type", "URL", "Enabled", "Libraries", "Order", "Stated", "Override"}
    BY <2>2 DEF Numbers
  <2>4. /\ DOMAIN doc = {"Type", "URL", "Enabled", "Libraries", "Order", "Stated", "Override"}
        /\ doc["Type"] = "emby" /\ doc["URL"] = "u"
        /\ doc["Order"] = config.Order /\ doc["Override"] = config.Override
    BY <2>3 DEF Over
  <2>. HIDE DEF doc
  <2>5. /\ {"Type", "URL", "Order", "Override"} \subseteq DOMAIN doc
        /\ DOMAIN doc \cap (Numbers \cup {"ProbeBytes", "ProbeThreshold", "ProbeTimeout", "APIKey"}) = {}
    BY <2>4 DEF Numbers
  <2>. QED
    BY <2>1, <2>4, <2>5, RenderedOrders, OrdersAreAccepted
<1>. QED
  BY <1>1, PTL
=============================================================================
