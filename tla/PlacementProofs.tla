-------------------------- MODULE PlacementProofs ---------------------------
(***************************************************************************)
(* Placement is safe on every host whose kernel withholds answers but      *)
(* gives no false ones, with any storage, any mover and any number of      *)
(* moves: what is called a pool does not spin, no lookup waits for a       *)
(* platter, and a file on spinning storage keeps its spin-up allowance.    *)
(***************************************************************************)
EXTENDS Placement, Loops

StaysUp(h, fs) == fs # NoFs /\ h.devices[fs] \cap h.spins = {}

-----------------------------------------------------------------------------
\* The device list isPool judges is that of the filesystem mounted there.
LEMMA BackingDevicesTrue ==
    ASSUME NEW h \in Hosts, NEW n \in Directories, h.at[n] # NoFs,
           backingDevices(h, n) # Undetermined
    PROVE  backingDevices(h, n) = h.devices[h.at[n]]
  <1> DEFINE m == mountSource(h, n)
             devs == h.devices[h.at[n]]
  <1>1. IsHost(h) /\ Consistent(h)
    BY PlacementAssumption
  <1>2. m # Undetermined /\ m.source \in Devices
    BY DEF backingDevices
  <1>3. /\ m.source \in devs
        /\ m.fstype # btrfs => devs = {m.source}
        /\ (m.fstype = btrfs /\ h.volumes # Undetermined)
              => \E v \in DOMAIN h.volumes : h.volumes[v] \in {devs, Undetermined}
    BY <1>1, <1>2 DEF Consistent
  <1>4. CASE m.fstype # btrfs
    BY <1>2, <1>3, <1>4 DEF backingDevices
  <1>5. CASE m.fstype = btrfs
    <2>1. backingDevices(h, n) = btrfsDevices(h, m.source)
      BY <1>2, <1>5 DEF backingDevices
    <2>2. /\ h.volumes # Undetermined
          /\ \A v \in DOMAIN h.volumes : h.volumes[v] # Undetermined
          /\ \E v \in DOMAIN h.volumes : claims(h, m.source) = {v}
      BY <2>1 DEF btrfsDevices
    <2>3. PICK w \in DOMAIN h.volumes : h.volumes[w] = devs
      BY <1>3, <1>5, <2>2
    <2>4. w \in claims(h, m.source)
      BY <1>3, <2>3 DEF claims
    <2> DEFINE v0 == CHOOSE v \in DOMAIN h.volumes : claims(h, m.source) = {v}
    <2>5. v0 \in DOMAIN h.volumes /\ claims(h, m.source) = {v0}
      BY <2>2
    <2>6. v0 = w
      BY <2>4, <2>5
    <2>7. btrfsDevices(h, m.source) = h.volumes[v0]
      BY <2>2 DEF btrfsDevices
    <2>8. QED
      BY <2>1, <2>3, <2>6, <2>7
  <1>6. QED
    BY <1>4, <1>5

\* isPool is sound, whatever the kernel withholds.
LEMMA PoolStaysUp ==
    ASSUME NEW h \in Hosts, NEW n \in Directories, isPool(h, n)
    PROVE  h.at[n] \in Filesystems /\ StaysUp(h, h.at[n])
  <1>1. IsHost(h) /\ Consistent(h)
    BY PlacementAssumption
  <1>2. IsMountpoint(h, n) = TRUE /\ AllNonRotational(h, n) = TRUE
    BY DEF isPool
  <1>3. h.at[n] # NoFs
    BY <1>2, DisksAssumption DEF IsMountpoint
  <1>4. h.at[n] \in Filesystems
    BY <1>1, <1>3 DEF IsHost
  <1> DEFINE devs == backingDevices(h, n)
  <1>5. devs # Undetermined
    BY <1>2, DisksAssumption DEF AllNonRotational
  <1>6. \A d \in devs : h.queue[d] = "0"
    BY <1>2, <1>5, DisksAssumption DEF AllNonRotational, rotational
  <1>7. devs = h.devices[h.at[n]]
    BY <1>3, <1>5, BackingDevicesTrue
  <1>8. devs \subseteq Devices
    BY <1>1, <1>4, <1>7 DEF IsHost
  <1>9. \A d \in devs : d \notin h.spins
    BY <1>1, <1>6, <1>8 DEF Consistent
  <1>10. QED
    BY <1>3, <1>4, <1>7, <1>9 DEF StaysUp

LEMMA MembersAreDirectories ==
    ASSUME NEW h \in Hosts
    PROVE  Discover(h) \subseteq Directories
  BY PlacementAssumption DEF IsHost, Discover

-----------------------------------------------------------------------------
PoolsInv ==
    /\ host \in Hosts
    /\ resolver = [pools |-> resolver.pools, current |-> resolver.current]
    /\ resolver.current \in BOOLEAN
    /\ resolver.pools \subseteq Directories
    /\ resolver.current
         => \A n \in resolver.pools : host.at[n] \in Filesystems /\ StaysUp(host, host.at[n])

HistoryInv ==
    /\ history = [quiet |-> history.quiet, served |-> history.served, looked |-> history.looked]
    /\ history.looked \subseteq resolver.pools
    /\ Served \in history.served

\* What a call knows: whom it may still probe, that what it wants to match was
\* served during the call, and that only a file on a pool is called pooled.
CallInv ==
    /\ call.pc \in {"ready", "union", "probe", "plan", "planned"}
    /\ call.pc # "ready" =>
         /\ call = [pc |-> call.pc, target |-> call.target, size |-> call.size,
                    want |-> call.want, left |-> call.left, pooled |-> call.pooled]
         /\ IsItem(call.target.Item) /\ call.target.Tier = "other" /\ call.size \in Nat
         /\ call.left \subseteq resolver.pools
         /\ call.pooled \in BOOLEAN
    /\ call.pc \in {"union", "probe"} => ~call.pooled
    /\ call.pc = "probe" =>
         \E dev, ino : call.want = <<dev, ino>> /\ dev \in history.served \cup {shfs}
    /\ (call.pc \in {"plan", "planned"} /\ call.pooled /\ resolver.current)
         => \E fs \in history.served : StaysUp(host, fs)
    /\ call.pc = "planned" => plan = planWarm(call.target, call.size, NoLayout, call.pooled)

PInv == PoolsInv /\ HistoryInv /\ CallInv

LEMMA InitPInv == Init => PInv
  <1> SUFFICES ASSUME Init PROVE PInv
    OBVIOUS
  <1>1. PoolsInv
    <2>1. resolver.pools = {n \in Discover(host) : isPool(host, n)} /\ resolver.current
          /\ resolver = [pools |-> resolver.pools, current |-> resolver.current]
      BY DEF Init, New
    <2>2. QED
      BY <2>1, MembersAreDirectories, PoolStaysUp DEF Init, PoolsInv
  <1>2. HistoryInv /\ CallInv
    BY DEF Init, Fresh, HistoryInv, CallInv, NoCall
  <1>3. QED
    BY <1>1, <1>2 DEF PInv

\* The steps of a call leave the storage and the classification alone.
LEMMA StepKeepsPools ==
    ASSUME PInv, Step
    PROVE  PoolsInv' /\ HistoryInv'
  <1>0. UNCHANGED <<host, holds, resolver>>
    BY DEF Step, Ask, StatUnion, StatUnionFails, Probe, ProbeFails, Unresolved, Plan, Return
  <1>1. UNCHANGED <<host, holds, resolver>> /\ Served' = Served
    BY <1>0 DEF Served, ServedBy
  <1>2. PoolsInv'
    BY <1>1 DEF PInv, PoolsInv, StaysUp
  <1>3. HistoryInv'
    <2>1. CASE Ask
      BY <1>1, <2>1 DEF Ask, Fresh, HistoryInv
    <2>2. CASE StatUnionFails
      BY <1>1, <2>2 DEF StatUnionFails, HistoryInv, PInv
    <2>3. CASE Probe
      BY <1>1, <2>3 DEF Probe, HistoryInv, PInv, CallInv
    <2>4. CASE ProbeFails
      <3>1. PICK n \in call.left :
              history' = [history EXCEPT !.looked = @ \cup {n}, !.quiet = FALSE]
        BY <2>4 DEF ProbeFails
      <3>2. call.pc = "probe" /\ n \in resolver.pools
        BY <2>4, <3>1 DEF ProbeFails, PInv, CallInv
      <3>3. /\ history'.served = history.served
            /\ history'.looked = history.looked \cup {n}
            /\ history' = [quiet |-> history'.quiet, served |-> history'.served,
                           looked |-> history'.looked]
        BY <3>1 DEF PInv, HistoryInv
      <3>4. QED
        BY <1>1, <3>2, <3>3 DEF HistoryInv, PInv
    <2>5. CASE StatUnion \/ Unresolved \/ Plan \/ Return
      BY <1>1, <2>5 DEF StatUnion, Unresolved, Plan, Return, HistoryInv, PInv
    <2>6. QED
      BY <2>1, <2>2, <2>3, <2>4, <2>5 DEF Step
  <1>4. QED
    BY <1>2, <1>3

\* A call calls its file pooled only on the evidence of a pool that had it.
LEMMA StepKeepsCall ==
    ASSUME PInv, Step
    PROVE  CallInv'
  <1>1. UNCHANGED <<host, holds, resolver>>
    BY DEF Step, Ask, StatUnion, StatUnionFails, Probe, ProbeFails, Unresolved, Plan, Return
  <1>2. CASE Ask
    <2>1. PICK it \in Items, size \in Sizes, path \in Paths :
            call' = [pc |-> IF resolver.pools # {} /\ relUnder(path, unionRoot)
                            THEN "union" ELSE "plan",
                     target |-> [Item |-> it, Tier |-> "other"], size |-> size,
                     want |-> <<>>, left |-> poolMembers, pooled |-> FALSE]
      BY <1>2 DEF Ask
    <2>2. IsItem(it) /\ size \in Nat
      BY PlacementAssumption
    <2>3. QED
      BY <1>1, <2>1, <2>2 DEF CallInv, poolMembers
  <1>3. CASE StatUnion
    BY <1>1, <1>3 DEF StatUnion, CallInv, PInv, HistoryInv
  <1>4. CASE StatUnionFails
    BY <1>1, <1>4 DEF StatUnionFails, Answer, CallInv, PInv, HistoryInv
  <1>5. CASE Probe
    <2>1. PICK n \in call.left :
            /\ IF SameFile(call.want, identity(n))
               THEN Answer(n \in resolver.pools)
               ELSE call' = [call EXCEPT !.left = @ \ {n}]
            /\ history' = [history EXCEPT !.looked = @ \cup {n}]
      BY <1>5 DEF Probe
    <2>2. history'.served = history.served
      BY <2>1 DEF PInv, HistoryInv
    <2>3. CASE ~SameFile(call.want, identity(n))
      BY <1>1, <1>5, <2>1, <2>2, <2>3 DEF Probe, CallInv, PInv
    <2>4. CASE SameFile(call.want, identity(n))
      <3>1. call' = [call EXCEPT !.pc = "plan", !.pooled = n \in resolver.pools]
        BY <2>1, <2>4 DEF Answer
      <3>2. host.at[n] # NoFs /\ call.want = <<host.at[n], holds[host.at[n]]>>
        BY <2>4 DEF SameFile, identity
      <3>3. PICK dev, ino : call.want = <<dev, ino>> /\ dev \in history.served \cup {shfs}
        BY <1>5 DEF Probe, PInv, CallInv
      <3>4. dev = host.at[n]
        BY <3>2, <3>3
      <3>5. resolver.current => host.at[n] \in history.served /\ StaysUp(host, host.at[n])
        BY <1>5, <3>3, <3>4, PlacementAssumption DEF Probe, PInv, CallInv, PoolsInv
      <3>6. (resolver.current => \E fs \in history.served : StaysUp(host, fs))'
        BY <1>1, <2>2, <3>5 DEF StaysUp
      <3>7. QED
        BY <1>5, <1>1, <3>1, <3>6 DEF Probe, CallInv, PInv
    <2>5. QED
      BY <2>3, <2>4
  <1>6. CASE ProbeFails
    BY <1>1, <1>6 DEF ProbeFails, CallInv, PInv, HistoryInv
  <1>7. CASE Unresolved
    BY <1>1, <1>7 DEF Unresolved, Answer, CallInv, PInv
  <1>8. CASE Plan
    BY <1>1, <1>8 DEF Plan, CallInv, PInv, StaysUp
  <1>9. CASE Return
    BY <1>9 DEF Return, NoCall, CallInv
  <1>10. QED
    BY <1>2, <1>3, <1>4, <1>5, <1>6, <1>7, <1>8, <1>9 DEF Step

\* Moves add to what was served; a reassembled array voids the classification.
LEMMA MovesKeepPInv ==
    ASSUME PInv, Store \/ Unlink \/ Reassemble
    PROVE  PInv'
  <1>1. history' = [history EXCEPT !.quiet = FALSE, !.served = @ \cup {Served'}]
        /\ UNCHANGED <<call, plan>>
    BY DEF Store, Unlink, Reassemble, Moved
  <1>2. history'.served = history.served \cup {Served'} /\ history'.looked = history.looked
        /\ history' = [quiet |-> history'.quiet, served |-> history'.served,
                       looked |-> history'.looked]
    BY <1>1 DEF PInv, HistoryInv
  <1>3. CASE UNCHANGED <<host, resolver>>
    <2>1. PoolsInv' /\ HistoryInv'
      BY <1>2, <1>3 DEF PInv, PoolsInv, HistoryInv, StaysUp
    <2>2. CallInv'
      BY <1>1, <1>2, <1>3 DEF PInv, CallInv, StaysUp
    <2>3. QED
      BY <2>1, <2>2 DEF PInv
  <1>4. CASE Reassemble
    <2>1. host' \in Hosts /\ ~resolver'.current /\ resolver'.pools = resolver.pools
          /\ resolver' = [pools |-> resolver'.pools, current |-> resolver'.current]
          /\ resolver'.current \in BOOLEAN
      BY <1>4 DEF Reassemble, PInv, PoolsInv
    <2>2. PoolsInv' /\ HistoryInv'
      BY <1>2, <2>1 DEF PInv, PoolsInv, HistoryInv
    <2>3. CallInv'
      BY <1>1, <1>2, <2>1 DEF PInv, CallInv
    <2>4. QED
      BY <2>2, <2>3 DEF PInv
  <1>5. QED
    BY <1>3, <1>4 DEF Store, Unlink

LEMMA RestartKeepsPInv ==
    ASSUME PInv, Restart
    PROVE  PInv'
  <1>1. PoolsInv'
    <2>1. /\ resolver' = [pools |-> {n \in Discover(host) : isPool(host, n)}, current |-> TRUE]
          /\ host' = host /\ host \in Hosts
      BY DEF Restart, New, PInv, PoolsInv
    <2>2. QED
      BY <2>1, MembersAreDirectories, PoolStaysUp DEF PoolsInv, StaysUp
  <1>2. Served' = Served
    BY DEF Restart, Served, ServedBy
  <1>3. HistoryInv' /\ CallInv'
    BY <1>2 DEF Restart, Fresh, NoCall, HistoryInv, CallInv
  <1>4. QED
    BY <1>1, <1>3 DEF PInv

\* The inductive invariant: a current classification is sound, only pools are
\* probed, and "pooled" rests on a pool the union served the file from.
THEOREM PlacementInvariant == Spec => []PInv
  <1>1. PInv /\ [Next]_vars => PInv'
    <2> SUFFICES ASSUME PInv, [Next]_vars PROVE PInv'
      OBVIOUS
    <2>1. CASE Step
      BY <2>1, StepKeepsPools, StepKeepsCall DEF PInv
    <2>2. CASE Store \/ Unlink \/ Reassemble
      BY <2>2, MovesKeepPInv
    <2>3. CASE Restart
      BY <2>3, RestartKeepsPInv
    <2>4. CASE UNCHANGED vars
      BY <2>4 DEF vars, PInv, PoolsInv, HistoryInv, CallInv, StaysUp, Served, ServedBy
    <2>5. QED
      BY <2>1, <2>2, <2>3, <2>4 DEF Next
  <1>2. QED
    BY <1>1, InitPInv, PTL DEF Spec

\* Whatever the kernel withholds, a member called a pool does not spin.
THEOREM PoolsDoNotSpin == Spec => []PoolsNeverSpin
  <1>1. PInv => PoolsNeverSpin
    BY DEF PInv, PoolsInv, PoolsNeverSpin, StaysUp, Spinning
  <1>2. QED
    BY <1>1, PlacementInvariant, PTL

\* However the file moves, no lookup of a member waits for a platter.
THEOREM LookupsDoNotSpin == Spec => []NoSpinningLookups
  <1>1. PInv => NoSpinningLookups
    BY DEF PInv, PoolsInv, HistoryInv, NoSpinningLookups, StaysUp, Spinning
  <1>2. QED
    BY <1>1, PlacementInvariant, PTL

\* The head of a file that is not on a pool is between its dials and, unless the
\* byte clamp cut it, covers the allowance.
LEMMA HeadCoversAllowance ==
    ASSUME NEW it, IsItem(it)
    PROVE  LET hp   == PlanHead(TargetSeconds, it)
               need == (TargetSeconds * bps(it)) \div 8
           IN  hp.Bytes \in Nat /\ need \in Int /\ (~hp.Truncated => need <= hp.Bytes)
  <1> DEFINE want == (TargetSeconds * bps(it)) \div 8
             cut  == want > MaxHeadBytes
  <1>1. bps(it) \in Int
    BY DEF IsItem, bps
  <1>2. want \in Int
    <2>1. TargetSeconds * bps(it) \in Int
      BY <1>1, DialsAssumption
    <2> QED
      BY <2>1
  <1>3. /\ PlanHead(TargetSeconds, it).Bytes = Lesser(Greater(want, MinHeadBytes), MaxHeadBytes)
        /\ PlanHead(TargetSeconds, it).Truncated = cut
    BY DEF PlanHead
  <1> HIDE DEF want
  <1>4. ~PlanHead(TargetSeconds, it).Truncated => ~(want > MaxHeadBytes)
    BY <1>3, Zenon
  <1>5. PlanHead(TargetSeconds, it).Bytes \in Nat
    BY <1>2, <1>3, DialsAssumption DEF Lesser, Greater
  <1>6. ~(want > MaxHeadBytes) => want <= PlanHead(TargetSeconds, it).Bytes
    BY <1>2, <1>3, DialsAssumption DEF Lesser, Greater
  <1> QED
    BY <1>2, <1>4, <1>5, <1>6 DEF want

\* A file on spinning storage all through the call keeps its allowance.
THEOREM SpinUpIsCovered == Spec => []SpinUpCovered
  <1>1. PInv => SpinUpCovered
    <2> DEFINE it   == call.target.Item
               need == (TargetSeconds * bps(it)) \div 8
               hp   == PlanHead(TargetSeconds, it)
    <2> SUFFICES ASSUME PInv, call.pc = "planned", resolver.current, ~plan.Truncated,
                        \A fs \in history.served :
                            fs # NoFs /\ host.devices[fs] \cap host.spins # {},
                        NEW b \in RangeBytes(0, need), b < call.size
                 PROVE  b \in ContentBytes(plan)
      BY DEF SpinUpCovered
    <2>1. ~call.pooled
      BY DEF PInv, CallInv, StaysUp
    <2>2. IsItem(it) /\ call.size \in Nat
      BY DEF PInv, CallInv
    <2>3. plan.offset = 0 /\ plan.head = Lesser(hp.Bytes, call.size)
          /\ plan.Truncated = hp.Truncated
      <3>1. call.target.Tier = "other"
            /\ plan = planWarm(call.target, call.size, NoLayout, FALSE)
        BY <2>1 DEF PInv, CallInv
      <3>2. QED
        BY <2>2, <3>1 DEF planWarm, seeking
    <2>4. need \in Int /\ need <= hp.Bytes /\ hp.Bytes \in Nat
      BY <2>2, <2>3, HeadCoversAllowance
    <2> HIDE DEF it, need, hp
    <2>5. QED
      BY <2>2, <2>3, <2>4 DEF ContentBytes, RangeBytes, Lesser
  <1>2. QED
    BY <1>1, PlacementInvariant, PTL

-----------------------------------------------------------------------------
(***************************************************************************)
(* The answer of an undisturbed call.  It is exact because the union shows *)
(* the first branch that has the file, so the identity the call wants is   *)
(* that of a filesystem which does have it, and a pool on that filesystem  *)
(* cannot fail to match.                                                   *)
(***************************************************************************)

\* What the union serves, some branch has.
LEMMA ServedIsHeld ==
    ASSUME NEW h \in Hosts, NEW where, ServedBy(h, where) # NoFs
    PROVE  where[ServedBy(h, where)] # NoFile
  <1> DEFINE holding == {i \in DOMAIN h.branches :
                            /\ h.at[h.branches[i]] # NoFs
                            /\ where[h.at[h.branches[i]]] # NoFile}
             first   == CHOOSE i \in holding : \A j \in holding : i <= j
  <1>1. holding # {} /\ ServedBy(h, where) = h.at[h.branches[first]]
    BY DEF ServedBy
  <1>2. holding \subseteq Nat
    BY PlacementAssumption DEF IsHost
  <1>3. \E i \in holding : \A j \in holding : i <= j
    BY <1>1, <1>2, LeastNat
  <1>4. first \in holding
    BY <1>3
  <1>5. QED
    BY <1>1, <1>4

OnServedPool == \E n \in resolver.pools : host.at[n] # NoFs /\ host.at[n] = Served

\* While nothing interferes, what a call wants is what is served, every pool it
\* has ruled out is another filesystem, and its answer is the truth.
QuietInv ==
    (history.quiet /\ host.transparent) =>
        /\ call.pc = "union" => call.want = <<>> /\ call.left = resolver.pools
        /\ call.pc = "probe" =>
             /\ Served # NoFs /\ call.want = <<Served, holds[Served]>>
             /\ \A n \in resolver.pools \ call.left : host.at[n] # Served
        /\ (call.pc \in {"plan", "planned"} /\ call.want # <<>>) => call.pooled = OnServedPool

LEMMA ProbeKeepsQuiet ==
    ASSUME PInv, QuietInv, Probe
    PROVE  QuietInv'
  <1>1. UNCHANGED <<host, holds, resolver>>
    BY DEF Probe
  <1>2. Served' = Served /\ OnServedPool' = OnServedPool
    BY <1>1 DEF Served, ServedBy, OnServedPool
  <1>3. /\ history = [quiet |-> history.quiet, served |-> history.served, looked |-> history.looked]
        /\ call = [pc |-> call.pc, target |-> call.target, size |-> call.size,
                   want |-> call.want, left |-> call.left, pooled |-> call.pooled]
        /\ call.pc = "probe" /\ call.left \subseteq resolver.pools
    BY DEF PInv, HistoryInv, CallInv, Probe
  <1>4. PICK n \in call.left :
          /\ IF SameFile(call.want, identity(n))
             THEN Answer(n \in resolver.pools)
             ELSE call' = [call EXCEPT !.left = @ \ {n}]
          /\ history' = [history EXCEPT !.looked = @ \cup {n}]
    BY DEF Probe
  <1> SUFFICES ASSUME history.quiet, host.transparent
               PROVE  QuietInv'
    BY <1>1, <1>3, <1>4 DEF QuietInv
  <1>5. /\ Served # NoFs /\ call.want = <<Served, holds[Served]>>
        /\ \A m \in resolver.pools \ call.left : host.at[m] # Served
    BY <1>3 DEF QuietInv
  <1>6. holds[Served] # NoFile
    BY <1>5, ServedIsHeld DEF Served, PInv, PoolsInv
  <1>7. CASE SameFile(call.want, identity(n))
    <2>1. call' = [call EXCEPT !.pc = "plan", !.pooled = n \in resolver.pools]
      BY <1>4, <1>7 DEF Answer
    <2>2. host.at[n] # NoFs /\ host.at[n] = Served
      BY <1>5, <1>7 DEF SameFile, identity
    <2>3. OnServedPool /\ n \in resolver.pools
      BY <1>3, <2>2 DEF OnServedPool
    <2>4. call'.pc = "plan" /\ call'.pooled = TRUE
      BY <1>3, <2>1, <2>3
    <2>5. QED
      BY <1>2, <2>3, <2>4 DEF QuietInv
  <1>8. CASE ~SameFile(call.want, identity(n))
    <2>1. call' = [call EXCEPT !.left = @ \ {n}]
      BY <1>4, <1>8
    <2>2. host.at[n] # Served
      BY <1>5, <1>6, <1>8 DEF SameFile, identity
    <2>3. /\ call'.pc = "probe" /\ call'.left = call.left \ {n} /\ call'.want = call.want
      BY <1>3, <2>1
    <2>4. QED
      BY <1>1, <1>2, <1>5, <2>2, <2>3 DEF QuietInv
  <1>9. QED
    BY <1>7, <1>8

LEMMA StepKeepsQuiet ==
    ASSUME PInv, QuietInv, Step
    PROVE  QuietInv'
  <1>1. UNCHANGED <<host, holds, resolver>>
    BY DEF Step, Ask, StatUnion, StatUnionFails, Probe, ProbeFails, Unresolved, Plan, Return
  <1>2. Served' = Served /\ OnServedPool' = OnServedPool
    BY <1>1 DEF Served, ServedBy, OnServedPool
  <1>3. /\ history = [quiet |-> history.quiet, served |-> history.served, looked |-> history.looked]
        /\ call.pc # "ready" =>
             call = [pc |-> call.pc, target |-> call.target, size |-> call.size,
                     want |-> call.want, left |-> call.left, pooled |-> call.pooled]
    BY DEF PInv, HistoryInv, CallInv
  <1>4. CASE Ask
    <2>1. /\ call'.pc \in {"union", "plan"} /\ call'.want = <<>> /\ call'.left = resolver.pools
      BY <1>4 DEF Ask, poolMembers
    <2>2. QED
      BY <1>1, <2>1 DEF QuietInv
  <1>5. CASE StatUnion
    <2>1. /\ call'.pc = "probe" /\ call'.left = call.left /\ history' = history
          /\ call.pc = "union" /\ Served # NoFs
          /\ host.transparent => call'.want = <<Served, holds[Served]>>
      BY <1>3, <1>5 DEF StatUnion
    <2>2. QED
      BY <1>1, <1>2, <2>1 DEF QuietInv
  <1>6. CASE StatUnionFails
    <2>1. /\ call.pc = "union" /\ call'.pc = "plan" /\ call'.want = call.want
          /\ history'.quiet => history.quiet
      BY <1>3, <1>6 DEF StatUnionFails, Answer
    <2>2. QED
      BY <1>1, <2>1 DEF QuietInv
  <1>7. CASE ProbeFails
    <2>1. ~history'.quiet
      BY <1>3, <1>7 DEF ProbeFails
    <2>2. QED
      BY <2>1 DEF QuietInv
  <1>8. CASE Unresolved
    <2>1. /\ call.pc = "probe" /\ call.left = {} /\ history' = history
          /\ call'.pc = "plan" /\ call'.pooled = FALSE
      BY <1>3, <1>8 DEF Unresolved, Answer
    <2>2. (history.quiet /\ host.transparent) => OnServedPool = FALSE
      BY <2>1 DEF QuietInv, OnServedPool
    <2>3. QED
      BY <1>1, <1>2, <2>1, <2>2 DEF QuietInv
  <1>9. CASE Plan
    <2>1. /\ call.pc = "plan" /\ call'.pc = "planned" /\ history' = history
          /\ call'.want = call.want /\ call'.pooled = call.pooled
      BY <1>3, <1>9 DEF Plan
    <2>2. QED
      BY <1>1, <1>2, <2>1 DEF QuietInv
  <1>10. CASE Return
    BY <1>10 DEF Return, NoCall, QuietInv
  <1>11. QED
    BY <1>4, <1>5, <1>6, <1>7, <1>8, <1>9, <1>10, ProbeKeepsQuiet DEF Step

THEOREM QuietInvariant == Spec => []QuietInv
  <1>1. Init => QuietInv
    BY DEF Init, NoCall, QuietInv
  <1>2. PInv /\ QuietInv /\ [Next]_vars => QuietInv'
    <2> SUFFICES ASSUME PInv, QuietInv, [Next]_vars PROVE QuietInv'
      OBVIOUS
    <2>1. CASE Step
      BY <2>1, StepKeepsQuiet
    <2>2. CASE Store \/ Unlink \/ Reassemble
      <3>1. ~history'.quiet
        BY <2>2 DEF Store, Unlink, Reassemble, Moved, PInv, HistoryInv
      <3>2. QED
        BY <3>1 DEF QuietInv
    <2>3. CASE Restart
      BY <2>3 DEF Restart, NoCall, QuietInv
    <2>4. CASE UNCHANGED vars
      BY <2>4 DEF vars, QuietInv, Served, ServedBy, OnServedPool
    <2>5. QED
      BY <2>1, <2>2, <2>3, <2>4 DEF Next
  <1>3. QED
    BY <1>1, <1>2, PlacementInvariant, PTL DEF Spec

\* A call that nothing interferes with tells exactly whether its file is on a
\* pool, on any host whose union passes its members' identities through.
THEOREM QuietAnswersAreExact == Spec => []QuietAnswerExact
  <1>1. QuietInv => QuietAnswerExact
    BY DEF QuietInv, QuietAnswerExact, OnServedPool
  <1>2. QED
    BY <1>1, QuietInvariant, PTL
=============================================================================
