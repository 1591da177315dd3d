----------------------------- MODULE Placement ------------------------------
(***************************************************************************)
(* Sizing by placement: planWarm asks whether its file lives on a pool     *)
(* (diskresolve.Resolver.IsPool, wired by cmd/preloadd/placement.go) and   *)
(* drops the spin-up allowance if so.  The question takes several lookups, *)
(* the mover relocates the file between them, and the array may be stopped *)
(* and started under a daemon that classified its members at start.        *)
(*                                                                         *)
(* Paths are sequences of names.  The union share serves a file from the   *)
(* first branch that holds it.                                             *)
(***************************************************************************)
EXTENDS Disks, WarmPlan

CONSTANTS
    Hosts,         \* the hosts considered: see Disks
    unionRoot,     \* <<"mnt", "user">>
    Paths,         \* the paths asked about
    Items, Sizes,
    Inodes, NoFile,
    shfs,          \* the device of the union mount
    MaxMoves       \* moves, removals and reassemblies considered

ASSUME PlacementAssumption ==
    /\ \A h \in Hosts : IsHost(h) /\ Consistent(h)
    /\ NoFile \notin Inodes /\ shfs \notin Filesystems
    /\ \A it \in Items : IsItem(it)
    /\ Sizes \subseteq Nat

VARIABLES
    host,       \* the storage as it is
    holds,      \* the inode of the file on each filesystem, or NoFile
    resolver,   \* [pools, current]: the members New called pools, and whether of this array
    call,       \* one planWarm: where it is and what it knows
    plan,
    moves,
    history     \* since the call began: quiet, served (where from), looked (members probed)

vars == <<host, holds, resolver, call, plan, moves, history>>

NoCall == [pc |-> "ready"]

\* Members are classified once, when the process starts.
New(h) == [pools |-> {n \in Discover(h) : isPool(h, n)}, current |-> TRUE]

\* Mutant: every member is probed, as Resolve does.
poolMembers_all == Discover(host)

poolMembers == resolver.pools

\* The filesystem the union serves the file from.
ServedBy(h, where) ==
    LET holding == {i \in DOMAIN h.branches :
                      /\ h.at[h.branches[i]] # NoFs
                      /\ where[h.at[h.branches[i]]] # NoFile}
    IN  IF holding = {} THEN NoFs
        ELSE h.at[h.branches[CHOOSE i \in holding : \A j \in holding : i <= j]]

Served == ServedBy(host, holds)

Fresh == [quiet |-> TRUE, served |-> {Served}, looked |-> {}]

Init ==
    /\ host \in Hosts
    /\ holds \in [Filesystems -> Inodes \cup {NoFile}]
    /\ resolver = New(host)
    /\ call = NoCall /\ plan = NoPlan /\ moves = 0
    /\ history = Fresh

-----------------------------------------------------------------------------
\* Whether a path is below root, element by element.
relUnder(path, root) ==
    /\ Len(path) > Len(root)
    /\ SubSeq(path, 1, Len(root)) = root

Answer(b) == call' = [call EXCEPT !.pc = "plan", !.pooled = b]

\* planWarm begins.  Without pools there is no predicate, and a path that is not
\* below the union share is not resolved.
Ask ==
    /\ call.pc = "ready"
    /\ \E it \in Items, size \in Sizes, path \in Paths :
         call' = [pc |-> IF resolver.pools # {} /\ relUnder(path, unionRoot)
                         THEN "union" ELSE "plan",
                  target |-> [Item |-> it, Tier |-> "other"], size |-> size,
                  want |-> <<>>, left |-> poolMembers, pooled |-> FALSE]
    /\ history' = Fresh
    /\ UNCHANGED <<host, holds, resolver, plan, moves>>

\* The identity to match.  A union that passes its members' device numbers through
\* reports the file's own; another reports its own device for every file.
StatUnion ==
    /\ call.pc = "union" /\ Served # NoFs
    /\ call' = [call EXCEPT !.pc = "probe",
                            !.want = <<IF host.transparent THEN Served ELSE shfs,
                                       holds[Served]>>]
    /\ UNCHANGED <<host, holds, resolver, plan, moves, history>>

StatUnionFails ==
    /\ call.pc = "union"
    /\ Answer(FALSE)
    /\ history' = [history EXCEPT !.quiet = @ /\ Served = NoFs]
    /\ UNCHANGED <<host, holds, resolver, plan, moves>>

\* What stat of the path under member n answers; empty for an error.
identity(n) ==
    LET fs == host.at[n]
    IN  IF fs = NoFs THEN <<>> ELSE IF holds[fs] = NoFile THEN <<>> ELSE <<fs, holds[fs]>>

\* Mutant: inode numbers are compared without the device they belong to.
SameFile_inodeOnly(want, got) == got # <<>> /\ want[2] = got[2]

SameFile(want, got) == got # <<>> /\ want = got

\* The code probes in the members' sorted order; here any order will do.
Probe ==
    /\ call.pc = "probe"
    /\ \E n \in call.left :
         /\ IF SameFile(call.want, identity(n))
            THEN Answer(n \in resolver.pools)
            ELSE call' = [call EXCEPT !.left = @ \ {n}]
         /\ history' = [history EXCEPT !.looked = @ \cup {n}]
    /\ UNCHANGED <<host, holds, resolver, plan, moves>>

\* A stat that fails for another reason means "keep looking" as well.
ProbeFails ==
    /\ call.pc = "probe"
    /\ \E n \in call.left :
         /\ call' = [call EXCEPT !.left = @ \ {n}]
         /\ history' = [history EXCEPT !.looked = @ \cup {n}, !.quiet = FALSE]
    /\ UNCHANGED <<host, holds, resolver, plan, moves>>

\* ErrUnresolved.
Unresolved ==
    /\ call.pc = "probe" /\ call.left = {}
    /\ Answer(FALSE)
    /\ UNCHANGED <<host, holds, resolver, plan, moves, history>>

Plan ==
    /\ call.pc = "plan"
    /\ plan' = planWarm(call.target, call.size, NoLayout, call.pooled)
    /\ call' = [call EXCEPT !.pc = "planned"]
    /\ UNCHANGED <<host, holds, resolver, moves, history>>

\* Mutant: an answer is kept for the next question about the file.
Return_cached ==
    /\ call.pc = "planned"
    /\ \/ call' = NoCall /\ UNCHANGED history
       \/ call' = [call EXCEPT !.pc = "plan"] /\ history' = Fresh
    /\ UNCHANGED <<host, holds, resolver, plan, moves>>

Return ==
    /\ call.pc = "planned"
    /\ call' = NoCall
    /\ UNCHANGED <<host, holds, resolver, plan, moves, history>>

-----------------------------------------------------------------------------
Moved ==
    /\ moves < MaxMoves
    /\ moves' = moves + 1
    /\ history' = [history EXCEPT !.quiet = FALSE, !.served = @ \cup {Served'}]

\* The mover copies the file, then removes the original; others replace it or
\* leave a duplicate behind.
Store ==
    /\ \E fs \in Filesystems, ino \in Inodes : holds' = [holds EXCEPT ![fs] = ino]
    /\ UNCHANGED <<host, resolver, call, plan>>
    /\ Moved

Unlink ==
    /\ \E fs \in Filesystems : holds[fs] # NoFile /\ holds' = [holds EXCEPT ![fs] = NoFile]
    /\ UNCHANGED <<host, resolver, call, plan>>
    /\ Moved

\* The array is stopped, changed and started; a daemon keeps its classification.
Reassemble ==
    /\ host' \in Hosts \ {host}
    /\ resolver' = [resolver EXCEPT !.current = FALSE]
    /\ UNCHANGED <<holds, call, plan>>
    /\ Moved

Restart ==
    /\ resolver' = New(host)
    /\ call' = NoCall
    /\ plan' = NoPlan
    /\ history' = Fresh
    /\ UNCHANGED <<host, holds, moves>>

Step == Ask \/ StatUnion \/ StatUnionFails \/ Probe \/ ProbeFails \/ Unresolved \/ Plan \/ Return

Next == Step \/ Store \/ Unlink \/ Reassemble \/ Restart

Spec == Init /\ [][Next]_vars

-----------------------------------------------------------------------------
\* isPool: "UNCERTAINTY RESOLVES TOWARD THE ARRAY, at every step"
\* (diskresolve.go:254).  Whatever the kernel withholds, shadows or lists twice, a
\* member called a pool is a mounted filesystem none of whose devices spins.
PoolsNeverSpin ==
    resolver.current => \A n \in resolver.pools : host.at[n] # NoFs /\ ~Spinning(host, n)

\* IsPool: "no array MEMBER path is ever stat-ed" (diskresolve.go:338): however the
\* file moves during the call, no lookup waits for a platter.
NoSpinningLookups ==
    resolver.current => \A n \in history.looked : ~Spinning(host, n)

\* IsPool: an answer is "point-in-time" (diskresolve.go:344) and never durable.  A
\* call nothing interferes with tells exactly whether the file is on a pool now,
\* whatever was answered before it was moved.
QuietAnswerExact ==
    (call.pc \in {"plan", "planned"} /\ history.quiet /\ host.transparent
        /\ call.want # <<>>)
        => call.pooled = (\E n \in resolver.pools : host.at[n] # NoFs /\ host.at[n] = Served)

\* The safety the wiring owes the playback path: a file the union serves from
\* spinning storage all through the call is sized with its spin-up allowance,
\* even with a duplicate of the same name or inode number on a pool.
SpinUpCovered ==
    (call.pc = "planned" /\ resolver.current /\ ~plan.Truncated
        /\ \A fs \in history.served : fs # NoFs /\ host.devices[fs] \cap host.spins # {})
        => LET need == (TargetSeconds * bps(call.target.Item)) \div 8
           IN  {b \in RangeBytes(0, need) : b < call.size} \subseteq ContentBytes(plan)
=============================================================================
