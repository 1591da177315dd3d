# watch-aware-preloader: TLA+ models and proofs

`preloadd` asks a media server what its users are likely to play next, ranks the
answers, and reads the first bytes of those files into the page cache, so that
playback starts while a sleeping array disk spins up. This directory models the
engine (`cmd/preloadd`, `internal/...`), checks the models with TLC on small
instances and proves their main safety properties with TLAPS for every value of
their constants. Paths below are relative to the repository; `plugin/` stands for
`src/usr/local/emhttp/plugins/watch-aware-preloader/`.

## 1. Inventory

| Component | State it keeps | Operations | Talks to | What is hard about it | What makes it correct |
|---|---|---|---|---|---|
| **Target sizing** `preloader/preloader.go`: PlanHead, planWarm, inspectRanges, flatTail, clampTailToContent | none | one call per target | container inspector, pool predicate | boundaries: resume past the end, early resume, cue index before, inside or across the head, caps | ranges disjoint and inside the file, metadata and playback window covered, cost capped |
| **Preload pass** `preloader.go` Run | budget used, RunStats, position in the list | probe, drop, warm, account, one target at a time | page cache, path mapper, sizing | the page cache belongs to everyone; a read fails half-way; cancellation, kill | budget, priority cut, report, skips that are true, repeated passes converge |
| **Page cache access** `pagecache/` | a per-directory "is FUSE" memo; probes abandoned after a timeout | Warm, Resident by mincore or by timing | kernel, mounts | a timed probe reads what it measures; an abandoned probe finishes later; a mount stops answering | an answer "resident" means the bytes are there |
| **Container inspector** `container/container.go` | none | Inspect | file's first MiB | bogus cue pointers | a layout lies inside the file |
| **Daemon loop** `app/daemon.go`, `cmd/preloadd/main.go` | two tickers, last playing signature, context | sweep, poll, stop | media server, pass, status | select order, ticks dropped, a signature remembered before its sweep succeeds | what plays gets swept for; a signal ends it |
| **Status recording** `app/record.go`, `status/status.go` | `status.json`, temporary files | write, sync, rename | every process of the engine, settings page | concurrent writers, crash between steps, power loss, outage before the sweep | readers see whole documents; a failure never leaves a success standing |
| **Candidate collection** `app/pipeline.go` | per-user next-up memo, candidate list | request after request | media server | one failure among many requests, caps, shared input of two tiers | bounded requests, caps count files, one series' failure stays its own |
| **Ranking** `scorer/scorer.go` | map of best claims, sorted list | Rank | collection, pass | items shared by users and tiers; a comparator that must be a strict weak order | best claim kept, slot-major order, ties keep fetch order |
| **Rank resolution** `app/ranks.go` | none | resolveUserKey, ResolveRanks | configuration, ranking | names that mean two users, users named twice, random map order | ranks follow the list, strongest override wins, no bystander |
| **Configuration** `config/config.go`, `app/options.go` | the loaded config | Load, defaults, order cascade, Validate | every part | absent versus empty keys, legacy flags | an upgrade or a partial stanza drops no tier silently |
| **Warm-set projection** `app/estimate.go`, `estimate/estimate.go`, `js/meter.js` | `estimate.json` | ProjectWarmSet, the page's filter of its rows | collection, ranking, settings page | it sizes without reading; it ranks before the page filters; settings change under it | it never promises more room than a sweep has |
| **Residency verification** `app/verify.go` | none | probe what a sweep warmed | page cache | probes a cache that has moved on | reports what it saw |
| **Path mapping, library scope** `pathmap/`, `libscope/`, `cmd/preloadd/pathmap.go` | rules, built once per process | map, detect, allow | docker, collection, pass | rules that shadow or nest in others, docker answering late, not at all or for another container | a mapped path is where the file is; a scope that cannot be applied empties nothing |
| **Placement** `diskresolve/`, `cmd/preloadd/placement.go` | the members classified as pools, once per process | Discover, isPool, IsPool | kernel tables, sizing, mover | a classification from incomplete tables; the mover moves files between lookups; an array reassembled under a daemon | array files get their spin-up allowance; asking wakes no disk |
| **Media server adapters** `mediaserver/` | HTTP client | requests | collection, loop | I/O | - |
| **Settings renderer and actions** `plugin/scripts/rc.preloadd` | `config.toml`, `estimate.json`, cron file, daemon pid | render, run-now, estimate, start, stop | settings page, engine | several of them at once, a file truncated and filled while it is read, an answer computed from old settings | a reader sees a whole configuration; a stale estimate does not return |
| **Settings page** `plugin/*.page`, `include/`, `js/` | form, order list, path map rows | save, poll status | renderer, status, estimate | shares files with running processes | shows what the engine last said |
| **Secrets, system information, diagnostics** | none | reads, read-only subcommands | - | - | - |

Interactions. Cron, the page's run-now and verify, and the resident daemon each run
the same sweep: list users, resolve ranks, collect candidates, rank them, run one
pass under a byte budget, write `status.json`. Nothing locks these processes
against each other; they share the page cache and the status file and nothing
else. The renderer writes the configuration they load at start.

## 2. Modules

```
WarmPlan ── Container ── PlanItem ── MCPlanItem        sizing of one target
   │                └─ PlanItemProofs
   ├── Sweep ── SweepProps ── MCSweep                  passes on the page cache
   │               │   └─ BudgetedPass                 abstract pass
   │               └─ SweepProofs
   └── Placement ── MCPlacement                        is a file on a pool?
         │  └─ PlacementProofs
       Disks
Engine ── EngineProps ── EngineProofs                  processes, loop, status file
Config ── Ranks ── Scorer ── ScorerProps ── Projection ── MCScorer
   │                                            └─ ScorerProofs
   │                                                   configuration to ranked list
   └── Settings ── SettingsProps ── MCSettings         saved settings to the engine
                        └─ SettingsProofs
PathMap ── Collect ── CollectProps ── MCCollect        requests to candidates
                          └─ CollectProofs
Loops                                                  folds, for the proofs of PlanItem,
                                                       Placement, Settings, Scorer, Collect
```

They are the stages of one sweep, cut where the code hands a value over: what
`Collect` calls `cands` is what `Scorer` reads as `listed`; what `Scorer` builds in
`targets` is what `Sweep` is given from `RankedLists`; the answer of `Placement` is the
`pooled` of `planWarm`, which it calls itself; one `RunPass` step of `Engine` is one
pass of `Sweep`, and its fairness rests on `PassTerminates` there. `Config` is shared:
`Settings` loads documents with it, `Ranks` takes the order cascade from it, and
`LoadedDialsSane` shows that what it accepts meets the assumptions `WarmPlan` makes.

**WarmPlan** (operators) translates the sizing code line by line into integer
arithmetic. A plan is the record of the three ranges: `[0, front)`,
`[offset, offset + head)`, `[tailOffset, tailOffset + tail)`.

**Container** (operators) is `container.Inspect`, one operator per loop and per case of
the loop's switch: `Walk` folds `SegmentChild` over the Segment's children, carrying the
first Cluster and what has been recorded; `parseSeekHead` folds `SeekElement` over a SeekHead,
carrying `curID` and the map `seek`. An element is what `readVint` makes of its bytes; one
that cannot be read ends the loop it occurs in.

**PlanItem** makes one call of `planWarm` for every combination of a target, a file
size, a container front and a placement, and sets it against the budget meter's
`projectBytes`.

**Sweep** is `Preloader.Run`. `pc` walks through one target: `target` (mapped?
exists?), `probe` (content, then front, then cue, stopping at the first that is
not resident), `admit` (the budget guard), `warm` (content, which is fatal, then
the two best-effort sides), `account`. `cache` is the page cache, one byte standing
for a page. `ProbeMincore` counts pages; `ProbeTiming` reads a sample and thereby
loads it, and answers by how long that took: a cold sample may come back fast enough to
pass for resident at any time, a cached one may come back late only while the
environment is not quiet; `ProbeTimeout` gives up and leaves a read in `late`, which `LateRead`
completes whenever it likes. `Warm` reads a range or, failing, a prefix of it. The
environment evicts, reads files for others, wedges a mount, cancels the context,
kills the process. `verdicts`, `readIn` and `disturbed` are history variables the
properties speak of; the program does not have them. One pass follows another.

**BudgetedPass** is what a pass promises without how: walk the list from the top,
one verdict per target, charge within the limit, end at the first that does not
fit. `SweepProps!Abstract` is the refinement mapping.

**Engine** has the daemon and any number of one-shot processes. `Tick`, `SweepTick`,
`Poll`, `PollFails` and `Stop` are the select loop, with ticker channels of capacity
one in `due`; `ListUsers` to `RunPass` are the recorded sweep; `CreateTemp`,
`WriteTemp`, `SyncTemp`, `Publish` and `WriteFails` are `status.Write`. `settled` is
what the disk holds should the power fail: a rename that was not flushed may be
undone, and data that was not synced is lost. Of the status document only the
outcome of the sweep is kept.

**Config** (operators) is what a `config.toml` means: a document is a function from
the keys it defines to their values, so that an absent key is told from a zero;
`Load` decodes, fills in defaults, derives the tier order and validates; `Accepts` says
what it refuses: an unknown tier in an order, a `server.api_key`, what `Validate` rejects.

**Settings** is `rc.preloadd` around it. A save starts a `render`, which reads the
`.cfg` (`Read`), empties `config.toml` (`Truncate`), fills it in two steps (`Pour`,
`Fill`), removes `estimate.json` (`Drop`) and writes the cron entry (`render_cron`). Two
renders may overlap and write over each other's text; each may fail; the machine may
lose power. Meanwhile cron starts sweeps (`SweepLoads`) and the operator projections, which
load whatever is there, or refuse it. `config.toml` may at first be what an earlier release or a
text editor left there (`Left`). `clean`, `torn` and `swept` are history: how the last render
went, and whether cron's last sweep since the last save ran with the saved settings, with
others, or was refused.

**Ranks** holds the pure operators from configuration to priority, with spellings as
model values: `cfgKeyNormalize` is a constant function, `Spellings` their sorted
order. `Applied` is one of the three loops that apply overrides, for the keys that bind
in given ways; `overrides` runs them weakest first, as the code does. `put` stores into a map.

**Scorer** is `Rank`. The loop over the candidates takes one step per candidate,
chosen as it is read; the stable sort takes one step per element (Go's
`sort.SliceStable` is an insertion sort on blocks of twenty, and this is that sort on
lists shorter than a block).

**Projection** (operators over `Scorer`'s state) is the meter: the rows that
`ProjectWarmSet` writes when `Scorer` ranks the call `fullCfg` makes, the library each
row is attributed to and the bytes it is sized at, and the page's `wapAggregate`, which
filters, caps and adds up the bytes; set against the bytes of what a sweep under the same
boxes would collect.

**PathMap** (operators) takes a server's path to a path of the host, a path being the
sequence of its names: rules by length, the UNC convention, the `/mnt` fallback, and the
rules docker detection makes of a container's mounts. `Keep` is the filtering loop it
shares with the collection.

**Collect** is `CollectCandidates` with one step per request. The server answers any
of the configured lists, a request may fail, the context may end. It collects for a
sweep or for an estimate, which lists every user and tier under its own ceilings and
limits its look-aheads. `asked`, `offered` and `failures` are history.

**Disks** (operators) is the classification of a member: `Discover`, the newest mount
at a directory, its devices by `/sys/fs/btrfs`, their `rotational` flags. A host is
what there is and, apart from it, what the kernel lets the program read of it.

**Placement** is `IsPool` lookup by lookup (`Ask`, `StatUnion`, `Probe`, `Unresolved`),
followed by the plan it decides, while the mover stores and unlinks the file on any
filesystem (`Store`, `Unlink`) and the array is stopped, changed and started under a
daemon that keeps its classification (`Reassemble`).

## 3. Runs

| Run | Question | Result |
|---|---|---|
| `PlanItem` | every argument combination of small sizes, every kind of SeekHead | 115,200 states, passes |
| `Sweep` | passes over three ranked targets with every disturbance | 1,592,752 states, passes |
| `SweepLive` | does every pass end, do passes restore the warm set? | 373,012 states, passes |
| `SweepWedged` | does a pass end on a mount that wedges? | no (finding) |
| `Engine` | daemon and a one-shot writing status, failures, kills, power loss | 1,729,200 states, passes |
| `EngineLive` | is what plays eventually swept for, does a signal end the daemon? | 209,312 states, passes |
| `Scorer` | names, flags, candidate lists, projections | 355,552 states, passes |
| `MeterLow` | does the meter err high whatever users share? | no (finding) |
| `Collect` | answers, failures and cancellation in every order; rules, mounts, scopes | 376,136 states, passes |
| `Placement` | lookups against the mover, on hosts that withhold answers | 283,557 states, passes |
| `Settings` | saves, overlapping and failing renders, reboots, readers | 371,687 states, passes |
| `StaleEstimate` | is a projection of superseded settings ever shown? | yes (finding) |

What the properties say:

- *Sizing.* `RangesDisjoint`: the cost charged is the number of bytes named.
  `FrontMetadataCovered`: what a player reads on open is inside front and content windows
  together, also when an early resume cuts the front short. `PlaybackWindowCovered`.
  `IndexFoundAsWritten`: whatever damaged entries surround it, the index is where the first
  sound Cues entry points, and nowhere if there is none. What is sound is said of the elements
  alone (a whole position, right before it a whole SeekID of Cues), and what is found comes
  out of the loop with its `curID`. `CueStartWarmedUnlessBeforeContent` and
  `MeterErrsHighOnFlatTails` are what holds of two broader promises: see section 4.
- *Pass.* `BudgetHonoured`. `OnlyFailedHeadsUncharged`: every byte read is recorded, or
  belongs to a content read that failed. `PreloadedContentResident`,
  `SkippedAreResident` (where mincore counts pages: nothing done between the three
  probes can falsify a skip short of eviction) and `SkippedSamplesResident` (what is
  left of it where residency is timed). `IsBudgetedPass` is the refinement; that a
  lower priority never takes budget a higher one was refused (`NothingBelowTheCut`)
  follows from it and is proved. `PassTerminates`, `EventuallyWarm` (where mincore counts
  pages every range of every target comes back; where residency is timed, the samples: see
  section 4). The residency properties exempt a file while it is `disturbed`, that is, once
  it has lost pages since the pass began: a skip that an eviction falsified is not their
  matter but `EventuallyWarm`'s.
- *Processes.* `StatusNeverTorn`, `OutcomeRecorded` (a process between sweeps has
  recorded its last outcome unless the write itself failed), `PlaybackEventuallySwept`,
  `SignalStopsDaemon`.
- *Priority.* `RanksFollowTheList`, `StrongestOverrideWins`, `NoBystander`,
  `LegacyFlagsHonoured` state resolution without the algorithm: by first mention, by
  strength of binding, by who else could be meant, by what each flag says.
  `BestClaimKept` holds of the loop whatever order it reads candidates in;
  `StablePriorityOrder` is about every pair of the list, so it fails if the comparator
  were not transitive or the sort not stable.
- *Projection.* `MeterErrsHighOnUnsharedItems`: for every selection the boxes can
  express, the bytes the page shows are no fewer than those of the targets a sweep would
  warm, if nobody shares an item and resume is not capped. The caps make it delicate: the page
  takes them off the ranked rows after its filters, the sweep off the server's list before its
  own. It is all that is true of `Projection`'s `MeterErrsHigh`, see section 4.
- *Collection.* `RequestsBounded`, `CapsCountFiles`, `SeriesFailureIsLocal`;
  `TruncationNeverHidden`: an estimate that was cut short says so. `MappedPathsAreReal`: a
  path whose mount has a rule is mapped to where the file is, compared with what the
  container sees rather than with the rules. `ScopeHonoured`: filtering keeps what lies
  in a selected library on disk, and everything when no location maps.
- *Placement.* `PoolsNeverSpin`, `NoSpinningLookups`, `QuietAnswerExact` (a call that
  nothing interferes with is right), `SpinUpCovered` (a file on spinning storage
  throughout the call keeps its allowance, even with a duplicate on a pool). The last two
  are about calls: files move and arrays change between them, and a move in the middle
  of one is outside what they promise, as the code accepts a stale answer then.
- *Settings.* `LoadedDialsSane`: whatever a process finds in `config.toml`, half written or
  edited by hand, the dials it works with are those the sizing relies on.
  `OrdersAlwaysLoad`, `UpgradeKeepsOrder` relate the shell's reading of an old `.cfg` to the
  engine's. `StaleEstimateStraddles`: only a projection already under way when a render
  dropped the old one can outlive its settings. `SavedSettingsDecide`: once a render has run
  alone to its end, what was saved last decides every sweep for good: settings the engine
  loads are swept with, settings it refuses stop every sweep.

### Bounds, and why they are enough

- *PlanItem:* files up to 12 bytes, heads 3 to 5, tails up to 3, a front read of 3, three
  children, SeekHeads of up to two entries of every kind and of odd elements between them:
  small enough for every relative position of the three ranges, the file's end and the resume
  point, including all ties.
- *Sweep:* two files (one counted, which others read, and one timed, whose mount may wedge;
  `SweepLive` has others read both and no mount wedge), three targets of two users, one
  unmapped. The budgets are one under which the second target is dropped and one under which
  both nearly fit. Every property is about one target, or about a target and those ranked
  above it, so two mapped targets show each of them; an earlier target's accounting is what a
  later one meets.
- *Engine:* a daemon and one one-shot, two crashes: two writers suffice for every
  overlap of a rename with another's write, and a third only repeats one of them.
  `EngineLive` drops the one-shot, which the loop never looks at. `MaxCrashes` bounds
  only crashes that leave a file behind.
- *Scorer:* up to three users over four spellings, two of which are the dashed and
  the underscored form of one; enabled lists of up to three names; every set of
  override keys; every set of legacy flags; up to four candidates out of eight
  (`MaxCandidates`), two users, three configurations. A dedupe or ordering fault needs
  two or three candidates. For the projection: six candidates, three libraries of which
  two share a location, heads and tails of four different sizes, selections of users,
  libraries and tiers with caps of none and one.
- *Collect:* two users, lists of up to five entries with and without files, caps of
  none, one and two, an estimate's ceilings of four files and two look-aheads, five
  library selections; a container alone, with an operator's rule, and behind a second
  server's container, each with docker answering and not. The rules nest two deep.
- *Placement:* a pool of two SSDs, one of an SSD and a hard disk, an array disk and a
  bind mount of it; two inodes; `MaxMoves` = 2, so a file can be copied and its original
  removed between any two lookups. Where the union mount reports a device number of its
  own (`transparent` is FALSE) no lookup ever matches: every answer is "array", which is
  safe but makes the optimisation inert.
- *Settings:* four editions of the `.cfg` (shipped, older, hand-edited into zeros and
  duplicates, contradictory and therefore refused by the engine), five states of `config.toml`
  at boot (none, half a file, the shipped one, one with an API key, one edited by hand), two
  overlapping renders, one save after boot (`MaxSaves`),
  one power cut (`MaxReboots`), one projection at a time (`MaxInFlight`), a half-written
  file cut after 2, 5 or 10 keys (`Cuts`) and inside numbers and tables. A stale
  projection takes one of each; two renders show every overlap of two writers.

### Fairness

`Sweep!FairSpec` assumes that the process runs (a pass is a loop of system calls that
return on a healthy mount) and that cron starts the next pass
(`render_cron`, `rc.preloadd:372-381`). It assumes nothing of disturbances;
`EventuallyWarm` is about the time after `Quieten`, when evictions, errors and kills
have stopped. `Engine!FairSpec` assumes that processes run, that tickers tick, and
strong fairness of the three select cases, because Go's `select` picks uniformly
among the ready ones; without it the context could be passed over for ever. That a
pass ends is an assumption of `Engine` and a checked property of `Sweep`. `Settings`
assumes that a script nobody stops runs on and that cron keeps starting sweeps; not
that a render succeeds, which is why `SavedSettingsDecide` speaks of the time after one
has (`clean`). The other specifications have none; deadlock checking is off in runs
whose program ends or whose bounded disturbances run out (a call that returned, a pass
that wedged, the last plan).

## 4. Findings

- `MeterLow`. The projection ranks, and so deduplicates, before the page filters; a sweep
  filters first. An item that two users or tiers share has one row: with that user
  unticked, the meter counts nothing for it and a sweep for the other warms it.
  `MeterErrsHigh` fails in a second way, which the run does not reach first: of a capped tier
  the meter keeps the first by rank and the sweep the first by the server's order. Resume
  is ranked by depth, so with a cap on it the two keep different items even where nobody shares
  any, and the meter's may be the smaller ones.
- `SweepWedged`. The probe has a deadline; the read that follows a timed-out probe has
  none, so a wedged mount still stalls the sweep.
- `StaleEstimate`. A projection that loaded the old `config.toml` is published after
  `render` has removed `estimate.json`; nothing marks it as computed from other settings.

Met while modelling and not checked by a run of their own:

- `clampTailToContent` moves the tail's start to the end of the content
  window whenever it lies before it. A cue index that lies between the front window
  and the resume offset is thus lost, in part or whole, though the comments say that
  the warm always starts at the cue index and that only covered bytes are dropped.
- The meter allows a resume target 16 MiB of front and the flat tail;
  a parsed cue tail may be 64 MiB. A sweep then charges more than projected, though the
  comment says that the meter over-estimates.
- `how-it-works.md` says (lines 94-96) that after anything evicts the cache the next sweep
  sees reality and re-warms. On a FUSE mount it need not: if the sample at the start of a range
  is still cached, or comes back faster than `probe_threshold`, the range is taken for
  resident (`resident_linux.go:139`), and no later sweep warms what is missing behind it.
  `EventuallyWarm` promises only the samples there; `Warmed` without that exception is
  violated.
- `render` exits 0 for settings the engine refuses, such as a `min_head_mb` above
  `max_head_mb`, and its comments only concern themselves with orders (`rc.preloadd:175-181`).
  Every sweep from then on ends in `config.Load`, and only the syslog says so, since the engine
  learns where `status.json` is from the configuration; `SavedSettingsDecide` states it.
- A skipped target is not charged, so what passes leave warm may
  exceed the budget the documentation calls the share of RAM the warm set may occupy.
- The timed probe reads the first `probe_bytes` of a range and makes that sample
  resident. If the target is then not warmed, the next pass skips it although the rest
  is cold. The comments own up to the side effect; `SkippedSamplesResident` states what a
  skip still means there.
- A path rule for `/` matches only `/` itself and UNC paths, although `normalizePrefix`
  takes care to preserve it (`PathMap!matches`).
- A bind mount nested inside a selected library's location is outside it by host path,
  and its items are dropped; `ScopeHonoured` names that exception. A nested mount that
  detection ignores (a volume) is claimed by the rule around it, so its files map to a
  path that is not theirs; `MappedPathsAreReal` excludes it through `Known`. So is a mount
  under `/mnt` that has the same path on both sides and no rule of its own, once a rule
  lies around it.

## 5. Proofs

Eight modules of theorems. They assume what the modules assume of their constants:

- `DialsAssumption` and `FrontReadAssumption`: what `config.Validate`, the defaults and
  the comment on `inspectRanges` guarantee of the dials (`DialsAreSane` proves that every
  configuration that loads meets the first);
- `MaxChildrenAssumption`, `ItemsAssumption`, `DisksAssumption`;
- `SweepAssumption`: files have sizes, layouts lie inside them, targets name known users
  and tiers; `EngineAssumption`: numbers of processes and of crashes;
- `CollectAssumption`: users differ, caps are not negative and an estimate's are positive,
  the server answers with lists of items;
- `PathsAssumption`: reported paths are clean (no `.` or `..`), an UNC one names a host and a
  share, docker mounts nothing at `/` and no two mounts of one container in the same place.
  What the sources of mounts and the targets of the operator's rules look like, how mounts
  nest and which rules contradict each other is left open;
- `PlacementAssumption`: the kernel may withhold an answer but gives no false one;
- `EditionsAssumption`: numeric settings are integers and saved orders are lists of names,
  which need not be names of tiers; `LeftAssumption`: so are the dials of a document found in
  `config.toml` at boot, of which nothing else is assumed;
- `SpellingsAssumption`: `'-'` to `'_'` done twice is `'-'` to `'_'` done once;
  `CallsAssumption`: users and configurations are of the types Go gives them (`UserType`,
  `IsCfg`), and resume positions are integers. No assumption says that IDs or names differ,
  that a key means anybody or that a tier is listed once;
- `LibrariesAssumption`: caps of a selection are natural numbers, of tiers there are;
  `UniverseAssumption`: what is collected for an estimate is stamped with one of its users
  and a tier there is, as `CollectCandidates` does in its two loops; `BytesAssumption`: sizes
  are natural numbers.

TLC evaluates each of them on every run of a module that extends theirs.

- **Loops**: what a fold is, for the proofs that meet one. `FoldLeft` is defined through a
  recursive function on sets of indices, which no lemma of the library describes.
  `LoopRuns` shows that for a step that stays in a set there is such a function, and that its
  values on `1 .. k` follow from one another; `LoopValues` that the fold is the last of them; so
  a proof states what the loop has computed after `k` elements and shows that one
  element keeps it. The induction is over numbers up to a bound and stated with a set
  (`UpTo`, from `LeastNat`), so it needs no operator parameter. `MaxIsGreatest` is the
  fact about `Max` all this turns on.
- **PlanItemProofs**: first, lemmas on sizing. `PlanSane` (disjoint, inside the file,
  capped) is the one everything else cites; it goes through `InspectedSidesSane`,
  `FlatSidesSane` and `ClampKeepsTailOutside`. `MetadataInFrontOrHead` needs
  `FrontReadAssumption`: without it an early resume could leave a gap.
  `HeadCoversTarget` and `FloorIsLeast` handle the integer divisions, `CueStartInPlan` the
  three places a cue index can be in. Then `PlanIsAnswer`, the inductive invariant (a plan
  is planWarm's answer to its request, requests are well typed, and the layout is what
  `Inspect` finds); each property of the run `PlanItem` follows from it and a lemma.
  `IndexIsFoundAsWritten` is about the two loops of `Inspect` as loops: `OneElementMore` says
  that `curID` is always the SeekID that still waits for a position, if one does, and that the
  position recorded for Cues is the first sound one so far, and `OneChildMore` that the walk
  keeps what the first SeekHead told; `SeekHeadTold` and `WalkTold` carry both to the end
  with the facts on folds from `Loops`.
- **SweepProofs**: `TypeInvariant`, one lemma per action, strengthens `TypeOK` by where
  `pc`, the position and the lists agree. `BudgetInvariant` adds that what a target
  will cost fits while it is being warmed: `used <= budget` alone is not inductive,
  because the guard is several steps before the charge. `NothingIsBelowTheCut`.
  `SweepIsBudgetedPass` maps each step to a step of the abstract pass or a stutter;
  it needs the typing and the budget invariant for `Charge`.
  `ResidencyInvariant` is about the page cache. "Resident unless disturbed" is not
  inductive for a verdict alone; the invariant also carries what the probes of the
  current target have established so far, and that no step of the program or of
  another reader removes pages. `SkipsAreSound`, `SkippedSamplesAreSound` and
  `PreloadsAreSound` follow. `ReportInvariant` ties what has been read so far to what
  the target will be charged, through the window between a read and its accounting in which
  they differ; `OnlyFailedHeadsGoUncharged` follows.
- **EngineProofs**: `EngineInvariant` says that a process that is writing has an
  outcome and renames only what it has synced, and that both the visible status and
  the one a power loss may bring back are whole. From it `StatusIsNeverTorn`,
  `OutcomesAreRecorded` and the typing, for any number of one-shots and any bound on
  crashes.
- **PlacementProofs**: `PoolStaysUp` proves the classification sound on every host of
  `PlacementAssumption`, through `BackingDevicesTrue` (the device list judged is that of
  the filesystem mounted there). `PlacementInvariant` carries that a matching lookup names
  a filesystem the file was served from during the call, which a stat alone does not say
  after the mover has been by; `SpinUpIsCovered` joins it with
  `HeadCoversAllowance`, on the division that sizes a head.
  `QuietInvariant` is about a call nothing interferes with: the identity it wants is that of
  the filesystem the union serves the file from (`ServedIsHeld`), and every pool it has
  ruled out is another one. `QuietAnswersAreExact` follows, in both directions.
- **SettingsProofs**: `SettingsInvariant` says that `config.toml`, also when it is a splice of
  several renders or somebody's edit, holds integers where the dials are (`BeginningsNumeric`,
  `OverNumeric`, `RenderedNumeric`); `LoadedDials` shows that decoding, defaults and
  validation leave only sane ones. `ProjectionInv` is about the projections still under way as
  well as the published one, without which `StaleEstimateStraddles` is not inductive.
  `RenderedOrdersLoad` and `UpgradesKeepOrder` are about two programs in two languages: the
  script's filter on saved names against `validateOrder`, and the script's derivation of an
  order from old flags against `deriveLegacyOrder`; the derivation is a fold.
- **ScorerProofs**: first the two folds of `ResolveRanks`. `NoBystanderIsBound` needs only
  what a key can resolve to. `OverridesByStrength` describes each of the three applications as a
  loop (who has been given an order, by a key of which strength) and composes them;
  `RanksAreTheOrder` describes the loop over the enabled keys (`0 .. n-1` are given, in the
  order of first mention); `FlagsAreHonoured` the derivation of an order from flags. Then the
  two loops of `Rank`, which are steps of the specification. `ClaimInvariant` says that
  the kept claims are for the items ranked so far, one each, and that none seen so far
  beats the one kept. `SortInvariant` says of an insertion sort what it is: the
  first `n` kept claims, in another order, sorted, and with equal claims in the order kept.

  The last part compares two sums over a list of any length, the sweep's bytes and the
  meter's. Every item swept has one row (`EachItemOneRow`, over `RowsOfTheProjection`: under
  `fullCfg` everything is slotted, so everything listed is kept, sorted and becomes a row),
  ticked by the same boxes (`SweptHaveRows`; `OneLibrary` for the library box). The caps
  are where bytes need more than counts: the sweep takes the first candidates of a user and tier
  as fetched, the meter the first rows as ranked, and only if these are the same items is the
  sum the same. `FirstSeenIsFirst`, an invariant of the deduplication, says that the kept
  claims stand in the server's order, and `RowsInOrder` that within a tier other than resume
  the sort leaves them in it; so what is among the first to be fetched is among the first to
  be ranked (`SweptAreCapped`). `TotalAdds` is what a sum is, a fold, and `NoMoreInTotal` that
  an injection into rows of the same size cannot lose bytes. `MeterNeverReadsLow` follows.

- **CollectProofs**: `KeepKeeps` says what the filtering loop leaves (a fold again), and
  `CollectTyped` that pc, the indices, the lists and the history agree. `RequestInv` counts
  requests. A bound alone is not inductive: what keeps look-aheads under the next-up cap
  is that they follow a list which was cut to it, so `Past` says how far down the list the
  look-ahead is, and `FreshInv` that nothing has been asked for the users still to come, nor
  their list read before the one tier that may. `OfferInv` says that the tiers collected are
  those due before the one at hand, once each; with `FailInv` it gives
  `SeriesFailuresStayLocal`. `CountInv` and `FilesInv` say of each of them how many
  candidates it added and what its user's list and look-aheads have to do with that;
  `CapsAlwaysCountFiles` and `TruncationAlwaysTold` follow. Users, lists, caps and ceilings
  are of any size.

  The second half is about paths. `WorldInv` is all the state it needs (the world is one of
  the situations', the operator's rules come first in the mapper), the rest is a
  comparison of two answers. `KnownIsMapped`: the rule a path meets first is honest
  (`FirstIsHonest`: the contradicting one would come later), and lies at the deepest mount
  above the path or below it, so that joining what is left of the path to its target gives
  the same as joining what is left to the mount's source (`RuleReaches`, over `DeepestStays`
  and `ThroughJoins`); `ShareIsReal` is the case of the convention for shares, with
  `CleanIs` for `path.Clean`, a fold. `MappedPathsAlwaysReal` follows. For
  `ScopeAlwaysHonoured`, `InsideMatches` shows that a path inside a location meets the rules
  the location meets, unless one lies between them, and `InsideMapped` that the host path
  of the location then begins the host path of the file.

Only model-checked: every liveness property (`PassTerminates`, `EventuallyWarm`,
`PlaybackEventuallySwept`, `SignalStopsDaemon`, `SavedSettingsDecide`), which are beyond the
prover, as is whatever needs ENABLED. Every invariant a passing run checks has a theorem. No
module a theorem reaches declares a RECURSIVE operator.

## 6. What is left out

Of the parts that are modelled:

- `FileSize` is a constant: truncation or replacement between Stat and the reads.
- The FUSE memo of the page cache package: a file is on FUSE or not for good.
- int64 widths: byte counts are plain integers. File sizes, bitrates and positions of
  real media leave `target_seconds * bps` and `ResumeOffset * bps` many orders of
  magnitude below 2^63, and a dial of MiB overflows its shift by 20 only from 2^43 on;
  `Validate` sets no upper limits.
- Durations are whole seconds; the page-alignment arithmetic of the mincore mapping;
  the bytes `readVint` decodes; the non-Linux build.
- In `Settings`, a render reads the `.cfg` at one instant (the script greps it key by
  key); texts of renders laid out differently mix only as a document that is refused or
  one layered over the other; numbers with leading zeros, which TOML rejects; path
  maps, caps and the locations of secrets and status; the spelling that
  `override_id_for_key` restores.
- In `Projection`, a sweep charges a target what its row says; that it never charges more, but
  for the tail of an inspected container, is `PlanItem`'s subject. The now-playing set is the
  same for meter and sweep, and the next-up cap's limit on look-aheads is left out on the
  sweep's side, which only enlarges the sweep it is compared with.
- In `PathMap`, names are units: slashes inside a name, trailing slashes and case.
- A pass cut short by its context is recorded as a run without an error, with the
  counts it reached (`Engine` calls that outcome `cut`); whose status is read last
  when writers overlap is decided by the last rename, not the last start.

Not modelled:

- Residency verification: it probes what the pass recorded with the probe `Sweep` has,
  prints percentages and changes nothing.
- Media server adapters: HTTP and JSON without state. `Collect` takes every answer and
  every failure a request can have.
- Secrets, system information, diagnostics; `test_connection`, the pickers, seeding and
  string escaping of `rc.preloadd`; forms and markup of the page; logging.
- `diskresolve.Resolve`, which nothing calls.

## 7. Plan

What would come next, in this order:

1. A file that shrinks, and a FUSE memo that goes stale, as environment steps of `Sweep`:
   the two hazards without a property. Both disturb the residency invariant only
   through `disturbed`.
2. Verification after the sweep on the cache of `Sweep`: what it reports against
   `stats.Warmed`.
3. Paging and the error classes of the adapters, as far as they decide what the
   collector sees.
