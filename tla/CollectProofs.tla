---------------------------- MODULE CollectProofs ----------------------------
(***************************************************************************)
(* What collection owes, for any users, server, caps and worlds.  A first  *)
(* invariant types the state; one on requests counts what a user has been  *)
(* asked for; one on contributions counts what the tiers before the one at *)
(* hand have added.  The last part compares what the mapper answers with   *)
(* where the files are.                                                    *)
(***************************************************************************)
EXTENDS CollectProps, Loops, SequenceTheorems, FiniteSetTheorems

-----------------------------------------------------------------------------
(***************************************************************************)
(* The filtering loop.                                                     *)
(***************************************************************************)
\* What the loop has kept after k elements.
Kept(kept, list, wanted, k) ==
    /\ ToSet(kept) = {list[i] : i \in 1 .. k} \cap wanted
    /\ (\A i \in DOMAIN list : list[i] \in wanted) => kept = SubSeq(list, 1, k)

LEMMA OneMoreKept ==
    ASSUME NEW T, NEW list \in Seq(T), NEW wanted, NEW k \in 0 .. (Len(list) - 1),
           NEW kept \in Seq(T \cap wanted), Kept(kept, list, wanted, k)
    PROVE  LET new == IF list[k + 1] \in wanted THEN Append(kept, list[k + 1]) ELSE kept
           IN  new \in Seq(T \cap wanted) /\ Kept(new, list, wanted, k + 1)
<1>. DEFINE x   == list[k + 1]
            new == IF x \in wanted THEN Append(kept, x) ELSE kept
<1>1. /\ k \in Nat /\ k + 1 \in 1 .. Len(list) /\ Len(list) \in Nat /\ DOMAIN list = 1 .. Len(list)
      /\ 1 .. (k + 1) = (1 .. k) \cup {k + 1} /\ x \in T
  OBVIOUS
<1>2. {list[i] : i \in 1 .. (k + 1)} = {list[i] : i \in 1 .. k} \cup {x}
  BY <1>1
<1>3. x \in wanted => Append(kept, x) \in Seq(T \cap wanted) /\ ToSet(Append(kept, x)) = ToSet(kept) \cup {x}
  <2>. SUFFICES ASSUME x \in wanted
                PROVE  Append(kept, x) \in Seq(T \cap wanted) /\ ToSet(Append(kept, x)) = ToSet(kept) \cup {x}
    OBVIOUS
  <2>. DEFINE a == Append(kept, x)
  <2>1. /\ a \in Seq(T \cap wanted) /\ Len(a) = Len(kept) + 1 /\ a[Len(kept) + 1] = x
        /\ \A i \in 1 .. Len(kept) : a[i] = kept[i]
        /\ DOMAIN a = 1 .. (Len(kept) + 1) /\ DOMAIN kept = 1 .. Len(kept) /\ Len(kept) \in Nat
    BY <1>1
  <2>. HIDE DEF a
  <2>2. 1 .. (Len(kept) + 1) = (1 .. Len(kept)) \cup {Len(kept) + 1}
    BY <2>1
  <2>3. ToSet(a) = ToSet(kept) \cup {x}
    BY <2>1, <2>2 DEF ToSet
  <2>. QED
    BY <2>1, <2>3 DEF a
<1>4. new \in Seq(T \cap wanted)
  BY <1>3
<1>5. ToSet(new) = {list[i] : i \in 1 .. (k + 1)} \cap wanted
  <2>1. ToSet(kept) = {list[i] : i \in 1 .. k} \cap wanted
    BY DEF Kept
  <2>. HIDE DEF x
  <2>. QED
    BY <1>2, <1>3, <2>1
<1>6. ASSUME \A i \in DOMAIN list : list[i] \in wanted
      PROVE  new = SubSeq(list, 1, k + 1)
  <2>1. kept = SubSeq(list, 1, k) /\ x \in wanted
    BY <1>1, <1>6 DEF Kept
  <2>. QED
    BY <1>1, <2>1
<1>. QED
  BY <1>4, <1>5, <1>6 DEF Kept

LEMMA KeepKeeps ==
    ASSUME NEW T, NEW list \in Seq(T), NEW wanted
    PROVE  /\ Keep(list, wanted) \in Seq(T \cap wanted)
           /\ ToSet(Keep(list, wanted)) = ToSet(list) \cap wanted
           /\ (\A i \in DOMAIN list : list[i] \in wanted) => Keep(list, wanted) = list
<1>. DEFINE A           == Seq(T \cap wanted)
            op(kept, x) == IF x \in wanted THEN Append(kept, x) ELSE kept
            step        == [p \in A \X T |-> op(p[1], p[2])]
            Solves(iter) == iter = [S \in SUBSET DOMAIN list |->
                                      IF S = {} THEN <<>> ELSE op(iter[S \ {Max(S)}], list[Max(S)])]
            it == CHOOSE iter : Solves(iter)
            n  == Len(list)
<1>0. n \in Nat /\ DOMAIN list = 1 .. n /\ <<>> \in A
  OBVIOUS
<1>1. Keep(list, wanted) = it[DOMAIN list]
  BY DEF Keep, FoldLeft, MapThenFoldSet
<1>2. /\ step \in [A \X T -> A]
      /\ \A kept \in A, x \in T : step[<<kept, x>>] = op(kept, x)
  <2>1. ASSUME NEW kept \in A, NEW x \in T PROVE op(kept, x) \in A
    OBVIOUS
  <2>. HIDE DEF op, A
  <2>. QED
    BY <2>1
<1>. HIDE DEF step, op
<1>3. Solves(it)
  <2>. HIDE DEF A
  <2>1. PICK iter : Iterates(iter, <<>>, step, list) /\ Stays(iter, A, T, list)
    BY <1>0, <1>2, LoopRuns
  <2>2. Solves(iter)
    BY <1>2, <2>1 DEF Iterates, Stays
  <2>. QED
    BY <2>2
<1>. HIDE DEF it
<1>4. Follows(it, A, step, list)
  <2>. SUFFICES ASSUME NEW k \in 1 .. n, it[1 .. (k - 1)] \in A
                PROVE  it[1 .. k] = step[<<it[1 .. (k - 1)], list[k]>>]
    BY DEF Follows
  <2>1. /\ Max(1 .. k) = k /\ (1 .. k) \ {k} = 1 .. (k - 1)
        /\ 1 .. k # {} /\ 1 .. k \in SUBSET DOMAIN list
    BY Beginning
  <2>2. it[1 .. k] = op(it[1 .. (k - 1)], list[k])
    BY <1>3, <2>1
  <2>. HIDE DEF Solves, A
  <2>. QED
    BY <1>0, <1>2, <2>2
<1>5. it[{}] = <<>>
  BY <1>3
<1>. HIDE DEF Solves
<1>6. Runs(Along(it, list), A, <<>>, step, list)
  <2>. HIDE DEF A
  <2>. QED
    BY <1>0, <1>2, <1>4, <1>5, LoopValues
<1>. DEFINE run == Along(it, list)
            P   == {k \in 0 .. n : Kept(run[k], list, wanted, k)}
<1>7. /\ run \in [0 .. n -> A] /\ run[0] = <<>>
      /\ \A k \in 1 .. n : run[k] = step[<<run[k - 1], list[k]>>]
  BY <1>6 DEF Runs
<1>8. run[n] = Keep(list, wanted)
  BY <1>0, <1>1 DEF Along
<1>. HIDE DEF run
<1>9. 0 \in P
  BY <1>0, <1>7 DEF Kept, ToSet
<1>10. \A k \in 0 .. (n - 1) : k \in P => k + 1 \in P
  <2>. SUFFICES ASSUME NEW k \in 0 .. (n - 1), k \in P PROVE k + 1 \in P
    OBVIOUS
  <2>1. k \in 0 .. n /\ k + 1 \in 1 .. n /\ (k + 1) - 1 = k /\ list[k + 1] \in T
    BY <1>0
  <2>2. run[k] \in A
    BY <1>7, <2>1
  <2>3. run[k + 1] = op(run[k], list[k + 1])
    BY <1>2, <1>7, <2>1, <2>2
  <2>4. Kept(run[k], list, wanted, k)
    OBVIOUS
  <2>5. Kept(op(run[k], list[k + 1]), list, wanted, k + 1)
    BY <2>2, <2>4, OneMoreKept DEF op
  <2>. QED
    BY <2>1, <2>3, <2>5
<1>11. n \in P
  <2>. HIDE DEF P, n
  <2>. QED
    BY <1>0, <1>9, <1>10, UpTo
<1>12. run[n] \in A /\ Kept(run[n], list, wanted, n)
  BY <1>0, <1>7, <1>11
<1>13. SubSeq(list, 1, n) = list /\ ToSet(list) = {list[i] : i \in 1 .. n}
  BY <1>0 DEF ToSet
<1>. QED
  BY <1>8, <1>12, <1>13 DEF Kept

-----------------------------------------------------------------------------
(***************************************************************************)
(* The invariants.                                                         *)
(***************************************************************************)
Media == {it \in Items : it.Path # NoPath}

Whats == ToSet(AllTiers) \cup {"follow", "playing", "libraries"}

AskedType   == [user : ToSet(Users), what : Whats, got : BOOLEAN]
OfferedType == [user : ToSet(Users), tier : ToSet(AllTiers), files : Nat]
FailureType == [user : ToSet(Users) \cup {NoItem}, what : Whats]
CandType    == [Item : Media, UserID : ToSet(Users), Tier : ToSet(AllTiers)]

Wanted(u, t) == u \in DOMAIN enrolled /\ t \in enrolled[u]

ConfigInv ==
    /\ cap \in [ToSet(AllTiers) -> Nat]
    /\ enrolled \in [DOMAIN enrolled -> SUBSET ToSet(AllTiers)]
    /\ estimating => /\ enrolled = [u \in ToSet(Users) |-> ToSet(AllTiers)]
                     /\ cap = Ceilings /\ scope = {}

TypeInv ==
    /\ pc \in {"playing", "tier", "follow", "libraries", "done", "failed"}
    /\ user \in 1 .. (Len(Users) + 1) /\ tier \in 1 .. Len(AllTiers)
    /\ nextUp \in [ToSet(Users) -> Seq(Media) \cup {NotFetched}]
    /\ queue \in Seq(Media) /\ out \in Seq(Media)
    /\ cands \in Seq(CandType) /\ used \in [ToSet(Users) -> Nat]
    /\ asked \in Seq(AskedType) /\ offered \in Seq(OfferedType) /\ failures \in Seq(FailureType)
    /\ pc = "playing" => user = 1 /\ tier = 1
    /\ user > Len(Users) => tier = 1
    /\ pc \in {"libraries", "done"} => user = Len(Users) + 1
    /\ pc = "libraries" => scope # {}
    /\ pc = "follow" => user <= Len(Users) /\ currentTier = "binge-ahead" /\ On

Lookups(u) == Requests(u, "follow")

Got(u) == {i \in Lookups(u) : asked[i].got}

\* What the look-ahead of a user goes through, and how much of it asks.
Input(u) == capItems(nextUp[u], cap["next-up"])

Episodes(items, k) == {i \in 1 .. k : items[i].Series}

\* Nothing has been asked for the users the loop has not come to.
FreshInv ==
    /\ \A j \in DOMAIN Users :
         j > user \/ (j = user /\ tier <= 2) => nextUp[Users[j]] = NotFetched
    /\ \A j \in DOMAIN Users :
         j > user \/ (j = user /\ pc \in {"playing", "tier"}) => Lookups(Users[j]) = {}

Bounded(u) ==
    /\ Cardinality(Requests(u, "next-up")) <= IF nextUp[u] = NotFetched THEN 0 ELSE 1
    /\ nextUp[u] # NotFetched => Wanted(u, "next-up") \/ Wanted(u, "binge-ahead")
    /\ cap["next-up"] > 0 => Cardinality(Lookups(u)) <= cap["next-up"]
    /\ cap["binge-ahead"] > 0 => Cardinality(Got(u)) <= cap["binge-ahead"]
    /\ estimating => Cardinality(Lookups(u)) <= used[u] /\ used[u] <= LookupsPerUser

\* The look-ahead of u has gone through the first k episodes of its input.
Past(u, k) ==
    LET asks == Cardinality(Episodes(Input(u), k))
    IN  /\ queue = SubSeq(Input(u), k + 1, Len(Input(u)))
        /\ Cardinality(Lookups(u)) <= asks
        /\ ~limited => Cardinality(Lookups(u)) = asks

LookingAhead(u) ==
    /\ nextUp[u] # NotFetched
    /\ Cardinality(Got(u)) = Len(out)
    /\ \E k \in 0 .. Len(Input(u)) : Past(u, k)

FollowInv == pc = "follow" => LookingAhead(currentUser)

RequestInv == FreshInv /\ (\A u \in ToSet(Users) : Bounded(u)) /\ FollowInv

Before(j, l) == j < user \/ (j = user /\ l < tier)

Capped(files, t) == IF cap[t] > 0 /\ files > cap[t] THEN cap[t] ELSE files

\* Candidates are what the tiers have added, until the libraries are applied.
Unfiltered == pc # "done" \/ scope = {}

OfferInv ==
    /\ \A i \in DOMAIN offered : \E j \in DOMAIN Users, l \in DOMAIN AllTiers :
         /\ offered[i].user = Users[j] /\ offered[i].tier = AllTiers[l]
         /\ Before(j, l) /\ Wanted(Users[j], AllTiers[l])
    /\ \A j \in DOMAIN Users, l \in DOMAIN AllTiers :
         Before(j, l) /\ Wanted(Users[j], AllTiers[l]) =>
             \E i \in DOMAIN offered : offered[i].user = Users[j] /\ offered[i].tier = AllTiers[l]
    /\ \A i, j \in DOMAIN offered :
         offered[i].user = offered[j].user /\ offered[i].tier = offered[j].tier => i = j

CountInv ==
    Unfiltered =>
        /\ \A i \in DOMAIN offered :
             Cardinality(Contribution(offered[i].user, offered[i].tier))
               = Capped(offered[i].files, offered[i].tier)
        /\ \A c \in DOMAIN cands : \E i \in DOMAIN offered :
             cands[c].UserID = offered[i].user /\ cands[c].Tier = offered[i].tier

\* What a tier was offered and what the look-ahead asked follow from the user's list.
FilesRight(e) ==
    /\ e.tier \in {"next-up", "binge-ahead"} => nextUp[e.user] # NotFetched
    /\ e.tier = "next-up" => e.files = Len(nextUp[e.user])
    /\ e.tier = "binge-ahead" /\ ~limited =>
         \/ cap["binge-ahead"] > 0 /\ e.files >= cap["binge-ahead"]
         \/ Cardinality(Lookups(e.user)) = Cardinality(Episodes(Input(e.user), Len(Input(e.user))))

FilesInv == \A i \in DOMAIN offered : FilesRight(offered[i])

FailInv ==
    /\ (pc = "failed" /\ Last(failures).what = "follow") => canceled
    /\ pc # "failed" => \A i \in DOMAIN failures : failures[i].what = "follow"

-----------------------------------------------------------------------------
(***************************************************************************)
(* The state is typed.                                                     *)
(***************************************************************************)
LEMMA Tiers ==
    /\ ToSet(AllTiers) = {"resume", "next-up", "recently-added", "binge-ahead"}
    /\ Len(AllTiers) = 4 /\ DOMAIN AllTiers = 1 .. 4
    /\ AllTiers[1] = "resume" /\ AllTiers[2] = "next-up"
    /\ AllTiers[3] = "recently-added" /\ AllTiers[4] = "binge-ahead"
  BY DEF ToSet, AllTiers

LEMMA Listing ==
    /\ Len(Users) \in Nat /\ DOMAIN Users = 1 .. Len(Users)
    /\ \A j \in DOMAIN Users : Users[j] \in ToSet(Users)
    /\ \A u \in ToSet(Users) : \E j \in DOMAIN Users : u = Users[j]
    /\ \A i, j \in DOMAIN Users : Users[i] = Users[j] => i = j
  BY CollectAssumption DEF ToSet, IsInjective

LEMMA CapCuts ==
    ASSUME NEW S, NEW items \in Seq(S), NEW limit \in Nat
    PROVE  /\ capItems(items, limit) \in Seq(S)
           /\ Len(capItems(items, limit)) =
                IF limit > 0 /\ Len(items) > limit THEN limit ELSE Len(items)
<1>1. CASE limit > 0 /\ Len(items) > limit
  <2>1. capItems(items, limit) = SubSeq(items, 1, limit)
    BY <1>1 DEF capItems
  <2>2. SubSeq(items, 1, limit) \in Seq(S) /\ Len(SubSeq(items, 1, limit)) = limit
    BY <1>1
  <2>. QED
    BY <1>1, <2>1, <2>2
<1>2. CASE ~(limit > 0 /\ Len(items) > limit)
  <2>1. capItems(items, limit) = items
    BY <1>2 DEF capItems
  <2>. QED
    BY <1>2, <2>1
<1>. QED
  BY <1>1, <1>2

LEMMA NotFetchedIsNoList == NotFetched \notin Seq(Media)
<1>. SUFFICES ASSUME NotFetched \in Seq(Media) PROVE FALSE
  OBVIOUS
<1>1. NotFetched[1] \in Media /\ NotFetched[1] = NoItem
  BY DEF NotFetched
<1>. QED
  BY <1>1, CollectAssumption DEF Media

LEMMA MediaAreItems == Media \subseteq Items /\ Seq(Media) \subseteq Seq(Items)
<1>1. Media \subseteq Items
  BY DEF Media
<1>2. ASSUME NEW items \in Seq(Media) PROVE items \in Seq(Items)
  BY <1>1
<1>. QED
  BY <1>1, <1>2

LEMMA FilesOf ==
    ASSUME NEW items \in Seq(Items)
    PROVE  /\ withMediaFile(items) \in Seq(Media)
           /\ items \in Seq(Media) => withMediaFile(items) = items
<1>1. Items \cap {it \in Items : it.Path # NoPath} = Media
  BY DEF Media
<1>2. withMediaFile(items) \in Seq(Media)
  BY <1>1, KeepKeeps DEF withMediaFile
<1>3. ASSUME items \in Seq(Media) PROVE withMediaFile(items) = items
  <2>1. \A i \in DOMAIN items : items[i] \in {it \in Items : it.Path # NoPath}
    BY <1>3 DEF Media
  <2>. QED
    BY <2>1, KeepKeeps DEF withMediaFile
<1>. QED
  BY <1>2, <1>3

LEMMA RepliesAreLists ==
    ASSUME NEW t \in {"resume", "next-up", "recently-added"}, NEW items \in Replies[t]
    PROVE  items \in Seq(Items) /\ withMediaFile(items) \in Seq(Media)
  BY CollectAssumption, FilesOf

LEMMA NothingReconfigures ==
    ASSUME [Next]_vars
    PROVE  /\ UNCHANGED <<enrolled, cap, scope, estimating>>
           /\ world' = world /\ mapper' = mapper
<1>. USE DEF config
<1>1. CASE NowPlaying
  BY <1>1 DEF NowPlaying
<1>2. CASE SkipTier
  BY <1>2 DEF SkipTier
<1>3. CASE FetchList
  BY <1>3 DEF FetchList
<1>4. CASE FetchNextUp
  BY <1>4 DEF FetchNextUp
<1>5. CASE StartBinge
  BY <1>5 DEF StartBinge
<1>6. CASE NoSeries
  BY <1>6 DEF NoSeries
<1>7. CASE Refuse
  BY <1>7 DEF Refuse
<1>8. CASE Follow
  BY <1>8 DEF Follow
<1>9. CASE FollowFails
  BY <1>9 DEF FollowFails
<1>10. CASE EndBinge
  BY <1>10 DEF EndBinge
<1>11. CASE EndLoop
  BY <1>11 DEF EndLoop
<1>12. CASE filterByLibraries
  BY <1>12 DEF filterByLibraries
<1>13. CASE RequestFails
  BY <1>13 DEF RequestFails
<1>14. CASE Cancel
  BY <1>14 DEF Cancel
<1>15. CASE UNCHANGED vars
  BY <1>15 DEF vars
<1>. QED
  BY <1>1, <1>2, <1>3, <1>4, <1>5, <1>6, <1>7, <1>8, <1>9, <1>10, <1>11, <1>12, <1>13, <1>14, <1>15
  DEF Next, CollectCandidates, bingeAhead

LEMMA ConfigInit == Init => ConfigInv
<1>. SUFFICES ASSUME Init PROVE ConfigInv
  OBVIOUS
<1>1. CASE ~estimating
  <2>1. PICK s \in Situations : enrolled = s.enrolled /\ cap = s.cap
    BY <1>1 DEF Init
  <2>. QED
    BY <1>1, <2>1, CollectAssumption DEF ConfigInv
<1>2. CASE estimating
  <2>1. /\ enrolled = [u \in ToSet(Users) |-> ToSet(AllTiers)]
        /\ cap = Ceilings /\ scope = {}
    BY <1>2 DEF Init
  <2>. QED
    BY <2>1, CollectAssumption DEF ConfigInv
<1>. QED
  BY <1>1, <1>2

LEMMA ConfigStep == ConfigInv /\ [Next]_vars => ConfigInv'
  BY NothingReconfigures DEF ConfigInv

LEMMA TypeInit == Init => TypeInv
<1>. SUFFICES ASSUME Init PROVE TypeInv
  OBVIOUS
<1>1. /\ pc = "playing" /\ user = 1 /\ tier = 1 /\ queue = <<>> /\ out = <<>> /\ cands = <<>>
      /\ asked = <<>> /\ offered = <<>> /\ failures = <<>>
      /\ nextUp = [u \in ToSet(Users) |-> NotFetched] /\ used = [u \in ToSet(Users) |-> 0]
  BY DEF Init
<1>. QED
  BY <1>1, Tiers, Listing DEF TypeInv

LEMMA AtHand ==
    ASSUME TypeInv, user <= Len(Users)
    PROVE  /\ user \in DOMAIN Users /\ currentUser \in ToSet(Users)
           /\ currentTier \in ToSet(AllTiers) /\ tier \in 1 .. 4
<1>1. user \in 1 .. Len(Users) /\ tier \in 1 .. 4
  BY Tiers, Listing DEF TypeInv
<1>2. user \in DOMAIN Users /\ currentUser \in ToSet(Users)
  BY <1>1, Listing DEF currentUser
<1>3. currentTier \in ToSet(AllTiers)
  BY <1>1, Tiers DEF currentTier
<1>. QED
  BY <1>1, <1>2, <1>3

LEMMA AdvanceTyped ==
    ASSUME TypeInv, user <= Len(Users), Advance
    PROVE  /\ user' \in 1 .. (Len(Users) + 1) /\ tier' \in 1 .. Len(AllTiers)
           /\ user' > Len(Users) => tier' = 1
  BY Tiers, Listing DEF TypeInv, Advance

LEMMA StampedTyped ==
    ASSUME TypeInv, user <= Len(Users), NEW items \in Seq(Media)
    PROVE  /\ Stamped(items) \in Seq(CandType) /\ Len(Stamped(items)) = Len(items)
           /\ \A i \in DOMAIN Stamped(items) :
                Stamped(items)[i].UserID = currentUser /\ Stamped(items)[i].Tier = currentTier
<1>1. DOMAIN Stamped(items) = 1 .. Len(items) /\ Len(items) \in Nat
  BY DEF Stamped
<1>2. ASSUME NEW i \in 1 .. Len(items)
      PROVE  /\ Stamped(items)[i] = [Item |-> items[i], UserID |-> currentUser, Tier |-> currentTier]
             /\ items[i] \in Media
  BY DEF Stamped
<1>3. ASSUME NEW i \in 1 .. Len(items) PROVE Stamped(items)[i] \in CandType
  <2>1. items[i] \in Media /\ currentUser \in ToSet(Users) /\ currentTier \in ToSet(AllTiers)
    BY <1>2, AtHand
  <2>. HIDE DEF Media
  <2>2. [Item |-> items[i], UserID |-> currentUser, Tier |-> currentTier] \in CandType
    BY <2>1 DEF CandType
  <2>. QED
    BY <1>2, <2>2
<1>4. Stamped(items) \in [1 .. Len(items) -> CandType]
  BY <1>1, <1>3 DEF Stamped
<1>. QED
  BY <1>1, <1>2, <1>4

LEMMA ContributeTyped ==
    ASSUME ConfigInv, TypeInv, user <= Len(Users), NEW items \in Seq(Items), Contribute(items)
    PROVE  cands' \in Seq(CandType) /\ offered' \in Seq(OfferedType)
<1>1. withMediaFile(items) \in Seq(Media)
  BY FilesOf
<1>2. capItems(withMediaFile(items), cap[currentTier]) \in Seq(Media)
  BY <1>1, AtHand, CapCuts DEF ConfigInv
<1>3. cands' \in Seq(CandType)
  BY <1>2, StampedTyped DEF Contribute, TypeInv
<1>4. [user |-> currentUser, tier |-> currentTier, files |-> Len(withMediaFile(items))] \in OfferedType
  BY <1>1, AtHand DEF OfferedType
<1>. QED
  BY <1>3, <1>4 DEF Contribute, TypeInv

LEMMA AskTyped ==
    ASSUME TypeInv, user <= Len(Users), NEW what \in Whats, NEW got \in BOOLEAN, Ask(what, got)
    PROVE  asked' \in Seq(AskedType)
  BY AtHand DEF TypeInv, Ask, AskedType

LEMMA FailTyped ==
    ASSUME TypeInv, user <= Len(Users), NEW what \in Whats, Fail(what)
    PROVE  failures' \in Seq(FailureType)
  BY AtHand DEF TypeInv, Fail, FailureType

LEMMA RememberTyped ==
    ASSUME TypeInv, user <= Len(Users), NEW items \in Replies["next-up"], Remember(items)
    PROVE  /\ nextUp' \in [ToSet(Users) -> Seq(Media) \cup {NotFetched}]
           /\ nextUp'[currentUser] = withMediaFile(items)
           /\ \A u \in ToSet(Users) : u # currentUser => nextUp'[u] = nextUp[u]
  BY AtHand, RepliesAreLists DEF TypeInv, Remember

LEMMA SpendTyped ==
    ASSUME TypeInv, user <= Len(Users), Spend
    PROVE  used' \in [ToSet(Users) -> Nat]
  BY AtHand DEF TypeInv, Spend

LEMMA TypeStep == ConfigInv /\ TypeInv /\ [Next]_vars => TypeInv'
<1>. SUFFICES ASSUME ConfigInv, TypeInv, [Next]_vars PROVE TypeInv'
  OBVIOUS
<1>. USE DEF histVars, loopVars, limiter
<1>0. UNCHANGED <<enrolled, cap, scope, estimating>>
  BY NothingReconfigures
<1>1. CASE NowPlaying
  BY <1>1 DEF NowPlaying, TypeInv
<1>2. CASE SkipTier
  BY <1>2, AdvanceTyped DEF SkipTier, InLoop, TypeInv
<1>3. CASE FetchList
  <2>1. user <= Len(Users) /\ Advance /\ pc = "tier"
    BY <1>3 DEF FetchList, InLoop, Contribute
  <2>2. cands' \in Seq(CandType) /\ offered' \in Seq(OfferedType)
    <3>1. PICK items \in Replies[currentTier] :
            currentTier \in {"resume", "recently-added"} /\ Contribute(items)
      BY <1>3 DEF FetchList
    <3>. QED
      BY <2>1, <3>1, RepliesAreLists, ContributeTyped
  <2>3. asked' \in Seq(AskedType)
    BY <1>3, <2>1, AskTyped, AtHand DEF FetchList, Whats
  <2>. QED
    BY <1>3, <2>1, <2>2, <2>3, AdvanceTyped DEF FetchList, TypeInv
<1>4. CASE FetchNextUp
  <2>1. user <= Len(Users) /\ Advance /\ pc = "tier"
    BY <1>4 DEF FetchNextUp, InLoop, Contribute
  <2>2. PICK items \in Replies["next-up"] : Remember(items) /\ Contribute(withMediaFile(items))
    BY <1>4 DEF FetchNextUp
  <2>3. cands' \in Seq(CandType) /\ offered' \in Seq(OfferedType)
    <3>1. withMediaFile(items) \in Seq(Items)
      BY <2>2, RepliesAreLists, MediaAreItems
    <3>. QED
      BY <2>1, <2>2, <3>1, ContributeTyped
  <2>4. asked' \in Seq(AskedType)
    BY <1>4, <2>1, AskTyped, Tiers DEF FetchNextUp, Whats
  <2>. QED
    BY <1>4, <2>1, <2>2, <2>3, <2>4, AdvanceTyped, RememberTyped DEF FetchNextUp, TypeInv
<1>5. CASE StartBinge
  <2>1. user <= Len(Users) /\ pc = "tier" /\ On /\ currentTier = "binge-ahead"
    BY <1>5 DEF StartBinge, InLoop
  <2>2. On' /\ currentTier' = "binge-ahead"
    BY <1>0, <1>5, <2>1 DEF StartBinge, On, currentUser, currentTier
  <2>3. cap["next-up"] \in Nat /\ "next-up" \in Whats
    BY Tiers DEF ConfigInv, Whats
  <2>4. CASE nextUp[currentUser] # NotFetched
    <3>1. LookAhead(nextUp[currentUser]) /\ UNCHANGED <<nextUp, asked>>
      BY <1>5, <2>4 DEF StartBinge
    <3>2. nextUp[currentUser] \in Seq(Media)
      BY <2>1, <2>4, AtHand DEF TypeInv
    <3>3. queue' \in Seq(Media) /\ out' = <<>> /\ pc' = "follow"
      BY <2>3, <3>1, <3>2, CapCuts DEF LookAhead
    <3>. QED
      BY <1>5, <2>1, <2>2, <3>1, <3>3 DEF StartBinge, TypeInv
  <2>5. CASE nextUp[currentUser] = NotFetched
    <3>1. PICK items \in Replies["next-up"] :
            Remember(items) /\ LookAhead(withMediaFile(items)) /\ Ask("next-up", TRUE)
      BY <1>5, <2>5 DEF StartBinge
    <3>2. queue' \in Seq(Media) /\ out' = <<>> /\ pc' = "follow"
      BY <2>3, <3>1, RepliesAreLists, CapCuts DEF LookAhead
    <3>3. asked' \in Seq(AskedType)
      BY <2>1, <2>3, <3>1, AskTyped
    <3>. QED
      BY <1>5, <2>1, <2>2, <3>1, <3>2, <3>3, RememberTyped DEF StartBinge, TypeInv
  <2>. QED
    BY <2>4, <2>5
<1>6. CASE NoSeries \/ Refuse
  <2>1. /\ UNCHANGED <<pc, user, tier, nextUp, out, cands, asked, offered, failures, used>>
        /\ queue # <<>> /\ queue' = Tail(queue)
    BY <1>6 DEF NoSeries, Refuse, Following
  <2>2. On' = On /\ currentTier' = currentTier
    BY <1>0, <2>1 DEF On, currentUser, currentTier
  <2>3. queue' \in Seq(Media)
    BY <2>1 DEF TypeInv
  <2>. QED
    BY <1>0, <2>1, <2>2, <2>3 DEF TypeInv
<1>7. CASE Follow \/ FollowFails
  <2>1. /\ UNCHANGED <<user, tier, nextUp, cands, offered>>
        /\ pc = "follow" /\ queue # <<>> /\ pc' \in {"follow", "failed"} /\ Spend
    BY <1>7 DEF Follow, FollowFails, Following
  <2>2. user <= Len(Users)
    BY <2>1 DEF TypeInv
  <2>3. On' = On /\ currentTier' = currentTier
    BY <1>0, <2>1 DEF On, currentUser, currentTier
  <2>4. queue' \in Seq(Media)
    <3>1. queue' = queue \/ queue' = Tail(queue)
      BY <1>7 DEF Follow, FollowFails
    <3>2. queue \in Seq(Media) /\ Tail(queue) \in Seq(Media)
      BY <2>1 DEF TypeInv
    <3>. QED
      BY <3>1, <3>2
  <2>5. out' \in Seq(Media)
    <3>1. ASSUME NEW it \in Successors \cup {NoItem}, it # NoItem, it.Path # NoPath
          PROVE  it \in Media
      <4>1. Successors \subseteq Items
        BY Zenon DEF Items
      <4>. QED
        BY <3>1, <4>1 DEF Media
    <3>2. out' = out \/ \E it \in Media : out' = Append(out, it)
      <4>1. CASE FollowFails
        BY <4>1 DEF FollowFails
      <4>2. CASE Follow
        <5>1. PICK it \in Successors \cup {NoItem} :
                out' = IF it # NoItem /\ it.Path # NoPath THEN Append(out, it) ELSE out
          BY <4>2 DEF Follow
        <5>. QED
          BY <3>1, <5>1
      <4>. QED
        BY <1>7, <4>1, <4>2
    <3>3. out \in Seq(Media)
      BY DEF TypeInv
    <3>. HIDE DEF Media
    <3>. QED
      BY <3>2, <3>3
  <2>6. asked' \in Seq(AskedType)
    <3>1. asked' = asked \/ \E got \in BOOLEAN : Ask("follow", got)
      BY <1>7 DEF Follow, FollowFails
    <3>. QED
      BY <2>2, <3>1, AskTyped DEF Whats, TypeInv
  <2>7. failures' \in Seq(FailureType)
    <3>1. failures' = failures \/ Fail("follow")
      BY <1>7 DEF Follow, FollowFails
    <3>. QED
      BY <2>2, <3>1, FailTyped DEF Whats, TypeInv
  <2>8. used' \in [ToSet(Users) -> Nat]
    BY <2>1, <2>2, SpendTyped
  <2>. QED
    BY <2>1, <2>3, <2>4, <2>5, <2>6, <2>7, <2>8 DEF TypeInv
<1>8. CASE EndBinge
  <2>1. user <= Len(Users) /\ Contribute(out) /\ Advance
    BY <1>8 DEF EndBinge, TypeInv, Contribute
  <2>2. out \in Seq(Items)
    BY DEF TypeInv, Media
  <2>3. cands' \in Seq(CandType) /\ offered' \in Seq(OfferedType)
    BY <2>1, <2>2, ContributeTyped
  <2>. QED
    BY <1>8, <2>1, <2>3, AdvanceTyped DEF EndBinge, TypeInv
<1>9. CASE EndLoop
  BY <1>0, <1>9, Listing DEF EndLoop, TypeInv
<1>10. CASE filterByLibraries
  <2>1. cands' \in Seq(CandType)
    <3>. DEFINE wanted == {c \in ToSet(cands) : Allowed(c.Item)}
    <3>1. cands' = Keep(cands, wanted) /\ cands \in Seq(CandType)
      BY <1>10 DEF filterByLibraries, TypeInv
    <3>. HIDE DEF wanted
    <3>2. Keep(cands, wanted) \in Seq(CandType \cap wanted)
      BY <3>1, KeepKeeps
    <3>. QED
      BY <3>1, <3>2
  <2>. QED
    BY <1>10, <2>1 DEF filterByLibraries, TypeInv
<1>11. CASE RequestFails
  <2>1. /\ UNCHANGED <<user, tier, nextUp, queue, out, cands, used, asked, offered>>
        /\ pc' = "failed"
    BY <1>11 DEF RequestFails
  <2>2. failures' \in Seq(FailureType)
    <3>1. [user |-> NoItem, what |-> "playing"] \in FailureType
          /\ [user |-> NoItem, what |-> "libraries"] \in FailureType
      BY DEF FailureType, Whats
    <3>2. ASSUME InLoop, Fail(currentTier) PROVE failures' \in Seq(FailureType)
      <4>1. user <= Len(Users) /\ currentTier \in Whats
        BY <3>2, AtHand DEF InLoop, Whats
      <4>. QED
        BY <3>2, <4>1, FailTyped
    <3>3. failures \in Seq(FailureType)
      BY DEF TypeInv
    <3>4. \/ failures' = Append(failures, [user |-> NoItem, what |-> "playing"])
          \/ failures' = Append(failures, [user |-> NoItem, what |-> "libraries"])
          \/ InLoop /\ Fail(currentTier)
      BY <1>11 DEF RequestFails
    <3>. QED
      BY <3>1, <3>2, <3>3, <3>4
  <2>. QED
    BY <2>1, <2>2 DEF TypeInv
<1>12. CASE Cancel \/ UNCHANGED vars
  <2>1. UNCHANGED <<pc, user, tier, nextUp, queue, out, cands, used, asked, offered, failures>>
    BY <1>12 DEF Cancel, vars
  <2>2. On' = On /\ currentTier' = currentTier
    BY <1>0, <2>1 DEF On, currentUser, currentTier
  <2>. QED
    BY <1>0, <2>1, <2>2 DEF TypeInv
<1>. QED
  BY <1>1, <1>2, <1>3, <1>4, <1>5, <1>6, <1>7, <1>8, <1>9, <1>10, <1>11, <1>12
  DEF Next, CollectCandidates, bingeAhead

\* Whatever the server answers, the state has its types, and pc, the indices and
\* the lists agree on where the collection is.
THEOREM CollectTyped == Spec => [](ConfigInv /\ TypeInv)
<1>1. Init => ConfigInv /\ TypeInv
  BY ConfigInit, TypeInit
<1>2. ConfigInv /\ TypeInv /\ [Next]_vars => (ConfigInv /\ TypeInv)'
  BY ConfigStep, TypeStep
<1>. QED
  BY <1>1, <1>2, PTL DEF Spec

-----------------------------------------------------------------------------
(***************************************************************************)
(* The requests.                                                           *)
(***************************************************************************)
\* A set of indices is finite, and one more index makes it larger by one.
LEMMA Indices ==
    ASSUME NEW n \in Nat, NEW S \in SUBSET (1 .. n)
    PROVE  /\ IsFiniteSet(S) /\ Cardinality(S) \in Nat /\ Cardinality(S) <= n
           /\ Cardinality(S \cup {n + 1}) = Cardinality(S) + 1
<1>1. IsFiniteSet(1 .. n) /\ Cardinality(1 .. n) = n
  BY FS_Interval
<1>2. IsFiniteSet(S) /\ Cardinality(S) <= n
  BY <1>1, FS_Subset
<1>3. Cardinality(S) \in Nat
  BY <1>2, FS_CardinalityType
<1>4. n + 1 \notin S
  OBVIOUS
<1>5. Cardinality(S \cup {n + 1}) = Cardinality(S) + 1
  BY <1>2, <1>4, FS_AddElement
<1>. QED
  BY <1>2, <1>3, <1>5

LEMMA RequestsAreCounted ==
    ASSUME TypeInv, NEW u, NEW w
    PROVE  /\ Requests(u, w) \in SUBSET (1 .. Len(asked)) /\ Got(u) \in SUBSET (1 .. Len(asked))
           /\ Len(asked) \in Nat
           /\ Cardinality(Requests(u, w)) \in Nat /\ Cardinality(Lookups(u)) \in Nat
           /\ Cardinality(Got(u)) \in Nat
<1>1. Len(asked) \in Nat /\ DOMAIN asked = 1 .. Len(asked)
  BY DEF TypeInv
<1>2. /\ Requests(u, w) \in SUBSET (1 .. Len(asked)) /\ Lookups(u) \in SUBSET (1 .. Len(asked))
      /\ Got(u) \in SUBSET (1 .. Len(asked))
  BY <1>1 DEF Requests, Lookups, Got
<1>. QED
  BY <1>1, <1>2, Indices

LEMMA NothingAsked ==
    ASSUME asked' = asked, NEW u, NEW w
    PROVE  Requests(u, w)' = Requests(u, w) /\ Lookups(u)' = Lookups(u) /\ Got(u)' = Got(u)
  BY DEF Requests, Lookups, Got

LEMMA OneAsked ==
    ASSUME TypeInv, NEW what, NEW got \in BOOLEAN, Ask(what, got), NEW u, NEW w
    PROVE  /\ Requests(u, w)' = IF u = currentUser /\ w = what
                                THEN Requests(u, w) \cup {Len(asked) + 1} ELSE Requests(u, w)
           /\ Cardinality(Requests(u, w))'
                = Cardinality(Requests(u, w)) + IF u = currentUser /\ w = what THEN 1 ELSE 0
           /\ Cardinality(Got(u))'
                = Cardinality(Got(u)) + IF u = currentUser /\ what = "follow" /\ got THEN 1 ELSE 0
<1>. DEFINE n == Len(asked)
            e == [user |-> currentUser, what |-> what, got |-> got]
<1>1. /\ n \in Nat /\ DOMAIN asked = 1 .. n /\ asked' = Append(asked, e)
      /\ DOMAIN asked' = (1 .. n) \cup {n + 1} /\ asked'[n + 1] = e
      /\ \A i \in 1 .. n : asked'[i] = asked[i]
  BY DEF TypeInv, Ask
<1>2. ASSUME NEW v, NEW x
      PROVE  Requests(v, x)' = IF v = currentUser /\ x = what
                               THEN Requests(v, x) \cup {n + 1} ELSE Requests(v, x)
  <2>1. e.user = currentUser /\ e.what = what
    OBVIOUS
  <2>2. Requests(v, x)' = {i \in DOMAIN asked' : asked'[i].user = v /\ asked'[i].what = x}
    BY DEF Requests
  <2>3. Requests(v, x) = {i \in 1 .. n : asked[i].user = v /\ asked[i].what = x}
    BY <1>1 DEF Requests
  <2>. HIDE DEF e, n
  <2>. QED
    BY <1>1, <2>1, <2>2, <2>3
<1>3. Got(u)' = IF u = currentUser /\ what = "follow" /\ got THEN Got(u) \cup {n + 1} ELSE Got(u)
  <2>1. e.got = got
    OBVIOUS
  <2>2. Got(u)' = {i \in Requests(u, "follow")' : asked'[i].got}
    BY DEF Got, Lookups
  <2>3. Got(u) = {i \in Requests(u, "follow") : asked[i].got}
    BY DEF Got, Lookups
  <2>4. Requests(u, "follow") \in SUBSET (1 .. n)
    BY RequestsAreCounted
  <2>5. Requests(u, "follow")' = IF u = currentUser /\ what = "follow"
                                 THEN Requests(u, "follow") \cup {n + 1} ELSE Requests(u, "follow")
    BY <1>2
  <2>. HIDE DEF e, n
  <2>. QED
    BY <1>1, <2>1, <2>2, <2>3, <2>4, <2>5
<1>4. /\ Requests(u, w) \in SUBSET (1 .. n) /\ Got(u) \in SUBSET (1 .. n)
      /\ Cardinality(Requests(u, w)) \in Nat /\ Cardinality(Got(u)) \in Nat
  BY RequestsAreCounted
<1>5. /\ Cardinality(Requests(u, w) \cup {n + 1}) = Cardinality(Requests(u, w)) + 1
      /\ Cardinality(Got(u) \cup {n + 1}) = Cardinality(Got(u)) + 1
  BY <1>1, <1>4, Indices
<1>6. Cardinality(Requests(u, w))' = Cardinality(Requests(u, w)')
  OBVIOUS
<1>7. Cardinality(Got(u))' = Cardinality(Got(u)')
  OBVIOUS
<1>. HIDE DEF e, n
<1>8. Cardinality(Requests(u, w))'
        = Cardinality(Requests(u, w)) + IF u = currentUser /\ w = what THEN 1 ELSE 0
  <2>1. CASE u = currentUser /\ w = what
    BY <1>2, <1>5, <1>6, <2>1
  <2>2. CASE ~(u = currentUser /\ w = what)
    BY <1>2, <1>4, <1>6, <2>2
  <2>. QED
    BY <2>1, <2>2
<1>9. Cardinality(Got(u))'
        = Cardinality(Got(u)) + IF u = currentUser /\ what = "follow" /\ got THEN 1 ELSE 0
  <2>1. CASE u = currentUser /\ what = "follow" /\ got
    BY <1>3, <1>5, <1>7, <2>1
  <2>2. CASE ~(u = currentUser /\ what = "follow" /\ got)
    BY <1>3, <1>4, <1>7, <2>2
  <2>. QED
    BY <2>1, <2>2
<1>10. Requests(u, w)' = IF u = currentUser /\ w = what
                         THEN Requests(u, w) \cup {n + 1} ELSE Requests(u, w)
  BY <1>2
<1>. QED
  BY <1>8, <1>9, <1>10 DEF n

\* A request for a list is no look-ahead.
LEMMA ListAsked ==
    ASSUME TypeInv, NEW what, what # "follow", Ask(what, TRUE), NEW u
    PROVE  /\ Lookups(u)' = Lookups(u) /\ Cardinality(Got(u))' = Cardinality(Got(u))
           /\ what # "next-up" => Requests(u, "next-up")' = Requests(u, "next-up")
           /\ what = "next-up" => Cardinality(Requests(u, "next-up"))'
                = Cardinality(Requests(u, "next-up")) + IF u = currentUser THEN 1 ELSE 0
<1>. DEFINE got == TRUE
<1>1. got \in BOOLEAN /\ Ask(what, got)
  OBVIOUS
<1>2. Cardinality(Got(u)) \in Nat /\ Cardinality(Requests(u, "next-up")) \in Nat
  BY RequestsAreCounted
<1>. HIDE DEF got
<1>3. /\ Requests(u, "follow")' = Requests(u, "follow")
      /\ Cardinality(Got(u))' = Cardinality(Got(u)) + 0
  BY <1>1, OneAsked
<1>4. ASSUME what # "next-up" PROVE Requests(u, "next-up")' = Requests(u, "next-up")
  BY <1>1, <1>4, OneAsked
<1>5. ASSUME what = "next-up"
      PROVE  Cardinality(Requests(u, "next-up"))'
               = Cardinality(Requests(u, "next-up")) + IF u = currentUser THEN 1 ELSE 0
  BY <1>1, <1>5, OneAsked
<1>. QED
  BY <1>2, <1>3, <1>4, <1>5 DEF Lookups

LEMMA EpisodesCounted ==
    ASSUME NEW items \in Seq(Media), NEW k \in 0 .. Len(items)
    PROVE  /\ Cardinality(Episodes(items, k)) \in Nat /\ Cardinality(Episodes(items, k)) <= k
           /\ k < Len(items) =>
                Cardinality(Episodes(items, k + 1))
                  = Cardinality(Episodes(items, k)) + IF items[k + 1].Series THEN 1 ELSE 0
<1>1. k \in Nat /\ Episodes(items, k) \in SUBSET (1 .. k)
  BY DEF Episodes
<1>2. /\ Cardinality(Episodes(items, k)) \in Nat /\ Cardinality(Episodes(items, k)) <= k
      /\ Cardinality(Episodes(items, k) \cup {k + 1}) = Cardinality(Episodes(items, k)) + 1
  BY <1>1, Indices
<1>3. Episodes(items, k + 1)
        = IF items[k + 1].Series THEN Episodes(items, k) \cup {k + 1} ELSE Episodes(items, k)
  <2>1. 1 .. (k + 1) = (1 .. k) \cup {k + 1}
    BY <1>1
  <2>. QED
    BY <2>1 DEF Episodes
<1>. QED
  BY <1>2, <1>3

LEMMA InputTyped ==
    ASSUME ConfigInv, TypeInv, NEW u \in ToSet(Users), nextUp[u] # NotFetched
    PROVE  /\ nextUp[u] \in Seq(Media) /\ Input(u) \in Seq(Media) /\ Len(Input(u)) \in Nat
           /\ cap["next-up"] \in Nat
           /\ cap["next-up"] > 0 => Len(Input(u)) <= cap["next-up"]
<1>1. nextUp[u] \in Seq(Media) /\ cap["next-up"] \in Nat
  BY Tiers DEF TypeInv, ConfigInv
<1>. HIDE DEF Media
<1>. QED
  BY <1>1, CapCuts DEF Input

\* The next episode of the queue is the next of the input.
LEMMA QueueMoves ==
    ASSUME NEW input \in Seq(Media), NEW k \in 0 .. Len(input),
           queue = SubSeq(input, k + 1, Len(input)), queue # <<>>
    PROVE  /\ k < Len(input) /\ k + 1 \in 0 .. Len(input) /\ Head(queue) = input[k + 1]
           /\ Tail(queue) = SubSeq(input, (k + 1) + 1, Len(input))
<1>. HIDE DEF Media
<1>1. Len(input) \in Nat /\ k \in Nat
  OBVIOUS
<1>2. k < Len(input)
  BY <1>1
<1>3. /\ queue \in Seq(Media) /\ Len(queue) = Len(input) - k
      /\ \A i \in 1 .. (Len(input) - k) : queue[i] = input[k + i]
  BY <1>1, <1>2
<1>4. Head(queue) = input[k + 1]
  BY <1>1, <1>2, <1>3
<1>5. /\ Tail(queue) \in Seq(Media) /\ Len(Tail(queue)) = Len(input) - k - 1
      /\ \A i \in 1 .. (Len(input) - k - 1) : Tail(queue)[i] = input[k + 1 + i]
  BY <1>1, <1>2, <1>3
<1>. DEFINE rest2 == SubSeq(input, (k + 1) + 1, Len(input))
<1>6. /\ rest2 \in Seq(Media) /\ Len(rest2) = Len(input) - k - 1
      /\ \A i \in 1 .. (Len(input) - k - 1) : rest2[i] = input[k + 1 + i]
  BY <1>1, <1>2
<1>. HIDE DEF rest2
<1>7. Tail(queue) = rest2
  BY <1>5, <1>6, SeqEqual
<1>. QED
  BY <1>1, <1>2, <1>4, <1>7 DEF rest2

\* A user's bounds are about that user's requests only.
LEMMA OthersBounded ==
    ASSUME [Next]_vars, NEW u, Bounded(u), nextUp'[u] = nextUp[u], used'[u] = used[u],
           \A w : Requests(u, w)' = Requests(u, w), Got(u)' = Got(u)
    PROVE  Bounded(u)'
<1>1. UNCHANGED <<enrolled, cap, estimating>>
  BY NothingReconfigures
<1>2. Lookups(u)' = Lookups(u)
  BY DEF Lookups
<1>3. Wanted(u, "next-up")' = Wanted(u, "next-up") /\ Wanted(u, "binge-ahead")' = Wanted(u, "binge-ahead")
  BY <1>1 DEF Wanted
<1>. QED
  BY <1>1, <1>2, <1>3 DEF Bounded

LEMMA FreshKept ==
    ASSUME TypeInv, FreshInv, UNCHANGED nextUp,
           \A u : Lookups(u)' = Lookups(u),
           \/ UNCHANGED <<user, tier>> /\ (pc' \in {"playing", "tier"} => pc \in {"playing", "tier"})
           \/ user <= Len(Users) /\ Advance /\ pc \in {"tier", "follow"} /\ pc' = "tier"
    PROVE  FreshInv'
<1>1. DOMAIN Users = 1 .. Len(Users) /\ Len(Users) \in Nat /\ user \in 1 .. (Len(Users) + 1) /\ tier \in 1 .. 4
  BY Listing, Tiers DEF TypeInv
<1>2. CASE UNCHANGED <<user, tier>> /\ (pc' \in {"playing", "tier"} => pc \in {"playing", "tier"})
  BY <1>2 DEF FreshInv
<1>3. CASE user <= Len(Users) /\ Advance /\ pc \in {"tier", "follow"} /\ pc' = "tier"
  <2>1. CASE tier < 4
    <3>1. user' = user /\ tier' = tier + 1
      BY <1>3, <2>1, Tiers DEF Advance
    <3>2. pc = "tier"
      <4>1. pc = "follow" => tier = 4
        BY <1>1, Tiers DEF TypeInv, currentTier
      <4>. QED
        BY <1>3, <2>1, <4>1
    <3>. QED
      BY <1>1, <1>3, <3>1, <3>2 DEF FreshInv
  <2>2. CASE tier = 4
    <3>1. user' = user + 1
      BY <1>3, <2>2, Tiers DEF Advance
    <3>. QED
      BY <1>1, <1>3, <3>1 DEF FreshInv
  <2>. QED
    BY <1>1, <2>1, <2>2
<1>. QED
  BY <1>2, <1>3

\* The user at hand, by name.
LEMMA ByName ==
    ASSUME NEW u, u = currentUser, UNCHANGED user
    PROVE  LookingAhead(currentUser) = LookingAhead(u) /\ LookingAhead(currentUser)' = LookingAhead(u)'
<1>1. currentUser' = u
  BY DEF currentUser
<1>2. /\ Got(currentUser)' = Got(u)' /\ Input(currentUser)' = Input(u)' /\ Lookups(currentUser)' = Lookups(u)'
      /\ nextUp'[currentUser'] = nextUp'[u]
  BY <1>1 DEF Got, Input, Lookups, Requests
<1>3. ASSUME NEW k PROVE Past(currentUser, k)' = Past(u, k)'
  BY <1>2 DEF Past, Episodes
<1>. QED
  BY <1>2, <1>3 DEF LookingAhead

\* Steps that ask for nothing and start no look-ahead.
LEMMA QuietStep ==
    ASSUME TypeInv, RequestInv, [Next]_vars,
           UNCHANGED <<nextUp, asked, used, limited>>,
           pc' = "follow" => UNCHANGED <<pc, user, queue, out>>,
           \/ UNCHANGED <<user, tier>> /\ (pc' \in {"playing", "tier"} => pc \in {"playing", "tier"})
           \/ user <= Len(Users) /\ Advance /\ pc \in {"tier", "follow"} /\ pc' = "tier"
    PROVE  RequestInv'
<1>1. ASSUME NEW u, NEW w
      PROVE  Requests(u, w)' = Requests(u, w) /\ Lookups(u)' = Lookups(u) /\ Got(u)' = Got(u)
  BY NothingAsked
<1>2. FreshInv'
  BY <1>1, FreshKept DEF RequestInv
<1>3. ASSUME NEW u \in ToSet(Users) PROVE Bounded(u)'
  BY <1>1, OthersBounded DEF RequestInv
<1>4. FollowInv'
  <2>1. SUFFICES ASSUME pc' = "follow" PROVE FollowInv'
    BY DEF FollowInv
  <2>2. UNCHANGED <<pc, user, queue, out, cap>> /\ user <= Len(Users)
    BY <2>1, NothingReconfigures DEF TypeInv
  <2>3. PICK u \in ToSet(Users) : u = currentUser
    BY <2>2, AtHand
  <2>4. Input(u)' = Input(u) /\ Lookups(u)' = Lookups(u) /\ Got(u)' = Got(u)
    BY <1>1, <2>2 DEF Input
  <2>5. ASSUME NEW k PROVE Past(u, k)' = Past(u, k)
    BY <2>2, <2>4 DEF Past, Episodes
  <2>6. LookingAhead(u)' = LookingAhead(u)
    BY <2>2, <2>4, <2>5 DEF LookingAhead
  <2>. QED
    BY <2>1, <2>2, <2>3, <2>6, ByName DEF RequestInv, FollowInv
<1>. QED
  BY <1>2, <1>3, <1>4 DEF RequestInv

LEMMA FetchListStep ==
    ASSUME ConfigInv, TypeInv, RequestInv, FetchList PROVE RequestInv'
<1>1. /\ user <= Len(Users) /\ Advance /\ pc = "tier" /\ pc' = "tier"
      /\ UNCHANGED <<nextUp, used, limited>>
      /\ currentTier \in {"resume", "recently-added"} /\ Ask(currentTier, TRUE)
  BY DEF FetchList, InLoop, Contribute, limiter
<1>2. [Next]_vars
  BY DEF Next, CollectCandidates
<1>3. ASSUME NEW u
      PROVE  /\ Lookups(u)' = Lookups(u) /\ Requests(u, "next-up")' = Requests(u, "next-up")
             /\ Cardinality(Got(u))' = Cardinality(Got(u))
  BY <1>1, ListAsked
<1>4. FreshInv'
  BY <1>1, <1>3, FreshKept DEF RequestInv
<1>5. ASSUME NEW u \in ToSet(Users) PROVE Bounded(u)'
  <2>1. UNCHANGED <<enrolled, cap, estimating>>
    BY <1>2, NothingReconfigures
  <2>2. Wanted(u, "next-up")' = Wanted(u, "next-up") /\ Wanted(u, "binge-ahead")' = Wanted(u, "binge-ahead")
    BY <2>1 DEF Wanted
  <2>. QED
    BY <1>1, <1>3, <2>1, <2>2 DEF RequestInv, Bounded
<1>. QED
  BY <1>1, <1>4, <1>5 DEF RequestInv, FollowInv

\* The list is asked for once, when it has not been.
LEMMA NextUpAsked ==
    ASSUME ConfigInv, TypeInv, RequestInv, [Next]_vars, user <= Len(Users), On,
           currentTier \in {"next-up", "binge-ahead"}, nextUp[currentUser] = NotFetched,
           Ask("next-up", TRUE), NEW items \in Replies["next-up"], Remember(items), used' = used
    PROVE  /\ \A u : Lookups(u)' = Lookups(u) /\ Cardinality(Got(u))' = Cardinality(Got(u))
           /\ \A u \in ToSet(Users) : Bounded(u)'
<1>1. ASSUME NEW u
      PROVE  /\ Lookups(u)' = Lookups(u)
             /\ Cardinality(Got(u))' = Cardinality(Got(u))
             /\ Cardinality(Requests(u, "next-up"))'
                  = Cardinality(Requests(u, "next-up")) + IF u = currentUser THEN 1 ELSE 0
  BY ListAsked
<1>2. ASSUME NEW u \in ToSet(Users) PROVE Bounded(u)'
  <2>1. UNCHANGED <<enrolled, cap, estimating>>
    BY NothingReconfigures
  <2>2. Wanted(u, "next-up")' = Wanted(u, "next-up") /\ Wanted(u, "binge-ahead")' = Wanted(u, "binge-ahead")
    BY <2>1 DEF Wanted
  <2>3. Cardinality(Requests(u, "next-up")) \in Nat
    BY RequestsAreCounted
  <2>4. CASE u = currentUser
    <3>1. nextUp'[u] # NotFetched
      BY <2>4, RememberTyped, RepliesAreLists, NotFetchedIsNoList
    <3>2. Wanted(u, "next-up") \/ Wanted(u, "binge-ahead")
      BY <2>4 DEF On, Wanted
    <3>. QED
      BY <1>1, <2>1, <2>2, <2>3, <2>4, <3>1, <3>2 DEF RequestInv, Bounded
  <2>5. CASE u # currentUser
    <3>1. nextUp'[u] = nextUp[u]
      BY <2>5, RememberTyped
    <3>. QED
      BY <1>1, <2>1, <2>2, <2>3, <2>5, <3>1 DEF RequestInv, Bounded
  <2>. QED
    BY <2>4, <2>5
<1>. QED
  BY <1>1, <1>2

\* Users further down the list are not the one at hand.
LEMMA LaterUsers ==
    ASSUME TypeInv, user <= Len(Users), NEW items \in Replies["next-up"], Remember(items),
           NEW j \in DOMAIN Users, j > user
    PROVE  nextUp'[Users[j]] = nextUp[Users[j]]
<1>1. Users[j] # currentUser /\ Users[j] \in ToSet(Users)
  BY Listing, AtHand DEF currentUser
<1>. QED
  BY <1>1, RememberTyped

LEMMA FetchNextUpStep ==
    ASSUME ConfigInv, TypeInv, RequestInv, FetchNextUp PROVE RequestInv'
<1>1. /\ user <= Len(Users) /\ pc = "tier" /\ pc' = "tier" /\ On
      /\ used' = used /\ currentTier = "next-up" /\ Ask("next-up", TRUE)
  BY DEF FetchNextUp, InLoop, limiter
<1>2. [Next]_vars
  BY DEF Next, CollectCandidates
<1>3. PICK items \in Replies["next-up"] : Remember(items) /\ Advance
  BY DEF FetchNextUp, Contribute
<1>4. tier = 2 /\ user' = user /\ tier' = 3
  <2>1. tier \in 1 .. 4
    BY <1>1, AtHand
  <2>2. tier = 2
    BY <1>1, <2>1, Tiers DEF currentTier
  <2>. QED
    BY <1>3, <2>2, Tiers DEF Advance
<1>5. nextUp[currentUser] = NotFetched
  BY <1>1, <1>4, AtHand DEF RequestInv, FreshInv, currentUser
<1>6. /\ \A u : Lookups(u)' = Lookups(u)
      /\ \A u \in ToSet(Users) : Bounded(u)'
  BY <1>1, <1>2, <1>3, <1>5, NextUpAsked
<1>7. FreshInv'
  BY <1>1, <1>3, <1>4, <1>6, LaterUsers DEF RequestInv, FreshInv
<1>. QED
  BY <1>1, <1>6, <1>7 DEF RequestInv, FollowInv

LEMMA StartBingeStep ==
    ASSUME ConfigInv, TypeInv, RequestInv, StartBinge PROVE RequestInv'
<1>1. /\ user <= Len(Users) /\ pc = "tier" /\ pc' = "follow" /\ On /\ out' = <<>>
      /\ UNCHANGED <<user, tier, used, limited, cap>> /\ currentTier = "binge-ahead"
  BY DEF StartBinge, InLoop, limiter, LookAhead, config
<1>2. [Next]_vars
  BY DEF Next, CollectCandidates, bingeAhead
<1>3. PICK u \in ToSet(Users) : u = currentUser
  BY <1>1, AtHand
<1>4. tier = 4 /\ u = Users[user] /\ user \in DOMAIN Users
  BY <1>1, <1>3, AtHand, Tiers DEF currentTier, currentUser
<1>5. Lookups(u) = {} /\ Got(u) = {}
  BY <1>1, <1>4 DEF RequestInv, FreshInv, Got
<1>6. /\ \A v : Lookups(v)' = Lookups(v) /\ Cardinality(Got(v))' = Cardinality(Got(v))
      /\ \A v \in ToSet(Users) : Bounded(v)'
      /\ \A j \in DOMAIN Users : j > user => nextUp'[Users[j]] = nextUp[Users[j]]
      /\ nextUp'[u] \in Seq(Media)
      /\ queue' = capItems(nextUp'[u], cap["next-up"])
  <2>1. CASE nextUp[u] # NotFetched
    <3>1. LookAhead(nextUp[u]) /\ UNCHANGED <<nextUp, asked>>
      BY <1>3, <2>1 DEF StartBinge
    <3>2. ASSUME NEW v, NEW w
          PROVE  Requests(v, w)' = Requests(v, w) /\ Lookups(v)' = Lookups(v) /\ Got(v)' = Got(v)
      BY <3>1, NothingAsked
    <3>3. ASSUME NEW v \in ToSet(Users) PROVE Bounded(v)'
      BY <1>1, <1>2, <3>1, <3>2, OthersBounded DEF RequestInv
    <3>4. nextUp[u] \in Seq(Media)
      BY <1>3, <2>1, InputTyped
    <3>. QED
      BY <3>1, <3>2, <3>3, <3>4 DEF LookAhead
  <2>2. CASE nextUp[u] = NotFetched
    <3>1. PICK items \in Replies["next-up"] :
            Remember(items) /\ LookAhead(withMediaFile(items)) /\ Ask("next-up", TRUE)
      BY <1>3, <2>2 DEF StartBinge
    <3>2. /\ \A v : Lookups(v)' = Lookups(v) /\ Cardinality(Got(v))' = Cardinality(Got(v))
          /\ \A v \in ToSet(Users) : Bounded(v)'
      BY <1>1, <1>2, <1>3, <2>2, <3>1, NextUpAsked
    <3>3. nextUp'[u] = withMediaFile(items) /\ withMediaFile(items) \in Seq(Media)
      BY <1>1, <1>3, <3>1, RememberTyped, RepliesAreLists
    <3>4. \A j \in DOMAIN Users : j > user => nextUp'[Users[j]] = nextUp[Users[j]]
      BY <1>1, <3>1, LaterUsers
    <3>. QED
      BY <3>1, <3>2, <3>3, <3>4 DEF LookAhead
  <2>. QED
    BY <2>1, <2>2
<1>7. FreshInv'
  BY <1>1, <1>4, <1>6 DEF RequestInv, FreshInv
<1>8. LookingAhead(u)'
  <2>1. cap["next-up"] \in Nat
    BY Tiers DEF ConfigInv
  <2>2. Input(u)' = queue' /\ queue' \in Seq(Media)
    BY <1>1, <1>6, <2>1, CapCuts DEF Input
  <2>3. Len(queue') \in Nat /\ SubSeq(queue', 0 + 1, Len(queue')) = queue'
    BY <2>2
  <2>4. nextUp'[u] # NotFetched
    BY <1>6, NotFetchedIsNoList
  <2>5. Cardinality(Got(u))' = 0 /\ Cardinality(Lookups(u)') = 0 /\ Len(out') = 0
    <3>1. Cardinality({}) = 0
      BY FS_EmptySet
    <3>2. Lookups(u)' = {} /\ Cardinality(Got(u))' = Cardinality({})
      BY <1>5, <1>6
    <3>. QED
      BY <1>1, <3>1, <3>2
  <2>6. Cardinality(Episodes(Input(u), 0))' = 0
    <3>1. Episodes(Input(u), 0)' = {}
      BY DEF Episodes
    <3>. QED
      BY <3>1, FS_EmptySet
  <2>7. Past(u, 0)'
    BY <2>2, <2>3, <2>5, <2>6 DEF Past
  <2>8. 0 \in 0 .. Len(Input(u))'
    BY <2>2, <2>3
  <2>. QED
    BY <2>4, <2>5, <2>7, <2>8 DEF LookingAhead
<1>. QED
  BY <1>1, <1>3, <1>6, <1>7, <1>8, ByName DEF RequestInv, FollowInv

\* The episode at hand is the one after the first k of u's input.
AtEpisode(u, k) ==
    /\ u = currentUser /\ user <= Len(Users) /\ LookingAhead(u)
    /\ Past(u, k) /\ Input(u) \in Seq(Media)
    /\ k + 1 \in 0 .. Len(Input(u)) /\ Head(queue) = Input(u)[k + 1]
    /\ Tail(queue) = SubSeq(Input(u), (k + 1) + 1, Len(Input(u)))
    /\ Cardinality(Episodes(Input(u), k)) \in Nat
    /\ Cardinality(Episodes(Input(u), k + 1)) <= k + 1
    /\ Cardinality(Episodes(Input(u), k + 1))
         = Cardinality(Episodes(Input(u), k)) + IF Head(queue).Series THEN 1 ELSE 0

\* The look-ahead goes on to the next episode of its input.
LEMMA NextEpisode ==
    ASSUME ConfigInv, TypeInv, RequestInv, Following
    PROVE  \E u \in ToSet(Users), k \in Nat : AtEpisode(u, k)
<1>1. pc = "follow" /\ queue # <<>> /\ user <= Len(Users)
  BY DEF Following, TypeInv
<1>2. PICK u \in ToSet(Users) : u = currentUser
  BY <1>1, AtHand
<1>3. LookingAhead(u)
  BY <1>1, <1>2 DEF RequestInv, FollowInv
<1>4. Input(u) \in Seq(Media)
  BY <1>3, InputTyped DEF LookingAhead
<1>5. PICK k \in 0 .. Len(Input(u)) : Past(u, k)
  BY <1>3 DEF LookingAhead
<1>6. queue = SubSeq(Input(u), k + 1, Len(Input(u)))
  BY <1>5 DEF Past
<1>. DEFINE input == Input(u)
<1>. HIDE DEF input
<1>7. input = Input(u)
  BY DEF input
<1>8. /\ k < Len(input) /\ k + 1 \in 0 .. Len(input) /\ Head(queue) = input[k + 1]
      /\ Tail(queue) = SubSeq(input, (k + 1) + 1, Len(input))
  BY <1>1, <1>4, <1>6, <1>7, QueueMoves
<1>9. /\ Cardinality(Episodes(input, k)) \in Nat
      /\ Cardinality(Episodes(input, k + 1)) <= k + 1
      /\ Cardinality(Episodes(input, k + 1))
           = Cardinality(Episodes(input, k)) + IF input[k + 1].Series THEN 1 ELSE 0
  BY <1>4, <1>7, <1>8, EpisodesCounted
<1>. QED
  BY <1>1, <1>2, <1>3, <1>4, <1>5, <1>7, <1>8, <1>9 DEF AtEpisode

LEMMA PassOverStep ==
    ASSUME ConfigInv, TypeInv, RequestInv, NoSeries \/ Refuse PROVE RequestInv'
<1>1. /\ Following /\ pc = "follow" /\ pc' = "follow" /\ queue' = Tail(queue)
      /\ UNCHANGED <<user, tier, nextUp, out, asked, used, cap>>
      /\ (~limited' => ~limited /\ ~Head(queue).Series)
  BY DEF NoSeries, Refuse, Following, limiter, histVars, config
<1>2. [Next]_vars
  BY DEF Next, CollectCandidates, bingeAhead
<1>3. PICK u \in ToSet(Users), k \in Nat : AtEpisode(u, k)
  BY <1>1, NextEpisode
<1>. USE DEF AtEpisode
<1>4. ASSUME NEW v, NEW w
      PROVE  Requests(v, w)' = Requests(v, w) /\ Lookups(v)' = Lookups(v) /\ Got(v)' = Got(v)
  BY <1>1, NothingAsked
<1>5. FreshInv'
  BY <1>1, <1>4, FreshKept DEF RequestInv
<1>6. ASSUME NEW v \in ToSet(Users) PROVE Bounded(v)'
  BY <1>1, <1>2, <1>4, OthersBounded DEF RequestInv
<1>7. LookingAhead(u)'
  <2>1. Input(u)' = Input(u) /\ Episodes(Input(u), k + 1)' = Episodes(Input(u), k + 1)
    BY <1>1 DEF Input, Episodes
  <2>2. Cardinality(Lookups(u)) \in Nat
    BY RequestsAreCounted
  <2>3. Past(u, k + 1)'
    <3>. DEFINE asks == Cardinality(Episodes(Input(u), k))
                more == Cardinality(Episodes(Input(u), k + 1))
                done == Cardinality(Lookups(u))
    <3>1. /\ asks \in Nat /\ more = asks + IF Head(queue).Series THEN 1 ELSE 0
          /\ done \in Nat /\ done <= asks /\ (~limited => done = asks)
      BY <1>3, <2>2 DEF Past
    <3>. HIDE DEF asks, more, done
    <3>2. done <= more /\ (~limited' => done = more)
      BY <1>1, <3>1
    <3>3. Cardinality(Lookups(u)') = done /\ Cardinality(Episodes(Input(u), k + 1)') = more
      BY <1>4, <2>1 DEF done, more
    <3>4. queue' = SubSeq(Input(u)', (k + 1) + 1, Len(Input(u)'))
      BY <1>1, <1>3, <2>1
    <3>. QED
      BY <3>2, <3>3, <3>4 DEF Past
  <2>4. nextUp'[u] # NotFetched /\ Cardinality(Got(u)') = Len(out')
    BY <1>1, <1>3, <1>4 DEF LookingAhead
  <2>. QED
    BY <1>3, <2>1, <2>3, <2>4 DEF LookingAhead
<1>. QED
  BY <1>1, <1>3, <1>5, <1>6, <1>7, ByName DEF RequestInv, FollowInv

\* A look-ahead that was asked for, with or without a successor to warm.
Answered(got) ==
    /\ pc' = "follow" /\ Ask("follow", got) /\ queue' = Tail(queue)
    /\ Len(out') = Len(out) + IF got THEN 1 ELSE 0

LEMMA FollowAnswered ==
    ASSUME TypeInv, Follow \/ FollowFails, ~(canceled /\ pc' = "failed" /\ UNCHANGED asked)
    PROVE  \E got \in BOOLEAN : Answered(got)
<1>1. out \in Seq(Media) /\ Len(out) \in Nat
  BY DEF TypeInv
<1>. HIDE DEF Media
<1>2. CASE FollowFails
  <2>. DEFINE got == FALSE
  <2>1. /\ pc' = "follow" /\ Ask("follow", got) /\ queue' = Tail(queue) /\ out' = out
    BY <1>2 DEF FollowFails, Following
  <2>2. Len(out') = Len(out) + IF got THEN 1 ELSE 0
    BY <1>1, <2>1
  <2>3. got \in BOOLEAN
    OBVIOUS
  <2>. HIDE DEF got
  <2>. QED
    BY <2>1, <2>2, <2>3 DEF Answered
<1>3. CASE Follow
  <2>1. PICK it \in Successors \cup {NoItem} :
          /\ Ask("follow", it # NoItem /\ it.Path # NoPath)
          /\ out' = IF it # NoItem /\ it.Path # NoPath THEN Append(out, it) ELSE out
    BY <1>3 DEF Follow
  <2>. DEFINE got == it # NoItem /\ it.Path # NoPath
  <2>2. got \in BOOLEAN /\ Ask("follow", got)
    BY <2>1
  <2>3. out' = IF got THEN Append(out, it) ELSE out
    BY <2>1
  <2>4. pc' = "follow" /\ queue' = Tail(queue)
    BY <1>3 DEF Follow, Following
  <2>. HIDE DEF got
  <2>5. Len(out') = Len(out) + IF got THEN 1 ELSE 0
    BY <1>1, <2>3
  <2>. QED
    BY <2>2, <2>4, <2>5 DEF Answered
<1>. QED
  BY <1>2, <1>3

LEMMA FollowStep ==
    ASSUME ConfigInv, TypeInv, RequestInv, Follow \/ FollowFails PROVE RequestInv'
<1>1. /\ Following /\ pc = "follow" /\ Head(queue).Series /\ Permitted /\ Spend /\ ~Filled
      /\ UNCHANGED <<user, tier, nextUp, limited, cap, enrolled, estimating>>
  BY DEF Follow, FollowFails, Following, config, Spend
<1>2. [Next]_vars
  BY DEF Next, CollectCandidates, bingeAhead
<1>3. PICK u \in ToSet(Users), k \in Nat : AtEpisode(u, k)
  BY <1>1, NextEpisode
<1>. USE DEF AtEpisode
<1>5. /\ used'[u] = IF estimating THEN used[u] + 1 ELSE used[u]
      /\ estimating => used[u] < LookupsPerUser
      /\ \A v \in ToSet(Users) : v # u => used'[v] = used[v]
      /\ used[u] \in Nat
  BY <1>1, <1>3 DEF Permitted, Spend, TypeInv
<1>6. /\ Len(out) \in Nat /\ cap["binge-ahead"] \in Nat /\ LookupsPerUser \in Nat
      /\ cap["binge-ahead"] > 0 => Len(out) < cap["binge-ahead"]
  <2>1. Len(out) \in Nat
    BY DEF TypeInv
  <2>2. cap["binge-ahead"] \in Nat
    BY Tiers DEF ConfigInv
  <2>3. LookupsPerUser \in Nat
    BY Tiers, CollectAssumption
  <2>. QED
    BY <1>1, <2>1, <2>2, <2>3 DEF Filled
<1>7. CASE canceled /\ pc' = "failed" /\ UNCHANGED asked
  <2>1. ASSUME NEW v, NEW w
        PROVE  Requests(v, w)' = Requests(v, w) /\ Lookups(v)' = Lookups(v) /\ Got(v)' = Got(v)
    BY <1>7, NothingAsked
  <2>2. FreshInv'
    BY <1>1, <1>7, <2>1, FreshKept DEF RequestInv
  <2>3. ASSUME NEW v \in ToSet(Users) PROVE Bounded(v)'
    <3>1. CASE v # u
      BY <1>1, <1>2, <1>5, <2>1, <3>1, OthersBounded DEF RequestInv
    <3>2. CASE v = u
      <4>1. Wanted(u, "next-up")' = Wanted(u, "next-up") /\ Wanted(u, "binge-ahead")' = Wanted(u, "binge-ahead")
        BY <1>1 DEF Wanted
      <4>2. Cardinality(Lookups(u)) \in Nat
        BY RequestsAreCounted
      <4>3. Bounded(u)
        BY DEF RequestInv
      <4>4. estimating' => Cardinality(Lookups(u)') <= used'[u] /\ used'[u] <= LookupsPerUser
        BY <1>1, <1>5, <1>6, <2>1, <4>2, <4>3 DEF Bounded
      <4>. QED
        BY <1>1, <2>1, <3>2, <4>1, <4>3, <4>4 DEF Bounded
    <3>. QED
      BY <3>1, <3>2
  <2>. QED
    BY <1>7, <2>2, <2>3 DEF RequestInv, FollowInv
<1>8. CASE ~(canceled /\ pc' = "failed" /\ UNCHANGED asked)
  <2>0. PICK got \in BOOLEAN : Answered(got)
    BY <1>8, FollowAnswered
  <2>1. /\ pc' = "follow" /\ Ask("follow", got) /\ queue' = Tail(queue)
        /\ Len(out') = Len(out) + IF got THEN 1 ELSE 0
    BY <2>0 DEF Answered
  <2>2. ASSUME NEW v \in ToSet(Users), v # u
        PROVE  Lookups(v)' = Lookups(v) /\ Got(v)' = Got(v) /\ \A w : Requests(v, w)' = Requests(v, w)
    <3>1. \A w : Requests(v, w)' = Requests(v, w)
      BY <1>3, <2>1, <2>2, OneAsked
    <3>2. Lookups(v)' = Lookups(v)
      BY <3>1 DEF Lookups
    <3>3. Lookups(v) \in SUBSET (1 .. Len(asked)) /\ asked \in Seq(AskedType)
      BY RequestsAreCounted DEF Lookups, TypeInv
    <3>4. \A i \in 1 .. Len(asked) : asked'[i] = asked[i]
      BY <2>1, <3>3 DEF Ask
    <3>. QED
      BY <3>1, <3>2, <3>3, <3>4 DEF Got
  <2>3. /\ Cardinality(Lookups(u)') = Cardinality(Lookups(u)) + 1
        /\ Cardinality(Got(u)') = Cardinality(Got(u)) + IF got THEN 1 ELSE 0
        /\ Requests(u, "next-up")' = Requests(u, "next-up")
        /\ Cardinality(Lookups(u)) \in Nat /\ Cardinality(Got(u)) = Len(out)
    <3>1. Cardinality(Requests(u, "follow"))' = Cardinality(Requests(u, "follow")) + 1
      BY <1>3, <2>1, OneAsked
    <3>2. /\ Cardinality(Got(u))' = Cardinality(Got(u)) + IF got THEN 1 ELSE 0
          /\ Requests(u, "next-up")' = Requests(u, "next-up")
      BY <1>3, <2>1, OneAsked
    <3>. QED
      BY <1>3, <3>1, <3>2, RequestsAreCounted DEF Lookups, LookingAhead
  <2>4. FreshInv'
    <3>1. \A j \in DOMAIN Users : j > user => Users[j] # u /\ Users[j] \in ToSet(Users)
      BY <1>3, AtHand, Listing DEF currentUser
    <3>. QED
      BY <1>1, <2>1, <2>2, <3>1 DEF RequestInv, FreshInv
  <2>. DEFINE asks == Cardinality(Episodes(Input(u), k))
              more == Cardinality(Episodes(Input(u), k + 1))
              done == Cardinality(Lookups(u))
  <2>5. /\ asks \in Nat /\ more = asks + 1 /\ more <= k + 1 /\ k + 1 <= Len(Input(u))
        /\ Len(Input(u)) \in Nat
        /\ done \in Nat /\ done <= asks /\ (~limited => done = asks)
    BY <1>1, <1>3, <2>3 DEF Past
  <2>6. Input(u)' = Input(u) /\ Episodes(Input(u), k + 1)' = Episodes(Input(u), k + 1)
    BY <1>1 DEF Input, Episodes
  <2>7. Cardinality(Lookups(u)') = done + 1 /\ Cardinality(Episodes(Input(u), k + 1)') = more
    BY <2>3, <2>6
  <2>. HIDE DEF asks, more, done
  <2>8. LookingAhead(u)'
    <3>1. Past(u, k + 1)'
      BY <1>1, <1>3, <2>1, <2>5, <2>6, <2>7 DEF Past
    <3>. QED
      BY <1>1, <1>3, <2>1, <2>3, <2>6, <3>1 DEF LookingAhead
  <2>9. ASSUME NEW v \in ToSet(Users) PROVE Bounded(v)'
    <3>1. CASE v # u
      BY <1>1, <1>2, <1>5, <2>2, <3>1, OthersBounded DEF RequestInv
    <3>2. CASE v = u
      <4>1. Wanted(u, "next-up")' = Wanted(u, "next-up") /\ Wanted(u, "binge-ahead")' = Wanted(u, "binge-ahead")
        BY <1>1 DEF Wanted
      <4>2. Bounded(u)
        BY DEF RequestInv
      <4>3. cap["next-up"] > 0 => Cardinality(Lookups(u)') <= cap["next-up"]
        <5>1. /\ cap["next-up"] \in Nat
              /\ cap["next-up"] > 0 => Len(Input(u)) <= cap["next-up"]
          BY <1>3, InputTyped DEF LookingAhead
        <5>. QED
          BY <2>5, <2>7, <5>1
      <4>4. cap["binge-ahead"] > 0 => Cardinality(Got(u)') <= cap["binge-ahead"]
        BY <1>6, <2>3
      <4>5. estimating => Cardinality(Lookups(u)') <= used'[u] /\ used'[u] <= LookupsPerUser
        <5>1. estimating => done <= used[u]
          BY <4>2 DEF Bounded, done
        <5>. QED
          BY <1>5, <1>6, <2>5, <2>7, <5>1
      <4>. QED
        BY <1>1, <2>3, <3>2, <4>1, <4>2, <4>3, <4>4, <4>5 DEF Bounded
    <3>. QED
      BY <3>1, <3>2
  <2>. QED
    BY <1>1, <1>3, <2>4, <2>8, <2>9, ByName DEF RequestInv, FollowInv
<1>. QED
  BY <1>7, <1>8

LEMMA RequestInit == Init => RequestInv
<1>. SUFFICES ASSUME Init PROVE RequestInv
  OBVIOUS
<1>1. /\ pc = "playing" /\ asked = <<>> /\ nextUp = [u \in ToSet(Users) |-> NotFetched]
      /\ used = [u \in ToSet(Users) |-> 0]
  BY DEF Init
<1>2. ASSUME NEW u, NEW w PROVE Requests(u, w) = {} /\ Lookups(u) = {} /\ Got(u) = {}
  BY <1>1 DEF Requests, Lookups, Got
<1>3. Cardinality({}) = 0
  BY FS_EmptySet
<1>4. FreshInv
  BY <1>1, <1>2, Listing DEF FreshInv
<1>5. ASSUME NEW u \in ToSet(Users) PROVE Bounded(u)
  <2>1. LookupsPerUser \in Nat /\ cap["next-up"] \in Nat /\ cap["binge-ahead"] \in Nat
    BY ConfigInit, Tiers, CollectAssumption DEF ConfigInv
  <2>2. nextUp[u] = NotFetched /\ used[u] = 0
    BY <1>1
  <2>3. /\ Cardinality(Requests(u, "next-up")) = 0 /\ Cardinality(Lookups(u)) = 0
        /\ Cardinality(Got(u)) = 0
    BY <1>2, <1>3
  <2>. QED
    BY <2>1, <2>2, <2>3 DEF Bounded
<1>. QED
  BY <1>1, <1>4, <1>5 DEF RequestInv, FollowInv

LEMMA RequestStep == ConfigInv /\ TypeInv /\ RequestInv /\ [Next]_vars => RequestInv'
<1>. SUFFICES ASSUME ConfigInv, TypeInv, RequestInv, [Next]_vars PROVE RequestInv'
  OBVIOUS
<1>1. CASE NowPlaying
  BY <1>1, QuietStep DEF NowPlaying, loopVars, limiter, histVars
<1>2. CASE SkipTier
  BY <1>2, QuietStep DEF SkipTier, InLoop, limiter, histVars
<1>3. CASE EndBinge
  BY <1>3, QuietStep DEF EndBinge, Contribute, limiter, TypeInv
<1>4. CASE EndLoop
  BY <1>4, QuietStep DEF EndLoop, loopVars, limiter, histVars
<1>5. CASE filterByLibraries
  BY <1>5, QuietStep DEF filterByLibraries, loopVars, limiter, histVars
<1>6. CASE RequestFails
  BY <1>6, QuietStep DEF RequestFails, loopVars, limiter
<1>7. CASE Cancel \/ UNCHANGED vars
  BY <1>7, QuietStep DEF Cancel, vars, loopVars, limiter, histVars
<1>. QED
  BY <1>1, <1>2, <1>3, <1>4, <1>5, <1>6, <1>7, FetchListStep, FetchNextUpStep,
     StartBingeStep, PassOverStep, FollowStep
  DEF Next, CollectCandidates, bingeAhead

LEMMA RequestsAreBounded == TypeInv /\ RequestInv => RequestsBounded
<1>. SUFFICES ASSUME TypeInv, RequestInv, NEW u \in ToSet(Users)
              PROVE  LET follows == Requests(u, "follow")
                         on == IF u \in DOMAIN enrolled THEN enrolled[u] ELSE {}
                     IN  /\ Cardinality(Requests(u, "next-up")) <= 1
                         /\ on \cap {"next-up", "binge-ahead"} = {} => Requests(u, "next-up") = {}
                         /\ cap["next-up"] > 0 => Cardinality(follows) <= cap["next-up"]
                         /\ estimating => Cardinality(follows) <= LookupsPerUser
                         /\ cap["binge-ahead"] > 0 =>
                              Cardinality({i \in follows : asked[i].got}) <= cap["binge-ahead"]
  BY DEF RequestsBounded
<1>1. Bounded(u) /\ used[u] \in Nat /\ LookupsPerUser \in Nat
  BY CollectAssumption, Tiers DEF RequestInv, TypeInv
<1>2. Cardinality(Requests(u, "next-up")) \in Nat /\ Cardinality(Lookups(u)) \in Nat
  BY RequestsAreCounted
<1>3. Cardinality(Requests(u, "next-up")) <= 1
  BY <1>1, <1>2 DEF Bounded
<1>4. ASSUME ~(Wanted(u, "next-up") \/ Wanted(u, "binge-ahead")) PROVE Requests(u, "next-up") = {}
  <2>1. Cardinality(Requests(u, "next-up")) = 0
    BY <1>1, <1>2, <1>4 DEF Bounded
  <2>2. IsFiniteSet(Requests(u, "next-up"))
    BY RequestsAreCounted, Indices
  <2>. QED
    BY <2>1, <2>2, FS_EmptySet
<1>5. estimating => Cardinality(Lookups(u)) <= LookupsPerUser
  BY <1>1, <1>2 DEF Bounded
<1>6. /\ cap["next-up"] > 0 => Cardinality(Lookups(u)) <= cap["next-up"]
      /\ cap["binge-ahead"] > 0 => Cardinality(Got(u)) <= cap["binge-ahead"]
  BY <1>1 DEF Bounded
<1>. QED
  BY <1>3, <1>4, <1>5, <1>6 DEF Wanted, Lookups, Got

LEMMA RequestInvariant == Spec => [](ConfigInv /\ TypeInv /\ RequestInv)
<1>1. Init => RequestInv
  BY RequestInit
<1>2. ConfigInv /\ TypeInv /\ RequestInv /\ [Next]_vars => RequestInv'
  BY RequestStep
<1>. QED
  BY <1>1, <1>2, CollectTyped, PTL DEF Spec

\* Whatever the caps and the answers, no user costs the server more requests than
\* its tiers, the operator's cap and the estimate's own limit allow.
THEOREM RequestsAlwaysBounded == Spec => []RequestsBounded
<1>1. TypeInv /\ RequestInv => RequestsBounded
  BY RequestsAreBounded
<1>. QED
  BY <1>1, RequestInvariant, PTL

-----------------------------------------------------------------------------
(***************************************************************************)
(* The tiers that were collected.                                          *)
(***************************************************************************)
LEMMA BeforeMoves ==
    ASSUME TypeInv, user <= Len(Users), Advance, NEW j \in DOMAIN Users, NEW l \in DOMAIN AllTiers
    PROVE  Before(j, l)' <=> Before(j, l) \/ (j = user /\ l = tier)
<1>1. /\ user \in 1 .. Len(Users) /\ tier \in 1 .. 4 /\ Len(Users) \in Nat
      /\ j \in 1 .. Len(Users) /\ l \in 1 .. 4 /\ Len(AllTiers) = 4
  BY Listing, AtHand, Tiers DEF TypeInv
<1>2. CASE tier < 4
  BY <1>1, <1>2 DEF Advance, Before
<1>3. CASE tier = 4
  BY <1>1, <1>3 DEF Advance, Before
<1>. QED
  BY <1>1, <1>2, <1>3

\* Every tier has a name of its own, as every user has.
LEMMA PlacesDiffer ==
    ASSUME NEW j \in DOMAIN Users, NEW l \in DOMAIN AllTiers,
           NEW k \in DOMAIN Users, NEW m \in DOMAIN AllTiers
    PROVE  Users[j] = Users[k] /\ AllTiers[l] = AllTiers[m] => j = k /\ l = m
  BY Listing, Tiers

LEMMA NoOfferStep ==
    ASSUME TypeInv, OfferInv, UNCHANGED <<offered, enrolled>>,
           UNCHANGED <<user, tier>> \/ (user <= Len(Users) /\ Advance /\ ~On)
    PROVE  OfferInv'
<1>1. \A u, t : Wanted(u, t)' = Wanted(u, t)
  BY DEF Wanted
<1>2. CASE UNCHANGED <<user, tier>>
  <2>1. \A j, l : Before(j, l)' = Before(j, l)
    BY <1>2 DEF Before
  <2>. QED
    BY <1>1, <2>1 DEF OfferInv
<1>3. CASE user <= Len(Users) /\ Advance /\ ~On
  <2>1. ~Wanted(Users[user], AllTiers[tier])
    BY <1>3 DEF On, Wanted, currentUser, currentTier
  <2>2. \A j \in DOMAIN Users, l \in DOMAIN AllTiers :
          Before(j, l)' <=> Before(j, l) \/ (j = user /\ l = tier)
    BY <1>3, BeforeMoves
  <2>. QED
    BY <1>1, <2>1, <2>2 DEF OfferInv
<1>. QED
  BY <1>2, <1>3

\* A tier that has been collected is not the one at hand.
LEMMA NotAtHand ==
    ASSUME TypeInv, OfferInv, user <= Len(Users), NEW i \in DOMAIN offered
    PROVE  ~(offered[i].user = currentUser /\ offered[i].tier = currentTier)
<1>1. user \in DOMAIN Users /\ tier \in DOMAIN AllTiers /\ ~Before(user, tier)
  BY AtHand, Listing, Tiers DEF Before
<1>2. PICK j \in DOMAIN Users, l \in DOMAIN AllTiers :
        offered[i].user = Users[j] /\ offered[i].tier = AllTiers[l] /\ Before(j, l)
  BY DEF OfferInv
<1>. SUFFICES ASSUME offered[i].user = Users[user], offered[i].tier = AllTiers[tier] PROVE FALSE
  BY DEF currentUser, currentTier
<1>3. j = user /\ l = tier
  BY <1>1, <1>2, PlacesDiffer
<1>. QED
  BY <1>1, <1>2, <1>3

LEMMA OfferStepOne ==
    ASSUME TypeInv, OfferInv, UNCHANGED enrolled, user <= Len(Users), On, NEW items, Contribute(items)
    PROVE  OfferInv'
<1>. DEFINE n == Len(offered)
            e == [user |-> currentUser, tier |-> currentTier, files |-> Len(withMediaFile(items))]
<1>1. /\ n \in Nat /\ DOMAIN offered = 1 .. n /\ DOMAIN offered' = (1 .. n) \cup {n + 1}
      /\ offered'[n + 1] = e /\ \A i \in 1 .. n : offered'[i] = offered[i]
  BY DEF TypeInv, Contribute
<1>2. e.user = Users[user] /\ e.tier = AllTiers[tier] /\ user \in DOMAIN Users /\ tier \in DOMAIN AllTiers
  BY AtHand, Tiers DEF currentUser, currentTier
<1>. HIDE DEF e, n
<1>3. \A u, t : Wanted(u, t)' = Wanted(u, t)
  BY DEF Wanted
<1>4. Wanted(Users[user], AllTiers[tier]) /\ ~Before(user, tier)
  BY <1>2, Listing, Tiers DEF On, Wanted, currentUser, currentTier, Before
<1>5. \A j \in DOMAIN Users, l \in DOMAIN AllTiers :
        Before(j, l)' <=> Before(j, l) \/ (j = user /\ l = tier)
  BY BeforeMoves DEF Contribute
<1>6. ASSUME NEW i \in DOMAIN offered'
      PROVE  \E j \in DOMAIN Users, l \in DOMAIN AllTiers :
               /\ offered'[i].user = Users[j] /\ offered'[i].tier = AllTiers[l]
               /\ Before(j, l)' /\ Wanted(Users[j], AllTiers[l])
  <2>1. CASE i = n + 1
    BY <1>1, <1>2, <1>4, <1>5, <2>1
  <2>2. CASE i \in 1 .. n
    BY <1>1, <1>5, <2>2 DEF OfferInv
  <2>. QED
    BY <1>1, <2>1, <2>2
<1>7. ASSUME NEW j \in DOMAIN Users, NEW l \in DOMAIN AllTiers, Before(j, l)', Wanted(Users[j], AllTiers[l])
      PROVE  \E i \in DOMAIN offered' : offered'[i].user = Users[j] /\ offered'[i].tier = AllTiers[l]
  <2>1. CASE j = user /\ l = tier
    BY <1>1, <1>2, <2>1
  <2>2. CASE Before(j, l)
    BY <1>1, <1>7, <2>2 DEF OfferInv
  <2>. QED
    BY <1>5, <1>7, <2>1, <2>2
<1>8. \A i \in 1 .. n : ~(offered[i].user = e.user /\ offered[i].tier = e.tier)
  BY <1>1, <1>2, NotAtHand DEF currentUser, currentTier
<1>9. ASSUME NEW i \in DOMAIN offered', NEW j \in DOMAIN offered',
             offered'[i].user = offered'[j].user, offered'[i].tier = offered'[j].tier
      PROVE  i = j
  <2>1. CASE i = n + 1 \/ j = n + 1
    BY <1>1, <1>8, <1>9, <2>1
  <2>2. CASE i \in 1 .. n /\ j \in 1 .. n
    BY <1>1, <1>9, <2>2 DEF OfferInv
  <2>. QED
    BY <1>1, <2>1, <2>2
<1>. QED
  BY <1>3, <1>6, <1>7, <1>9 DEF OfferInv

\* What every step does to the tiers that were collected.
LEMMA EveryStep ==
    ASSUME ConfigInv, TypeInv, [Next]_vars
    PROVE  \/ /\ UNCHANGED offered /\ (cands' = cands \/ ~Unfiltered') /\ (Unfiltered' => Unfiltered)
              /\ \/ UNCHANGED <<user, tier>>
                 \/ user <= Len(Users) /\ Advance /\ ~On
           \/ /\ user <= Len(Users) /\ On /\ Unfiltered
              /\ \E items \in Seq(Items) : Contribute(items)
<1>. USE DEF histVars, loopVars, limiter
<1>0. scope' = scope
  BY NothingReconfigures
<1>1. CASE NowPlaying \/ EndLoop \/ RequestFails \/ Cancel \/ UNCHANGED vars
  BY <1>0, <1>1 DEF NowPlaying, EndLoop, RequestFails, Cancel, vars, InLoop, Unfiltered
<1>2. CASE SkipTier
  BY <1>0, <1>2 DEF SkipTier, InLoop, Unfiltered
<1>3. CASE FetchList
  <2>1. PICK items \in Replies[currentTier] :
          currentTier \in {"resume", "recently-added"} /\ Contribute(items)
    BY <1>3 DEF FetchList
  <2>2. items \in Seq(Items)
    BY <2>1, RepliesAreLists
  <2>. QED
    BY <1>3, <2>1, <2>2 DEF FetchList, InLoop, Unfiltered
<1>4. CASE FetchNextUp
  <2>1. PICK items \in Replies["next-up"] : Contribute(withMediaFile(items))
    BY <1>4 DEF FetchNextUp
  <2>2. withMediaFile(items) \in Seq(Items)
    BY <2>1, RepliesAreLists, MediaAreItems
  <2>. QED
    BY <1>4, <2>1, <2>2 DEF FetchNextUp, InLoop, Unfiltered
<1>5. CASE StartBinge
  BY <1>0, <1>5 DEF StartBinge, InLoop, Unfiltered
<1>6. CASE NoSeries \/ Refuse \/ Follow \/ FollowFails
  BY <1>0, <1>6 DEF NoSeries, Refuse, Follow, FollowFails, Following, Unfiltered
<1>7. CASE EndBinge
  <2>1. out \in Seq(Items)
    BY MediaAreItems DEF TypeInv
  <2>. QED
    BY <1>7, <2>1 DEF EndBinge, TypeInv, Unfiltered
<1>8. CASE filterByLibraries
  BY <1>0, <1>8 DEF filterByLibraries, TypeInv, Unfiltered
<1>. QED
  BY <1>1, <1>2, <1>3, <1>4, <1>5, <1>6, <1>7, <1>8 DEF Next, CollectCandidates, bingeAhead

LEMMA OfferInit == Init => OfferInv
  BY Listing, Tiers DEF Init, OfferInv, Before

LEMMA OfferStep == ConfigInv /\ TypeInv /\ OfferInv /\ [Next]_vars => OfferInv'
<1>. SUFFICES ASSUME ConfigInv, TypeInv, OfferInv, [Next]_vars PROVE OfferInv'
  OBVIOUS
<1>1. UNCHANGED enrolled
  BY NothingReconfigures
<1>. QED
  BY <1>1, EveryStep, NoOfferStep, OfferStepOne

LEMMA FailInit == Init => FailInv
  BY DEF Init, FailInv

LEMMA FailStep == TypeInv /\ FailInv /\ [Next]_vars => FailInv'
<1>. SUFFICES ASSUME TypeInv, FailInv, [Next]_vars PROVE FailInv'
  OBVIOUS
<1>. USE DEF histVars, loopVars, limiter
<1>0. failures \in Seq(FailureType) /\ Len(failures) \in Nat /\ DOMAIN failures = 1 .. Len(failures)
  BY DEF TypeInv
<1>1. ASSUME NEW f, failures' = Append(failures, f)
      PROVE  /\ Last(failures') = f
             /\ (\A i \in DOMAIN failures : failures[i].what = "follow") /\ f.what = "follow" =>
                  \A i \in DOMAIN failures' : failures'[i].what = "follow"
  BY <1>0, <1>1 DEF Last
<1>2. CASE FollowFails
  <2>1. /\ pc = "follow" /\ failures' = Append(failures, [user |-> currentUser, what |-> "follow"])
        /\ canceled' = canceled /\ (pc' = "failed" => canceled)
    BY <1>2 DEF FollowFails, Following, Fail
  <2>. QED
    BY <1>1, <2>1 DEF FailInv
<1>3. CASE RequestFails
  <2>1. /\ pc' = "failed"
        /\ \E w : w # "follow" /\ \E u : failures' = Append(failures, [user |-> u, what |-> w])
    BY <1>3, AtHand, Tiers DEF RequestFails, Fail, InLoop
  <2>. QED
    BY <1>1, <2>1 DEF FailInv
<1>4. CASE UNCHANGED <<failures, pc>> /\ (canceled => canceled')
  BY <1>4 DEF FailInv
<1>5. CASE UNCHANGED <<failures, canceled>> /\ pc # "failed" /\ pc' # "failed"
  BY <1>5 DEF FailInv
<1>6. CASE NowPlaying
  BY <1>5, <1>6 DEF NowPlaying
<1>7. CASE SkipTier \/ FetchList \/ FetchNextUp \/ NoSeries \/ Refuse \/ Follow
  BY <1>4, <1>7 DEF SkipTier, FetchList, FetchNextUp, NoSeries, Refuse, Follow, Ask
<1>8. CASE StartBinge \/ EndBinge
  BY <1>5, <1>8 DEF StartBinge, EndBinge, InLoop, LookAhead
<1>9. CASE EndLoop \/ filterByLibraries
  BY <1>5, <1>9 DEF EndLoop, filterByLibraries
<1>10. CASE Cancel \/ UNCHANGED vars
  BY <1>4, <1>10 DEF Cancel, vars
<1>. QED
  BY <1>2, <1>3, <1>6, <1>7, <1>8, <1>9, <1>10 DEF Next, CollectCandidates, bingeAhead

LEMMA FailuresAreLocal == ConfigInv /\ TypeInv /\ OfferInv /\ FailInv => SeriesFailureIsLocal
<1>. SUFFICES ASSUME ConfigInv, TypeInv, OfferInv, FailInv, pc = "done"
              PROVE  {<<offered[i].user, offered[i].tier>> : i \in DOMAIN offered}
                       = UNION {{u} \X enrolled[u] : u \in DOMAIN enrolled \cap ToSet(Users)}
  BY DEF SeriesFailureIsLocal, FailInv, OfferInv
<1>. DEFINE collected == {<<offered[i].user, offered[i].tier>> : i \in DOMAIN offered}
            due       == UNION {{u} \X enrolled[u] : u \in DOMAIN enrolled \cap ToSet(Users)}
<1>1. \A j \in DOMAIN Users, l \in DOMAIN AllTiers : Before(j, l)
  BY Listing, Tiers DEF TypeInv, Before
<1>2. ASSUME NEW i \in DOMAIN offered PROVE <<offered[i].user, offered[i].tier>> \in due
  <2>1. Wanted(offered[i].user, offered[i].tier) /\ offered[i].user \in ToSet(Users)
    BY Listing DEF OfferInv
  <2>. QED
    BY <2>1 DEF Wanted
<1>3. ASSUME NEW u \in DOMAIN enrolled \cap ToSet(Users), NEW t \in enrolled[u]
      PROVE  <<u, t>> \in collected
  <2>1. PICK j \in DOMAIN Users : Users[j] = u
    BY Listing
  <2>2. t \in ToSet(AllTiers)
    BY DEF ConfigInv
  <2>3. PICK l \in DOMAIN AllTiers : AllTiers[l] = t
    BY <2>2 DEF ToSet
  <2>4. Wanted(u, t)
    BY DEF Wanted
  <2>. QED
    BY <1>1, <2>1, <2>3, <2>4 DEF OfferInv
<1>4. collected \subseteq due
  BY <1>2
<1>5. due \subseteq collected
  <2>. SUFFICES ASSUME NEW x \in due PROVE x \in collected
    OBVIOUS
  <2>1. PICK u \in DOMAIN enrolled \cap ToSet(Users) : x \in {u} \X enrolled[u]
    OBVIOUS
  <2>2. PICK t \in enrolled[u] : x = <<u, t>>
    BY <2>1
  <2>. QED
    BY <1>3, <2>2
<1>. QED
  BY <1>4, <1>5

LEMMA OfferInvariant == Spec => [](ConfigInv /\ TypeInv /\ RequestInv /\ OfferInv /\ FailInv)
<1>1. Init => OfferInv /\ FailInv
  BY OfferInit, FailInit
<1>2. ConfigInv /\ TypeInv /\ OfferInv /\ FailInv /\ [Next]_vars => OfferInv' /\ FailInv'
  BY OfferStep, FailStep
<1>. QED
  BY <1>1, <1>2, RequestInvariant, PTL DEF Spec

\* One series the server cannot answer for ends nothing: a sweep that is done has
\* collected every tier of every enrolled user once, whatever failed on the way.
THEOREM SeriesFailuresStayLocal == Spec => []SeriesFailureIsLocal
<1>1. ConfigInv /\ TypeInv /\ OfferInv /\ FailInv => SeriesFailureIsLocal
  BY FailuresAreLocal
<1>. QED
  BY <1>1, OfferInvariant, PTL

-----------------------------------------------------------------------------
(***************************************************************************)
(* What the tiers have added.                                              *)
(***************************************************************************)
\* Everything a state has contributed is told by the indices of its candidates.
LEMMA Added ==
    ASSUME TypeInv, user <= Len(Users), NEW items \in Seq(Media), cands' = cands \o Stamped(items),
           NEW u, NEW t
    PROVE  /\ Cardinality(Contribution(u, t)) \in Nat
           /\ ~(u = currentUser /\ t = currentTier) => Contribution(u, t)' = Contribution(u, t)
           /\ u = currentUser /\ t = currentTier /\ Contribution(u, t) = {} =>
                Cardinality(Contribution(u, t)') = Len(items)
           /\ \A c \in DOMAIN cands' :
                \/ c \in DOMAIN cands /\ cands'[c] = cands[c]
                \/ cands'[c].UserID = currentUser /\ cands'[c].Tier = currentTier
<1>. DEFINE n == Len(cands)
            m == Len(items)
            new == Stamped(items)
<1>1. /\ cands \in Seq(CandType) /\ n \in Nat /\ m \in Nat /\ DOMAIN cands = 1 .. n
      /\ new \in Seq(CandType) /\ Len(new) = m
      /\ \A i \in 1 .. m : new[i].UserID = currentUser /\ new[i].Tier = currentTier
      /\ cands' = cands \o new
  BY StampedTyped DEF TypeInv
<1>. HIDE DEF new, m
<1>2. /\ DOMAIN cands' = 1 .. (n + m)
      /\ \A i \in 1 .. n : cands'[i] = cands[i]
      /\ \A i \in (n + 1) .. (n + m) : cands'[i] = new[i - n]
  <2>. HIDE DEF CandType
  <2>. QED
    BY <1>1
<1>. HIDE DEF n
<1>3. \A i \in (n + 1) .. (n + m) : cands'[i].UserID = currentUser /\ cands'[i].Tier = currentTier
  BY <1>1, <1>2
<1>4. 1 .. (n + m) = 1 .. n \cup (n + 1) .. (n + m)
  BY <1>1
<1>5. Contribution(u, t) = {i \in 1 .. n : cands[i].UserID = u /\ cands[i].Tier = t}
  BY <1>1 DEF Contribution
<1>6. Contribution(u, t)' = {i \in 1 .. (n + m) : cands'[i].UserID = u /\ cands'[i].Tier = t}
  BY <1>2 DEF Contribution
<1>7. Cardinality(Contribution(u, t)) \in Nat
  BY <1>1, <1>5, Indices
<1>8. ASSUME ~(u = currentUser /\ t = currentTier) PROVE Contribution(u, t)' = Contribution(u, t)
  BY <1>2, <1>3, <1>4, <1>5, <1>6, <1>8
<1>9. ASSUME u = currentUser, t = currentTier, Contribution(u, t) = {}
      PROVE  Cardinality(Contribution(u, t)') = m
  <2>1. Contribution(u, t)' = (n + 1) .. (n + m)
    BY <1>2, <1>3, <1>4, <1>5, <1>6, <1>9
  <2>2. Cardinality((n + 1) .. (n + m)) = m
    BY <1>1, FS_Interval
  <2>. QED
    BY <2>1, <2>2
<1>10. ASSUME NEW c \in DOMAIN cands'
       PROVE  \/ c \in DOMAIN cands /\ cands'[c] = cands[c]
              \/ cands'[c].UserID = currentUser /\ cands'[c].Tier = currentTier
  BY <1>1, <1>2, <1>3, <1>4
<1>. QED
  BY <1>7, <1>8, <1>9, <1>10 DEF m

LEMMA CountStep == ConfigInv /\ TypeInv /\ OfferInv /\ CountInv /\ [Next]_vars => CountInv'
<1>. SUFFICES ASSUME ConfigInv, TypeInv, OfferInv, CountInv, [Next]_vars, Unfiltered' PROVE CountInv'
  BY DEF CountInv
<1>0. cap' = cap
  BY NothingReconfigures
<1>1. CASE UNCHANGED <<offered, cands>> /\ Unfiltered
  <2>1. \A u, t : Contribution(u, t)' = Contribution(u, t)
    BY <1>1 DEF Contribution
  <2>. QED
    BY <1>0, <1>1, <2>1 DEF CountInv, Capped
<1>2. CASE user <= Len(Users) /\ Unfiltered /\ \E items \in Seq(Items) : Contribute(items)
  <2>1. PICK items \in Seq(Items) : Contribute(items)
    BY <1>2
  <2>2. PICK files \in Seq(Media) : files = withMediaFile(items)
    BY FilesOf
  <2>3. PICK added \in Seq(Media) : added = capItems(files, cap[currentTier])
    BY <1>2, AtHand, CapCuts DEF ConfigInv
  <2>4. Len(added) = Capped(Len(files), currentTier)
    BY <1>2, <2>3, AtHand, CapCuts DEF ConfigInv, Capped
  <2>5. cands' = cands \o Stamped(added)
    BY <2>1, <2>2, <2>3 DEF Contribute
  <2>. DEFINE n == Len(offered)
              e == [user |-> currentUser, tier |-> currentTier, files |-> Len(files)]
  <2>6. /\ n \in Nat /\ DOMAIN offered = 1 .. n /\ DOMAIN offered' = (1 .. n) \cup {n + 1}
        /\ offered'[n + 1] = e /\ \A i \in 1 .. n : offered'[i] = offered[i]
    BY <2>1, <2>2 DEF TypeInv, Contribute
  <2>7. e.user = currentUser /\ e.tier = currentTier /\ e.files = Len(files)
    OBVIOUS
  <2>. HIDE DEF e, n
  <2>8. \A i \in 1 .. n : ~(offered[i].user = currentUser /\ offered[i].tier = currentTier)
    BY <1>2, <2>6, NotAtHand
  <2>9. ASSUME NEW i \in DOMAIN offered'
        PROVE  Cardinality(Contribution(offered[i].user, offered[i].tier))'
                 = Capped(offered[i].files, offered[i].tier)'
    <3>1. PICK u, t, f : u = offered'[i].user /\ t = offered'[i].tier /\ f = offered'[i].files
      OBVIOUS
    <3>2. Cardinality(Contribution(u, t)') = Capped(f, t)
      <4>1. CASE i = n + 1
        <5>1. u = currentUser /\ t = currentTier /\ f = Len(files)
          BY <2>6, <2>7, <3>1, <4>1
        <5>2. Contribution(u, t) = {}
          BY <1>2, <2>6, <2>8, <5>1 DEF CountInv, Contribution
        <5>. QED
          BY <1>2, <2>4, <2>5, <5>1, <5>2, Added
      <4>2. CASE i \in 1 .. n
        <5>1. u = offered[i].user /\ t = offered[i].tier /\ f = offered[i].files
          BY <2>6, <3>1, <4>2
        <5>2. Contribution(u, t)' = Contribution(u, t)
          BY <1>2, <2>5, <2>8, <4>2, <5>1, Added
        <5>. QED
          BY <1>2, <2>6, <4>2, <5>1, <5>2 DEF CountInv
      <4>. QED
        BY <2>6, <4>1, <4>2
    <3>3. Contribution(offered[i].user, offered[i].tier)' = Contribution(u, t)'
      BY <3>1 DEF Contribution
    <3>4. Capped(offered[i].files, offered[i].tier)' = Capped(f, t)
      BY <1>0, <3>1 DEF Capped
    <3>. QED
      BY <3>2, <3>3, <3>4
  <2>10. ASSUME NEW c \in DOMAIN cands'
         PROVE  \E i \in DOMAIN offered' :
                  cands'[c].UserID = offered'[i].user /\ cands'[c].Tier = offered'[i].tier
    <3>1. CASE c \in DOMAIN cands /\ cands'[c] = cands[c]
      BY <1>2, <2>6, <3>1 DEF CountInv
    <3>2. CASE cands'[c].UserID = currentUser /\ cands'[c].Tier = currentTier
      BY <2>6, <2>7, <3>2
    <3>. QED
      BY <1>2, <2>5, <3>1, <3>2, Added
  <2>. QED
    BY <2>9, <2>10 DEF CountInv
<1>. QED
  BY <1>1, <1>2, EveryStep

LEMMA EntryKept ==
    ASSUME [Next]_vars, NEW e, FilesRight(e), limited => limited',
           e.tier \in {"next-up", "binge-ahead"} => nextUp'[e.user] = nextUp[e.user],
           e.tier = "binge-ahead" => Lookups(e.user)' = Lookups(e.user)
    PROVE  FilesRight(e)'
<1>1. cap' = cap
  BY NothingReconfigures
<1>2. ASSUME e.tier = "binge-ahead"
      PROVE  /\ Input(e.user)' = Input(e.user)
             /\ \A k : Episodes(Input(e.user), k)' = Episodes(Input(e.user), k)
  BY <1>1, <1>2 DEF Input, Episodes
<1>. QED
  BY <1>1, <1>2 DEF FilesRight

LEMMA EntriesStay ==
    ASSUME ConfigInv, TypeInv, RequestInv, OfferInv, FilesInv, [Next]_vars,
           NEW i \in DOMAIN offered, NEW e, e = offered[i]
    PROVE  FilesRight(e)'
<1>. USE DEF histVars, loopVars, limiter
<1>0. FilesRight(e) /\ e.user \in ToSet(Users)
  <2>1. offered[i] \in OfferedType
    BY DEF TypeInv
  <2>. QED
    BY <2>1 DEF FilesInv, OfferedType
<1>1. CASE UNCHANGED <<nextUp, asked>> /\ (limited => limited')
  <2>1. Lookups(e.user)' = Lookups(e.user)
    BY <1>1, NothingAsked
  <2>. QED
    BY <1>0, <1>1, <2>1, EntryKept
<1>2. CASE FetchList
  <2>1. /\ user <= Len(Users) /\ Ask(currentTier, TRUE) /\ currentTier \in {"resume", "recently-added"}
        /\ UNCHANGED <<nextUp, limited>>
    BY <1>2 DEF FetchList, InLoop
  <2>2. Lookups(e.user)' = Lookups(e.user)
    BY <2>1, ListAsked
  <2>. QED
    BY <1>0, <2>1, <2>2, EntryKept
<1>3. ASSUME NEW items \in Replies["next-up"], Remember(items), Ask("next-up", TRUE), limited' = limited,
             user <= Len(Users), nextUp[currentUser] = NotFetched
      PROVE  FilesRight(e)'
  <2>1. Lookups(e.user)' = Lookups(e.user)
    BY <1>3, ListAsked
  <2>2. e.tier \in {"next-up", "binge-ahead"} => e.user # currentUser
    BY <1>0, <1>3 DEF FilesRight
  <2>3. e.tier \in {"next-up", "binge-ahead"} => nextUp'[e.user] = nextUp[e.user]
    BY <1>0, <1>3, <2>2, RememberTyped
  <2>. QED
    BY <1>0, <1>3, <2>1, <2>3, EntryKept
<1>4. CASE FetchNextUp
  <2>1. /\ user <= Len(Users) /\ Ask("next-up", TRUE) /\ limited' = limited /\ pc = "tier"
        /\ \E items \in Replies["next-up"] : Remember(items)
    BY <1>4 DEF FetchNextUp, InLoop
  <2>2. tier = 2
    BY <1>4, <2>1, AtHand, Tiers DEF FetchNextUp, currentTier
  <2>3. nextUp[currentUser] = NotFetched
    BY <2>1, <2>2, AtHand DEF RequestInv, FreshInv, currentUser
  <2>. QED
    BY <1>3, <2>1, <2>3
<1>5. CASE StartBinge
  <2>1. CASE nextUp[currentUser] # NotFetched
    BY <1>1, <1>5, <2>1 DEF StartBinge
  <2>2. CASE nextUp[currentUser] = NotFetched
    BY <1>3, <1>5, <2>2 DEF StartBinge, InLoop
  <2>. QED
    BY <2>1, <2>2
<1>6. CASE Follow \/ FollowFails
  <2>1. user <= Len(Users) /\ currentTier = "binge-ahead" /\ UNCHANGED <<nextUp, limited>>
    BY <1>6 DEF Follow, FollowFails, Following, TypeInv, Spend
  <2>2. e.tier = "binge-ahead" => e.user # currentUser
    BY <2>1, NotAtHand
  <2>3. e.tier = "binge-ahead" => Lookups(e.user)' = Lookups(e.user)
    <3>1. CASE canceled /\ pc' = "failed" /\ UNCHANGED asked
      BY <3>1, NothingAsked
    <3>2. CASE ~(canceled /\ pc' = "failed" /\ UNCHANGED asked)
      <4>1. PICK got \in BOOLEAN : Ask("follow", got)
        BY <1>6, <3>2, FollowAnswered DEF Answered
      <4>2. e.user # currentUser => Requests(e.user, "follow")' = Requests(e.user, "follow")
        BY <4>1, OneAsked
      <4>. QED
        BY <2>2, <4>2 DEF Lookups
    <3>. QED
      BY <3>1, <3>2
  <2>. QED
    BY <1>0, <2>1, <2>3, EntryKept
<1>7. CASE NowPlaying \/ SkipTier \/ NoSeries \/ EndBinge \/ EndLoop
  BY <1>1, <1>7 DEF NowPlaying, SkipTier, NoSeries, EndBinge, EndLoop
<1>8. CASE Refuse
  BY <1>1, <1>8 DEF Refuse
<1>9. CASE filterByLibraries \/ RequestFails \/ Cancel \/ UNCHANGED vars
  BY <1>1, <1>9 DEF filterByLibraries, RequestFails, Cancel, vars
<1>. QED
  BY <1>2, <1>4, <1>5, <1>6, <1>7, <1>8, <1>9 DEF Next, CollectCandidates, bingeAhead

\* An entry just added.
LEMMA EntryAdded ==
    ASSUME ConfigInv, TypeInv, RequestInv, [Next]_vars, NEW e, offered' = Append(offered, e)
    PROVE  FilesRight(e)'
<1>. USE DEF histVars, loopVars, limiter
<1>0. ASSUME NEW f
      PROVE  /\ Append(offered, f)[Len(offered) + 1] = f
             /\ offered' = Append(offered, f) => f = e
  <2>1. offered \in Seq(OfferedType) /\ Len(offered) \in Nat
    BY DEF TypeInv
  <2>2. ASSUME NEW g PROVE Append(offered, g)[Len(offered) + 1] = g
    BY <2>1
  <2>. QED
    BY <2>2
<1>1. CASE FetchList
  <2>1. e.tier \in {"resume", "recently-added"}
    BY <1>0, <1>1 DEF FetchList, Contribute
  <2>. QED
    BY <2>1 DEF FilesRight
<1>2. CASE FetchNextUp
  <2>1. PICK items \in Replies["next-up"] : Remember(items) /\ Contribute(withMediaFile(items))
    BY <1>2 DEF FetchNextUp
  <2>2. user <= Len(Users) /\ currentTier = "next-up"
    BY <1>2 DEF FetchNextUp, InLoop
  <2>3. e.user = currentUser /\ e.tier = "next-up" /\ e.files = Len(withMediaFile(withMediaFile(items)))
    BY <1>0, <2>1, <2>2 DEF Contribute
  <2>4. /\ nextUp'[e.user] = withMediaFile(items) /\ withMediaFile(items) \in Seq(Media)
        /\ withMediaFile(withMediaFile(items)) = withMediaFile(items)
    BY <2>1, <2>2, <2>3, RememberTyped, RepliesAreLists, MediaAreItems, FilesOf
  <2>. QED
    BY <2>3, <2>4, NotFetchedIsNoList DEF FilesRight
<1>3. CASE EndBinge
  <2>1. /\ user <= Len(Users) /\ currentTier = "binge-ahead" /\ Contribute(out) /\ pc = "follow"
        /\ UNCHANGED <<nextUp, asked, limited, cap>> /\ (queue = <<>> \/ Filled)
    BY <1>3 DEF EndBinge, TypeInv, config
  <2>2. PICK u \in ToSet(Users) : u = currentUser
    BY <2>1, AtHand
  <2>3. e.user = u /\ e.tier = "binge-ahead" /\ e.files = Len(out)
    <3>1. withMediaFile(out) = out
      BY MediaAreItems, FilesOf DEF TypeInv
    <3>. QED
      BY <1>0, <2>1, <2>2, <3>1 DEF Contribute
  <2>4. LookingAhead(u)
    BY <2>1, <2>2 DEF RequestInv, FollowInv
  <2>5. Lookups(u)' = Lookups(u) /\ Input(u)' = Input(u) /\ nextUp'[u] # NotFetched
    BY <2>1, <2>4, NothingAsked DEF Input, LookingAhead
  <2>6. ASSUME NEW k PROVE Episodes(Input(u), k)' = Episodes(Input(u), k)
    BY <2>5 DEF Episodes
  <2>7. CASE Filled
    BY <2>1, <2>3, <2>5, <2>7 DEF FilesRight, Filled
  <2>8. CASE queue = <<>>
    <3>1. Input(u) \in Seq(Media)
      BY <2>4, InputTyped DEF LookingAhead
    <3>2. PICK k \in 0 .. Len(Input(u)) : Past(u, k)
      BY <2>4 DEF LookingAhead
    <3>. DEFINE n == Len(Input(u))
    <3>3. n \in Nat /\ k \in Nat /\ k <= n /\ Len(SubSeq(Input(u), k + 1, n)) = 0
      BY <2>8, <3>1, <3>2 DEF Past
    <3>4. k = n
      <4>1. Len(SubSeq(Input(u), k + 1, n)) = n - k
        BY <3>1, <3>3
      <4>. HIDE DEF n
      <4>. QED
        BY <3>3, <4>1
    <3>5. ~limited => Cardinality(Lookups(u)) = Cardinality(Episodes(Input(u), n))
      BY <3>2, <3>4 DEF Past
    <3>6. ~limited' => Cardinality(Lookups(u)') = Cardinality(Episodes(Input(u), n)')
      BY <2>1, <2>5, <2>6, <3>5
    <3>. QED
      BY <2>3, <2>5, <2>6, <3>6 DEF FilesRight
  <2>. QED
    BY <2>1, <2>7, <2>8
<1>4. offered' # offered
  <2>1. offered \in Seq(OfferedType) /\ Len(offered) \in Nat
    BY DEF TypeInv
  <2>2. Len(Append(offered, e)) = Len(offered) + 1
    BY <2>1
  <2>. QED
    BY <2>1, <2>2
<1>5. CASE NowPlaying \/ SkipTier \/ StartBinge \/ NoSeries \/ Refuse \/ Follow \/ FollowFails \/ EndLoop
  BY <1>4, <1>5 DEF NowPlaying, SkipTier, StartBinge, NoSeries, Refuse, Follow, FollowFails, EndLoop
<1>6. CASE filterByLibraries \/ RequestFails \/ Cancel \/ UNCHANGED vars
  BY <1>4, <1>6 DEF filterByLibraries, RequestFails, Cancel, vars
<1>. QED
  BY <1>1, <1>2, <1>3, <1>5, <1>6 DEF Next, CollectCandidates, bingeAhead

LEMMA FilesStep ==
    ConfigInv /\ TypeInv /\ RequestInv /\ OfferInv /\ FilesInv /\ [Next]_vars => FilesInv'
<1>. SUFFICES ASSUME ConfigInv, TypeInv, RequestInv, OfferInv, FilesInv, [Next]_vars PROVE FilesInv'
  OBVIOUS
<1>0. DOMAIN offered = 1 .. Len(offered) /\ Len(offered) \in Nat
  BY DEF TypeInv
<1>1. offered' = offered \/ \E e : offered' = Append(offered, e)
  BY EveryStep DEF Contribute
<1>2. ASSUME NEW i \in DOMAIN offered, offered'[i] = offered[i] PROVE FilesRight(offered[i])'
  <2>1. PICK e : e = offered[i]
    OBVIOUS
  <2>2. FilesRight(e)'
    BY <2>1, EntriesStay
  <2>. QED
    BY <1>2, <2>1, <2>2
<1>3. CASE offered' = offered
  BY <1>2, <1>3 DEF FilesInv
<1>4. CASE \E e : offered' = Append(offered, e)
  <2>1. PICK e : offered' = Append(offered, e)
    BY <1>4
  <2>2. /\ DOMAIN offered' = DOMAIN offered \cup {Len(offered) + 1}
        /\ offered'[Len(offered) + 1] = e /\ \A i \in DOMAIN offered : offered'[i] = offered[i]
    BY <1>0, <2>1 DEF TypeInv
  <2>3. FilesRight(e)'
    BY <2>1, EntryAdded
  <2>. QED
    BY <1>2, <2>2, <2>3 DEF FilesInv
<1>. QED
  BY <1>1, <1>3, <1>4

LEMMA CountInit == Init => CountInv /\ FilesInv
  BY DEF Init, CountInv, FilesInv

LEMMA CountInvariant ==
    Spec => [](ConfigInv /\ TypeInv /\ RequestInv /\ OfferInv /\ CountInv /\ FilesInv)
<1>1. Init => CountInv /\ FilesInv
  BY CountInit
<1>2. ConfigInv /\ TypeInv /\ RequestInv /\ OfferInv /\ CountInv /\ FilesInv /\ [Next]_vars
        => CountInv' /\ FilesInv'
  BY CountStep, FilesStep
<1>. QED
  BY <1>1, <1>2, OfferInvariant, PTL DEF Spec

\* What a collected tier has added, and what its cap says.
LEMMA TierAdded ==
    ASSUME ConfigInv, TypeInv, CountInv, Unfiltered, NEW i \in DOMAIN offered, NEW u, NEW t,
           u = offered[i].user, t = offered[i].tier
    PROVE  /\ u \in ToSet(Users) /\ t \in ToSet(AllTiers) /\ cap[t] \in Nat
           /\ offered[i].files \in Nat /\ Cardinality(Contribution(u, t)) \in Nat
           /\ cap[t] > 0 => Cardinality(Contribution(u, t)) <= cap[t]
           /\ cap[t] = 0 \/ Cardinality(Contribution(u, t)) < cap[t] =>
                /\ Cardinality(Contribution(u, t)) = offered[i].files
                /\ ~(cap[t] > 0 /\ offered[i].files >= cap[t])
<1>1. offered[i] \in OfferedType
  BY DEF TypeInv
<1>2. /\ u \in ToSet(Users) /\ t \in ToSet(AllTiers) /\ cap[t] \in Nat
      /\ offered[i].files \in Nat
  BY <1>1 DEF OfferedType, ConfigInv
<1>3. Cardinality(Contribution(u, t))
        = IF cap[t] > 0 /\ offered[i].files > cap[t] THEN cap[t] ELSE offered[i].files
  BY DEF CountInv, Capped
<1>. QED
  BY <1>2, <1>3

LEMMA CapsAreRight ==
    ConfigInv /\ TypeInv /\ OfferInv /\ CountInv /\ FilesInv => CapsCountFiles
<1>. SUFFICES ASSUME ConfigInv, TypeInv, CountInv, FilesInv, pc \notin {"done", "failed"},
                     NEW i \in DOMAIN offered
              PROVE  LET u == offered[i].user
                         t == offered[i].tier
                         added == Cardinality(Contribution(u, t))
                         input == capItems(nextUp[u], cap["next-up"])
                     IN  /\ cap[t] > 0 => added <= cap[t]
                         /\ (cap[t] = 0 \/ added < cap[t]) =>
                              /\ added = offered[i].files
                              /\ (t = "binge-ahead" /\ ~limited) =>
                                   Cardinality(Requests(u, "follow"))
                                     = Cardinality({j \in DOMAIN input : input[j].Series})
  BY DEF CapsCountFiles
<1>1. PICK u, t : u = offered[i].user /\ t = offered[i].tier
  OBVIOUS
<1>2. /\ u \in ToSet(Users) /\ cap[t] \in Nat /\ Cardinality(Contribution(u, t)) \in Nat
      /\ cap[t] > 0 => Cardinality(Contribution(u, t)) <= cap[t]
      /\ cap[t] = 0 \/ Cardinality(Contribution(u, t)) < cap[t] =>
           /\ Cardinality(Contribution(u, t)) = offered[i].files
           /\ ~(cap[t] > 0 /\ offered[i].files >= cap[t])
  BY <1>1, TierAdded DEF Unfiltered
<1>3. ASSUME cap[t] = 0 \/ Cardinality(Contribution(u, t)) < cap[t], t = "binge-ahead", ~limited
      PROVE  Cardinality(Requests(u, "follow"))
               = Cardinality({j \in DOMAIN Input(u) : Input(u)[j].Series})
  <2>1. FilesRight(offered[i])
    BY DEF FilesInv
  <2>2. Cardinality(Lookups(u)) = Cardinality(Episodes(Input(u), Len(Input(u)))) /\ nextUp[u] # NotFetched
    BY <1>1, <1>2, <1>3, <2>1 DEF FilesRight
  <2>3. DOMAIN Input(u) = 1 .. Len(Input(u))
    BY <1>2, <2>2, InputTyped
  <2>. QED
    BY <2>2, <2>3 DEF Episodes, Lookups
<1>. QED
  BY <1>1, <1>2, <1>3 DEF Input

\* A tier that stays below its cap has added all its files, and look-ahead has asked
\* for the successor of every episode it may: what has no file takes no place.
THEOREM CapsAlwaysCountFiles == Spec => []CapsCountFiles
<1>1. ConfigInv /\ TypeInv /\ OfferInv /\ CountInv /\ FilesInv => CapsCountFiles
  BY CapsAreRight
<1>. QED
  BY <1>1, CountInvariant, PTL

LEMMA TruncationIsTold ==
    ConfigInv /\ TypeInv /\ RequestInv /\ OfferInv /\ CountInv /\ FilesInv => TruncationNeverHidden
<1>. SUFFICES ASSUME ConfigInv, TypeInv, OfferInv, CountInv, FilesInv,
                     estimating, pc = "done", ~CeilingTruncated
              PROVE  /\ \A i \in DOMAIN offered :
                          Cardinality(Contribution(offered[i].user, offered[i].tier)) = offered[i].files
                     /\ \A u \in ToSet(Users) :
                          Cardinality(Requests(u, "follow"))
                            = Cardinality({i \in DOMAIN nextUp[u] : nextUp[u][i].Series})
  BY DEF TruncationNeverHidden
<1>1. /\ Unfiltered /\ cap = Ceilings /\ ~limited
      /\ \A u \in ToSet(Users), t \in ToSet(AllTiers) : Wanted(u, t)
  BY DEF ConfigInv, Unfiltered, CeilingTruncated, Wanted
<1>2. \A u \in ToSet(Users), t \in ToSet(AllTiers) : ~(Cardinality(Contribution(u, t)) >= cap[t])
  BY <1>1 DEF CeilingTruncated, Contribution
<1>3. ASSUME NEW i \in DOMAIN offered, NEW u, NEW t, u = offered[i].user, t = offered[i].tier
      PROVE  /\ Cardinality(Contribution(u, t)) = offered[i].files
             /\ ~(cap[t] > 0 /\ offered[i].files >= cap[t])
             /\ cap[t] > 0 /\ cap[t] \in Nat /\ offered[i].files \in Nat
  <2>1. /\ u \in ToSet(Users) /\ t \in ToSet(AllTiers) /\ cap[t] \in Nat
        /\ offered[i].files \in Nat /\ Cardinality(Contribution(u, t)) \in Nat
        /\ cap[t] = 0 \/ Cardinality(Contribution(u, t)) < cap[t] =>
             /\ Cardinality(Contribution(u, t)) = offered[i].files
             /\ ~(cap[t] > 0 /\ offered[i].files >= cap[t])
    BY <1>1, <1>3, TierAdded
  <2>2. cap[t] \in Nat \ {0}
    BY <1>1, <2>1, CollectAssumption
  <2>. QED
    BY <1>2, <2>1, <2>2
<1>4. ASSUME NEW u \in ToSet(Users), NEW t \in ToSet(AllTiers)
      PROVE  \E i \in DOMAIN offered : offered[i].user = u /\ offered[i].tier = t
  <2>1. PICK j \in DOMAIN Users, l \in DOMAIN AllTiers : Users[j] = u /\ AllTiers[l] = t
    BY Listing DEF ToSet
  <2>2. Before(j, l)
    BY Listing, Tiers DEF TypeInv, Before
  <2>. QED
    BY <1>1, <2>1, <2>2 DEF OfferInv
<1>5. ASSUME NEW u \in ToSet(Users)
      PROVE  Cardinality(Requests(u, "follow"))
               = Cardinality({i \in DOMAIN nextUp[u] : nextUp[u][i].Series})
  <2>1. PICK i \in DOMAIN offered : offered[i].user = u /\ offered[i].tier = "next-up"
    BY <1>4, Tiers
  <2>2. PICK k \in DOMAIN offered : offered[k].user = u /\ offered[k].tier = "binge-ahead"
    BY <1>4, Tiers
  <2>3. nextUp[u] # NotFetched /\ offered[i].files = Len(nextUp[u])
    BY <2>1 DEF FilesInv, FilesRight
  <2>4. Input(u) = nextUp[u]
    <3>1. ~(offered[i].files >= cap["next-up"]) /\ cap["next-up"] \in Nat /\ offered[i].files \in Nat
      BY <1>3, <2>1
    <3>. QED
      BY <2>3, <3>1 DEF Input, capItems
  <2>5. ~(cap["binge-ahead"] > 0 /\ offered[k].files >= cap["binge-ahead"])
    BY <1>3, <2>2
  <2>6. Cardinality(Lookups(u)) = Cardinality(Episodes(Input(u), Len(Input(u))))
    BY <1>1, <2>2, <2>5 DEF FilesInv, FilesRight
  <2>7. DOMAIN Input(u) = 1 .. Len(Input(u))
    BY <2>3, InputTyped
  <2>. QED
    BY <2>4, <2>6, <2>7 DEF Episodes, Lookups
<1>. QED
  BY <1>3, <1>5

\* An estimate that does not say it is truncated has left nothing out, whatever the
\* users have and the ceilings are.
THEOREM TruncationAlwaysTold == Spec => []TruncationNeverHidden
<1>1. ConfigInv /\ TypeInv /\ RequestInv /\ OfferInv /\ CountInv /\ FilesInv => TruncationNeverHidden
  BY TruncationIsTold
<1>. QED
  BY <1>1, CountInvariant, PTL

-----------------------------------------------------------------------------
(***************************************************************************)
(* Paths.                                                                  *)
(***************************************************************************)
LEMMA PrefixIs ==
    ASSUME NEW T, NEW s \in Seq(T), NEW t \in Seq(T)
    PROVE  IsPrefix(s, t) <=> Len(s) <= Len(t) /\ \A i \in 1 .. Len(s) : s[i] = t[i]
<1>1. CASE Len(s) <= Len(t)
  <2>1. SubSeq(s, 1, Len(s)) = s
    BY SubSeqFull
  <2>2. /\ SubSeq(t, 1, Len(s)) \in Seq(T) /\ Len(SubSeq(t, 1, Len(s))) = Len(s)
        /\ \A i \in 1 .. Len(s) : SubSeq(t, 1, Len(s))[i] = t[i]
    BY <1>1
  <2>3. (\A i \in 1 .. Len(s) : s[i] = t[i]) => SubSeq(t, 1, Len(s)) = s
    BY <2>2, SeqEqual
  <2>. QED
    BY <1>1, <2>1, <2>2, <2>3 DEF IsPrefix
<1>2. CASE ~(Len(s) <= Len(t))
  BY <1>2 DEF IsPrefix
<1>. QED
  BY <1>1, <1>2

LEMMA NothingBegins ==
    ASSUME NEW T, NEW t \in Seq(T)
    PROVE  IsPrefix(<<>>, t)
<1>1. Len(<<>>) = 0 /\ Len(t) \in Nat
  OBVIOUS
<1>2. SubSeq(t, 1, 0) = <<>> /\ SubSeq(<<>>, 1, 0) = <<>>
  BY SubSeqEmpty
<1>. QED
  BY <1>1, <1>2 DEF IsPrefix

\* Of two beginnings of a path the shorter one begins the longer one.
LEMMA PrefixesNest ==
    ASSUME NEW T, NEW s \in Seq(T), NEW t \in Seq(T), NEW p \in Seq(T),
           IsPrefix(s, p), IsPrefix(t, p), Len(s) <= Len(t)
    PROVE  IsPrefix(s, t) /\ (Len(s) = Len(t) => s = t)
<1>1. /\ \A i \in 1 .. Len(s) : s[i] = p[i]
      /\ \A i \in 1 .. Len(t) : t[i] = p[i]
      /\ Len(s) \in Nat /\ Len(t) \in Nat
  BY PrefixIs
<1>2. \A i \in 1 .. Len(s) : s[i] = t[i]
  BY <1>1
<1>3. Len(s) = Len(t) => s = t
  BY <1>2, SeqEqual
<1>. QED
  BY <1>2, <1>3, PrefixIs

LEMMA PrefixesCompose ==
    ASSUME NEW T, NEW s \in Seq(T), NEW t \in Seq(T), NEW p \in Seq(T), IsPrefix(s, t), IsPrefix(t, p)
    PROVE  IsPrefix(s, p)
<1>1. /\ \A i \in 1 .. Len(s) : s[i] = t[i]
      /\ \A i \in 1 .. Len(t) : t[i] = p[i]
      /\ Len(s) \in Nat /\ Len(t) \in Nat /\ Len(p) \in Nat /\ Len(s) <= Len(t) /\ Len(t) <= Len(p)
  BY PrefixIs
<1>. QED
  BY <1>1, PrefixIs

\* What is left of a path behind one of its beginnings.
Left(p, d) == SubSeq(p, Len(d) + 1, Len(p))

LEMMA LeftJoins ==
    ASSUME NEW T, NEW d \in Seq(T), NEW f \in Seq(T), NEW p \in Seq(T), IsPrefix(d, f), IsPrefix(f, p)
    PROVE  /\ Left(f, d) \in Seq(T) /\ Left(p, f) \in Seq(T) /\ Left(p, d) \in Seq(T)
           /\ Left(f, d) \o Left(p, f) = Left(p, d)
           /\ f \o Left(p, f) = p
<1>1. /\ Len(d) \in Nat /\ Len(f) \in Nat /\ Len(p) \in Nat /\ Len(d) <= Len(f) /\ Len(f) <= Len(p)
      /\ \A i \in 1 .. Len(f) : f[i] = p[i]
  BY PrefixIs
<1>2. Left(f, d) \in Seq(T) /\ Left(p, f) \in Seq(T) /\ Left(p, d) \in Seq(T)
  BY <1>1 DEF Left
<1>3. Left(f, d) = SubSeq(p, Len(d) + 1, Len(f))
  <2>. DEFINE a == Left(f, d)
              b == SubSeq(p, Len(d) + 1, Len(f))
  <2>1. /\ Len(a) = Len(f) - Len(d) /\ a \in Seq(T)
        /\ \A i \in 1 .. (Len(f) - Len(d)) : a[i] = f[Len(d) + i]
    BY <1>1 DEF Left
  <2>2. /\ Len(b) = Len(f) - Len(d) /\ b \in Seq(T)
        /\ \A i \in 1 .. (Len(f) - Len(d)) : b[i] = p[Len(d) + i]
    BY <1>1
  <2>. HIDE DEF a, b
  <2>3. ASSUME NEW i \in 1 .. Len(a) PROVE a[i] = b[i]
    <3>1. i \in 1 .. (Len(f) - Len(d)) /\ Len(d) + i \in 1 .. Len(f)
      BY <1>1, <2>1
    <3>. QED
      BY <1>1, <2>1, <2>2, <3>1
  <2>4. a = b
    BY <2>1, <2>2, <2>3, SeqEqual
  <2>. QED
    BY <2>4 DEF a, b
<1>4. ASSUME NEW m \in 1 .. (Len(f) + 1)
      PROVE  SubSeq(p, m, Len(f)) \o SubSeq(p, Len(f) + 1, Len(p)) = SubSeq(p, m, Len(p))
  <2>1. m \in 1 .. (Len(p) + 1) /\ Len(f) \in (m - 1) .. Len(p) /\ Len(p) \in Len(f) .. Len(p)
    BY <1>1
  <2>. QED
    BY <2>1, ConcatAdjacentSubSeq
<1>5. f \o Left(p, f) = p
  <2>1. SubSeq(p, 1, Len(f)) = f
    <3>1. SubSeq(p, 1, Len(f)) \in Seq(T) /\ Len(SubSeq(p, 1, Len(f))) = Len(f)
          /\ \A i \in 1 .. Len(f) : SubSeq(p, 1, Len(f))[i] = p[i]
      BY <1>1
    <3>. QED
      BY <1>1, <3>1, SeqEqual
  <2>2. SubSeq(p, 1, Len(f)) \o SubSeq(p, Len(f) + 1, Len(p)) = SubSeq(p, 1, Len(p))
    <3>1. 1 \in 1 .. (Len(f) + 1)
      BY <1>1
    <3>. QED
      BY <1>4, <3>1
  <2>3. SubSeq(p, 1, Len(p)) = p
    BY SubSeqFull
  <2>. QED
    BY <2>1, <2>2, <2>3 DEF Left
<1>6. SubSeq(p, Len(d) + 1, Len(f)) \o SubSeq(p, Len(f) + 1, Len(p)) = SubSeq(p, Len(d) + 1, Len(p))
  <2>1. Len(d) + 1 \in 1 .. (Len(f) + 1)
    BY <1>1
  <2>. QED
    BY <1>4, <2>1
<1>. QED
  BY <1>2, <1>3, <1>5, <1>6 DEF Left

LEMMA Associates ==
    ASSUME NEW T, NEW a \in Seq(T), NEW x \in Seq(T), NEW y \in Seq(T)
    PROVE  (a \o x) \o y = a \o (x \o y)
  BY ConcatAssociative

LEMMA ThroughJoins ==
    ASSUME NEW T, NEW a \in Seq(T), NEW d \in Seq(T), NEW f \in Seq(T), NEW p \in Seq(T),
           IsPrefix(d, f), IsPrefix(f, p)
    PROVE  (a \o Left(f, d)) \o Left(p, f) = a \o Left(p, d)
<1>. DEFINE x == Left(f, d)
            y == Left(p, f)
<1>1. x \in Seq(T) /\ y \in Seq(T)
  BY LeftJoins
<1>2. x \o y = Left(p, d)
  BY LeftJoins
<1>. HIDE DEF x, y
<1>3. (a \o x) \o y = a \o (x \o y)
  BY <1>1, Associates
<1>. QED
  BY <1>2, <1>3 DEF x, y

\* Adding at the end keeps a beginning.
LEMMA LongerStill ==
    ASSUME NEW T, NEW s \in Seq(T), NEW a \in Seq(T), NEW b \in Seq(T), IsPrefix(a, b)
    PROVE  IsPrefix(s \o a, s \o b)
<1>1. /\ Len(s) \in Nat /\ Len(a) \in Nat /\ Len(b) \in Nat /\ Len(a) <= Len(b)
      /\ \A i \in 1 .. Len(a) : a[i] = b[i]
  BY PrefixIs
<1>2. /\ s \o a \in Seq(T) /\ Len(s \o a) = Len(s) + Len(a)
      /\ \A i \in 1 .. (Len(s) + Len(a)) : (s \o a)[i] = IF i <= Len(s) THEN s[i] ELSE a[i - Len(s)]
  BY ConcatProperties
<1>3. /\ s \o b \in Seq(T) /\ Len(s \o b) = Len(s) + Len(b)
      /\ \A i \in 1 .. (Len(s) + Len(b)) : (s \o b)[i] = IF i <= Len(s) THEN s[i] ELSE b[i - Len(s)]
  BY ConcatProperties
<1>4. ASSUME NEW i \in 1 .. Len(s \o a) PROVE (s \o a)[i] = (s \o b)[i]
  <2>1. i \in 1 .. (Len(s) + Len(a)) /\ i \in 1 .. (Len(s) + Len(b))
    BY <1>1, <1>2
  <2>2. i <= Len(s) \/ i - Len(s) \in 1 .. Len(a)
    BY <1>1, <2>1
  <2>. QED
    BY <1>1, <1>2, <1>3, <2>1, <2>2
<1>5. Len(s \o a) <= Len(s \o b)
  BY <1>1, <1>2, <1>3
<1>6. s \o a \in Seq(T) /\ s \o b \in Seq(T)
  BY <1>2, <1>3
<1>. DEFINE x == s \o a
            y == s \o b
<1>. HIDE DEF x, y
<1>7. x \in Seq(T) /\ y \in Seq(T) /\ Len(x) <= Len(y) /\ \A i \in 1 .. Len(x) : x[i] = y[i]
  BY <1>4, <1>5, <1>6 DEF x, y
<1>8. IsPrefix(x, y)
  BY <1>7, PrefixIs
<1>. QED
  BY <1>8 DEF x, y

LEMMA LeftGrows ==
    ASSUME NEW T, NEW d \in Seq(T), NEW f \in Seq(T), NEW p \in Seq(T), IsPrefix(d, f), IsPrefix(f, p)
    PROVE  IsPrefix(Left(f, d), Left(p, d))
<1>1. /\ Left(f, d) \in Seq(T) /\ Left(p, f) \in Seq(T) /\ Left(p, d) \in Seq(T)
      /\ Left(f, d) \o Left(p, f) = Left(p, d)
  BY LeftJoins
<1>2. /\ Len(Left(f, d)) \in Nat /\ Len(Left(p, f)) \in Nat
      /\ Len(Left(p, d)) = Len(Left(f, d)) + Len(Left(p, f))
      /\ \A i \in 1 .. Len(Left(f, d)) : Left(p, d)[i] = Left(f, d)[i]
  BY <1>1, ConcatProperties
<1>. QED
  <2>1. Len(Left(f, d)) <= Len(Left(p, d))
    BY <1>2
  <2>2. \A i \in 1 .. Len(Left(f, d)) : Left(f, d)[i] = Left(p, d)[i]
    BY <1>2
  <2>. QED
    BY <1>1, <2>1, <2>2, PrefixIs

\* A path without dots is clean.
LEMMA CleanIs ==
    ASSUME NEW T, NEW names \in Seq(T), ToSet(names) \cap {".", ".."} = {}
    PROVE  Clean(names) = names
<1>. DEFINE A          == Seq(T)
            op(o, x) == CASE x = "."  -> o
                          [] x = ".." -> IF o = <<>> THEN o ELSE Front(o)
                          [] OTHER    -> Append(o, x)
            step == [p \in A \X T |-> op(p[1], p[2])]
            Solves(iter) == iter = [S \in SUBSET DOMAIN names |->
                                      IF S = {} THEN <<>> ELSE op(iter[S \ {Max(S)}], names[Max(S)])]
            it == CHOOSE iter : Solves(iter)
            n  == Len(names)
<1>0. n \in Nat /\ DOMAIN names = 1 .. n /\ <<>> \in A /\ names \in Seq(T)
      /\ \A k \in 1 .. n : names[k] \in T /\ names[k] \notin {".", ".."}
  BY DEF ToSet
<1>1. Clean(names) = it[DOMAIN names]
  BY DEF Clean, FoldLeft, MapThenFoldSet
<1>2. /\ step \in [A \X T -> A]
      /\ \A o \in A, x \in T : step[<<o, x>>] = op(o, x)
  <2>1. ASSUME NEW o \in A, NEW x \in T PROVE op(o, x) \in A
    <3>1. o \in Seq(T)
      OBVIOUS
    <3>2. CASE x = "."
      BY <3>2
    <3>3. CASE x = ".."
      <4>1. o # <<>> => Front(o) \in Seq(T)
        BY <3>1 DEF Front
      <4>. QED
        BY <3>3, <4>1
    <3>4. CASE x # "." /\ x # ".."
      <4>1. Append(o, x) \in Seq(T)
        BY <3>1
      <4>. QED
        BY <3>4, <4>1
    <3>. QED
      BY <3>2, <3>3, <3>4
  <2>. HIDE DEF op, A
  <2>. QED
    BY <2>1
<1>. HIDE DEF step
<1>3. ASSUME NEW o, NEW x, x \notin {".", ".."} PROVE op(o, x) = Append(o, x)
  BY <1>3
<1>. HIDE DEF op
<1>4. Solves(it)
  <2>. HIDE DEF A
  <2>1. PICK iter : Iterates(iter, <<>>, step, names) /\ Stays(iter, A, T, names)
    BY <1>0, <1>2, LoopRuns
  <2>2. Solves(iter)
    BY <1>2, <2>1 DEF Iterates, Stays
  <2>. QED
    BY <2>2
<1>. HIDE DEF it
<1>5. Follows(it, A, step, names)
  <2>. SUFFICES ASSUME NEW k \in 1 .. n, it[1 .. (k - 1)] \in A
                PROVE  it[1 .. k] = step[<<it[1 .. (k - 1)], names[k]>>]
    BY DEF Follows
  <2>1. /\ Max(1 .. k) = k /\ (1 .. k) \ {k} = 1 .. (k - 1)
        /\ 1 .. k # {} /\ 1 .. k \in SUBSET DOMAIN names
    BY Beginning
  <2>2. it[1 .. k] = op(it[1 .. (k - 1)], names[k])
    BY <1>4, <2>1
  <2>. HIDE DEF Solves, A
  <2>. QED
    BY <1>0, <1>2, <2>2
<1>6. it[{}] = <<>>
  BY <1>4
<1>. HIDE DEF Solves
<1>7. Runs(Along(it, names), A, <<>>, step, names)
  <2>. HIDE DEF A
  <2>. QED
    BY <1>0, <1>2, <1>5, <1>6, LoopValues
<1>. DEFINE run == Along(it, names)
            P   == {k \in 0 .. n : run[k] = SubSeq(names, 1, k)}
<1>8. /\ run \in [0 .. n -> A] /\ run[0] = <<>>
      /\ \A k \in 1 .. n : run[k] = step[<<run[k - 1], names[k]>>]
  BY <1>7 DEF Runs
<1>9. run[n] = Clean(names)
  BY <1>0, <1>1 DEF Along
<1>. HIDE DEF run
<1>10. 0 \in P
  <2>1. SubSeq(names, 1, 0) = <<>>
    BY <1>0, SubSeqEmpty
  <2>2. 0 \in 0 .. n /\ run[0] = SubSeq(names, 1, 0)
    BY <1>0, <1>8, <2>1
  <2>. HIDE DEF n, A
  <2>. QED
    BY <2>2
<1>11. \A k \in 0 .. (n - 1) : k \in P => k + 1 \in P
  <2>. SUFFICES ASSUME NEW k \in 0 .. (n - 1), run[k] = SubSeq(names, 1, k)
                PROVE  run[k + 1] = SubSeq(names, 1, k + 1)
    BY <1>0
  <2>1. k \in 0 .. n /\ k + 1 \in 1 .. n /\ (k + 1) - 1 = k
    BY <1>0
  <2>2. run[k + 1] = op(run[k], names[k + 1])
    BY <1>0, <1>2, <1>8, <2>1
  <2>3. run[k + 1] = Append(SubSeq(names, 1, k), names[k + 1])
    BY <1>0, <1>3, <2>1, <2>2
  <2>. QED
    BY <1>0, <2>1, <2>3
<1>12. n \in P
  <2>. HIDE DEF P, n
  <2>. QED
    BY <1>0, <1>10, <1>11, UpTo
<1>. QED
  BY <1>0, <1>9, <1>12

LEMMA FirstIsThere ==
    ASSUME NEW rules \in Seq(Rules), NEW p, \E i \in DOMAIN rules : matches(rules[i], p)
    PROVE  LET i == first(rules, p)
           IN  /\ i \in DOMAIN rules /\ matches(rules[i], p) /\ rules[i] \in Rules
               /\ \A j \in DOMAIN rules : matches(rules[j], p) =>
                    \/ Len(rules[j].From.names) < Len(rules[i].From.names)
                    \/ Len(rules[j].From.names) = Len(rules[i].From.names) /\ i <= j
<1>. DEFINE matching  == {i \in DOMAIN rules : matches(rules[i], p)}
            length(i) == Len(rules[i].From.names)
            Is(i)     == \A j \in matching : length(j) < length(i) \/ (length(j) = length(i) /\ i <= j)
            lengths   == {length(i) : i \in matching}
<1>1. DOMAIN rules = 1 .. Len(rules) /\ Len(rules) \in Nat /\ \A i \in DOMAIN rules : rules[i] \in Rules
  OBVIOUS
<1>2. \A i \in matching : length(i) \in Nat
  BY <1>1 DEF Rules, Paths, HostPaths
<1>. HIDE DEF length
<1>3. PICK k \in matching : \A j \in matching : length(j) <= length(k)
  <2>. DEFINE n == Len(rules)
              P == {m \in 0 .. n : (\E i \in matching : i <= m) =>
                                      \E i \in matching : \A j \in matching : j <= m => length(j) <= length(i)}
  <2>1. n \in Nat /\ matching \subseteq 1 .. n /\ matching # {}
    BY <1>1
  <2>. HIDE DEF matching
  <2>2. 0 \in P
    BY <2>1
  <2>3. ASSUME NEW m \in 0 .. (n - 1), m \in P PROVE m + 1 \in P
    <3>0. m + 1 \in 0 .. n /\ \A j \in matching : j <= m + 1 => j <= m \/ j = m + 1
      BY <2>1
    <3>1. CASE m + 1 \notin matching
      BY <2>3, <3>0, <3>1
    <3>2. CASE m + 1 \in matching /\ \A i \in matching : ~(i <= m)
      BY <1>2, <3>0, <3>2
    <3>3. CASE m + 1 \in matching /\ \E i \in matching : i <= m
      <4>0. m \in Nat
        BY <2>1
      <4>1. PICK i \in matching : \A j \in matching : j <= m => length(j) <= length(i)
        BY <2>3, <3>3
      <4>2. CASE length(m + 1) <= length(i)
        BY <3>0, <4>1, <4>2
      <4>3. CASE length(i) <= length(m + 1)
        <5>1. \A j \in matching : j <= m + 1 => length(j) <= length(m + 1)
          <6>. SUFFICES ASSUME NEW j \in matching, j <= m + 1 PROVE length(j) <= length(m + 1)
            OBVIOUS
          <6>1. length(j) \in Nat /\ length(m + 1) \in Nat /\ length(i) \in Nat
            BY <1>2, <3>3
          <6>2. j <= m => length(j) <= length(i)
            BY <4>1
          <6>. QED
            BY <3>0, <4>3, <6>1, <6>2
        <5>. QED
          BY <3>0, <3>3, <5>1
      <4>. QED
        BY <1>2, <3>3, <4>1, <4>2, <4>3
    <3>. QED
      BY <3>1, <3>2, <3>3
  <2>4. n \in P
    <3>1. \A m \in 0 .. (n - 1) : m \in P => m + 1 \in P
      BY <2>3
    <3>2. n \in Nat /\ n \in 0 .. n
      BY <2>1
    <3>. HIDE DEF P, n
    <3>3. 0 .. n \subseteq P
      BY <2>2, <3>1, <3>2, UpTo
    <3>. QED
      BY <3>2, <3>3
  <2>5. n \in Nat /\ (\A i \in matching : i <= n) /\ \E i \in matching : i <= n
    <3>1. ASSUME NEW i \in matching PROVE i <= n
      <4>1. i \in 1 .. n
        BY <2>1
      <4>. QED
        BY <2>1, <4>1
    <3>. QED
      BY <2>1, <3>1
  <2>6. \E i \in matching : \A j \in matching : j <= n => length(j) <= length(i)
    BY <2>4, <2>5
  <2>. HIDE DEF n
  <2>. QED
    BY <2>5, <2>6
<1>4. PICK i \in matching : length(i) = length(k) /\ \A j \in matching : length(j) = length(k) => i <= j
  <2>. DEFINE longest == {j \in matching : length(j) = length(k)}
  <2>1. longest \subseteq Nat /\ longest # {}
    BY <1>1, <1>3
  <2>2. PICK i \in longest : \A j \in longest : i <= j
    <3>. HIDE DEF longest
    <3>. QED
      BY <2>1, LeastNat
  <2>. QED
    BY <2>2
<1>5. Is(i)
  BY <1>2, <1>3, <1>4
<1>6. first(rules, p) = CHOOSE x \in matching : Is(x)
  BY DEF first, length
<1>7. first(rules, p) \in matching /\ Is(first(rules, p))
  <2>. HIDE DEF Is, matching
  <2>. QED
    BY <1>5, <1>6
<1>. QED
  BY <1>1, <1>7 DEF length

\* What docker's mounts become: rules of a local kind.
LEMMA RulesOfMounts ==
    ASSUME NEW mounts \in Seq(Mounts)
    PROVE  /\ BindRulesFromInspect(mounts) \in Seq(Rules)
           /\ \A r \in ToSet(BindRulesFromInspect(mounts)) : ~r.From.unc
<1>. DEFINE media(m) ==
              /\ m.Type = "bind" /\ UnderMnt(m.Source)
              /\ m.Destination.names \notin {<<"config">>, <<"tmp">>}
            kept  == Keep(mounts, {m \in ToSet(mounts) : media(m)})
            rules == [i \in DOMAIN kept |-> [From |-> kept[i].Destination, To |-> kept[i].Source]]
<1>1. kept \in Seq(Mounts)
  <2>1. Mounts \cap {m \in ToSet(mounts) : media(m)} \subseteq Mounts
    OBVIOUS
  <2>2. kept \in Seq(Mounts \cap {m \in ToSet(mounts) : media(m)})
    BY KeepKeeps
  <2>. HIDE DEF media, kept
  <2>. QED
    BY <2>1, <2>2, SeqMonotonic
<1>2. BindRulesFromInspect(mounts) = rules
  BY DEF BindRulesFromInspect
<1>. HIDE DEF media, kept
<1>3. Len(kept) \in Nat /\ DOMAIN kept = 1 .. Len(kept) /\ \A i \in DOMAIN kept : kept[i] \in Mounts
  BY <1>1
<1>4. \A i \in DOMAIN kept : /\ [From |-> kept[i].Destination, To |-> kept[i].Source] \in Rules
                             /\ ~kept[i].Destination.unc
  BY <1>3 DEF Mounts, Rules
<1>5. rules \in [1 .. Len(kept) -> Rules] /\ DOMAIN rules = DOMAIN kept
      /\ \A i \in DOMAIN rules : ~rules[i].From.unc
  BY <1>3, <1>4
<1>. HIDE DEF rules
<1>6. rules \in Seq(Rules)
  BY <1>3, <1>5, SeqDef
<1>. QED
  BY <1>2, <1>5, <1>6 DEF ToSet

LEMMA RulesOfDocker ==
    ASSUME NEW containers, containers \in Seq(ToSet(containers)),
           \A c \in ToSet(containers) : c.mounts \in Seq(Mounts)
    PROVE  /\ DetectDockerRules(containers) \in Seq(Rules)
           /\ \A r \in ToSet(DetectDockerRules(containers)) : ~r.From.unc
<1>. DEFINE servers == {i \in DOMAIN containers : containers[i].matches}
            at == CHOOSE i \in servers : \A j \in servers : i <= j
<1>1. CASE servers = {}
  BY <1>1 DEF DetectDockerRules, ToSet
<1>2. CASE servers # {}
  <2>1. servers \subseteq Nat
    BY SeqDef
  <2>2. PICK i \in servers : \A j \in servers : i <= j
    <3>. HIDE DEF servers
    <3>. QED
      BY <1>2, <2>1, LeastNat
  <2>3. at \in servers
    <3>. HIDE DEF servers
    <3>. QED
      BY <2>2
  <2>4. containers[at].mounts \in Seq(Mounts)
    <3>. HIDE DEF at
    <3>. QED
      BY <2>3 DEF ToSet
  <2>5. DetectDockerRules(containers) = BindRulesFromInspect(containers[at].mounts)
    BY <1>2 DEF DetectDockerRules
  <2>. HIDE DEF at
  <2>. QED
    BY <2>4, <2>5, RulesOfMounts
<1>. QED
  BY <1>1, <1>2

\* The world and the rules of a process: the operator's rules come first.
WorldInv ==
    /\ world \in {s.world : s \in Situations}
    /\ mapper \in Seq(Rules)
    /\ \A j \in DOMAIN world.manual : j \in DOMAIN mapper /\ mapper[j] = world.manual[j]
    /\ \A i \in DOMAIN mapper : mapper[i].From.unc => mapper[i].From.names # <<>>

LEMMA WorldInit == ASSUME Init PROVE WorldInv
<1>1. PICK s \in Situations : world = s.world
  BY DEF Init
<1>2. PICK detected \in {DetectDockerRules(world.containers), <<>>} : mapper = buildMapper(world.manual, detected)
  BY DEF Init
<1>. DEFINE w == world
<1>3. /\ w.manual \in Seq(Rules) /\ \A r \in ToSet(w.manual) : r.From.unc => r.From.names # <<>>
      /\ w.containers \in Seq(ToSet(w.containers))
      /\ \A c \in ToSet(w.containers) : c.mounts \in Seq(Mounts)
  BY <1>1, PathsAssumption
<1>4. detected \in Seq(Rules) /\ \A r \in ToSet(detected) : ~r.From.unc
  <2>1. CASE detected = <<>>
    BY <2>1 DEF ToSet
  <2>2. CASE detected = DetectDockerRules(w.containers)
    BY <1>3, <2>2, RulesOfDocker
  <2>. QED
    BY <1>2, <2>1, <2>2
<1>. DEFINE manual == w.manual
            rules  == manual \o detected
<1>5. manual \in Seq(Rules) /\ mapper = rules
  BY <1>2, <1>3 DEF buildMapper
<1>. HIDE DEF manual
<1>6. /\ rules \in Seq(Rules) /\ Len(rules) = Len(manual) + Len(detected)
      /\ Len(manual) \in Nat /\ Len(detected) \in Nat
      /\ \A i \in 1 .. (Len(manual) + Len(detected)) :
           rules[i] = IF i <= Len(manual) THEN manual[i] ELSE detected[i - Len(manual)]
  BY <1>4, <1>5, ConcatProperties
<1>. HIDE DEF rules
<1>7. \A j \in DOMAIN manual : j \in DOMAIN rules /\ rules[j] = manual[j]
  BY <1>5, <1>6
<1>8. \A i \in DOMAIN rules : rules[i].From.unc => rules[i].From.names # <<>>
  <2>. SUFFICES ASSUME NEW i \in 1 .. (Len(manual) + Len(detected)), rules[i].From.unc
                PROVE  rules[i].From.names # <<>>
    BY <1>6
  <2>1. CASE i <= Len(manual)
    <3>1. i \in DOMAIN manual /\ rules[i] = manual[i]
      BY <1>5, <1>6, <2>1
    <3>. QED
      BY <1>3, <3>1 DEF ToSet, manual
  <2>2. CASE ~(i <= Len(manual))
    <3>1. i - Len(manual) \in 1 .. Len(detected)
      BY <1>6, <2>2
    <3>2. i - Len(manual) \in DOMAIN detected /\ rules[i] = detected[i - Len(manual)]
      BY <1>4, <1>6, <2>2, <3>1
    <3>. QED
      BY <1>4, <3>2 DEF ToSet
  <2>. QED
    BY <2>1, <2>2
<1>. QED
  BY <1>1, <1>5, <1>6, <1>7, <1>8 DEF WorldInv, manual

TheMounts == ToSet(world.containers[world.server].mounts)

LEMMA MountsAreMounts ==
    ASSUME WorldInv
    PROVE  TheMounts \subseteq Mounts /\ \A m, o \in TheMounts : m.Destination = o.Destination => m = o
<1>1. PICK s \in Situations : world = s.world
  BY DEF WorldInv
<1>2. /\ world.server \in DOMAIN world.containers
      /\ \A c \in ToSet(world.containers) : c.mounts \in Seq(Mounts)
      /\ \A m, o \in TheMounts : m.Destination = o.Destination => m = o
  BY <1>1, PathsAssumption DEF TheMounts
<1>3. world.containers[world.server] \in ToSet(world.containers)
  BY <1>2 DEF ToSet
<1>4. world.containers[world.server].mounts \in Seq(Mounts)
  BY <1>2, <1>3
<1>. DEFINE mounts == world.containers[world.server].mounts
<1>. HIDE DEF mounts
<1>5. mounts \in Seq(Mounts)
  BY <1>4 DEF mounts
<1>6. ToSet(mounts) \subseteq Mounts
  BY <1>5 DEF ToSet
<1>. QED
  BY <1>2, <1>6 DEF TheMounts, mounts

\* The mounts above a path: each begins it, and the deepest is the only one of its depth.
LEMMA DeepestIs ==
    ASSUME WorldInv, NEW p \in Paths, Over(p) # {}
    PROVE  /\ Deepest(p) \in Over(p)
           /\ \A o \in Over(p) : Len(o.Destination.names) <= Len(Deepest(p).Destination.names)
           /\ \A o \in Over(p) : Len(o.Destination.names) = Len(Deepest(p).Destination.names)
                                   => o = Deepest(p)
<1>1. Over(p) \subseteq Mounts /\ \A m \in Over(p) : m \in TheMounts /\ Under(p, m.Destination)
  BY MountsAreMounts DEF Over, TheMounts
<1>2. \A m \in Over(p) : /\ m.Destination \in Paths /\ m.Destination.names \in HostPaths
                         /\ Len(m.Destination.names) \in 0 .. Len(p.names)
  <2>. SUFFICES ASSUME NEW m \in Over(p)
                PROVE  /\ m.Destination \in Paths /\ m.Destination.names \in HostPaths
                       /\ Len(m.Destination.names) \in 0 .. Len(p.names)
    OBVIOUS
  <2>1. m.Destination \in Paths /\ m.Destination.names \in HostPaths /\ p.names \in HostPaths
    BY <1>1 DEF Mounts, Paths
  <2>2. IsPrefix(m.Destination.names, p.names)
    BY <1>1 DEF Under
  <2>3. Len(m.Destination.names) <= Len(p.names)
    BY <2>2 DEF IsPrefix
  <2>. QED
    BY <2>1, <2>3 DEF HostPaths
<1>. DEFINE depth(m) == Len(m.Destination.names)
            depths == {depth(m) : m \in Over(p)}
            Is(m)  == \A o \in Over(p) : depth(o) <= depth(m)
<1>3. PICK m \in Over(p) : Is(m)
  <2>0. \A m \in Over(p) : depth(m) \in 0 .. Len(p.names)
    BY <1>2
  <2>1. depths \in SUBSET (0 .. Len(p.names)) /\ depths # {} /\ Len(p.names) \in Nat
    <3>1. Len(p.names) \in Nat
      BY DEF Paths, HostPaths
    <3>. HIDE DEF depth
    <3>2. depths \in SUBSET (0 .. Len(p.names)) /\ depths # {}
      BY <2>0
    <3>. QED
      BY <3>1, <3>2
  <2>. HIDE DEF depths
  <2>2. Max(depths) \in depths /\ \A y \in depths : Max(depths) >= y
    BY <2>1, MaxIsGreatest
  <2>3. PICK m \in Over(p) : Max(depths) = depth(m)
    BY <2>2 DEF depths
  <2>4. ASSUME NEW o \in Over(p) PROVE depth(o) <= depth(m)
    <3>1. depth(o) \in depths
      BY DEF depths
    <3>2. Max(depths) >= depth(o)
      BY <2>2, <3>1
    <3>3. depth(o) \in Int /\ depth(m) \in Int
      BY <1>2
    <3>. HIDE DEF depth
    <3>. QED
      BY <2>3, <3>2, <3>3
  <2>. QED
    BY <2>4
<1>4. Deepest(p) = CHOOSE x \in Over(p) : Is(x)
  BY DEF Deepest
<1>5. Deepest(p) \in Over(p) /\ Is(Deepest(p))
  <2>. HIDE DEF Is
  <2>. QED
    BY <1>3, <1>4
<1>6. ASSUME NEW o \in Over(p), depth(o) = depth(Deepest(p)) PROVE o = Deepest(p)
  <2>. DEFINE deep == Deepest(p)
  <2>1. /\ o.Destination.names \in HostPaths /\ deep.Destination.names \in HostPaths /\ p.names \in HostPaths
        /\ IsPrefix(o.Destination.names, p.names) /\ IsPrefix(deep.Destination.names, p.names)
    BY <1>1, <1>2, <1>5 DEF Under, Paths
  <2>2. o.Destination.names = deep.Destination.names
    BY <1>6, <2>1, PrefixesNest DEF HostPaths
  <2>3. o.Destination = deep.Destination
    <3>. HIDE DEF deep
    <3>1. deep \in Over(p)
      BY <1>5 DEF deep
    <3>2. o.Destination \in Paths /\ deep.Destination \in Paths /\ o.Destination.unc = p.unc /\ deep.Destination.unc = p.unc
      BY <1>1, <1>2, <3>1 DEF Under
    <3>. QED
      BY <2>2, <3>2 DEF Paths
  <2>. QED
    BY <1>1, <1>5, <2>3, MountsAreMounts
<1>. QED
  BY <1>5, <1>6

LEMMA UnderIs ==
    ASSUME NEW p \in Paths, NEW f \in Paths, Under(p, f)
    PROVE  /\ p.names \in HostPaths /\ f.names \in HostPaths
           /\ IsPrefix(f.names, p.names) /\ p.unc = f.unc
           /\ Len(f.names) \in Nat /\ Len(p.names) \in Nat
           /\ rest(p, f) = Left(p.names, f.names)
  BY DEF Under, Paths, HostPaths, rest, Left

LEMMA UnderComposes ==
    ASSUME NEW p \in Paths, NEW f \in Paths, NEW d \in Paths, Under(p, f), Under(f, d)
    PROVE  Under(p, d)
<1>1. /\ p.names \in HostPaths /\ f.names \in HostPaths /\ d.names \in HostPaths
      /\ IsPrefix(f.names, p.names) /\ IsPrefix(d.names, f.names) /\ p.unc = d.unc
  BY UnderIs
<1>2. IsPrefix(d.names, p.names)
  BY <1>1, PrefixesCompose DEF HostPaths
<1>. QED
  BY <1>1, <1>2 DEF Under

\* Of two places a path lies under, the one with fewer names lies above the other.
LEMMA UnderNests ==
    ASSUME NEW p \in Paths, NEW f \in Paths, NEW d \in Paths, Under(p, f), Under(p, d),
           Len(d.names) <= Len(f.names)
    PROVE  Under(f, d)
<1>1. /\ p.names \in HostPaths /\ f.names \in HostPaths /\ d.names \in HostPaths
      /\ IsPrefix(f.names, p.names) /\ IsPrefix(d.names, p.names) /\ f.unc = d.unc
  BY UnderIs
<1>2. IsPrefix(d.names, f.names)
  BY <1>1, PrefixesNest DEF HostPaths
<1>. QED
  BY <1>1, <1>2 DEF Under

LEMMA OverIs ==
    ASSUME WorldInv, NEW p \in Paths, NEW m \in Over(p)
    PROVE  /\ m \in TheMounts /\ m.Destination \in Paths /\ Under(p, m.Destination)
           /\ ~m.Destination.unc /\ m.Destination.names # <<>> /\ Len(m.Destination.names) \in Nat
           /\ Len(m.Destination.names) > 0
           /\ m.Source \in HostPaths
<1>1. m \in TheMounts /\ m \in Mounts /\ Under(p, m.Destination)
  BY MountsAreMounts DEF Over, TheMounts
<1>2. /\ m.Destination \in Paths /\ ~m.Destination.unc /\ m.Destination.names # <<>>
      /\ m.Source \in HostPaths
  BY <1>1 DEF Mounts
<1>. DEFINE names == m.Destination.names
<1>3. names \in HostPaths /\ names # <<>>
  BY <1>2 DEF Paths
<1>. HIDE DEF names
<1>4. Len(names) \in Nat /\ Len(names) > 0
  BY <1>3, EmptySeq DEF HostPaths
<1>. QED
  BY <1>1, <1>2, <1>4 DEF names

\* A place between a path and its mount has the same mount.
LEMMA DeepestStays ==
    ASSUME WorldInv, NEW p \in Paths, NEW f \in Paths, Over(p) # {},
           Under(p, f), Under(f, Deepest(p).Destination)
    PROVE  Over(f) # {} /\ Deepest(f) = Deepest(p)
<1>1. Deepest(p) \in Over(f)
  BY DeepestIs DEF Over
<1>2. Over(f) \subseteq Over(p)
  <2>. SUFFICES ASSUME NEW m \in Over(f) PROVE m \in Over(p)
    OBVIOUS
  <2>1. Under(p, m.Destination)
    BY OverIs, UnderComposes
  <2>. QED
    BY <2>1 DEF Over
<1>3. Deepest(f) \in Over(f) /\ Len(Deepest(p).Destination.names) <= Len(Deepest(f).Destination.names)
  BY <1>1, DeepestIs
<1>4. Len(Deepest(f).Destination.names) <= Len(Deepest(p).Destination.names)
  BY <1>2, <1>3, DeepestIs
<1>5. Len(Deepest(p).Destination.names) \in Nat /\ Len(Deepest(f).Destination.names) \in Nat
  BY <1>1, <1>3, OverIs
<1>6. Len(Deepest(f).Destination.names) = Len(Deepest(p).Destination.names)
  BY <1>3, <1>4, <1>5
<1>7. Deepest(f) = Deepest(p)
  BY <1>2, <1>3, <1>6, DeepestIs
<1>. QED
  BY <1>1, <1>7

\* The rule a path meets first is right, where rules are honest.
LEMMA FirstIsHonest ==
    ASSUME WorldInv, Honest, NEW p, \E i \in DOMAIN mapper : matches(mapper[i], p)
    PROVE  LET r == mapper[first(mapper, p)]
           IN  /\ r \in Rules /\ r \in ToSet(mapper) /\ matches(r, p)
               /\ r.From.unc => r.From.names # <<>>
               /\ r.To = Real(r.From)
<1>. DEFINE i == first(mapper, p)
<1>1. /\ i \in DOMAIN mapper /\ matches(mapper[i], p) /\ mapper[i] \in Rules
      /\ \A j \in DOMAIN mapper : matches(mapper[j], p) =>
           \/ Len(mapper[j].From.names) < Len(mapper[i].From.names)
           \/ Len(mapper[j].From.names) = Len(mapper[i].From.names) /\ i <= j
  BY FirstIsThere DEF WorldInv
<1>. HIDE DEF i
<1>2. mapper[i] \in ToSet(mapper)
  BY <1>1 DEF ToSet
<1>3. mapper[i].To = Real(mapper[i].From)
  <2>. SUFFICES ASSUME NEW j \in DOMAIN world.manual, world.manual[j].From = mapper[i].From, j < i
                PROVE  FALSE
    BY <1>1 DEF Honest
  <2>1. j \in DOMAIN mapper /\ mapper[j] = world.manual[j]
    BY DEF WorldInv
  <2>2. matches(mapper[j], p)
    BY <1>1, <2>1 DEF matches
  <2>3. Len(mapper[j].From.names) = Len(mapper[i].From.names) /\ Len(mapper[i].From.names) \in Nat
    BY <1>1, <2>1 DEF Rules, Paths, HostPaths
  <2>4. i <= j
    BY <1>1, <2>1, <2>2, <2>3
  <2>5. i \in Nat /\ j \in Nat
    BY <1>1, <2>1 DEF WorldInv
  <2>. QED
    BY <2>4, <2>5
<1>. QED
  BY <1>1, <1>2, <1>3 DEF WorldInv, i

\* Where the files below an honest rule are.
LEMMA RuleReaches ==
    ASSUME WorldInv, NEW p \in Paths, NEW r \in Rules, matches(r, p), r.To = Real(r.From),
           r.From.unc => r.From.names # <<>>,
           ~p.unc => Over(p) # {} /\ Under(r.From, Deepest(p).Destination)
    PROVE  r.To \o rest(p, r.From) = Real(p)
<1>. DEFINE f  == r.From
            mu == <<"mnt", "user">>
<1>1. f \in Paths /\ f.names \in HostPaths /\ p.names \in HostPaths /\ r.To \in HostPaths
  BY DEF Rules, Paths
<1>2. f # Root
  <2>. SUFFICES ASSUME f = Root PROVE FALSE
    OBVIOUS
  <2>1. CASE p.unc
    <3>1. Over(Root) = {}
      <4>. SUFFICES ASSUME NEW m \in Over(Root) PROVE FALSE
        OBVIOUS
      <4>1. Root \in Paths
        BY <1>1
      <4>2. Len(m.Destination.names) > 0 /\ IsPrefix(m.Destination.names, <<>>)
        BY <4>1, OverIs DEF Under, Root
      <4>3. Len(m.Destination.names) <= 0
        BY <4>2, EmptySeq DEF IsPrefix
      <4>4. Len(m.Destination.names) \in Nat
        BY <4>1, OverIs
      <4>. QED
        BY <4>2, <4>3, <4>4
    <3>2. r.To = NoHost
      BY <3>1 DEF Real, Root
    <3>3. NoHost \in Seq(Names) /\ Len(NoHost) = 1
      BY <1>1, <3>2 DEF HostPaths, NoHost
    <3>4. NoHost[1] \in Names
      BY <3>3
    <3>. QED
      BY <3>4 DEF Names
  <2>2. CASE ~p.unc
    <3>1. Deepest(p) \in Over(p) /\ Under(Root, Deepest(p).Destination)
      BY <2>2, DeepestIs
    <3>2. Len(Deepest(p).Destination.names) \in Nat /\ Len(Deepest(p).Destination.names) > 0
      BY <3>1, OverIs
    <3>3. Len(Deepest(p).Destination.names) <= 0
      BY <3>1, EmptySeq DEF Under, IsPrefix, Root
    <3>. QED
      BY <3>2, <3>3
  <2>. QED
    BY <2>1, <2>2
<1>3. Under(p, f)
  BY <1>2 DEF matches
<1>. HIDE DEF f
<1>4. IsPrefix(f.names, p.names) /\ p.unc = f.unc /\ rest(p, f) = Left(p.names, f.names)
  BY <1>1, <1>3, UnderIs
<1>5. CASE p.unc
  <2>. DEFINE d == <<f.names[1]>>
  <2>1. f.names # <<>> /\ Len(f.names) \in Nat /\ Len(f.names) >= 1
    <3>1. f.names # <<>>
      BY <1>4, <1>5 DEF f
    <3>. QED
      BY <1>1, <3>1, EmptySeq DEF HostPaths
  <2>. DEFINE fn == f.names
              pn == p.names
  <2>2. fn \in Seq(Names) /\ pn \in Seq(Names) /\ IsPrefix(fn, pn)
    BY <1>1, <1>4 DEF HostPaths
  <2>3. fn # <<>> /\ Len(fn) \in Nat /\ Len(fn) >= 1
    BY <2>1
  <2>4. d = <<fn[1]>>
    OBVIOUS
  <2>. HIDE DEF fn, pn, d
  <2>5. d \in Seq(Names) /\ Len(d) = 1 /\ d[1] = fn[1]
    BY <2>2, <2>3, <2>4
  <2>6. IsPrefix(d, fn)
    BY <2>2, <2>3, <2>5, PrefixIs
  <2>7. Tail(fn) = Left(fn, d) /\ Tail(pn) = Left(pn, d)
    <3>1. pn # <<>>
      BY <2>2, <2>3, PrefixIs, EmptySeq
    <3>. QED
      BY <2>2, <2>3, <2>5, <3>1 DEF Left
  <2>. DEFINE T == Names \cup {"mnt", "user"}
  <2>8. mu \in Seq(T) /\ d \in Seq(T) /\ fn \in Seq(T) /\ pn \in Seq(T)
    <3>1. Seq(Names) \subseteq Seq(T)
      BY SeqMonotonic
    <3>2. mu \in Seq(T)
      OBVIOUS
    <3>. QED
      BY <2>2, <2>5, <3>1, <3>2
  <2>. HIDE DEF T
  <2>9. Real(f) = mu \o Tail(fn) /\ Real(p) = mu \o Tail(pn)
    BY <1>4, <1>5 DEF Real, fn, pn
  <2>. HIDE DEF mu
  <2>10. (mu \o Left(fn, d)) \o Left(pn, fn) = mu \o Left(pn, d)
    BY <2>2, <2>6, <2>8, ThroughJoins
  <2>11. r.To = Real(f) /\ rest(p, f) = Left(pn, fn)
    BY <1>4 DEF f, fn, pn
  <2>. QED
    BY <2>7, <2>9, <2>10, <2>11 DEF f
<1>6. CASE ~p.unc
  <2>. DEFINE m == Deepest(p)
              d == m.Destination
  <2>1. Over(p) # {} /\ Under(f, d) /\ m \in Over(p)
    BY <1>6, DeepestIs DEF f
  <2>. HIDE DEF m
  <2>2. d \in Paths /\ d.names \in HostPaths /\ m.Source \in HostPaths /\ Under(p, d)
    BY <2>1, OverIs DEF Paths
  <2>3. Over(f) # {} /\ Deepest(f) = m
    BY <1>1, <1>3, <2>1, DeepestStays DEF m
  <2>4. /\ Real(f) = m.Source \o rest(f, d) /\ Real(p) = m.Source \o rest(p, d)
    BY <1>4, <1>6, <2>1, <2>3 DEF Real, m
  <2>. HIDE DEF d
  <2>5. rest(f, d) = Left(f.names, d.names) /\ rest(p, d) = Left(p.names, d.names)
        /\ IsPrefix(d.names, f.names)
    BY <1>1, <2>1, <2>2, UnderIs
  <2>. DEFINE a  == m.Source
              dn == d.names
              fn == f.names
              pn == p.names
  <2>6. /\ a \in Seq(Names) /\ dn \in Seq(Names) /\ fn \in Seq(Names) /\ pn \in Seq(Names)
        /\ IsPrefix(dn, fn) /\ IsPrefix(fn, pn)
    BY <1>1, <1>4, <2>2, <2>5 DEF HostPaths
  <2>7. /\ r.To = a \o Left(fn, dn) /\ Real(p) = a \o Left(pn, dn)
        /\ rest(p, f) = Left(pn, fn)
    BY <1>4, <2>4, <2>5 DEF f
  <2>. HIDE DEF a, dn, fn, pn
  <2>8. (a \o Left(fn, dn)) \o Left(pn, fn) = a \o Left(pn, dn)
    BY <2>6, ThroughJoins
  <2>. QED
    BY <2>7, <2>8 DEF f
<1>. QED
  BY <1>5, <1>6

\* A reported path, and what makes it one.
LEMMA ReportedIs ==
    ASSUME NEW p \in Reported
    PROVE  /\ p \in Paths /\ p.names \in HostPaths /\ ToSet(p.names) \cap {".", ".."} = {}
           /\ p.unc => Len(p.names) >= 2
  BY PathsAssumption DEF Paths

\* The path of an UNC share, without a rule.
LEMMA ShareIsReal ==
    ASSUME NEW p \in Reported, p.unc
    PROVE  containedUnderMnt(<<"mnt", "user">> \o Tail(p.names)) = Real(p)
<1>. DEFINE names == p.names
            mu    == <<"mnt", "user">>
            all   == mu \o Tail(names)
            T     == Names \cup {"mnt", "user"}
<1>1. names \in Seq(Names) /\ Len(names) \in Nat /\ Len(names) >= 2 /\ ToSet(names) \cap {".", ".."} = {}
  BY ReportedIs DEF HostPaths
<1>. HIDE DEF names
<1>2. /\ Tail(names) \in Seq(Names) /\ Len(Tail(names)) = Len(names) - 1
      /\ \A i \in 1 .. (Len(names) - 1) : Tail(names)[i] = names[i + 1]
  BY <1>1
<1>. DEFINE tail == Tail(names)
<1>. HIDE DEF tail
<1>3. tail \in Seq(Names) /\ Len(tail) \in Nat /\ \A i \in 1 .. Len(tail) : tail[i] \notin {".", ".."}
  <2>1. ASSUME NEW i \in 1 .. (Len(names) - 1) PROVE tail[i] \notin {".", ".."}
    <3>1. i + 1 \in DOMAIN names /\ tail[i] = names[i + 1]
      BY <1>1, <1>2 DEF tail
    <3>2. names[i + 1] \in ToSet(names)
      BY <3>1 DEF ToSet
    <3>. QED
      BY <1>1, <3>1, <3>2
  <2>. QED
    BY <1>1, <1>2, <2>1 DEF tail
<1>4. mu \in Seq(T) /\ Len(mu) = 2 /\ mu[1] = "mnt" /\ mu[2] = "user"
  OBVIOUS
<1>5. tail \in Seq(T)
  <2>1. Seq(Names) \subseteq Seq(T)
    BY SeqMonotonic
  <2>. HIDE DEF T
  <2>. QED
    BY <1>3, <2>1
<1>. HIDE DEF mu, T
<1>6. mu \in Seq(T) /\ tail \in Seq(T)
  BY <1>4, <1>5
<1>7. /\ mu \o tail \in Seq(T) /\ Len(mu \o tail) = Len(mu) + Len(tail)
      /\ \A i \in 1 .. (Len(mu) + Len(tail)) : (mu \o tail)[i] = IF i <= Len(mu) THEN mu[i] ELSE tail[i - Len(mu)]
  BY <1>6, ConcatProperties
<1>8. all = mu \o tail
  BY DEF tail
<1>. HIDE DEF all
<1>9. /\ all \in Seq(T) /\ Len(all) = 2 + Len(tail) /\ all[1] = "mnt" /\ all # <<>>
      /\ \A i \in 1 .. (2 + Len(tail)) : all[i] = IF i <= 2 THEN mu[i] ELSE tail[i - 2]
  BY <1>3, <1>4, <1>7, <1>8
<1>10. ToSet(all) \cap {".", ".."} = {}
  <2>1. ASSUME NEW i \in 1 .. (2 + Len(tail)) PROVE all[i] \notin {".", ".."}
    <3>1. CASE i <= 2
      <4>1. all[i] \in {"mnt", "user"}
        BY <1>3, <1>4, <1>9, <3>1
      <4>. QED
        BY <4>1
    <3>2. CASE ~(i <= 2)
      <4>1. i - 2 \in 1 .. Len(tail) /\ all[i] = tail[i - 2]
        BY <1>3, <1>9, <3>2
      <4>. QED
        BY <1>3, <4>1
    <3>. QED
      BY <3>1, <3>2
  <2>2. DOMAIN all = 1 .. (2 + Len(tail))
    BY <1>3, <1>9
  <2>. QED
    BY <2>1, <2>2 DEF ToSet
<1>11. Clean(all) = all
  BY <1>9, <1>10, CleanIs
<1>12. containedUnderMnt(all) = all
  BY <1>9, <1>11 DEF containedUnderMnt
<1>. QED
  BY <1>12 DEF all, mu, names, Real

LEMMA AllUnderRoot ==
    ASSUME NEW p \in Paths, ~p.unc
    PROVE  Under(p, Root)
<1>1. PICK names \in Seq(Names) : p.names = names
  BY DEF Paths, HostPaths
<1>2. IsPrefix(<<>>, names)
  BY NothingBegins
<1>3. Root.names = <<>> /\ Root.unc = FALSE /\ p.unc = FALSE
  BY DEF Root, Paths
<1>. QED
  BY <1>1, <1>2, <1>3 DEF Under

LEMMA MatchesAtMount ==
    ASSUME WorldInv, NEW p \in Paths, NEW m \in Over(p), NEW r, r.From = m.Destination
    PROVE  matches(r, p)
<1>1. Under(p, m.Destination) /\ Len(m.Destination.names) > 0
  BY OverIs
<1>2. m.Destination # Root
  <2>. SUFFICES ASSUME m.Destination = Root PROVE FALSE
    OBVIOUS
  <2>1. m.Destination.names = <<>>
    BY DEF Root
  <2>. QED
    BY <1>1, <2>1, EmptySeq
<1>. QED
  BY <1>1, <1>2 DEF matches

\* The mapper finds a path whose mount it was told of: by a rule at the mount or
\* below it, by the convention for shares, or because the mount changes nothing.
LEMMA KnownIsMapped ==
    ASSUME WorldInv, Honest, NEW p \in Reported, Known(p)
    PROVE  ToHost(mapper, p) = Real(p)
<1>. DEFINE met == \E i \in DOMAIN mapper : matches(mapper[i], p)
            m   == Deepest(p)
            d   == m.Destination
            r   == mapper[first(mapper, p)]
<1>1. p \in Paths /\ p.names \in HostPaths /\ ToSet(p.names) \cap {".", ".."} = {}
      /\ (p.unc => Len(p.names) >= 2)
  BY ReportedIs
<1>2. ~p.unc => /\ Over(p) # {} /\ m \in Over(p) /\ m \in Mounts /\ d \in Paths /\ Under(p, d) /\ ~d.unc
                /\ Len(d.names) \in Nat /\ Len(d.names) > 0
  BY <1>1, DeepestIs, OverIs, MountsAreMounts DEF Known
<1>. HIDE DEF m
<1>3. CASE met
  <2>1. /\ r \in Rules /\ r \in ToSet(mapper) /\ matches(r, p) /\ (r.From.unc => r.From.names # <<>>)
        /\ r.To = Real(r.From)
    BY <1>3, FirstIsHonest
  <2>2. \A i \in DOMAIN mapper : matches(mapper[i], p) => Len(mapper[i].From.names) <= Len(r.From.names)
    <3>1. \A i \in DOMAIN mapper : matches(mapper[i], p) =>
             \/ Len(mapper[i].From.names) < Len(r.From.names)
             \/ Len(mapper[i].From.names) = Len(r.From.names)
      BY <1>3, FirstIsThere DEF WorldInv
    <3>2. \A i \in DOMAIN mapper : mapper[i] \in Rules
      BY DEF WorldInv
    <3>3. \A i \in DOMAIN mapper : Len(mapper[i].From.names) \in Nat
      BY <3>2 DEF Rules, Paths, HostPaths
    <3>4. Len(r.From.names) \in Nat
      BY <2>1 DEF Rules, Paths, HostPaths
    <3>. HIDE DEF r
    <3>. QED
      BY <3>1, <3>3, <3>4
  <2>3. ToHost(mapper, p) = r.To \o rest(p, r.From)
    BY <1>3 DEF ToHost
  <2>. HIDE DEF r
  <2>4. r.From \in Paths /\ r.From.names \in HostPaths /\ Len(r.From.names) \in Nat
    BY <2>1 DEF Rules, Paths, HostPaths
  <2>5. ~p.unc => Under(r.From, d)
    <3>. SUFFICES ASSUME ~p.unc PROVE Under(r.From, d)
      OBVIOUS
    <3>1. ASSUME NEW q \in ToSet(mapper), q.From = d PROVE Under(r.From, d)
      <4>1. PICK i \in DOMAIN mapper : mapper[i] = q
        BY <3>1 DEF ToSet
      <4>2. matches(mapper[i], p)
        BY <1>1, <1>2, <3>1, <4>1, MatchesAtMount
      <4>3. Len(d.names) <= Len(r.From.names)
        BY <2>2, <3>1, <4>1, <4>2
      <4>4. r.From # Root
        <5>. SUFFICES ASSUME r.From = Root PROVE FALSE
          OBVIOUS
        <5>1. Len(r.From.names) = 0
          BY EmptySeq DEF Root
        <5>. QED
          BY <1>2, <4>3, <5>1
      <4>5. Under(p, r.From)
        BY <2>1, <4>4 DEF matches
      <4>. QED
        BY <1>1, <1>2, <2>4, <4>3, <4>5, UnderNests
    <3>2. ASSUME ~\E q \in ToSet(mapper) : Under(d, q.From) PROVE Under(r.From, d)
      <4>1. ~Under(d, r.From)
        BY <2>1, <3>2
      <4>2. Under(p, r.From)
        <5>1. r.From # Root
          <6>. SUFFICES ASSUME r.From = Root PROVE FALSE
            OBVIOUS
          <6>1. Under(d, Root)
            BY <1>2, AllUnderRoot
          <6>. QED
            BY <4>1, <6>1
        <5>. QED
          BY <2>1, <5>1 DEF matches
      <4>3. ~(Len(r.From.names) <= Len(d.names))
        BY <1>1, <1>2, <2>4, <4>1, <4>2, UnderNests
      <4>4. Len(d.names) <= Len(r.From.names)
        BY <1>2, <2>4, <4>3
      <4>. QED
        BY <1>1, <1>2, <2>4, <4>2, <4>4, UnderNests
    <3>. QED
      BY <3>1, <3>2 DEF Known, m
  <2>6. r.To \o rest(p, r.From) = Real(p)
    BY <1>1, <1>2, <2>1, <2>5, RuleReaches DEF m
  <2>. QED
    BY <2>3, <2>6
<1>4. CASE ~met /\ p.unc
  <2>1. ToHost(mapper, p) = containedUnderMnt(<<"mnt", "user">> \o Tail(p.names))
    BY <1>1, <1>4 DEF ToHost
  <2>. QED
    BY <1>4, <2>1, ShareIsReal
<1>5. CASE ~met /\ ~p.unc
  <2>1. d.names = m.Source /\ UnderMnt(m.Source)
    <3>1. ASSUME NEW q \in ToSet(mapper), q.From = d PROVE FALSE
      <4>1. PICK i \in DOMAIN mapper : mapper[i] = q
        BY <3>1 DEF ToSet
      <4>2. matches(mapper[i], p)
        BY <1>1, <1>2, <1>5, <3>1, <4>1, MatchesAtMount
      <4>. QED
        BY <1>5, <4>2
    <3>. QED
      BY <1>5, <3>1 DEF Known, m
  <2>. DEFINE dn == d.names
              pn == p.names
  <2>2. dn \in Seq(Names) /\ pn \in Seq(Names) /\ IsPrefix(dn, pn) /\ rest(p, d) = Left(pn, dn)
    BY <1>1, <1>2, <1>5, UnderIs DEF HostPaths
  <2>3. UnderMnt(dn) /\ m.Source = dn
    BY <2>1
  <2>4. Real(p) = m.Source \o rest(p, d)
    BY <1>2, <1>5 DEF Real, m
  <2>5. ToHost(mapper, p) = IF UnderMnt(pn) THEN containedUnderMnt(pn) ELSE NoHost
    BY <1>5 DEF ToHost
  <2>6. ToSet(pn) \cap {".", ".."} = {}
    BY <1>1
  <2>. HIDE DEF dn, pn, d
  <2>7. dn \o Left(pn, dn) = pn
    <3>1. IsPrefix(dn, dn)
      BY <2>2, PrefixIs
    <3>. QED
      BY <2>2, <3>1, LeftJoins
  <2>8. UnderMnt(pn) /\ pn # <<>> /\ pn[1] = "mnt"
    <3>1. Len(dn) > 1 /\ dn[1] = "mnt" /\ Len(dn) \in Nat /\ Len(pn) \in Nat
      BY <2>2, <2>3 DEF UnderMnt
    <3>2. Len(dn) <= Len(pn) /\ \A i \in 1 .. Len(dn) : dn[i] = pn[i]
      BY <2>2, PrefixIs
    <3>3. 1 \in 1 .. Len(dn)
      BY <3>1
    <3>4. Len(pn) > 1 /\ pn[1] = "mnt"
      BY <3>1, <3>2, <3>3
    <3>. QED
      BY <2>2, <3>4, EmptySeq DEF UnderMnt
  <2>9. Clean(pn) = pn
    BY <2>2, <2>6, CleanIs
  <2>10. ToHost(mapper, p) = pn
    BY <2>5, <2>8, <2>9 DEF containedUnderMnt
  <2>. QED
    BY <2>2, <2>3, <2>4, <2>7, <2>10
<1>. QED
  BY <1>3, <1>4, <1>5

LEMMA NoHostIsNone == NoHost \notin Seq(Names)
<1>1. ASSUME NEW s \in Seq(Names), Len(s) = 1 PROVE s[1] \in Names
  BY <1>1
<1>2. Len(NoHost) = 1
  BY DEF NoHost
<1>3. NoHost \in Seq(Names) => NoHost[1] \in Names
  BY <1>1, <1>2
<1>. QED
  BY <1>3 DEF Names

\* A known path is somewhere.
LEMMA RealIsThere ==
    ASSUME WorldInv, NEW p \in Reported, Known(p)
    PROVE  Real(p) # NoHost
<1>1. CASE p.unc
  <2>1. Real(p) = <<"mnt", "user">> \o Tail(p.names)
    BY <1>1 DEF Real
  <2>2. Tail(p.names) \in Seq(Names)
    BY <1>1, ReportedIs, EmptySeq DEF HostPaths
  <2>. DEFINE tail == Tail(p.names)
              mu   == <<"mnt", "user">>
  <2>. HIDE DEF tail
  <2>3. tail \in Seq(Names)
    BY <2>2 DEF tail
  <2>4. Len(mu \o tail) = 2 + Len(tail) /\ Len(tail) \in Nat
    BY <2>3
  <2>5. Len(mu \o tail) # 1
    BY <2>4
  <2>6. Len(NoHost) = 1
    BY DEF NoHost
  <2>. QED
    BY <2>1, <2>5, <2>6 DEF tail
<1>2. CASE ~p.unc
  <2>. DEFINE m == Deepest(p)
  <2>1. p \in Paths /\ Over(p) # {} /\ m \in Over(p)
    BY <1>2, ReportedIs, DeepestIs DEF Known
  <2>. HIDE DEF m
  <2>2. m.Destination \in Paths /\ m.Source \in HostPaths /\ Under(p, m.Destination)
    BY <2>1, OverIs
  <2>3. Real(p) = m.Source \o rest(p, m.Destination)
    BY <1>2, <2>1 DEF Real, m
  <2>4. rest(p, m.Destination) \in HostPaths
    BY <2>1, <2>2 DEF rest, Paths, HostPaths
  <2>5. m.Source \o rest(p, m.Destination) \in HostPaths
    BY <2>2, <2>4 DEF HostPaths
  <2>. QED
    BY <2>3, <2>5, NoHostIsNone DEF HostPaths
<1>. QED
  BY <1>1, <1>2

\* A path inside a location meets the rules the location meets.
LEMMA InsideMatches ==
    ASSUME WorldInv, NEW p \in Paths, NEW loc \in Paths, Under(p, loc), loc # Root,
           NEW i \in DOMAIN mapper,
           ~(/\ Under(mapper[i].From, loc) /\ mapper[i].From # loc /\ Under(p, mapper[i].From))
    PROVE  matches(mapper[i], p) <=> matches(mapper[i], loc)
<1>. DEFINE f == mapper[i].From
<1>1. f \in Paths
  <2>1. mapper[i] \in Rules
    BY DEF WorldInv
  <2>. QED
    BY <2>1 DEF Rules
<1>2. matches(mapper[i], p) <=> IF f = Root THEN p = Root \/ p.unc ELSE Under(p, f)
  BY DEF matches
<1>3. matches(mapper[i], loc) <=> IF f = Root THEN loc = Root \/ loc.unc ELSE Under(loc, f)
  BY DEF matches
<1>4. ~(Under(f, loc) /\ f # loc /\ Under(p, f))
  OBVIOUS
<1>. HIDE DEF f
<1>5. p.unc = loc.unc /\ p.unc \in BOOLEAN /\ Len(loc.names) \in Nat /\ Len(f.names) \in Nat
  BY <1>1, UnderIs DEF Paths, HostPaths
<1>6. p # Root
  <2>. SUFFICES ASSUME p = Root PROVE FALSE
    OBVIOUS
  <2>. DEFINE ln == loc.names
  <2>1. loc.unc = FALSE /\ ln \in Seq(Names) /\ IsPrefix(ln, <<>>)
    BY <1>5, UnderIs DEF Root, HostPaths
  <2>2. loc = [unc |-> FALSE, names |-> ln]
    BY <2>1 DEF Paths
  <2>. HIDE DEF ln
  <2>3. Len(ln) <= 0 /\ Len(ln) \in Nat
    BY <2>1, EmptySeq DEF IsPrefix
  <2>4. ln = <<>>
    BY <2>1, <2>3, EmptySeq
  <2>. QED
    BY <2>2, <2>4 DEF Root
<1>7. ASSUME Under(loc, f) PROVE Under(p, f)
  BY <1>1, <1>7, UnderComposes
<1>8. ASSUME Under(p, f) PROVE Under(loc, f)
  <2>1. CASE Len(f.names) <= Len(loc.names)
    BY <1>1, <1>8, <2>1, UnderNests
  <2>2. CASE ~(Len(f.names) <= Len(loc.names))
    <3>1. Under(f, loc)
      BY <1>1, <1>5, <1>8, <2>2, UnderNests
    <3>2. f # loc
      BY <1>5, <2>2
    <3>. QED
      BY <1>4, <1>8, <3>1, <3>2
  <2>. QED
    BY <2>1, <2>2
<1>. QED
  BY <1>2, <1>3, <1>5, <1>6, <1>7, <1>8

\* What a location is mapped to begins what the paths inside it are mapped to,
\* where both meet the same rules.
LEMMA InsideMapped ==
    ASSUME WorldInv, NEW p \in Reported, NEW loc \in Reported, Under(p, loc),
           \A i \in DOMAIN mapper : matches(mapper[i], p) <=> matches(mapper[i], loc),
           ToHost(mapper, loc) # NoHost
    PROVE  ToHost(mapper, p) # NoHost /\ IsPrefix(ToHost(mapper, loc), ToHost(mapper, p))
<1>. DEFINE met == \E i \in DOMAIN mapper : matches(mapper[i], loc)
            ln  == loc.names
            pn  == p.names
<1>1. p \in Paths /\ loc \in Paths /\ (p.unc => Len(p.names) >= 2)
  BY ReportedIs
<1>2. /\ ln \in Seq(Names) /\ pn \in Seq(Names) /\ IsPrefix(ln, pn) /\ p.unc = loc.unc
      /\ ToSet(ln) \cap {".", ".."} = {} /\ ToSet(pn) \cap {".", ".."} = {}
  BY <1>1, UnderIs, ReportedIs DEF HostPaths
<1>3. met <=> \E i \in DOMAIN mapper : matches(mapper[i], p)
  OBVIOUS
<1>4. CASE met
  <2>. DEFINE r == mapper[first(mapper, loc)]
  <2>1. /\ r \in Rules /\ matches(r, loc) /\ matches(r, p)
    BY <1>4, FirstIsThere DEF WorldInv
  <2>2. first(mapper, p) = first(mapper, loc)
    <3>1. {i \in DOMAIN mapper : matches(mapper[i], p)} = {i \in DOMAIN mapper : matches(mapper[i], loc)}
      OBVIOUS
    <3>. QED
      BY <3>1 DEF first
  <2>3. ToHost(mapper, loc) = r.To \o rest(loc, r.From) /\ ToHost(mapper, p) = r.To \o rest(p, r.From)
    BY <1>3, <1>4, <2>2 DEF ToHost
  <2>. HIDE DEF r
  <2>. DEFINE fn == r.From.names
              to == r.To
  <2>4. fn \in Seq(Names) /\ to \in Seq(Names) /\ r.From \in Paths
    BY <2>1 DEF Rules, Paths, HostPaths
  <2>5. IsPrefix(fn, ln)
    <3>1. CASE r.From = Root
      <4>1. fn = <<>>
        BY <3>1 DEF Root
      <4>. HIDE DEF fn, ln
      <4>. QED
        BY <1>2, <4>1, NothingBegins
    <3>2. CASE r.From # Root
      BY <2>1, <3>2 DEF matches, Under
    <3>. QED
      BY <3>1, <3>2
  <2>6. rest(loc, r.From) = Left(ln, fn) /\ rest(p, r.From) = Left(pn, fn)
    BY DEF rest, Left
  <2>7. ToHost(mapper, loc) = to \o Left(ln, fn) /\ ToHost(mapper, p) = to \o Left(pn, fn)
    BY <2>3, <2>6
  <2>. HIDE DEF fn, to, ln, pn
  <2>8. IsPrefix(fn, pn)
    BY <1>2, <2>4, <2>5, PrefixesCompose
  <2>9. Left(ln, fn) \in Seq(Names) /\ Left(pn, fn) \in Seq(Names)
    BY <1>2, <2>4, <2>5, LeftJoins
  <2>10. IsPrefix(Left(ln, fn), Left(pn, fn))
    BY <1>2, <2>4, <2>5, LeftGrows
  <2>11. IsPrefix(to \o Left(ln, fn), to \o Left(pn, fn))
    BY <2>4, <2>9, <2>10, LongerStill
  <2>12. to \o Left(pn, fn) \in Seq(Names)
    BY <2>4, <2>9, ConcatProperties
  <2>. QED
    BY <2>7, <2>11, <2>12, NoHostIsNone
<1>5. CASE ~met /\ p.unc
  <2>. DEFINE mu == <<"mnt", "user">>
              lt == Tail(ln)
              pt == Tail(pn)
              d  == <<ln[1]>>
              T  == Names \cup {"mnt", "user"}
  <2>1. Len(ln) >= 2 /\ Len(pn) >= 2
    BY <1>1, <1>2, <1>5, ReportedIs
  <2>2. ToHost(mapper, loc) = containedUnderMnt(mu \o lt) /\ ToHost(mapper, p) = containedUnderMnt(mu \o pt)
    BY <1>2, <1>3, <1>5, <2>1 DEF ToHost
  <2>3. ToHost(mapper, loc) = Real(loc) /\ ToHost(mapper, p) = Real(p)
    BY <1>2, <1>5, <2>2, ShareIsReal
  <2>4. Real(loc) = mu \o lt /\ Real(p) = mu \o pt
    BY <1>2, <1>5 DEF Real
  <2>5. Real(p) # NoHost
    BY <1>5, RealIsThere DEF Known
  <2>. HIDE DEF ln, pn
  <2>6. ln # <<>> /\ pn # <<>> /\ Len(ln) \in Nat /\ Len(pn) \in Nat
    BY <1>2, <2>1, EmptySeq
  <2>7. d \in Seq(Names) /\ Len(d) = 1 /\ d[1] = ln[1]
    BY <1>2, <2>1, <2>6
  <2>. HIDE DEF d
  <2>8. IsPrefix(d, ln)
    BY <1>2, <2>1, <2>6, <2>7, PrefixIs
  <2>9. lt = Left(ln, d) /\ pt = Left(pn, d)
    BY <1>2, <2>1, <2>6, <2>7 DEF Left
  <2>10. lt \in Seq(Names) /\ pt \in Seq(Names)
    BY <1>2, <2>6
  <2>. HIDE DEF lt, pt
  <2>11. IsPrefix(lt, pt)
    BY <1>2, <2>7, <2>8, <2>9, LeftGrows
  <2>12. mu \in Seq(T) /\ lt \in Seq(T) /\ pt \in Seq(T)
    <3>1. Seq(Names) \subseteq Seq(T)
      BY SeqMonotonic
    <3>2. mu \in Seq(T)
      OBVIOUS
    <3>. HIDE DEF T, mu
    <3>. QED
      BY <2>10, <3>1, <3>2
  <2>. HIDE DEF T, mu
  <2>13. IsPrefix(mu \o lt, mu \o pt)
    BY <2>11, <2>12, LongerStill
  <2>. QED
    BY <2>3, <2>4, <2>5, <2>13
<1>6. CASE ~met /\ ~p.unc
  <2>1. /\ ToHost(mapper, loc) = IF UnderMnt(ln) THEN containedUnderMnt(ln) ELSE NoHost
        /\ ToHost(mapper, p) = IF UnderMnt(pn) THEN containedUnderMnt(pn) ELSE NoHost
    BY <1>2, <1>3, <1>6 DEF ToHost
  <2>. HIDE DEF ln, pn
  <2>2. UnderMnt(ln) /\ Len(ln) > 1 /\ ln[1] = "mnt" /\ Len(ln) \in Nat /\ Len(pn) \in Nat
    BY <1>2, <2>1 DEF UnderMnt
  <2>3. Len(ln) <= Len(pn) /\ \A i \in 1 .. Len(ln) : ln[i] = pn[i]
    BY <1>2, PrefixIs
  <2>4. 1 \in 1 .. Len(ln)
    BY <2>2
  <2>5. Len(pn) > 1 /\ pn[1] = "mnt"
    BY <2>2, <2>3, <2>4
  <2>6. ln # <<>> /\ pn # <<>>
    BY <1>2, <2>2, <2>5, EmptySeq
  <2>7. Clean(ln) = ln /\ Clean(pn) = pn
    BY <1>2, CleanIs
  <2>8. ToHost(mapper, loc) = ln /\ ToHost(mapper, p) = pn
    BY <2>1, <2>2, <2>5, <2>6, <2>7 DEF containedUnderMnt, UnderMnt
  <2>. QED
    BY <1>2, <2>8, NoHostIsNone
<1>. QED
  BY <1>4, <1>5, <1>6

LEMMA LocatedPrefixes == prefixes = {ToHost(mapper, loc) : loc \in located}
  BY DEF prefixes, located, selected

LEMMA SelectedReported == selected \subseteq Reported
  BY DEF selected, Reported

LEMMA ItemsReported ==
    ASSUME NEW it \in Items, it.Path # NoPath
    PROVE  it.Path \in Reported
<1>. DEFINE files == {i \in Items : i.Path # NoPath}
            paths == {i.Path : i \in files}
            locs  == UNION {Libraries[l] : l \in DOMAIN Libraries}
<1>1. it \in files
  OBVIOUS
<1>2. Reported = locs \cup paths
  BY DEF Reported
<1>. HIDE DEF files, locs
<1>3. it.Path \in paths
  BY <1>1
<1>. QED
  BY <1>2, <1>3

\* What Allowed says of an item, in the terms of the property.
LEMMA AllowedHonours ==
    ASSUME WorldInv, NEW it \in Items, it.Path \in Reported
    PROVE  LET p == it.Path
           IN  /\ (located = {} \/ inside(p)) => Allowed(it)
               /\ (located # {} /\ Honest /\ \A q \in located \cup {p} : Known(q)) =>
                    (Allowed(it) <=> onDisk(p))
<1>. DEFINE p == it.Path
<1>1. Allowed(it) <=> \/ located = {}
                      \/ /\ ToHost(mapper, p) # NoHost
                         /\ \E loc \in located : IsPrefix(ToHost(mapper, loc), ToHost(mapper, p))
  BY LocatedPrefixes DEF Allowed
<1>2. located \subseteq Reported /\ \A loc \in located : ToHost(mapper, loc) # NoHost
  BY SelectedReported DEF located
<1>. HIDE DEF p
<1>3. p \in Reported
  BY DEF p
<1>4. ASSUME inside(p) PROVE Allowed(it)
  <2>1. PICK loc \in located :
          /\ Under(p, loc) /\ loc # Root
          /\ ~\E r \in ToSet(mapper) : Under(r.From, loc) /\ r.From # loc /\ Under(p, r.From)
    BY <1>4 DEF inside
  <2>2. p \in Paths /\ loc \in Paths /\ loc \in Reported
    BY <1>2, <1>3, ReportedIs
  <2>3. ASSUME NEW i \in DOMAIN mapper PROVE matches(mapper[i], p) <=> matches(mapper[i], loc)
    <3>1. mapper[i] \in ToSet(mapper)
      BY DEF ToSet
    <3>2. ~(Under(mapper[i].From, loc) /\ mapper[i].From # loc /\ Under(p, mapper[i].From))
      BY <2>1, <3>1
    <3>. QED
      BY <2>1, <2>2, <3>2, InsideMatches
  <2>4. ToHost(mapper, p) # NoHost /\ IsPrefix(ToHost(mapper, loc), ToHost(mapper, p))
    BY <1>2, <1>3, <2>1, <2>2, <2>3, InsideMapped
  <2>. QED
    BY <1>1, <2>4
<1>5. ASSUME located # {}, Honest, \A q \in located \cup {p} : Known(q)
      PROVE  Allowed(it) <=> onDisk(p)
  <2>1. ToHost(mapper, p) = Real(p) /\ Real(p) # NoHost
    BY <1>3, <1>5, KnownIsMapped, RealIsThere
  <2>2. \A loc \in located : ToHost(mapper, loc) = Real(loc)
    BY <1>2, <1>5, KnownIsMapped
  <2>. QED
    BY <1>1, <1>5, <2>1, <2>2 DEF onDisk
<1>. QED
  BY <1>1, <1>4, <1>5 DEF p

LEMMA WorldStep == WorldInv /\ [Next]_vars => WorldInv'
  BY NothingReconfigures DEF WorldInv

LEMMA WorldInvariant == Spec => []WorldInv
<1>1. Init => WorldInv
  BY WorldInit
<1>. QED
  BY <1>1, WorldStep, PTL DEF Spec

\* The step that ends collection by the libraries honours the scope.
LEMMA FilterKeepsTheScope ==
    ASSUME TypeInv, WorldInv, [Next]_vars, pc = "libraries", pc' = "done"
    PROVE  KeepsTheScope
<1>1. filterByLibraries
  BY DEF Next, CollectCandidates, bingeAhead, NowPlaying, SkipTier, FetchList, FetchNextUp,
         StartBinge, NoSeries, Refuse, Follow, FollowFails, EndBinge, InLoop, Following,
         EndLoop, RequestFails, Cancel, vars
<1>2. cands \in Seq(CandType)
  BY DEF TypeInv
<1>3. ToSet(cands') = ToSet(cands) \cap {c \in ToSet(cands) : Allowed(c.Item)}
  <2>1. cands' = Keep(cands, {c \in ToSet(cands) : Allowed(c.Item)})
    BY <1>1 DEF filterByLibraries
  <2>2. ASSUME NEW wanted PROVE ToSet(Keep(cands, wanted)) = ToSet(cands) \cap wanted
    BY <1>2, KeepKeeps
  <2>. QED
    BY <2>1, <2>2
<1>4. ASSUME NEW c \in ToSet(cands)
      PROVE  /\ c.Item \in Items /\ c.Item.Path \in Reported
             /\ c \in ToSet(cands') <=> Allowed(c.Item)
  <2>1. c \in CandType
    BY <1>2 DEF ToSet
  <2>2. c.Item \in Items /\ c.Item.Path # NoPath
    BY <2>1 DEF CandType, Media
  <2>3. c.Item.Path \in Reported
    BY <2>2, ItemsReported
  <2>. QED
    BY <1>3, <2>2, <2>3
<1>. QED
  BY <1>4, AllowedHonours DEF KeepsTheScope

\* Whatever containers run and rules they make, a path whose mount the mapper was
\* told of is mapped to where the file is.
THEOREM MappedPathsAlwaysReal == Spec => []MappedPathsAreReal
<1>1. WorldInv => MappedPathsAreReal
  BY KnownIsMapped DEF MappedPathsAreReal
<1>. QED
  BY <1>1, WorldInvariant, PTL

\* Whatever is selected, filtering by library keeps what lies in a selected location.
THEOREM ScopeAlwaysHonoured == Spec => ScopeHonoured
<1>1. TypeInv /\ WorldInv /\ [Next]_vars
        => [pc = "libraries" /\ pc' = "done" => KeepsTheScope]_vars
  BY FilterKeepsTheScope
<1>2. Spec => [](ConfigInv /\ TypeInv)
  BY CollectTyped
<1>. QED
  BY <1>1, <1>2, WorldInvariant, PTL DEF Spec, ScopeHonoured
=============================================================================
