---------------------------- MODULE ScorerProofs ----------------------------
(***************************************************************************)
(* What ResolveRanks makes of any configuration and any list of users, and *)
(* what Rank makes of any candidates under it.  The two folds of the       *)
(* resolution are loops (module Loops) whose values are described after    *)
(* every key; the two loops of Rank are steps of the specification.  Last, *)
(* that the budget meter errs high.                                        *)
(***************************************************************************)
EXTENDS Projection, Loops, FiniteSetTheorems

-----------------------------------------------------------------------------
(***************************************************************************)
(* Whom a key means.                                                       *)
(***************************************************************************)
LEMMA FiniteImage ==
    ASSUME NEW users \in Seq(UserType), NEW S \in SUBSET ToSet(users)
    PROVE  IsFiniteSet({u.ID : u \in S})
<1>1. IsFiniteSet(ToSet(users))
  <2>1. IsFiniteSet(DOMAIN users)
    <3>1. DOMAIN users = 1 .. Len(users) /\ Len(users) \in Nat
      OBVIOUS
    <3>. QED
      BY <3>1, FS_Interval
  <2>2. users \in [DOMAIN users -> ToSet(users)] /\ \A u \in ToSet(users) : \E i \in DOMAIN users : users[i] = u
    BY DEF ToSet
  <2>3. users \in Surjection(DOMAIN users, ToSet(users))
    BY <2>2 DEF Surjection
  <2>. QED
    BY <2>1, <2>3, FS_Surjection
<1>2. IsFiniteSet(S)
  BY <1>1, FS_Subset
<1>. DEFINE id == [u \in S |-> u.ID]
<1>3. id \in Surjection(S, {u.ID : u \in S})
  BY DEF Surjection
<1>. QED
  BY <1>2, <1>3, FS_Surjection

LEMMA OnlyOne ==
    ASSUME NEW S, IsFiniteSet(S), Cardinality(S) = 1
    PROVE  (CHOOSE x \in S : TRUE) \in S /\ \A x \in S : x = (CHOOSE y \in S : TRUE)
<1>1. PICK x : S = {x}
  BY FS_Singleton
<1>. QED
  BY <1>1

\* The three ways a key binds, and the fourth in which it does not.
LEMMA WhomAKeyMeans ==
    ASSUME NEW users \in Seq(UserType), NEW key
    PROVE  \/ key \in IDs(users) /\ resolveUserKey(users, key) = Reference(key, "exactID")
           \/ \E id \in named(users, key) :
                /\ named(users, key) = {id} /\ keyed(users, key) \subseteq {id}
                /\ key \notin IDs(users) /\ resolveUserKey(users, key) = Reference(id, "name")
           \/ \E id \in keyed(users, key) :
                /\ keyed(users, key) = {id}
                /\ key \notin IDs(users) /\ resolveUserKey(users, key) = Reference(id, "cfgKey")
           \/ key \notin IDs(users) /\ resolveUserKey(users, key) = Reference(NoUser, "none")
<1>1. IsFiniteSet(named(users, key))
  BY FiniteImage DEF named
<1>2. IsFiniteSet(keyed(users, key))
  BY FiniteImage DEF keyed
<1>3. CASE key \in IDs(users)
  BY <1>3 DEF resolveUserKey
<1>4. CASE /\ key \notin IDs(users) /\ Cardinality(named(users, key)) = 1
           /\ keyed(users, key) \subseteq named(users, key)
  <2>. DEFINE id == CHOOSE id \in named(users, key) : TRUE
  <2>1. id \in named(users, key) /\ named(users, key) = {id}
    BY <1>1, <1>4, OnlyOne
  <2>2. resolveUserKey(users, key) = Reference(id, "name")
    BY <1>4, <2>1 DEF resolveUserKey
  <2>. HIDE DEF id
  <2>. QED
    BY <1>4, <2>1, <2>2
<1>5. CASE /\ key \notin IDs(users) /\ named(users, key) = {}
           /\ Cardinality(keyed(users, key)) = 1
  <2>. DEFINE id == CHOOSE id \in keyed(users, key) : TRUE
  <2>1. id \in keyed(users, key) /\ keyed(users, key) = {id}
    BY <1>2, <1>5, OnlyOne
  <2>2. Cardinality(named(users, key)) # 1
    BY <1>5, FS_EmptySet
  <2>3. resolveUserKey(users, key) = Reference(id, "cfgKey")
    BY <1>5, <2>2 DEF resolveUserKey
  <2>. HIDE DEF id
  <2>. QED
    BY <1>5, <2>1, <2>3
<1>6. CASE /\ key \notin IDs(users)
           /\ ~(Cardinality(named(users, key)) = 1 /\ keyed(users, key) \subseteq named(users, key))
           /\ ~(named(users, key) = {} /\ Cardinality(keyed(users, key)) = 1)
  <2>1. resolveUserKey(users, key) = Reference(NoUser, "none")
    BY <1>6 DEF resolveUserKey
  <2>. QED
    BY <1>6, <2>1
<1>. QED
  BY <1>3, <1>4, <1>5, <1>6

Bindings == {"exactID", "name", "cfgKey"}

LEMMA UsersAreSpelled ==
    ASSUME NEW users \in Seq(UserType), NEW key
    PROVE  /\ IDs(users) \subseteq ToSet(Spellings)
           /\ named(users, key) \subseteq IDs(users) /\ keyed(users, key) \subseteq IDs(users)
<1>1. \A i \in DOMAIN users : users[i].ID \in ToSet(Spellings)
  <2>1. \A i \in DOMAIN users : users[i] \in UserType
    OBVIOUS
  <2>2. \A u \in UserType : u.ID \in ToSet(Spellings)
    BY DEF UserType
  <2>. QED
    BY <2>1, <2>2
<1>. QED
  BY <1>1 DEF IDs, named, keyed, ToSet

\* A key binds to a user of the list, or not at all.
LEMMA BoundOrNot ==
    ASSUME NEW users \in Seq(UserType), NEW key
    PROVE  LET bound == resolveUserKey(users, key)
           IN  /\ bound.id \in IDs(users) \cup {NoUser}
               /\ bound.ref \in Bindings \cup {"none"}
               /\ bound.id = NoUser <=> bound.ref = "none"
               /\ bound.ref = "exactID" => bound.id = key
               /\ bound = Reference(bound.id, bound.ref)
<1>1. IDs(users) \subseteq ToSet(Spellings) /\ NoUser \notin IDs(users)
  BY UsersAreSpelled, SpellingsAssumption
<1>. QED
  BY <1>1, WhomAKeyMeans, UsersAreSpelled DEF Reference, Bindings

LEMMA NoBystanderIn ==
    ASSUME NEW users \in Seq(UserType), NEW key,
           resolveUserKey(users, key).id \notin {NoUser, key},
           NEW u \in ToSet(users), u.ID # resolveUserKey(users, key).id
    PROVE  cfgKeyNormalize[key] \notin {cfgKeyNormalize[u.ID], cfgKeyNormalize[u.Name]}
<1>1. keyed(users, key) \subseteq {resolveUserKey(users, key).id}
  BY WhomAKeyMeans DEF Reference
<1>. QED
  BY <1>1 DEF keyed
-----------------------------------------------------------------------------
(***************************************************************************)
(* Whose override a user has.                                              *)
(***************************************************************************)
\* Some users' own orders.
Owns == UNION {[S -> Seq(ToSet(AllTiers))] : S \in SUBSET ToSet(Spellings)}

\* The keys among T that bind to the user in one of the given ways.
Binding(users, cfg, refs, id, T) ==
    {key \in T \cap DOMAIN cfg.Override :
        resolveUserKey(users, key).ref \in refs /\ resolveUserKey(users, key).id = id}

\* own is others, but for the users some key of T binds to.
Overlaid(own, others, users, cfg, refs, T) ==
    \A id \in ToSet(Spellings) :
        LET keys == Binding(users, cfg, refs, id, T)
        IN  /\ keys = {} => /\ id \in DOMAIN own <=> id \in DOMAIN others
                            /\ id \in DOMAIN own => own[id] = others[id]
            /\ keys # {} => /\ id \in DOMAIN own
                            /\ \E key \in keys : own[id] = cfg.Override[key]

LEMMA OwnsAreOrders ==
    ASSUME NEW own
    PROVE  own \in Owns <=> /\ own = [id \in DOMAIN own |-> own[id]]
                            /\ DOMAIN own \subseteq ToSet(Spellings)
                            /\ \A id \in DOMAIN own : own[id] \in Seq(ToSet(AllTiers))
  BY DEF Owns

LEMMA PutOwn ==
    ASSUME NEW own \in Owns, NEW id \in ToSet(Spellings), NEW order \in Seq(ToSet(AllTiers))
    PROVE  /\ put(own, id, order) \in Owns
           /\ DOMAIN put(own, id, order) = DOMAIN own \cup {id}
           /\ put(own, id, order)[id] = order
           /\ \A other \in DOMAIN own : other # id => put(own, id, order)[other] = own[other]
<1>1. DOMAIN own \subseteq ToSet(Spellings) /\ \A other \in DOMAIN own : own[other] \in Seq(ToSet(AllTiers))
  BY OwnsAreOrders
<1>. DEFINE new == put(own, id, order)
<1>2. new = [k \in DOMAIN own \cup {id} |-> IF k = id THEN order ELSE own[k]]
  BY DEF put
<1>3. /\ DOMAIN new = DOMAIN own \cup {id} /\ new[id] = order
      /\ \A other \in DOMAIN own : other # id => new[other] = own[other]
  BY <1>2
<1>4. new = [k \in DOMAIN new |-> new[k]]
  BY <1>2
<1>. HIDE DEF new
<1>5. new \in Owns
  BY <1>1, <1>3, <1>4, OwnsAreOrders
<1>. QED
  BY <1>3, <1>5 DEF new

\* One more key.
LEMMA OneMoreKey ==
    ASSUME NEW users \in Seq(UserType), NEW cfg, IsCfg(cfg), NEW refs \in SUBSET Bindings,
           NEW others, NEW own \in Owns, NEW T, NEW key \in ToSet(Spellings),
           Overlaid(own, others, users, cfg, refs, T),
           NEW new, new = IF key \in DOMAIN cfg.Override /\ resolveUserKey(users, key).ref \in refs
                          THEN put(own, resolveUserKey(users, key).id, cfg.Override[key])
                          ELSE own
    PROVE  new \in Owns /\ Overlaid(new, others, users, cfg, refs, T \cup {key})
<1>. DEFINE old(id) == Binding(users, cfg, refs, id, T)
            now(id) == Binding(users, cfg, refs, id, T \cup {key})
            bound   == resolveUserKey(users, key)
<1>1. CASE key \in DOMAIN cfg.Override /\ bound.ref \in refs
  <2>1. bound.id \in ToSet(Spellings)
    BY <1>1, BoundOrNot, UsersAreSpelled DEF Bindings
  <2>2. cfg.Override[key] \in Seq(ToSet(AllTiers))
    BY <1>1 DEF IsCfg, IsOrder
  <2>3. /\ new \in Owns /\ DOMAIN new = DOMAIN own \cup {bound.id}
        /\ new[bound.id] = cfg.Override[key]
        /\ \A other \in DOMAIN own : other # bound.id => new[other] = own[other]
    <3>. DEFINE id    == bound.id
                order == cfg.Override[key]
    <3>1. new = put(own, id, order)
      BY <1>1
    <3>. HIDE DEF id, order
    <3>2. id \in ToSet(Spellings) /\ order \in Seq(ToSet(AllTiers))
      BY <2>1, <2>2 DEF id, order
    <3>3. LET out == put(own, id, order)
          IN  /\ out \in Owns /\ DOMAIN out = DOMAIN own \cup {id} /\ out[id] = order
              /\ \A other \in DOMAIN own : other # id => out[other] = own[other]
      BY <3>2, PutOwn
    <3>4. /\ new \in Owns /\ DOMAIN new = DOMAIN own \cup {id} /\ new[id] = order
          /\ \A other \in DOMAIN own : other # id => new[other] = own[other]
      BY <3>1, <3>3
    <3>. QED
      BY <3>4 DEF id, order
  <2>4. key \in now(bound.id)
    BY <1>1 DEF Binding
  <2>5. ASSUME NEW id \in ToSet(Spellings), id # bound.id
        PROVE  now(id) = old(id)
    BY <2>5 DEF Binding
  <2>. HIDE DEF bound, old, now
  <2>6. ASSUME NEW id \in ToSet(Spellings)
        PROVE  /\ now(id) = {} => /\ id \in DOMAIN new <=> id \in DOMAIN others
                                  /\ id \in DOMAIN new => new[id] = others[id]
               /\ now(id) # {} => /\ id \in DOMAIN new
                                  /\ \E k \in now(id) : new[id] = cfg.Override[k]
    <3>1. CASE id = bound.id
      BY <2>3, <2>4, <3>1
    <3>2. CASE id # bound.id
      <4>1. /\ old(id) = {} => /\ id \in DOMAIN own <=> id \in DOMAIN others
                               /\ id \in DOMAIN own => own[id] = others[id]
            /\ old(id) # {} => /\ id \in DOMAIN own
                               /\ \E k \in old(id) : own[id] = cfg.Override[k]
        BY DEF Overlaid, old
      <4>. QED
        BY <2>3, <2>5, <3>2, <4>1
    <3>. QED
      BY <3>1, <3>2
  <2>. QED
    BY <2>3, <2>6 DEF Overlaid, now
<1>2. CASE ~(key \in DOMAIN cfg.Override /\ bound.ref \in refs)
  <2>1. \A id : now(id) = old(id)
    BY <1>2 DEF Binding
  <2>2. new = own
    BY <1>2
  <2>. QED
    BY <2>1, <2>2 DEF Overlaid
<1>. QED
  BY <1>1, <1>2

\* All of Spellings, in its order: the keys that bind in the given ways are put
\* over what others hold.
LEMMA AppliedOverlays ==
    ASSUME NEW users \in Seq(UserType), NEW cfg, IsCfg(cfg), NEW refs \in SUBSET Bindings,
           NEW others \in Owns
    PROVE  /\ Applied(users, cfg, refs, others) \in Owns
           /\ Overlaid(Applied(users, cfg, refs, others), others, users, cfg, refs, ToSet(Spellings))
<1>. DEFINE Word         == ToSet(Spellings)
            op(own, key) == IF key \in DOMAIN cfg.Override /\ resolveUserKey(users, key).ref \in refs
                            THEN put(own, resolveUserKey(users, key).id, cfg.Override[key])
                            ELSE own
            step         == [p \in Owns \X Word |-> op(p[1], p[2])]
            Solves(iter) == iter = [S \in SUBSET DOMAIN Spellings |->
                                      IF S = {} THEN others
                                      ELSE op(iter[S \ {Max(S)}], Spellings[Max(S)])]
            it == CHOOSE iter : Solves(iter)
            n  == Len(Spellings)
            T(k) == {Spellings[i] : i \in 1 .. k}
<1>0. Spellings \in Seq(Word) /\ n \in Nat /\ DOMAIN Spellings = 1 .. n
  BY SpellingsAssumption
<1>1. Applied(users, cfg, refs, others) = it[DOMAIN Spellings]
  BY DEF Applied, FoldLeft, MapThenFoldSet
<1>2. ASSUME NEW own \in Owns, NEW key \in Word
      PROVE  op(own, key) \in Owns
  <2>1. Overlaid(own, own, users, cfg, refs, {})
    BY DEF Overlaid, Binding
  <2>. DEFINE new == op(own, key)
  <2>2. new = IF key \in DOMAIN cfg.Override /\ resolveUserKey(users, key).ref \in refs
              THEN put(own, resolveUserKey(users, key).id, cfg.Override[key])
              ELSE own
    OBVIOUS
  <2>. HIDE DEF new, op
  <2>3. new \in Owns
    BY <2>1, <2>2, OneMoreKey
  <2>. QED
    BY <2>3 DEF new
<1>3. /\ step \in [Owns \X Word -> Owns]
      /\ \A own \in Owns, key \in Word : step[<<own, key>>] = op(own, key)
  <2>. HIDE DEF op
  <2>. QED
    BY <1>2
<1>4. ASSUME NEW own \in Owns, NEW key \in Word, NEW S, Overlaid(own, others, users, cfg, refs, S)
      PROVE  Overlaid(op(own, key), others, users, cfg, refs, S \cup {key})
  BY <1>4, OneMoreKey
<1>. HIDE DEF step, op, Word
<1>5. Solves(it)
  <2>1. PICK iter : Iterates(iter, others, step, Spellings) /\ Stays(iter, Owns, Word, Spellings)
    BY <1>0, <1>3, LoopRuns
  <2>2. Solves(iter)
    BY <1>3, <2>1 DEF Iterates, Stays
  <2>. QED
    BY <2>2
<1>. HIDE DEF it
<1>6. Follows(it, Owns, step, Spellings)
  <2>. SUFFICES ASSUME NEW k \in 1 .. n, it[1 .. (k - 1)] \in Owns
                PROVE  it[1 .. k] = step[<<it[1 .. (k - 1)], Spellings[k]>>]
    BY DEF Follows
  <2>1. /\ Max(1 .. k) = k /\ (1 .. k) \ {k} = 1 .. (k - 1)
        /\ 1 .. k # {} /\ 1 .. k \in SUBSET DOMAIN Spellings
    BY <1>0, Beginning
  <2>2. it[1 .. k] = op(it[1 .. (k - 1)], Spellings[k])
    BY <1>5, <2>1
  <2>3. Spellings[k] \in Word
    BY <1>0
  <2>. HIDE DEF Solves
  <2>. QED
    BY <1>3, <2>2, <2>3
<1>7. it[{}] = others
  BY <1>5
<1>. HIDE DEF Solves
<1>8. Runs(Along(it, Spellings), Owns, others, step, Spellings)
  BY <1>0, <1>3, <1>6, <1>7, LoopValues
<1>. DEFINE run == Along(it, Spellings)
<1>9. /\ run \in [0 .. n -> Owns] /\ run[0] = others
      /\ \A k \in 1 .. n : run[k] = op(run[k - 1], Spellings[k])
  <2>1. /\ run \in [0 .. n -> Owns] /\ run[0] = others
        /\ \A k \in 1 .. n : run[k] = step[<<run[k - 1], Spellings[k]>>]
    BY <1>8 DEF Runs
  <2>. HIDE DEF run
  <2>2. \A k \in 1 .. n : run[k - 1] \in Owns /\ Spellings[k] \in Word
    BY <1>0, <2>1
  <2>. QED
    BY <1>3, <2>1, <2>2
<1>10. Applied(users, cfg, refs, others) = run[n]
  BY <1>0, <1>1 DEF Along
<1>. DEFINE P == {k \in 0 .. n : Overlaid(run[k], others, users, cfg, refs, T(k))}
<1>. HIDE DEF run
<1>11. 0 \in P
  <2>1. T(0) = {}
    OBVIOUS
  <2>. HIDE DEF T
  <2>2. Overlaid(run[0], others, users, cfg, refs, T(0))
    BY <1>9, <2>1 DEF Overlaid, Binding
  <2>. QED
    BY <1>0, <2>2
<1>12. ASSUME NEW k \in 0 .. (n - 1), k \in P PROVE k + 1 \in P
  <2>1. k + 1 \in 1 .. n /\ (k + 1) - 1 = k /\ k \in 0 .. n
    BY <1>0
  <2>2. T(k + 1) = T(k) \cup {Spellings[k + 1]}
    <3>1. 1 .. (k + 1) = (1 .. k) \cup {k + 1}
      BY <1>0
    <3>. QED
      BY <3>1
  <2>. HIDE DEF T
  <2>3. Overlaid(run[k], others, users, cfg, refs, T(k)) /\ run[k] \in Owns
    BY <1>9, <1>12, <2>1
  <2>4. run[k + 1] = op(run[k], Spellings[k + 1]) /\ Spellings[k + 1] \in Word
    BY <1>0, <1>9, <2>1
  <2>5. Overlaid(run[k + 1], others, users, cfg, refs, T(k + 1))
    BY <1>4, <2>2, <2>3, <2>4
  <2>. QED
    BY <1>0, <2>1, <2>5
<1>13. n \in P
  <2>. HIDE DEF P, n
  <2>1. 0 .. n \subseteq P
    BY <1>0, <1>11, <1>12, UpTo
  <2>. QED
    BY <1>0, <2>1
<1>14. T(n) = ToSet(Spellings)
  BY <1>0 DEF ToSet
<1>. HIDE DEF T
<1>. QED
  BY <1>0, <1>9, <1>10, <1>13, <1>14

BoundKeys(users, cfg, id, ref) ==
    {key \in DOMAIN cfg.Override : resolveUserKey(users, key) = Reference(id, ref)}

\* What overrides makes of the keys that are one user's: the strongest binding
\* wins, and a user no key names has no order of its own.
Wins(users, cfg, own, id) ==
    LET keys(ref) == BoundKeys(users, cfg, id, ref)
        has(key)  == id \in DOMAIN own /\ own[id] = cfg.Override[key]
    IN  IF keys("exactID") # {} THEN has(id)
        ELSE IF keys("name") # {} THEN \E key \in keys("name") : has(key)
        ELSE IF keys("cfgKey") # {} THEN \E key \in keys("cfgKey") : has(key)
        ELSE id \notin DOMAIN own

LEMMA KeysBind ==
    ASSUME NEW users \in Seq(UserType), NEW cfg, IsCfg(cfg), NEW id, NEW ref \in Bindings
    PROVE  Binding(users, cfg, {ref}, id, ToSet(Spellings)) = BoundKeys(users, cfg, id, ref)
<1>1. DOMAIN cfg.Override \subseteq ToSet(Spellings)
  BY DEF IsCfg
<1>2. ASSUME NEW key
      PROVE  /\ resolveUserKey(users, key) = Reference(id, ref)
                  => /\ resolveUserKey(users, key).ref = ref
                     /\ resolveUserKey(users, key).id = id
             /\ (resolveUserKey(users, key).ref = ref /\ resolveUserKey(users, key).id = id)
                  => resolveUserKey(users, key) = Reference(id, ref)
  <2>1. resolveUserKey(users, key)
          = Reference(resolveUserKey(users, key).id, resolveUserKey(users, key).ref)
    BY BoundOrNot
  <2>. QED
    BY <2>1 DEF Reference
<1>. QED
  BY <1>1, <1>2 DEF Binding, BoundKeys

LEMMA OverridesWin ==
    ASSUME NEW users \in Seq(UserType), NEW cfg, IsCfg(cfg)
    PROVE  /\ overrides(users, cfg) \in Owns
           /\ \A id \in ToSet(Spellings) : Wins(users, cfg, overrides(users, cfg), id)
<1>. DEFINE a == Applied(users, cfg, {"cfgKey"}, <<>>)
            b == Applied(users, cfg, {"name"}, a)
            c == Applied(users, cfg, {"exactID"}, b)
            over(own, others, ref) == Overlaid(own, others, users, cfg, {ref}, ToSet(Spellings))
<1>1. overrides(users, cfg) = c
  BY DEF overrides
<1>2. <<>> \in Owns
  <2>1. <<>> \in [{} -> Seq(ToSet(AllTiers))]
    OBVIOUS
  <2>. QED
    BY <2>1 DEF Owns
<1>3. /\ {"cfgKey"} \in SUBSET Bindings /\ {"name"} \in SUBSET Bindings
      /\ {"exactID"} \in SUBSET Bindings
  BY DEF Bindings
<1>4. a \in Owns /\ over(a, <<>>, "cfgKey")
  BY <1>2, <1>3, AppliedOverlays
<1>. HIDE DEF a
<1>5. b \in Owns /\ over(b, a, "name")
  BY <1>3, <1>4, AppliedOverlays
<1>. HIDE DEF b
<1>6. c \in Owns /\ over(c, b, "exactID")
  BY <1>3, <1>5, AppliedOverlays
<1>. HIDE DEF c
<1>7. ASSUME NEW id \in ToSet(Spellings)
      PROVE  Wins(users, cfg, c, id)
  <2>. DEFINE keys(ref) == BoundKeys(users, cfg, id, ref)
  <2>1. ASSUME NEW own, NEW others, NEW ref \in Bindings, over(own, others, ref)
        PROVE  /\ keys(ref) = {} => /\ id \in DOMAIN own <=> id \in DOMAIN others
                                    /\ id \in DOMAIN own => own[id] = others[id]
               /\ keys(ref) # {} => /\ id \in DOMAIN own
                                    /\ \E key \in keys(ref) : own[id] = cfg.Override[key]
    BY <2>1, KeysBind DEF Overlaid
  <2>2. \A key \in keys("exactID") : key = id
    BY BoundOrNot DEF BoundKeys, Reference
  <2>3. id \notin DOMAIN <<>>
    OBVIOUS
  <2>. HIDE DEF over, keys
  <2>4. /\ keys("cfgKey") = {} => id \notin DOMAIN a
        /\ keys("cfgKey") # {} => /\ id \in DOMAIN a
                                  /\ \E key \in keys("cfgKey") : a[id] = cfg.Override[key]
    BY <1>4, <2>1, <2>3 DEF Bindings
  <2>5. /\ keys("name") = {} => /\ id \in DOMAIN b <=> id \in DOMAIN a
                                /\ id \in DOMAIN b => b[id] = a[id]
        /\ keys("name") # {} => /\ id \in DOMAIN b
                                /\ \E key \in keys("name") : b[id] = cfg.Override[key]
    BY <1>5, <2>1 DEF Bindings
  <2>6. /\ keys("exactID") = {} => /\ id \in DOMAIN c <=> id \in DOMAIN b
                                   /\ id \in DOMAIN c => c[id] = b[id]
        /\ keys("exactID") # {} => id \in DOMAIN c /\ c[id] = cfg.Override[id]
    BY <1>6, <2>1, <2>2 DEF Bindings
  <2>. QED
    BY <2>4, <2>5, <2>6 DEF Wins, keys
<1>. QED
  BY <1>1, <1>6, <1>7

-----------------------------------------------------------------------------
(***************************************************************************)
(* Ranks.                                                                  *)
(***************************************************************************)
LEMMA MinIsLeast ==
    ASSUME NEW T, T \subseteq Nat, T # {}
    PROVE  Min(T) \in T /\ \A n \in T : Min(T) <= n
<1>1. \E m \in T : \A n \in T : m <= n
  BY LeastNat
<1>. QED
  BY <1>1 DEF Min

\* So many users, with the ranks from zero up.
IsRanking(ranks) ==
    /\ IsFiniteSet(DOMAIN ranks)
    /\ {ranks[id] : id \in DOMAIN ranks} = 0 .. (Cardinality(DOMAIN ranks) - 1)

Rankings == {ranks \in UNION {[S -> Nat] : S \in SUBSET ToSet(Spellings)} : IsRanking(ranks)}

Named(users, list, id) == {i \in DOMAIN list : resolveUserKey(users, list[i]).id = id}

First(users, list, id) == Min(Named(users, list, id))

\* Enrolled by the first k names of the list, in the order of the list.
Enrolled(ranks, users, list, k) ==
    /\ DOMAIN ranks = {resolveUserKey(users, list[i]).id : i \in 1 .. k} \ {NoUser}
    /\ \A id, other \in DOMAIN ranks :
          First(users, list, id) < First(users, list, other) => ranks[id] < ranks[other]

LEMMA RankingsAreRankings ==
    ASSUME NEW ranks
    PROVE  ranks \in Rankings <=> /\ ranks = [id \in DOMAIN ranks |-> ranks[id]]
                                  /\ DOMAIN ranks \subseteq ToSet(Spellings)
                                  /\ \A id \in DOMAIN ranks : ranks[id] \in Nat
                                  /\ IsRanking(ranks)
  BY DEF Rankings

LEMMA NobodyRanked == <<>> \in Rankings /\ DOMAIN <<>> = {}
<1>1. <<>> \in [{} -> Nat] /\ DOMAIN <<>> = {}
  OBVIOUS
<1>2. IsRanking(<<>>)
  <2>1. {<<>>[id] : id \in {}} = {} /\ 0 .. (0 - 1) = {}
    OBVIOUS
  <2>. QED
    BY <1>1, <2>1, FS_EmptySet DEF IsRanking
<1>. QED
  BY <1>1, <1>2 DEF Rankings

LEMMA OneMoreRank ==
    ASSUME NEW ranks \in Rankings, NEW id \in ToSet(Spellings), id \notin DOMAIN ranks
    PROVE  LET new == put(ranks, id, Cardinality(DOMAIN ranks))
           IN  /\ new \in Rankings /\ DOMAIN new = DOMAIN ranks \cup {id}
               /\ \A other \in DOMAIN ranks : new[other] = ranks[other] /\ new[other] < new[id]
<1>. DEFINE card == Cardinality(DOMAIN ranks)
            new  == put(ranks, id, card)
            D    == DOMAIN ranks
<1>1. /\ D \subseteq ToSet(Spellings) /\ \A other \in D : ranks[other] \in Nat
      /\ IsFiniteSet(D) /\ {ranks[other] : other \in D} = 0 .. (card - 1)
  BY RankingsAreRankings DEF IsRanking
<1>2. card \in Nat
  BY <1>1, FS_CardinalityType
<1>3. IsFiniteSet(D \cup {id}) /\ Cardinality(D \cup {id}) = card + 1
  BY <1>1, FS_AddElement
<1>4. new = [k \in D \cup {id} |-> IF k = id THEN card ELSE ranks[k]]
  BY DEF put
<1>. HIDE DEF card, new, D
<1>5. /\ DOMAIN new = D \cup {id} /\ new[id] = card
      /\ \A other \in D : new[other] = ranks[other]
      /\ new = [k \in DOMAIN new |-> new[k]]
  <2>1. id \notin D
    BY DEF D
  <2>. QED
    BY <1>4, <2>1
<1>6. \A other \in D : ranks[other] \in 0 .. (card - 1)
  BY <1>1
<1>7. {new[k] : k \in D \cup {id}} = 0 .. ((card + 1) - 1)
  <2>1. {new[k] : k \in D \cup {id}} = {ranks[other] : other \in D} \cup {card}
    BY <1>5
  <2>. QED
    BY <1>1, <1>2, <2>1
<1>8. new \in Rankings
  <2>1. IsRanking(new)
    BY <1>3, <1>5, <1>7 DEF IsRanking
  <2>. QED
    BY <1>1, <1>2, <1>5, <2>1, RankingsAreRankings
<1>9. \A other \in D : new[other] = ranks[other] /\ new[other] < new[id]
  BY <1>1, <1>2, <1>5, <1>6
<1>. QED
  BY <1>5, <1>8, <1>9 DEF new, card, D

\* One more name of the list.
LEMMA OneMoreName ==
    ASSUME NEW users \in Seq(UserType), NEW list \in Seq(ToSet(Spellings)),
           NEW k \in 0 .. (Len(list) - 1),
           NEW ranks \in Rankings, Enrolled(ranks, users, list, k)
    PROVE  Enrolled(assign(ranks, resolveUserKey(users, list[k + 1]).id), users, list, k + 1)
<1>. DEFINE bound(i) == resolveUserKey(users, list[i]).id
            first(id) == First(users, list, id)
            id  == bound(k + 1)
            new == assign(ranks, id)
            met(n) == {bound(i) : i \in 1 .. n} \ {NoUser}
<1>0. k \in Nat /\ k + 1 \in DOMAIN list /\ DOMAIN list = 1 .. Len(list) /\ Len(list) \in Nat
  OBVIOUS
<1>1. met(k + 1) = met(k) \cup ({id} \ {NoUser})
  <2>1. 1 .. (k + 1) = (1 .. k) \cup {k + 1}
    BY <1>0
  <2>2. {bound(i) : i \in 1 .. (k + 1)} = {bound(i) : i \in 1 .. k} \cup {id}
    <3>. HIDE DEF bound
    <3>. QED
      BY <2>1
  <2>. HIDE DEF bound
  <2>. QED
    BY <2>2
<1>2. /\ DOMAIN ranks = met(k)
      /\ \A one, other \in DOMAIN ranks : first(one) < first(other) => ranks[one] < ranks[other]
  BY DEF Enrolled
<1>3. ASSUME NEW one \in met(k) PROVE first(one) \in 1 .. k
  <2>1. PICK i \in 1 .. k : bound(i) = one
    BY <1>3
  <2>2. i \in Named(users, list, one)
    BY <1>0, <2>1 DEF Named
  <2>3. Named(users, list, one) \subseteq DOMAIN list /\ Named(users, list, one) \subseteq Nat
    BY <1>0 DEF Named
  <2>. DEFINE T == Named(users, list, one)
  <2>. HIDE DEF T
  <2>4. Min(T) \in T /\ Min(T) <= i
    BY <2>2, <2>3, MinIsLeast DEF T
  <2>. QED
    BY <1>0, <2>3, <2>4 DEF First, T
<1>4. ASSUME id \notin DOMAIN ranks, id # NoUser
      PROVE  first(id) = k + 1
  <2>1. Named(users, list, id) \subseteq DOMAIN list /\ k + 1 \in Named(users, list, id)
    BY <1>0 DEF Named
  <2>2. \A i \in Named(users, list, id) : i \notin 1 .. k
    <3>1. \A i \in 1 .. k : bound(i) # id
      BY <1>2, <1>4
    <3>. QED
      BY <3>1 DEF Named
  <2>. DEFINE T == Named(users, list, id)
  <2>. HIDE DEF T
  <2>3. T \subseteq Nat /\ T # {}
    BY <1>0, <2>1 DEF T
  <2>4. Min(T) \in T /\ Min(T) <= k + 1
    BY <2>1, <2>3, MinIsLeast DEF T
  <2>5. Min(T) = k + 1
    BY <1>0, <2>1, <2>2, <2>4 DEF T
  <2>. QED
    BY <2>5 DEF First, T
<1>5. CASE id = NoUser \/ id \in DOMAIN ranks
  <2>1. new = ranks /\ met(k + 1) = met(k)
    BY <1>1, <1>2, <1>5 DEF assign
  <2>. QED
    BY <1>2, <2>1 DEF Enrolled
<1>6. CASE id # NoUser /\ id \notin DOMAIN ranks
  <2>1. id \in ToSet(Spellings)
    BY <1>6, BoundOrNot, UsersAreSpelled
  <2>2. new = put(ranks, id, Cardinality(DOMAIN ranks))
    BY <1>6 DEF assign
  <2>. HIDE DEF id, bound, first
  <2>3. /\ DOMAIN new = DOMAIN ranks \cup {id}
        /\ \A other \in DOMAIN ranks : new[other] = ranks[other] /\ new[other] < new[id]
    BY <1>6, <2>1, <2>2, OneMoreRank
  <2>. HIDE DEF new, met
  <2>4. first(id) = k + 1
    BY <1>4, <1>6
  <2>5. \A one, other \in DOMAIN new : first(one) < first(other) => new[one] < new[other]
    <3>. SUFFICES ASSUME NEW one \in DOMAIN new, NEW other \in DOMAIN new, first(one) < first(other)
                  PROVE  new[one] < new[other]
      OBVIOUS
    <3>1. CASE one \in DOMAIN ranks /\ other \in DOMAIN ranks
      BY <1>2, <2>3, <3>1
    <3>2. CASE one \in DOMAIN ranks /\ other = id
      BY <2>3, <3>2
    <3>3. CASE one = id /\ other \in DOMAIN ranks
      <4>1. first(other) \in 1 .. k
        BY <1>2, <1>3, <3>3
      <4>. QED
        BY <1>0, <2>4, <3>3, <4>1
    <3>4. CASE one = id /\ other = id
      BY <1>0, <2>4, <3>4
    <3>. QED
      BY <2>3, <3>1, <3>2, <3>3, <3>4
  <2>6. DOMAIN new = met(k + 1)
    BY <1>1, <1>2, <1>6, <2>3
  <2>. QED
    BY <2>5, <2>6 DEF Enrolled, new, met, id, bound, first
<1>. QED
  BY <1>5, <1>6

LEMMA ListIsEnrolled ==
    ASSUME NEW users \in Seq(UserType), NEW cfg, IsCfg(cfg), cfg.Enabled # <<>>
    PROVE  /\ UserRank(users, cfg) \in Rankings
           /\ Enrolled(UserRank(users, cfg), users, cfg.Enabled, Len(cfg.Enabled))
<1>. DEFINE Word           == ToSet(Spellings)
            op(ranks, key) == assign(ranks, resolveUserKey(users, key).id)
            step           == [p \in Rankings \X Word |-> op(p[1], p[2])]
            list           == cfg.Enabled
            Solves(iter)   == iter = [S \in SUBSET DOMAIN list |->
                                        IF S = {} THEN <<>> ELSE op(iter[S \ {Max(S)}], list[Max(S)])]
            it == CHOOSE iter : Solves(iter)
            n  == Len(list)
<1>0. list \in Seq(Word) /\ n \in Nat /\ DOMAIN list = 1 .. n
  BY DEF IsCfg
<1>1. UserRank(users, cfg) = it[DOMAIN list]
  BY DEF UserRank, FoldLeft, MapThenFoldSet
<1>2. ASSUME NEW ranks \in Rankings, NEW key \in Word
      PROVE  op(ranks, key) \in Rankings
  <2>. DEFINE id == resolveUserKey(users, key).id
  <2>1. id # NoUser => id \in Word
    BY BoundOrNot, UsersAreSpelled
  <2>. HIDE DEF id
  <2>2. assign(ranks, id) \in Rankings
    BY <2>1, OneMoreRank DEF assign
  <2>. QED
    BY <2>2 DEF id
<1>3. /\ step \in [Rankings \X Word -> Rankings]
      /\ \A ranks \in Rankings, key \in Word : step[<<ranks, key>>] = op(ranks, key)
  <2>. HIDE DEF op
  <2>. QED
    BY <1>2
<1>4. ASSUME NEW k \in 0 .. (n - 1), NEW ranks \in Rankings, Enrolled(ranks, users, list, k)
      PROVE  Enrolled(op(ranks, list[k + 1]), users, list, k + 1)
  BY <1>0, <1>4, OneMoreName
<1>. HIDE DEF step, op, Word, list
<1>5. Solves(it)
  <2>1. PICK iter : Iterates(iter, <<>>, step, list) /\ Stays(iter, Rankings, Word, list)
    BY <1>0, <1>3, NobodyRanked, LoopRuns
  <2>2. Solves(iter)
    BY <1>3, <2>1 DEF Iterates, Stays
  <2>. QED
    BY <2>2
<1>. HIDE DEF it
<1>6. Follows(it, Rankings, step, list)
  <2>. SUFFICES ASSUME NEW k \in 1 .. n, it[1 .. (k - 1)] \in Rankings
                PROVE  it[1 .. k] = step[<<it[1 .. (k - 1)], list[k]>>]
    BY DEF Follows
  <2>1. /\ Max(1 .. k) = k /\ (1 .. k) \ {k} = 1 .. (k - 1)
        /\ 1 .. k # {} /\ 1 .. k \in SUBSET DOMAIN list
    BY <1>0, Beginning
  <2>2. it[1 .. k] = op(it[1 .. (k - 1)], list[k])
    BY <1>5, <2>1
  <2>3. list[k] \in Word
    BY <1>0
  <2>. HIDE DEF Solves
  <2>. QED
    BY <1>3, <2>2, <2>3
<1>7. it[{}] = <<>>
  BY <1>5
<1>. HIDE DEF Solves
<1>8. Runs(Along(it, list), Rankings, <<>>, step, list)
  BY <1>0, <1>3, <1>6, <1>7, NobodyRanked, LoopValues
<1>. DEFINE run == Along(it, list)
<1>9. /\ run \in [0 .. n -> Rankings] /\ run[0] = <<>>
      /\ \A k \in 1 .. n : run[k] = op(run[k - 1], list[k])
  <2>1. /\ run \in [0 .. n -> Rankings] /\ run[0] = <<>>
        /\ \A k \in 1 .. n : run[k] = step[<<run[k - 1], list[k]>>]
    BY <1>8 DEF Runs
  <2>. HIDE DEF run
  <2>2. \A k \in 1 .. n : run[k - 1] \in Rankings /\ list[k] \in Word
    BY <1>0, <2>1
  <2>. QED
    BY <1>3, <2>1, <2>2
<1>10. UserRank(users, cfg) = run[n]
  BY <1>0, <1>1 DEF Along
<1>. DEFINE P == {k \in 0 .. n : Enrolled(run[k], users, list, k)}
<1>. HIDE DEF run
<1>11. 0 \in P
  <2>1. {resolveUserKey(users, list[i]).id : i \in 1 .. 0} = {}
    OBVIOUS
  <2>2. Enrolled(run[0], users, list, 0)
    BY <1>9, <2>1, NobodyRanked DEF Enrolled
  <2>. QED
    BY <1>0, <2>2
<1>12. ASSUME NEW k \in 0 .. (n - 1), k \in P PROVE k + 1 \in P
  <2>1. k + 1 \in 1 .. n /\ (k + 1) - 1 = k /\ k \in 0 .. n
    BY <1>0
  <2>2. Enrolled(run[k], users, list, k) /\ run[k] \in Rankings
    BY <1>9, <1>12, <2>1
  <2>3. run[k + 1] = op(run[k], list[k + 1])
    BY <1>9, <2>1
  <2>4. Enrolled(run[k + 1], users, list, k + 1)
    BY <1>4, <2>2, <2>3
  <2>. QED
    BY <1>0, <2>1, <2>4
<1>13. n \in P
  <2>. HIDE DEF P, n
  <2>1. 0 .. n \subseteq P
    BY <1>0, <1>11, <1>12, UpTo
  <2>. QED
    BY <1>0, <2>1
<1>. QED
  BY <1>0, <1>9, <1>10, <1>13 DEF list

LEMMA EverybodyIsRanked ==
    ASSUME NEW users \in Seq(UserType), NEW cfg, IsCfg(cfg)
    PROVE  /\ DOMAIN UserRank(users, cfg) \subseteq ToSet(Spellings)
           /\ \A id \in DOMAIN UserRank(users, cfg) : UserRank(users, cfg)[id] \in Nat
<1>1. CASE cfg.Enabled = <<>>
  <2>1. UserRank(users, cfg) = [id \in IDs(users) |-> 0]
    BY <1>1 DEF UserRank
  <2>. QED
    BY <2>1, UsersAreSpelled
<1>2. CASE cfg.Enabled # <<>>
  BY <1>2, ListIsEnrolled, RankingsAreRankings
<1>. QED
  BY <1>1, <1>2

-----------------------------------------------------------------------------
(***************************************************************************)
(* Orders and slots.                                                       *)
(***************************************************************************)
LEMMA Tiers ==
    /\ ToSet(AllTiers) = {"resume", "next-up", "recently-added", "binge-ahead"}
    /\ ToSet(DefaultTierOrder) = {"resume", "next-up", "recently-added"}
  BY DEF ToSet, AllTiers, DefaultTierOrder

LEMMA PartsOfAList ==
    ASSUME NEW S, NEW s \in Seq(S), NEW t \in Seq(S)
    PROVE  /\ s \o t \in Seq(S) /\ Len(s \o t) = Len(s) + Len(t)
           /\ ToSet(s \o t) = ToSet(s) \cup ToSet(t)
<1>0. Len(s \o t) = Len(s) + Len(t)
  OBVIOUS
<1>1. /\ s \o t \in Seq(S) /\ Len(s) \in Nat /\ Len(t) \in Nat
      /\ DOMAIN (s \o t) = 1 .. (Len(s) + Len(t))
      /\ DOMAIN s = 1 .. Len(s) /\ DOMAIN t = 1 .. Len(t)
  OBVIOUS
<1>2. /\ \A i \in DOMAIN s : i \in DOMAIN (s \o t) /\ (s \o t)[i] = s[i]
      /\ \A i \in DOMAIN t : i + Len(s) \in DOMAIN (s \o t) /\ (s \o t)[i + Len(s)] = t[i]
  BY <1>1
<1>3. ASSUME NEW i \in DOMAIN (s \o t)
      PROVE  \/ i \in DOMAIN s /\ (s \o t)[i] = s[i]
             \/ i - Len(s) \in DOMAIN t /\ (s \o t)[i] = t[i - Len(s)]
  BY <1>1
<1>4. \A x \in ToSet(s) \cup ToSet(t) : x \in ToSet(s \o t)
  BY <1>2 DEF ToSet
<1>5. \A x \in ToSet(s \o t) : x \in ToSet(s) \cup ToSet(t)
  BY <1>3 DEF ToSet
<1>. QED
  BY <1>0, <1>1, <1>4, <1>5

\* inOrder lists the tiers it is given, and nothing else.
LEMMA InOrderLists ==
    ASSUME NEW on
    PROVE  /\ inOrder(on) \in Seq(ToSet(AllTiers))
           /\ ToSet(inOrder(on)) = on \cap ToSet(AllTiers)
<1>. DEFINE one(t) == IF t \in on THEN <<t>> ELSE <<>>
            a == one("resume")
            b == a \o one("next-up")
            c == b \o one("recently-added")
            d == c \o one("binge-ahead")
<1>1. ASSUME NEW t \in ToSet(AllTiers)
      PROVE  one(t) \in Seq(ToSet(AllTiers)) /\ ToSet(one(t)) = on \cap {t}
  <2>1. ToSet(<<t>>) = {t} /\ ToSet(<<>>) = {}
    BY DEF ToSet
  <2>. QED
    BY <2>1
<1>2. inOrder(on) = d
  BY DEF inOrder
<1>. HIDE DEF one
<1>3. a \in Seq(ToSet(AllTiers)) /\ ToSet(a) = on \cap {"resume"}
  BY <1>1, Tiers
<1>. HIDE DEF a
<1>4. b \in Seq(ToSet(AllTiers)) /\ ToSet(b) = on \cap {"resume", "next-up"}
  <2>1. one("next-up") \in Seq(ToSet(AllTiers)) /\ ToSet(one("next-up")) = on \cap {"next-up"}
    BY <1>1, Tiers
  <2>2. b \in Seq(ToSet(AllTiers)) /\ ToSet(b) = ToSet(a) \cup ToSet(one("next-up"))
    BY <1>3, <2>1, PartsOfAList
  <2>. QED
    BY <1>3, <2>1, <2>2
<1>. HIDE DEF b
<1>5. c \in Seq(ToSet(AllTiers)) /\ ToSet(c) = on \cap {"resume", "next-up", "recently-added"}
  <2>1. /\ one("recently-added") \in Seq(ToSet(AllTiers))
        /\ ToSet(one("recently-added")) = on \cap {"recently-added"}
    BY <1>1, Tiers
  <2>2. c \in Seq(ToSet(AllTiers)) /\ ToSet(c) = ToSet(b) \cup ToSet(one("recently-added"))
    BY <1>4, <2>1, PartsOfAList
  <2>. QED
    BY <1>4, <2>1, <2>2
<1>. HIDE DEF c
<1>6. d \in Seq(ToSet(AllTiers)) /\ ToSet(d) = on \cap ToSet(AllTiers)
  <2>1. /\ one("binge-ahead") \in Seq(ToSet(AllTiers))
        /\ ToSet(one("binge-ahead")) = on \cap {"binge-ahead"}
    BY <1>1, Tiers
  <2>2. d \in Seq(ToSet(AllTiers)) /\ ToSet(d) = ToSet(c) \cup ToSet(one("binge-ahead"))
    BY <1>5, <2>1, PartsOfAList
  <2>. QED
    BY <1>5, <2>1, <2>2, Tiers
<1>. QED
  BY <1>2, <1>6

LEMMA Positions ==
    ASSUME NEW order \in Seq(ToSet(AllTiers))
    PROVE  /\ DOMAIN tierPositions(order) = ToSet(order)
           /\ \A t \in ToSet(order) : tierPositions(order)[t] \in Nat
<1>1. DOMAIN order \subseteq Nat \ {0}
  OBVIOUS
<1>2. ASSUME NEW t \in ToSet(order)
      PROVE  (CHOOSE i \in DOMAIN order : order[i] = t) \in DOMAIN order
  BY DEF ToSet
<1>3. ASSUME NEW t \in ToSet(order)
      PROVE  tierPositions(order)[t] \in Nat
  <2>. DEFINE at == CHOOSE i \in DOMAIN order : order[i] = t
  <2>1. tierPositions(order)[t] = at - 1
    BY DEF tierPositions
  <2>2. at \in Nat \ {0}
    BY <1>1, <1>2
  <2>. HIDE DEF at
  <2>. QED
    BY <2>1, <2>2
<1>. QED
  BY <1>3 DEF tierPositions

\* What each user who is ranked gets: slots that are those of its own order if
\* it has one, else of the global one.
LEMMA OrdersAreSlots ==
    ASSUME NEW users \in Seq(UserType), NEW cfg, IsCfg(cfg)
    PROVE  LET opt == ResolveRanks(users, cfg)
               own == overrides(users, cfg)
           IN  /\ DOMAIN opt.TierRank = DOMAIN opt.UserRank
               /\ opt.UserRank = UserRank(users, cfg)
               /\ globalOrder(cfg) \in Seq(ToSet(AllTiers))
               /\ \A id \in DOMAIN opt.TierRank :
                     /\ id \in ToSet(Spellings)
                     /\ id \in DOMAIN own => opt.TierRank[id] = tierPositions(own[id])
                     /\ id \notin DOMAIN own => opt.TierRank[id] = tierPositions(globalOrder(cfg))
                     /\ id \in DOMAIN own => own[id] \in Seq(ToSet(AllTiers))
<1>. DEFINE own   == overrides(users, cfg)
            ranks == UserRank(users, cfg)
            slots == [id \in DOMAIN ranks |->
                         tierPositions(IF id \in DOMAIN own THEN own[id] ELSE globalOrder(cfg))]
<1>1. ResolveRanks(users, cfg) = [UserRank |-> ranks, TierRank |-> slots]
  BY DEF ResolveRanks
<1>2. \A id \in DOMAIN own : own[id] \in Seq(ToSet(AllTiers))
  BY OverridesWin, OwnsAreOrders
<1>3. globalOrder(cfg) \in Seq(ToSet(AllTiers))
  <2>1. cfg.Order \in Seq(ToSet(AllTiers))
    BY DEF IsCfg, IsOrder
  <2>2. deriveLegacyOrder(cfg.Stated) \in Seq(ToSet(AllTiers))
    BY InOrderLists DEF deriveLegacyOrder
  <2>. QED
    BY <2>1, <2>2 DEF globalOrder
<1>4. DOMAIN ranks \subseteq ToSet(Spellings)
  BY EverybodyIsRanked
<1>5. \A id \in DOMAIN ranks :
         /\ id \in DOMAIN own => slots[id] = tierPositions(own[id])
         /\ id \notin DOMAIN own => slots[id] = tierPositions(globalOrder(cfg))
  OBVIOUS
<1>6. DOMAIN slots = DOMAIN ranks
  OBVIOUS
<1>. HIDE DEF slots, own, ranks
<1>. QED
  BY <1>1, <1>2, <1>3, <1>4, <1>5, <1>6 DEF own, ranks

-----------------------------------------------------------------------------
(***************************************************************************)
(* The configuration's priority, in every state that has it.               *)
(***************************************************************************)
ResolvedInv ==
    /\ call \in Calls
    /\ pc \in {"resolve", "dedupe", "sort", "done"}
    /\ Resolved => opts = ResolveRanks(call.users, call.cfg)

LEMMA ResolvedStep == ResolvedInv /\ [Next]_vars => ResolvedInv'
<1>. SUFFICES ASSUME ResolvedInv, [Next]_vars PROVE ResolvedInv'
  OBVIOUS
<1>. USE DEF ResolvedInv, Resolved
<1>1. CASE Resolve
  BY <1>1 DEF Resolve
<1>2. CASE Dedupe
  BY <1>2 DEF Dedupe, Ignore, Keep, Compare, Candidate
<1>3. CASE StartSort
  BY <1>3 DEF StartSort
<1>4. CASE Place
  BY <1>4 DEF Place
<1>5. CASE Finish
  BY <1>5 DEF Finish
<1>6. CASE UNCHANGED vars
  BY <1>6 DEF vars
<1>. QED
  BY <1>1, <1>2, <1>3, <1>4, <1>5, <1>6 DEF Next, Rank

\* The priority Rank goes by is what ResolveRanks made of the call's configuration.
THEOREM PriorityIsResolved == Spec => []ResolvedInv
<1>1. Init => ResolvedInv
  BY DEF Init, ResolvedInv, Resolved
<1>. QED
  BY <1>1, ResolvedStep, PTL DEF Spec

LEMMA CallsAreTyped ==
    ASSUME ResolvedInv
    PROVE  call.users \in Seq(UserType) /\ IsCfg(call.cfg)
  BY CallsAssumption DEF ResolvedInv

\* Whatever users the server lists and names the operator writes, nobody is bound
\* by a key that could as well mean somebody else.
THEOREM NoBystanderIsBound == Spec => []NoBystander
<1>1. ResolvedInv => NoBystander
  BY CallsAreTyped, NoBystanderIn DEF NoBystander
<1>. QED
  BY <1>1, PriorityIsResolved, PTL

\* Whatever keys bind to a user, and in whatever order they are sorted, the one
\* that binds most exactly decides.
THEOREM OverridesByStrength == Spec => []StrongestOverrideWins
<1>1. ASSUME ResolvedInv, Resolved, NEW id \in DOMAIN opts.TierRank
      PROVE  LET keys(ref) == {key \in DOMAIN call.cfg.Override :
                                 resolveUserKey(call.users, key) = Reference(id, ref)}
                 follows(key) == opts.TierRank[id] = tierPositions(call.cfg.Override[key])
             IN  IF keys("exactID") # {} THEN follows(id)
                 ELSE IF keys("name") # {} THEN \E key \in keys("name") : follows(key)
                 ELSE IF keys("cfgKey") # {} THEN \E key \in keys("cfgKey") : follows(key)
                 ELSE opts.TierRank[id] = tierPositions(globalOrder(call.cfg))
  <2>. DEFINE own == overrides(call.users, call.cfg)
              keys(ref) == {key \in DOMAIN call.cfg.Override :
                              resolveUserKey(call.users, key) = Reference(id, ref)}
  <2>1. opts = ResolveRanks(call.users, call.cfg)
    BY <1>1 DEF ResolvedInv
  <2>2. /\ id \in ToSet(Spellings)
        /\ id \in DOMAIN own => opts.TierRank[id] = tierPositions(own[id])
        /\ id \notin DOMAIN own => opts.TierRank[id] = tierPositions(globalOrder(call.cfg))
    BY <1>1, <2>1, CallsAreTyped, OrdersAreSlots
  <2>3. Wins(call.users, call.cfg, own, id)
    BY <1>1, <2>2, CallsAreTyped, OverridesWin
  <2>4. \A ref : BoundKeys(call.users, call.cfg, id, ref) = keys(ref)
    BY DEF BoundKeys
  <2>. HIDE DEF own, keys
  <2>5. IF keys("exactID") # {} THEN id \in DOMAIN own /\ own[id] = call.cfg.Override[id]
        ELSE IF keys("name") # {}
             THEN \E key \in keys("name") : id \in DOMAIN own /\ own[id] = call.cfg.Override[key]
        ELSE IF keys("cfgKey") # {}
             THEN \E key \in keys("cfgKey") : id \in DOMAIN own /\ own[id] = call.cfg.Override[key]
        ELSE id \notin DOMAIN own
    <3>1. /\ BoundKeys(call.users, call.cfg, id, "exactID") = keys("exactID")
          /\ BoundKeys(call.users, call.cfg, id, "name") = keys("name")
          /\ BoundKeys(call.users, call.cfg, id, "cfgKey") = keys("cfgKey")
      BY <2>4
    <3>. QED
      BY <2>3, <3>1 DEF Wins
  <2>6. IF keys("exactID") # {} THEN opts.TierRank[id] = tierPositions(call.cfg.Override[id])
        ELSE IF keys("name") # {}
             THEN \E key \in keys("name") : opts.TierRank[id] = tierPositions(call.cfg.Override[key])
        ELSE IF keys("cfgKey") # {}
             THEN \E key \in keys("cfgKey") : opts.TierRank[id] = tierPositions(call.cfg.Override[key])
        ELSE opts.TierRank[id] = tierPositions(globalOrder(call.cfg))
    BY <2>2, <2>5
  <2>. QED
    BY <2>6 DEF keys
<1>2. ResolvedInv => StrongestOverrideWins
  BY <1>1 DEF StrongestOverrideWins
<1>. QED
  BY <1>2, PriorityIsResolved, PTL

\* Whatever a list repeats, misspells or names twice, the users it enrols are
\* ranked without gaps or ties in the order in which it first means them.
THEOREM RanksAreTheOrder == Spec => []RanksFollowTheList
<1>1. ASSUME ResolvedInv, Resolved, call.cfg.Enabled # <<>>
      PROVE  LET enrolled == DOMAIN opts.UserRank
             IN  /\ {opts.UserRank[id] : id \in enrolled} = 0 .. (Cardinality(enrolled) - 1)
                 /\ \A id, other \in enrolled :
                      FirstMention(id) < FirstMention(other) => opts.UserRank[id] < opts.UserRank[other]
  <2>1. opts.UserRank = UserRank(call.users, call.cfg)
    BY <1>1, CallsAreTyped, OrdersAreSlots DEF ResolvedInv
  <2>. DEFINE ranks == UserRank(call.users, call.cfg)
  <2>. HIDE DEF ranks
  <2>2. /\ ranks \in Rankings
        /\ Enrolled(ranks, call.users, call.cfg.Enabled, Len(call.cfg.Enabled))
    BY <1>1, CallsAreTyped, ListIsEnrolled DEF ranks
  <2>3. {ranks[id] : id \in DOMAIN ranks} = 0 .. (Cardinality(DOMAIN ranks) - 1)
    BY <2>2, RankingsAreRankings DEF IsRanking
  <2>4. \A id : FirstMention(id) = First(call.users, call.cfg.Enabled, id)
    BY DEF FirstMention, First, Named
  <2>5. \A id, other \in DOMAIN ranks :
           FirstMention(id) < FirstMention(other) => ranks[id] < ranks[other]
    BY <2>2, <2>4 DEF Enrolled
  <2>. QED
    BY <2>1, <2>3, <2>5 DEF ranks
<1>2. ResolvedInv => RanksFollowTheList
  BY <1>1 DEF RanksFollowTheList
<1>. QED
  BY <1>2, PriorityIsResolved, PTL

\* The flags of an old file, without an order and without overrides, turn on for
\* every user exactly the tiers they mean.
THEOREM FlagsAreHonoured == Spec => []LegacyFlagsHonoured
<1>1. ASSUME ResolvedInv, Resolved, ~call.cfg.OrderDefined, DOMAIN call.cfg.Override = {},
             NEW id \in DOMAIN opts.TierRank, NEW t \in ToSet(AllTiers)
      PROVE  LET stated   == call.cfg.Stated
                 original == ToSet(DefaultTierOrder)
                 on       == t \in DOMAIN opts.TierRank[id]
             IN  IF t \in DOMAIN stated THEN on = stated[t]
                 ELSE on = (t \in original /\ ~\E s \in original \cap DOMAIN stated : stated[s])
  <2>. DEFINE own    == overrides(call.users, call.cfg)
              stated == call.cfg.Stated
  <2>1. /\ id \in ToSet(Spellings)
        /\ id \notin DOMAIN own => opts.TierRank[id] = tierPositions(globalOrder(call.cfg))
    BY <1>1, CallsAreTyped, OrdersAreSlots DEF ResolvedInv
  <2>2. Wins(call.users, call.cfg, own, id)
    BY <1>1, <2>1, CallsAreTyped, OverridesWin
  <2>3. \A ref : BoundKeys(call.users, call.cfg, id, ref) = {}
    BY <1>1 DEF BoundKeys
  <2>4. id \notin DOMAIN own
    BY <2>2, <2>3 DEF Wins
  <2>5. globalOrder(call.cfg) = deriveLegacyOrder(stated)
    BY <1>1 DEF globalOrder
  <2>6. deriveLegacyOrder(stated) \in Seq(ToSet(AllTiers))
    BY InOrderLists DEF deriveLegacyOrder
  <2>7. DOMAIN opts.TierRank[id] = ToSet(deriveLegacyOrder(stated))
    BY <2>1, <2>4, <2>5, <2>6, Positions
  <2>8. \A s \in DOMAIN stated : stated[s] \in BOOLEAN
    BY <1>1, CallsAreTyped DEF IsCfg
  <2>. HIDE DEF stated
  <2>. DEFINE original == DOMAIN stated \cap ToSet(DefaultTierOrder)
              allowed  == {s \in original : stated[s]}
              binge    == {s \in DOMAIN stated \cap {"binge-ahead"} : stated[s]}
              on       == (IF allowed # {} THEN allowed ELSE ToSet(DefaultTierOrder) \ original)
                            \cup binge
  <2>9. ToSet(deriveLegacyOrder(stated)) = on \cap ToSet(AllTiers)
    BY InOrderLists DEF deriveLegacyOrder
  <2>10. t \in DOMAIN stated => (t \in on <=> stated[t])
    BY <2>8, Tiers
  <2>11. t \notin DOMAIN stated =>
            (t \in on <=> /\ t \in ToSet(DefaultTierOrder)
                          /\ ~\E s \in ToSet(DefaultTierOrder) \cap DOMAIN stated : stated[s])
    BY <2>8, Tiers
  <2>12. t \in DOMAIN opts.TierRank[id] <=> t \in on
    BY <2>7, <2>9
  <2>. HIDE DEF on
  <2>. QED
    BY <2>8, <2>10, <2>11, <2>12 DEF stated
<1>2. ResolvedInv => LegacyFlagsHonoured
  BY <1>1 DEF LegacyFlagsHonoured
<1>. QED
  BY <1>2, PriorityIsResolved, PTL

-----------------------------------------------------------------------------
(***************************************************************************)
(* The best claim.                                                         *)
(***************************************************************************)
\* No claim for an item is better than the one that is kept.
Unbeaten(c, d) == slot(c) < slot(d) \/ (slot(c) = slot(d) /\ rank(c) <= rank(d))

Complete(kept, claims) ==
    {c.Item.ID : c \in ToSet(kept)} = {c.Item.ID : c \in {d \in ToSet(claims) : Ranked(d)}}

OnePerItem(kept) == \A i, j \in DOMAIN kept : kept[i].Item.ID = kept[j].Item.ID => i = j

AllUnbeaten(kept, claims) ==
    \A c \in ToSet(kept) : /\ Ranked(c)
                           /\ \A d \in ToSet(claims) :
                                 Ranked(d) /\ d.Item.ID = c.Item.ID => Unbeaten(c, d)

Claimed(kept, claims) ==
    Complete(kept, claims) /\ OnePerItem(kept) /\ AllUnbeaten(kept, claims)

ClaimInv ==
    /\ listed \in Seq(call.pool) /\ best \in Seq(call.pool)
    /\ ~Resolved => listed = <<>> /\ best = <<>>
    /\ Resolved => Claimed(best, listed)

LEMMA NumbersOfClaims ==
    ASSUME ResolvedInv, Resolved, NEW c, slotted(c)
    PROVE  slot(c) \in Nat /\ rank(c) \in Nat
<1>. DEFINE id  == c.Item.UserID
            own == overrides(call.users, call.cfg)
<1>1. opts = ResolveRanks(call.users, call.cfg)
  BY DEF ResolvedInv
<1>2. id \in DOMAIN opts.TierRank /\ c.Tier \in DOMAIN opts.TierRank[id]
  BY DEF slotted
<1>3. opts.UserRank[id] \in Nat
  BY <1>1, <1>2, CallsAreTyped, OrdersAreSlots, EverybodyIsRanked
<1>4. \E order \in Seq(ToSet(AllTiers)) : opts.TierRank[id] = tierPositions(order)
  BY <1>1, <1>2, CallsAreTyped, OrdersAreSlots
<1>5. opts.TierRank[id][c.Tier] \in Nat
  BY <1>2, <1>4, Positions
<1>. QED
  BY <1>3, <1>5 DEF slot, rank

LEMMA OneMoreElement ==
    ASSUME NEW S, NEW s \in Seq(S), NEW x \in S
    PROVE  /\ Append(s, x) \in Seq(S) /\ ToSet(Append(s, x)) = ToSet(s) \cup {x}
           /\ DOMAIN Append(s, x) = DOMAIN s \cup {Len(s) + 1} /\ Len(s) + 1 \notin DOMAIN s
           /\ Append(s, x)[Len(s) + 1] = x /\ \A i \in DOMAIN s : Append(s, x)[i] = s[i]
<1>1. /\ Append(s, x) \in Seq(S) /\ Len(s) \in Nat
      /\ DOMAIN Append(s, x) = 1 .. (Len(s) + 1) /\ DOMAIN s = 1 .. Len(s)
      /\ Append(s, x)[Len(s) + 1] = x /\ \A i \in DOMAIN s : Append(s, x)[i] = s[i]
  OBVIOUS
<1>2. 1 .. (Len(s) + 1) = (1 .. Len(s)) \cup {Len(s) + 1} /\ Len(s) + 1 \notin 1 .. Len(s)
  BY <1>1
<1>. QED
  BY <1>1, <1>2 DEF ToSet

LEMMA OneOtherElement ==
    ASSUME NEW S, NEW s \in Seq(S), NEW x \in S, NEW i \in DOMAIN s
    PROVE  LET new == [s EXCEPT ![i] = x]
           IN  /\ new \in Seq(S) /\ DOMAIN new = DOMAIN s /\ new[i] = x
               /\ \A j \in DOMAIN s : j # i => new[j] = s[j]
               /\ x \in ToSet(new) /\ ToSet(new) \subseteq ToSet(s) \cup {x}
  BY DEF ToSet

\* The three things the loop does with a candidate.
LEMMA IgnoredClaim ==
    ASSUME NEW kept, NEW claims \in Seq(call.pool), NEW c \in call.pool,
           Claimed(kept, claims), ~Ranked(c)
    PROVE  Claimed(kept, Append(claims, c))
<1>1. ToSet(Append(claims, c)) = ToSet(claims) \cup {c}
  BY OneMoreElement
<1>. QED
  BY <1>1 DEF Claimed, Complete, OnePerItem, AllUnbeaten

LEMMA NewClaim ==
    ASSUME ResolvedInv, Resolved,
           NEW kept \in Seq(call.pool), NEW claims \in Seq(call.pool), NEW c \in call.pool,
           Claimed(kept, claims), Ranked(c), \A i \in DOMAIN kept : kept[i].Item.ID # c.Item.ID
    PROVE  Claimed(Append(kept, c), Append(claims, c))
<1>. DEFINE more == Append(kept, c)
<1>1. ToSet(Append(claims, c)) = ToSet(claims) \cup {c}
  BY OneMoreElement
<1>2. /\ ToSet(more) = ToSet(kept) \cup {c}
      /\ DOMAIN more = DOMAIN kept \cup {Len(kept) + 1}
      /\ more[Len(kept) + 1] = c /\ \A i \in DOMAIN kept : more[i] = kept[i]
  BY OneMoreElement
<1>3. \A d \in ToSet(kept) : d.Item.ID # c.Item.ID
  BY DEF ToSet
<1>4. \A d \in ToSet(claims) : Ranked(d) => d.Item.ID # c.Item.ID
  BY <1>3 DEF Claimed, Complete
<1>5. Unbeaten(c, c)
  BY NumbersOfClaims DEF Unbeaten, Ranked
<1>. HIDE DEF more
<1>6. Complete(more, Append(claims, c))
  <2>1. {d.Item.ID : d \in ToSet(more)} = {d.Item.ID : d \in ToSet(kept)} \cup {c.Item.ID}
    BY <1>2
  <2>2. {d.Item.ID : d \in {e \in ToSet(Append(claims, c)) : Ranked(e)}}
          = {d.Item.ID : d \in {e \in ToSet(claims) : Ranked(e)}} \cup {c.Item.ID}
    BY <1>1
  <2>. QED
    BY <2>1, <2>2 DEF Claimed, Complete
<1>7. OnePerItem(more)
  BY <1>2 DEF Claimed, OnePerItem
<1>8. AllUnbeaten(more, Append(claims, c))
  BY <1>1, <1>2, <1>3, <1>4, <1>5 DEF Claimed, AllUnbeaten
<1>. QED
  BY <1>6, <1>7, <1>8 DEF Claimed, more

LEMMA BetterClaim ==
    ASSUME ResolvedInv, Resolved,
           NEW kept \in Seq(call.pool), NEW claims \in Seq(call.pool), NEW c \in call.pool,
           Claimed(kept, claims), Ranked(c),
           NEW i \in DOMAIN kept, kept[i].Item.ID = c.Item.ID
    PROVE  Claimed(IF better(c, kept[i]) THEN [kept EXCEPT ![i] = c] ELSE kept, Append(claims, c))
<1>. DEFINE b == kept[i]
<1>1. ToSet(Append(claims, c)) = ToSet(claims) \cup {c}
  BY OneMoreElement
<1>2. b \in ToSet(kept) /\ Ranked(b)
  BY DEF Claimed, AllUnbeaten, ToSet
<1>3. slot(c) \in Nat /\ rank(c) \in Nat /\ slot(b) \in Nat /\ rank(b) \in Nat
  BY <1>2, NumbersOfClaims DEF Ranked
<1>4. \A d \in ToSet(claims) : Ranked(d) /\ d.Item.ID = c.Item.ID =>
         Unbeaten(b, d) /\ slot(d) \in Nat /\ rank(d) \in Nat
  BY <1>2, NumbersOfClaims DEF Ranked, Claimed, AllUnbeaten
<1>5. \A j \in DOMAIN kept : j # i => kept[j].Item.ID # c.Item.ID
  BY DEF Claimed, OnePerItem
<1>6. CASE better(c, b)
  <2>. DEFINE new == [kept EXCEPT ![i] = c]
  <2>1. /\ DOMAIN new = DOMAIN kept /\ new[i] = c
        /\ \A j \in DOMAIN kept : j # i => new[j] = kept[j]
    BY OneOtherElement
  <2>. HIDE DEF new
  <2>2. \A j \in DOMAIN kept : new[j].Item.ID = kept[j].Item.ID
    BY <2>1
  <2>3. {d.Item.ID : d \in ToSet(new)} = {d.Item.ID : d \in ToSet(kept)}
    BY <2>1, <2>2 DEF ToSet
  <2>4. Complete(new, Append(claims, c))
    <3>1. c.Item.ID \in {d.Item.ID : d \in ToSet(kept)}
      BY <1>2
    <3>. QED
      BY <1>1, <2>3, <3>1 DEF Claimed, Complete
  <2>5. OnePerItem(new)
    BY <2>1, <2>2 DEF Claimed, OnePerItem
  <2>6. Unbeaten(c, c) /\ \A d \in ToSet(claims) : Ranked(d) /\ d.Item.ID = c.Item.ID => Unbeaten(c, d)
    <3>. HIDE DEF b
    <3>. QED
      BY <1>3, <1>4, <1>6 DEF Unbeaten, better
  <2>7. \A d \in ToSet(new) : d = c \/ (d \in ToSet(kept) /\ d.Item.ID # c.Item.ID)
    BY <1>5, <2>1 DEF ToSet
  <2>8. AllUnbeaten(new, Append(claims, c))
    BY <1>1, <2>6, <2>7 DEF Claimed, AllUnbeaten
  <2>. QED
    BY <1>6, <2>4, <2>5, <2>8 DEF Claimed, new
<1>7. CASE ~better(c, b)
  <2>1. Unbeaten(b, c)
    <3>. HIDE DEF b
    <3>. QED
      BY <1>3, <1>7 DEF Unbeaten, better
  <2>2. \A d \in ToSet(kept) : d.Item.ID = c.Item.ID => d = b
    BY <1>5 DEF ToSet
  <2>3. AllUnbeaten(kept, Append(claims, c))
    <3>. HIDE DEF b
    <3>. QED
      BY <1>1, <2>1, <2>2 DEF Claimed, AllUnbeaten
  <2>4. Complete(kept, Append(claims, c))
    <3>1. c.Item.ID \in {d.Item.ID : d \in ToSet(kept)}
      BY <1>2
    <3>. QED
      BY <1>1, <3>1 DEF Claimed, Complete
  <2>. QED
    BY <1>7, <2>3, <2>4 DEF Claimed
<1>. QED
  BY <1>6, <1>7

LEMMA ClaimInit == Init => ClaimInv
  BY DEF Init, ClaimInv, Resolved

LEMMA NothingClaimed == Claimed(<<>>, <<>>)
<1>1. ToSet(<<>>) = {} /\ DOMAIN <<>> = {}
  BY DEF ToSet
<1>. QED
  BY <1>1 DEF Claimed, Complete, OnePerItem, AllUnbeaten

LEMMA ClaimStep == ResolvedInv /\ ClaimInv /\ [Next]_vars => ClaimInv'
<1>. SUFFICES ASSUME ResolvedInv, ClaimInv, [Next]_vars PROVE ClaimInv'
  OBVIOUS
<1>1. CASE Resolve
  <2>1. listed = <<>> /\ best = <<>> /\ UNCHANGED <<listed, best, call>> /\ Resolved'
    BY <1>1 DEF Resolve, ClaimInv, Resolved
  <2>2. Claimed(<<>>, <<>>)'
    BY NothingClaimed DEF Claimed, Complete, OnePerItem, AllUnbeaten, ToSet
  <2>. QED
    BY <2>1, <2>2 DEF ClaimInv
<1>2. ASSUME NEW c \in call.pool, Ignore(c) \/ Keep(c) \/ Compare(c) PROVE ClaimInv'
  <2>1. /\ Resolved /\ Resolved' /\ UNCHANGED <<opts, call>>
        /\ listed' = Append(listed, c)
    BY <1>2 DEF Ignore, Keep, Compare, Candidate, Resolved
  <2>2. listed \in Seq(call.pool) /\ best \in Seq(call.pool) /\ Claimed(best, listed)
    BY <2>1 DEF ClaimInv
  <2>3. best' \in Seq(call.pool) /\ Claimed(best', listed')
    <3>1. CASE Ignore(c)
      BY <2>1, <2>2, <3>1, IgnoredClaim DEF Ignore
    <3>2. CASE Keep(c)
      <4>1. Ranked(c) /\ best' = Append(best, c) /\ \A i \in DOMAIN best : best[i].Item.ID # c.Item.ID
        BY <3>2 DEF Keep, Held
      <4>. QED
        BY <2>1, <2>2, <4>1, NewClaim
    <3>3. CASE Compare(c)
      <4>1. PICK i \in Held(c) : best' = IF better(c, best[i]) THEN [best EXCEPT ![i] = c] ELSE best
        BY <3>3 DEF Compare
      <4>2. Ranked(c) /\ i \in DOMAIN best /\ best[i].Item.ID = c.Item.ID
        BY <3>3 DEF Compare, Held
      <4>3. Claimed(best', listed')
        BY <2>1, <2>2, <4>1, <4>2, BetterClaim
      <4>4. [best EXCEPT ![i] = c] \in Seq(call.pool)
        BY <2>2, <4>2, OneOtherElement
      <4>. QED
        BY <2>2, <4>1, <4>3, <4>4
    <3>. QED
      BY <1>2, <3>1, <3>2, <3>3
  <2>4. listed' \in Seq(call.pool)
    BY <2>1, <2>2
  <2>5. Claimed(best, listed)'
    <3>. DEFINE kept   == best'
                claims == listed'
    <3>. HIDE DEF kept, claims
    <3>1. Claimed(kept, claims)
      BY <2>3 DEF kept, claims
    <3>. QED
      BY <2>1, <3>1 DEF kept, claims, Claimed, Complete, OnePerItem, AllUnbeaten, Unbeaten,
                        Ranked, slotted, slot, rank
  <2>. QED
    BY <2>1, <2>3, <2>4, <2>5 DEF ClaimInv
<1>3. CASE StartSort \/ Place \/ Finish \/ UNCHANGED vars
  <2>1. UNCHANGED <<opts, call, listed, best>> /\ (Resolved' <=> Resolved)
    BY <1>3 DEF StartSort, Place, Finish, vars, Resolved
  <2>2. ASSUME Claimed(best, listed) PROVE Claimed(best, listed)'
    <3>. DEFINE kept   == best'
                claims == listed'
    <3>. HIDE DEF kept, claims
    <3>1. Claimed(kept, claims)
      BY <2>1, <2>2 DEF kept, claims
    <3>. QED
      BY <2>1, <3>1 DEF kept, claims, Claimed, Complete, OnePerItem, AllUnbeaten, Unbeaten,
                        Ranked, slotted, slot, rank
  <2>. QED
    BY <2>1, <2>2 DEF ClaimInv
<1>. QED
  BY <1>1, <1>2, <1>3 DEF Next, Rank, Dedupe

\* The invariant of the loop over the candidates: see ClaimInv.
THEOREM ClaimInvariant == Spec => []ClaimInv
  BY ClaimInit, ClaimStep, PriorityIsResolved, PTL DEF Spec

\* However many users, tiers and candidates there are, each item is kept once, by
\* the best of its claims seen so far.
THEOREM BestClaimsAreKept == Spec => []BestClaimKept
<1>1. ClaimInv => BestClaimKept
  BY DEF ClaimInv, BestClaimKept, Claimed, Complete, OnePerItem, AllUnbeaten, Unbeaten
<1>. QED
  BY <1>1, ClaimInvariant, PTL

-----------------------------------------------------------------------------
(***************************************************************************)
(* The sort.                                                               *)
(***************************************************************************)
\* The keys of a candidate, most significant first.
Keyed(c) ==
    /\ slot(c) \in Nat /\ rank(c) \in Nat
    /\ resumeKey(c)[1] \in {0, 1} /\ resumeKey(c)[2] \in Int

LEMMA KeptAreKeyed ==
    ASSUME ResolvedInv, ClaimInv, Resolved, NEW c \in ToSet(best)
    PROVE  Keyed(c)
<1>1. Ranked(c)
  BY DEF ClaimInv, Claimed, AllUnbeaten
<1>2. c \in call.pool
  BY DEF ClaimInv, ToSet
<1>3. c.Item.ResumeOffset \in Int
  BY <1>2, CallsAssumption DEF ResolvedInv
<1>4. resumeKey(c)[1] \in {0, 1} /\ resumeKey(c)[2] \in Int
  BY <1>3 DEF resumeKey
<1>. QED
  BY <1>1, <1>4, NumbersOfClaims DEF Keyed, Ranked

\* less is the order of the keys, read from the left.
LEMMA LessByKeys ==
    ASSUME NEW c, NEW d, Keyed(c), Keyed(d)
    PROVE  less(c, d) <=>
             \/ slot(c) < slot(d)
             \/ slot(c) = slot(d) /\ rank(c) < rank(d)
             \/ slot(c) = slot(d) /\ rank(c) = rank(d) /\ resumeKey(c)[1] < resumeKey(d)[1]
             \/ /\ slot(c) = slot(d) /\ rank(c) = rank(d) /\ resumeKey(c)[1] = resumeKey(d)[1]
                /\ resumeKey(c)[2] < resumeKey(d)[2]
  BY DEF less, better, Keyed

LEMMA LessOrders ==
    ASSUME NEW c, NEW d, NEW e, Keyed(c), Keyed(d), Keyed(e)
    PROVE  /\ less(c, d) => ~less(d, c)
           /\ ~less(c, d) /\ ~less(d, e) => ~less(c, e)
  BY LessByKeys DEF Keyed

\* What is before c keeps its place, and the rest moves by one.
Inserted(new, t, p, c) ==
    /\ Len(new) = Len(t) + 1 /\ new[p + 1] = c
    /\ \A k \in 1 .. p : new[k] = t[k]
    /\ \A k \in (p + 1) .. Len(t) : new[k + 1] = t[k]

LEMMA Insertion ==
    ASSUME NEW S, NEW t \in Seq(S), NEW c \in S, NEW p \in 0 .. Len(t)
    PROVE  InsertAt(t, p + 1, c) \in Seq(S) /\ Inserted(InsertAt(t, p + 1, c), t, p, c)
<1>. DEFINE n == Len(t)
            a == SubSeq(t, 1, p)
            b == SubSeq(t, p + 1, n)
<1>1. n \in Nat /\ p \in Nat /\ p <= n
  OBVIOUS
<1>2. a \in Seq(S) /\ Len(a) = p /\ \A k \in 1 .. p : a[k] = t[k]
  BY <1>1
<1>3. b \in Seq(S) /\ Len(b) = n - p /\ \A k \in 1 .. (n - p) : b[k] = t[p + k]
  BY <1>1
<1>4. InsertAt(t, p + 1, c) = (a \o <<c>>) \o b
  <2>1. (p + 1) - 1 = p
    BY <1>1
  <2>. QED
    BY <2>1, Zenon DEF InsertAt
<1>. HIDE DEF n, a, b
<1>. DEFINE ac == a \o <<c>>
<1>5. /\ ac \in Seq(S) /\ Len(ac) = p + 1 /\ ac[p + 1] = c
      /\ \A k \in 1 .. p : ac[k] = t[k]
  BY <1>1, <1>2
<1>. HIDE DEF ac
<1>. DEFINE new == ac \o b
<1>6. new \in Seq(S) /\ Len(new) = n + 1
  <2>1. new \in Seq(S) /\ Len(new) = Len(ac) + Len(b)
    BY <1>3, <1>5, PartsOfAList
  <2>2. Len(new) = n + 1
    BY <1>1, <1>3, <1>5, <2>1
  <2>. QED
    BY <2>1, <2>2
<1>7. /\ \A k \in 1 .. p : new[k] = t[k]
      /\ new[p + 1] = c
  BY <1>1, <1>3, <1>5
<1>8. ASSUME NEW k \in (p + 1) .. n PROVE new[k + 1] = t[k]
  <2>1. new[k + 1] = b[k - p] /\ k - p \in 1 .. (n - p) /\ p + (k - p) = k
    BY <1>1, <1>3, <1>5
  <2>. QED
    BY <1>3, <2>1
<1>. QED
  BY <1>4, <1>6, <1>7, <1>8 DEF n, ac, Inserted

tied(c, d) == ~less(c, d) /\ ~less(d, c)

\* The list holds the first n kept candidates, in priority order, and the ones
\* nothing tells apart in the order in which they were kept.
Holds(list, n) ==
    /\ list \in Seq(ToSet(best)) /\ Len(list) = n
    /\ ToSet(list) = {best[i] : i \in 1 .. n}

Sorted(list) == \A i, j \in DOMAIN list : i < j => ~less(list[j], list[i])

Stable(list, n) ==
    \A i, j \in 1 .. n : i < j /\ tied(best[i], best[j]) =>
        \E k, l \in DOMAIN list : k < l /\ list[k] = best[i] /\ list[l] = best[j]

SortInv ==
    /\ next \in 1 .. (Len(best) + 1)
    /\ pc \in {"resolve", "dedupe"} => targets = <<>> /\ next = 1
    /\ pc = "done" => next = Len(best) + 1
    /\ Holds(targets, next - 1) /\ Sorted(targets) /\ Stable(targets, next - 1)

LEMMA OnePlaced ==
    ASSUME ResolvedInv, ClaimInv, Resolved, NEW n \in 0 .. (Len(best) - 1), NEW t,
           Holds(t, n), Sorted(t), Stable(t, n), NEW c, c = best[n + 1]
    PROVE  LET p   == Max({k \in DOMAIN t : ~less(c, t[k])} \cup {0})
               new == InsertAt(t, p + 1, c)
           IN  Holds(new, n + 1) /\ Sorted(new) /\ Stable(new, n + 1)
<1>. DEFINE before == {k \in DOMAIN t : ~less(c, t[k])}
            p      == Max(before \cup {0})
            new    == InsertAt(t, p + 1, c)
            from(k) == IF k <= p THEN k ELSE k + 1
<1>0. /\ best \in Seq(call.pool) /\ Len(best) \in Nat /\ DOMAIN best = 1 .. Len(best)
      /\ n \in Nat /\ n + 1 \in DOMAIN best
  BY DEF ClaimInv
<1>1. /\ t \in Seq(ToSet(best)) /\ Len(t) = n /\ DOMAIN t = 1 .. n
      /\ ToSet(t) = {best[i] : i \in 1 .. n}
  BY DEF Holds
<1>2. c \in ToSet(best) /\ \A k \in 1 .. n : t[k] \in ToSet(best)
  BY <1>0, <1>1 DEF ToSet
<1>3. Keyed(c) /\ \A k \in 1 .. n : Keyed(t[k])
  BY <1>2, KeptAreKeyed
<1>4. p \in before \cup {0} /\ \A k \in before : p >= k
  <2>1. before \cup {0} \in SUBSET (0 .. n) /\ before \cup {0} # {}
    BY <1>0, <1>1
  <2>. HIDE DEF before
  <2>. QED
    BY <1>0, <2>1, MaxIsGreatest
<1>5. p \in 0 .. n
  BY <1>0, <1>1, <1>4
<1>6. ASSUME NEW k \in 1 .. n
      PROVE  k <= p <=> ~less(c, t[k])
  <2>1. ~less(c, t[k]) => k <= p
    BY <1>1, <1>4, <1>5
  <2>2. CASE k = p
    BY <1>4, <2>2
  <2>3. CASE k < p
    <3>1. p \in 1 .. n /\ p \in before
      BY <1>4, <1>5, <2>3
    <3>2. ~less(t[p], t[k])
      BY <1>1, <2>3, <3>1 DEF Sorted
    <3>. HIDE DEF p
    <3>. QED
      BY <1>3, <2>3, <3>1, <3>2, LessOrders
  <2>. HIDE DEF p
  <2>. QED
    BY <1>5, <2>1, <2>2, <2>3
<1>. HIDE DEF before, p
<1>7. /\ new \in Seq(ToSet(best)) /\ Len(new) = n + 1 /\ new[p + 1] = c
      /\ \A k \in 1 .. p : new[k] = t[k]
      /\ \A k \in (p + 1) .. n : new[k + 1] = t[k]
  <2>. DEFINE S == ToSet(best)
  <2>1. t \in Seq(S) /\ c \in S /\ p \in 0 .. Len(t)
    BY <1>1, <1>2, <1>5
  <2>. HIDE DEF S
  <2>2. new \in Seq(S) /\ Inserted(new, t, p, c)
    BY <2>1, Insertion
  <2>. HIDE DEF new
  <2>. QED
    BY <1>1, <2>2 DEF S, Inserted
<1>8. DOMAIN new = 1 .. (n + 1)
  BY <1>7
<1>. HIDE DEF new
<1>9. ASSUME NEW k \in 1 .. n
      PROVE  from(k) \in 1 .. (n + 1) /\ from(k) # p + 1 /\ new[from(k)] = t[k]
  BY <1>0, <1>5, <1>7
<1>10. ASSUME NEW i \in 1 .. (n + 1), i # p + 1
       PROVE  \E k \in 1 .. n : i = from(k)
  <2>1. CASE i <= p
    <3>1. i \in 1 .. n /\ i = from(i)
      BY <1>0, <1>5, <2>1
    <3>. QED
      BY <3>1
  <2>2. CASE i > p
    <3>1. i - 1 \in 1 .. n /\ i = from(i - 1)
      BY <1>0, <1>5, <1>10, <2>2
    <3>. QED
      BY <3>1
  <2>. QED
    BY <1>0, <1>5, <2>1, <2>2
<1>11. \A k, l \in 1 .. n : k < l <=> from(k) < from(l)
  BY <1>0, <1>5
<1>12. \A k \in 1 .. n : /\ from(k) < p + 1 <=> ~less(c, t[k])
                         /\ p + 1 < from(k) <=> less(c, t[k])
  BY <1>0, <1>5, <1>6
<1>. HIDE DEF from
<1>13. Holds(new, n + 1)
  <2>1. ToSet(new) = ToSet(t) \cup {c}
    <3>1. p + 1 \in 1 .. (n + 1)
      BY <1>0, <1>5
    <3>2. ASSUME NEW x \in ToSet(new) PROVE x \in ToSet(t) \cup {c}
      <4>1. PICK i \in 1 .. (n + 1) : x = new[i]
        BY <1>8 DEF ToSet
      <4>2. CASE i # p + 1
        <5>1. PICK k \in 1 .. n : i = from(k)
          BY <1>10, <4>2
        <5>. QED
          BY <1>1, <1>9, <4>1, <5>1 DEF ToSet
      <4>. QED
        BY <1>7, <4>1, <4>2
    <3>3. \A x \in ToSet(t) \cup {c} : x \in ToSet(new)
      BY <1>1, <1>7, <1>8, <1>9, <3>1 DEF ToSet
    <3>. QED
      BY <3>2, <3>3
  <2>2. {best[i] : i \in 1 .. (n + 1)} = {best[i] : i \in 1 .. n} \cup {best[n + 1]}
    <3>1. 1 .. (n + 1) = (1 .. n) \cup {n + 1}
      BY <1>0
    <3>. QED
      BY <3>1
  <2>. QED
    BY <1>1, <1>7, <2>1, <2>2 DEF Holds
<1>14. Sorted(new)
  <2>. SUFFICES ASSUME NEW i \in 1 .. (n + 1), NEW j \in 1 .. (n + 1), i < j
                PROVE  ~less(new[j], new[i])
    BY <1>8 DEF Sorted
  <2>1. CASE i # p + 1 /\ j # p + 1
    <3>1. PICK k \in 1 .. n, l \in 1 .. n : i = from(k) /\ j = from(l)
      BY <1>10, <2>1
    <3>2. ~less(t[l], t[k])
      BY <1>1, <1>11, <3>1 DEF Sorted
    <3>. QED
      BY <1>9, <3>1, <3>2
  <2>2. CASE i = p + 1 /\ j # p + 1
    <3>1. PICK l \in 1 .. n : j = from(l)
      BY <1>10, <2>2
    <3>2. less(c, t[l])
      BY <1>12, <2>2, <3>1
    <3>. QED
      BY <1>3, <1>7, <1>9, <2>2, <3>1, <3>2, LessOrders
  <2>3. CASE i # p + 1 /\ j = p + 1
    <3>1. PICK k \in 1 .. n : i = from(k)
      BY <1>10, <2>3
    <3>. QED
      BY <1>7, <1>9, <1>12, <2>3, <3>1
  <2>. QED
    BY <1>5, <2>1, <2>2, <2>3
<1>15. Stable(new, n + 1)
  <2>. SUFFICES ASSUME NEW i \in 1 .. (n + 1), NEW j \in 1 .. (n + 1), i < j,
                       tied(best[i], best[j])
                PROVE  \E k, l \in 1 .. (n + 1) : k < l /\ new[k] = best[i] /\ new[l] = best[j]
    BY <1>8 DEF Stable
  <2>1. CASE j \in 1 .. n
    <3>1. PICK k \in 1 .. n, l \in 1 .. n : k < l /\ t[k] = best[i] /\ t[l] = best[j]
      BY <1>0, <1>1, <2>1 DEF Stable
    <3>. QED
      BY <1>9, <1>11, <3>1
  <2>2. CASE j = n + 1
    <3>1. i \in 1 .. n /\ best[i] \in ToSet(t)
      BY <1>0, <1>1, <2>2
    <3>2. PICK k \in 1 .. n : t[k] = best[i]
      BY <1>1, <3>1 DEF ToSet
    <3>3. ~less(c, t[k])
      BY <2>2, <3>2 DEF tied
    <3>4. from(k) \in 1 .. (n + 1) /\ from(k) < p + 1 /\ new[from(k)] = best[i]
      BY <1>9, <1>12, <3>2, <3>3
    <3>. QED
      BY <1>0, <1>5, <1>7, <2>2, <3>4
  <2>. QED
    BY <1>0, <2>1, <2>2
<1>. QED
  BY <1>13, <1>14, <1>15 DEF new, p, before

LEMMA NothingPlaced ==
    ASSUME best \in Seq(call.pool)
    PROVE  Holds(<<>>, 0) /\ Sorted(<<>>) /\ Stable(<<>>, 0)
<1>1. /\ <<>> \in Seq(ToSet(best)) /\ Len(<<>>) = 0 /\ DOMAIN <<>> = {}
      /\ ToSet(<<>>) = {} /\ 1 .. 0 = {}
  BY DEF ToSet
<1>. QED
  BY <1>1 DEF Holds, Sorted, Stable

LEMMA SortInit == ClaimInv /\ Init => SortInv
<1>. SUFFICES ASSUME ClaimInv, Init PROVE SortInv
  OBVIOUS
<1>1. best \in Seq(call.pool) /\ Len(best) \in Nat
  BY DEF ClaimInv
<1>2. pc = "resolve" /\ targets = <<>> /\ next = 1
  BY DEF Init
<1>3. 1 \in 1 .. (Len(best) + 1) /\ 1 - 1 = 0
  BY <1>1
<1>. QED
  BY <1>1, <1>2, <1>3, NothingPlaced DEF SortInv

LEMMA SortStep == ResolvedInv /\ ClaimInv /\ ClaimInv' /\ SortInv /\ [Next]_vars => SortInv'
<1>. SUFFICES ASSUME ResolvedInv, ClaimInv, ClaimInv', SortInv, [Next]_vars PROVE SortInv'
  OBVIOUS
<1>1. best \in Seq(call.pool) /\ Len(best) \in Nat
  BY DEF ClaimInv
<1>2. CASE Resolve \/ Dedupe
  <2>1. pc' = "dedupe" /\ targets = <<>> /\ next = 1 /\ UNCHANGED <<targets, next, call>>
    BY <1>2 DEF Resolve, Dedupe, Ignore, Keep, Compare, Candidate, SortInv
  <2>2. best' \in Seq(call.pool) /\ Len(best') \in Nat /\ call' = call
    BY <2>1 DEF ClaimInv
  <2>3. next' \in 1 .. (Len(best') + 1) /\ next' - 1 = 0
    BY <2>1, <2>2
  <2>4. (Holds(<<>>, 0) /\ Sorted(<<>>) /\ Stable(<<>>, 0))'
    <3>1. /\ <<>> \in Seq(ToSet(best')) /\ Len(<<>>) = 0 /\ DOMAIN <<>> = {}
          /\ ToSet(<<>>) = {} /\ 1 .. 0 = {}
      BY DEF ToSet
    <3>. QED
      BY <3>1 DEF Holds, Sorted, Stable, ToSet
  <2>5. Holds(targets, next - 1)' /\ Sorted(targets)' /\ Stable(targets, next - 1)'
    BY <2>1, <2>3, <2>4 DEF Holds, Sorted, Stable
  <2>. QED
    BY <2>1, <2>3, <2>5 DEF SortInv
<1>3. ASSUME UNCHANGED <<call, opts, next, best, targets>>
      PROVE  (next - 1 = next' - 1) /\ Holds(targets, next - 1)' /\ Sorted(targets)'
             /\ Stable(targets, next - 1)'
  <2>1. Holds(targets, next - 1)'
    BY <1>3 DEF SortInv, Holds, ToSet
  <2>2. Sorted(targets)'
    BY <1>3 DEF SortInv, Sorted, less, better, slot, rank, resumeKey
  <2>3. Stable(targets, next - 1)'
    <3>1. ASSUME NEW i, NEW j PROVE tied(best[i], best[j])' <=> tied(best[i], best[j])
      BY <1>3 DEF tied, less, better, slot, rank, resumeKey
    <3>. QED
      BY <1>3, <3>1 DEF SortInv, Stable
  <2>. QED
    BY <1>3, <2>1, <2>2, <2>3
<1>4. CASE StartSort \/ Finish \/ UNCHANGED vars
  <2>1. /\ UNCHANGED <<call, opts, next, best, targets>>
        /\ pc' \in {"resolve", "dedupe"} => pc \in {"resolve", "dedupe"}
        /\ pc' = "done" => next = Len(best) + 1
    BY <1>1, <1>4 DEF StartSort, Finish, vars, SortInv
  <2>. QED
    BY <1>3, <2>1 DEF SortInv
<1>5. CASE Place
  <2>. DEFINE c   == best[next]
              p   == Max({k \in DOMAIN targets : ~less(c, targets[k])} \cup {0})
              new == InsertAt(targets, p + 1, c)
              n   == next - 1
  <2>1. /\ pc = "sort" /\ next <= Len(best) /\ targets' = new
        /\ next' = next + 1 /\ UNCHANGED <<pc, call, opts, best>>
    BY <1>5 DEF Place
  <2>2. /\ n \in 0 .. (Len(best) - 1) /\ n + 1 = next /\ next' - 1 = n + 1
        /\ next' \in 1 .. (Len(best') + 1)
    BY <1>1, <2>1 DEF SortInv
  <2>3. Holds(new, n + 1) /\ Sorted(new) /\ Stable(new, n + 1)
    <3>1. Resolved
      BY <2>1 DEF Resolved
    <3>2. Holds(targets, n) /\ Sorted(targets) /\ Stable(targets, n)
      BY DEF SortInv
    <3>3. c = best[n + 1]
      BY <2>2
    <3>. HIDE DEF n
    <3>. QED
      BY <2>2, <3>1, <3>2, <3>3, OnePlaced
  <2>. HIDE DEF new, c, p, n
  <2>4. Holds(targets, next - 1)' /\ Sorted(targets)' /\ Stable(targets, next - 1)'
    <3>1. Holds(targets', next' - 1) /\ Sorted(targets') /\ Stable(targets', next' - 1)
      BY <2>1, <2>2, <2>3
    <3>2. Holds(targets, next - 1)'
      <4>1. /\ targets' \in Seq(ToSet(best)) /\ Len(targets') = next' - 1
            /\ ToSet(targets') = {best[i] : i \in 1 .. (next' - 1)}
        BY <3>1 DEF Holds
      <4>. QED
        BY <2>1, <4>1 DEF Holds, ToSet
    <3>3. Sorted(targets)'
      <4>1. \A i, j \in DOMAIN targets' : i < j => ~less(targets'[j], targets'[i])
        BY <3>1 DEF Sorted
      <4>. QED
        BY <2>1, <4>1 DEF Sorted, less, better, slot, rank, resumeKey
    <3>4. Stable(targets, next - 1)'
      <4>1. ASSUME NEW i, NEW j PROVE tied(best[i], best[j])' <=> tied(best[i], best[j])
        BY <2>1 DEF tied, less, better, slot, rank, resumeKey
      <4>2. \A i, j \in 1 .. (next' - 1) : i < j /\ tied(best[i], best[j]) =>
               \E k, l \in DOMAIN targets' : k < l /\ targets'[k] = best[i] /\ targets'[l] = best[j]
        BY <3>1 DEF Stable
      <4>3. ASSUME NEW i \in 1 .. (next' - 1), NEW j \in 1 .. (next' - 1), i < j,
                   tied(best[i], best[j])'
            PROVE  (\E k, l \in DOMAIN targets : k < l /\ targets[k] = best[i] /\ targets[l] = best[j])'
        <5>1. tied(best[i], best[j])
          BY <4>1, <4>3
        <5>2. PICK k \in DOMAIN targets', l \in DOMAIN targets' :
                k < l /\ targets'[k] = best[i] /\ targets'[l] = best[j]
          BY <4>2, <4>3, <5>1
        <5>. QED
          BY <2>1, <5>2
      <4>. QED
        BY <4>3 DEF Stable
    <3>. QED
      BY <3>2, <3>3, <3>4
  <2>. QED
    BY <2>1, <2>2, <2>4 DEF SortInv
<1>. QED
  BY <1>2, <1>4, <1>5 DEF Next, Rank

\* The invariant of the insertion sort: see SortInv.
THEOREM SortInvariant == Spec => []SortInv
<1>1. Init => SortInv
  BY ClaimInit, SortInit
<1>. QED
  BY <1>1, SortStep, PriorityIsResolved, ClaimInvariant, PTL DEF Spec

LEMMA OrderOfTargets ==
    ASSUME ResolvedInv, ClaimInv, SortInv, NEW i \in DOMAIN targets, NEW j \in DOMAIN targets, i < j
    PROVE  LET c == targets[i]
               d == targets[j]
           IN  /\ slot(c) <= slot(d)
               /\ slot(c) = slot(d) => rank(c) <= rank(d)
               /\ (slot(c) = slot(d) /\ rank(c) = rank(d) /\ d.Tier = "resume") =>
                    c.Tier = "resume" /\ c.Item.ResumeOffset >= d.Item.ResumeOffset
<1>. DEFINE c == targets[i]
            d == targets[j]
<1>1. Resolved
  <2>1. targets # <<>>
    OBVIOUS
  <2>. QED
    BY <2>1 DEF SortInv, Resolved
<1>2. c \in ToSet(best) /\ d \in ToSet(best)
  BY DEF SortInv, Holds
<1>3. Keyed(c) /\ Keyed(d)
  BY <1>1, <1>2, KeptAreKeyed
<1>4. c.Item.ResumeOffset \in Int /\ d.Item.ResumeOffset \in Int
  <2>1. c \in call.pool /\ d \in call.pool
    BY <1>2 DEF ClaimInv, ToSet
  <2>. QED
    BY <2>1, CallsAssumption DEF ResolvedInv
<1>5. ~less(d, c)
  BY DEF SortInv, Sorted
<1>. HIDE DEF c, d
<1>6. slot(c) <= slot(d) /\ (slot(c) = slot(d) => rank(c) <= rank(d))
  BY <1>3, <1>5, LessByKeys DEF Keyed
<1>7. ASSUME slot(c) = slot(d), rank(c) = rank(d), d.Tier = "resume"
      PROVE  c.Tier = "resume" /\ c.Item.ResumeOffset >= d.Item.ResumeOffset
  <2>1. resumeKey(d)[1] = 0 /\ resumeKey(d)[2] = -d.Item.ResumeOffset
    BY <1>7 DEF resumeKey
  <2>2. ~(resumeKey(d)[1] < resumeKey(c)[1])
    BY <1>3, <1>5, <1>7, LessByKeys
  <2>3. resumeKey(c)[1] = 0
    BY <1>3, <2>1, <2>2 DEF Keyed
  <2>4. c.Tier = "resume" /\ resumeKey(c)[2] = -c.Item.ResumeOffset
    BY <2>3 DEF resumeKey
  <2>5. ~(resumeKey(d)[2] < resumeKey(c)[2])
    BY <1>3, <1>5, <1>7, <2>1, <2>3, LessByKeys
  <2>. QED
    BY <1>4, <2>1, <2>4, <2>5
<1>. QED
  BY <1>6, <1>7 DEF c, d

\* For any candidates and any priority the list is sorted at every moment of the
\* sort, and at its end it holds every kept item, ties in the order fetched.
THEOREM ListIsInPriorityOrder == Spec => []StablePriorityOrder
<1>1. ASSUME ResolvedInv, ClaimInv, SortInv, pc = "done"
      PROVE  /\ Len(targets) = Len(best) /\ ToSet(targets) = ToSet(best)
             /\ \A i, j \in DOMAIN best :
                  LET c == best[i]
                      d == best[j]
                  IN  (i < j /\ slot(c) = slot(d) /\ rank(c) = rank(d) /\ resumeKey(c) = resumeKey(d))
                        => \E k, l \in DOMAIN targets : k < l /\ targets[k] = c /\ targets[l] = d
  <2>1. best \in Seq(call.pool) /\ Len(best) \in Nat /\ DOMAIN best = 1 .. Len(best)
    BY <1>1 DEF ClaimInv
  <2>2. next - 1 = Len(best)
    BY <1>1, <2>1 DEF SortInv
  <2>3. Holds(targets, Len(best)) /\ Stable(targets, Len(best))
    BY <1>1, <2>2 DEF SortInv
  <2>4. Len(targets) = Len(best) /\ ToSet(targets) = ToSet(best)
    BY <2>1, <2>3 DEF Holds, ToSet
  <2>5. ASSUME NEW i \in DOMAIN best, NEW j \in DOMAIN best, i < j,
               slot(best[i]) = slot(best[j]), rank(best[i]) = rank(best[j]),
               resumeKey(best[i]) = resumeKey(best[j])
        PROVE  \E k, l \in DOMAIN targets : k < l /\ targets[k] = best[i] /\ targets[l] = best[j]
    <3>1. best[i] \in ToSet(best) /\ best[j] \in ToSet(best) /\ Resolved
      BY <1>1 DEF ToSet, Resolved
    <3>2. Keyed(best[i]) /\ Keyed(best[j])
      BY <1>1, <3>1, KeptAreKeyed
    <3>3. tied(best[i], best[j])
      BY <2>5, <3>2, LessByKeys DEF tied, Keyed
    <3>. QED
      BY <2>1, <2>3, <2>5, <3>3 DEF Stable
  <2>. QED
    BY <2>4, <2>5
<1>2. ResolvedInv /\ ClaimInv /\ SortInv => StablePriorityOrder
  BY <1>1, OrderOfTargets DEF StablePriorityOrder
<1>. QED
  BY <1>2, PriorityIsResolved, ClaimInvariant, SortInvariant, PTL
-----------------------------------------------------------------------------
(***************************************************************************)
(* Sums.                                                                   *)
(***************************************************************************)
LEMMA PartsAreFinite ==
    ASSUME NEW n \in Nat, NEW S \in SUBSET (1 .. n)
    PROVE  IsFiniteSet(S) /\ Cardinality(S) \in Nat
<1>1. IsFiniteSet(1 .. n)
  BY FS_Interval
<1>2. IsFiniteSet(S)
  BY <1>1, FS_Subset
<1>. QED
  BY <1>2, FS_CardinalityType

\* run[k] is the sum of the first k.
Adds(run, bytes) ==
    /\ run \in [0 .. Len(bytes) -> Nat] /\ run[0] = 0
    /\ \A k \in 1 .. Len(bytes) : run[k] = run[k - 1] + bytes[k]

LEMMA TotalAdds ==
    ASSUME NEW bytes \in Seq(Nat)
    PROVE  \E run : Adds(run, bytes) /\ Total(bytes) = run[Len(bytes)]
<1>. DEFINE op(sum, b) == sum + b
            step == [p \in Nat \X Nat |-> op(p[1], p[2])]
            Solves(iter) == iter = [S \in SUBSET DOMAIN bytes |->
                              IF S = {} THEN 0 ELSE op(iter[S \ {Max(S)}], bytes[Max(S)])]
            it == CHOOSE iter : Solves(iter)
<1>0. Len(bytes) \in Nat /\ DOMAIN bytes = 1 .. Len(bytes)
  OBVIOUS
<1>1. Total(bytes) = it[DOMAIN bytes]
  BY DEF Total, FoldLeft, MapThenFoldSet
<1>2. /\ 0 \in Nat /\ step \in [Nat \X Nat -> Nat]
      /\ \A sum \in Nat, b \in Nat : step[<<sum, b>>] = sum + b
  OBVIOUS
<1>. HIDE DEF step
<1>3. Solves(it)
  <2>1. PICK iter : Iterates(iter, 0, step, bytes) /\ Stays(iter, Nat, Nat, bytes)
    BY <1>2, LoopRuns
  <2>2. Solves(iter)
    BY <1>2, <2>1 DEF Iterates, Stays
  <2>. QED
    BY <2>2
<1>. HIDE DEF it
<1>4. Follows(it, Nat, step, bytes)
  <2>. SUFFICES ASSUME NEW k \in 1 .. Len(bytes), it[1 .. (k - 1)] \in Nat
                PROVE  it[1 .. k] = step[<<it[1 .. (k - 1)], bytes[k]>>]
    BY DEF Follows
  <2>1. /\ Max(1 .. k) = k /\ (1 .. k) \ {k} = 1 .. (k - 1)
        /\ 1 .. k # {} /\ 1 .. k \in SUBSET DOMAIN bytes
    BY Beginning
  <2>2. it[1 .. k] = it[1 .. (k - 1)] + bytes[k]
    BY <1>3, <2>1
  <2>3. bytes[k] \in Nat
    OBVIOUS
  <2>. HIDE DEF Solves
  <2>. QED
    BY <1>2, <2>2, <2>3
<1>5. it[{}] = 0
  BY <1>3
<1>. HIDE DEF Solves
<1>6. Runs(Along(it, bytes), Nat, 0, step, bytes)
  BY <1>2, <1>4, <1>5, LoopValues
<1>. DEFINE run == Along(it, bytes)
<1>7. Total(bytes) = run[Len(bytes)]
  BY <1>0, <1>1 DEF Along
<1>. HIDE DEF run
<1>8. Adds(run, bytes)
  <2>1. ASSUME NEW k \in 1 .. Len(bytes) PROVE run[k] = run[k - 1] + bytes[k]
    <3>1. run \in [0 .. Len(bytes) -> Nat] /\ run[k] = step[<<run[k - 1], bytes[k]>>]
      BY <1>6 DEF Runs, run
    <3>2. k - 1 \in 0 .. Len(bytes) /\ bytes[k] \in Nat
      BY <1>0
    <3>3. run[k - 1] \in Nat
      BY <3>1, <3>2
    <3>. QED
      BY <1>2, <3>1, <3>2, <3>3
  <2>. QED
    BY <1>6, <2>1 DEF Adds, Runs, run
<1>. QED
  BY <1>7, <1>8

\* One of them left out.
LEMMA OneLess ==
    ASSUME NEW bytes \in Seq(Nat), NEW j \in 1 .. Len(bytes)
    PROVE  LET without == [bytes EXCEPT ![j] = 0]
           IN  /\ without \in Seq(Nat) /\ Len(without) = Len(bytes)
               /\ Total(without) \in Nat /\ Total(bytes) = Total(without) + bytes[j]
<1>. DEFINE without == [bytes EXCEPT ![j] = 0]
            n == Len(bytes)
<1>1. /\ n \in Nat /\ without \in Seq(Nat) /\ Len(without) = n /\ bytes[j] \in Nat
      /\ without[j] = 0 /\ \A k \in 1 .. n : bytes[k] \in Nat /\ (k # j => without[k] = bytes[k])
  OBVIOUS
<1>. HIDE DEF without
<1>2. PICK all : Adds(all, bytes) /\ Total(bytes) = all[n]
  BY TotalAdds
<1>3. PICK rest : Adds(rest, without) /\ Total(without) = rest[n]
  BY <1>1, TotalAdds
<1>. HIDE DEF n
<1>4. /\ all \in [0 .. n -> Nat] /\ all[0] = 0 /\ \A k \in 1 .. n : all[k] = all[k - 1] + bytes[k]
      /\ rest \in [0 .. n -> Nat] /\ rest[0] = 0 /\ \A k \in 1 .. n : rest[k] = rest[k - 1] + without[k]
  BY <1>1, <1>2, <1>3 DEF Adds, n
<1>5. j \in 1 .. n
  BY DEF n
<1>. DEFINE P == {k \in 0 .. n : all[k] = rest[k] + (IF j <= k THEN bytes[j] ELSE 0)}
<1>6. 0 \in P
  BY <1>1, <1>4, <1>5
<1>7. ASSUME NEW k \in 0 .. (n - 1), k \in P PROVE k + 1 \in P
  <2>1. k + 1 \in 1 .. n /\ (k + 1) - 1 = k /\ k \in 0 .. n
    BY <1>1
  <2>2. /\ all[k + 1] = all[k] + bytes[k + 1] /\ rest[k + 1] = rest[k] + without[k + 1]
        /\ all[k] \in Nat /\ rest[k] \in Nat /\ bytes[k + 1] \in Nat
        /\ all[k] = rest[k] + (IF j <= k THEN bytes[j] ELSE 0)
    BY <1>1, <1>4, <1>7, <2>1
  <2>3. CASE k + 1 = j
    <3>1. ~(j <= k) /\ j <= k + 1 /\ without[k + 1] = 0 /\ bytes[k + 1] = bytes[j]
      BY <1>1, <1>5, <2>1, <2>3
    <3>. QED
      BY <1>1, <2>1, <2>2, <3>1
  <2>4. CASE k + 1 # j
    <3>1. (j <= k <=> j <= k + 1) /\ without[k + 1] = bytes[k + 1]
      BY <1>1, <1>5, <2>1, <2>4
    <3>. DEFINE b == IF j <= k THEN bytes[j] ELSE 0
    <3>2. b \in Nat /\ b = (IF j <= k + 1 THEN bytes[j] ELSE 0) /\ all[k] = rest[k] + b
      BY <1>1, <2>2, <3>1
    <3>. HIDE DEF b
    <3>3. all[k + 1] = rest[k + 1] + b
      BY <2>2, <3>1, <3>2
    <3>. QED
      BY <2>1, <3>2, <3>3
  <2>. QED
    BY <2>3, <2>4
<1>8. n \in P
  <2>1. \A k \in 0 .. (n - 1) : k \in P => k + 1 \in P
    BY <1>7
  <2>. HIDE DEF P
  <2>2. 0 .. n \subseteq P
    BY <1>1, <1>6, <2>1, UpTo
  <2>. QED
    BY <1>1, <2>2
<1>9. Total(bytes) = Total(without) + bytes[j] /\ Total(without) \in Nat
  BY <1>1, <1>2, <1>3, <1>4, <1>5, <1>8
<1>. QED
  BY <1>1, <1>9 DEF without, n

LEMMA TotalIsNat ==
    ASSUME NEW bytes \in Seq(Nat)
    PROVE  Total(bytes) \in Nat
<1>1. PICK run : Adds(run, bytes) /\ Total(bytes) = run[Len(bytes)]
  BY TotalAdds
<1>2. Len(bytes) \in 0 .. Len(bytes)
  OBVIOUS
<1>. QED
  BY <1>1, <1>2 DEF Adds

\* Summands that are each met by one of their own in another sum, which is no
\* less, are no more together.
LEMMA NoMoreInTotal ==
    ASSUME NEW x \in Seq(Nat), NEW y \in Seq(Nat), NEW met,
           \A i \in 1 .. Len(x) : x[i] > 0 => met[i] \in 1 .. Len(y) /\ x[i] <= y[met[i]],
           \A i, k \in 1 .. Len(x) : x[i] > 0 /\ x[k] > 0 /\ met[i] = met[k] => i = k
    PROVE  Total(x) <= Total(y)
<1>. DEFINE m == Len(x)
            n == Len(y)
            Others == {z \in Seq(Nat) : Len(z) = n}
            Meets(k, z) == \A i \in 1 .. k : x[i] > 0 => met[i] \in 1 .. n /\ x[i] <= z[met[i]]
<1>1. m \in Nat /\ n \in Nat /\ \A i \in 1 .. m : x[i] \in Nat
  OBVIOUS
<1>2. PICK sum : Adds(sum, x) /\ Total(x) = sum[m]
  BY TotalAdds
<1>. DEFINE P == {k \in 0 .. m : \A z \in Others : Meets(k, z) => sum[k] <= Total(z)}
<1>3. y \in Others /\ Meets(m, y)
  OBVIOUS
<1>4. /\ sum \in [0 .. m -> Nat] /\ sum[0] = 0
      /\ \A k \in 1 .. m : sum[k] = sum[k - 1] + x[k]
  BY <1>2 DEF Adds
<1>5. \A i, k \in 1 .. m : x[i] > 0 /\ x[k] > 0 /\ met[i] = met[k] => i = k
  OBVIOUS
<1>6. ASSUME NEW z \in Others PROVE Total(z) \in Nat
  BY <1>6, TotalIsNat
<1>. HIDE DEF m
<1>7. 0 \in P
  <2>1. \A z \in Others : sum[0] <= Total(z)
    <3>. HIDE DEF Others
    <3>. QED
      BY <1>4, <1>6
  <2>. HIDE DEF Others, Meets
  <2>. QED
    BY <1>1, <2>1
<1>8. ASSUME NEW k \in 0 .. (m - 1), k \in P PROVE k + 1 \in P
  <2>1. k + 1 \in 1 .. m /\ (k + 1) - 1 = k /\ k \in 0 .. m /\ k \in Nat
    BY <1>1
  <2>2. sum[k + 1] = sum[k] + x[k + 1] /\ sum[k] \in Nat /\ x[k + 1] \in Nat
    BY <1>1, <1>4, <2>1
  <2>3. \A z \in Others : Meets(k, z) => sum[k] <= Total(z)
    BY <1>8
  <2>4. ASSUME NEW z \in Others, Meets(k + 1, z) PROVE sum[k + 1] <= Total(z)
    <3>1. \A i \in 1 .. k : i \in 1 .. (k + 1) /\ i # k + 1 /\ i \in 1 .. m
      BY <1>1, <2>1
    <3>2. CASE x[k + 1] = 0
      <4>1. Meets(k, z)
        BY <2>4, <3>1
      <4>2. sum[k] <= Total(z) /\ Total(z) \in Nat
        <5>. HIDE DEF Others, Meets
        <5>. QED
          BY <1>6, <2>3, <2>4, <4>1
      <4>. QED
        BY <2>2, <3>2, <4>2
    <3>3. CASE x[k + 1] > 0
      <4>. DEFINE j == met[k + 1]
                  without == [z EXCEPT ![j] = 0]
      <4>1. j \in 1 .. n /\ x[k + 1] <= z[j]
        BY <2>1, <2>4, <3>3
      <4>2. z \in Seq(Nat) /\ Len(z) = n /\ z[j] \in Nat
        BY <2>4, <4>1
      <4>3. /\ without \in Seq(Nat) /\ Len(without) = n
            /\ Total(without) \in Nat /\ Total(z) = Total(without) + z[j]
        BY <4>1, <4>2, OneLess
      <4>4. Meets(k, without)
        <5>. SUFFICES ASSUME NEW i \in 1 .. k, x[i] > 0
                      PROVE  met[i] \in 1 .. n /\ x[i] <= without[met[i]]
          OBVIOUS
        <5>1. met[i] \in 1 .. n /\ x[i] <= z[met[i]]
          BY <2>4, <3>1
        <5>2. met[i] # j
          BY <1>5, <2>1, <3>1, <3>3
        <5>3. without[met[i]] = z[met[i]]
          BY <4>2, <5>1, <5>2
        <5>. QED
          BY <5>1, <5>3
      <4>5. sum[k] <= Total(without)
        <5>1. without \in Others
          BY <4>3
        <5>. HIDE DEF Others, Meets, without
        <5>. QED
          BY <2>3, <4>4, <5>1
      <4>. HIDE DEF j, without, Others, Meets
      <4>6. sum[k] + x[k + 1] <= Total(without) + z[j]
        <5>. DEFINE a == sum[k]
                    b == x[k + 1]
                    c == Total(without)
                    d == z[j]
        <5>1. a \in Nat /\ b \in Nat /\ c \in Nat /\ d \in Nat /\ a <= c /\ b <= d
          BY <2>2, <4>1, <4>2, <4>3, <4>5
        <5>. HIDE DEF a, b, c, d
        <5>2. a + b <= c + d
          BY <5>1
        <5>. QED
          BY <5>2 DEF a, b, c, d
      <4>. QED
        BY <2>2, <4>3, <4>6
    <3>. QED
      BY <2>2, <3>2, <3>3
  <2>. HIDE DEF Others, Meets
  <2>. QED
    BY <2>1, <2>4
<1>9. m \in P
  <2>1. \A k \in 0 .. (m - 1) : k \in P => k + 1 \in P
    BY <1>8
  <2>. HIDE DEF P
  <2>2. 0 .. m \subseteq P
    BY <1>1, <1>7, <2>1, UpTo
  <2>. QED
    BY <1>1, <2>2
<1>. HIDE DEF Others, Meets
<1>. QED
  BY <1>2, <1>3, <1>9

-----------------------------------------------------------------------------
(***************************************************************************)
(* The meter.                                                              *)
(***************************************************************************)
\* What is kept was in the list.
FromTheList == ToSet(best) \subseteq ToSet(listed)

LEMMA ListStep == ClaimInv /\ FromTheList /\ [Next]_vars => FromTheList'
<1>. SUFFICES ASSUME ClaimInv, FromTheList, [Next]_vars PROVE FromTheList'
  OBVIOUS
<1>1. listed \in Seq(call.pool) /\ best \in Seq(call.pool)
  BY DEF ClaimInv
<1>2. ASSUME NEW c \in call.pool, Ignore(c) \/ Keep(c) \/ Compare(c) PROVE FromTheList'
  <2>1. listed' = Append(listed, c)
    BY <1>2 DEF Ignore, Keep, Compare, Candidate
  <2>2. ToSet(listed') = ToSet(listed) \cup {c}
    BY <1>1, <2>1, OneMoreElement
  <2>3. CASE best' = best
    BY <2>2, <2>3 DEF FromTheList
  <2>4. CASE best' = Append(best, c)
    <3>1. ToSet(best') = ToSet(best) \cup {c}
      BY <1>1, <2>4, OneMoreElement
    <3>. QED
      BY <2>2, <3>1 DEF FromTheList
  <2>5. ASSUME NEW i \in DOMAIN best, best' = [best EXCEPT ![i] = c] PROVE FromTheList'
    <3>1. \A x \in ToSet(best') : x \in ToSet(best) \cup {c}
      BY <2>5 DEF ToSet
    <3>. QED
      BY <2>2, <3>1 DEF FromTheList
  <2>. QED
    BY <1>2, <2>3, <2>4, <2>5 DEF Ignore, Keep, Compare, Held
<1>3. CASE UNCHANGED <<listed, best>>
  BY <1>3 DEF FromTheList
<1>. QED
  BY <1>2, <1>3 DEF Next, Rank, Dedupe, Resolve, StartSort, Place, Finish, vars

\* The invariant the meter's claim rests on.
THEOREM KeptWasListed == Spec => []FromTheList
<1>1. Init => FromTheList
  BY DEF Init, FromTheList
<1>. QED
  BY <1>1, ListStep, ClaimInvariant, PTL DEF Spec

\* What is kept is in the order in which the list first has it.
FirstSeenFirst ==
    \A a, b \in DOMAIN best, l \in DOMAIN listed :
        a < b /\ listed[l].Item.ID = best[b].Item.ID /\ Ranked(listed[l]) =>
            \E k \in 1 .. (l - 1) : listed[k].Item.ID = best[a].Item.ID

LEMMA SeenStep == ClaimInv /\ FromTheList /\ FirstSeenFirst /\ [Next]_vars => FirstSeenFirst'
<1>. SUFFICES ASSUME ClaimInv, FromTheList, FirstSeenFirst, [Next]_vars PROVE FirstSeenFirst'
  OBVIOUS
<1>1. /\ listed \in Seq(call.pool) /\ Len(listed) \in Nat /\ DOMAIN listed = 1 .. Len(listed)
      /\ best \in Seq(call.pool) /\ Len(best) \in Nat /\ DOMAIN best = 1 .. Len(best)
  BY DEF ClaimInv
<1>2. ASSUME NEW c \in call.pool, Ignore(c) \/ Keep(c) \/ Compare(c) PROVE FirstSeenFirst'
  <2>. DEFINE n == Len(listed)
              m == Len(best)
  <2>1. /\ listed' = Append(listed, c) /\ UNCHANGED <<call, opts>> /\ Resolved
    BY <1>2 DEF Ignore, Keep, Compare, Candidate, Resolved
  <2>2. /\ DOMAIN listed' = 1 .. (n + 1) /\ listed'[n + 1] = c
        /\ \A k \in 1 .. n : listed'[k] = listed[k]
    BY <1>1, <2>1
  <2>3. \A d : Ranked(d)' <=> Ranked(d)
    BY <2>1 DEF Ranked, slotted
  <2>4. \A a \in DOMAIN best : \E k \in 1 .. n : listed[k].Item.ID = best[a].Item.ID
    BY <1>1 DEF FromTheList, ToSet
  <2>5. ASSUME NEW a \in DOMAIN best PROVE \E k \in 1 .. n : listed'[k].Item.ID = best[a].Item.ID
    BY <2>2, <2>4
  <2>6. ASSUME NEW a \in DOMAIN best, NEW b \in DOMAIN best, NEW l \in 1 .. n, a < b,
               listed[l].Item.ID = best[b].Item.ID, Ranked(listed[l])
        PROVE  \E k \in 1 .. (l - 1) : listed'[k].Item.ID = best[a].Item.ID
    <3>1. PICK k \in 1 .. (l - 1) : listed[k].Item.ID = best[a].Item.ID
      BY <1>1, <2>6 DEF FirstSeenFirst
    <3>2. k \in 1 .. n
      BY <1>1
    <3>. QED
      BY <2>2, <3>1, <3>2
  <2>7. CASE Ignore(c) \/ Compare(c)
    <3>1. /\ DOMAIN best' = DOMAIN best
          /\ \A i \in DOMAIN best : best'[i].Item.ID = best[i].Item.ID
      <4>1. CASE best' = best
        BY <4>1
      <4>2. ASSUME NEW i \in Held(c), best' = [best EXCEPT ![i] = c]
            PROVE  /\ DOMAIN best' = DOMAIN best
                   /\ \A k \in DOMAIN best : best'[k].Item.ID = best[k].Item.ID
        BY <4>2 DEF Held
      <4>. QED
        BY <2>7, <4>1, <4>2 DEF Ignore, Compare
    <3>. SUFFICES ASSUME NEW a \in DOMAIN best, NEW b \in DOMAIN best, NEW l \in 1 .. (n + 1),
                         a < b, listed'[l].Item.ID = best[b].Item.ID, Ranked(listed'[l])
                  PROVE  \E k \in 1 .. (l - 1) : listed'[k].Item.ID = best[a].Item.ID
      BY <2>2, <2>3, <3>1 DEF FirstSeenFirst
    <3>2. CASE l \in 1 .. n
      BY <2>2, <2>6, <3>2
    <3>3. CASE l = n + 1
      <4>1. l - 1 = n
        BY <1>1, <3>3
      <4>. QED
        BY <2>5, <4>1
    <3>. QED
      BY <1>1, <3>2, <3>3
  <2>8. CASE Keep(c)
    <3>1. /\ DOMAIN best' = 1 .. (m + 1) /\ best'[m + 1] = c
          /\ \A k \in 1 .. m : best'[k] = best[k]
      BY <1>1, <2>8 DEF Keep
    <3>2. \A i \in DOMAIN best : best[i].Item.ID # c.Item.ID
      BY <2>8 DEF Keep, Held
    <3>3. ASSUME NEW l \in 1 .. n, Ranked(listed[l]) PROVE listed[l].Item.ID # c.Item.ID
      <4>1. Complete(best, listed)
        BY <2>1 DEF ClaimInv, Claimed
      <4>2. listed[l] \in ToSet(listed)
        BY <1>1 DEF ToSet
      <4>3. PICK d \in ToSet(best) : d.Item.ID = listed[l].Item.ID
        <5>1. listed[l].Item.ID \in {d.Item.ID : d \in ToSet(best)}
          BY <3>3, <4>1, <4>2 DEF Complete
        <5>. QED
          BY <5>1
      <4>. QED
        BY <3>2, <4>3 DEF ToSet
    <3>. SUFFICES ASSUME NEW a \in 1 .. (m + 1), NEW b \in 1 .. (m + 1), NEW l \in 1 .. (n + 1),
                         a < b, listed'[l].Item.ID = best'[b].Item.ID, Ranked(listed'[l])
                  PROVE  \E k \in 1 .. (l - 1) : listed'[k].Item.ID = best'[a].Item.ID
      BY <2>2, <2>3, <3>1 DEF FirstSeenFirst
    <3>4. a \in 1 .. m /\ a \in DOMAIN best /\ best'[a] = best[a]
      <4>1. a \in 1 .. m
        BY <1>1
      <4>. QED
        BY <1>1, <3>1, <4>1
    <3>5. CASE l = n + 1
      <4>1. l - 1 = n
        BY <1>1, <3>5
      <4>. QED
        BY <2>5, <3>4, <4>1
    <3>6. CASE l \in 1 .. n
      <4>1. listed'[l] = listed[l]
        BY <2>2, <3>6
      <4>2. b # m + 1
        BY <3>1, <3>3, <3>6, <4>1
      <4>3. b \in 1 .. m
        BY <1>1, <4>2
      <4>4. b \in DOMAIN best /\ best'[b] = best[b]
        BY <1>1, <3>1, <4>3
      <4>. QED
        BY <2>6, <3>4, <3>6, <4>1, <4>4
    <3>. QED
      BY <1>1, <3>5, <3>6
  <2>. QED
    BY <1>2, <2>7, <2>8
<1>3. CASE UNCHANGED <<listed, best, call, opts>>
  BY <1>3 DEF FirstSeenFirst, Ranked, slotted
<1>4. CASE Resolve
  <2>1. listed = <<>> /\ listed' = listed
    BY <1>4 DEF Resolve, ClaimInv, Resolved
  <2>. QED
    BY <2>1 DEF FirstSeenFirst
<1>. QED
  BY <1>2, <1>3, <1>4 DEF Next, Rank, Dedupe, StartSort, Place, Finish, vars

\* Rank's first pass appends: what is kept is in the order in which the list has it
\* first, whatever claims replace one another later.
THEOREM FirstSeenIsFirst == Spec => []FirstSeenFirst
<1>1. Init => FirstSeenFirst
  BY DEF Init, FirstSeenFirst
<1>. QED
  BY <1>1, SeenStep, ClaimInvariant, KeptWasListed, PTL DEF Spec

\* Under the projection's config every tier is on for everybody.
LEMMA EverythingIsSlotted ==
    ASSUME ResolvedInv, Resolved, call.cfg = fullCfg, NEW c \in call.pool
    PROVE  slotted(c)
<1>1. c.Item.UserID \in IDs(call.users) /\ c.Tier \in ToSet(AllTiers)
  BY UniverseAssumption DEF ResolvedInv
<1>. DEFINE own == overrides(call.users, call.cfg)
            id  == c.Item.UserID
<1>2. /\ DOMAIN opts.TierRank = DOMAIN UserRank(call.users, call.cfg)
      /\ id \in DOMAIN opts.TierRank =>
            /\ id \in ToSet(Spellings)
            /\ id \notin DOMAIN own => opts.TierRank[id] = tierPositions(globalOrder(call.cfg))
  BY CallsAreTyped, OrdersAreSlots DEF ResolvedInv
<1>3. DOMAIN UserRank(call.users, call.cfg) = IDs(call.users)
  BY DEF UserRank, fullCfg
<1>4. id \in DOMAIN opts.TierRank /\ id \in ToSet(Spellings)
  BY <1>1, <1>2, <1>3
<1>5. id \notin DOMAIN own
  <2>1. Wins(call.users, call.cfg, own, id)
    BY <1>4, CallsAreTyped, OverridesWin
  <2>2. \A ref : BoundKeys(call.users, call.cfg, id, ref) = {}
    BY DEF BoundKeys, fullCfg
  <2>. HIDE DEF own
  <2>. QED
    BY <2>1, <2>2 DEF Wins
<1>6. globalOrder(call.cfg) = AllTiers
  BY DEF globalOrder, fullCfg
<1>7. AllTiers \in Seq(ToSet(AllTiers))
  BY Tiers DEF AllTiers, DefaultTierOrder
<1>8. DOMAIN opts.TierRank[id] = ToSet(AllTiers)
  BY <1>2, <1>4, <1>5, <1>6, <1>7, Positions
<1>. QED
  BY <1>1, <1>4, <1>8 DEF slotted

\* The row that stands for an item.
RowOf(item) == CHOOSE r \in DOMAIN targets : targets[r].Item.ID = item

\* What the proof of the meter's claim starts from.
Projected ==
    ResolvedInv /\ ClaimInv /\ SortInv /\ FromTheList /\ FirstSeenFirst /\ Estimated /\ Unshared

LEMMA RowsOfTheProjection ==
    ASSUME Projected
    PROVE  /\ Len(targets) \in Nat /\ DOMAIN targets = 1 .. Len(targets)
           /\ Len(listed) \in Nat /\ DOMAIN listed = 1 .. Len(listed)
           /\ DOMAIN rows = DOMAIN targets
           /\ \A r \in DOMAIN targets : targets[r] \in ToSet(listed)
           /\ \A i \in DOMAIN listed : listed[i].Item.ID \notin call.nowPlaying =>
                 \E r \in DOMAIN targets : targets[r].Item.ID = listed[i].Item.ID
<1>0. Resolved /\ call.cfg = fullCfg /\ pc = "done"
  BY DEF Projected, Estimated, Resolved
<1>1. /\ best \in Seq(call.pool) /\ Len(best) \in Nat /\ DOMAIN best = 1 .. Len(best)
      /\ listed \in Seq(call.pool) /\ Len(listed) \in Nat /\ DOMAIN listed = 1 .. Len(listed)
  BY DEF Projected, ClaimInv
<1>2. next - 1 = Len(best)
  BY <1>0, <1>1 DEF Projected, SortInv
<1>3. targets \in Seq(ToSet(best)) /\ Len(targets) = Len(best)
      /\ ToSet(targets) = ToSet(best)
  BY <1>1, <1>2 DEF Projected, SortInv, Holds, ToSet
<1>4. DOMAIN targets = 1 .. Len(targets) /\ Len(targets) \in Nat
  BY <1>1, <1>3
<1>5. \A r \in DOMAIN targets : targets[r] \in ToSet(listed)
  BY <1>3 DEF Projected, FromTheList, ToSet
<1>6. ASSUME NEW i \in DOMAIN listed, listed[i].Item.ID \notin call.nowPlaying
      PROVE  \E r \in DOMAIN targets : targets[r].Item.ID = listed[i].Item.ID
  <2>1. listed[i] \in call.pool /\ listed[i] \in ToSet(listed)
    BY <1>1 DEF ToSet
  <2>2. Ranked(listed[i])
    BY <1>0, <1>6, <2>1, EverythingIsSlotted DEF Projected, Ranked
  <2>3. Complete(best, listed)
    BY <1>0 DEF Projected, ClaimInv, Claimed
  <2>4. listed[i].Item.ID \in {c.Item.ID : c \in ToSet(best)}
    BY <2>1, <2>2, <2>3 DEF Complete
  <2>5. PICK c \in ToSet(targets) : c.Item.ID = listed[i].Item.ID
    BY <1>3, <2>4
  <2>. QED
    BY <2>5 DEF ToSet
<1>. QED
  BY <1>1, <1>4, <1>5, <1>6 DEF rows
\* The library a scoped item is found in is the one the meter attributes it to.
LEMMA OneLibrary ==
    ASSUME NEW sel, NEW item, NEW c \in ToSet(listed), c.Item.ID = item, Attributable(sel),
           scope(sel) = {} \/ Located[item] \cap scope(sel) # {}
    PROVE  admits(sel.libraries, attribute(item))
<1>1. CASE sel.libraries = {}
  BY <1>1 DEF admits
<1>2. CASE sel.libraries # {}
  <2>1. Located[item] \cap scope(sel) # {}
    BY <1>2 DEF Attributable
  <2>2. PICK l \in ToSet(Libraries) : l.ID \in sel.libraries /\ Located[item] \cap prefixes(l) # {}
    BY <2>1 DEF scope
  <2>3. PICK k \in DOMAIN Libraries : Libraries[k] = l
    BY DEF ToSet
  <2>4. k \in Claims(item)
    BY <2>2, <2>3 DEF Claims
  <2>5. Claims(item) \in SUBSET (1 .. Len(Libraries)) /\ Len(Libraries) \in Nat
    BY LibrariesAssumption DEF Claims
  <2>6. Claims(item) = {k}
    <3>1. IsFiniteSet(Claims(item))
      BY <2>5, PartsAreFinite
    <3>2. Cardinality(Claims(item)) <= 1 /\ Cardinality(Claims(item)) \in Nat
      BY <2>5, PartsAreFinite DEF Attributable
    <3>3. Cardinality(Claims(item)) # 0
      BY <2>4, <3>1, FS_EmptySet
    <3>4. Cardinality(Claims(item)) = 1
      BY <3>2, <3>3
    <3>. QED
      BY <2>4, <3>1, <3>4, FS_Singleton
  <2>7. Min(Claims(item)) = k
    <3>1. Claims(item) \subseteq Nat /\ Claims(item) # {}
      BY <2>4, <2>5
    <3>. QED
      BY <2>6, <3>1, MinIsLeast
  <2>8. attribute(item) = l.ID
    BY <2>3, <2>4, <2>7 DEF attribute
  <2>. QED
    BY <2>2, <2>8 DEF admits
<1>. QED
  BY <1>1, <1>2

\* No item has two rows.
LEMMA EachItemOneRow ==
    ASSUME Projected, NEW q \in DOMAIN targets, NEW r \in DOMAIN targets,
           targets[q].Item.ID = targets[r].Item.ID
    PROVE  q = r
<1>. DEFINE n == Len(best)
            T == ToSet(best)
<1>1. /\ best \in Seq(call.pool) /\ n \in Nat /\ DOMAIN best = 1 .. n
      /\ pc = "done" /\ Resolved
  BY DEF Projected, ClaimInv, Estimated, Resolved
<1>2. \A i, j \in 1 .. n : best[i].Item.ID = best[j].Item.ID => i = j
  BY <1>1 DEF Projected, ClaimInv, Claimed, OnePerItem
<1>3. targets \in Seq(T) /\ Len(targets) = n /\ ToSet(targets) = T /\ DOMAIN targets = 1 .. n
  <2>1. next - 1 = n
    BY <1>1 DEF Projected, SortInv
  <2>2. Holds(targets, n)
    BY <2>1 DEF Projected, SortInv
  <2>3. T = {best[i] : i \in 1 .. n}
    BY <1>1 DEF ToSet
  <2>. QED
    BY <1>1, <2>2, <2>3 DEF Holds
<1>4. best \in Bijection(1 .. n, T)
  BY <1>1, <1>2 DEF ToSet, Bijection, Injection, Surjection, IsInjective
<1>5. targets \in Surjection(1 .. n, T)
  <2>1. targets \in [1 .. n -> T]
    BY <1>3
  <2>2. \A t \in T : \E k \in 1 .. n : targets[k] = t
    BY <1>3 DEF ToSet
  <2>. HIDE DEF n, T
  <2>. QED
    BY <2>1, <2>2 DEF Surjection
<1>6. IsFiniteSet(1 .. n) /\ ExistsBijection(1 .. n, T)
  BY <1>1, <1>4, FS_Interval DEF ExistsBijection
<1>. HIDE DEF n, T
<1>7. Cardinality(T) = Cardinality(1 .. n)
  BY <1>6, FS_Bijection
<1>8. targets \in Injection(1 .. n, T)
  BY <1>5, <1>6, <1>7, FS_Surjection
<1>9. targets[q] \in T /\ targets[r] \in T
  BY <1>3
<1>10. targets[q] = targets[r]
  BY <1>1, <1>2, <1>9 DEF T, ToSet
<1>. QED
  BY <1>3, <1>8, <1>10 DEF Injection, IsInjective

\* Rows of one user and one tier, resume excepted, are in the order of the list.
LEMMA RowsInOrder ==
    ASSUME Projected, NEW q \in DOMAIN targets, NEW r \in DOMAIN targets, q < r,
           targets[q].Item.UserID = targets[r].Item.UserID,
           targets[q].Tier = targets[r].Tier, targets[r].Tier # "resume",
           NEW i \in DOMAIN listed, listed[i] = targets[r]
    PROVE  \E k \in 1 .. (i - 1) : listed[k].Item.ID = targets[q].Item.ID
<1>1. /\ best \in Seq(call.pool) /\ Len(best) \in Nat /\ DOMAIN best = 1 .. Len(best)
      /\ pc = "done" /\ Resolved /\ next - 1 = Len(best)
  BY DEF Projected, ClaimInv, Estimated, Resolved, SortInv
<1>2. ToSet(targets) = ToSet(best) /\ Stable(targets, Len(best)) /\ DOMAIN targets \subseteq Nat
  <2>1. Holds(targets, Len(best)) /\ Stable(targets, Len(best))
    BY <1>1 DEF Projected, SortInv
  <2>2. ToSet(best) = {best[k] : k \in 1 .. Len(best)}
    BY <1>1 DEF ToSet
  <2>3. DOMAIN targets \subseteq Nat
    BY RowsOfTheProjection
  <2>. QED
    BY <2>1, <2>2, <2>3 DEF Holds
<1>3. targets[q] \in ToSet(best) /\ targets[r] \in ToSet(best)
  BY <1>2 DEF ToSet
<1>4. PICK a \in DOMAIN best, b \in DOMAIN best : best[a] = targets[q] /\ best[b] = targets[r]
  BY <1>3 DEF ToSet
<1>5. tied(best[b], best[a])
  <2>1. Keyed(best[a]) /\ Keyed(best[b])
    BY <1>1, <1>3, <1>4, KeptAreKeyed DEF Projected
  <2>2. /\ slot(best[a]) = slot(best[b]) /\ rank(best[a]) = rank(best[b])
        /\ resumeKey(best[a]) = resumeKey(best[b])
    BY <1>4 DEF slot, rank, resumeKey
  <2>. QED
    BY <2>1, <2>2, LessByKeys DEF tied, Keyed
<1>6. a # b
  BY <1>2, <1>4, EachItemOneRow
<1>7. ~(b < a)
  <2>. SUFFICES ASSUME b < a PROVE FALSE
    OBVIOUS
  <2>1. PICK k \in DOMAIN targets, l \in DOMAIN targets :
          k < l /\ targets[k] = best[b] /\ targets[l] = best[a]
    BY <1>1, <1>2, <1>5 DEF Stable
  <2>2. k = r /\ l = q
    BY <1>4, <2>1, EachItemOneRow
  <2>. QED
    BY <1>2, <2>1, <2>2
<1>8. a < b
  BY <1>1, <1>6, <1>7
<1>9. Ranked(listed[i])
  BY <1>1, <1>3 DEF Projected, ClaimInv, Claimed, AllUnbeaten
<1>. QED
  BY <1>4, <1>8, <1>9 DEF Projected, FirstSeenFirst

\* An item the sweep warms has a row, which is its candidate, and which the same
\* boxes tick.
LEMMA SweptHaveRows ==
    ASSUME Projected, NEW sel \in Selections, Attributable(sel), NEW i \in swept(sel)
    PROVE  LET r == RowOf(listed[i].Item.ID)
           IN  r \in ticked(sel) /\ r \in DOMAIN targets /\ targets[r] = listed[i]
<1>. DEFINE item == listed[i].Item.ID
            r    == RowOf(item)
<1>1. /\ i \in DOMAIN listed /\ admits(sel.users, listed[i].Item.UserID)
      /\ listed[i].Tier \in DOMAIN sel.max
  BY DEF swept, collected
<1>2. item \notin call.nowPlaying /\ (scope(sel) = {} \/ Located[item] \cap scope(sel) # {})
  BY DEF swept
<1>3. r \in DOMAIN targets /\ targets[r].Item.ID = item
  BY <1>1, <1>2, RowsOfTheProjection DEF RowOf
<1>4. listed[i] \in ToSet(listed) /\ targets[r] \in ToSet(listed)
  BY <1>1, <1>3, RowsOfTheProjection DEF ToSet
<1>5. admits(sel.libraries, attribute(item))
  BY <1>2, <1>4, OneLibrary
<1>. HIDE DEF r
<1>6. targets[r] = listed[i]
  BY <1>3, <1>4 DEF Projected, Unshared
<1>7. /\ r \in DOMAIN rows /\ rows[r].u = listed[i].Item.UserID /\ rows[r].t = listed[i].Tier
      /\ rows[r].l = attribute(item)
  BY <1>3, <1>6 DEF rows
<1>8. r \in ticked(sel)
  BY <1>1, <1>5, <1>7 DEF ticked
<1>. QED
  BY <1>3, <1>6, <1>8 DEF r

\* A row before it in its share belongs to a candidate before it in the list; so
\* the cap leaves it, when it left the candidate.
LEMMA SweptAreCapped ==
    ASSUME Projected, NEW sel \in Selections, Attributable(sel), ResumeUncapped(sel),
           NEW i \in swept(sel)
    PROVE  RowOf(listed[i].Item.ID) \in capped(sel)
<1>. DEFINE c == listed[i]
            r == RowOf(c.Item.ID)
            ahead  == {q \in ticked(sel) : q < r /\ rows[q].u = rows[r].u /\ rows[q].t = rows[r].t}
            before == {k \in 1..(i - 1) : /\ listed[k].Item.UserID = c.Item.UserID
                                          /\ listed[k].Tier = c.Tier}
            limit == sel.max[c.Tier]
            Seen(q) == CHOOSE k \in 1 .. (i - 1) : listed[k].Item.ID = targets[q].Item.ID
            f == [q \in ahead |-> Seen(q)]
<1>1. r \in ticked(sel) /\ r \in DOMAIN targets /\ targets[r] = c
  BY SweptHaveRows
<1>2. /\ i \in DOMAIN listed /\ c.Tier \in DOMAIN sel.max
      /\ limit = 0 \/ Cardinality(before) < limit
  BY DEF swept, collected
<1>3. /\ Len(targets) \in Nat /\ DOMAIN targets = 1 .. Len(targets)
      /\ Len(listed) \in Nat /\ DOMAIN listed = 1 .. Len(listed) /\ DOMAIN rows = DOMAIN targets
      /\ \A q \in DOMAIN targets : targets[q] \in ToSet(listed)
  BY RowsOfTheProjection
<1>. HIDE DEF r
<1>4. /\ rows[r].u = c.Item.UserID /\ rows[r].t = c.Tier /\ sel.max[rows[r].t] = limit
  BY <1>1 DEF rows
<1>5. CASE limit = 0
  BY <1>1, <1>4, <1>5 DEF capped, r
<1>6. CASE limit # 0
  <2>1. c.Tier # "resume"
    BY <1>2, <1>6 DEF ResumeUncapped
  <2>2. ASSUME NEW q \in ahead
        PROVE  Seen(q) \in before /\ listed[Seen(q)].Item.ID = targets[q].Item.ID
    <3>1. q \in DOMAIN targets /\ q < r /\ rows[q].u = c.Item.UserID /\ rows[q].t = c.Tier
      BY <1>3, <1>4 DEF ticked
    <3>2. targets[q].Item.UserID = c.Item.UserID /\ targets[q].Tier = c.Tier
      BY <3>1 DEF rows
    <3>3. \E k \in 1 .. (i - 1) : listed[k].Item.ID = targets[q].Item.ID
      BY <1>1, <1>2, <2>1, <3>1, <3>2, RowsInOrder
    <3>4. Seen(q) \in 1 .. (i - 1) /\ listed[Seen(q)].Item.ID = targets[q].Item.ID
      BY <3>3
    <3>. HIDE DEF Seen
    <3>5. Seen(q) \in DOMAIN listed
      BY <1>2, <1>3, <3>4
    <3>6. listed[Seen(q)] = targets[q]
      <4>1. listed[Seen(q)] \in ToSet(listed) /\ targets[q] \in ToSet(listed)
        BY <1>3, <3>1, <3>5 DEF ToSet
      <4>. QED
        BY <3>4, <4>1 DEF Projected, Unshared
    <3>. QED
      BY <3>2, <3>4, <3>6
  <2>3. f \in Injection(ahead, before)
    <3>. HIDE DEF ahead, before, Seen
    <3>1. f \in [ahead -> before]
      BY <2>2
    <3>2. ASSUME NEW q \in ahead, NEW p \in ahead, f[q] = f[p] PROVE q = p
      <4>1. Seen(q) = Seen(p)
        BY <3>2
      <4>2. targets[q].Item.ID = targets[p].Item.ID
        BY <2>2, <4>1
      <4>3. q \in DOMAIN targets /\ p \in DOMAIN targets
        BY <1>3 DEF ahead, ticked
      <4>. QED
        BY <4>2, <4>3, EachItemOneRow
    <3>. HIDE DEF f
    <3>. QED
      BY <3>1, <3>2 DEF Injection, IsInjective
  <2>4. IsFiniteSet(before) /\ Cardinality(before) \in Nat
    <3>1. i - 1 \in Nat /\ before \in SUBSET (1 .. (i - 1))
      BY <1>2, <1>3
    <3>. HIDE DEF before
    <3>. QED
      BY <3>1, PartsAreFinite
  <2>5. IsFiniteSet(ahead) /\ Cardinality(ahead) <= Cardinality(before)
    <3>. HIDE DEF ahead, before, f
    <3>. QED
      BY <2>3, <2>4, FS_Injection
  <2>6. Cardinality(ahead) \in Nat /\ limit \in Nat
    <3>1. limit \in Nat
      BY <1>2, LibrariesAssumption
    <3>. HIDE DEF ahead, limit
    <3>. QED
      BY <2>5, <3>1, FS_CardinalityType
  <2>7. Cardinality(ahead) < limit
    <3>. HIDE DEF ahead, before, limit
    <3>. QED
      BY <1>2, <1>6, <2>4, <2>5, <2>6
  <2>. QED
    BY <1>1, <1>4, <2>7 DEF capped, r
<1>. QED
  BY <1>5, <1>6

\* Whatever libraries, selections, sizes and candidates there are: when every item
\* is one user's, of one tier and in one library, and resume is not capped, the
\* meter shows at least the bytes a sweep under the selection would warm.
THEOREM MeterNeverReadsLow == Spec => []MeterErrsHighOnUnsharedItems
<1>1. ASSUME Projected, NEW sel \in Selections, Attributable(sel), ResumeUncapped(sel)
      PROVE  sweptBytes(sel) <= wapAggregate(sel)
  <2>. DEFINE x == [i \in DOMAIN listed |-> IF i \in swept(sel) THEN projectBytes(listed[i]) ELSE 0]
              y == [r \in DOMAIN rows |-> IF r \in capped(sel) THEN rows[r].b ELSE 0]
              met == [i \in DOMAIN listed |-> RowOf(listed[i].Item.ID)]
  <2>1. /\ Len(targets) \in Nat /\ DOMAIN rows = 1 .. Len(targets) /\ DOMAIN rows = DOMAIN targets
        /\ Len(listed) \in Nat /\ DOMAIN listed = 1 .. Len(listed)
        /\ \A r \in DOMAIN targets : targets[r] \in ToSet(listed)
    BY <1>1, RowsOfTheProjection
  <2>2. ASSUME NEW c \in ToSet(listed) PROVE projectBytes(c) \in Nat
    <3>1. c \in call.pool /\ call \in Calls /\ call.cfg = fullCfg
      BY <1>1 DEF Projected, ClaimInv, ResolvedInv, Estimated, ToSet
    <3>2. HeadAndTail[c.Item.ID] \in Nat /\ estimateResumeFrontBytes \in Nat
      BY <3>1, BytesAssumption
    <3>. QED
      BY <3>2 DEF projectBytes
  <2>3. \A r \in DOMAIN rows : rows[r].b = projectBytes(targets[r])
    BY DEF rows
  <2>4. /\ x \in Seq(Nat) /\ Len(x) = Len(listed) /\ DOMAIN x = 1 .. Len(listed)
    <3>1. \A i \in DOMAIN listed : listed[i] \in ToSet(listed)
      BY DEF ToSet
    <3>2. x \in [1 .. Len(listed) -> Nat]
      BY <2>1, <2>2, <3>1
    <3>. HIDE DEF x
    <3>. QED
      BY <2>1, <3>2
  <2>5. /\ y \in Seq(Nat) /\ Len(y) = Len(targets)
    <3>1. y \in [1 .. Len(targets) -> Nat]
      BY <2>1, <2>2, <2>3
    <3>. HIDE DEF y
    <3>. QED
      BY <2>1, <3>1
  <2>6. ASSUME NEW i \in 1 .. Len(listed), x[i] > 0
        PROVE  i \in swept(sel) /\ met[i] \in 1 .. Len(targets) /\ x[i] <= y[met[i]]
               /\ targets[met[i]] = listed[i]
    <3>1. i \in swept(sel) /\ x[i] = projectBytes(listed[i])
      BY <2>1, <2>6
    <3>. DEFINE r == RowOf(listed[i].Item.ID)
    <3>2. r \in DOMAIN targets /\ targets[r] = listed[i] /\ r \in capped(sel) /\ met[i] = r
      BY <1>1, <2>1, <3>1, SweptHaveRows, SweptAreCapped
    <3>. HIDE DEF r, met
    <3>3. y[r] = projectBytes(listed[i])
      BY <2>1, <2>3, <3>2
    <3>4. projectBytes(listed[i]) \in Nat
      BY <2>1, <2>2 DEF ToSet
    <3>. QED
      BY <2>1, <3>1, <3>2, <3>3, <3>4
  <2>7. ASSUME NEW i \in 1 .. Len(listed), NEW k \in 1 .. Len(listed), x[i] > 0, x[k] > 0,
               met[i] = met[k]
        PROVE  i = k
    <3>1. i \in swept(sel) /\ k \in swept(sel) /\ listed[i] = listed[k]
      <4>. HIDE DEF x, met
      <4>. QED
        BY <2>6, <2>7
    <3>2. i <= k /\ k <= i
      BY <3>1 DEF swept
    <3>. QED
      BY <3>2
  <2>. HIDE DEF x, y, met
  <2>8. Total(x) <= Total(y)
    BY <2>4, <2>5, <2>6, <2>7, NoMoreInTotal
  <2>. QED
    BY <2>8 DEF sweptBytes, wapAggregate, x, y
<1>2. ResolvedInv /\ ClaimInv /\ SortInv /\ FromTheList /\ FirstSeenFirst
        => MeterErrsHighOnUnsharedItems
  BY <1>1 DEF MeterErrsHighOnUnsharedItems, Projected
<1>. QED
  BY <1>2, PriorityIsResolved, ClaimInvariant, SortInvariant, KeptWasListed, FirstSeenIsFirst, PTL
=============================================================================
