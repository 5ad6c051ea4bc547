----------------------------- MODULE PolicyProofs -----------------------------
(***************************************************************************)
(* What holds of the routing policy and of the log that automatic learning *)
(* reads, and of the benchmark runtime, for all constants: three parts     *)
(* that work through lists, by positions.  RoutingPolicy: the core runs    *)
(* the saved policy, only the undo of a change makes a policy that cannot  *)
(* be built, the local trace tells where the core sends a connection, and  *)
(* the warnings about ports are exact.  TrafficLog: the cursor is exact,   *)
(* and a learning cycle takes no undecided domain from the queue.  Bench:  *)
(* no candidate is lost or probed twice, and a search tells the truth      *)
(* about what it found.                                                    *)
(***************************************************************************)
EXTENDS RoutingPolicy, TrafficLog, Bench, SequenceTheorems, FiniteSetTheorems,
        WellFoundedInduction, TLAPS

-----------------------------------------------------------------------------
(* Parts of lists, by positions (module Positions).                        *)

(* The numbers up to n are n.                                              *)
LEMMA UpTo ==
  ASSUME NEW n \in Nat
  PROVE  IsFiniteSet(1..n) /\ Cardinality(1..n) = n
<1>1. 1 \in Int /\ n \in Int /\ (1 > n => n = 0) /\ n - 1 + 1 = n
  OBVIOUS
<1>2. IsFiniteSet(1..n) /\ Cardinality(1..n) = (IF 1 > n THEN 0 ELSE n - 1 + 1)
  BY <1>1, FS_Interval, Zenon
<1> QED
  BY <1>1, <1>2, Zenon

(* Each number up to the size of a set of positions is the rank of one     *)
(* of them, and only of one.                                               *)
LEMMA RankOrder ==
  ASSUME NEW n \in Nat, NEW I \in SUBSET (1..n), NEW i \in I, NEW j \in I, i < j
  PROVE  Rank(I, i) < Rank(I, j)
<1> DEFINE A == {k \in I : k <= i}
           B == {k \in I : k <= j}
<1>1. IsFiniteSet(I)
  BY UpTo, FS_Subset
<1>2. A \subseteq B /\ B \subseteq I /\ j \in B /\ j \notin A
  <2>1. i \in Nat /\ j \in Nat /\ \A k \in I : k \in Nat
    OBVIOUS
  <2>2. ASSUME NEW k \in A PROVE k \in B
    <3>1. k \in I /\ k <= i /\ k \in Nat
      BY <2>1
    <3>2. k <= j
      BY <2>1, <3>1
    <3> QED
      BY <3>1, <3>2
  <2>3. j \in B /\ j \notin A
    BY <2>1
  <2> QED
    BY <2>2, <2>3
<1>3. Rank(I, i) = Cardinality(A) /\ Rank(I, j) = Cardinality(B)
  BY DEF Rank
<1> HIDE DEF A, B
<1>4. IsFiniteSet(B)
  BY <1>1, <1>2, FS_Subset
<1>5. /\ IsFiniteSet(A) /\ Cardinality(A) <= Cardinality(B)
      /\ Cardinality(B) = Cardinality(A) => B = A
  BY <1>2, <1>4, FS_Subset
<1>6. Cardinality(A) \in Nat /\ Cardinality(B) \in Nat
  BY <1>4, <1>5, FS_CardinalityType
<1> QED
  BY <1>2, <1>3, <1>5, <1>6

(* The rank of a position is at most their number ...                      *)
LEMMA RankRange ==
  ASSUME NEW n \in Nat, NEW I \in SUBSET (1..n), NEW i \in I
  PROVE  Rank(I, i) \in 1..Cardinality(I) /\ Cardinality(I) \in Nat
<1> DEFINE A == {k \in I : k <= i}
<1>1. IsFiniteSet(I)
  BY UpTo, FS_Subset
<1>2. A \subseteq I /\ i \in A /\ Rank(I, i) = Cardinality(A)
  BY DEF Rank
<1> HIDE DEF A
<1>3. IsFiniteSet(A) /\ Cardinality(A) <= Cardinality(I)
  BY <1>1, <1>2, FS_Subset
<1>4. Cardinality(A) \in Nat /\ Cardinality(I) \in Nat
  BY <1>1, <1>3, FS_CardinalityType
<1>5. Cardinality(A) # 0
  BY <1>2, <1>3, FS_EmptySet
<1> QED
  BY <1>2, <1>3, <1>4, <1>5

(* ... and each such number is the rank of exactly one of them.            *)
LEMMA NthFound ==
  ASSUME NEW n \in Nat, NEW I \in SUBSET (1..n)
  PROVE  /\ Cardinality(I) \in Nat
         /\ \A k \in 1..Cardinality(I) : Nth(I, k) \in I /\ Rank(I, Nth(I, k)) = k
         /\ \A i \in I : Rank(I, i) \in 1..Cardinality(I) /\ Nth(I, Rank(I, i)) = i
<1> DEFINE c == Cardinality(I)
           rank == [i \in I |-> Rank(I, i)]
<1>1. IsFiniteSet(I)
  BY UpTo, FS_Subset
<1>2. c \in Nat
  BY <1>1, FS_CardinalityType
<1>3. \A i \in I : Rank(I, i) \in 1..c
  BY RankRange
<1>4. ASSUME NEW i \in I, NEW j \in I, Rank(I, i) = Rank(I, j)
      PROVE  i = j
  <2>1. Rank(I, i) \in Nat
    BY <1>2, <1>3
  <2>2. i \in Nat /\ j \in Nat
    OBVIOUS
  <2>3. ASSUME i < j PROVE FALSE
    <3>1. Rank(I, i) < Rank(I, j)
      BY <2>3, RankOrder
    <3> QED
      BY <1>4, <2>1, <3>1
  <2>4. ASSUME j < i PROVE FALSE
    <3>1. Rank(I, j) < Rank(I, i)
      BY <2>4, RankOrder
    <3> QED
      BY <1>4, <2>1, <3>1
  <2> QED
    BY <2>2, <2>3, <2>4
<1>5. rank \in Injection(I, 1..c)
  BY <1>3, <1>4 DEF Injection, IsInjective
<1>6. IsFiniteSet(1..c) /\ Cardinality(1..c) = c
  BY <1>2, UpTo
<1> HIDE DEF rank
<1>7. rank \in Surjection(I, 1..c)
  BY <1>5, <1>6, FS_Injection
<1>8. ASSUME NEW k \in 1..c
      PROVE  \E i \in I : Rank(I, i) = k
  BY <1>7 DEF Surjection, rank
<1>9. ASSUME NEW k \in 1..c
      PROVE  Nth(I, k) \in I /\ Rank(I, Nth(I, k)) = k
  BY <1>8, <1>9 DEF Nth
<1>10. ASSUME NEW i \in I
       PROVE  Rank(I, i) \in 1..c /\ Nth(I, Rank(I, i)) = i
  BY <1>3, <1>4, <1>9
<1> QED
  BY <1>2, <1>9, <1>10

(* Kept has the elements of the positions kept, and no others.             *)
LEMMA KeptElements ==
  ASSUME NEW S, NEW s \in Seq(S), NEW I \in SUBSET (1..Len(s))
  PROVE  /\ Kept(s, I) \in Seq(S) /\ Len(Kept(s, I)) = Cardinality(I) /\ Cardinality(I) \in Nat
         /\ \A k \in 1..Cardinality(I) : Kept(s, I)[k] = s[Nth(I, k)]
         /\ \A x : (\E k \in 1..Cardinality(I) : Kept(s, I)[k] = x) <=> (\E i \in I : s[i] = x)
<1> DEFINE c == Cardinality(I)
<1>1. Len(s) \in Nat /\ \A i \in 1..Len(s) : s[i] \in S
  BY LenProperties, ElementOfSeq
<1>2. /\ c \in Nat /\ \A k \in 1..c : Nth(I, k) \in I
      /\ \A i \in I : Rank(I, i) \in 1..c /\ Nth(I, Rank(I, i)) = i
  BY <1>1, NthFound
<1>3. Kept(s, I) = [k \in 1..c |-> s[Nth(I, k)]]
  BY DEF Kept
<1> HIDE DEF c
<1>4. Kept(s, I) \in [1..c -> S]
  BY <1>1, <1>2, <1>3
<1>5. Kept(s, I) \in Seq(S) /\ Len(Kept(s, I)) = c
  BY <1>2, <1>4
<1> QED
  BY <1>2, <1>3, <1>5 DEF c

(* A set of numbers has a least one.                                       *)
LEMMA LeastNumber ==
  ASSUME NEW U, U # {}, U \subseteq Nat
  PROVE  \E m \in U : \A n \in U : m <= n
<1> DEFINE R == OpToRel(<, Nat)
<1>1. IsWellFoundedOn(R, Nat) /\ \A x, y \in Nat : x < y => <<x, y>> \in R
  BY NatLessThanWellFounded DEF OpToRel
<1> HIDE DEF R
<1>2. \E x \in U : \A y \in U : <<y, x>> \notin R
  <2>1. \A r, A, B : IsWellFoundedOn(r, A) /\ B \subseteq A /\ B # {} =>
                       \E x \in B : \A y \in B : ~ (<<y, x>> \in r)
    BY WFMin, Zenon
  <2>2. IsWellFoundedOn(R, Nat)
    BY <1>1
  <2> QED
    BY <2>1, <2>2
<1>3. PICK m \in U : \A y \in U : <<y, m>> \notin R
  BY <1>2
<1>4. \A n \in U : ~(n < m)
  BY <1>1, <1>3
<1> QED
  BY <1>4

(* A set of numbers that has 0 and with each number the next has them all: *)
(* there would be a least one it has not.                                  *)
LEMMA Counting ==
  ASSUME NEW T, 0 \in T, \A n \in Nat : n \in T => n + 1 \in T
  PROVE  Nat \subseteq T
<1> SUFFICES ASSUME Nat \ T # {} PROVE FALSE
  OBVIOUS
<1>1. PICK m \in Nat \ T : \A n \in Nat \ T : m <= n
  BY LeastNumber
<1>2. m \in Nat /\ m # 0
  OBVIOUS
<1>3. m - 1 \in Nat /\ ~(m <= m - 1) /\ (m - 1) + 1 = m
  BY <1>2
<1>4. m - 1 \in T
  BY <1>1, <1>3
<1> QED
  BY <1>3, <1>4

-----------------------------------------------------------------------------
(* The records of the saved policy and of what routing reads of the rest.  *)
HasFields(p) ==
  p = [rules |-> p.rules, devices |-> p.devices, split |-> p.split, safe |-> p.safe]
IsPolicy(p) ==
  /\ HasFields(p) /\ DOMAIN p.split = SplitFields
  /\ IsSequence(p.rules) /\ IsSequence(p.devices)
IsWorld(w) == DOMAIN w = WorldFields

Targetable(p) == ValidTargets(world, p, MaxFixed)

(* What an activation that fails brings back is what was saved before it;  *)
(* where it brings nothing back, the change waits or there is none.        *)
Undoes ==
  /\ op.undo \in {"restore", "restore safe mode", "keep"} /\ IsPolicy(op.prev)
  /\ op.undo = "restore" =>
       /\ op.prev.safe = policy.safe /\ op.prev.devices = policy.devices
       /\ op.prev.split.enabled => policy.split.enabled \/ Targetable(policy)
  /\ op.undo = "restore safe mode" => policy = [op.prev EXCEPT !.safe = policy.safe]
  /\ op.undo = "keep" => deferred \/ (policy = op.prev /\ ~op.wasDeferred)

(* A core that runs has the configuration of policy p.                     *)
Runs(p) ==
  running # Stopped /\ world.active # NoServer
    => running = Config(world, p)

PolicyInv ==
  /\ IsPolicy(policy) /\ IsWorld(world)
  /\ op = NoOp \/ op.stage \in {"saved", "generated"}
  /\ Idle => (~deferred => Runs(policy))
  /\ ~Idle => Undoes /\ (~op.wasDeferred => Runs(op.prev))
  /\ op.stage = "generated" =>
       /\ world.active # NoServer => op.config = Config(world, policy)
       /\ ~op.runs => running = Stopped

-----------------------------------------------------------------------------
(* A sequence is one of its own elements.                                  *)
LEMMA Sequences ==
  /\ \A S : \A s \in Seq(S) : IsSequence(s)
  /\ \A s : IsSequence(s) => /\ DOMAIN s = 1..Len(s) /\ Len(s) \in Nat
                             /\ s = [i \in 1..Len(s) |-> s[i]]
                             /\ ToSet(s) = {s[i] : i \in 1..Len(s)}
  /\ \A n \in Nat : \A s : s = [i \in 1..n |-> s[i]] => IsSequence(s)
<1>1. ASSUME NEW S, NEW s \in Seq(S)
      PROVE  IsSequence(s)
  <2>1. Len(s) \in Nat /\ s \in [1..Len(s) -> S]
    BY LenProperties
  <2>2. s \in [1..Len(s) -> ToSet(s)]
    BY <2>1 DEF ToSet
  <2> QED
    BY <2>1, <2>2 DEF IsSequence
<1>2. ASSUME NEW s, IsSequence(s)
      PROVE  /\ DOMAIN s = 1..Len(s) /\ Len(s) \in Nat
             /\ s = [i \in 1..Len(s) |-> s[i]] /\ ToSet(s) = {s[i] : i \in 1..Len(s)}
  <2>1. s \in Seq(ToSet(s))
    BY <1>2 DEF IsSequence
  <2>2. DOMAIN s = 1..Len(s) /\ Len(s) \in Nat /\ s \in [1..Len(s) -> ToSet(s)]
    BY <2>1, LenProperties
  <2> QED
    BY <2>2 DEF ToSet
<1>3. ASSUME NEW n \in Nat, NEW s, s = [i \in 1..n |-> s[i]]
      PROVE  IsSequence(s)
  <2>1. DOMAIN s = 1..n
    BY <1>3
  <2>2. s \in [1..n -> ToSet(s)]
    BY <1>3, <2>1 DEF ToSet
  <2> QED
    BY <2>2 DEF IsSequence
<1> QED
  BY <1>1, <1>2, <1>3

(* A part of a sequence is a sequence of some of its elements.             *)
LEMMA KeptSequence ==
  ASSUME NEW s, IsSequence(s), NEW I \in SUBSET (DOMAIN s)
  PROVE  /\ IsSequence(Kept(s, I))
         /\ \A k \in DOMAIN Kept(s, I) : \E i \in I : Kept(s, I)[k] = s[i]
<1>1. s \in Seq(ToSet(s)) /\ I \in SUBSET (1..Len(s))
  BY Sequences DEF IsSequence
<1>2. /\ Kept(s, I) \in Seq(ToSet(s)) /\ Len(Kept(s, I)) = Cardinality(I)
      /\ \A x : (\E k \in 1..Cardinality(I) : Kept(s, I)[k] = x) <=> (\E i \in I : s[i] = x)
  BY <1>1, KeptElements
<1>3. IsSequence(Kept(s, I)) /\ DOMAIN Kept(s, I) = 1..Cardinality(I)
  BY <1>2, Sequences
<1> QED
  BY <1>2, <1>3

(* Two sequences joined are one, of the elements of both.                  *)
Joins(u, s, t) ==
  /\ IsSequence(u)
  /\ \A k \in DOMAIN u : (\E i \in DOMAIN s : u[k] = s[i]) \/ (\E i \in DOMAIN t : u[k] = t[i])

(* A list joined to another is a list of what either has.                  *)
LEMMA JoinedSequence ==
  ASSUME NEW s, IsSequence(s), NEW t, IsSequence(t)
  PROVE  Joins(s \o t, s, t)
<1> DEFINE S == ToSet(s) \cup ToSet(t)
<1>1. /\ Len(s) \in Nat /\ Len(t) \in Nat /\ DOMAIN s = 1..Len(s) /\ DOMAIN t = 1..Len(t)
      /\ s \in [1..Len(s) -> ToSet(s)] /\ t \in [1..Len(t) -> ToSet(t)]
  <2>1. s \in Seq(ToSet(s)) /\ t \in Seq(ToSet(t))
    BY DEF IsSequence
  <2> QED
    BY <2>1, LenProperties
<1>2. s \in Seq(S) /\ t \in Seq(S)
  <2>1. s \in [1..Len(s) -> S] /\ t \in [1..Len(t) -> S]
    BY <1>1
  <2> HIDE DEF S
  <2> QED
    BY <1>1, <2>1
<1> HIDE DEF S
<1>3. /\ s \o t \in Seq(S) /\ Len(s \o t) = Len(s) + Len(t)
      /\ \A k \in 1..(Len(s) + Len(t)) :
           (s \o t)[k] = IF k <= Len(s) THEN s[k] ELSE t[k - Len(s)]
  BY <1>2, ConcatProperties
<1>4. IsSequence(s \o t) /\ DOMAIN (s \o t) = 1..(Len(s) + Len(t))
  BY <1>3, Sequences
<1>5. ASSUME NEW k \in 1..(Len(s) + Len(t))
      PROVE  \/ \E i \in 1..Len(s) : (s \o t)[k] = s[i]
             \/ \E i \in 1..Len(t) : (s \o t)[k] = t[i]
  <2>1. k <= Len(s) => k \in 1..Len(s)
    BY <1>1
  <2>2. ~(k <= Len(s)) => k - Len(s) \in 1..Len(t)
    BY <1>1
  <2> QED
    BY <1>3, <2>1, <2>2
<1> QED
  BY <1>1, <1>4, <1>5 DEF Joins

(* Fewer fixed servers are as good.                                        *)
LEMMA FewerServers ==
  ASSUME NEW w, NEW p, NEW q,
         FixedServers(q) \subseteq FixedServers(p),
         ValidTargets(w, p, MaxFixed)
  PROVE  ValidTargets(w, q, MaxFixed)
<1> DEFINE P == FixedServers(p) \ w.dead
           Q == FixedServers(q) \ w.dead
<1>1. IsFiniteSet(Servers) /\ MaxFixed \in Nat
  BY RoutesAssumption, RoutingPolicyAssumption
<1>2. IsFiniteSet(P) /\ Q \subseteq P
  <2>1. P \subseteq Servers
    BY DEF FixedServers
  <2> HIDE DEF P
  <2>2. IsFiniteSet(P)
    BY <1>1, <2>1, FS_Subset
  <2> QED
    BY <2>2 DEF P
<1>3. Cardinality(P) <= MaxFixed /\ FixedServers(q) \subseteq w.present
  BY DEF ValidTargets
<1> HIDE DEF P, Q
<1>4. IsFiniteSet(Q) /\ Cardinality(Q) <= Cardinality(P)
  BY <1>2, FS_Subset
<1>5. Cardinality(P) \in Nat /\ Cardinality(Q) \in Nat
  BY <1>2, <1>4, FS_CardinalityType
<1>6. Cardinality(Q) <= MaxFixed
  BY <1>1, <1>3, <1>4, <1>5
<1> QED
  BY <1>3, <1>6 DEF ValidTargets, Q

(* The configuration does not depend on which profiles there are.          *)
LEMMA ConfigOf ==
  ASSUME NEW v, NEW w, NEW p, v.dead = w.dead, v.active = w.active, v.geobase = w.geobase
  PROVE  Config(v, p) = Config(w, p)
<1>1. \A t : Resolve(v, t) = Resolve(w, t)
  BY DEF Resolve
<1>2. \A r : RuleEntry(v, r) = RuleEntry(w, r)
  BY <1>1 DEF RuleEntry
<1>3. RuleEntries(v, p.rules) = RuleEntries(w, p.rules)
  BY <1>2 DEF RuleEntries
<1>4. DeviceEntries(v, p.devices) = DeviceEntries(w, p.devices)
  BY <1>1 DEF DeviceEntries
<1>5. SystemEntries(v, p.split, p.safe) = SystemEntries(w, p.split, p.safe)
  BY DEF SystemEntries, SystemQuicBlocked
<1> QED
  BY <1>3, <1>4, <1>5 DEF Config

(* Saving a change of an idle daemon keeps the invariant.                  *)
LEMMA SaveKeeps ==
  ASSUME PolicyInv, Idle, NEW new, IsPolicy(new), NEW apply \in BOOLEAN, NEW how,
         Save(new, apply, how), how \in {"restore", "restore safe mode", "keep"},
         how = "restore" =>
           /\ new.safe = policy.safe /\ new.devices = policy.devices
           /\ policy.split.enabled => new.split.enabled \/ Targetable(new),
         how = "restore safe mode" => new = [policy EXCEPT !.safe = new.safe]
  PROVE  PolicyInv'
<1>1. policy' = new /\ deferred' /\ UNCHANGED <<world, running, faults>>
  BY DEF Save
<1>2. /\ IsWorld(world)' /\ IsPolicy(policy)' /\ \A p : Runs(p)' <=> Runs(p)
      /\ \A p : Targetable(p)' <=> Targetable(p)
  BY <1>1 DEF PolicyInv, IsWorld, IsPolicy, HasFields, Runs, Targetable
<1>3. CASE apply
  <2>1. op' = [stage |-> "saved", undo |-> how, start |-> (how = "restore safe mode"),
               prev |-> policy, wasDeferred |-> deferred]
    BY <1>3 DEF Save, Start
  <2>2. /\ op'.stage = "saved" /\ op'.undo = how /\ op'.prev = policy
        /\ op'.wasDeferred = deferred /\ ~Idle'
    BY <2>1 DEF Idle
  <2>3. /\ IsPolicy(op.prev)'
        /\ (op.undo = "restore" =>
              /\ op.prev.safe = policy.safe /\ op.prev.devices = policy.devices
              /\ op.prev.split.enabled => policy.split.enabled \/ Targetable(policy))'
    BY <1>1, <1>2, <2>2 DEF PolicyInv, IsPolicy, HasFields
  <2>4. Undoes'
    BY <1>1, <2>2, <2>3 DEF Undoes
  <2> QED
    BY <1>1, <1>2, <2>2, <2>4 DEF PolicyInv
<1>4. CASE ~apply
  <2>1. op' = op /\ Idle'
    BY <1>4 DEF Save, Idle
  <2> QED
    BY <1>1, <1>2, <2>1 DEF PolicyInv, Idle
<1> QED
  BY <1>3, <1>4

(* Undoing a change that failed keeps the invariant.                       *)
LEMMA FailKeeps ==
  ASSUME PolicyInv, ~Idle, Fail
  PROVE  PolicyInv'
<1>1. /\ UNCHANGED <<world, running>> /\ op' = NoOp
      /\ deferred' = IF op.undo = "keep" THEN deferred ELSE op.wasDeferred
      /\ IsPolicy(op.prev) /\ IsPolicy(policy) /\ Undoes /\ (~op.wasDeferred => Runs(op.prev))
  BY DEF Fail, PolicyInv, Undoes
<1>2. \A p : Runs(p)' <=> Runs(p)
  BY <1>1 DEF Runs
<1>3. IsPolicy(policy)' /\ (~deferred' => policy' = op.prev /\ ~op.wasDeferred)
  <2>1. CASE op.undo = "restore"
    <3>1. policy' = [op.prev EXCEPT !.safe = policy.safe]
      BY <2>1 DEF Fail
    <3>2. policy' = op.prev
      BY <1>1, <2>1, <3>1 DEF Undoes, IsPolicy, HasFields
    <3> QED
      BY <1>1, <2>1, <3>2
  <2>2. CASE op.undo = "restore safe mode"
    <3>1. policy' = [policy EXCEPT !.safe = op.prev.safe]
      BY <2>2 DEF Fail
    <3>2. policy' = op.prev
      BY <1>1, <2>2, <3>1 DEF Undoes, IsPolicy, HasFields
    <3> QED
      BY <1>1, <2>2, <3>2
  <2>3. CASE op.undo = "keep"
    <3>1. policy' = policy
      BY <2>3 DEF Fail
    <3> QED
      BY <1>1, <2>3, <3>1 DEF Undoes
  <2> QED
    BY <1>1, <2>1, <2>2, <2>3 DEF Undoes
<1>4. Idle' /\ op'.stage = "none"
  BY <1>1 DEF Idle, NoOp
<1> QED
  BY <1>1, <1>2, <1>3, <1>4 DEF PolicyInv, IsWorld

(* What the handlers make of the saved policy.                             *)
LEMMA ChangedPolicy ==
  ASSUME NEW p, IsPolicy(p), NEW q, HasFields(q),
         q.rules = p.rules \/ IsSequence(q.rules),
         q.devices = p.devices \/ IsSequence(q.devices),
         DOMAIN q.split = DOMAIN p.split
  PROVE  IsPolicy(q)
  BY DEF IsPolicy, HasFields

(* A handler that checks the targets leaves a policy that can be built.    *)
LEMMA CheckedSave ==
  ASSUME NEW new, NEW apply, NEW how, Save(new, apply, how), Targetable(new)
  PROVE  Buildable(world, policy)'
<1>1. policy' = new /\ world' = world
  BY DEF Save
<1> QED
  BY <1>1 DEF Buildable, Targetable

(* One that adds no fixed server leaves it as it was.                      *)
LEMMA FewerSaved ==
  ASSUME NEW new, NEW apply, NEW how, Save(new, apply, how),
         new.split.enabled <=> policy.split.enabled,
         FixedServers(new) \subseteq FixedServers(policy), Buildable(world, policy)
  PROVE  Buildable(world, policy)'
<1>1. policy' = new /\ world' = world
  BY DEF Save
<1>2. new.split.enabled => Targetable(new)
  BY FewerServers DEF Buildable, Targetable
<1> QED
  BY <1>1, <1>2 DEF Buildable, Targetable

(* Fixed servers are targets of rules and devices.                         *)
LEMMA FixedOf ==
  ASSUME NEW p, NEW q,
         \A i \in DOMAIN q.rules : q.rules[i].target \in Servers =>
           \E j \in DOMAIN p.rules : p.rules[j] = q.rules[i],
         \A i \in DOMAIN q.devices :
           \E j \in DOMAIN p.devices : p.devices[j] = q.devices[i]
  PROVE  FixedServers(q) \subseteq FixedServers(p)
<1> SUFFICES ASSUME NEW s \in FixedServers(q) PROVE s \in FixedServers(p)
  OBVIOUS
<1>1. s \in Servers
  BY DEF FixedServers
<1>2. CASE \E i \in DOMAIN q.rules : q.rules[i].enabled /\ q.rules[i].target = s
  BY <1>1, <1>2 DEF FixedServers
<1>3. CASE \E i \in DOMAIN q.devices : q.devices[i].enabled /\ q.devices[i].target = s
  BY <1>1, <1>3 DEF FixedServers
<1> QED
  BY <1>2, <1>3 DEF FixedServers

(* What is shown of each handler: it keeps the invariant and a policy that *)
(* can be built.                                                           *)
StepKeeps ==
  PolicyInv' /\ (Buildable(world, policy) => Buildable(world, policy)')

(* Rules sent by a client were checked (handle_routing_rules).             *)
LEMMA ReplaceRulesKeeps ==
  ASSUME PolicyInv, NEW rules \in RuleLists, NEW apply \in BOOLEAN,
         ReplaceRules(rules, apply)
  PROVE  StepKeeps
<1> DEFINE new == [policy EXCEPT !.rules = rules]
           undone == IF StrictDeletion(policy.rules, rules) THEN "keep" ELSE "restore"
<1>1. Idle /\ Targetable(new) /\ Save(new, apply, undone)
  BY DEF ReplaceRules, Targetable
<1>2. IsPolicy(policy) /\ IsSequence(rules)
  BY RoutingPolicyAssumption DEF PolicyInv
<1>3. /\ HasFields(new) /\ new.safe = policy.safe /\ new.devices = policy.devices
      /\ new.split = policy.split /\ new.rules = rules
  BY <1>2 DEF IsPolicy, HasFields
<1>4. undone \in {"restore", "keep"}
  OBVIOUS
<1> HIDE DEF new, undone
<1>5. IsPolicy(new)
  BY <1>2, <1>3, ChangedPolicy
<1>6. PolicyInv'
  BY <1>1, <1>3, <1>4, <1>5, SaveKeeps
<1>7. Buildable(world, policy)'
  BY <1>1, CheckedSave
<1> QED
  BY <1>6, <1>7 DEF StepKeeps

(* Setting the route of a resource changes a rule or adds one.             *)
LEMMA UpsertedRules ==
  ASSUME NEW rules, IsSequence(rules), NEW host, NEW target
  PROVE  IsSequence(Upsert(rules, host, target))
<1> DEFINE named == {i \in DOMAIN rules : Suffix(host) \in rules[i].domains}
           first == CHOOSE i \in named : \A j \in named : i <= j
           rule == [name |-> host, enabled |-> TRUE, kind |-> "",
                pattern |-> NoPattern, target |-> target,
                domains |-> {Suffix(host)}, ips |-> {}, services |-> {},
                ports |-> {}, network |-> AnyNetwork, mode |-> "include"]
           x == [rules[first] EXCEPT !.enabled = TRUE, !.target = target]
           changed == [rules EXCEPT ![first] = x]
<1>1. /\ Len(rules) \in Nat /\ rules = [i \in 1..Len(rules) |-> rules[i]]
      /\ rules \in Seq(ToSet(rules)) /\ DOMAIN rules = 1..Len(rules)
  BY Sequences DEF IsSequence
<1>2. Upsert(rules, host, target) = IF named # {} THEN changed ELSE Append(rules, rule)
  BY DEF Upsert
<1> HIDE DEF named, first, x
<1>3. changed = [i \in 1..Len(rules) |-> changed[i]]
  <2>1. DOMAIN changed = 1..Len(rules)
    BY <1>1
  <2> QED
    BY <2>1
<1> HIDE DEF rule
<1>4. Append(rules, rule) \in Seq(ToSet(rules) \cup {rule})
  <2> DEFINE S == ToSet(rules) \cup {rule}
  <2>1. rules \in [1..Len(rules) -> ToSet(rules)]
    BY <1>1, LenProperties
  <2>2. rules \in [1..Len(rules) -> S]
    BY <2>1
  <2>3. rule \in S
    OBVIOUS
  <2> HIDE DEF S
  <2>4. rules \in Seq(S)
    BY <1>1, <2>2
  <2>5. Append(rules, rule) \in Seq(S)
    BY <2>3, <2>4, AppendProperties
  <2> QED
    BY <2>5 DEF S
<1>5. IsSequence(Append(rules, rule))
  BY <1>4, Sequences
<1> HIDE DEF changed
<1>6. IsSequence(changed)
  BY <1>1, <1>3, Sequences
<1> QED
  BY <1>2, <1>5, <1>6

(* handle_routing_resource_route checks the targets it leaves.             *)
LEMMA RouteResourceKeeps ==
  ASSUME PolicyInv, NEW host, NEW target, RouteResource(host, target)
  PROVE  StepKeeps
<1> DEFINE rules == Upsert(policy.rules, host, target)
           new == [policy EXCEPT !.rules = rules]
<1>1. Idle /\ Targetable(new) /\ Save(new, TRUE, "restore")
  BY DEF RouteResource, Targetable
<1>2. IsPolicy(policy) /\ IsSequence(rules)
  BY UpsertedRules DEF PolicyInv, IsPolicy
<1> HIDE DEF rules
<1>3. /\ HasFields(new) /\ new.safe = policy.safe /\ new.devices = policy.devices
      /\ new.split = policy.split /\ new.rules = rules
  BY <1>2 DEF IsPolicy, HasFields
<1> HIDE DEF new
<1>4. IsPolicy(new)
  BY <1>2, <1>3, ChangedPolicy
<1>5. PolicyInv'
  BY <1>1, <1>3, <1>4, SaveKeeps
<1>6. Buildable(world, policy)'
  BY <1>1, CheckedSave
<1> QED
  BY <1>5, <1>6 DEF StepKeeps

(* ... and so does handle_routing_settings, when it turns routing on.      *)
LEMMA ChangeSettingsKeeps ==
  ASSUME PolicyInv, NEW given \in Splits, NEW apply \in BOOLEAN,
         ChangeSettings(given, apply)
  PROVE  StepKeeps
<1> DEFINE split == [given EXCEPT !.tproxy = policy.split.tproxy,
                                  !.learned = policy.split.learned]
           new == [policy EXCEPT !.split = split]
<1>1. Idle /\ Targetable(new) /\ Save(new, apply, "restore")
  BY DEF ChangeSettings, Targetable
<1>2. IsPolicy(policy) /\ DOMAIN split = SplitFields
  BY RoutingPolicyAssumption DEF PolicyInv
<1> HIDE DEF split
<1>3. /\ HasFields(new) /\ new.safe = policy.safe /\ new.devices = policy.devices
      /\ new.rules = policy.rules /\ new.split = split
  BY <1>2 DEF IsPolicy, HasFields
<1> HIDE DEF new
<1>4. IsPolicy(new)
  BY <1>2, <1>3, ChangedPolicy DEF IsPolicy
<1>5. PolicyInv'
  BY <1>1, <1>3, <1>4, SaveKeeps
<1>6. Buildable(world, policy)'
  BY <1>1, CheckedSave
<1> QED
  BY <1>5, <1>6 DEF StepKeeps

(* A reset's rules send nothing to a fixed server.                         *)
LEMMA ResetPolicyKeeps ==
  ASSUME PolicyInv, NEW apply \in BOOLEAN, ResetPolicy(apply)
  PROVE  StepKeeps
<1> DEFINE new == [policy EXCEPT !.rules = ResetRules, !.split = ResetSplit]
<1>1. IsPolicy(policy) /\ DOMAIN policy.split = SplitFields
  BY DEF PolicyInv, IsPolicy
<1>2. Idle /\ Save(new, apply, "restore")
  BY DEF ResetPolicy
<1>3. /\ DOMAIN ResetSplit = SplitFields
      /\ ResetSplit.enabled = policy.split.enabled
  BY <1>1 DEF SplitFields, ResetSplit
<1>4. /\ IsSequence(ResetRules)
      /\ \A i \in DOMAIN ResetRules : ResetRules[i].target \notin Servers
  BY RoutingPolicyAssumption DEF OwnRules
<1>5. /\ HasFields(new) /\ new.safe = policy.safe /\ new.devices = policy.devices
      /\ new.rules = ResetRules /\ new.split = ResetSplit
  <2> DEFINE ruled == [policy EXCEPT !.rules = ResetRules]
  <2>1. new = [ruled EXCEPT !.split = ResetSplit]
    OBVIOUS
  <2>2. /\ HasFields(ruled) /\ ruled.safe = policy.safe /\ ruled.devices = policy.devices
        /\ ruled.rules = ResetRules
    BY <1>1 DEF IsPolicy, HasFields
  <2> HIDE DEF new, ruled
  <2> QED
    BY <2>1, <2>2 DEF HasFields
<1> HIDE DEF new
<1>6. IsPolicy(new)
  BY <1>1, <1>3, <1>4, <1>5, ChangedPolicy
<1>7. PolicyInv'
  BY <1>2, <1>3, <1>5, <1>6, SaveKeeps
<1>8. FixedServers(new) \subseteq FixedServers(policy)
  BY <1>4, <1>5, FixedOf
<1>9. Buildable(world, policy) => Buildable(world, policy)'
  BY <1>2, <1>3, <1>5, <1>8, FewerSaved
<1> QED
  BY <1>7, <1>9 DEF StepKeeps

(* Where a preset adds to the rules, what goes to a fixed server went there *)
(* before.                                                                 *)
LEMMA PresetRulesOf ==
  ASSUME IsPolicy(policy), NEW preset \in Presets
  PROVE  /\ IsSequence(PresetRules(preset))
         /\ \A k \in DOMAIN PresetRules(preset) :
              PresetRules(preset)[k].target \in Servers =>
                \E j \in DOMAIN policy.rules : policy.rules[j] = PresetRules(preset)[k]
<1> DEFINE kept == IF preset.clears THEN <<>> ELSE policy.rules
           J == {j \in DOMAIN preset.rules :
                   \A i \in DOMAIN kept : kept[i].name # preset.rules[j].name}
           added == Kept(preset.rules, J)
<1>1. PresetRules(preset) = kept \o added
  BY DEF PresetRules
<1>2. /\ IsSequence(preset.rules)
      /\ \A i \in DOMAIN preset.rules : preset.rules[i].target \notin Servers
  BY RoutingPolicyAssumption DEF OwnRules
<1>3. /\ IsSequence(kept)
      /\ \A i \in DOMAIN kept : \E j \in DOMAIN policy.rules : policy.rules[j] = kept[i]
  <2>1. IsSequence(<<>>)
    <3>1. <<>> \in Seq({}) 
      OBVIOUS
    <3> QED
      BY <3>1, Sequences
  <2> QED
    BY <2>1 DEF IsPolicy
<1>4. J \in SUBSET (DOMAIN preset.rules)
  OBVIOUS
<1> HIDE DEF kept, J
<1>5. IsSequence(added) /\ \A k \in DOMAIN added : added[k].target \notin Servers
  <2>1. /\ IsSequence(added)
        /\ \A k \in DOMAIN added : \E i \in J : added[k] = preset.rules[i]
    BY <1>2, <1>4, KeptSequence
  <2> QED
    BY <1>2, <1>4, <2>1
<1> HIDE DEF added
<1>6. Joins(PresetRules(preset), kept, added)
  <2>1. Joins(kept \o added, kept, added)
    BY <1>3, <1>5, JoinedSequence
  <2> QED
    BY <1>1, <2>1
<1> QED
  BY <1>3, <1>5, <1>6 DEF Joins

(* So a preset need not check the targets (handle_routing_preset_apply).   *)
LEMMA ApplyPresetKeeps ==
  ASSUME PolicyInv, NEW preset \in Presets, NEW apply \in BOOLEAN,
         ApplyPreset(preset, apply)
  PROVE  StepKeeps
<1> DEFINE rules == PresetRules(preset)
           split == PresetSplit(preset)
           new == [policy EXCEPT !.rules = rules, !.split = split]
<1>1. IsPolicy(policy) /\ DOMAIN policy.split = SplitFields
  BY DEF PolicyInv, IsPolicy
<1>2. Idle /\ Save(new, apply, "restore")
  BY DEF ApplyPreset
<1>3. DOMAIN split = SplitFields /\ split.enabled = policy.split.enabled
  BY <1>1 DEF SplitFields, PresetSplit
<1>4. /\ IsSequence(rules)
      /\ \A k \in DOMAIN rules : rules[k].target \in Servers =>
           \E j \in DOMAIN policy.rules : policy.rules[j] = rules[k]
  BY <1>1, PresetRulesOf
<1> HIDE DEF rules, split
<1>5. /\ HasFields(new) /\ new.safe = policy.safe /\ new.devices = policy.devices
      /\ new.rules = rules /\ new.split = split
  <2> DEFINE ruled == [policy EXCEPT !.rules = rules]
  <2>1. new = [ruled EXCEPT !.split = split]
    OBVIOUS
  <2>2. /\ HasFields(ruled) /\ ruled.safe = policy.safe /\ ruled.devices = policy.devices
        /\ ruled.rules = rules
    BY <1>1 DEF IsPolicy, HasFields
  <2> HIDE DEF new, ruled
  <2> QED
    BY <2>1, <2>2 DEF HasFields
<1> HIDE DEF new
<1>6. IsPolicy(new)
  BY <1>1, <1>3, <1>4, <1>5, ChangedPolicy
<1>7. PolicyInv'
  BY <1>2, <1>3, <1>5, <1>6, SaveKeeps
<1>8. FixedServers(new) \subseteq FixedServers(policy)
  BY <1>4, <1>5, FixedOf
<1>9. Buildable(world, policy) => Buildable(world, policy)'
  BY <1>2, <1>3, <1>5, <1>8, FewerSaved
<1> QED
  BY <1>7, <1>9 DEF StepKeeps

(* A device's route is checked; it waits for the next apply.               *)
LEMMA SetDeviceKeeps ==
  ASSUME PolicyInv, NEW address, NEW target, NEW on \in BOOLEAN,
         SetDevice(address, target, on)
  PROVE  StepKeeps
<1> DEFINE route == [address |-> address, target |-> target, enabled |-> on]
           own == {i \in DOMAIN policy.devices : policy.devices[i].address = address}
           added == Append(policy.devices, route)
           changed == [i \in DOMAIN policy.devices |->
                         IF i \in own THEN route ELSE policy.devices[i]]
           devices == IF own = {} THEN added ELSE changed
           new == [policy EXCEPT !.devices = devices]
<1>1. Idle /\ Targetable(new) /\ Save(new, FALSE, "keep")
  BY DEF SetDevice, Targetable
<1>2. IsPolicy(policy) /\ IsSequence(policy.devices)
  BY DEF PolicyInv, IsPolicy
<1>3. IsSequence(added)
  <2> DEFINE S == ToSet(policy.devices) \cup {route}
  <2>1. /\ policy.devices \in [1..Len(policy.devices) -> ToSet(policy.devices)]
        /\ Len(policy.devices) \in Nat
    BY <1>2, LenProperties DEF IsSequence
  <2>2. policy.devices \in [1..Len(policy.devices) -> S]
    BY <2>1
  <2>3. route \in S
    OBVIOUS
  <2> HIDE DEF S, route
  <2>4. policy.devices \in Seq(S)
    BY <2>1, <2>2
  <2>5. added \in Seq(S)
    BY <2>3, <2>4, AppendProperties
  <2> QED
    BY <2>5, Sequences
<1>4. IsSequence(changed)
  <2>1. DOMAIN policy.devices = 1..Len(policy.devices) /\ Len(policy.devices) \in Nat
    BY <1>2, Sequences
  <2>2. changed = [i \in 1..Len(policy.devices) |-> changed[i]]
    BY <2>1
  <2> HIDE DEF changed
  <2> QED
    BY <2>1, <2>2, Sequences
<1> HIDE DEF added, changed
<1>5. IsSequence(devices)
  BY <1>3, <1>4
<1> HIDE DEF devices
<1>6. /\ HasFields(new) /\ new.safe = policy.safe /\ new.rules = policy.rules
      /\ new.split = policy.split /\ new.devices = devices
  BY <1>2 DEF IsPolicy, HasFields
<1> HIDE DEF new
<1>7. IsPolicy(new)
  BY <1>2, <1>5, <1>6, ChangedPolicy
<1>8. PolicyInv'
  BY <1>1, <1>7, SaveKeeps
<1>9. Buildable(world, policy)'
  BY <1>1, CheckedSave
<1> QED
  BY <1>8, <1>9 DEF StepKeeps

(* Deleting one needs no check.                                            *)
LEMMA DeleteDeviceKeeps ==
  ASSUME PolicyInv, NEW address, DeleteDevice(address)
  PROVE  StepKeeps
<1> DEFINE others == {i \in DOMAIN policy.devices : policy.devices[i].address # address}
           devices == Kept(policy.devices, others)
           new == [policy EXCEPT !.devices = devices]
<1>1. Idle /\ Save(new, FALSE, "keep")
  BY DEF DeleteDevice
<1>2. IsPolicy(policy) /\ IsSequence(policy.devices)
  BY DEF PolicyInv, IsPolicy
<1>3. /\ IsSequence(devices)
      /\ \A i \in DOMAIN devices :
           \E j \in DOMAIN policy.devices : policy.devices[j] = devices[i]
  <2>1. others \in SUBSET (DOMAIN policy.devices)
    OBVIOUS
  <2> HIDE DEF others
  <2>2. /\ IsSequence(devices)
        /\ \A k \in DOMAIN devices : \E i \in others : devices[k] = policy.devices[i]
    BY <1>2, <2>1, KeptSequence
  <2> QED
    BY <2>1, <2>2
<1> HIDE DEF devices
<1>4. /\ HasFields(new) /\ new.safe = policy.safe /\ new.rules = policy.rules
      /\ new.split = policy.split /\ new.devices = devices
  BY <1>2 DEF IsPolicy, HasFields
<1> HIDE DEF new
<1>5. IsPolicy(new)
  BY <1>2, <1>3, <1>4, ChangedPolicy
<1>6. PolicyInv'
  BY <1>1, <1>5, SaveKeeps
<1>7. FixedServers(new) \subseteq FixedServers(policy)
  BY <1>3, <1>4, FixedOf
<1>8. Buildable(world, policy) => Buildable(world, policy)'
  BY <1>1, <1>4, <1>7, FewerSaved
<1> QED
  BY <1>6, <1>8 DEF StepKeeps

(* Safe mode is the only thing its undo takes back.                        *)
LEMMA SetSafeModeKeeps ==
  ASSUME PolicyInv, NEW safe \in BOOLEAN, NEW apply \in BOOLEAN,
         SetSafeMode(safe, apply)
  PROVE  StepKeeps
<1> DEFINE new == [policy EXCEPT !.safe = safe]
<1>1. Idle /\ Save(new, apply, "restore safe mode")
  BY DEF SetSafeMode
<1>2. IsPolicy(policy)
  BY DEF PolicyInv
<1>3. /\ HasFields(new) /\ new.safe = safe /\ new.rules = policy.rules
      /\ new.split = policy.split /\ new.devices = policy.devices
  BY <1>2 DEF IsPolicy, HasFields
<1>4. new = [policy EXCEPT !.safe = new.safe]
  BY <1>3
<1> HIDE DEF new
<1>5. IsPolicy(new)
  BY <1>2, <1>3, ChangedPolicy DEF IsPolicy
<1>6. PolicyInv'
  BY <1>1, <1>4, <1>5, SaveKeeps
<1>7. FixedServers(new) \subseteq FixedServers(policy)
  BY <1>3, FixedOf
<1>8. Buildable(world, policy) => Buildable(world, policy)'
  BY <1>1, <1>3, <1>7, FewerSaved
<1> QED
  BY <1>6, <1>8 DEF StepKeeps

(* Applying what is saved: undoing that brings nothing back.               *)
LEMMA ApplyPolicyKeeps ==
  ASSUME PolicyInv, ApplyPolicy
  PROVE  StepKeeps
<1>1. Idle /\ UNCHANGED <<policy, world, running, deferred>>
  BY DEF ApplyPolicy
<1>2. /\ op'.stage = "saved" /\ op'.undo = "keep" /\ op'.prev = policy
      /\ op'.wasDeferred = deferred /\ ~Idle'
  BY DEF ApplyPolicy, Start, Idle
<1>3. /\ \A p : Runs(p)' <=> Runs(p)
      /\ Buildable(world, policy)' <=> Buildable(world, policy)
  BY <1>1 DEF Runs, Buildable
<1>4. IsPolicy(policy) /\ IsWorld(world) /\ (~deferred => Runs(policy))
  BY <1>1 DEF PolicyInv
<1>5. Undoes'
  BY <1>1, <1>2, <1>4 DEF Undoes, IsPolicy, HasFields
<1>6. PolicyInv'
  BY <1>1, <1>2, <1>3, <1>4, <1>5 DEF PolicyInv, IsPolicy, HasFields, IsWorld
<1> QED
  BY <1>3, <1>6 DEF StepKeeps

(* What is learned waits, and names no server.                             *)
LEMMA LearnExceptionKeeps ==
  ASSUME PolicyInv, NEW host, NEW blocked, LearnException(host,
         blocked)
  PROVE  StepKeeps
<1> DEFINE learned == IF blocked THEN policy.split.learned \cup {Suffix(host)}
                      ELSE policy.split.learned \ {Suffix(host)}
           split == [policy.split EXCEPT !.learned = learned]
           new == [policy EXCEPT !.split = split]
<1>1. Idle /\ policy' = new /\ deferred' /\ UNCHANGED <<world, running, op>>
  BY DEF LearnException
<1>2. IsPolicy(policy) /\ DOMAIN policy.split = SplitFields /\ IsWorld(world)
  BY DEF PolicyInv, IsPolicy
<1> HIDE DEF learned
<1>3. DOMAIN split = SplitFields /\ split.enabled = policy.split.enabled
  BY <1>2 DEF SplitFields
<1> HIDE DEF split
<1>4. /\ HasFields(new) /\ new.safe = policy.safe /\ new.rules = policy.rules
      /\ new.split = split /\ new.devices = policy.devices
  BY <1>2 DEF IsPolicy, HasFields
<1> HIDE DEF new
<1>5. IsPolicy(new)
  BY <1>2, <1>3, <1>4, ChangedPolicy DEF IsPolicy
<1>6. IsPolicy(policy') /\ op' = op /\ Idle' /\ op'.stage = "none"
  BY <1>1, <1>5 DEF Idle
<1>7. PolicyInv'
  BY <1>1, <1>2, <1>6 DEF PolicyInv, IsPolicy, HasFields, IsWorld
<1>8. FixedServers(new) \subseteq FixedServers(policy)
  BY <1>4, FixedOf
<1>9. ASSUME Buildable(world, policy) PROVE Buildable(world, policy)'
  <2>1. policy.split.enabled => ValidTargets(world, new, MaxFixed)
    BY <1>8, <1>9, FewerServers DEF Buildable
  <2> QED
    BY <1>1, <1>3, <1>4, <2>1 DEF Buildable
<1> QED
  BY <1>7, <1>9 DEF StepKeeps

(* The configuration is that of the saved policy.                          *)
LEMMA GenerateKeeps ==
  ASSUME PolicyInv, Generate
  PROVE  StepKeeps
<1>1. ~Idle /\ UNCHANGED <<policy, world, running, deferred>>
  BY DEF Generate, Idle
<1>2. /\ op'.stage = "generated" /\ op'.undo = op.undo /\ op'.prev = op.prev
      /\ op'.wasDeferred = op.wasDeferred /\ op'.config = Config(world, policy)
      /\ ~op'.runs => running = Stopped
  BY DEF Generate
<1>3. ~Idle' /\ op'.stage # "none"
  BY <1>2 DEF Idle
<1>4. /\ \A p : Runs(p)' <=> Runs(p)
      /\ \A p : Targetable(p)' <=> Targetable(p)
      /\ Buildable(world, policy)' <=> Buildable(world, policy)
      /\ IsPolicy(policy)' /\ IsWorld(world)'
      /\ Config(world, policy)' = Config(world, policy)
  BY <1>1 DEF Runs, Targetable, Buildable, PolicyInv, IsPolicy, HasFields, IsWorld
<1>5. Undoes /\ (~op.wasDeferred => Runs(op.prev))
  BY <1>1 DEF PolicyInv
<1>6. Undoes'
  BY <1>1, <1>2, <1>4, <1>5 DEF Undoes, IsPolicy, HasFields
<1>7. ~op'.wasDeferred => Runs(op.prev)'
  BY <1>1, <1>2, <1>5 DEF Runs
<1>8. PolicyInv'
  BY <1>1, <1>2, <1>3, <1>4, <1>6, <1>7 DEF PolicyInv
<1> QED
  BY <1>4, <1>8 DEF StepKeeps

(* A core that loads it runs the saved policy; one that is stopped stays so. *)
LEMMA LoadKeeps ==
  ASSUME PolicyInv, Load
  PROVE  StepKeeps
<1>1. /\ UNCHANGED <<policy, world>> /\ op' = NoOp
      /\ running' = IF op.runs THEN op.config ELSE running
      /\ op.stage = "generated"
  BY DEF Load
<1>2. Idle' /\ op'.stage = "none"
  BY <1>1 DEF Idle, NoOp
<1>3. Buildable(world, policy)' <=> Buildable(world, policy)
  BY <1>1 DEF Buildable
<1>4. IsPolicy(policy)' /\ IsWorld(world)'
  BY <1>1 DEF PolicyInv, IsPolicy, HasFields, IsWorld
<1>5. Runs(policy)'
  BY <1>1 DEF PolicyInv, Runs
<1>6. PolicyInv'
  BY <1>1, <1>2, <1>4, <1>5 DEF PolicyInv
<1> QED
  BY <1>3, <1>6 DEF StepKeeps

(* A failed change is undone: what it leaves can be built, unless the undo *)
(* brought other rules back.                                               *)
LEMMA FailLeaves ==
  ASSUME PolicyInv, ~Idle, Fail, Buildable(world, policy),
         op.prev.rules = policy.rules
  PROVE  Buildable(world, policy)'
<1>1. UNCHANGED world /\ Undoes /\ IsPolicy(policy) /\ IsPolicy(op.prev)
  BY DEF Fail, PolicyInv, Undoes
<1>2. CASE op.undo = "restore"
  <2>1. policy' = [op.prev EXCEPT !.safe = policy.safe]
    BY <1>2 DEF Fail
  <2>2. policy' = op.prev
    BY <1>1, <1>2, <2>1 DEF Undoes, IsPolicy, HasFields
  <2>3. FixedServers(op.prev) = FixedServers(policy)
    BY <1>1, <1>2 DEF Undoes, FixedServers
  <2>4. op.prev.split.enabled => Targetable(policy)
    BY <1>1, <1>2 DEF Undoes, Buildable, Targetable
  <2>5. op.prev.split.enabled => ValidTargets(world, op.prev, MaxFixed)
    BY <2>3, <2>4 DEF Targetable, ValidTargets
  <2> QED
    BY <1>1, <2>2, <2>5 DEF Buildable
<1>3. CASE op.undo # "restore"
  <2>1. policy' = [policy EXCEPT !.safe = op.prev.safe] \/ policy' = policy
    BY <1>1, <1>3 DEF Fail, Undoes
  <2>2. /\ policy'.rules = policy.rules /\ policy'.devices = policy.devices
        /\ policy'.split = policy.split
    BY <1>1, <2>1 DEF IsPolicy, HasFields
  <2> QED
    BY <1>1, <2>2 DEF Buildable, ValidTargets, FixedServers
<1> QED
  BY <1>2, <1>3

(* A fixed server keeps its profile, and the rest of the world its place.  *)
LEMMA DeleteProfileKeeps ==
  ASSUME PolicyInv, NEW server \in Servers, DeleteProfile(server)
  PROVE  StepKeeps
<1>1. UNCHANGED <<policy, op, deferred>> /\ server \notin FixedServers(policy)
  BY DEF DeleteProfile
<1>2. /\ DOMAIN world' = WorldFields /\ world'.present = world.present \ {server}
      /\ world'.dead = world.dead /\ world'.geobase = world.geobase
      /\ world'.active = IF world.active = server THEN NoServer ELSE world.active
  <2> DEFINE fewer == [world EXCEPT !.present = @ \ {server}]
             active == IF world.active = server THEN NoServer ELSE world.active
  <2>1. DOMAIN world = WorldFields
    BY DEF PolicyInv, IsWorld
  <2>2. world' = [fewer EXCEPT !.active = active]
    BY DEF DeleteProfile
  <2>3. /\ DOMAIN fewer = WorldFields /\ fewer.present = world.present \ {server}
        /\ fewer.dead = world.dead /\ fewer.geobase = world.geobase
    BY <2>1 DEF WorldFields
  <2> HIDE DEF fewer, active
  <2>4. /\ DOMAIN world' = WorldFields /\ world'.present = world.present \ {server}
        /\ world'.dead = world.dead /\ world'.geobase = world.geobase
        /\ world'.active = active
    BY <2>2, <2>3 DEF WorldFields
  <2> QED
    BY <2>4 DEF active
<1>3. world'.active # NoServer => world'.active = world.active /\ running' = running
  BY <1>2 DEF DeleteProfile
<1>4. running' = Stopped \/ running' = running
  BY DEF DeleteProfile
<1>5. ASSUME world'.active # NoServer, NEW p
      PROVE  Config(world', p) = Config(world, p)
  BY <1>2, <1>3, <1>5, ConfigOf
<1>6. ASSUME NEW p, Runs(p)
      PROVE  running' # Stopped /\ world'.active # NoServer
                => running' = Config(world', p)
  BY <1>3, <1>5, <1>6 DEF Runs
<1>7. Targetable(policy) => ValidTargets(world', policy, MaxFixed)
  BY <1>1, <1>2 DEF Targetable, ValidTargets
<1>8. Buildable(world, policy) => Buildable(world, policy)'
  BY <1>1, <1>7 DEF Buildable, Targetable
<1>9. /\ Targetable(policy) => Targetable(policy)'
      /\ Idle' <=> Idle
      /\ IsPolicy(policy)' /\ IsWorld(world)'
  BY <1>1, <1>2, <1>7 DEF Targetable, Idle, PolicyInv, IsPolicy, HasFields, IsWorld
<1>10. Runs(policy) => Runs(policy)'
  BY <1>1, <1>6 DEF Runs
<1>11. Runs(op.prev) => Runs(op.prev)'
  BY <1>1, <1>6 DEF Runs
<1>12. Undoes => Undoes'
  BY <1>1, <1>9 DEF Undoes, IsPolicy, HasFields
<1>13. ASSUME op.stage = "generated"
       PROVE  /\ world'.active # NoServer => op.config = Config(world', policy)
              /\ ~op.runs => running' = Stopped
  BY <1>3, <1>4, <1>5, <1>13 DEF PolicyInv
<1>14. PolicyInv'
  BY <1>1, <1>9, <1>10, <1>11, <1>12, <1>13 DEF PolicyInv
<1> QED
  BY <1>8, <1>14 DEF StepKeeps

(* The daemon starts with its core on the saved policy.                    *)
LEMMA PolicyStarts ==
  ASSUME PolicyInit
  PROVE  PolicyInv
<1>1. PICK start \in Starts, tproxy \in BOOLEAN :
        /\ world = start.world
        /\ policy = [rules |-> start.rules, devices |-> <<>>, safe |-> FALSE,
                     split |-> [DefaultSplit EXCEPT !.tproxy = tproxy]]
  BY DEF PolicyInit
<1>2. /\ op = NoOp /\ Idle /\ op.stage = "none"
      /\ running = Config(world, policy)
  BY DEF PolicyInit, Idle, NoOp
<1>3. IsWorld(world)
  BY <1>1, RoutingPolicyAssumption DEF IsWorld
<1>4. IsSequence(start.rules) /\ DOMAIN DefaultSplit = SplitFields
  BY RoutingPolicyAssumption
<1>5. <<>> \in Seq({})
  OBVIOUS
<1>6. IsSequence(<<>>)
  BY <1>5, Sequences
<1>7. IsPolicy(policy)
  BY <1>1, <1>4, <1>6 DEF IsPolicy, HasFields
<1> QED
  BY <1>2, <1>3, <1>7 DEF PolicyInv, Runs

(* Every step keeps the invariant, and a policy that can be built, unless  *)
(* it undoes a change of the rules.                                        *)
LEMMA PolicyStep ==
  ASSUME PolicyInv, [PolicyNext]_policyVars
  PROVE  /\ PolicyInv'
         /\ Buildable(world, policy) /\ ~Buildable(world, policy)' =>
              ~Idle /\ Idle' /\ op.prev.rules # policy.rules
<1> DEFINE OnlyUndone ==
             Buildable(world, policy) /\ ~Buildable(world, policy)' =>
               ~Idle /\ Idle' /\ op.prev.rules # policy.rules
<1>1. ASSUME StepKeeps PROVE PolicyInv' /\ OnlyUndone
  BY <1>1 DEF StepKeeps
<1>2. ASSUME ~Idle, Fail PROVE PolicyInv' /\ OnlyUndone
  <2>1. Idle'
    BY <1>2 DEF Fail, NoOp, Idle
  <2> QED
    BY <1>2, <2>1, FailKeeps, FailLeaves
<1> SUFFICES PolicyInv' /\ OnlyUndone
  OBVIOUS
<1> HIDE DEF OnlyUndone
<1>3. CASE UNCHANGED policyVars
  <2>1. PolicyInv'
    BY <1>3 DEF policyVars, PolicyInv, IsPolicy, HasFields, IsWorld, Idle, Undoes,
       Runs, Targetable
  <2>2. Buildable(world, policy)' <=> Buildable(world, policy)
    BY <1>3 DEF policyVars, Buildable
  <2> QED
    BY <1>1, <2>1, <2>2 DEF StepKeeps
<1>4. CASE Request
  <2>1. ASSUME NEW rules \in RuleLists, NEW apply \in BOOLEAN, ReplaceRules(rules,
               apply)
        PROVE  StepKeeps
    BY <2>1, ReplaceRulesKeeps
  <2>2. ASSUME NEW host \in ResourceHosts, NEW target \in Targets,
               RouteResource(host, target)
        PROVE  StepKeeps
    BY <2>2, RouteResourceKeeps
  <2>3. ASSUME NEW apply \in BOOLEAN, ResetPolicy(apply)
        PROVE  StepKeeps
    BY <2>3, ResetPolicyKeeps
  <2>4. ASSUME NEW preset \in Presets, NEW apply \in BOOLEAN, ApplyPreset(preset,
               apply)
        PROVE  StepKeeps
    BY <2>4, ApplyPresetKeeps
  <2>5. ASSUME NEW split \in Splits, NEW apply \in BOOLEAN, ChangeSettings(split,
               apply)
        PROVE  StepKeeps
    BY <2>5, ChangeSettingsKeeps
  <2>6. ASSUME NEW address \in DeviceAddresses, NEW target \in Targets,
               NEW on \in BOOLEAN, SetDevice(address, target, on)
        PROVE  StepKeeps
    BY <2>6, SetDeviceKeeps
  <2>7. ASSUME NEW address \in DeviceAddresses, DeleteDevice(address)
        PROVE  StepKeeps
    BY <2>7, DeleteDeviceKeeps
  <2>8. ASSUME NEW safe \in BOOLEAN, NEW apply \in BOOLEAN, SetSafeMode(safe, apply)
        PROVE  StepKeeps
    BY <2>8, SetSafeModeKeeps
  <2>9. ASSUME ApplyPolicy
        PROVE  StepKeeps
    BY <2>9, ApplyPolicyKeeps
  <2> QED
    BY <1>1, <1>4, <2>1, <2>2, <2>3, <2>4, <2>5, <2>6, <2>7, <2>8, <2>9 DEF Request
<1>5. CASE \E host \in ResourceHosts, blocked \in BOOLEAN : LearnException(host,
           blocked)
  BY <1>1, <1>5, LearnExceptionKeeps
<1>6. CASE Generate
  BY <1>1, <1>6, GenerateKeeps
<1>7. CASE Load
  BY <1>1, <1>7, LoadKeeps
<1>8. CASE CannotGenerate
  <2>1. ~Idle /\ Fail
    BY <1>8 DEF CannotGenerate, Idle
  <2> QED
    BY <1>2, <2>1
<1>9. CASE ActivationFails
  <2>1. ~Idle /\ Fail
    BY <1>9 DEF ActivationFails, Idle
  <2> QED
    BY <1>2, <2>1
<1>10. CASE \E server \in Servers : DeleteProfile(server)
  BY <1>1, <1>10, DeleteProfileKeeps
<1> QED
  BY <1>3, <1>4, <1>5, <1>6, <1>7, <1>8, <1>9, <1>10 DEF PolicyNext

(* Whatever requests, profile deletions and failing activations interleave, *)
(* the core runs the policy its bookkeeping says, for any constants a daemon *)
(* has.                                                                    *)
THEOREM PolicyInvariant ==
  PolicySpec => []PolicyInv
<1>1. PolicyInit => PolicyInv
  BY PolicyStarts
<1>2. PolicyInv /\ [PolicyNext]_policyVars => PolicyInv'
  BY PolicyStep
<1> QED
  BY <1>1, <1>2, PTL DEF PolicySpec

(* Nothing waiting to be applied means that the core runs what is saved    *)
(* (hincyray.rs:14122-14239).                                              *)
THEOREM SettledPolicy ==
  PolicySpec => []SettledPolicyRuns
<1>1. PolicyInv => SettledPolicyRuns
  BY DEF PolicyInv, SettledPolicyRuns, Settled, Runs
<1> QED
  BY <1>1, PolicyInvariant, PTL

(* Only the undo of a change of the rules can leave a policy from which no *)
(* configuration can be generated (hincyray.rs:10355).                     *)
THEOREM BuildablePolicy ==
  PolicySpec => PolicyStaysBuildable
<1>1. PolicyInv /\ [PolicyNext]_policyVars =>
        [Buildable(world, policy) /\ ~Buildable(world, policy)' =>
            ~Idle /\ Idle' /\ op.prev.rules # policy.rules]_policyVars
  BY PolicyStep
<1> QED
  BY <1>1, PolicyInvariant, PTL DEF PolicySpec, PolicyStaysBuildable

-----------------------------------------------------------------------------
(* What the trace and the warnings say of the saved policy.                *)

(* What a saved policy holds: rules the editor can make, ranges of ports,  *)
(* routes of devices a route may be asked for.                             *)
RulesFormed(rules) == \A i \in DOMAIN rules : WellFormed(rules[i])
SplitFormed(split) == PortList(split.proxied) /\ PortList(split.bypassed)
Formed(p) ==
  /\ RulesFormed(p.rules) /\ SplitFormed(p.split)
  /\ \A i \in DOMAIN p.devices : p.devices[i].address \in DeviceAddresses
DataFormed == Formed(policy) /\ (~Idle => Formed(op.prev))

(* A handler that saves a policy of such data keeps them.                  *)
LEMMA FormedSaved ==
  ASSUME DataFormed, Idle, NEW new, NEW apply \in BOOLEAN, NEW how,
         Save(new, apply, how), Formed(new)
  PROVE  DataFormed'
<1>1. policy' = new
  BY DEF Save
<1>2. CASE apply
  <2>1. op' = [stage |-> "saved", undo |-> how, start |-> (how = "restore safe mode"),
               prev |-> policy, wasDeferred |-> deferred]
    BY <1>2 DEF Save, Start
  <2>2. op'.prev = policy
    BY <2>1
  <2> QED
    BY <1>1, <2>2 DEF DataFormed, Formed
<1>3. CASE ~apply
  <2>1. Idle'
    BY <1>3 DEF Save, Idle
  <2> QED
    BY <1>1, <2>1 DEF DataFormed, Formed
<1> QED
  BY <1>2, <1>3

(* A route that is set leaves what else a rule matches.                    *)
LEMMA UpsertForms ==
  ASSUME NEW rules, IsSequence(rules), RulesFormed(rules), NEW host, NEW target
  PROVE  RulesFormed(Upsert(rules, host, target))
<1> DEFINE named == {i \in DOMAIN rules : Suffix(host) \in rules[i].domains}
           first == CHOOSE i \in named : \A j \in named : i <= j
           rule == [name |-> host, enabled |-> TRUE, kind |-> "",
                pattern |-> NoPattern, target |-> target,
                domains |-> {Suffix(host)}, ips |-> {}, services |-> {},
                ports |-> {}, network |-> AnyNetwork, mode |-> "include"]
           x == [rules[first] EXCEPT !.enabled = TRUE, !.target = target]
           changed == [rules EXCEPT ![first] = x]
<1>1. Upsert(rules, host, target) = IF named # {} THEN changed ELSE Append(rules, rule)
  BY DEF Upsert
<1>2. WellFormed(rule)
  <2>1. DOMAIN rule = RuleFields
    BY DEF RuleFields
  <2>2. rule.ports = {} /\ rule.ips = {} /\ rule.kind # "ip"
    OBVIOUS
  <2> HIDE DEF rule
  <2> QED
    BY <2>1, <2>2 DEF WellFormed
<1> HIDE DEF rule
<1>3. RulesFormed(Append(rules, rule))
  <2>1. rules \in Seq(ToSet(rules))
    BY DEF IsSequence
  <2> DEFINE S == ToSet(rules) \cup {rule}
  <2>2. Len(rules) \in Nat /\ rules \in [1..Len(rules) -> ToSet(rules)]
    BY <2>1, LenProperties
  <2>3. rules \in [1..Len(rules) -> S] /\ rule \in S
    BY <2>2
  <2> HIDE DEF S
  <2>4. rules \in Seq(S)
    BY <2>2, <2>3
  <2>5. /\ Append(rules, rule) \in Seq(S) /\ Len(Append(rules, rule)) = Len(rules) + 1
        /\ \A i \in 1..Len(rules) : Append(rules, rule)[i] = rules[i]
        /\ Append(rules, rule)[Len(rules) + 1] = rule
    BY <2>3, <2>4, AppendProperties
  <2>6. DOMAIN Append(rules, rule) = 1..(Len(rules) + 1)
    BY <2>5, LenProperties
  <2>7. DOMAIN rules = 1..Len(rules)
    BY <2>2
  <2>8. \A i \in 1..(Len(rules) + 1) : i \in 1..Len(rules) \/ i = Len(rules) + 1
    BY <2>2
  <2> QED
    BY <1>2, <2>5, <2>6, <2>7, <2>8 DEF RulesFormed
<1>4. ASSUME named # {} PROVE RulesFormed(changed)
  <2>1. DOMAIN changed = DOMAIN rules
    OBVIOUS
  <2>2. ASSUME NEW i \in DOMAIN rules PROVE WellFormed(changed[i])
    <3>1. CASE i = first
      <4>1. changed[i] = x /\ WellFormed(rules[first])
        BY <3>1, <2>2 DEF RulesFormed
      <4>2. DOMAIN x = RuleFields
        BY <4>1 DEF WellFormed
      <4>3. /\ x.ports = rules[first].ports /\ x.ips = rules[first].ips
            /\ x.kind = rules[first].kind /\ x.pattern = rules[first].pattern
        BY <4>1 DEF WellFormed, RuleFields
      <4> HIDE DEF x, changed, first
      <4> QED
        BY <4>1, <4>2, <4>3 DEF WellFormed
    <3>2. CASE i # first
      <4>1. changed[i] = rules[i]
        BY <3>2, <2>2
      <4> QED
        BY <4>1, <2>2 DEF RulesFormed
    <3> QED
      BY <3>1, <3>2
  <2> HIDE DEF changed
  <2> QED
    BY <2>1, <2>2 DEF RulesFormed
<1> QED
  BY <1>1, <1>3, <1>4

(* What is kept of a list and joined to another is as well formed.         *)
LEMMA PresetForms ==
  ASSUME IsPolicy(policy), RulesFormed(policy.rules), NEW preset \in Presets
  PROVE  RulesFormed(PresetRules(preset))
<1> DEFINE kept == IF preset.clears THEN <<>> ELSE policy.rules
           J == {j \in DOMAIN preset.rules :
                   \A i \in DOMAIN kept : kept[i].name # preset.rules[j].name}
           added == Kept(preset.rules, J)
<1>1. PresetRules(preset) = kept \o added
  BY DEF PresetRules
<1>2. IsSequence(preset.rules) /\ RulesFormed(preset.rules)
  BY RoutingPolicyAssumption DEF OwnRules, RulesFormed
<1>3. IsSequence(kept) /\ RulesFormed(kept)
  <2>1. IsSequence(<<>>)
    <3>1. <<>> \in Seq({}) 
      OBVIOUS
    <3> QED
      BY <3>1, Sequences
  <2> QED
    BY <2>1 DEF IsPolicy, RulesFormed
<1>4. J \in SUBSET (DOMAIN preset.rules)
  OBVIOUS
<1> HIDE DEF kept, J
<1>5. IsSequence(added) /\ RulesFormed(added)
  <2>1. /\ IsSequence(added)
        /\ \A k \in DOMAIN added : \E i \in J : added[k] = preset.rules[i]
    BY <1>2, <1>4, KeptSequence
  <2> QED
    BY <1>2, <1>4, <2>1 DEF RulesFormed
<1> HIDE DEF added
<1>6. Joins(kept \o added, kept, added)
  BY <1>3, <1>5, JoinedSequence
<1> QED
  BY <1>1, <1>3, <1>5, <1>6 DEF Joins, RulesFormed

(* Every request but the routes of devices saves a well-formed policy.     *)
LEMMA RulesRequestForms ==
  ASSUME PolicyInv, DataFormed, Idle,
         NEW new, RulesFormed(new.rules), SplitFormed(new.split),
         new.devices = policy.devices,
         NEW apply \in BOOLEAN, NEW how, Save(new, apply, how)
  PROVE  DataFormed'
<1>1. Formed(new)
  BY DEF DataFormed, Formed
<1> QED
  BY <1>1, FormedSaved

(* What the fields of a changed policy are.                                *)
LEMMA ChangedRules ==
  ASSUME NEW p, HasFields(p), NEW rules, NEW split
  PROVE  LET new == [p EXCEPT !.rules = rules, !.split = split]
         IN  new.rules = rules /\ new.split = split /\ new.devices = p.devices
<1> DEFINE ruled == [p EXCEPT !.rules = rules]
           new == [p EXCEPT !.rules = rules, !.split = split]
<1>1. HasFields(ruled) /\ ruled.rules = rules /\ ruled.devices = p.devices
  BY DEF HasFields
<1>2. new = [ruled EXCEPT !.split = split]
  OBVIOUS
<1> HIDE DEF ruled, new
<1>3. new.rules = rules /\ new.split = split /\ new.devices = p.devices
  BY <1>1, <1>2 DEF HasFields
<1> QED
  BY <1>3 DEF new

(* Every request saves rules the editor can make and routes of devices     *)
(* there may be.                                                           *)
LEMMA RequestForms ==
  ASSUME PolicyInv, DataFormed, Request
  PROVE  DataFormed'
<1>1. HasFields(policy) /\ IsPolicy(policy)
  BY DEF PolicyInv, IsPolicy
<1>2. RulesFormed(policy.rules) /\ SplitFormed(policy.split)
  BY DEF DataFormed, Formed
<1>3. ASSUME NEW rules \in RuleLists, NEW apply \in BOOLEAN, ReplaceRules(rules, apply)
      PROVE  DataFormed'
  <2> DEFINE new == [policy EXCEPT !.rules = rules]
  <2>1. /\ Idle
        /\ Save(new, apply, IF StrictDeletion(policy.rules, rules) THEN "keep" ELSE "restore")
    BY <1>3 DEF ReplaceRules
  <2>2. RulesFormed(rules)
    BY RoutingPolicyAssumption DEF RulesFormed
  <2>3. /\ new.rules = rules /\ new.split = policy.split
        /\ new.devices = policy.devices
    BY <1>1 DEF HasFields
  <2> HIDE DEF new
  <2> QED
    BY <1>2, <2>1, <2>2, <2>3, RulesRequestForms
<1>4. ASSUME NEW host, NEW target, RouteResource(host, target)
      PROVE  DataFormed'
  <2> DEFINE rules == Upsert(policy.rules, host, target)
             new == [policy EXCEPT !.rules = rules]
  <2>1. Idle /\ Save(new, TRUE, "restore")
    BY <1>4 DEF RouteResource
  <2>2. RulesFormed(rules)
    BY <1>1, <1>2, UpsertForms DEF IsPolicy
  <2> HIDE DEF rules
  <2>3. /\ new.rules = rules /\ new.split = policy.split
        /\ new.devices = policy.devices
    BY <1>1 DEF HasFields
  <2> HIDE DEF new
  <2> QED
    BY <1>2, <2>1, <2>2, <2>3, RulesRequestForms
<1>5. ASSUME NEW apply \in BOOLEAN, ResetPolicy(apply)
      PROVE  DataFormed'
  <2> DEFINE new == [policy EXCEPT !.rules = ResetRules, !.split = ResetSplit]
  <2>1. Idle /\ Save(new, apply, "restore")
    BY <1>5 DEF ResetPolicy
  <2>2. RulesFormed(ResetRules) /\ SplitFormed(ResetSplit)
    <3>1. RulesFormed(ResetRules)
      BY RoutingPolicyAssumption DEF OwnRules, RulesFormed
    <3>2. ResetSplit.proxied = DefaultSplit.proxied /\ ResetSplit.bypassed = {}
      BY <1>1 DEF ResetSplit, IsPolicy, SplitFields
    <3>3. PortList({}) /\ PortList(DefaultSplit.proxied)
      BY FS_EmptySet, RoutingPolicyAssumption DEF PortList
    <3> QED
      BY <3>1, <3>2, <3>3 DEF SplitFormed
  <2>3. /\ new.rules = ResetRules /\ new.split = ResetSplit
        /\ new.devices = policy.devices
    BY <1>1, ChangedRules
  <2> HIDE DEF new
  <2> QED
    BY <1>2, <2>1, <2>2, <2>3, RulesRequestForms
<1>6. ASSUME NEW preset \in Presets, NEW apply \in BOOLEAN, ApplyPreset(preset, apply)
      PROVE  DataFormed'
  <2> DEFINE rules == PresetRules(preset)
             split == PresetSplit(preset)
             new == [policy EXCEPT !.rules = rules, !.split = split]
  <2>1. Idle /\ Save(new, apply, "restore")
    BY <1>6 DEF ApplyPreset
  <2>2. RulesFormed(rules)
    BY <1>1, <1>2, PresetForms
  <2>4. SplitFormed(split)
    <3>1. /\ split.bypassed = policy.split.bypassed
          /\ split.proxied \in {preset.proxied, policy.split.proxied}
      BY <1>1 DEF PresetSplit, IsPolicy, SplitFields
    <3>2. PortList(preset.proxied)
      BY RoutingPolicyAssumption
    <3> QED
      BY <1>2, <3>1, <3>2 DEF SplitFormed
  <2> HIDE DEF rules, split
  <2>3. /\ new.rules = rules /\ new.split = split
        /\ new.devices = policy.devices
    BY <1>1, ChangedRules
  <2> HIDE DEF new
  <2> QED
    BY <2>1, <2>2, <2>3, <2>4, RulesRequestForms
<1>7. ASSUME NEW given \in Splits, NEW apply \in BOOLEAN, ChangeSettings(given, apply)
      PROVE  DataFormed'
  <2> DEFINE split == [given EXCEPT !.tproxy = policy.split.tproxy,
                                    !.learned = policy.split.learned]
             new == [policy EXCEPT !.split = split]
  <2>1. Idle /\ Save(new, apply, "restore")
    BY <1>7 DEF ChangeSettings
  <2>2. SplitFormed(split)
    <3>1. split.proxied = given.proxied /\ split.bypassed = given.bypassed
      BY RoutingPolicyAssumption DEF SplitFields
    <3> QED
      BY <3>1, RoutingPolicyAssumption DEF SplitFormed
  <2> HIDE DEF split
  <2>3. /\ new.rules = policy.rules /\ new.split = split
        /\ new.devices = policy.devices
    BY <1>1 DEF HasFields
  <2> HIDE DEF new
  <2> QED
    BY <1>2, <2>1, <2>2, <2>3, RulesRequestForms
<1>8. ASSUME NEW safe \in BOOLEAN, NEW apply \in BOOLEAN, SetSafeMode(safe, apply)
      PROVE  DataFormed'
  <2> DEFINE new == [policy EXCEPT !.safe = safe]
  <2>1. Idle /\ Save(new, apply, "restore safe mode")
    BY <1>8 DEF SetSafeMode
  <2>2. /\ new.rules = policy.rules /\ new.split = policy.split
        /\ new.devices = policy.devices
    BY <1>1 DEF HasFields
  <2> HIDE DEF new
  <2> QED
    BY <1>2, <2>1, <2>2, RulesRequestForms
<1>9. ASSUME NEW address \in DeviceAddresses, NEW target, NEW on \in BOOLEAN,
             SetDevice(address, target, on)
      PROVE  DataFormed'
  <2> DEFINE route == [address |-> address, target |-> target, enabled |-> on]
             own == {i \in DOMAIN policy.devices : policy.devices[i].address = address}
             added == Append(policy.devices, route)
             changed == [i \in DOMAIN policy.devices |->
                           IF i \in own THEN route ELSE policy.devices[i]]
             devices == IF own = {} THEN added ELSE changed
             new == [policy EXCEPT !.devices = devices]
             AllKnown(s) == \A i \in DOMAIN s : s[i].address \in DeviceAddresses
  <2>1. Idle /\ Save(new, FALSE, "keep")
    BY <1>9 DEF SetDevice
  <2>2. AllKnown(policy.devices) /\ route.address = address
    BY DEF DataFormed, Formed
  <2>3. AllKnown(changed)
    BY <2>2
  <2> HIDE DEF route
  <2>4. AllKnown(added)
    <3>1. policy.devices \in Seq(ToSet(policy.devices))
      BY <1>1 DEF IsPolicy, IsSequence
    <3> DEFINE S == ToSet(policy.devices) \cup {route}
    <3>2. /\ Len(policy.devices) \in Nat
          /\ policy.devices \in [1..Len(policy.devices) -> ToSet(policy.devices)]
      BY <3>1, LenProperties
    <3>3. policy.devices \in [1..Len(policy.devices) -> S] /\ route \in S
      BY <3>2
    <3> HIDE DEF S
    <3>4. policy.devices \in Seq(S)
      BY <3>2, <3>3
    <3>5. /\ added \in Seq(S) /\ Len(added) = Len(policy.devices) + 1
          /\ \A i \in 1..Len(policy.devices) : added[i] = policy.devices[i]
          /\ added[Len(policy.devices) + 1] = route
      BY <3>3, <3>4, AppendProperties
    <3>6. DOMAIN added = 1..(Len(policy.devices) + 1)
      BY <3>5, LenProperties
    <3>7. DOMAIN policy.devices = 1..Len(policy.devices)
      BY <3>2
    <3>8. \A i \in 1..(Len(policy.devices) + 1) :
             i \in 1..Len(policy.devices) \/ i = Len(policy.devices) + 1
      BY <3>2
    <3> HIDE DEF added
    <3> QED
      BY <2>2, <3>5, <3>6, <3>7, <3>8
  <2>5. AllKnown(devices)
    BY <2>3, <2>4
  <2> HIDE DEF devices
  <2>6. /\ new.rules = policy.rules /\ new.split = policy.split
        /\ new.devices = devices
    BY <1>1 DEF HasFields
  <2> HIDE DEF new
  <2>7. Formed(new)
    BY <1>2, <2>5, <2>6 DEF Formed
  <2> QED
    BY <2>1, <2>7, FormedSaved
<1>10. ASSUME NEW address, DeleteDevice(address)
       PROVE  DataFormed'
  <2> DEFINE others == {i \in DOMAIN policy.devices : policy.devices[i].address # address}
             devices == Kept(policy.devices, others)
             new == [policy EXCEPT !.devices = devices]
  <2>1. Idle /\ Save(new, FALSE, "keep")
    BY <1>10 DEF DeleteDevice
  <2>2. others \in SUBSET (DOMAIN policy.devices) /\ IsSequence(policy.devices)
    BY <1>1 DEF IsPolicy
  <2> HIDE DEF others
  <2>3. \A k \in DOMAIN devices : \E i \in others : devices[k] = policy.devices[i]
    BY <2>2, KeptSequence
  <2>4. \A k \in DOMAIN devices : devices[k].address \in DeviceAddresses
    BY <2>2, <2>3 DEF DataFormed, Formed
  <2> HIDE DEF devices
  <2>5. /\ new.rules = policy.rules /\ new.split = policy.split
        /\ new.devices = devices
    BY <1>1 DEF HasFields
  <2> HIDE DEF new
  <2>6. Formed(new)
    BY <1>2, <2>4, <2>5 DEF Formed
  <2> QED
    BY <2>1, <2>6, FormedSaved
<1>11. ASSUME ApplyPolicy
       PROVE  DataFormed'
  <2>1. policy' = policy /\ op'.prev = policy
    BY <1>11 DEF ApplyPolicy, Start
  <2> QED
    BY <2>1 DEF DataFormed, Formed
<1> QED
  BY <1>3, <1>4, <1>5, <1>6, <1>7, <1>8, <1>9, <1>10, <1>11 DEF Request

(* An undone change brings back what was well formed.                      *)
LEMMA FailForms ==
  ASSUME PolicyInv, DataFormed, ~Idle, Fail
  PROVE  DataFormed'
<1>1. /\ Idle' /\ HasFields(policy) /\ HasFields(op.prev) /\ Formed(policy) /\ Formed(op.prev)
      /\ op.undo \in {"restore", "restore safe mode", "keep"}
  BY DEF Fail, Idle, NoOp, PolicyInv, IsPolicy, Undoes, DataFormed
<1>2. \/ policy' = [op.prev EXCEPT !.safe = policy.safe]
      \/ policy' = [policy EXCEPT !.safe = op.prev.safe]
      \/ policy' = policy
  BY <1>1 DEF Fail
<1>3. \/ /\ policy'.rules = policy.rules /\ policy'.split = policy.split
         /\ policy'.devices = policy.devices
      \/ /\ policy'.rules = op.prev.rules /\ policy'.split = op.prev.split
         /\ policy'.devices = op.prev.devices
  BY <1>1, <1>2 DEF HasFields
<1>4. Formed(policy')
  BY <1>1, <1>3 DEF Formed
<1> QED
  BY <1>1, <1>4 DEF DataFormed, Formed

(* No step makes a rule or a device's route that cannot be.                *)
LEMMA StepForms ==
  ASSUME PolicyInv, DataFormed, [PolicyNext]_policyVars
  PROVE  DataFormed'
<1>1. CASE Request
  BY <1>1, RequestForms
<1>2. ASSUME NEW host, NEW blocked, LearnException(host, blocked)
      PROVE  DataFormed'
  <2> DEFINE split == [policy.split EXCEPT !.learned =
                        IF blocked THEN @ \cup {Suffix(host)} ELSE @ \ {Suffix(host)}]
             new == [policy EXCEPT !.split = split]
  <2>1. policy' = new /\ Idle /\ Idle'
    BY <1>2 DEF LearnException, Idle
  <2>2. split.proxied = policy.split.proxied /\ split.bypassed = policy.split.bypassed
    BY DEF PolicyInv, IsPolicy, SplitFields
  <2> HIDE DEF split
  <2>3. /\ new.rules = policy.rules /\ new.split = split
        /\ new.devices = policy.devices
    BY DEF PolicyInv, IsPolicy, HasFields
  <2> HIDE DEF new
  <2> QED
    BY <2>1, <2>2, <2>3 DEF DataFormed, Formed, SplitFormed
<1>3. CASE Generate
  <2>1. policy' = policy /\ op'.prev = op.prev /\ ~Idle
    BY <1>3 DEF Generate, Idle
  <2> QED
    BY <2>1 DEF DataFormed, Formed
<1>4. CASE Load
  <2>1. policy' = policy /\ Idle'
    BY <1>4 DEF Load, Idle, NoOp
  <2> QED
    BY <2>1 DEF DataFormed, Formed
<1>5. CASE CannotGenerate \/ ActivationFails
  <2>1. ~Idle /\ Fail
    BY <1>5 DEF CannotGenerate, ActivationFails, Idle
  <2> QED
    BY <2>1, FailForms
<1>6. ASSUME NEW server, DeleteProfile(server)
      PROVE  DataFormed'
  <2>1. policy' = policy /\ op' = op
    BY <1>6 DEF DeleteProfile
  <2> QED
    BY <2>1 DEF DataFormed, Formed, Idle
<1>7. CASE UNCHANGED policyVars
  BY <1>7 DEF policyVars, DataFormed, Formed, Idle
<1> QED
  BY <1>1, <1>2, <1>3, <1>4, <1>5, <1>6, <1>7 DEF PolicyNext

(* A daemon starts with such data.                                         *)
LEMMA DataStarts ==
  ASSUME PolicyInit
  PROVE  DataFormed
<1>1. PICK start \in Starts, tproxy \in BOOLEAN :
         /\ policy.rules = start.rules /\ policy.devices = <<>>
         /\ policy.split = [DefaultSplit EXCEPT !.tproxy = tproxy]
  BY DEF PolicyInit
<1>2. RulesFormed(policy.rules) /\ SplitFormed(policy.split)
  <2>1. RulesFormed(policy.rules)
    BY <1>1, RoutingPolicyAssumption DEF RulesFormed
  <2>2. /\ policy.split.proxied = DefaultSplit.proxied
        /\ policy.split.bypassed = DefaultSplit.bypassed
    BY <1>1, RoutingPolicyAssumption DEF SplitFields
  <2> QED
    BY <2>1, <2>2, RoutingPolicyAssumption DEF SplitFormed
<1>3. DOMAIN policy.devices = {}
  BY <1>1
<1>4. Idle
  BY DEF PolicyInit, Idle, NoOp
<1> QED
  BY <1>2, <1>3, <1>4 DEF DataFormed, Formed

(* Every saved policy has only what the handlers let through.              *)
THEOREM PolicyFormed ==
  PolicySpec => []DataFormed
<1>1. PolicyInit => DataFormed
  BY DataStarts
<1>2. PolicyInv /\ DataFormed /\ [PolicyNext]_policyVars => DataFormed'
  BY StepForms
<1> QED
  BY <1>1, <1>2, PolicyInvariant, PTL DEF PolicySpec

(* What Mihomo reads of a connection in the generated rules of a rule.     *)
Named(rule, c) ==
  \E item \in RuleDomains(rule) :
    IF item.m = "runtime" THEN item.v \in c.runtime
    ELSE c.host # NoHost /\ HostMatches(item, c.host)
Addressed(rule, c) ==
  \E item \in RuleAddresses(rule) :
    \/ item.m = "cidr" /\ c.address \in item.v
    \/ item.m = "src-cidr" /\ c.source \in item.v
    \/ item.m = "runtime" /\ item.v \in c.runtime
PortsFit(rule, c) ==
  \A kind \in {"dst", "src"} :
    OfKind(rule.ports, kind) # {} =>
      InSpecs(IF kind = "dst" THEN c.port ELSE c.sourcePort, OfKind(rule.ports, kind))
        # (rule.mode = "exclude")

(* An entry of a rule matches by the rule's names or addresses, if it has  *)
(* any, and by its ports and network.                                      *)
LEMMA EntryOfRule ==
  ASSUME NEW w, NEW rule, NEW c
  PROVE  EntryMatches(RuleEntry(w, rule), c) <=>
           /\ \/ RuleDomains(rule) = {} /\ RuleAddresses(rule) = {}
              \/ Named(rule, c)
              \/ Addressed(rule, c)
           /\ PortsFit(rule, c)
           /\ rule.network \in {AnyNetwork, c.network}
<1> DEFINE entry == RuleEntry(w, rule)
<1>1. /\ entry.domains = RuleDomains(rule) /\ entry.addresses = RuleAddresses(rule)
      /\ entry.ports = rule.ports /\ entry.except = (rule.mode = "exclude")
      /\ entry.network = rule.network
  BY DEF RuleEntry, Entry
<1> HIDE DEF entry
<1> QED
  BY <1>1, Zenon DEF EntryMatches, Named, Addressed, PortsFit, entry

(* A connection agrees with what the question says of it.                  *)
LEMMA WhatIsKnown ==
  ASSUME NEW q, NEW c \in Connections(q)
  PROVE  /\ q.host # NoHost => c.host = q.host
         /\ q.address # NoAddress => c.address = q.address
         /\ q.source # NoAddress => c.source = q.source
         /\ q.source = NoAddress => c.source \notin OwnRouted
         /\ q.port # NoPort => c.port = q.port
         /\ q.network # AnyNetwork => c.network = q.network
<1>1. /\ c.host \in Known(q.host, NoHost, Hosts \cup {NoHost})
      /\ c.address \in Known(q.address, NoAddress, Addresses)
      /\ c.source \in Known(q.source, NoAddress, Addresses \ OwnRouted)
      /\ c.port \in Known(q.port, NoPort, Ports)
      /\ c.network \in Known(q.network, AnyNetwork, Networks)
  BY DEF Connections
<1> QED
  BY <1>1 DEF Known

(* By its domains a rule matches when the trace says so, and not when the  *)
(* trace says that it cannot.                                              *)
LEMMA DomainsTraced ==
  ASSUME NEW rule, TraceDomains(rule) = RuleDomains(rule), NEW q, NEW c \in Connections(q)
  PROVE  /\ DomainExact(rule, q) => Named(rule, c)
         /\ ~DomainExact(rule, q) /\ ~DomainPossible(rule, q) => ~Named(rule, c)
<1>1. ASSUME DomainExact(rule, q)
      PROVE  Named(rule, c)
  <2>1. PICK item \in RuleDomains(rule) : HostMatches(item, q.host)
    BY <1>1 DEF DomainExact
  <2>2. c.host = q.host /\ c.host # NoHost
    BY <1>1, WhatIsKnown DEF DomainExact
  <2>3. item.m # "runtime"
    BY <2>1 DEF HostMatches
  <2> QED
    BY <2>1, <2>2, <2>3 DEF Named
<1>2. ASSUME ~DomainExact(rule, q), ~DomainPossible(rule, q), Named(rule, c)
      PROVE  FALSE
  <2>1. PICK item \in RuleDomains(rule) :
             IF item.m = "runtime" THEN item.v \in c.runtime
             ELSE c.host # NoHost /\ HostMatches(item, c.host)
    BY <1>2 DEF Named
  <2>2. item.m # "runtime" /\ q.host # NoHost
    BY <1>2 DEF DomainPossible
  <2>3. c.host = q.host
    BY <2>2, WhatIsKnown
  <2> QED
    BY <1>2, <2>1, <2>2, <2>3 DEF DomainExact
<1> QED
  BY <1>1, <1>2

(* So it does by its addresses.                                            *)
LEMMA AddressesTraced ==
  ASSUME NEW rule, WellFormed(rule), TraceAddresses(rule) = RuleAddresses(rule),
         NEW q, NEW c \in Connections(q)
  PROVE  /\ AddressExact(rule, q) => Addressed(rule, c)
         /\ ~AddressExact(rule, q) /\ ~AddressPossible(rule, q) => ~Addressed(rule, c)
<1>1. \A item \in RuleAddresses(rule) : AddressItem(item)
  <2>1. \A item \in rule.ips : AddressItem(item)
    BY DEF WellFormed
  <2>2. rule.kind = "ip" /\ rule.pattern # NoPattern => AddressItem(rule.pattern)
    BY DEF WellFormed
  <2> QED
    BY <2>1, <2>2 DEF RuleAddresses
<1>2. NoAddress \notin Addresses
  BY RoutesAssumption DEF NoAddress
<1>3. ASSUME AddressExact(rule, q)
      PROVE  Addressed(rule, c)
  <2>1. PICK item \in RuleAddresses(rule) : item.m # "runtime" /\ AddressOf(item, q) \in item.v
    BY <1>3 DEF AddressExact
  <2>2. item.m \in {"cidr", "src-cidr"} /\ AddressOf(item, q) # NoAddress
    BY <1>1, <1>2, <2>1 DEF AddressItem
  <2>3. CASE item.m = "cidr"
    <3>1. c.address \in item.v
      BY <2>1, <2>2, <2>3, WhatIsKnown DEF AddressOf
    <3> QED
      BY <2>3, <3>1 DEF Addressed
  <2>4. CASE item.m = "src-cidr"
    <3>1. c.source \in item.v
      BY <2>1, <2>2, <2>4, WhatIsKnown DEF AddressOf
    <3> QED
      BY <2>4, <3>1 DEF Addressed
  <2> QED
    BY <2>2, <2>3, <2>4
<1>4. ASSUME ~AddressExact(rule, q), ~AddressPossible(rule, q), Addressed(rule, c)
      PROVE  FALSE
  <2>1. PICK item \in RuleAddresses(rule) :
             \/ item.m = "cidr" /\ c.address \in item.v
             \/ item.m = "src-cidr" /\ c.source \in item.v
             \/ item.m = "runtime" /\ item.v \in c.runtime
    BY <1>4 DEF Addressed
  <2>2. item.m # "runtime" /\ AddressOf(item, q) # NoAddress
    BY <1>4 DEF AddressPossible
  <2>3. AddressOf(item, q) \notin item.v
    BY <1>4, <2>2 DEF AddressExact
  <2>4. CASE item.m = "cidr" /\ c.address \in item.v
    BY <2>2, <2>3, <2>4, WhatIsKnown DEF AddressOf
  <2>5. CASE item.m = "src-cidr" /\ c.source \in item.v
    BY <2>2, <2>3, <2>5, WhatIsKnown DEF AddressOf
  <2> QED
    BY <2>1, <2>2, <2>4, <2>5
<1> QED
  BY <1>3, <1>4

(* Ports and networks the trace knows are matched as Mihomo does.          *)
LEMMA PortsTraced ==
  ASSUME NEW rule, WellFormed(rule), NEW q, NEW c \in Connections(q),
         ~PortsUnknown(rule, q)
  PROVE  PortsFit(rule, c) <=> PortsMatch(rule, q)
<1>1. CASE rule.ports = {}
  <2>1. \A kind : OfKind(rule.ports, kind) = {}
    BY <1>1 DEF OfKind
  <2> QED
    BY <1>1, <2>1 DEF PortsFit, PortsMatch
<1>2. CASE rule.ports # {}
  <2>1. q.port # NoPort /\ OfKind(rule.ports, "src") = {}
    BY <1>2 DEF PortsUnknown
  <2>2. c.port = q.port
    BY <2>1, WhatIsKnown
  <2>3. OfKind(rule.ports, "dst") = rule.ports
    BY <2>1 DEF OfKind, WellFormed, PortItem
  <2>4. PortsFit(rule, c) <=> InSpecs(c.port, rule.ports) # (rule.mode = "exclude")
    BY <1>2, <2>1, <2>3, Zenon DEF PortsFit
  <2>5. PortsMatch(rule, q) <=> InSpecs(q.port, rule.ports) # (rule.mode = "exclude")
    BY <1>2, Zenon DEF PortsMatch
  <2> QED
    BY <2>2, <2>4, <2>5
<1> QED
  BY <1>1, <1>2

(* The trace's verdict on one rule is true of every connection it may be   *)
(* about: a match is one, and a rule that does not match is left out of    *)
(* the configuration or passed over.                                       *)
LEMMA VerdictTrue ==
  ASSUME NEW rule, WellFormed(rule), Unambiguous(rule), NEW q, NEW c \in Connections(q), NEW w
  PROVE  /\ Verdict(rule, q) \in {"no", "unsure", "match", "candidate"}
         /\ Verdict(rule, q) = "match" =>
              Emitted(rule) /\ EntryMatches(RuleEntry(w, rule), c)
         /\ Verdict(rule, q) = "no" =>
              ~(Emitted(rule) /\ EntryMatches(RuleEntry(w, rule), c))
<1> DEFINE ports == PortsUnknown(rule, q)
           network == NetworkUnknown(rule, q)
           refused == \/ ~rule.enabled
                      \/ ~ports /\ ~PortsMatch(rule, q)
                      \/ ~network /\ rule.network \notin {AnyNetwork, q.network}
           exact == DomainExact(rule, q) \/ AddressExact(rule, q) \/ PortOnly(rule)
           possible == DomainPossible(rule, q) \/ AddressPossible(rule, q)
           matches == EntryMatches(RuleEntry(w, rule), c)
<1>1. Verdict(rule, q) =
        IF refused THEN "no"
        ELSE IF exact THEN IF ports \/ network THEN "unsure" ELSE "match"
        ELSE IF possible THEN "candidate" ELSE "no"
  BY Zenon DEF Verdict
<1>2. ~ports => (PortsFit(rule, c) <=> PortsMatch(rule, q))
  BY PortsTraced
<1>3. ~network =>
        (rule.network \in {AnyNetwork, c.network} <=> rule.network \in {AnyNetwork, q.network})
  <2>1. ASSUME ~network
        PROVE  rule.network \in {AnyNetwork, c.network} <=> rule.network \in {AnyNetwork, q.network}
    <3>1. rule.network = AnyNetwork \/ q.network # AnyNetwork
      BY <2>1 DEF NetworkUnknown
    <3>2. q.network # AnyNetwork => c.network = q.network
      BY WhatIsKnown
    <3> QED
      BY <3>1, <3>2
  <2> QED
    BY <2>1
<1>4. /\ TraceDomains(rule) = RuleDomains(rule) /\ TraceAddresses(rule) = RuleAddresses(rule)
  BY DEF Unambiguous
<1>5. /\ DomainExact(rule, q) => Named(rule, c)
      /\ ~DomainExact(rule, q) /\ ~DomainPossible(rule, q) => ~Named(rule, c)
      /\ AddressExact(rule, q) => Addressed(rule, c)
      /\ ~AddressExact(rule, q) /\ ~AddressPossible(rule, q) => ~Addressed(rule, c)
  BY <1>4, DomainsTraced, AddressesTraced
<1>6. matches <=> /\ \/ RuleDomains(rule) = {} /\ RuleAddresses(rule) = {}
                     \/ Named(rule, c)
                     \/ Addressed(rule, c)
                  /\ PortsFit(rule, c)
                  /\ rule.network \in {AnyNetwork, c.network}
  BY EntryOfRule
<1>7. PortOnly(rule) =>
        /\ RuleDomains(rule) = {} /\ RuleAddresses(rule) = {}
        /\ rule.ports # {} \/ rule.network # AnyNetwork
  BY DEF PortOnly, RuleDomains, RuleAddresses
<1>8. ASSUME RuleDomains(rule) = {}, RuleAddresses(rule) = {}, ~PortOnly(rule)
      PROVE  ~Emitted(rule)
  <2>1. /\ rule.domains \cup {Runtime(s) : s \in rule.services} = {}
        /\ rule.pattern = NoPattern \/ rule.kind = "ip"
    BY <1>4, <1>8 DEF TraceDomains
  <2>2. rule.ips = {} /\ (rule.pattern = NoPattern \/ rule.kind # "ip")
    BY <1>4, <1>8 DEF TraceAddresses
  <2>3. rule.domains = {} /\ rule.services = {} /\ rule.ips = {} /\ rule.pattern = NoPattern
    BY <2>1, <2>2
  <2>4. rule.ports = {} /\ rule.network = AnyNetwork
    BY <1>8, <2>3 DEF PortOnly
  <2> QED
    BY <1>8, <2>4 DEF Emitted
<1>9. Named(rule, c) \/ Addressed(rule, c) => RuleDomains(rule) # {} \/ RuleAddresses(rule) # {}
  BY DEF Named, Addressed
<1>10. Emitted(rule) <=> /\ rule.enabled
                         /\ \/ RuleDomains(rule) # {} \/ RuleAddresses(rule) # {}
                            \/ rule.ports # {} \/ rule.network # AnyNetwork
  BY DEF Emitted
<1> HIDE DEF ports, network, matches
<1>11. Verdict(rule, q) \in {"no", "unsure", "match", "candidate"}
  <2> HIDE DEF refused, exact, possible
  <2> QED
    BY <1>1
<1>12. ASSUME ~refused, exact, ~ports, ~network
       PROVE  Emitted(rule) /\ matches
  <2>1. rule.enabled /\ PortsFit(rule, c) /\ rule.network \in {AnyNetwork, c.network}
    BY <1>2, <1>3, <1>12
  <2>2. Named(rule, c) \/ Addressed(rule, c) \/ PortOnly(rule)
    BY <1>5, <1>12
  <2> QED
    BY <1>6, <1>7, <1>9, <1>10, <2>1, <2>2, Zenon
<1>13. ASSUME refused
       PROVE  ~(Emitted(rule) /\ matches)
  BY <1>2, <1>3, <1>6, <1>10, <1>13, Zenon
<1>14. ASSUME ~exact, ~possible
       PROVE  ~(Emitted(rule) /\ matches)
  <2>1. ~Named(rule, c) /\ ~Addressed(rule, c) /\ ~PortOnly(rule)
    BY <1>5, <1>14, Zenon
  <2> QED
    BY <1>6, <1>8, <2>1, Zenon
<1>15. Verdict(rule, q) = "match" => ~refused /\ exact /\ ~ports /\ ~network
  <2> HIDE DEF refused, exact, possible
  <2> QED
    BY <1>1
<1>16. Verdict(rule, q) = "no" => refused \/ (~exact /\ ~possible)
  <2> HIDE DEF refused, exact, possible
  <2> QED
    BY <1>1
<1> HIDE DEF refused, exact, possible
<1> QED
  BY <1>11, <1>12, <1>13, <1>14, <1>15, <1>16 DEF matches

(* The first entry of a list a connection matches sends it to `to'; or     *)
(* there is none.                                                          *)
FirstMatch(s, c, to) ==
  \E k \in 1..Len(s) :
    /\ EntryMatches(s[k], c) /\ s[k].to = to
    /\ \A j \in 1..(k - 1) : ~EntryMatches(s[j], c)
NoMatch(s, c) == \A k \in 1..Len(s) : ~EntryMatches(s[k], c)

(* Mihomo decides by the first match.                                      *)
LEMMA FirstDecides ==
  ASSUME NEW s, IsSequence(s), NEW c, NEW to, FirstMatch(s, c, to)
  PROVE  Decide(s, c) = to
<1> DEFINE F(i) == EntryMatches(s[i], c) /\ \A j \in 1 .. i - 1 : ~EntryMatches(s[j], c)
           first == CHOOSE i \in DOMAIN s : F(i)
<1>1. DOMAIN s = 1..Len(s) /\ Len(s) \in Nat
  BY Sequences
<1>2. PICK k \in 1..Len(s) : F(k) /\ s[k].to = to
  BY DEF FirstMatch
<1>3. first \in 1..Len(s) /\ F(first)
  <2> HIDE DEF F
  <2> QED
    BY <1>1, <1>2
<1>4. Decide(s, c) = s[first].to
  BY DEF Decide
<1>5. ~(first < k) /\ ~(k < first)
  <2>1. ASSUME first < k PROVE FALSE
    <3>1. first \in 1..(k - 1)
      BY <1>1, <1>3, <2>1
    <3> QED
      BY <1>2, <1>3, <3>1
  <2>2. ASSUME k < first PROVE FALSE
    <3>1. k \in 1..(first - 1)
      BY <1>1, <1>2, <1>3, <2>2
    <3> QED
      BY <1>2, <1>3, <3>1
  <2> QED
    BY <2>1, <2>2
<1>6. first = k
  BY <1>1, <1>3, <1>5
<1> QED
  BY <1>2, <1>4, <1>6

(* A list joined to another has its elements, then the other's.            *)
LEMMA JoinedElements ==
  ASSUME NEW s, IsSequence(s), NEW t, IsSequence(t)
  PROVE  /\ IsSequence(s \o t) /\ Len(s \o t) = Len(s) + Len(t)
         /\ Len(s) \in Nat /\ Len(t) \in Nat
         /\ \A k \in 1..Len(s) : (s \o t)[k] = s[k]
         /\ \A k \in 1..Len(t) : (s \o t)[Len(s) + k] = t[k]
<1> DEFINE S == ToSet(s) \cup ToSet(t)
<1>1. /\ Len(s) \in Nat /\ Len(t) \in Nat
      /\ s \in [1..Len(s) -> ToSet(s)] /\ t \in [1..Len(t) -> ToSet(t)]
  <2>1. s \in Seq(ToSet(s)) /\ t \in Seq(ToSet(t))
    BY DEF IsSequence
  <2> QED
    BY <2>1, LenProperties
<1>2. s \in Seq(S) /\ t \in Seq(S)
  <2>1. s \in [1..Len(s) -> S] /\ t \in [1..Len(t) -> S]
    BY <1>1
  <2> HIDE DEF S
  <2> QED
    BY <1>1, <2>1
<1> HIDE DEF S
<1>3. /\ s \o t \in Seq(S) /\ Len(s \o t) = Len(s) + Len(t)
      /\ \A k \in 1..(Len(s) + Len(t)) :
           (s \o t)[k] = IF k <= Len(s) THEN s[k] ELSE t[k - Len(s)]
  BY <1>2, ConcatProperties
<1>4. IsSequence(s \o t)
  BY <1>3, Sequences
<1>5. \A k \in 1..Len(s) : k \in 1..(Len(s) + Len(t)) /\ k <= Len(s)
  BY <1>1
<1>6. \A k \in 1..Len(t) :
        Len(s) + k \in 1..(Len(s) + Len(t)) /\ ~(Len(s) + k <= Len(s)) /\ Len(s) + k - Len(s) = k
  BY <1>1
<1> QED
  BY <1>1, <1>3, <1>4, <1>5, <1>6

(* What decides in the first list decides; what matches nothing there is   *)
(* decided by the second.                                                  *)
LEMMA FirstOfJoined ==
  ASSUME NEW s, IsSequence(s), NEW t, IsSequence(t), NEW c, NEW to,
         FirstMatch(s, c, to) \/ (NoMatch(s, c) /\ FirstMatch(t, c, to))
  PROVE  FirstMatch(s \o t, c, to)
<1> DEFINE u == s \o t
<1>1. /\ Len(u) = Len(s) + Len(t) /\ Len(s) \in Nat /\ Len(t) \in Nat
      /\ \A k \in 1..Len(s) : u[k] = s[k]
      /\ \A k \in 1..Len(t) : u[Len(s) + k] = t[k]
  BY JoinedElements
<1> HIDE DEF u
<1>2. ASSUME FirstMatch(s, c, to) PROVE FirstMatch(u, c, to)
  <2>1. PICK k \in 1..Len(s) : /\ EntryMatches(s[k], c) /\ s[k].to = to
                               /\ \A j \in 1..(k - 1) : ~EntryMatches(s[j], c)
    BY <1>2 DEF FirstMatch
  <2>2. k \in 1..Len(u) /\ u[k] = s[k] /\ \A j \in 1..(k - 1) : u[j] = s[j]
    BY <1>1
  <2> QED
    BY <2>1, <2>2 DEF FirstMatch
<1>3. ASSUME NoMatch(s, c), FirstMatch(t, c, to) PROVE FirstMatch(u, c, to)
  <2>1. PICK k \in 1..Len(t) : /\ EntryMatches(t[k], c) /\ t[k].to = to
                               /\ \A j \in 1..(k - 1) : ~EntryMatches(t[j], c)
    BY <1>3 DEF FirstMatch
  <2>2. Len(s) + k \in 1..Len(u) /\ u[Len(s) + k] = t[k]
    BY <1>1
  <2>3. ASSUME NEW j \in 1..(Len(s) + k - 1) PROVE ~EntryMatches(u[j], c)
    <3>1. CASE j \in 1..Len(s)
      BY <1>1, <1>3, <3>1 DEF NoMatch
    <3>2. CASE j \notin 1..Len(s)
      <4>1. j - Len(s) \in 1..(k - 1) /\ j - Len(s) \in 1..Len(t) /\ Len(s) + (j - Len(s)) = j
        BY <1>1, <3>2
      <4>2. u[j] = t[j - Len(s)]
        BY <1>1, <4>1
      <4> QED
        BY <2>1, <4>1, <4>2
    <3> QED
      BY <3>1, <3>2
  <2> QED
    BY <2>1, <2>2, <2>3 DEF FirstMatch
<1> QED
  BY <1>2, <1>3 DEF u

(* What matches in neither of two lists does not in the two joined.        *)
LEMMA NoneOfJoined ==
  ASSUME NEW s, IsSequence(s), NEW t, IsSequence(t), NEW c, NoMatch(s, c), NoMatch(t, c)
  PROVE  NoMatch(s \o t, c)
<1> DEFINE u == s \o t
<1>1. /\ Len(u) = Len(s) + Len(t) /\ Len(s) \in Nat /\ Len(t) \in Nat
      /\ \A k \in 1..Len(s) : u[k] = s[k]
      /\ \A k \in 1..Len(t) : u[Len(s) + k] = t[k]
  BY JoinedElements
<1> HIDE DEF u
<1>2. ASSUME NEW j \in 1..Len(u) PROVE ~EntryMatches(u[j], c)
  <2>1. CASE j \in 1..Len(s)
    BY <1>1, <2>1 DEF NoMatch
  <2>2. CASE j \notin 1..Len(s)
    <3>1. j - Len(s) \in 1..Len(t) /\ Len(s) + (j - Len(s)) = j
      BY <1>1, <2>2
    <3>2. u[j] = t[j - Len(s)]
      BY <1>1, <3>1
    <3> QED
      BY <3>1, <3>2 DEF NoMatch
  <2> QED
    BY <2>1, <2>2
<1> QED
  BY <1>2 DEF NoMatch, u

(* In a list that keeps some positions, an element comes after those of    *)
(* lower positions only.                                                   *)
LEMMA KeptBefore ==
  ASSUME NEW s, IsSequence(s), NEW I \in SUBSET (DOMAIN s)
  PROVE  /\ DOMAIN Kept(s, I) = 1..Cardinality(I) /\ Cardinality(I) \in Nat
         /\ \A i \in I : \E k \in 1..Cardinality(I) :
              /\ Kept(s, I)[k] = s[i]
              /\ \A j \in 1..(k - 1) : \E m \in I : m < i /\ Kept(s, I)[j] = s[m]
<1> DEFINE n == Len(s)
           size == Cardinality(I)
<1>1. n \in Nat /\ I \in SUBSET (1..n)
  BY Sequences
<1>2. /\ size \in Nat
      /\ \A k \in 1..size : Nth(I, k) \in I /\ Rank(I, Nth(I, k)) = k
      /\ \A i \in I : Rank(I, i) \in 1..size /\ Nth(I, Rank(I, i)) = i
  BY <1>1, NthFound
<1>3. Kept(s, I) = [k \in 1..size |-> s[Nth(I, k)]]
  BY DEF Kept
<1>4. ASSUME NEW i \in I
      PROVE  \E k \in 1..size :
               /\ Kept(s, I)[k] = s[i]
               /\ \A j \in 1..(k - 1) : \E m \in I : m < i /\ Kept(s, I)[j] = s[m]
  <2> DEFINE k == Rank(I, i)
  <2>1. k \in 1..size /\ Kept(s, I)[k] = s[i]
    BY <1>2, <1>3
  <2>2. ASSUME NEW j \in 1..(k - 1)
        PROVE  \E m \in I : m < i /\ Kept(s, I)[j] = s[m]
    <3> DEFINE m == Nth(I, j)
    <3>1. j \in 1..size /\ j < k
      BY <1>2, <2>1
    <3>2. m \in I /\ Rank(I, m) = j /\ Kept(s, I)[j] = s[m]
      BY <1>2, <1>3, <3>1
    <3> HIDE DEF m
    <3>3. i \in Nat /\ m \in Nat
      BY <1>1, <3>2
    <3>4. ASSUME i < m PROVE FALSE
      <4>1. Rank(I, i) < Rank(I, m)
        BY <1>1, <3>2, <3>4, RankOrder
      <4> QED
        BY <1>2, <3>1, <3>2, <4>1
    <3>5. m # i
      BY <1>2, <3>1, <3>2
    <3>6. m < i
      BY <3>3, <3>4, <3>5
    <3> QED
      BY <3>2, <3>6
  <2> QED
    BY <2>1, <2>2
<1> QED
  BY <1>2, <1>3, <1>4

(* The length of a sequence is the number of its positions.                *)
LEMMA LengthOf ==
  ASSUME NEW s, IsSequence(s), NEW n \in Nat, DOMAIN s = 1..n
  PROVE  Len(s) = n
<1>1. Len(s) \in Nat /\ 1..Len(s) = 1..n
  BY Sequences
<1>2. \A m \in Nat : m # 0 => m \in 1..m
  OBVIOUS
<1>3. \A m, k \in Nat : m \in 1..k => m <= k
  OBVIOUS
<1>4. Len(s) # 0 => Len(s) <= n
  BY <1>1, <1>2, <1>3
<1>5. n # 0 => n <= Len(s)
  BY <1>1, <1>2, <1>3
<1> QED
  BY <1>1, <1>4, <1>5

(* The entries of the rules come in the order of the rules: the first rule *)
(* that is emitted and matches decides.                                    *)
LEMMA RulesDecide ==
  ASSUME NEW w, NEW rules, IsSequence(rules), NEW c
  PROVE  LET Takes(i) == Emitted(rules[i]) /\ EntryMatches(RuleEntry(w, rules[i]), c)
         IN  /\ IsSequence(RuleEntries(w, rules))
             /\ (\A i \in DOMAIN rules : ~Takes(i)) => NoMatch(RuleEntries(w, rules), c)
             /\ \A i \in DOMAIN rules :
                  Takes(i) /\ (\A m \in DOMAIN rules : m < i => ~Takes(m))
                    => FirstMatch(RuleEntries(w, rules), c, Resolve(w, rules[i].target))
<1> DEFINE Takes(i) == Emitted(rules[i]) /\ EntryMatches(RuleEntry(w, rules[i]), c)
           I == {i \in DOMAIN rules : Emitted(rules[i])}
           emitted == Kept(rules, I)
           entries == RuleEntries(w, rules)
           n == Cardinality(I)
<1>1. I \in SUBSET (DOMAIN rules) /\ \A i \in I : Emitted(rules[i])
  OBVIOUS
<1>2. \A i \in DOMAIN rules : Emitted(rules[i]) => i \in I
  OBVIOUS
<1>3. entries = [k \in DOMAIN emitted |-> RuleEntry(w, emitted[k])]
  BY DEF RuleEntries
<1> HIDE DEF I, entries
<1>4. /\ DOMAIN emitted = 1..n /\ n \in Nat
      /\ \A i \in I : \E k \in 1..n :
           /\ emitted[k] = rules[i]
           /\ \A j \in 1..(k - 1) : \E m \in I : m < i /\ emitted[j] = rules[m]
      /\ \A k \in 1..n : \E i \in I : emitted[k] = rules[i]
  <2>1. /\ DOMAIN emitted = 1..n /\ n \in Nat
        /\ \A i \in I : \E k \in 1..n :
             /\ emitted[k] = rules[i]
             /\ \A j \in 1..(k - 1) : \E m \in I : m < i /\ emitted[j] = rules[m]
    BY <1>1, KeptBefore
  <2>2. \A k \in DOMAIN emitted : \E i \in I : emitted[k] = rules[i]
    BY <1>1, KeptSequence
  <2> HIDE DEF emitted, n
  <2> QED
    BY <2>1, <2>2
<1> HIDE DEF emitted, n
<1>5. entries = [k \in 1..n |-> RuleEntry(w, emitted[k])]
  BY <1>3, <1>4
<1>6. IsSequence(entries) /\ DOMAIN entries = 1..n /\ Len(entries) = n
  <2>1. entries = [k \in 1..n |-> entries[k]]
    BY <1>5
  <2>2. IsSequence(entries)
    BY <1>4, <2>1, Sequences
  <2>3. DOMAIN entries = 1..n
    BY <1>5
  <2>4. Len(entries) = n
    BY <1>4, <2>2, <2>3, LengthOf
  <2> QED
    BY <2>2, <2>3, <2>4
<1>7. ASSUME \A i \in DOMAIN rules : ~Takes(i)
      PROVE  NoMatch(entries, c)
  <2>1. ASSUME NEW k \in 1..n PROVE ~EntryMatches(entries[k], c)
    <3>1. PICK i \in I : emitted[k] = rules[i]
      BY <1>4
    <3>2. entries[k] = RuleEntry(w, rules[i])
      BY <1>5, <3>1
    <3> QED
      BY <1>1, <1>7, <3>2
  <2> QED
    BY <1>6, <2>1 DEF NoMatch
<1>8. ASSUME NEW i \in DOMAIN rules, Takes(i), \A m \in DOMAIN rules : m < i => ~Takes(m)
      PROVE  FirstMatch(entries, c, Resolve(w, rules[i].target))
  <2>1. i \in I
    BY <1>2, <1>8
  <2>2. PICK k \in 1..n :
           /\ emitted[k] = rules[i]
           /\ \A j \in 1..(k - 1) : \E m \in I : m < i /\ emitted[j] = rules[m]
    BY <1>4, <2>1
  <2>3. entries[k] = RuleEntry(w, rules[i])
    BY <1>5, <2>2
  <2>4. entries[k].to = Resolve(w, rules[i].target)
    BY <2>3 DEF RuleEntry, Entry
  <2>5. ASSUME NEW j \in 1..(k - 1) PROVE ~EntryMatches(entries[j], c)
    <3>1. PICK m \in I : m < i /\ emitted[j] = rules[m]
      BY <2>2
    <3>2. j \in 1..n
      BY <1>4
    <3>3. entries[j] = RuleEntry(w, rules[m])
      BY <1>5, <3>1, <3>2
    <3> QED
      BY <1>1, <1>8, <3>1, <3>3
  <2>6. EntryMatches(entries[k], c)
    BY <1>8, <2>3
  <2> QED
    BY <1>6, <2>4, <2>5, <2>6 DEF FirstMatch
<1> QED
  BY <1>6, <1>7, <1>8 DEF entries

(* The entry of a device's route takes what comes from the device.         *)
LEMMA DeviceEntry ==
  ASSUME NEW to, NEW address, NEW c
  PROVE  LET entry == [Always(to) EXCEPT !.addresses = {SourceCidr({address})}]
         IN  entry.to = to /\ (EntryMatches(entry, c) <=> c.source = address)
<1> DEFINE entry == [Always(to) EXCEPT !.addresses = {SourceCidr({address})}]
<1>1. /\ entry.domains = {} /\ entry.addresses = {SourceCidr({address})}
      /\ entry.ports = {} /\ entry.network = AnyNetwork /\ entry.to = to
  BY DEF Always, Entry
<1> HIDE DEF entry
<1>2. \A kind : OfKind(entry.ports, kind) = {}
  BY <1>1 DEF OfKind
<1>3. SourceCidr({address}).m = "src-cidr" /\ SourceCidr({address}).v = {address}
  BY DEF SourceCidr
<1>4. EntryMatches(entry, c) <=> c.source = address
  BY <1>1, <1>2, <1>3 DEF EntryMatches
<1> QED
  BY <1>1, <1>4 DEF entry

(* The routes of devices are looked at in their order.                     *)
LEMMA DevicesDecide ==
  ASSUME NEW w, NEW devices, IsSequence(devices), NEW c
  PROVE  LET Takes(i) == devices[i].enabled /\ devices[i].address = c.source
         IN  /\ IsSequence(DeviceEntries(w, devices))
             /\ (\A i \in DOMAIN devices : ~Takes(i)) => NoMatch(DeviceEntries(w, devices), c)
             /\ \A i \in DOMAIN devices :
                  Takes(i) /\ (\A m \in DOMAIN devices : m < i => ~Takes(m))
                    => FirstMatch(DeviceEntries(w, devices), c, Resolve(w, devices[i].target))
<1> DEFINE Takes(i) == devices[i].enabled /\ devices[i].address = c.source
           I == {i \in DOMAIN devices : devices[i].enabled}
           listed == Kept(devices, I)
           entries == DeviceEntries(w, devices)
           Routed(d) == [Always(Resolve(w, d.target)) EXCEPT
                           !.addresses = {SourceCidr({d.address})}]
           n == Cardinality(I)
<1>1. I \in SUBSET (DOMAIN devices) /\ \A i \in I : devices[i].enabled
  OBVIOUS
<1>2. \A i \in DOMAIN devices : devices[i].enabled => i \in I
  OBVIOUS
<1>3. entries = [k \in DOMAIN listed |-> Routed(listed[k])]
  BY DEF DeviceEntries
<1> HIDE DEF I, entries
<1>4. /\ DOMAIN listed = 1..n /\ n \in Nat
      /\ \A i \in I : \E k \in 1..n :
           /\ listed[k] = devices[i]
           /\ \A j \in 1..(k - 1) : \E m \in I : m < i /\ listed[j] = devices[m]
      /\ \A k \in 1..n : \E i \in I : listed[k] = devices[i]
  <2>1. /\ DOMAIN listed = 1..n /\ n \in Nat
        /\ \A i \in I : \E k \in 1..n :
             /\ listed[k] = devices[i]
             /\ \A j \in 1..(k - 1) : \E m \in I : m < i /\ listed[j] = devices[m]
    BY <1>1, KeptBefore
  <2>2. \A k \in DOMAIN listed : \E i \in I : listed[k] = devices[i]
    BY <1>1, KeptSequence
  <2> HIDE DEF listed, n
  <2> QED
    BY <2>1, <2>2
<1>5. /\ \A d : Routed(d).to = Resolve(w, d.target)
      /\ \A d : EntryMatches(Routed(d), c) <=> c.source = d.address
  BY DeviceEntry
<1> HIDE DEF listed, n, Routed
<1>6. entries = [k \in 1..n |-> Routed(listed[k])]
  BY <1>3, <1>4
<1>7. IsSequence(entries) /\ DOMAIN entries = 1..n /\ Len(entries) = n
  <2>1. entries = [k \in 1..n |-> entries[k]]
    BY <1>6
  <2>2. IsSequence(entries)
    BY <1>4, <2>1, Sequences
  <2>3. DOMAIN entries = 1..n
    BY <1>6
  <2>4. Len(entries) = n
    BY <1>4, <2>2, <2>3, LengthOf
  <2> QED
    BY <2>2, <2>3, <2>4
<1>8. ASSUME \A i \in DOMAIN devices : ~Takes(i)
      PROVE  NoMatch(entries, c)
  <2>1. ASSUME NEW k \in 1..n PROVE ~EntryMatches(entries[k], c)
    <3>1. PICK i \in I : listed[k] = devices[i]
      BY <1>4
    <3>2. EntryMatches(entries[k], c) <=> c.source = devices[i].address
      BY <1>5, <1>6, <3>1
    <3> QED
      BY <1>1, <1>8, <3>2
  <2> QED
    BY <1>7, <2>1 DEF NoMatch
<1>9. ASSUME NEW i \in DOMAIN devices, Takes(i), \A m \in DOMAIN devices : m < i => ~Takes(m)
      PROVE  FirstMatch(entries, c, Resolve(w, devices[i].target))
  <2>1. i \in I
    BY <1>2, <1>9
  <2>2. PICK k \in 1..n :
           /\ listed[k] = devices[i]
           /\ \A j \in 1..(k - 1) : \E m \in I : m < i /\ listed[j] = devices[m]
    BY <1>4, <2>1
  <2>3. entries[k] = Routed(devices[i])
    BY <1>6, <2>2
  <2>4. entries[k].to = Resolve(w, devices[i].target) /\ EntryMatches(entries[k], c)
    BY <1>5, <1>9, <2>3
  <2>5. ASSUME NEW j \in 1..(k - 1) PROVE ~EntryMatches(entries[j], c)
    <3>1. PICK m \in I : m < i /\ listed[j] = devices[m]
      BY <2>2
    <3>2. j \in 1..n
      BY <1>4
    <3>3. EntryMatches(entries[j], c) <=> c.source = devices[m].address
      BY <1>5, <1>6, <3>1, <3>2
    <3> QED
      BY <1>1, <1>9, <3>1, <3>3
  <2> QED
    BY <1>7, <2>4, <2>5 DEF FirstMatch
<1> QED
  BY <1>7, <1>8, <1>9 DEF entries

(* A list of one entry that matches everything decides.                    *)
LEMMA AlwaysDecides ==
  ASSUME NEW c, NEW to
  PROVE  IsSequence(<<Always(to)>>) /\ FirstMatch(<<Always(to)>>, c, to)
<1> DEFINE entry == Always(to)
<1>1. /\ entry.domains = {} /\ entry.addresses = {} /\ entry.ports = {}
      /\ entry.network = AnyNetwork /\ entry.to = to
  BY DEF Always, Entry
<1> HIDE DEF entry
<1>2. \A kind : OfKind(entry.ports, kind) = {}
  BY <1>1 DEF OfKind
<1>3. EntryMatches(entry, c)
  BY <1>1, <1>2 DEF EntryMatches
<1>4. <<entry>> \in Seq({entry}) /\ Len(<<entry>>) = 1 /\ <<entry>>[1] = entry
  OBVIOUS
<1>5. IsSequence(<<entry>>)
  BY <1>4, Sequences
<1>6. FirstMatch(<<entry>>, c, to)
  BY <1>1, <1>3, <1>4 DEF FirstMatch
<1> QED
  BY <1>5, <1>6 DEF entry

(* A rule that is there under a condition is a list of one or none.        *)
LEMMA IfSequence ==
  ASSUME NEW condition, NEW entry
  PROVE  IsSequence(If(condition, entry))
<1>1. <<entry>> \in Seq({entry}) /\ <<>> \in Seq({entry})
  OBVIOUS
<1>2. IsSequence(<<entry>>) /\ IsSequence(<<>>)
  BY <1>1, Sequences
<1> QED
  BY <1>2 DEF If

(* Two sequences joined are one.                                           *)
LEMMA JoinedIs ==
  ASSUME NEW s, IsSequence(s), NEW t, IsSequence(t)
  PROVE  IsSequence(s \o t)
  BY JoinedElements

(* The rules of the system are lists.                                      *)
LEMMA SystemSequence ==
  ASSUME NEW w, NEW split, NEW safe
  PROVE  IsSequence(SystemEntries(w, split, safe)) /\ IsSequence(PortEntries(split))
<1>1. IsSequence(PortEntries(split))
  BY IfSequence, JoinedIs DEF PortEntries
<1> DEFINE ruled == split.ru # "off"
           based == w.geobase /\ ~safe
           a == If(SystemQuicBlocked(w, split), Quic("reject"))
           b == If(split.learned # {}, OnDomains(split.learned, "active"))
           d == If(based /\ split.match = "direct",
                   OnDomains({Runtime("geobase-active")}, "active"))
           e == If(based, OnDomains({Runtime("geobase-direct")}, "direct"))
           f == If(ruled /\ split.exceptions # {},
                   OnDomains(split.exceptions, "active"))
           g == If(ruled, OnDomains(RuDomains(split), "direct"))
<1>2. /\ IsSequence(a) /\ IsSequence(b) /\ IsSequence(d)
      /\ IsSequence(e) /\ IsSequence(f) /\ IsSequence(g)
  BY IfSequence
<1>3. SystemEntries(w, split, safe) = a \o b \o d \o e \o f \o g
  BY DEF SystemEntries
<1> HIDE DEF a, b, d, e, f, g
<1>4. IsSequence(a \o b \o d \o e \o f \o g)
  <2>1. IsSequence(a \o b)
    BY <1>2, JoinedIs
  <2>2. IsSequence(a \o b \o d)
    BY <1>2, <2>1, JoinedIs
  <2>3. IsSequence(a \o b \o d \o e)
    BY <1>2, <2>2, JoinedIs
  <2>4. IsSequence(a \o b \o d \o e \o f)
    BY <1>2, <2>3, JoinedIs
  <2> QED
    BY <1>2, <2>4, JoinedIs
<1> QED
  BY <1>1, <1>3, <1>4

(* What the trace knows of the system's rules: where it gives the default  *)
(* answer there are none.                                                  *)
LEMMA NoSystemRules ==
  ASSUME NEW w, NEW p, p.split.enabled, ~p.safe, ~SystemUnknown(w, p), ~GeoBaseUnknown(w, p),
         NEW c
  PROVE  /\ NoMatch(SystemEntries(w, p.split, p.safe), c)
         /\ NoMatch(PortEntries(p.split), c)
<1>1. /\ p.split.ru = "off" /\ p.split.learned = {} /\ p.split.exceptions = {}
      /\ p.split.mode = "all" /\ p.split.tproxy /\ w.active \notin BlocksQuic
      /\ ~w.geobase
  BY DEF SystemUnknown, GeoBaseUnknown
<1>2. NoMatch(<<>>, c) /\ IsSequence(<<>>)
  <2>1. Len(<<>>) = 0 /\ <<>> \in Seq({})
    OBVIOUS
  <2>2. NoMatch(<<>>, c)
    BY <2>1 DEF NoMatch
  <2> QED
    BY <2>1, <2>2, Sequences
<1>3. /\ IsSequence(<<>> \o <<>>) /\ NoMatch(<<>> \o <<>>, c)
  BY <1>2, NoneOfJoined, JoinedIs
<1>4. /\ IsSequence(<<>> \o <<>> \o <<>>) /\ NoMatch(<<>> \o <<>> \o <<>>, c)
  BY <1>2, <1>3, NoneOfJoined, JoinedIs
<1>5. /\ IsSequence(<<>> \o <<>> \o <<>> \o <<>>) /\ NoMatch(<<>> \o <<>> \o <<>> \o <<>>, c)
  BY <1>2, <1>4, NoneOfJoined, JoinedIs
<1>6. /\ IsSequence(<<>> \o <<>> \o <<>> \o <<>> \o <<>>)
      /\ NoMatch(<<>> \o <<>> \o <<>> \o <<>> \o <<>>, c)
  BY <1>2, <1>5, NoneOfJoined, JoinedIs
<1>7. NoMatch(<<>> \o <<>> \o <<>> \o <<>> \o <<>> \o <<>>, c)
  BY <1>2, <1>6, NoneOfJoined
<1>8. PortEntries(p.split) = <<>> \o <<>>
  BY <1>1 DEF PortEntries, If
<1>9. SystemEntries(w, p.split, p.safe) = <<>> \o <<>> \o <<>> \o <<>> \o <<>> \o <<>>
  BY <1>1 DEF SystemEntries, If, SystemQuicBlocked
<1> QED
  BY <1>3, <1>7, <1>8, <1>9

(* The configuration decides by the devices, then the rules, then what the *)
(* system adds, then the rule for all that is left.                        *)
LEMMA ConfigDecides ==
  ASSUME NEW w, NEW p, IsPolicy(p), p.split.enabled, NEW c, NEW to,
         \/ FirstMatch(DeviceEntries(w, p.devices), c, to)
         \/ /\ NoMatch(DeviceEntries(w, p.devices), c)
            /\ \/ FirstMatch(RuleEntries(w, p.rules), c, to)
               \/ /\ NoMatch(RuleEntries(w, p.rules), c)
                  /\ NoMatch(SystemEntries(w, p.split, p.safe), c)
                  /\ NoMatch(PortEntries(p.split), c)
                  /\ to = MatchTarget(p.split)
  PROVE  Decide(Config(w, p), c) = to
<1> DEFINE D == DeviceEntries(w, p.devices)
           R == RuleEntries(w, p.rules)
           S == SystemEntries(w, p.split, p.safe)
           P == PortEntries(p.split)
           A == <<Always(MatchTarget(p.split))>>
<1>1. Config(w, p) = D \o R \o S \o P \o A
  BY DEF Config
<1>2. /\ IsSequence(D) /\ IsSequence(R) /\ IsSequence(S) /\ IsSequence(P) /\ IsSequence(A)
      /\ FirstMatch(A, c, MatchTarget(p.split))
  <2>1. IsSequence(D) /\ IsSequence(R)
    BY DevicesDecide, RulesDecide DEF IsPolicy
  <2>2. IsSequence(S) /\ IsSequence(P)
    BY SystemSequence
  <2>3. IsSequence(A) /\ FirstMatch(A, c, MatchTarget(p.split))
    BY AlwaysDecides
  <2> QED
    BY <2>1, <2>2, <2>3
<1> HIDE DEF D, R, S, P, A
<1>3. /\ IsSequence(D \o R) /\ IsSequence(D \o R \o S) /\ IsSequence(D \o R \o S \o P)
      /\ IsSequence(D \o R \o S \o P \o A)
  <2>1. IsSequence(D \o R)
    BY <1>2, JoinedIs
  <2>2. IsSequence(D \o R \o S)
    BY <1>2, <2>1, JoinedIs
  <2>3. IsSequence(D \o R \o S \o P)
    BY <1>2, <2>2, JoinedIs
  <2>4. IsSequence(D \o R \o S \o P \o A)
    BY <1>2, <2>3, JoinedIs
  <2> QED
    BY <2>1, <2>2, <2>3, <2>4
<1>4. ASSUME FirstMatch(D \o R, c, to) PROVE FirstMatch(D \o R \o S \o P \o A, c, to)
  <2>1. FirstMatch(D \o R \o S, c, to)
    BY <1>2, <1>3, <1>4, FirstOfJoined
  <2>2. FirstMatch(D \o R \o S \o P, c, to)
    BY <1>2, <1>3, <2>1, FirstOfJoined
  <2> QED
    BY <1>2, <1>3, <2>2, FirstOfJoined
<1>5. ASSUME NoMatch(D, c), NoMatch(R, c), NoMatch(S, c), NoMatch(P, c),
             to = MatchTarget(p.split)
      PROVE  FirstMatch(D \o R \o S \o P \o A, c, to)
  <2>1. NoMatch(D \o R, c)
    BY <1>2, <1>5, NoneOfJoined
  <2>2. NoMatch(D \o R \o S, c)
    BY <1>2, <1>3, <1>5, <2>1, NoneOfJoined
  <2>3. NoMatch(D \o R \o S \o P, c)
    BY <1>2, <1>3, <1>5, <2>2, NoneOfJoined
  <2> QED
    BY <1>2, <1>3, <1>5, <2>3, FirstOfJoined
<1>6. FirstMatch(D, c, to) \/ (NoMatch(D, c) /\ FirstMatch(R, c, to))
        => FirstMatch(D \o R, c, to)
  BY <1>2, FirstOfJoined
<1>7. FirstMatch(D \o R \o S \o P \o A, c, to)
  BY <1>4, <1>5, <1>6 DEF D, R, S, P
<1> QED
  BY <1>1, <1>3, <1>7, FirstDecides

(* The rules the trace looks at, by its verdicts.                          *)
OwnRoutes(p, q) ==
  {i \in DOMAIN p.devices : p.devices[i].enabled /\ p.devices[i].address = q.source}
TraceFound(p, q) == {i \in DOMAIN p.rules : Verdict(p.rules[i], q) \in {"match", "unsure"}}
TraceCandidates(p, q) == {i \in DOMAIN p.rules : Verdict(p.rules[i], q) = "candidate"}

(* The trace answers by the first route of the device, else by the first   *)
(* rule that surely matches before any that may, else by the default.      *)
LEMMA TraceAnswers ==
  ASSUME NEW w, NEW p, IsPolicy(p), NEW q, Trace(w, p, q) # Requires
  PROVE  \/ \E i \in OwnRoutes(p, q) :
              /\ \A j \in OwnRoutes(p, q) : i <= j
              /\ Trace(w, p, q).target = p.devices[i].target
         \/ /\ OwnRoutes(p, q) = {}
            /\ \E i \in TraceFound(p, q) :
                 /\ \A j \in TraceFound(p, q) : i <= j
                 /\ Verdict(p.rules[i], q) # "unsure"
                 /\ \A j \in TraceCandidates(p, q) : ~(j < i)
                 /\ Trace(w, p, q).target = p.rules[i].target
         \/ /\ OwnRoutes(p, q) = {} /\ TraceFound(p, q) = {} /\ TraceCandidates(p, q) = {}
            /\ ~SystemUnknown(w, p) /\ ~GeoBaseUnknown(w, p)
            /\ Trace(w, p, q).target = MatchTarget(p.split)
<1> DEFINE verdict == [i \in DOMAIN p.rules |-> Verdict(p.rules[i], q)]
           own == {i \in DOMAIN p.devices :
                     p.devices[i].enabled /\ p.devices[i].address = q.source}
           found == {i \in DOMAIN verdict : verdict[i] \in {"match", "unsure"}}
           candidates == {i \in DOMAIN verdict : verdict[i] = "candidate"}
           mine == CHOOSE i \in own : \A j \in own : i <= j
           first == CHOOSE i \in found : \A j \in found : i <= j
<1>1. Trace(w, p, q) =
        IF own # {} THEN Answer("matched", p.devices[mine].target)
        ELSE IF found # {}
        THEN IF verdict[first] = "unsure" \/ \E i \in candidates : i < first
             THEN Requires
             ELSE Answer("matched", p.rules[first].target)
        ELSE IF candidates # {} \/ SystemUnknown(w, p) \/ GeoBaseUnknown(w, p)
        THEN Requires
        ELSE Answer("default", MatchTarget(p.split))
  BY DEF Trace
<1>2. own = OwnRoutes(p, q)
  BY DEF OwnRoutes
<1>3. /\ found = TraceFound(p, q) /\ candidates = TraceCandidates(p, q)
      /\ \A i \in DOMAIN p.rules : verdict[i] = Verdict(p.rules[i], q)
  BY DEF TraceFound, TraceCandidates
<1> HIDE DEF own, found, candidates, verdict
<1>4. \A d, t : Answer(d, t).target = t
  BY DEF Answer
<1>5. own \subseteq Nat /\ found \subseteq Nat /\ found \subseteq DOMAIN p.rules
  <2>1. DOMAIN p.devices \subseteq Nat /\ DOMAIN p.rules \subseteq Nat
    BY Sequences DEF IsPolicy
  <2> QED
    BY <1>2, <1>3, <2>1 DEF OwnRoutes, TraceFound
<1>6. CASE own # {}
  <2>1. \E i \in own : \A j \in own : i <= j
    BY <1>5, <1>6, LeastNumber
  <2>2. mine \in own /\ \A j \in own : mine <= j
    BY <2>1
  <2>3. Trace(w, p, q).target = p.devices[mine].target
    BY <1>1, <1>4, <1>6
  <2> QED
    BY <1>2, <2>2, <2>3
<1>7. CASE own = {} /\ found # {}
  <2>1. \E i \in found : \A j \in found : i <= j
    BY <1>5, <1>7, LeastNumber
  <2>2. first \in found /\ \A j \in found : first <= j
    BY <2>1
  <2> HIDE DEF first
  <2>3. /\ ~(verdict[first] = "unsure" \/ \E i \in candidates : i < first)
        /\ Trace(w, p, q) = Answer("matched", p.rules[first].target)
    BY <1>1, <1>7 DEF first
  <2>4. Trace(w, p, q).target = p.rules[first].target
    BY <1>4, <2>3
  <2> QED
    BY <1>2, <1>3, <1>5, <1>7, <2>2, <2>3, <2>4
<1>8. CASE own = {} /\ found = {}
  <2>1. /\ ~(candidates # {} \/ SystemUnknown(w, p) \/ GeoBaseUnknown(w, p))
        /\ Trace(w, p, q) = Answer("default", MatchTarget(p.split))
    BY <1>1, <1>8
  <2>2. Trace(w, p, q).target = MatchTarget(p.split)
    BY <1>4, <2>1
  <2> QED
    BY <1>2, <1>3, <1>8, <2>1, <2>2
<1> QED
  BY <1>6, <1>7, <1>8

(* An answer of the trace is what the configuration of the policy does.    *)
LEMMA TraceIsConfig ==
  ASSUME NEW w, NEW p, IsPolicy(p), Formed(p), p.split.enabled, ~p.safe,
         \A i \in DOMAIN p.rules : Unambiguous(p.rules[i]),
         OwnRouted = {p.devices[i].address : i \in {j \in DOMAIN p.devices : p.devices[j].enabled}},
         NEW q, NEW c \in Connections(q), Trace(w, p, q) # Requires
  PROVE  Decide(Config(w, p), c) = Resolve(w, Trace(w, p, q).target)
<1> DEFINE answer == Trace(w, p, q)
           Own(i) == p.devices[i].enabled /\ p.devices[i].address = c.source
           Takes(i) == Emitted(p.rules[i]) /\ EntryMatches(RuleEntry(w, p.rules[i]), c)
           D == DeviceEntries(w, p.devices)
           R == RuleEntries(w, p.rules)
<1>1. /\ IsSequence(p.rules) /\ IsSequence(p.devices)
      /\ DOMAIN p.rules \subseteq Nat /\ DOMAIN p.devices \subseteq Nat
  BY Sequences DEF IsPolicy
<1>2. /\ (\A i \in DOMAIN p.devices : ~Own(i)) => NoMatch(D, c)
      /\ \A i \in DOMAIN p.devices :
           Own(i) /\ (\A m \in DOMAIN p.devices : m < i => ~Own(m))
             => FirstMatch(D, c, Resolve(w, p.devices[i].target))
  BY <1>1, DevicesDecide
<1>3. /\ (\A i \in DOMAIN p.rules : ~Takes(i)) => NoMatch(R, c)
      /\ \A i \in DOMAIN p.rules :
           Takes(i) /\ (\A m \in DOMAIN p.rules : m < i => ~Takes(m))
             => FirstMatch(R, c, Resolve(w, p.rules[i].target))
  BY <1>1, RulesDecide
<1>4. ASSUME NEW i \in DOMAIN p.rules
      PROVE  /\ Verdict(p.rules[i], q) \in {"no", "unsure", "match", "candidate"}
             /\ Verdict(p.rules[i], q) = "match" => Takes(i)
             /\ Verdict(p.rules[i], q) = "no" => ~Takes(i)
  BY VerdictTrue DEF Formed, RulesFormed
<1>5. \A i \in OwnRoutes(p, q) : i \in DOMAIN p.devices /\ c.source = q.source
  <2>1. \A i \in DOMAIN p.devices : p.devices[i].address # NoAddress
    BY RoutesAssumption, RoutingPolicyAssumption DEF Formed, NoAddress
  <2> QED
    BY <2>1, WhatIsKnown DEF OwnRoutes
<1>6. OwnRoutes(p, q) = {} => \A i \in DOMAIN p.devices : ~Own(i)
  <2>1. ASSUME OwnRoutes(p, q) = {}, NEW i \in DOMAIN p.devices, Own(i) PROVE FALSE
    <3>1. p.devices[i].address # q.source
      BY <2>1 DEF OwnRoutes
    <3>2. c.source \in OwnRouted
      BY <2>1
    <3> QED
      BY <2>1, <3>1, <3>2, WhatIsKnown
  <2> QED
    BY <2>1
<1> HIDE DEF Takes, answer, D, R
<1>7. \/ FirstMatch(D, c, Resolve(w, answer.target))
      \/ /\ NoMatch(D, c)
         /\ \/ FirstMatch(R, c, Resolve(w, answer.target))
            \/ /\ NoMatch(R, c)
               /\ NoMatch(SystemEntries(w, p.split, p.safe), c)
               /\ NoMatch(PortEntries(p.split), c)
               /\ Resolve(w, answer.target) = MatchTarget(p.split)
  <2>1. ASSUME NEW i \in OwnRoutes(p, q), \A j \in OwnRoutes(p, q) : i <= j,
               answer.target = p.devices[i].target
        PROVE  FirstMatch(D, c, Resolve(w, answer.target))
    <3>1. i \in DOMAIN p.devices /\ Own(i)
      BY <1>5 DEF OwnRoutes
    <3>2. ASSUME NEW m \in DOMAIN p.devices, m < i, Own(m) PROVE FALSE
      <4>1. m \in OwnRoutes(p, q)
        BY <1>5, <3>2 DEF OwnRoutes
      <4>2. i \in Nat /\ m \in Nat /\ i <= m
        BY <1>1, <2>1, <3>1, <4>1
      <4> QED
        BY <3>2, <4>2
    <3> QED
      BY <1>2, <2>1, <3>1, <3>2
  <2>2. ASSUME OwnRoutes(p, q) = {}, NEW i \in TraceFound(p, q),
               \A j \in TraceFound(p, q) : i <= j, Verdict(p.rules[i], q) # "unsure",
               \A j \in TraceCandidates(p, q) : ~(j < i), answer.target = p.rules[i].target
        PROVE  NoMatch(D, c) /\ FirstMatch(R, c, Resolve(w, answer.target))
    <3>1. i \in DOMAIN p.rules /\ Takes(i)
      BY <1>4, <2>2 DEF TraceFound
    <3>2. ASSUME NEW m \in DOMAIN p.rules, m < i PROVE ~Takes(m)
      <4>1. i \in Nat /\ m \in Nat
        BY <1>1, <3>1
      <4>2. m \notin TraceFound(p, q) /\ m \notin TraceCandidates(p, q)
        BY <2>2, <3>2, <4>1
      <4>3. Verdict(p.rules[m], q) = "no"
        BY <1>4, <4>2 DEF TraceFound, TraceCandidates
      <4> QED
        BY <1>4, <4>3
    <3>3. FirstMatch(R, c, Resolve(w, answer.target))
      BY <1>3, <2>2, <3>1, <3>2
    <3> QED
      BY <1>2, <1>6, <2>2, <3>3
  <2>3. ASSUME OwnRoutes(p, q) = {}, TraceFound(p, q) = {}, TraceCandidates(p, q) = {},
               ~SystemUnknown(w, p), ~GeoBaseUnknown(w, p), answer.target = MatchTarget(p.split)
        PROVE  /\ NoMatch(D, c) /\ NoMatch(R, c)
               /\ NoMatch(SystemEntries(w, p.split, p.safe), c)
               /\ NoMatch(PortEntries(p.split), c)
               /\ Resolve(w, answer.target) = MatchTarget(p.split)
    <3>1. NoMatch(D, c)
      BY <1>2, <1>6, <2>3
    <3>2. ASSUME NEW m \in DOMAIN p.rules PROVE ~Takes(m)
      <4>1. Verdict(p.rules[m], q) = "no"
        BY <1>4, <2>3 DEF TraceFound, TraceCandidates
      <4> QED
        BY <1>4, <4>1
    <3>3. NoMatch(R, c)
      BY <1>3, <3>2
    <3>4. NoMatch(SystemEntries(w, p.split, p.safe), c) /\ NoMatch(PortEntries(p.split), c)
      BY <2>3, NoSystemRules
    <3>5. answer.target \notin Servers
      BY <2>3, RoutesAssumption DEF MatchTarget
    <3>6. Resolve(w, answer.target) = MatchTarget(p.split)
      BY <2>3, <3>5 DEF Resolve
    <3> QED
      BY <3>1, <3>3, <3>4, <3>6
  <2>4. \/ \E i \in OwnRoutes(p, q) :
              /\ \A j \in OwnRoutes(p, q) : i <= j
              /\ answer.target = p.devices[i].target
        \/ /\ OwnRoutes(p, q) = {}
           /\ \E i \in TraceFound(p, q) :
                /\ \A j \in TraceFound(p, q) : i <= j
                /\ Verdict(p.rules[i], q) # "unsure"
                /\ \A j \in TraceCandidates(p, q) : ~(j < i)
                /\ answer.target = p.rules[i].target
        \/ /\ OwnRoutes(p, q) = {} /\ TraceFound(p, q) = {} /\ TraceCandidates(p, q) = {}
           /\ ~SystemUnknown(w, p) /\ ~GeoBaseUnknown(w, p)
           /\ answer.target = MatchTarget(p.split)
    BY TraceAnswers DEF answer
  <2> QED
    BY <2>1, <2>2, <2>3, <2>4
<1>8. Decide(Config(w, p), c) = Resolve(w, answer.target)
  BY <1>7, ConfigDecides DEF D, R
<1> QED
  BY <1>8 DEF answer

(* The local explanation of a route never guesses                          *)
(* (docs/stabilization.md:31-34).                                          *)
THEOREM TraceIsTrue ==
  PolicySpec => []TraceNeverGuesses
<1>1. ASSUME PolicyInv, DataFormed
      PROVE  TraceNeverGuesses
  <2> SUFFICES ASSUME Settled, policy.split.enabled, ~policy.safe,
                      \A i \in DOMAIN policy.rules : Unambiguous(policy.rules[i]),
                      NEW q \in Questions, Trace(world, policy, q) # Requires,
                      NEW c \in Connections(q)
               PROVE  Decide(running, c) = Resolve(world, Trace(world, policy, q).target)
    BY DEF TraceNeverGuesses
  <2>1. running = Config(world, policy) /\ IsPolicy(policy) /\ Formed(policy)
    BY <1>1 DEF PolicyInv, Settled, Runs, DataFormed
  <2>2. OwnRouted = {policy.devices[i].address :
                       i \in {j \in DOMAIN policy.devices : policy.devices[j].enabled}}
    BY DEF OwnRouted
  <2>3. Decide(Config(world, policy), c) = Resolve(world, Trace(world, policy, q).target)
    BY <2>1, <2>2, TraceIsConfig
  <2> QED
    BY <2>1, <2>3
<1> QED
  BY <1>1, PolicyInvariant, PolicyFormed, PTL

(* A finite set of intervals is listed in the order of their starts.       *)
LEMMA SortedLists ==
  ASSUME NEW S, IsFiniteSet(S), S \subseteq Int \X Int
  PROVE  /\ IsSequence(Sorted(S)) /\ Len(Sorted(S)) \in Nat
         /\ \A k \in 1..Len(Sorted(S)) : Sorted(S)[k] \in S
         /\ \A a \in S : \E k \in 1..Len(Sorted(S)) : Sorted(S)[k] = a
         /\ \A j, k \in 1..Len(Sorted(S)) : j < k => Sorted(S)[j][1] <= Sorted(S)[k][1]
<1> DEFINE n == Cardinality(S)
           Below(a) == {b \in S : Before(b, a)}
           Count(a) == Cardinality(Below(a))
           place == [a \in S |-> Count(a) + 1]
<1>1. n \in Nat
  BY FS_CardinalityType
<1>2. \A a, b, d \in S :
        /\ ~Before(a, a)
        /\ Before(a, b) /\ Before(b, d) => Before(a, d)
        /\ a = b \/ Before(a, b) \/ Before(b, a)
        /\ Before(a, b) => a[1] <= b[1]
  BY DEF Before
<1>3. ASSUME NEW a \in S
      PROVE  IsFiniteSet(Below(a)) /\ Count(a) \in Nat /\ Count(a) + 1 \in 1..n
  <2>1. Below(a) \in SUBSET S /\ Below(a) # S
    BY <1>2
  <2> HIDE DEF Below
  <2>2. IsFiniteSet(Below(a)) /\ Cardinality(Below(a)) <= n
    BY <2>1, FS_Subset
  <2>3. Cardinality(Below(a)) # n
    BY <2>1, FS_Subset
  <2>4. Cardinality(Below(a)) \in Nat
    BY <2>2, FS_CardinalityType
  <2> QED
    BY <1>1, <2>2, <2>3, <2>4
<1>4. ASSUME NEW a \in S, NEW b \in S, Before(a, b)
      PROVE  Count(a) < Count(b)
  <2>1. Below(a) \in SUBSET Below(b) /\ a \in Below(b) /\ a \notin Below(a)
    BY <1>2, <1>4
  <2>2. /\ IsFiniteSet(Below(a)) /\ IsFiniteSet(Below(b))
        /\ Cardinality(Below(a)) \in Nat /\ Cardinality(Below(b)) \in Nat
    BY <1>3
  <2> HIDE DEF Below
  <2>3. /\ Cardinality(Below(a)) <= Cardinality(Below(b))
        /\ Cardinality(Below(a)) # Cardinality(Below(b))
    BY <2>1, <2>2, FS_Subset
  <2> QED
    BY <2>2, <2>3
<1> HIDE DEF Count
<1>5. place \in Injection(S, 1..n)
  <2>1. ASSUME NEW a \in S, NEW b \in S, Count(a) + 1 = Count(b) + 1
        PROVE  a = b
    <3>1. Count(a) \in Nat /\ Count(b) \in Nat
      BY <1>3
    <3>2. ~(Count(a) < Count(b)) /\ ~(Count(b) < Count(a))
      BY <2>1, <3>1
    <3>3. ~Before(a, b) /\ ~Before(b, a)
      BY <1>4, <3>2
    <3> QED
      BY <1>2, <3>3
  <2>2. \A a \in S : Count(a) + 1 \in 1..n
    BY <1>3
  <2> QED
    BY <2>1, <2>2 DEF Injection, IsInjective
<1>6. \A k \in 1..n : \E a \in S : Count(a) + 1 = k
  <2>1. IsFiniteSet(1..n) /\ Cardinality(1..n) = n
    BY <1>1, UpTo
  <2> HIDE DEF place, n
  <2>2. place \in Surjection(S, 1..n)
    BY <1>5, <2>1, FS_Injection DEF n
  <2> QED
    BY <2>2 DEF Surjection, place
<1> DEFINE At(k) == CHOOSE a \in S : Count(a) = k - 1
<1>7. Sorted(S) = [k \in 1..n |-> At(k)]
  BY DEF Sorted, Count
<1>8. \A k \in 1..n : At(k) \in S /\ Count(At(k)) = k - 1
  <2>1. ASSUME NEW k \in 1..n PROVE \E a \in S : Count(a) = k - 1
    <3>1. PICK a \in S : Count(a) + 1 = k
      BY <1>6
    <3>2. Count(a) \in Nat
      BY <1>3
    <3>3. Count(a) = k - 1
      BY <3>1, <3>2
    <3> QED
      BY <3>3
  <2> QED
    BY <2>1
<1> HIDE DEF At, n, Below, place
<1> DEFINE s == Sorted(S)
<1>9. IsSequence(s) /\ Len(s) = n
  <2>1. s = [k \in 1..n |-> s[k]] /\ DOMAIN s = 1..n
    BY <1>7
  <2> HIDE DEF s
  <2>2. IsSequence(s)
    BY <1>1, <2>1, Sequences
  <2> QED
    BY <1>1, <2>1, <2>2, LengthOf
<1>10. \A k \in 1..n : s[k] \in S /\ Count(s[k]) = k - 1
  BY <1>7, <1>8
<1> HIDE DEF s
<1>11. \A a \in S : \E k \in 1..n : s[k] = a
  <2>1. ASSUME NEW a \in S PROVE s[Count(a) + 1] = a
    <3> DEFINE k == Count(a) + 1
    <3>1. k \in 1..n /\ s[k] \in S /\ Count(s[k]) = Count(a)
      BY <1>3, <1>10
    <3> QED
      BY <1>2, <1>3, <1>4, <3>1
  <2> QED
    BY <1>3, <2>1
<1>12. ASSUME NEW j \in 1..n, NEW k \in 1..n, j < k
       PROVE  s[j][1] <= s[k][1]
  <2>1. s[j] \in S /\ s[k] \in S /\ Count(s[j]) < Count(s[k])
    BY <1>1, <1>10, <1>12
  <2>2. ~Before(s[k], s[j])
    <3>1. Before(s[k], s[j]) => Count(s[k]) < Count(s[j])
      BY <1>4, <2>1
    <3> QED
      BY <1>3, <2>1, <3>1
  <2> QED
    BY <1>2, <2>1, <2>2
<1> QED
  BY <1>1, <1>9, <1>10, <1>11, <1>12 DEF s

(* The first port not covered so far, after one more interval.             *)
Past(next, interval) ==
  IF interval[1] <= next /\ interval[2] >= next THEN interval[2] + 1 ELSE next

Sweep(g, s, lo, m) == g = [k \in 0..m |-> IF k = 0 THEN lo ELSE Past(g[k - 1], s[k])]

(* The pass over the intervals ends.                                       *)
LEMMA SweepExists ==
  ASSUME NEW s, NEW lo, NEW n \in Nat
  PROVE  \E g : Sweep(g, s, lo, n)
<1> DEFINE T == {m \in Nat : \E g : Sweep(g, s, lo, m)}
<1>1. 0 \in T
  <2> DEFINE g == [k \in 0..0 |-> lo]
  <2>1. g = [k \in 0..0 |-> IF k = 0 THEN lo ELSE Past(g[k - 1], s[k])]
    OBVIOUS
  <2> HIDE DEF g
  <2> QED
    BY <2>1 DEF Sweep
<1>2. ASSUME NEW m \in Nat, m \in T
      PROVE  m + 1 \in T
  <2>1. PICK g : g = [k \in 0..m |-> IF k = 0 THEN lo ELSE Past(g[k - 1], s[k])]
    BY <1>2 DEF Sweep
  <2> DEFINE h == [k \in 0..(m + 1) |-> IF k = 0 THEN lo ELSE Past(g[k - 1], s[k])]
  <2>2. \A k \in 0..m : h[k] = g[k]
    BY <2>1
  <2>3. \A k \in 0..(m + 1) : k # 0 => k - 1 \in 0..m
    OBVIOUS
  <2>4. \A k \in 0..(m + 1) : k # 0 => g[k - 1] = h[k - 1]
    BY <2>2, <2>3
  <2>5. h = [k \in 0..(m + 1) |-> IF k = 0 THEN lo ELSE Past(h[k - 1], s[k])]
    BY <2>4
  <2> HIDE DEF h
  <2> QED
    BY <2>5 DEF Sweep
<1> HIDE DEF T
<1>3. n \in T
  BY <1>1, <1>2, Counting
<1> QED
  BY <1>3 DEF T

(* The pass finds the first port no interval covers, as they are in the    *)
(* order of their starts: what is before it is covered, it is not.         *)
LEMMA SweepFinds ==
  ASSUME NEW n \in Nat, NEW s, \A k \in 1..n : s[k][1] \in Int /\ s[k][2] \in Int,
         \A j, k \in 1..n : j < k => s[j][1] <= s[k][1],
         NEW lo \in Int, NEW next, Sweep(next, s, lo, n)
  PROVE  /\ next[n] \in Int /\ lo <= next[n]
         /\ \A x \in Int : lo <= x /\ x < next[n] =>
              \E k \in 1..n : s[k][1] <= x /\ x <= s[k][2]
         /\ \A k \in 1..n : ~(s[k][1] <= next[n] /\ next[n] <= s[k][2])
<1> DEFINE Found(m) ==
             /\ next[m] \in Int /\ lo <= next[m]
             /\ \A x \in Int : lo <= x /\ x < next[m] =>
                  \E k \in 1..m : s[k][1] <= x /\ x <= s[k][2]
             /\ \A k \in 1..m : ~(s[k][1] <= next[m] /\ next[m] <= s[k][2])
           T == {m \in Nat : m <= n => Found(m)}
<1>1. next = [k \in 0..n |-> IF k = 0 THEN lo ELSE Past(next[k - 1], s[k])]
  BY DEF Sweep
<1>2. 0 \in T
  <2>1. next[0] = lo
    BY <1>1
  <2> QED
    BY <2>1
<1>3. ASSUME NEW m \in Nat, m \in T
      PROVE  m + 1 \in T
  <2> SUFFICES ASSUME m + 1 <= n PROVE Found(m + 1)
    OBVIOUS
  <2>1. /\ m + 1 \in 1..n /\ m + 1 \in 0..n /\ m + 1 # 0 /\ (m + 1) - 1 = m
        /\ Found(m)
    BY <1>3
  <2>2. next[m + 1] = Past(next[m], s[m + 1])
    BY <1>1, <2>1
  <2>3. s[m + 1][1] \in Int /\ s[m + 1][2] \in Int
    BY <2>1
  <2>4. \A k \in 1..(m + 1) : k \in 1..m \/ k = m + 1
    OBVIOUS
  <2>5. \A k \in 1..m : k \in 1..n /\ k < m + 1 /\ k \in 1..(m + 1)
    OBVIOUS
  <2>6. CASE s[m + 1][1] <= next[m] /\ s[m + 1][2] >= next[m]
    <3>1. next[m + 1] = s[m + 1][2] + 1
      BY <2>2, <2>6 DEF Past
    <3>2. ASSUME NEW x \in Int, lo <= x, x < next[m + 1]
          PROVE  \E k \in 1..(m + 1) : s[k][1] <= x /\ x <= s[k][2]
      <4>1. CASE x < next[m]
        <5>1. PICK k \in 1..m : s[k][1] <= x /\ x <= s[k][2]
          BY <2>1, <3>2, <4>1
        <5> QED
          BY <2>5, <5>1
      <4>2. CASE ~(x < next[m])
        <5>1. s[m + 1][1] <= x /\ x <= s[m + 1][2]
          BY <2>1, <2>3, <2>6, <3>1, <3>2, <4>2
        <5>2. m + 1 \in 1..(m + 1)
          OBVIOUS
        <5> QED
          BY <5>1, <5>2
      <4> QED
        BY <4>1, <4>2
    <3>3. ASSUME NEW k \in 1..m PROVE ~(next[m + 1] <= s[k][2])
      <4>1. s[k][1] <= s[m + 1][1] /\ s[k][1] \in Int /\ s[k][2] \in Int
        BY <2>1, <2>5
      <4>2. s[k][1] <= next[m]
        BY <2>1, <2>3, <2>6, <4>1
      <4>3. s[k][2] < next[m]
        BY <2>1, <4>1, <4>2
      <4> QED
        BY <2>1, <2>3, <2>6, <3>1, <4>1, <4>3
    <3>4. ~(next[m + 1] <= s[m + 1][2])
      BY <2>3, <3>1
    <3>5. next[m + 1] \in Int /\ lo <= next[m + 1]
      BY <2>1, <2>3, <2>6, <3>1
    <3> QED
      BY <2>4, <3>2, <3>3, <3>4, <3>5
  <2>7. CASE ~(s[m + 1][1] <= next[m] /\ s[m + 1][2] >= next[m])
    <3>1. next[m + 1] = next[m]
      BY <2>2, <2>7 DEF Past
    <3>2. ASSUME NEW x \in Int, lo <= x, x < next[m + 1]
          PROVE  \E k \in 1..(m + 1) : s[k][1] <= x /\ x <= s[k][2]
      <4>1. PICK k \in 1..m : s[k][1] <= x /\ x <= s[k][2]
        BY <2>1, <3>1, <3>2
      <4> QED
        BY <2>5, <4>1
    <3>3. ~(s[m + 1][1] <= next[m] /\ next[m] <= s[m + 1][2])
      BY <2>1, <2>3, <2>7
    <3>4. \A k \in 1..(m + 1) : ~(s[k][1] <= next[m + 1] /\ next[m + 1] <= s[k][2])
      BY <2>1, <2>4, <3>1, <3>3
    <3> QED
      BY <2>1, <3>1, <3>2, <3>4
  <2> QED
    BY <2>6, <2>7
<1>4. n \in T
  <2> HIDE DEF T
  <2> QED
    BY <1>2, <1>3, Counting
<1> QED
  BY <1>4

(* port_set_covers: whether every port of a range is in some other.        *)
LEMMA CoversIs ==
  ASSUME NEW items, PortList(items), NEW port, PortItem(port)
  PROVE  Covers(items, port) <=>
           port.of = "dst" /\ \A x \in port.lo..port.hi : InSpecs(x, items)
<1> DEFINE S == {<<p.lo, p.hi>> : p \in items}
           s == Sorted(S)
           next[k \in 0..Len(s)] ==
             IF k = 0 THEN port.lo
             ELSE IF s[k][1] <= next[k - 1] /\ s[k][2] >= next[k - 1]
             THEN s[k][2] + 1 ELSE next[k - 1]
           n == Len(s)
<1>1. MaxPort \in Int /\ port.lo \in Int /\ port.hi \in Int
  <2>1. MaxPort \in Nat
    BY RoutesAssumption
  <2> QED
    BY <2>1 DEF PortItem
<1>2. IsFiniteSet(S) /\ S \subseteq Int \X Int
  <2>1. IsFiniteSet(S)
    <3> DEFINE ends == [p \in items |-> <<p.lo, p.hi>>]
    <3>1. ends \in Surjection(items, S)
      BY DEF Surjection
    <3> HIDE DEF ends, S
    <3> QED
      BY <3>1, FS_Surjection DEF PortList
  <2>2. \A p \in items : p.lo \in Int /\ p.hi \in Int
    BY <1>1 DEF PortList, PortItem
  <2> QED
    BY <2>1, <2>2
<1>3. Covers(items, port) <=> port.of = "dst" /\ next[n] > port.hi
  BY DEF Covers
<1>4. /\ \A k \in 1..n : s[k] \in S
      /\ \A a \in S : \E k \in 1..n : s[k] = a
      /\ \A j, k \in 1..n : j < k => s[j][1] <= s[k][1]
      /\ n \in Nat
  BY <1>2, SortedLists
<1> HIDE DEF s, n
<1>5. PICK g : Sweep(g, s, port.lo, n)
  BY <1>4, SweepExists
<1>6. next = [k \in 0..n |-> IF k = 0 THEN port.lo
                ELSE IF s[k][1] <= next[k - 1] /\ s[k][2] >= next[k - 1]
                THEN s[k][2] + 1 ELSE next[k - 1]]
  BY <1>5 DEF Sweep, Past, n
<1> HIDE DEF next
<1>7. Sweep(next, s, port.lo, n)
  BY <1>6 DEF Sweep, Past
<1>8. \A k \in 1..n : s[k][1] \in Int /\ s[k][2] \in Int
  BY <1>2, <1>4
<1>9. /\ next[n] \in Int /\ port.lo <= next[n]
      /\ \A x \in Int : port.lo <= x /\ x < next[n] =>
           \E k \in 1..n : s[k][1] <= x /\ x <= s[k][2]
      /\ \A k \in 1..n : ~(s[k][1] <= next[n] /\ next[n] <= s[k][2])
  BY <1>1, <1>4, <1>7, <1>8, SweepFinds
<1>10. ASSUME NEW x \in Int
       PROVE  InSpecs(x, items) <=> \E k \in 1..n : s[k][1] <= x /\ x <= s[k][2]
  <2>1. ASSUME NEW p \in items, x \in p.lo..p.hi
        PROVE  \E k \in 1..n : s[k][1] <= x /\ x <= s[k][2]
    <3>1. PICK k \in 1..n : s[k] = <<p.lo, p.hi>>
      BY <1>4
    <3>2. p.lo <= x /\ x <= p.hi
      BY <1>1, <2>1 DEF PortList, PortItem
    <3> QED
      BY <3>1, <3>2
  <2>2. ASSUME NEW k \in 1..n, s[k][1] <= x, x <= s[k][2]
        PROVE  InSpecs(x, items)
    <3>1. PICK p \in items : s[k] = <<p.lo, p.hi>>
      BY <1>4
    <3>2. p.lo \in Int /\ p.hi \in Int
      BY <1>1 DEF PortList, PortItem
    <3>3. x \in p.lo..p.hi
      BY <2>2, <3>1, <3>2
    <3> QED
      BY <3>3 DEF InSpecs
  <2> QED
    BY <2>1, <2>2 DEF InSpecs
<1>11. ASSUME next[n] > port.hi, NEW x \in port.lo..port.hi
       PROVE  InSpecs(x, items)
  <2>1. x \in Int /\ port.lo <= x /\ x < next[n]
    BY <1>1, <1>9, <1>11
  <2> QED
    BY <1>9, <1>10, <2>1
<1>12. ASSUME ~(next[n] > port.hi)
       PROVE  next[n] \in port.lo..port.hi /\ ~InSpecs(next[n], items)
  <2>1. next[n] \in port.lo..port.hi
    BY <1>1, <1>9, <1>12
  <2> QED
    BY <1>9, <1>10, <2>1
<1> QED
  BY <1>3, <1>11, <1>12

(* port_sets_overlap: whether some port of a range is in another.          *)
LEMMA OverlapIs ==
  ASSUME NEW items, PortList(items), NEW port, PortItem(port)
  PROVE  Overlap(items, port) <=>
           port.of = "dst" /\ \E x \in port.lo..port.hi : InSpecs(x, items)
<1>1. MaxPort \in Int /\ port.lo \in Int /\ port.hi \in Int /\ port.lo <= port.hi
  <2>1. MaxPort \in Nat
    BY RoutesAssumption
  <2> QED
    BY <2>1 DEF PortItem
<1>2. \A p \in items : p.lo \in Int /\ p.hi \in Int /\ p.lo <= p.hi
  BY <1>1 DEF PortList, PortItem
<1>3. ASSUME NEW p \in items, p.lo <= port.hi, port.lo <= p.hi
      PROVE  \E x \in port.lo..port.hi : x \in p.lo..p.hi
  <2>1. CASE p.lo <= port.lo
    <3>1. port.lo \in port.lo..port.hi /\ port.lo \in p.lo..p.hi
      BY <1>1, <1>2, <1>3, <2>1
    <3> QED
      BY <3>1
  <2>2. CASE ~(p.lo <= port.lo)
    <3>1. p.lo \in port.lo..port.hi /\ p.lo \in p.lo..p.hi
      BY <1>1, <1>2, <1>3, <2>2
    <3> QED
      BY <3>1
  <2> QED
    BY <2>1, <2>2
<1>4. ASSUME NEW p \in items, NEW x \in port.lo..port.hi, x \in p.lo..p.hi
      PROVE  p.lo <= port.hi /\ port.lo <= p.hi
  BY <1>1, <1>2, <1>4
<1> QED
  BY <1>3, <1>4 DEF Overlap, InSpecs

(* A port of a rule is warned of exactly when the generated rules treat it *)
(* another way (hincyray.rs:13520-13627).                                  *)
THEOREM ConflictsAreTrue ==
  PolicySpec => []ConflictsAreReal
<1>1. ASSUME DataFormed
      PROVE  ConflictsAreReal
  <2> DEFINE split == policy.split
             listed == UNION {PortEntries(split)[i].ports : i \in DOMAIN PortEntries(split)}
             allow == split.mode = "allow" /\ split.proxied # {}
             deny == split.mode = "deny" /\ split.bypassed # {}
  <2>1. /\ PortList(split.proxied) /\ PortList(split.bypassed)
        /\ \A i \in DOMAIN policy.rules : \A p \in policy.rules[i].ports : PortItem(p)
    BY <1>1 DEF DataFormed, Formed, SplitFormed, RulesFormed, WellFormed
  <2>2. listed = IF allow THEN split.proxied ELSE IF deny THEN split.bypassed ELSE {}
    <3>1. \A ports, to : OnPorts(ports, to).ports = ports
      BY DEF OnPorts, Always, Entry
    <3>2. CASE allow
      <4>1. ~deny /\ PortEntries(split) = <<OnPorts(split.proxied, "active")>> \o <<>>
        BY <3>2 DEF PortEntries, If
      <4>2. PortEntries(split) = <<OnPorts(split.proxied, "active")>>
        BY <4>1
      <4> QED
        BY <3>1, <3>2, <4>2
    <3>3. CASE deny
      <4>1. ~allow /\ PortEntries(split) = <<>> \o <<OnPorts(split.bypassed, "direct")>>
        BY <3>3 DEF PortEntries, If
      <4>2. PortEntries(split) = <<OnPorts(split.bypassed, "direct")>>
        BY <4>1
      <4> QED
        BY <3>1, <3>3, <4>1, <4>2
    <3>4. CASE ~allow /\ ~deny
      <4>1. PortEntries(split) = <<>> \o <<>>
        BY <3>4 DEF PortEntries, If
      <4>2. PortEntries(split) = <<>>
        BY <4>1
      <4> QED
        BY <3>4, <4>2
    <3> QED
      BY <3>2, <3>3, <3>4
  <2> HIDE DEF listed
  <2> SUFFICES ASSUME NEW i \in DOMAIN policy.rules, NEW p \in OfKind(policy.rules[i].ports, "dst")
               PROVE  <<i, p>> \in Conflicts(policy) <=>
                        /\ policy.rules[i].enabled /\ policy.rules[i].mode # "exclude"
                        /\ listed # {}
                        /\ \E port \in p.lo .. p.hi :
                             InSpecs(port, listed) = (split.mode = "deny")
    BY DEF ConflictsAreReal, listed
  <2>3. p \in policy.rules[i].ports /\ p.of = "dst" /\ PortItem(p)
    BY <2>1 DEF OfKind
  <2>4. <<i, p>> \in Conflicts(policy) <=>
          /\ policy.rules[i].enabled /\ policy.rules[i].mode # "exclude"
          /\ \/ allow /\ ~Covers(split.proxied, p)
             \/ deny /\ Overlap(split.bypassed, p)
    BY <2>3 DEF Conflicts
  <2>5. Covers(split.proxied, p) <=> \A x \in p.lo..p.hi : InSpecs(x, split.proxied)
    BY <2>1, <2>3, CoversIs
  <2>6. Overlap(split.bypassed, p) <=> \E x \in p.lo..p.hi : InSpecs(x, split.bypassed)
    BY <2>1, <2>3, OverlapIs
  <2>7. CASE allow
    <3>1. listed = split.proxied /\ listed # {} /\ split.mode # "deny"
      BY <2>2, <2>7
    <3>2. \A x : InSpecs(x, listed) = (split.mode = "deny") <=> ~InSpecs(x, split.proxied)
      BY <3>1, Zenon DEF InSpecs
    <3> QED
      BY <2>4, <2>5, <2>7, <3>1, <3>2
  <2>8. CASE deny
    <3>1. listed = split.bypassed /\ listed # {} /\ split.mode = "deny" /\ ~allow
      BY <2>2, <2>8
    <3>2. \A x : InSpecs(x, listed) = (split.mode = "deny") <=> InSpecs(x, split.bypassed)
      BY <3>1, Zenon DEF InSpecs
    <3> QED
      BY <2>4, <2>6, <2>8, <3>1, <3>2
  <2>9. CASE ~allow /\ ~deny
    BY <2>2, <2>4, <2>9
  <2> QED
    BY <2>7, <2>8, <2>9
<1> QED
  BY <1>1, PolicyFormed, PTL

-----------------------------------------------------------------------------
(* The traffic log.                                                        *)

(* The log is the last Len(log) of the lines written.                      *)
LogIsTail ==
  /\ written \in Nat /\ log \in Seq(Nat) /\ Len(log) <= written
  /\ \A i \in 1..Len(log) : log[i] = written - Len(log) + i
  /\ handled \subseteq 1..written
  /\ core = "truncated" => log = <<>>

WatchdogSteps ==
  {"sleep", "tick", "looked", "measured", "learn", "probing", "rotate", "mark"}

CursorTyped ==
  /\ generation \in Nat /\ cursor \in [offset: Nat, generation: Int]
  /\ DOMAIN wd = {"step", "learns", "seen"} /\ wd.step \in WatchdogSteps /\ wd.seen \in Int
  /\ core \in {"up", "down", "truncated"}

(* The generation the cursor belongs to once a skip is complete.           *)
KnownGeneration == IF wd.step = "measured" THEN wd.seen ELSE cursor.generation

(* No line of the file was read or stepped over.                           *)
AllNew == \A i \in 1..Len(log) : log[i] \notin handled

(* A generation the cursor does not know, or a file shorter than its       *)
(* offset, is a log begun after everything the cursor has seen; otherwise  *)
(* the offset divides the lines handled from the new ones, and while every *)
(* rotation was marked it is within the file.                              *)
Aligned ==
  /\ KnownGeneration <= generation
  /\ wd.step = "looked" => wd.seen = cursor.generation
  /\ KnownGeneration # generation \/ Len(log) < cursor.offset \/ wd.step = "mark" => AllNew
  /\ \A i \in 1..Len(log) : i > cursor.offset => log[i] \notin handled
  /\ ~unmarked /\ KnownGeneration = generation /\ core # "truncated" /\ wd.step # "mark" =>
       /\ cursor.offset <= Len(log)
       /\ \A i \in 1..Len(log) : i <= cursor.offset => log[i] \in handled

CursorInv == LogIsTail /\ CursorTyped /\ (~outrun => Aligned)

(* A watchdog step that moves between states in which neither read nor     *)
(* rotation is under way says nothing about the cursor.                    *)
LEMMA ElsewhereInvariant ==
  ASSUME CursorInv, UNCHANGED <<files, cursor, handled, outrun>>,
         DOMAIN wd' = {"step", "learns", "seen"}, wd'.step \in WatchdogSteps, wd'.seen \in Int,
         wd' = wd \/ /\ wd.step \notin {"looked", "measured", "mark"}
                     /\ wd'.step \notin {"looked", "measured", "mark"}
  PROVE  CursorInv'
<1>1. LogIsTail' /\ CursorTyped'
  BY DEF CursorInv, LogIsTail, CursorTyped, files
<1>2. ASSUME ~outrun'
      PROVE  Aligned'
  BY <1>2 DEF CursorInv, Aligned, KnownGeneration, AllNew, CursorTyped, files
<1> QED
  BY <1>1, <1>2 DEF CursorInv

(* CursorInv holds initially.                                              *)
LEMMA CursorInit == Init => CursorInv
<1> SUFFICES ASSUME Init PROVE CursorInv
  OBVIOUS
<1>1. LogIsTail
  BY EmptySeq DEF Init, LogIsTail
<1>2. CursorTyped
  BY DEF Init, Asleep, CursorTyped, WatchdogSteps
<1>3. Aligned
  BY EmptySeq DEF Init, Asleep, Aligned, KnownGeneration, AllNew
<1> QED
  BY <1>1, <1>2, <1>3 DEF CursorInv

(* A line the core appends keeps CursorInv.                                *)
LEMMA AppendInvariant ==
  ASSUME CursorInv, Append1
  PROVE  CursorInv'
<1> USE DEF CursorInv, Append1
<1>1. /\ log' \in Seq(Nat) /\ Len(log') = Len(log) + 1 /\ written' = written + 1
      /\ \A i \in 1..Len(log) : log'[i] = log[i]
      /\ log'[Len(log) + 1] = written + 1
  BY AppendProperties DEF LogIsTail
<1>2. LogIsTail'
  BY <1>1 DEF LogIsTail
<1>3. CursorTyped'
  BY DEF CursorTyped, learning
<1>4. ASSUME ~outrun'
      PROVE  Aligned'
  <2>1. Aligned /\ KnownGeneration' = KnownGeneration
    BY <1>4 DEF KnownGeneration
  <2>2. log'[Len(log) + 1] \notin handled'
    BY <1>1 DEF LogIsTail
  <2>3. \A i \in 1..Len(log') : i \in 1..Len(log) \/ i = Len(log) + 1
    BY <1>1 DEF LogIsTail
  <2> QED
    BY <1>1, <2>1, <2>2, <2>3 DEF Aligned, AllNew, LogIsTail, CursorTyped
<1> QED
  BY <1>2, <1>3, <1>4

(* A truncated file holds nothing, so nothing that was handled.            *)
LEMMA EmptiedLog ==
  ASSUME LogIsTail, log' = <<>>, UNCHANGED <<written, handled>>
  PROVE  LogIsTail' /\ AllNew' /\ Len(log') = 0
<1>1. written' \in Nat /\ log' \in Seq(Nat) /\ Len(log') = 0 /\ 1..Len(log') = {}
  BY EmptySeq DEF LogIsTail
<1>2. handled' \subseteq 1..written'
  BY DEF LogIsTail
<1> QED
  BY <1>1, <1>2 DEF LogIsTail, AllNew

(* The truncation of the log by a start of the core keeps CursorInv.       *)
LEMMA StartCoreInvariant ==
  ASSUME CursorInv, StartCore
  PROVE  CursorInv'
<1> USE DEF CursorInv, StartCore
<1>1. CASE Len(log) > StartLimit
  <2>1. LogIsTail' /\ AllNew' /\ Len(log') = 0
    BY <1>1, EmptiedLog
  <2>2. CursorTyped'
    BY <1>1 DEF CursorTyped
  <2>3. ASSUME ~outrun'
        PROVE  Aligned'
    BY <1>1, <2>1, <2>3 DEF Aligned, KnownGeneration, AllNew, CursorTyped
  <2> QED
    BY <2>1, <2>2, <2>3
<1>2. CASE ~(Len(log) > StartLimit)
  <2>1. LogIsTail'
    BY <1>2 DEF LogIsTail
  <2>2. CursorTyped'
    BY <1>2 DEF CursorTyped
  <2>3. ASSUME ~outrun'
        PROVE  Aligned'
    BY <1>2, <2>3 DEF Aligned, KnownGeneration, AllNew, CursorTyped
  <2> QED
    BY <2>1, <2>2, <2>3
<1> QED
  BY <1>1, <1>2

(* The rest of the start keeps CursorInv.                                  *)
LEMMA StartGoesOnInvariant ==
  ASSUME CursorInv, StartGoesOn
  PROVE  CursorInv'
<1> USE DEF CursorInv, StartGoesOn, Marks
<1>1. LogIsTail' /\ CursorTyped'
  BY DEF LogIsTail, CursorTyped
<1>2. ASSUME ~outrun'
      PROVE  Aligned'
  BY <1>2, EmptySeq DEF Aligned, KnownGeneration, AllNew, CursorTyped, LogIsTail
<1> QED
  BY <1>1, <1>2

(* A stop of the core keeps CursorInv.                                     *)
LEMMA StopCoreInvariant ==
  ASSUME CursorInv, StopCore
  PROVE  CursorInv'
<1> USE DEF CursorInv, StopCore
<1>1. LogIsTail' /\ CursorTyped'
  BY DEF LogIsTail, CursorTyped
<1>2. ASSUME ~outrun'
      PROVE  Aligned'
  BY <1>2 DEF Aligned, KnownGeneration, AllNew, CursorTyped, LogIsTail
<1> QED
  BY <1>1, <1>2

(* Comparing generation and length with the cursor keeps CursorInv.        *)
LEMMA LookInvariant ==
  ASSUME CursorInv, Look
  PROVE  CursorInv'
<1> USE DEF CursorInv, Look, NextOffset
<1>1. LogIsTail' /\ CursorTyped'
  BY DEF LogIsTail, CursorTyped, WatchdogSteps, files
<1>2. ASSUME ~outrun'
      PROVE  Aligned'
  <2>1. Aligned
    BY <1>2
  <2>2. /\ wd'.step = "looked" /\ wd'.seen = generation
        /\ cursor'.generation = generation /\ cursor'.offset = NextOffset
        /\ log' = log /\ generation' = generation /\ handled' = handled
        /\ core' = core /\ unmarked' = unmarked
    BY DEF CursorTyped, files
  <2>3. KnownGeneration' = generation /\ KnownGeneration = cursor.generation
    BY <2>2 DEF KnownGeneration
  <2> QED
    BY <2>1, <2>2, <2>3 DEF Aligned, AllNew, CursorTyped, LogIsTail
<1> QED
  BY <1>1, <1>2

(* The part of a sequence behind position a, up to position b.             *)
LEMMA Part ==
  ASSUME NEW S, NEW s \in Seq(S), NEW a \in Nat, NEW b \in Nat, b <= Len(s)
  PROVE  LET part == SubSeq(s, a + 1, b)
         IN  /\ part \in Seq(S)
             /\ Len(part) = IF a < b THEN b - a ELSE 0
             /\ \A i \in 1..Len(part) : part[i] = s[a + i]
             /\ \A x : x \in ToSet(part) <=> \E i \in 1..b : a < i /\ x = s[i]
<1> DEFINE part == SubSeq(s, a + 1, b)
<1>1. \A i \in a + 1 .. b : s[i] \in S
  BY ElementOfSeq, LenProperties
<1>2. /\ part \in Seq(S) /\ Len(part) = IF a + 1 <= b THEN b - (a + 1) + 1 ELSE 0
      /\ \A i \in 1..b - (a + 1) + 1 : part[i] = s[(a + 1) + i - 1]
  <2>1. a + 1 \in Int /\ b \in Int
    OBVIOUS
  <2> QED
    BY <1>1, <2>1, SubSeqProperties
<1> HIDE DEF part
<1>3. Len(part) = IF a < b THEN b - a ELSE 0
  BY <1>2
<1>4. ASSUME NEW i \in 1..Len(part)
      PROVE  part[i] = s[a + i] /\ a + i \in 1..b /\ a < a + i
  BY <1>2, <1>3
<1>5. ToSet(part) = {part[i] : i \in 1..Len(part)}
  BY <1>2, LenProperties DEF ToSet
<1>6. ASSUME NEW j \in 1..b, a < j
      PROVE  j - a \in 1..Len(part) /\ part[j - a] = s[j]
  <2>1. j - a \in 1..Len(part) /\ a + (j - a) = j
    BY <1>3, <1>6
  <2> QED
    BY <1>4, <2>1
<1>7. \A x : x \in ToSet(part) <=> \E i \in 1..b : a < i /\ x = s[i]
  BY <1>4, <1>5, <1>6
<1> QED
  BY <1>2, <1>3, <1>4, <1>7 DEF part

(* What one read returns: the lines up to the next offset.                 *)
LEMMA NewLinesAre ==
  ASSUME CursorInv
  PROVE  \E last \in Nat :
           /\ last <= Len(log) /\ last <= cursor.offset + ReadLimit
           /\ Len(NewLines) = IF cursor.offset < last THEN last - cursor.offset ELSE 0
           /\ \A x : x \in ToSet(NewLines) <=> \E i \in 1..last : cursor.offset < i /\ x = log[i]
<1> DEFINE last == IF cursor.offset + ReadLimit < Len(log) THEN cursor.offset + ReadLimit
                                                            ELSE Len(log)
<1>1. ReadLimit \in Nat
  BY TrafficLogAssumption DEF TrafficLogAssumption
<1>2. /\ cursor.offset \in Nat /\ Len(log) \in Nat /\ log \in Seq(Nat)
      /\ last \in Nat /\ last <= Len(log) /\ last <= cursor.offset + ReadLimit
  <2>1. cursor.offset \in Nat /\ log \in Seq(Nat)
    BY DEF CursorInv, LogIsTail, CursorTyped
  <2>2. Len(log) \in Nat
    BY <2>1, LenProperties
  <2> QED
    BY <1>1, <2>1, <2>2
<1>3. NewLines = SubSeq(log, cursor.offset + 1, last)
  BY DEF NewLines
<1>4. /\ Len(NewLines) = IF cursor.offset < last THEN last - cursor.offset ELSE 0
      /\ \A x : x \in ToSet(NewLines) <=> \E i \in 1..last : cursor.offset < i /\ x = log[i]
  <2> DEFINE from == cursor.offset
  <2> HIDE DEF last, from
  <2>0. from \in Nat /\ last \in Nat /\ log \in Seq(Nat) /\ last <= Len(log)
    BY <1>2 DEF from
  <2>1. NewLines = SubSeq(log, from + 1, last)
    BY <1>3 DEF from
  <2>2. LET part == SubSeq(log, from + 1, last)
        IN  /\ Len(part) = IF from < last THEN last - from ELSE 0
            /\ \A x : x \in ToSet(part) <=> \E i \in 1..last : from < i /\ x = log[i]
    BY <2>0, Part
  <2> QED
    BY <2>1, <2>2 DEF from
<1> HIDE DEF last
<1> QED
  BY <1>2, <1>4

(* Reading the complete lines keeps CursorInv.                             *)
LEMMA ReadInvariant ==
  ASSUME CursorInv, Read
  PROVE  CursorInv'
<1>0. /\ wd.step = "looked" /\ wd' = [wd EXCEPT !.step = "learn"]
      /\ cursor' = [cursor EXCEPT !.offset = @ + Len(NewLines)]
      /\ handled' = handled \cup ToSet(NewLines)
      /\ outrun' = (outrun \/ wd.seen # generation)
      /\ UNCHANGED <<log, generation, written, core, unmarked>>
  BY DEF Read, files
<1>1. PICK last \in Nat :
        /\ last <= Len(log)
        /\ Len(NewLines) = IF cursor.offset < last THEN last - cursor.offset ELSE 0
        /\ \A x : x \in ToSet(NewLines) <=> \E i \in 1..last : cursor.offset < i /\ x = log[i]
  BY NewLinesAre
<1>2. LogIsTail'
  <2>1. \A i \in 1..last : i \in 1..Len(log) /\ log[i] \in 1..written
    BY <1>1, LenProperties DEF CursorInv, LogIsTail
  <2>2. ToSet(NewLines) \subseteq 1..written
    BY <1>1, <2>1
  <2> QED
    BY <1>0, <2>2 DEF CursorInv, LogIsTail
<1>3. /\ Len(NewLines) \in Nat /\ cursor.offset \in Nat /\ Len(log) \in Nat
      /\ cursor'.offset = cursor.offset + Len(NewLines)
      /\ cursor'.generation = cursor.generation
      /\ DOMAIN wd' = DOMAIN wd /\ wd'.step = "learn" /\ wd'.seen = wd.seen
  BY <1>0, <1>1 DEF CursorInv, CursorTyped, LogIsTail
<1>4. CursorTyped'
  BY <1>0, <1>3 DEF CursorInv, CursorTyped, WatchdogSteps
<1>5. ASSUME ~outrun'
      PROVE  Aligned'
  <2>1. Aligned /\ wd.seen = generation /\ KnownGeneration = generation /\ KnownGeneration' = generation
    BY <1>0, <1>3, <1>5 DEF CursorInv, CursorTyped, Aligned, KnownGeneration
  <2>2. ASSUME Len(log) < cursor'.offset
        PROVE  AllNew /\ ToSet(NewLines) = {}
    <3>1. Len(log) < cursor.offset
      BY <1>1, <1>3, <2>2
    <3>2. \A i \in 1..last : ~(cursor.offset < i)
      BY <1>1, <1>3, <3>1
    <3> QED
      BY <1>1, <2>1, <3>1, <3>2 DEF Aligned
  <2>3. ASSUME NEW i \in 1..Len(log), i > cursor'.offset
        PROVE  log[i] \notin handled'
    <3>1. i > cursor.offset /\ ~(i <= last)
      BY <1>1, <1>3, <2>3
    <3>2. ASSUME NEW j \in 1..last
          PROVE  log[i] # log[j]
      <4>1. j \in 1..Len(log) /\ i # j
        BY <1>1, <1>3, <3>1
      <4>2. /\ log[i] = written - Len(log) + i /\ log[j] = written - Len(log) + j
            /\ written \in Nat
        BY <4>1 DEF CursorInv, LogIsTail
      <4> QED
        BY <1>3, <4>1, <4>2
    <3>3. log[i] \notin ToSet(NewLines)
      BY <1>1, <3>2
    <3> QED
      BY <1>0, <2>1, <3>1, <3>3 DEF Aligned
  <2>4. ASSUME ~unmarked, core # "truncated"
        PROVE  /\ cursor'.offset <= Len(log)
               /\ \A i \in 1..Len(log) : i <= cursor'.offset => log[i] \in handled'
    <3>1. /\ cursor.offset <= Len(log)
          /\ \A i \in 1..Len(log) : i <= cursor.offset => log[i] \in handled
      BY <1>0, <2>1, <2>4 DEF Aligned
    <3>2. cursor'.offset <= Len(log)
      BY <1>1, <1>3, <3>1
    <3>3. ASSUME NEW i \in 1..Len(log), i <= cursor'.offset, ~(i <= cursor.offset)
          PROVE  log[i] \in ToSet(NewLines)
      <4>1. i \in 1..last /\ cursor.offset < i
        BY <1>1, <1>3, <3>3
      <4> QED
        BY <1>1, <4>1
    <3> QED
      BY <1>0, <3>1, <3>2, <3>3
  <2> QED
    BY <1>0, <1>3, <2>1, <2>2, <2>3, <2>4 DEF Aligned, AllNew
<1> QED
  BY <1>2, <1>4, <1>5 DEF CursorInv

(* Measuring the log before a rotation keeps CursorInv.                    *)
LEMMA MeasureInvariant ==
  ASSUME CursorInv, Measure
  PROVE  CursorInv'
<1>0. /\ wd.step = "tick" /\ wd' = [wd EXCEPT !.step = "measured", !.seen = generation]
      /\ cursor' = [cursor EXCEPT !.offset = Len(log)] /\ handled' = handled \cup ToSet(log)
      /\ UNCHANGED <<log, generation, written, core, unmarked, outrun>>
  BY DEF Measure, files
<1>1. ToSet(log) = {log[i] : i \in 1..Len(log)}
  BY LenProperties DEF ToSet, CursorInv, LogIsTail
<1>2. LogIsTail'
  <2>1. ToSet(log) \subseteq 1..written
    BY <1>1 DEF CursorInv, LogIsTail
  <2> QED
    BY <1>0, <2>1 DEF CursorInv, LogIsTail
<1>3. /\ Len(log) \in Nat /\ cursor'.offset = Len(log)
      /\ DOMAIN wd' = DOMAIN wd /\ wd'.step = "measured" /\ wd'.seen = generation
  BY <1>0 DEF CursorInv, CursorTyped, LogIsTail
<1>4. CursorTyped'
  BY <1>0, <1>3 DEF CursorInv, CursorTyped, WatchdogSteps
<1>5. Aligned'
  BY <1>0, <1>1, <1>3 DEF Aligned, AllNew, KnownGeneration, CursorInv, CursorTyped
<1> QED
  BY <1>2, <1>4, <1>5 DEF CursorInv

(* Skipping to the end of the log keeps CursorInv.                         *)
LEMMA SkipToEndInvariant ==
  ASSUME CursorInv, SkipToEnd
  PROVE  CursorInv'
<1>0. /\ wd.step = "measured" /\ wd' = [wd EXCEPT !.step = "rotate"]
      /\ cursor' = [cursor EXCEPT !.generation = generation]
      /\ outrun' = (outrun \/ wd.seen # generation)
      /\ UNCHANGED <<log, generation, written, core, unmarked, handled>>
  BY DEF SkipToEnd, files
<1>1. LogIsTail'
  BY <1>0 DEF CursorInv, LogIsTail
<1>2. /\ cursor'.offset = cursor.offset /\ cursor'.generation = generation
      /\ DOMAIN wd' = DOMAIN wd /\ wd'.step = "rotate" /\ wd'.seen = wd.seen
  BY <1>0 DEF CursorInv, CursorTyped
<1>3. CursorTyped'
  BY <1>0, <1>2 DEF CursorInv, CursorTyped, WatchdogSteps
<1>4. ASSUME ~outrun'
      PROVE  Aligned'
  <2>1. Aligned /\ KnownGeneration = generation /\ KnownGeneration' = generation
    BY <1>0, <1>2, <1>4 DEF CursorInv, KnownGeneration
  <2> QED
    BY <1>0, <1>2, <2>1 DEF Aligned, AllNew, CursorInv, CursorTyped
<1> QED
  BY <1>1, <1>3, <1>4 DEF CursorInv

(* A rotation keeps CursorInv.                                             *)
LEMMA RotateInvariant ==
  ASSUME CursorInv, Rotate
  PROVE  CursorInv'
<1>0. /\ log' = <<>> /\ wd' = [wd EXCEPT !.step = "mark"] /\ wd.step = "rotate"
      /\ UNCHANGED <<generation, written, core, cursor, handled, unmarked, outrun>>
  BY DEF Rotate
<1>1. LogIsTail' /\ AllNew' /\ Len(log') = 0
  BY <1>0, EmptiedLog DEF CursorInv
<1>2. DOMAIN wd' = DOMAIN wd /\ wd'.step = "mark" /\ wd'.seen = wd.seen
  BY <1>0 DEF CursorInv, CursorTyped
<1>3. CursorTyped'
  BY <1>0, <1>2 DEF CursorInv, CursorTyped, WatchdogSteps
<1>4. ASSUME ~outrun'
      PROVE  Aligned'
  BY <1>0, <1>1, <1>2, <1>4 DEF Aligned, AllNew, KnownGeneration, CursorInv, CursorTyped
<1> QED
  BY <1>1, <1>3, <1>4 DEF CursorInv

(* Recording the new generation keeps CursorInv.                           *)
LEMMA MarkRotationInvariant ==
  ASSUME CursorInv, MarkRotation
  PROVE  CursorInv'
<1>0. /\ wd.step = "mark" /\ wd' = Asleep /\ Marks
      /\ UNCHANGED <<log, written, core, cursor, handled, outrun>>
  BY DEF MarkRotation
<1>1. LogIsTail'
  BY <1>0 DEF CursorInv, LogIsTail
<1>2. DOMAIN wd' = {"step", "learns", "seen"} /\ wd'.step = "sleep" /\ wd'.seen = 0
  BY <1>0 DEF Asleep
<1>3. CursorTyped'
  BY <1>0, <1>2 DEF CursorInv, CursorTyped, WatchdogSteps, Marks
<1>4. ASSUME ~outrun'
      PROVE  Aligned'
  <2>1. Aligned /\ AllNew /\ KnownGeneration' = KnownGeneration /\ KnownGeneration' = cursor.generation
    BY <1>0, <1>2, <1>4 DEF CursorInv, Aligned, KnownGeneration
  <2> QED
    BY <1>0, <1>2, <2>1 DEF Aligned, AllNew, Marks, CursorInv, CursorTyped, LogIsTail
<1> QED
  BY <1>1, <1>3, <1>4 DEF CursorInv

(* Every step keeps CursorInv.                                             *)
LEMMA CursorNext ==
  ASSUME CursorInv, [Next]_vars
  PROVE  CursorInv'
<1>1. CASE \/ EditSettings \/ CheckExpires \/ BeginTick \/ ReadFails
           \/ BeginLearning \/ NoLearning \/ Learn \/ LearnFails \/ EndTick
           \/ UNCHANGED vars
  <2>1. UNCHANGED files /\ UNCHANGED cursor /\ UNCHANGED handled /\ UNCHANGED outrun
    BY <1>1, Zenon DEF EditSettings, CheckExpires, BeginTick, ReadFails, BeginLearning, NoLearning,
                       Learn, LearnFails, EndTick, vars, files
  <2>2. \/ wd' = wd
        \/ wd.step = "sleep" /\ wd' = [step |-> "tick", learns |-> core = "up" /\ enabled, seen |-> 0]
        \/ wd.step = "tick" /\ wd' = [wd EXCEPT !.step = "learn"]
        \/ wd.step = "learn" /\ wd' = [wd EXCEPT !.step = "probing"]
        \/ wd.step \in {"learn", "probing"} /\ wd' = [wd EXCEPT !.step = "rotate"]
        \/ wd.step = "rotate" /\ wd' = Asleep
    BY <1>1, Zenon DEF EditSettings, CheckExpires, BeginTick, ReadFails, BeginLearning, NoLearning,
                       Learn, LearnFails, EndTick, vars
  <2>3. /\ DOMAIN wd' = {"step", "learns", "seen"} /\ wd'.step \in WatchdogSteps
        /\ wd'.seen \in Int
        /\ wd' = wd \/ /\ wd.step \notin {"looked", "measured", "mark"}
                       /\ wd'.step \notin {"looked", "measured", "mark"}
    BY <2>2 DEF CursorInv, CursorTyped, WatchdogSteps, Asleep
  <2> QED
    BY <2>1, <2>3, ElsewhereInvariant
<1> QED
  BY <1>1, AppendInvariant, StartCoreInvariant, StartGoesOnInvariant, StopCoreInvariant,
     LookInvariant, ReadInvariant, MeasureInvariant, SkipToEndInvariant, RotateInvariant,
     MarkRotationInvariant DEF Next

-----------------------------------------------------------------------------
(* What is queued, and what a learning cycle takes from it.                *)

(* A domain is queued at most once and the oldest gives way.               *)
LEMMA QueuedType ==
  ASSUME NEW waiting \in Seq(Domains), NEW domain \in Domains \cup {NoDomain}
  PROVE  Queued(waiting, domain) \in Seq(Domains)
<1>1. CASE domain = NoDomain \/ domain \in ToSet(waiting)
  BY <1>1 DEF Queued
<1>2. CASE domain # NoDomain /\ domain \notin ToSet(waiting)
  <2> DEFINE front == IF Len(waiting) >= MaxPending THEN Tail(waiting) ELSE waiting
  <2>1. front \in Seq(Domains)
    <3>1. Len(waiting) \in Nat /\ MaxPending \in Nat /\ MaxPending > 0
      BY TrafficLogAssumption, LenProperties
    <3>2. Len(waiting) >= MaxPending => waiting # <<>>
      BY <3>1, EmptySeq
    <3> QED
      BY <3>2, HeadTailProperties
  <2>2. <<domain>> \in Seq(Domains)
    BY <1>2
  <2>3. Queued(waiting, domain) = front \o <<domain>>
    BY <1>2 DEF Queued
  <2> HIDE DEF front
  <2> QED
    BY <2>1, <2>2, <2>3, ConcatProperties
<1> QED
  BY <1>1, <1>2

(* Read line by line, the queue stays a queue of domains.                  *)
LEMMA QueuedAllType ==
  ASSUME pending \in Seq(Domains), NEW lines \in Seq(1..Lines)
  PROVE  QueuedAll(lines) \in Seq(Domains)
<1> DEFINE next(q, n) == Queued(q, DomainOf(lines[n]))
           N == Len(lines)
           Queues(g, m) == /\ g = [n \in 0..m |-> IF n = 0 THEN pending ELSE next(g[n - 1], n)]
                           /\ \A n \in 0..m : g[n] \in Seq(Domains)
           T == {m \in Nat : m <= N => \E g : Queues(g, m)}
<1>1. N \in Nat /\ \A n \in 1..N : DomainOf(lines[n]) \in Domains \cup {NoDomain}
  BY TrafficLogAssumption, LenProperties, ElementOfSeq
<1>2. \A q \in Seq(Domains) : \A n \in 1..N : next(q, n) \in Seq(Domains)
  BY <1>1, QueuedType
<1>3. 0 \in T
  <2> DEFINE g == [n \in 0..0 |-> pending]
  <2>1. g = [n \in 0..0 |-> IF n = 0 THEN pending ELSE next(g[n - 1], n)]
    OBVIOUS
  <2>2. \A n \in 0..0 : g[n] \in Seq(Domains)
    OBVIOUS
  <2> HIDE DEF g
  <2> QED
    BY <2>1, <2>2
<1>4. ASSUME NEW m \in Nat, m \in T
      PROVE  m + 1 \in T
  <2> SUFFICES ASSUME m + 1 <= N PROVE \E h : Queues(h, m + 1)
    OBVIOUS
  <2>1. m <= N /\ m + 1 \in 1..N
    BY <1>1
  <2>2. PICK g : Queues(g, m)
    BY <1>4, <2>1
  <2> HIDE DEF next
  <2> DEFINE h == [n \in 0..(m + 1) |-> IF n = 0 THEN pending ELSE next(g[n - 1], n)]
  <2>3. \A n \in 0..m : h[n] = g[n]
    BY <2>2
  <2>4. h[m + 1] = next(g[m], m + 1)
    <3>1. m + 1 \in 0..(m + 1) /\ m + 1 # 0 /\ (m + 1) - 1 = m
      OBVIOUS
    <3> QED
      BY <3>1
  <2>5. \A n \in 0..(m + 1) : h[n] \in Seq(Domains)
    <3>1. \A n \in 0..(m + 1) : n \in 0..m \/ n = m + 1
      OBVIOUS
    <3>2. g[m] \in Seq(Domains)
      BY <2>2
    <3> QED
      BY <1>2, <2>1, <2>2, <2>3, <2>4, <3>1, <3>2
  <2>6. h = [n \in 0..(m + 1) |-> IF n = 0 THEN pending ELSE next(h[n - 1], n)]
    <3>1. \A n \in 0..(m + 1) : n # 0 => n - 1 \in 0..m
      OBVIOUS
    <3>2. \A n \in 0..(m + 1) : n # 0 => g[n - 1] = h[n - 1]
      BY <2>3, <3>1
    <3> QED
      BY <3>2
  <2> QED
    BY <2>5, <2>6
<1>5. N \in T
  <2> HIDE DEF T
  <2> QED
    BY <1>1, <1>3, <1>4, Counting
<1>6. PICK g : Queues(g, N)
  BY <1>1, <1>5
<1> DEFINE after[n \in 0..N] == IF n = 0 THEN pending ELSE next(after[n - 1], n)
<1>7. after = [n \in 0..N |-> IF n = 0 THEN pending ELSE next(after[n - 1], n)]
  BY <1>6
<1>8. QueuedAll(lines) = after[N]
  BY DEF QueuedAll
<1> HIDE DEF after, next
<1> DEFINE V == {m \in Nat : m <= N => after[m] \in Seq(Domains)}
<1>9. 0 \in V
  BY <1>1, <1>7
<1>10. ASSUME NEW m \in Nat, m \in V
       PROVE  m + 1 \in V
  <2> SUFFICES ASSUME m + 1 <= N PROVE after[m + 1] \in Seq(Domains)
    OBVIOUS
  <2>1. m + 1 \in 1..N /\ m + 1 \in 0..N /\ m + 1 # 0 /\ (m + 1) - 1 = m /\ after[m] \in Seq(Domains)
    BY <1>1, <1>10
  <2>2. after[m + 1] = next(after[m], m + 1)
    BY <1>7, <2>1
  <2> QED
    BY <1>2, <2>1, <2>2
<1>11. N \in V
  <2> HIDE DEF V
  <2> QED
    BY <1>1, <1>9, <1>10, Counting
<1> QED
  BY <1>1, <1>8, <1>11

(* While a cycle probes, its batch is the front of the queue, and each of  *)
(* the batch is a candidate or was left out.                               *)
QueueInv ==
  /\ pending \in Seq(Domains) /\ log \in Seq(1..Lines) /\ written \in 0..Lines
  /\ wd.step = "probing" =>
       probe.batch = Batch /\ ToSet(Batch) \subseteq probe.left \cup probe.candidates
DecidedInv == CursorInv /\ QueueInv

(* A part of the queue is a queue.                                         *)
LEMMA QueuePart ==
  ASSUME pending \in Seq(Domains)
  PROVE  /\ Len(Batch) \in Nat /\ Len(Batch) <= Len(pending)
         /\ \A i \in 1..Len(Batch) : Batch[i] = pending[i]
         /\ ToSet(Batch) = {pending[i] : i \in 1..Len(Batch)}
<1> DEFINE b == IF Len(pending) < BatchSize THEN Len(pending) ELSE BatchSize
<1>1. Len(pending) \in Nat /\ b \in Nat /\ b <= Len(pending) /\ Batch = SubSeq(pending, 0 + 1, b)
  BY TrafficLogAssumption, LenProperties DEF Batch
<1> HIDE DEF b
<1>2. /\ Batch \in Seq(Domains) /\ Len(Batch) = IF 0 < b THEN b - 0 ELSE 0
      /\ \A i \in 1..Len(Batch) : Batch[i] = pending[0 + i]
  BY <1>1, Part
<1>3. DOMAIN Batch = 1..Len(Batch)
  BY <1>2, LenProperties
<1>4. \A i \in 1..Len(Batch) : Batch[i] = pending[i]
  BY <1>2
<1>5. Len(Batch) \in Nat /\ Len(Batch) <= Len(pending)
  BY <1>1, <1>2
<1>6. ToSet(Batch) = {Batch[i] : i \in 1..Len(Batch)}
  BY <1>3 DEF ToSet
<1> QED
  BY <1>4, <1>5, <1>6

(* What follows the first a elements of a sequence.                        *)
LEMMA Rest ==
  ASSUME NEW S, NEW s \in Seq(S), NEW a \in Nat
  PROVE  \A x : x \in ToSet(SubSeq(s, a + 1, Len(s))) <=> \E j \in 1..Len(s) : a < j /\ x = s[j]
<1> DEFINE z == Len(s)
<1>1. z \in Nat /\ z <= Len(s)
  BY LenProperties
<1> HIDE DEF z
<1>2. LET part == SubSeq(s, a + 1, z)
      IN  \A x : x \in ToSet(part) <=> \E j \in 1..z : a < j /\ x = s[j]
  BY <1>1, Part
<1> QED
  BY <1>2 DEF z

(* No line of the log is lost to the cursor or read twice, whoever rotates *)
(* the file and whenever (MihomoLogCursor::read_new_text).                 *)
THEOREM CursorExact == Spec => []CursorIsExact
<1>1. CursorInv => CursorIsExact
  <2> SUFFICES ASSUME CursorInv, ~outrun, wd.step \notin {"looked", "measured", "mark"},
                      NEW i \in DOMAIN log
               PROVE  /\ i > NextOffset => log[i] \notin handled
                      /\ i <= NextOffset /\ ~unmarked => log[i] \in handled
    BY DEF CursorIsExact
  <2>1. i \in 1..Len(log) /\ Aligned /\ KnownGeneration = cursor.generation
    BY LenProperties DEF CursorInv, LogIsTail, KnownGeneration
  <2>2. core = "truncated" => FALSE
    BY <2>1, EmptySeq DEF CursorInv, LogIsTail
  <2> QED
    BY <2>1, <2>2 DEF CursorInv, CursorTyped, LogIsTail, Aligned, AllNew, NextOffset
<1> QED
  BY <1>1, CursorInit, CursorNext, PTL DEF Spec

(* Each step keeps QueueInv.                                               *)
LEMMA QueueNext ==
  ASSUME DecidedInv, [Next]_vars
  PROVE  QueueInv'
<1>1. /\ pending \in Seq(Domains) /\ log \in Seq(1..Lines) /\ written \in 0..Lines
      /\ wd.step = "probing" =>
           probe.batch = Batch /\ ToSet(Batch) \subseteq probe.left \cup probe.candidates
      /\ DOMAIN wd = {"step", "learns", "seen"} /\ Lines \in Nat
      /\ cursor.offset \in Nat
  BY TrafficLogAssumption DEF DecidedInv, QueueInv, CursorInv, CursorTyped
<1>2. pending' = pending => Batch' = Batch
  BY DEF Batch
<1>3. ASSUME pending' = pending, log' = log, written' = written,
             wd'.step = "probing" => wd.step = "probing" /\ probe' = probe
      PROVE  QueueInv'
  BY <1>1, <1>2, <1>3 DEF QueueInv
<1>4. CASE Append1
  <2>1. /\ written' = written + 1 /\ written < Lines /\ log' = Append(log, written + 1)
        /\ pending' = pending /\ wd' = wd /\ probe' = probe
    BY <1>4 DEF Append1, learning
  <2>2. written + 1 \in 1..Lines /\ written' \in 0..Lines
    BY <1>1, <2>1
  <2>3. log' \in Seq(1..Lines)
    BY <1>1, <2>1, <2>2, AppendProperties
  <2> QED
    BY <1>1, <1>2, <2>1, <2>2, <2>3 DEF QueueInv
<1>5. CASE StartCore \/ Rotate
  <2>1. /\ log' = log \/ log' = <<>>
        /\ pending' = pending /\ written' = written /\ probe' = probe
        /\ wd'.step = "probing" => wd.step = "probing"
    BY <1>1, <1>5 DEF StartCore, Rotate, learning
  <2>2. log' \in Seq(1..Lines)
    BY <1>1, <2>1, EmptySeq
  <2> QED
    BY <1>1, <1>2, <2>1, <2>2 DEF QueueInv
<1>6. CASE Read
  <2>1. pending' = QueuedAll(NewLines) /\ log' = log /\ written' = written /\ wd'.step = "learn"
    BY <1>1, <1>6 DEF Read, files
  <2>2. NewLines \in Seq(1..Lines)
    <3> DEFINE b == IF cursor.offset + ReadLimit < Len(log) THEN cursor.offset + ReadLimit ELSE Len(log)
    <3>1. b \in Nat /\ b <= Len(log) /\ NewLines = SubSeq(log, cursor.offset + 1, b)
      BY <1>1, TrafficLogAssumption, LenProperties DEF NewLines
    <3> HIDE DEF b
    <3> QED
      BY <1>1, <3>1, Part
  <2> QED
    BY <1>1, <2>1, <2>2, QueuedAllType DEF QueueInv
<1>7. CASE Measure
  BY <1>1, <1>7, EmptySeq DEF Measure, files, QueueInv
<1>8. CASE BeginLearning
  <2>1. /\ pending' = pending /\ log' = log /\ written' = written /\ probe'.batch = Batch
        /\ ToSet(Batch) \subseteq probe'.left \cup probe'.candidates
    <3> DEFINE fresh == ToSet(Batch) \ (ToSet(exceptions) \cup recent)
    <3>1. \/ probe' = [batch |-> Batch, left |-> ToSet(Batch), candidates |-> {}]
          \/ \E others : probe' = [batch |-> Batch, left |-> ToSet(Batch) \ fresh,
                                  candidates |-> fresh \cup others]
      BY <1>8 DEF BeginLearning
    <3> HIDE DEF fresh
    <3>2. probe'.batch = Batch /\ ToSet(Batch) \subseteq probe'.left \cup probe'.candidates
      BY <3>1
    <3>3. pending' = pending /\ log' = log /\ written' = written
      BY <1>8 DEF BeginLearning, files
    <3> QED
      BY <3>2, <3>3
  <2> QED
    BY <1>1, <1>2, <2>1 DEF QueueInv
<1>9. CASE Learn
  <2>1. pending' = Drained /\ log' = log /\ written' = written /\ wd'.step = "rotate"
        /\ probe.batch = Batch
    BY <1>1, <1>9 DEF Learn, files
  <2>2. Drained \in Seq(Domains)
    BY <1>1, <2>1, QueuePart, Part, LenProperties DEF Drained
  <2> QED
    BY <1>1, <2>1, <2>2 DEF QueueInv
<1>10. CASE LearnFails
  <2>1. pending' = pending /\ log' = log /\ written' = written /\ wd'.step = "rotate"
    BY <1>1, <1>10 DEF LearnFails, files, Undrained
  <2> QED
    BY <1>3, <2>1
<1>11. CASE StartGoesOn \/ StopCore \/ EditSettings \/ CheckExpires \/ UNCHANGED vars
  <2>1. pending' = pending /\ log' = log /\ written' = written /\ wd' = wd /\ probe' = probe
    BY <1>11 DEF StartGoesOn, StopCore, EditSettings, CheckExpires, vars, learning, files
  <2> QED
    BY <1>3, <2>1
<1>12. CASE \/ BeginTick \/ Look \/ ReadFails \/ SkipToEnd \/ NoLearning \/ MarkRotation \/ EndTick
  <2>1. /\ pending' = pending /\ log' = log /\ written' = written
        /\ wd'.step \in {"tick", "looked", "learn", "rotate", "sleep"}
    <3>1. CASE BeginTick \/ Look \/ ReadFails
      <4>1. CASE BeginTick
        BY <4>1 DEF BeginTick, learning, files
      <4>2. CASE Look
        BY <1>1, <4>2 DEF Look, learning, files
      <4>3. CASE ReadFails
        BY <1>1, <4>3 DEF ReadFails, learning, files
      <4> QED
        BY <3>1, <4>1, <4>2, <4>3
    <3>2. CASE SkipToEnd \/ NoLearning
      BY <1>1, <3>2 DEF SkipToEnd, NoLearning, learning, files
    <3>3. CASE MarkRotation \/ EndTick
      BY <1>1, <3>3 DEF MarkRotation, EndTick, Asleep, learning, files
    <3> QED
      BY <1>12, <3>1, <3>2, <3>3
  <2> QED
    BY <1>3, <2>1
<1> QED
  BY <1>4, <1>5, <1>6, <1>7, <1>8, <1>9, <1>10, <1>11, <1>12 DEF Next

(* No domain leaves the queue after a learning cycle unless it was checked *)
(* or left out with reason, whatever was read, edited or rotated while the *)
(* cycle probed (run_auto_vpn_learning and its caller).                    *)
THEOREM DomainsAreDecided == Spec => DrainedAreDecided
<1> DEFINE Decided == wd.step = "probing" /\ wd'.step # "probing" /\ enabled =>
                        \A d \in ToSet(pending) \ ToSet(pending') : d \in probe.left \cup recent'
<1>1. Init => DecidedInv
  <2> SUFFICES ASSUME Init PROVE DecidedInv
    OBVIOUS
  <2>1. pending \in Seq(Domains) /\ log \in Seq(1..Lines) /\ written \in 0..Lines /\ wd.step = "sleep"
    BY TrafficLogAssumption, EmptySeq DEF Init, Asleep
  <2> QED
    BY <2>1, CursorInit DEF DecidedInv, QueueInv
<1>2. DecidedInv /\ [Next]_vars => DecidedInv'
  BY QueueNext, CursorNext DEF DecidedInv
<1>3. DecidedInv /\ [Next]_vars => [Decided]_vars
  <2> SUFFICES ASSUME DecidedInv, [Next]_vars, wd.step = "probing", wd'.step # "probing", enabled,
                      NEW d \in ToSet(pending), d \notin ToSet(pending')
               PROVE  d \in probe.left \cup recent'
    OBVIOUS
  <2>1. /\ pending \in Seq(Domains) /\ DOMAIN pending = 1..Len(pending) /\ Len(pending) \in Nat
        /\ probe.batch = Batch /\ ToSet(Batch) \subseteq probe.left \cup probe.candidates
    BY LenProperties DEF DecidedInv, QueueInv
  <2>2. Learn \/ LearnFails
    BY DEF Next, vars, Append1, StartCore, StartGoesOn, StopCore, EditSettings, CheckExpires, BeginTick,
           Look, Read, ReadFails, Measure, SkipToEnd, BeginLearning, NoLearning, Rotate, MarkRotation,
           EndTick
  <2>3. Learn
    BY <2>2 DEF LearnFails, Undrained
  <2>4. /\ pending' = SubSeq(pending, Len(Batch) + 1, Len(pending))
        /\ probe.candidates = {} \/ recent' = recent \cup probe.candidates
    BY <2>1, <2>3 DEF Learn, Drained
  <2>5. PICK i \in 1..Len(pending) : d = pending[i]
    BY <2>1 DEF ToSet
  <2>6. Len(Batch) \in Nat /\ ToSet(Batch) = {pending[j] : j \in 1..Len(Batch)}
    BY <2>1, QueuePart
  <2>7. ~(Len(Batch) < i)
    <3>1. \A x : x \in ToSet(pending') <=> \E j \in 1..Len(pending) : Len(Batch) < j /\ x = pending[j]
      <4> DEFINE a == Len(Batch)
      <4>1. a \in Nat /\ pending' = SubSeq(pending, a + 1, Len(pending)) /\ Len(pending) <= Len(pending)
        BY <2>1, <2>4, <2>6
      <4> HIDE DEF a
      <4>2. \A x : x \in ToSet(pending') <=> \E j \in 1..Len(pending) : a < j /\ x = pending[j]
        BY <2>1, <4>1, Rest
      <4> QED
        BY <4>2 DEF a
    <3> QED
      BY <2>5, <3>1
  <2>8. d \in ToSet(Batch)
    BY <2>5, <2>6, <2>7
  <2> QED
    BY <2>1, <2>4, <2>8
<1> QED
  BY <1>1, <1>2, <1>3, PTL DEF Spec, DrainedAreDecided

-----------------------------------------------------------------------------
(* A list of S has each element of S once, and no others.                  *)
Lists(s, S) ==
  /\ s \in Seq(S)
  /\ \A i, j \in 1..Len(s) : s[i] = s[j] => i = j
  /\ \A x \in S : \E i \in 1..Len(s) : s[i] = x

(* It has as many elements as the set.                                     *)
LEMMA ListCount ==
  ASSUME NEW S, NEW s, Lists(s, S)
  PROVE  IsFiniteSet(S) /\ Cardinality(S) = Len(s) /\ Len(s) \in Nat /\ ToSet(s) = S
<1>1. s \in [1..Len(s) -> S] /\ Len(s) \in Nat
  BY LenProperties DEF Lists
<1>2. s \in Injection(1..Len(s), S) /\ s \in Surjection(1..Len(s), S)
  BY <1>1 DEF Lists, Injection, Surjection, IsInjective
<1>3. IsFiniteSet(1..Len(s)) /\ Cardinality(1..Len(s)) = Len(s)
  BY <1>1, UpTo
<1>4. IsFiniteSet(S) /\ Cardinality(S) = Cardinality(1..Len(s))
  BY <1>2, <1>3, FS_Surjection
<1>5. ToSet(s) = S
  BY <1>1 DEF Lists, ToSet
<1> QED
  BY <1>1, <1>3, <1>4, <1>5

(* A part of a list lists what stays.                                      *)
LEMMA KeptLists ==
  ASSUME NEW S, NEW s, Lists(s, S), NEW I \in SUBSET (1..Len(s))
  PROVE  Lists(Kept(s, I), {s[i] : i \in I})
<1> DEFINE t == Kept(s, I)
           R == {s[i] : i \in I}
<1>1. /\ s \in Seq(S) /\ Len(s) \in Nat
      /\ \A i, j \in 1..Len(s) : s[i] = s[j] => i = j
  BY LenProperties DEF Lists
<1>2. /\ t \in Seq(S) /\ Len(t) = Cardinality(I) /\ Cardinality(I) \in Nat
      /\ \A k \in 1..Cardinality(I) : t[k] = s[Nth(I, k)]
      /\ \A x : (\E k \in 1..Cardinality(I) : t[k] = x) <=> (\E i \in I : s[i] = x)
  BY <1>1, KeptElements
<1>3. \A k \in 1..Cardinality(I) : Nth(I, k) \in I /\ Rank(I, Nth(I, k)) = k
  BY <1>1, NthFound
<1> HIDE DEF t
<1>4. ASSUME NEW k \in 1..Len(t), NEW m \in 1..Len(t), t[k] = t[m] PROVE k = m
  <2>1. Nth(I, k) \in 1..Len(s) /\ Nth(I, m) \in 1..Len(s) /\ s[Nth(I, k)] = s[Nth(I, m)]
    BY <1>2, <1>3, <1>4
  <2>2. Nth(I, k) = Nth(I, m)
    BY <1>1, <2>1
  <2> QED
    BY <1>2, <1>3, <1>4, <2>2
<1>5. \A k \in 1..Len(t) : t[k] \in R
  BY <1>2
<1>6. \A x \in R : \E k \in 1..Len(t) : t[k] = x
  BY <1>2
<1> HIDE DEF R
<1>7. t \in Seq(R)
  <2>1. t \in [1..Len(t) -> S] /\ Len(t) \in Nat
    BY <1>2, LenProperties
  <2>2. t \in [1..Len(t) -> R]
    BY <1>5, <2>1
  <2> QED
    BY <2>1, <2>2
<1> QED
  BY <1>4, <1>6, <1>7 DEF Lists, t, R

(* Two lists joined list what is in either.                                *)
LEMMA JoinedLists ==
  ASSUME NEW S, NEW s, Lists(s, S), NEW T, NEW t, Lists(t, T), S \cap T = {}
  PROVE  LET u == s \o t IN Lists(u, S \cup T) /\ Len(u) = Len(s) + Len(t)
<1> DEFINE u == s \o t
           U == S \cup T
<1>1. /\ s \in [1..Len(s) -> S] /\ Len(s) \in Nat /\ t \in [1..Len(t) -> T] /\ Len(t) \in Nat
  BY LenProperties DEF Lists
<1>2. s \in Seq(U) /\ t \in Seq(U)
  <2>1. s \in [1..Len(s) -> U] /\ t \in [1..Len(t) -> U]
    BY <1>1
  <2> HIDE DEF U
  <2> QED
    BY <1>1, <2>1
<1> HIDE DEF U
<1>3. /\ u \in Seq(U) /\ Len(u) = Len(s) + Len(t)
      /\ \A k \in 1..(Len(s) + Len(t)) : u[k] = IF k <= Len(s) THEN s[k] ELSE t[k - Len(s)]
  BY <1>2, ConcatProperties
<1> HIDE DEF u
<1>4. \A k \in 1..Len(u) : \/ k \in 1..Len(s) /\ u[k] = s[k] /\ u[k] \in S
                           \/ k - Len(s) \in 1..Len(t) /\ u[k] = t[k - Len(s)] /\ u[k] \in T
  BY <1>1, <1>3
<1>5. ASSUME NEW k \in 1..Len(u), NEW m \in 1..Len(u), u[k] = u[m] PROVE k = m
  <2>1. CASE k \in 1..Len(s) /\ m \in 1..Len(s) /\ s[k] = s[m]
    BY <2>1 DEF Lists
  <2>2. CASE k - Len(s) \in 1..Len(t) /\ m - Len(s) \in 1..Len(t) /\ t[k - Len(s)] = t[m - Len(s)]
    <3>1. k - Len(s) = m - Len(s)
      BY <2>2 DEF Lists
    <3> QED
      BY <1>1, <1>3, <3>1
  <2> QED
    BY <1>4, <1>5, <2>1, <2>2
<1>6. ASSUME NEW x \in U PROVE \E k \in 1..Len(u) : u[k] = x
  <2>1. CASE x \in S
    <3>1. PICK i \in 1..Len(s) : s[i] = x
      BY <2>1 DEF Lists
    <3> QED
      BY <1>1, <1>3, <3>1
  <2>2. CASE x \in T
    <3>1. PICK i \in 1..Len(t) : t[i] = x
      BY <2>2 DEF Lists
    <3>2. i + Len(s) \in 1..Len(u) /\ ~(i + Len(s) <= Len(s)) /\ (i + Len(s)) - Len(s) = i
      BY <1>1, <1>3
    <3> QED
      BY <1>3, <3>1, <3>2
  <2> QED
    BY <2>1, <2>2 DEF U
<1> QED
  BY <1>3, <1>5, <1>6 DEF Lists, u, U

(* A list that is rotated lists the same.                                  *)
LEMMA RotatedLists ==
  ASSUME NEW S, NEW s, Lists(s, S), NEW turn \in Nat, turn < Len(s) \/ turn = 0
  PROVE  Lists(RotatedLeft(s, turn), S) /\ Len(RotatedLeft(s, turn)) = Len(s)
<1> DEFINE at(i) == IF i + turn <= Len(s) THEN i + turn ELSE i + turn - Len(s)
           r == RotatedLeft(s, turn)
<1>1. s \in [1..Len(s) -> S] /\ Len(s) \in Nat
  BY LenProperties DEF Lists
<1>2. r = [i \in 1..Len(s) |-> s[at(i)]]
  BY <1>1 DEF RotatedLeft
<1>3. \A i \in 1..Len(s) : at(i) \in 1..Len(s)
  BY <1>1
<1>4. \A i, j \in 1..Len(s) : at(i) = at(j) => i = j
  BY <1>1
<1>5. \A j \in 1..Len(s) : \E i \in 1..Len(s) : at(i) = j
  <2> SUFFICES ASSUME NEW j \in 1..Len(s) PROVE \E i \in 1..Len(s) : at(i) = j
    OBVIOUS
  <2>1. CASE j > turn
    <3>1. j - turn \in 1..Len(s) /\ at(j - turn) = j
      BY <1>1, <2>1
    <3> QED
      BY <3>1
  <2>2. CASE j <= turn
    <3>1. j - turn + Len(s) \in 1..Len(s) /\ at(j - turn + Len(s)) = j
      BY <1>1, <2>2
    <3> QED
      BY <3>1
  <2> QED
    BY <1>1, <2>1, <2>2
<1> HIDE DEF at, r
<1>6. r \in [1..Len(s) -> S]
  BY <1>1, <1>2, <1>3
<1>7. r \in Seq(S) /\ Len(r) = Len(s)
  BY <1>1, <1>6
<1>8. \A i, j \in 1..Len(s) : r[i] = r[j] => i = j
  BY <1>2, <1>3, <1>4 DEF Lists
<1>9. ASSUME NEW x \in S PROVE \E i \in 1..Len(s) : r[i] = x
  <2>1. PICK j \in 1..Len(s) : s[j] = x
    BY DEF Lists
  <2>2. PICK i \in 1..Len(s) : at(i) = j
    BY <1>5
  <2> QED
    BY <1>2, <2>1, <2>2
<1> QED
  BY <1>7, <1>8, <1>9 DEF Lists, r

-----------------------------------------------------------------------------
(* The order of the candidates of a search.                                *)

(* A slot goes to a lane that has a server left, while there is one.       *)
LEMMA LaneLeft ==
  ASSUME NEW lanes, \A k \in 1..3 : Len(lanes[k]) \in Nat,
         NEW taken \in [1..3 -> Nat], NEW slot,
         \E k \in 1..3 : taken[k] < Len(lanes[k])
  PROVE  LET lane == LaneOfSlot(lanes, taken, slot)
         IN  lane \in 1..3 /\ taken[lane] < Len(lanes[lane])
<1> DEFINE preferred == Preference(slot)
           open == {r \in 1..3 : taken[preferred[r]] < Len(lanes[preferred[r]])}
<1>1. /\ \A r \in 1..3 : preferred[r] \in 1..3
      /\ \A k \in 1..3 : \E r \in 1..3 : preferred[r] = k
  <2>1. preferred = <<2, 1, 3>> \/ preferred = <<1, 2, 3>>
    BY DEF Preference
  <2> HIDE DEF preferred
  <2>2. CASE preferred = <<2, 1, 3>>
    <3>1. preferred[1] = 2 /\ preferred[2] = 1 /\ preferred[3] = 3
      BY <2>2
    <3>2. \A k \in 1..3 : k = 1 \/ k = 2 \/ k = 3
      OBVIOUS
    <3> QED
      BY <3>1, <3>2
  <2>3. CASE preferred = <<1, 2, 3>>
    <3>1. preferred[1] = 1 /\ preferred[2] = 2 /\ preferred[3] = 3
      BY <2>3
    <3>2. \A k \in 1..3 : k = 1 \/ k = 2 \/ k = 3
      OBVIOUS
    <3> QED
      BY <3>1, <3>2
  <2> QED
    BY <2>1, <2>2, <2>3
<1> HIDE DEF preferred
<1>2. PICK r \in 1..3 : taken[preferred[r]] < Len(lanes[preferred[r]])
  BY <1>1
<1>3. \E q \in open : \A p \in open : q <= p
  <2>1. \A p \in open : p \in 1..3
    OBVIOUS
  <2>2. open # {}
    BY <1>2
  <2>3. \A p \in open : p = 1 \/ p = 2 \/ p = 3
    BY <2>1
  <2> HIDE DEF open
  <2>4. CASE 1 \in open
    BY <2>3, <2>4
  <2>5. CASE 1 \notin open /\ 2 \in open
    BY <2>3, <2>5
  <2>6. CASE 1 \notin open /\ 2 \notin open
    BY <2>2, <2>3, <2>6
  <2> QED
    BY <2>4, <2>5, <2>6
<1>4. LaneOfSlot(lanes, taken, slot) = preferred[CHOOSE q \in open : \A p \in open : q <= p]
  BY DEF LaneOfSlot, preferred
<1>5. PICK q \in open : LaneOfSlot(lanes, taken, slot) = preferred[q]
  BY <1>3, <1>4
<1> QED
  BY <1>1, <1>5

(* Taking from the lanes until none is left lists what they list.          *)
LEMMA MergedLists ==
  ASSUME NEW lanes, NEW S, \A k \in 1..3 : Lists(lanes[k], S[k]),
         \A j, k \in 1..3 : j # k => S[j] \cap S[k] = {}
  PROVE  Lists(Merged(lanes), S[1] \cup S[2] \cup S[3])
<1> DEFINE lengths == [k \in 1..3 |-> Len(lanes[k])]
           Sum3(t) == t[1] + t[2] + t[3]
           slots == Len(lanes[1]) + Len(lanes[2]) + Len(lanes[3])
           lane(t, n) == LaneOfSlot(lanes, t, n)
           step(t, n) == [t EXCEPT ![lane(t, n)] = @ + 1]
           zero == <<0, 0, 0>>
           Fits(t) == t \in [1..3 -> Nat] /\ \A k \in 1..3 : t[k] <= lengths[k]
           Takes(g, m) == g = [n \in 0..m |-> IF n = 0 THEN zero ELSE step(g[n - 1], n - 1)]
           From(t, n) == lanes[lane(t, n)][t[lane(t, n)] + 1]
<1>1. \A k \in 1..3 : /\ Len(lanes[k]) = lengths[k] /\ lengths[k] \in Nat
                      /\ lanes[k] \in [1..lengths[k] -> S[k]]
  BY LenProperties DEF Lists
<1>2. slots = Sum3(lengths)
  <2>1. lengths[1] = Len(lanes[1]) /\ lengths[2] = Len(lanes[2]) /\ lengths[3] = Len(lanes[3])
    OBVIOUS
  <2> HIDE DEF lengths
  <2> QED
    BY <2>1, Zenon
<1>3. lengths \in [1..3 -> Nat]
  BY <1>1
<1> HIDE DEF lengths
<1>4. slots \in Nat
  <2>1. lengths[1] \in Nat /\ lengths[2] \in Nat /\ lengths[3] \in Nat
    BY <1>3
  <2>2. Sum3(lengths) \in Nat
    BY <2>1
  <2> HIDE DEF slots, Sum3
  <2> QED
    BY <1>2, <2>2
<1>5. ASSUME NEW t, Fits(t), NEW n \in Nat, Sum3(t) = n, n < slots
      PROVE  /\ lane(t, n) \in 1..3 /\ t[lane(t, n)] < lengths[lane(t, n)]
             /\ Fits(step(t, n)) /\ Sum3(step(t, n)) = n + 1
  <2>1. \E k \in 1..3 : t[k] < lengths[k]
    <3> SUFFICES ASSUME \A k \in 1..3 : ~(t[k] < lengths[k]) PROVE FALSE
      OBVIOUS
    <3>1. /\ lengths[1] \in Nat /\ lengths[2] \in Nat /\ lengths[3] \in Nat
          /\ t[1] \in Nat /\ t[2] \in Nat /\ t[3] \in Nat
      BY <1>3, <1>5
    <3>2. ~(t[1] < lengths[1]) /\ ~(t[2] < lengths[2]) /\ ~(t[3] < lengths[3])
      OBVIOUS
    <3>3. t[1] + t[2] + t[3] < lengths[1] + lengths[2] + lengths[3]
      <4> HIDE DEF slots
      <4>1. Sum3(t) < Sum3(lengths)
        BY <1>2, <1>5
      <4> QED
        BY <4>1
    <3> QED
      BY <3>1, <3>2, <3>3
  <2>2. lane(t, n) \in 1..3 /\ t[lane(t, n)] < lengths[lane(t, n)]
    <3>1. /\ \A k \in 1..3 : Len(lanes[k]) \in Nat
          /\ \E k \in 1..3 : t[k] < Len(lanes[k])
          /\ t \in [1..3 -> Nat]
      BY <1>1, <1>5, <2>1
    <3>2. LET l == LaneOfSlot(lanes, t, n) IN l \in 1..3 /\ t[l] < Len(lanes[l])
      BY <3>1, LaneLeft
    <3> QED
      BY <1>1, <3>2
  <2> DEFINE l == lane(t, n)
             u == step(t, n)
  <2>3. u = [t EXCEPT ![l] = @ + 1] /\ l \in 1..3 /\ t[l] < lengths[l]
    BY <2>2
  <2> HIDE DEF l, u
  <2>4. /\ u \in [1..3 -> Nat] /\ u[l] = t[l] + 1 /\ \A k \in 1..3 : k # l => u[k] = t[k]
    BY <1>5, <2>3
  <2>5. \A k \in 1..3 : u[k] <= lengths[k]
    BY <1>3, <1>5, <2>3, <2>4
  <2>6. Sum3(u) = n + 1
    <3>1. l = 1 \/ l = 2 \/ l = 3
      BY <2>3
    <3>2. t[1] \in Nat /\ t[2] \in Nat /\ t[3] \in Nat /\ t[1] + t[2] + t[3] = n
      BY <1>5
    <3>3. CASE l = 1
      <4>1. u[1] = t[1] + 1 /\ u[2] = t[2] /\ u[3] = t[3]
        BY <2>4, <3>3
      <4> QED
        BY <3>2, <4>1
    <3>4. CASE l = 2
      <4>1. u[1] = t[1] /\ u[2] = t[2] + 1 /\ u[3] = t[3]
        BY <2>4, <3>4
      <4> QED
        BY <3>2, <4>1
    <3>5. CASE l = 3
      <4>1. u[1] = t[1] /\ u[2] = t[2] /\ u[3] = t[3] + 1
        BY <2>4, <3>5
      <4> QED
        BY <3>2, <4>1
    <3> QED
      BY <3>1, <3>3, <3>4, <3>5
  <2> QED
    BY <2>2, <2>4, <2>5, <2>6 DEF l, u
<1> HIDE DEF lane, slots
<1>6. \A m \in Nat : \E g : Takes(g, m)
  <2> DEFINE T == {m \in Nat : \E g : Takes(g, m)}
  <2> HIDE DEF step, zero
  <2>1. 0 \in T
    <3> DEFINE g == [n \in 0..0 |-> zero]
    <3>1. g = [n \in 0..0 |-> IF n = 0 THEN zero ELSE step(g[n - 1], n - 1)]
      OBVIOUS
    <3> HIDE DEF g
    <3> QED
      BY <3>1
  <2>2. ASSUME NEW m \in Nat, m \in T PROVE m + 1 \in T
    <3>1. PICK g : Takes(g, m)
      BY <2>2
    <3> DEFINE h == [n \in 0..(m + 1) |-> IF n = 0 THEN zero ELSE step(g[n - 1], n - 1)]
    <3>2. \A n \in 0..m : h[n] = g[n]
      BY <3>1
    <3>3. h = [n \in 0..(m + 1) |-> IF n = 0 THEN zero ELSE step(h[n - 1], n - 1)]
      <4>1. \A n \in 0..(m + 1) : n # 0 => n - 1 \in 0..m
        OBVIOUS
      <4>2. \A n \in 0..(m + 1) : n # 0 => g[n - 1] = h[n - 1]
        BY <3>2, <4>1
      <4> QED
        BY <4>2
    <3>4. \E f : Takes(f, m + 1)
      <4> HIDE DEF h
      <4> QED
        BY <3>3
    <3> QED
      BY <3>4
  <2> HIDE DEF T
  <2>3. Nat \subseteq T
    BY <2>1, <2>2, Counting
  <2> QED
    BY <2>3 DEF T
<1> DEFINE taken[n \in 0..slots] == IF n = 0 THEN zero ELSE step(taken[n - 1], n - 1)
           out == [n \in 1..slots |-> From(taken[n - 1], n - 1)]
<1>7. Takes(taken, slots)
  <2>1. \E g : Takes(g, slots)
    BY <1>4, <1>6
  <2> QED
    BY <2>1
<1>8. Merged(lanes) = out
  BY DEF Merged, lane, slots
<1> HIDE DEF taken, step, From, Fits, Sum3, Takes
<1>9. /\ taken[0] = zero
      /\ \A n \in Nat : n < slots => taken[n + 1] = step(taken[n], n) /\ out[n + 1] = From(taken[n], n)
  <2>1. /\ \A n \in Nat : n < slots => n + 1 \in 0..slots /\ n + 1 # 0 /\ n + 1 - 1 = n /\ n + 1 \in 1..slots
        /\ 0 \in 0..slots
    BY <1>4
  <2>2. taken = [n \in 0..slots |-> IF n = 0 THEN zero ELSE step(taken[n - 1], n - 1)]
    BY <1>7 DEF Takes
  <2>3. taken[0] = zero
    BY <2>1, <2>2
  <2>4. ASSUME NEW n \in Nat, n < slots
        PROVE  taken[n + 1] = step(taken[n], n) /\ out[n + 1] = From(taken[n], n)
    <3>1. taken[n + 1] = step(taken[(n + 1) - 1], (n + 1) - 1)
      BY <2>1, <2>2, <2>4
    <3>2. out[n + 1] = From(taken[(n + 1) - 1], (n + 1) - 1)
      BY <2>1, <2>4
    <3>3. (n + 1) - 1 = n
      OBVIOUS
    <3> QED
      BY <3>1, <3>2, <3>3
  <2> QED
    BY <2>3, <2>4
<1>10. \A j, k \in 1..3 : \A i \in 1..lengths[j], x \in 1..lengths[k] :
         lanes[j][i] = lanes[k][x] => j = k /\ i = x
  <2> SUFFICES ASSUME NEW j \in 1..3, NEW k \in 1..3, NEW i \in 1..lengths[j], NEW x \in 1..lengths[k],
                      lanes[j][i] = lanes[k][x]
               PROVE  j = k /\ i = x
    OBVIOUS
  <2>1. lanes[j][i] \in S[j] /\ lanes[k][x] \in S[k]
    BY <1>1
  <2>2. j = k
    BY <2>1
  <2>3. Lists(lanes[j], S[j]) /\ Len(lanes[j]) = lengths[j]
    BY <1>1
  <2> QED
    BY <2>2, <2>3 DEF Lists
<1> HIDE DEF out
<1> DEFINE Within(m) == Fits(taken[m]) /\ Sum3(taken[m]) = m
           From2(m, x) == \E k \in 1..3 : \E i \in 1..taken[m][k] : x = lanes[k][i]
           Out(m, x) == \E n \in 1..m : x = out[n]
           Once(m) == \A n, p \in 1..m : out[n] = out[p] => n = p
           W == {m \in Nat : m <= slots => /\ Within(m) /\ Once(m)
                                           /\ \A x : Out(m, x) <=> From2(m, x)}
<1>11. 0 \in W
  <2>1. zero \in [1..3 -> Nat] /\ zero[1] = 0 /\ zero[2] = 0 /\ zero[3] = 0
    <3>1. DOMAIN zero = 1..3 /\ zero[1] = 0 /\ zero[2] = 0 /\ zero[3] = 0
      OBVIOUS
    <3>2. zero = <<0, 0, 0>> /\ zero \in Seq(Nat) /\ Len(zero) = 3
      OBVIOUS
    <3> HIDE DEF zero
    <3> QED
      BY <3>1, <3>2
  <2> HIDE DEF zero
  <2>2. \A k \in 1..3 : zero[k] = 0
    <3>1. \A k \in 1..3 : k = 1 \/ k = 2 \/ k = 3
      OBVIOUS
    <3> QED
      BY <2>1, <3>1
  <2>3. Within(0)
    <3>1. \A k \in 1..3 : zero[k] <= lengths[k]
      BY <1>3, <2>2
    <3>2. Sum3(zero) = 0
      BY <2>1 DEF Sum3
    <3> QED
      BY <1>9, <2>1, <3>1, <3>2 DEF Fits
  <2>4. Once(0) /\ \A x : Out(0, x) <=> From2(0, x)
    BY <1>9, <2>2
  <2> HIDE DEF Within, Once, Out, From2
  <2> QED
    BY <2>3, <2>4
<1>12. ASSUME NEW m \in Nat, m \in W PROVE m + 1 \in W
  <2> SUFFICES ASSUME m + 1 <= slots
               PROVE  Within(m + 1) /\ Once(m + 1) /\ \A x : Out(m + 1, x) <=> From2(m + 1, x)
    OBVIOUS
  <2>1. Within(m) /\ Once(m) /\ (\A x : Out(m, x) <=> From2(m, x)) /\ m < slots
    <3>1. m <= slots /\ m < slots
      BY <1>4
    <3> HIDE DEF Within, Once, Out, From2
    <3> QED
      BY <1>12, <3>1
  <2> DEFINE t == taken[m]
             u == taken[m + 1]
             l == lane(t, m)
             x0 == out[m + 1]
  <2>2. /\ Fits(t) /\ Sum3(t) = m /\ u = step(t, m) /\ x0 = From(t, m)
    BY <1>9, <2>1
  <2>3. l \in 1..3 /\ t[l] < lengths[l] /\ Fits(u) /\ Sum3(u) = m + 1
    BY <1>5, <2>1, <2>2
  <2>4. t \in [1..3 -> Nat] /\ \A k \in 1..3 : t[k] <= lengths[k]
    BY <2>2 DEF Fits
  <2>5. u[l] = t[l] + 1 /\ (\A k \in 1..3 : k # l => u[k] = t[k]) /\ x0 = lanes[l][t[l] + 1]
    BY <2>2, <2>3, <2>4 DEF step, From
  <2> HIDE DEF l
  <2>6. Within(m + 1)
    BY <2>3
  <2>7. ~From2(m, x0)
    <3> SUFFICES ASSUME NEW k \in 1..3, NEW i \in 1..t[k], x0 = lanes[k][i] PROVE FALSE
      OBVIOUS
    <3> HIDE DEF t, x0
    <3>1. i \in 1..lengths[k] /\ t[l] + 1 \in 1..lengths[l]
      BY <1>3, <2>3, <2>4
    <3>2. lanes[k][i] = lanes[l][t[l] + 1] /\ l \in 1..3
      BY <2>3, <2>5
    <3>3. \A a \in 1..lengths[k], b \in 1..lengths[l] :
            lanes[k][a] = lanes[l][b] => k = l /\ a = b
      BY <1>10, <3>2
    <3> DEFINE top == t[l] + 1
    <3>4. lanes[k][i] = lanes[l][top] /\ top \in 1..lengths[l]
      BY <3>1, <3>2
    <3> HIDE DEF top
    <3>5. k = l /\ i = top
      BY <3>1, <3>3, <3>4
    <3> QED
      BY <2>3, <2>4, <3>5 DEF top
  <2>8. \A x : From2(m + 1, x) <=> From2(m, x) \/ x = x0
    <3> HIDE DEF t, u, x0
    <3>1. ASSUME NEW k \in 1..3, NEW i \in 1..u[k]
          PROVE  i \in 1..t[k] \/ (k = l /\ i = t[l] + 1)
      BY <2>3, <2>4, <2>5
    <3>2. ASSUME NEW k \in 1..3, NEW i \in 1..t[k] PROVE i \in 1..u[k]
      BY <2>3, <2>4, <2>5
    <3>3. t[l] + 1 \in 1..u[l]
      BY <2>3, <2>4, <2>5
    <3> QED
      BY <2>3, <2>5, <3>1, <3>2, <3>3 DEF t, u
  <2>9. \A x : Out(m + 1, x) <=> Out(m, x) \/ x = x0
    <3>1. \A n \in 1..(m + 1) : n \in 1..m \/ n = m + 1
      OBVIOUS
    <3>2. m + 1 \in 1..(m + 1) /\ \A n \in 1..m : n \in 1..(m + 1)
      OBVIOUS
    <3> QED
      BY <3>1, <3>2
  <2>10. Once(m + 1)
    <3>1. ~Out(m, x0)
      BY <2>1, <2>7
    <3>2. \A n \in 1..(m + 1) : n \in 1..m \/ n = m + 1
      OBVIOUS
    <3> QED
      BY <2>1, <3>1, <3>2
  <2> HIDE DEF Within, Once, Out, From2
  <2> QED
    BY <2>1, <2>6, <2>8, <2>9, <2>10
<1> HIDE DEF W
<1>13. slots \in W
  BY <1>4, <1>11, <1>12, Counting
<1>14. Within(slots) /\ Once(slots) /\ \A x : Out(slots, x) <=> From2(slots, x)
  BY <1>4, <1>13 DEF W
<1>15. \A k \in 1..3 : taken[slots][k] = lengths[k]
  <2> DEFINE t == taken[slots]
  <2>1. /\ t \in [1..3 -> Nat] /\ (\A k \in 1..3 : t[k] <= lengths[k])
        /\ Sum3(t) = Sum3(lengths)
    BY <1>2, <1>14 DEF Fits
  <2> HIDE DEF t
  <2>2. t[1] + t[2] + t[3] = lengths[1] + lengths[2] + lengths[3]
    BY <2>1 DEF Sum3
  <2>3. /\ t[1] \in Nat /\ t[2] \in Nat /\ t[3] \in Nat
        /\ lengths[1] \in Nat /\ lengths[2] \in Nat /\ lengths[3] \in Nat
        /\ t[1] <= lengths[1] /\ t[2] <= lengths[2] /\ t[3] <= lengths[3]
    BY <1>3, <2>1
  <2>4. t[1] = lengths[1] /\ t[2] = lengths[2] /\ t[3] = lengths[3]
    <3> DEFINE a == t[1]  b == t[2]  c == t[3]
               d == lengths[1]  e == lengths[2]  f == lengths[3]
    <3>1. /\ a \in Nat /\ b \in Nat /\ c \in Nat /\ d \in Nat /\ e \in Nat /\ f \in Nat
          /\ a <= d /\ b <= e /\ c <= f /\ a + b + c = d + e + f
      BY <2>2, <2>3
    <3> HIDE DEF a, b, c, d, e, f
    <3>2. a = d /\ b = e /\ c = f
      BY <3>1
    <3> QED
      BY <3>2 DEF a, b, c, d, e, f
  <2>5. \A k \in 1..3 : k = 1 \/ k = 2 \/ k = 3
    OBVIOUS
  <2> QED
    BY <2>4, <2>5 DEF t
<1> DEFINE U == S[1] \cup S[2] \cup S[3]
<1>16. \A x : Out(slots, x) <=> x \in U
  <2>1. \A x : x \in U <=> \E k \in 1..3 : x \in S[k]
    <3>1. \A k \in 1..3 : k = 1 \/ k = 2 \/ k = 3
      OBVIOUS
    <3>2. 1 \in 1..3 /\ 2 \in 1..3 /\ 3 \in 1..3
      OBVIOUS
    <3> QED
      BY <3>1, <3>2
  <2> HIDE DEF U
  <2>2. \A k \in 1..3 : \A x : x \in S[k] <=> \E i \in 1..lengths[k] : x = lanes[k][i]
    <3> SUFFICES ASSUME NEW k \in 1..3, NEW x
                 PROVE  x \in S[k] <=> \E i \in 1..lengths[k] : x = lanes[k][i]
      OBVIOUS
    <3>1. Lists(lanes[k], S[k]) /\ Len(lanes[k]) = lengths[k]
      BY <1>1
    <3>2. \A i \in 1..lengths[k] : lanes[k][i] \in S[k]
      BY <1>1
    <3>3. x \in S[k] => \E i \in 1..lengths[k] : x = lanes[k][i]
      BY <3>1 DEF Lists
    <3> QED
      BY <3>2, <3>3
  <2>3. \A x : From2(slots, x) <=> \E k \in 1..3 : x \in S[k]
    BY <1>15, <2>2
  <2> QED
    BY <1>14, <2>1, <2>3
<1> HIDE DEF U
<1>17. DOMAIN out = 1..slots
  BY DEF out
<1>18. out \in [1..slots -> U]
  <2>1. \A n \in 1..slots : out[n] \in U
    BY <1>16
  <2>2. out = [n \in 1..slots |-> out[n]]
    BY DEF out
  <2> QED
    BY <2>1, <2>2
<1>19. out \in Seq(U) /\ Len(out) = slots
  BY <1>4, <1>18
<1>20. Lists(out, U)
  <2>1. \A x \in U : \E n \in 1..slots : out[n] = x
    BY <1>16
  <2> QED
    BY <1>14, <1>19, <2>1 DEF Lists
<1> QED
  BY <1>8, <1>20 DEF U

(* A part of the profile list lists its profiles.                          *)
LEMMA ListedProfiles ==
  ASSUME NEW I \in SUBSET (DOMAIN ProfileList)
  PROVE  /\ Lists(Kept(ProfileList, I), {ProfileList[i] : i \in I})
         /\ {ProfileList[i] : i \in I} \subseteq Profiles
<1>1. ProfileList \in Seq(Profiles) /\ IsInjective(ProfileList) /\ Profiles = ToSet(ProfileList)
  BY BenchAssumption DEF Profiles
<1>2. DOMAIN ProfileList = 1..Len(ProfileList) /\ ProfileList \in [1..Len(ProfileList) -> Profiles]
  BY <1>1, LenProperties
<1>3. \A i, j \in 1..Len(ProfileList) : ProfileList[i] = ProfileList[j] => i = j
  BY <1>1, <1>2 DEF IsInjective
<1>4. Lists(ProfileList, Profiles)
  BY <1>1, <1>2, <1>3 DEF Lists, ToSet
<1>5. Lists(Kept(ProfileList, I), {ProfileList[i] : i \in I})
  BY <1>2, <1>4, KeptLists
<1> QED
  BY <1>2, <1>5

(* The list has as many profiles as there are; a list of some is shorter.  *)
LEMMA ProfileCount ==
  /\ IsFiniteSet(Profiles) /\ Cardinality(Profiles) = Len(ProfileList) /\ Len(ProfileList) \in Nat
  /\ \A P, s : P \subseteq Profiles /\ Lists(s, P) => Len(s) <= Len(ProfileList)
<1>1. ProfileList \in Seq(Profiles) /\ IsInjective(ProfileList) /\ Profiles = ToSet(ProfileList)
  BY BenchAssumption DEF Profiles
<1>2. DOMAIN ProfileList = 1..Len(ProfileList) /\ ProfileList \in [1..Len(ProfileList) -> Profiles]
  BY <1>1, LenProperties
<1>3. \A i, j \in 1..Len(ProfileList) : ProfileList[i] = ProfileList[j] => i = j
  BY <1>1, <1>2 DEF IsInjective
<1>4. Lists(ProfileList, Profiles)
  BY <1>1, <1>2, <1>3 DEF Lists, ToSet
<1>5. /\ IsFiniteSet(Profiles) /\ Cardinality(Profiles) = Len(ProfileList)
      /\ Len(ProfileList) \in Nat
  BY <1>4, ListCount
<1>6. ASSUME NEW P, NEW s, P \subseteq Profiles, Lists(s, P)
      PROVE  Len(s) <= Len(ProfileList)
  <2>1. Cardinality(P) = Len(s)
    BY <1>6, ListCount
  <2>2. Cardinality(P) <= Cardinality(Profiles)
    BY <1>5, <1>6, FS_Subset
  <2> QED
    BY <1>5, <2>1, <2>2
<1> QED
  BY <1>5, <1>6

(* A full job tests the profiles of the servers that are not dead.         *)
LEMMA SelectedLists == Lists(Selected, {p \in Profiles : ServerOf[p] \notin dead})
<1> DEFINE I == {i \in DOMAIN ProfileList : ServerOf[ProfileList[i]] \notin dead}
           P == {ProfileList[i] : i \in I}
<1>1. Lists(Kept(ProfileList, I), P) /\ P \subseteq Profiles
  BY ListedProfiles
<1>2. P = {p \in Profiles : ServerOf[p] \notin dead}
  BY <1>1 DEF Profiles, ToSet
<1>3. Selected = Kept(ProfileList, I)
  BY DEF Selected
<1> HIDE DEF P
<1> QED
  BY <1>1, <1>2, <1>3

(* Each server that is not dead has one candidate.                         *)
OnePerServer(P) ==
  /\ P \subseteq Profiles
  /\ \A p \in P : ServerOf[p] \notin dead
  /\ \A p, q \in P : ServerOf[p] = ServerOf[q] => p = q
  /\ \A s \in BenchServers \ dead : \E p \in P : ServerOf[p] = s

(* The candidates of a search: the first profile of each living server.    *)
LEMMA CandidatesLists == \E P : Lists(Candidates, P) /\ OnePerServer(P)
<1> DEFINE n == Len(ProfileList)
           at(i) == ServerOf[ProfileList[i]]
           First(i) == at(i) \notin dead /\ \A j \in 1..(i - 1) : at(j) # at(i)
           I == {i \in DOMAIN ProfileList : First(i)}
           P == {ProfileList[i] : i \in I}
<1>1. Lists(Kept(ProfileList, I), P) /\ P \subseteq Profiles
  BY ListedProfiles
<1>2. Candidates = Kept(ProfileList, I)
  BY DEF Candidates
<1>3. DOMAIN ProfileList = 1..n /\ n \in Nat /\ Profiles = {ProfileList[i] : i \in 1..n}
  <2>1. ProfileList \in Seq(Profiles)
    BY BenchAssumption
  <2>2. DOMAIN ProfileList = 1..n /\ n \in Nat
    BY <2>1, LenProperties
  <2> QED
    BY <2>2 DEF Profiles, ToSet
<1> HIDE DEF n
<1>4. ASSUME NEW i \in I, NEW j \in I, at(i) = at(j) PROVE i = j
  <2>1. i \in 1..n /\ j \in 1..n /\ First(i) /\ First(j)
    BY <1>3
  <2>2. ~(i < j) /\ ~(j < i)
    BY <1>3, <1>4, <2>1
  <2> QED
    BY <1>3, <2>1, <2>2
<1>5. ASSUME NEW s \in BenchServers \ dead PROVE \E i \in I : at(i) = s
  <2> DEFINE T == {i \in 1..n : at(i) = s}
  <2>1. T # {} /\ T \subseteq Nat
    <3>1. \E p \in Profiles : ServerOf[p] = s
      BY DEF BenchServers
    <3>2. \E i \in 1..n : at(i) = s
      BY <1>3, <3>1
    <3> QED
      BY <3>2
  <2>2. PICK m \in T : \A i \in T : m <= i
    <3> HIDE DEF T
    <3> QED
      BY <2>1, LeastNumber
  <2>3. m \in 1..n /\ at(m) = s
    OBVIOUS
  <2>4. \A j \in 1..(m - 1) : at(j) # s
    <3> SUFFICES ASSUME NEW j \in 1..(m - 1), at(j) = s PROVE FALSE
      OBVIOUS
    <3>1. j \in 1..n /\ ~(m <= j)
      BY <1>3, <2>3
    <3> QED
      BY <2>2, <3>1
  <2>5. m \in I
    BY <1>3, <2>3, <2>4
  <2> QED
    BY <2>3, <2>5
<1>6. OnePerServer(P)
  <2>1. \A p \in P : ServerOf[p] \notin dead
    OBVIOUS
  <2>2. \A p, q \in P : ServerOf[p] = ServerOf[q] => p = q
    <3> SUFFICES ASSUME NEW i \in I, NEW j \in I, at(i) = at(j) PROVE ProfileList[i] = ProfileList[j]
      OBVIOUS
    <3> QED
      BY <1>4
  <2>3. \A s \in BenchServers \ dead : \E p \in P : ServerOf[p] = s
    BY <1>5
  <2> HIDE DEF P
  <2> QED
    BY <1>1, <2>1, <2>2, <2>3 DEF OnePerServer
<1> HIDE DEF P, I
<1> QED
  BY <1>1, <1>2, <1>6

(* What is known of a server decides its lane.                             *)
LEMMA LaneOf ==
  ASSUME NEW request \in Requests, NEW s
  PROVE  /\ Lane(request, s) \in 1..3
         /\ Lane(request, s) = 1 => Tier(s) \in 1..3
<1>1. request.required \in 1..3
  BY BenchAssumption DEF RequestSet
<1>2. Tier(s) \in 0..3
  BY DEF Tier
<1> QED
  BY <1>1, <1>2 DEF Lane

(* A search asks every candidate once, in an order of its own.             *)
LEMMA OrderedLists ==
  ASSUME NEW request \in Requests, searchCursor \in Nat, NEW P, Lists(Candidates, P)
  PROVE  Lists(OrderedCandidates(request), P)
<1> DEFINE n == Len(Candidates)
           lane(i) == Lane(request, ServerOf[Candidates[i]])
           tier(i) == Tier(ServerOf[Candidates[i]])
           InLane(k) == {i \in 1..n : lane(i) = k}
           Of(I) == {Candidates[i] : i \in I}
           At(t) == {i \in InLane(1) : tier(i) = t}
           Proven(t) == Kept(Candidates, At(t))
           unknown == Kept(Candidates, InLane(2))
           turn == IF unknown = <<>> THEN 0 ELSE (searchCursor \div 4) % Len(unknown)
           S == <<Of(InLane(1)), Of(InLane(2)), Of(InLane(3))>>
<1>1. n \in Nat /\ Candidates \in Seq(P) /\ DOMAIN Candidates = 1..n
  BY LenProperties DEF Lists
<1>2. \A i, j \in 1..n : Candidates[i] = Candidates[j] => i = j
  BY DEF Lists
<1>3. \A i \in 1..n : lane(i) \in 1..3 /\ (lane(i) = 1 => tier(i) \in 1..3)
  BY LaneOf
<1>4. \A I \in SUBSET (1..n) : Lists(Kept(Candidates, I), Of(I))
  BY KeptLists
<1>5. \A I, J \in SUBSET (1..n) : I \cap J = {} => Of(I) \cap Of(J) = {}
  BY <1>2
<1>6. Lists(Kept(Candidates, InLane(3)), S[3])
  BY <1>4
<1>7. Lists(RotatedLeft(unknown, turn), S[2])
  <2>1. Lists(unknown, Of(InLane(2)))
    BY <1>4
  <2>2. turn \in Nat /\ (turn < Len(unknown) \/ turn = 0)
    <3>1. Len(unknown) \in Nat /\ (unknown # <<>> => Len(unknown) > 0)
      BY <2>1, LenProperties, EmptySeq DEF Lists
    <3> HIDE DEF unknown
    <3>2. searchCursor \div 4 \in Nat
      OBVIOUS
    <3> QED
      BY <3>1, <3>2
  <2> HIDE DEF turn, unknown, Of, InLane
  <2>3. Lists(RotatedLeft(unknown, turn), Of(InLane(2)))
    BY <2>1, <2>2, RotatedLists
  <2> QED
    BY <2>3
<1>8. Lists(Proven(3) \o Proven(2) \o Proven(1), S[1])
  <2> DEFINE s3 == Proven(3)  s2 == Proven(2)  s1 == Proven(1)
             O3 == Of(At(3))  O2 == Of(At(2))  O1 == Of(At(1))
  <2>1. Lists(s3, O3) /\ Lists(s2, O2) /\ Lists(s1, O1)
    BY <1>4
  <2>2. O3 \cap O2 = {} /\ (O3 \cup O2) \cap O1 = {}
    BY <1>2
  <2>3. O3 \cup O2 \cup O1 = Of(InLane(1))
    <3>1. InLane(1) = At(3) \cup At(2) \cup At(1)
      BY <1>3
    <3> QED
      BY <3>1
  <2> HIDE DEF s3, s2, s1, O3, O2, O1, Of, InLane, At
  <2>4. Lists(s3 \o s2, O3 \cup O2)
    BY <2>1, <2>2, JoinedLists
  <2> DEFINE s32 == s3 \o s2  O32 == O3 \cup O2
  <2>5. Lists(s32, O32) /\ O32 \cap O1 = {}
    BY <2>2, <2>4
  <2> HIDE DEF s32, O32
  <2>6. Lists(s32 \o s1, O32 \cup O1)
    BY <2>1, <2>5, JoinedLists
  <2> QED
    BY <2>3, <2>6 DEF s32, O32, s3, s2, s1
<1> DEFINE L == Lanes(request)
<1>9. L = <<Proven(3) \o Proven(2) \o Proven(1), RotatedLeft(unknown, turn),
            Kept(Candidates, InLane(3))>>
  BY <1>1 DEF Lanes
<1>10. /\ L[1] = Proven(3) \o Proven(2) \o Proven(1)
       /\ L[2] = RotatedLeft(unknown, turn) /\ L[3] = Kept(Candidates, InLane(3))
  <2> HIDE DEF Proven, unknown, turn, InLane, L
  <2> QED
    BY <1>9
<1> HIDE DEF L, Proven, unknown, turn
<1>11. \A k \in 1..3 : Lists(L[k], S[k])
  <2>1. \A k \in 1..3 : k = 1 \/ k = 2 \/ k = 3
    OBVIOUS
  <2> HIDE DEF S
  <2> QED
    BY <1>6, <1>7, <1>8, <1>10, <2>1
<1>12. \A j, k \in 1..3 : j # k => S[j] \cap S[k] = {}
  <2>1. /\ S[1] \cap S[2] = {} /\ S[1] \cap S[3] = {} /\ S[2] \cap S[3] = {}
    BY <1>5
  <2>2. \A k \in 1..3 : k = 1 \/ k = 2 \/ k = 3
    OBVIOUS
  <2> HIDE DEF S
  <2> QED
    BY <2>1, <2>2
<1>13. S[1] \cup S[2] \cup S[3] = P
  <2>1. S[1] \cup S[2] \cup S[3] = Of(1..n)
    BY <1>3
  <2>2. Of(1..n) = P
    <3>1. Candidates \in [1..n -> P]
      BY <1>1, LenProperties
    <3> QED
      BY <3>1 DEF Lists
  <2> QED
    BY <2>1, <2>2
<1> HIDE DEF S
<1>14. Lists(Merged(L), S[1] \cup S[2] \cup S[3])
  BY <1>11, <1>12, MergedLists
<1> QED
  BY <1>13, <1>14 DEF OrderedCandidates, L

(* The state of a job, and of its workers.                                 *)
JobRecords ==
  [request: Requests \cup {NoRequest}, running: BOOLEAN, total: 0..Len(ProfileList),
   threads: 0..MaxWorkers, completed: Nat, results: Seq(Results), active: SUBSET Profiles,
   found: Nat, preflights: Nat, rejected: Nat, cancelRequested: BOOLEAN, pressure: BOOLEAN,
   finish: {"none", "cancelled", "target_reached", "exhausted"}]

WorkerSteps == {"idle", "take", "preflight", "probe", "probed", "record", "gone"}
WorkerRecords ==
  [step: WorkerSteps, profile: Profiles \cup {Nobody}, result: Results \cup {NoResult}]
HasProfile == {"preflight", "probe", "probed", "record"}

BenchTyped ==
  /\ able \in Worlds /\ dead \in DeadChoices
  /\ history \in [BenchServers -> [ping: BOOLEAN, tests: Tests]]
  /\ searchCursor \in 0..(CursorSpan - 1)
  /\ job \in JobRecords /\ queue \in Seq(Profiles) /\ cancel \in BOOLEAN
  /\ workers \in [Workers -> WorkerRecords]
  /\ stoppers \in [Stoppers -> {"idle", "cancel", "leave", "joining"}]
  /\ handle \in BOOLEAN
  /\ spent \in [stops: 0..MaxStops, aged: 0..MaxAged]

Tallies ==
  /\ job.rejected <= job.preflights
  /\ Len(job.results) <= job.completed /\ job.completed <= job.total

(* What a worker has in its hands: a search that is not cancelled has seen *)
(* what a capable server can do.                                           *)
WorkerHolds(w) ==
  /\ workers[w].profile # Nobody <=> workers[w].step \in HasProfile
  /\ workers[w].result # NoResult =>
       /\ workers[w].step \in {"probed", "record"}
       /\ workers[w].result.profile = workers[w].profile
  /\ /\ workers[w].step \in {"probed", "record"} /\ Searching /\ ~cancel
     /\ Capable(ServerOf[workers[w].profile])
     => workers[w].result # NoResult /\ AdaptiveGood(workers[w].result, job.request.required)

Resting == ~job.running => job.active = {} /\ \A w \in Workers : workers[w] = IdleWorker

(* Every profile of a running job is in one place.                         *)
Done == {job.results[i].profile : i \in DOMAIN job.results}
Held(w) == {workers[w].profile} \ {Nobody}
InOnePlace ==
  /\ Lists(queue, ToSet(queue))
  /\ \A i, j \in DOMAIN job.results : job.results[i].profile = job.results[j].profile => i = j
  /\ \A v, w \in Workers : v # w => Held(v) \cap Held(w) = {}
  /\ ToSet(queue) \cap InHand = {} /\ ToSet(queue) \cap Done = {} /\ InHand \cap Done = {}

Left == Len(queue) + Cardinality(job.active) + job.completed
Counted == Left <= job.total /\ (~cancel => Left = job.total)

(* A search asks a server once.                                            *)
Taken == ToSet(queue) \cup InHand \cup Done
OneEach == Searching => \A p, q \in Taken : ServerOf[p] = ServerOf[q] => p = q

(* A worker leaves when there is nothing left to do.                       *)
Leaves(w) ==
  /\ workers[w].step = "idle" => w > job.threads
  /\ workers[w].step = "gone" /\ ~cancel => TargetReached \/ queue = <<>>

RunInv ==
  job.running =>
    /\ job.active = InHand /\ job.threads >= 1 /\ job.finish = "none"
    /\ InOnePlace /\ Counted /\ OneEach
    /\ \A w \in Workers : Leaves(w)

(* A search knows how many good servers it found; while it is not          *)
(* cancelled a capable server waits, is being probed or was found.         *)
Found(s) == \E p \in Profiles : ServerOf[p] = s /\ Good(p)
Covered(s) ==
  \E p \in Profiles : ServerOf[p] = s /\ (p \in ToSet(queue) \/ p \in InHand \/ Good(p))
SearchCounts ==
  Searching =>
    /\ job.found = Cardinality({p \in Profiles : Good(p)})
    /\ job.found + Cardinality(job.active) <= job.request.target
    /\ job.running /\ ~cancel => \A s \in BenchServers \ dead : Capable(s) => Covered(s)

FinishTrue ==
  /\ job.finish = "exhausted" =>
       /\ job.found < job.request.target
       /\ \A s \in BenchServers \ dead : Capable(s) => Found(s)
  /\ job.finish = "target_reached" => Searching /\ job.found >= job.request.target

BenchInv ==
  /\ BenchTyped /\ Tallies /\ Resting /\ RunInv /\ SearchCounts /\ FinishTrue
  /\ \A w \in Workers : WorkerHolds(w)

-----------------------------------------------------------------------------
(* The sets of a job are finite.                                           *)
LEMMA JobSets ==
  ASSUME BenchTyped
  PROVE  /\ IsFiniteSet(job.active) /\ Cardinality(job.active) \in Nat
         /\ IsFiniteSet({p \in Profiles : Good(p)}) /\ Cardinality({p \in Profiles : Good(p)}) \in Nat
         /\ Len(queue) \in Nat /\ Len(job.results) \in Nat
         /\ job.completed \in Nat /\ job.total \in Nat /\ job.found \in Nat
         /\ job.results \in Seq(Results) /\ DOMAIN job.results = 1..Len(job.results)
<1>1. IsFiniteSet(Profiles) /\ Len(ProfileList) \in Nat
  BY ProfileCount
<1>2. /\ job.active \subseteq Profiles /\ job.results \in Seq(Results) /\ queue \in Seq(Profiles)
      /\ job.completed \in Nat /\ job.total \in 0..Len(ProfileList) /\ job.found \in Nat
  BY DEF BenchTyped, JobRecords
<1>3. IsFiniteSet(job.active) /\ IsFiniteSet({p \in Profiles : Good(p)})
  BY <1>1, <1>2, FS_Subset
<1>4. Len(queue) \in Nat /\ Len(job.results) \in Nat /\ DOMAIN job.results = 1..Len(job.results)
  BY <1>2, LenProperties
<1>5. job.total \in Nat
  BY <1>1, <1>2
<1> QED
  BY <1>2, <1>3, <1>4, <1>5, FS_CardinalityType

(* The records of no job and of an idle worker.                            *)
LEMMA Blanks ==
  /\ NoJob \in JobRecords /\ IdleWorker \in WorkerRecords
  /\ NoHistory \in [ping: BOOLEAN, tests: Tests]
<1>1. Len(ProfileList) \in Nat /\ MaxWorkers \in Nat
  BY ProfileCount, BenchAssumption
<1>2. NoResult \in Results \cup {NoResult} /\ Nobody \in Profiles \cup {Nobody}
  OBVIOUS
<1>3. NoHistory \in [ping: BOOLEAN, tests: Tests]
  BY DEF NoHistory, Tests, Skipped
<1>4. NoJob \in JobRecords
  BY <1>1 DEF NoJob, JobRecords
<1>5. IdleWorker \in WorkerRecords
  BY <1>2 DEF IdleWorker, WorkerRecords, WorkerSteps
<1> QED
  BY <1>3, <1>4, <1>5

(* No job has been started.                                                *)
LEMMA BenchStarts == BenchInit => BenchInv
<1> SUFFICES ASSUME BenchInit PROVE BenchInv
  OBVIOUS
<1>1. CursorSpan \in Nat /\ CursorSpan # 0 /\ MaxStops \in Nat /\ MaxAged \in Nat
  BY BenchAssumption
<1>2. BenchTyped
  <2>1. workers \in [Workers -> WorkerRecords] /\ history \in [BenchServers -> [ping: BOOLEAN, tests: Tests]]
    BY Blanks DEF BenchInit
  <2>2. queue \in Seq(Profiles)
    BY DEF BenchInit
  <2>3. searchCursor \in 0..(CursorSpan - 1) /\ spent \in [stops: 0..MaxStops, aged: 0..MaxAged]
    BY <1>1 DEF BenchInit
  <2> QED
    BY Blanks, <2>1, <2>2, <2>3 DEF BenchInit, BenchTyped
<1>3. ~job.running /\ job.active = {} /\ job.request.kind = "full" /\ job.finish = "none"
      /\ job.rejected = 0 /\ job.preflights = 0 /\ job.results = <<>> /\ job.completed = 0 /\ job.total = 0
  BY DEF BenchInit, NoJob, NoRequest
<1>4. \A w \in Workers : workers[w] = IdleWorker
  BY DEF BenchInit
<1>5. \A w \in Workers : WorkerHolds(w)
  BY <1>4 DEF WorkerHolds, IdleWorker, HasProfile
<1>6. Tallies
  BY <1>3 DEF Tallies
<1> QED
  BY <1>2, <1>3, <1>4, <1>5, <1>6
     DEF BenchInv, Resting, RunInv, SearchCounts, FinishTrue, Searching

(* A start that fails leaves no job.                                       *)
LEMMA StartFailed ==
  ASSUME BenchInv, NEW request \in Requests, StartFails(request)
  PROVE  BenchInv'
<1>1. /\ job' = NoJob /\ queue' = <<>> /\ cancel' = FALSE /\ handle' = FALSE
      /\ workers' = [w \in Workers |-> IdleWorker]
      /\ UNCHANGED <<able, dead, history, searchCursor, stoppers, spent>>
  BY DEF StartFails, Unused
<1>2. BenchTyped'
  <2>1. workers' \in [Workers -> WorkerRecords] /\ queue' \in Seq(Profiles)
    BY <1>1, Blanks
  <2> QED
    BY <1>1, <2>1, Blanks DEF BenchInv, BenchTyped
<1>3. ~job'.running /\ job'.active = {} /\ job'.request.kind = "full" /\ job'.finish = "none"
      /\ job'.rejected = 0 /\ job'.preflights = 0 /\ job'.results = <<>> /\ job'.completed = 0 /\ job'.total = 0
  BY <1>1 DEF NoJob, NoRequest
<1>4. \A w \in Workers : workers'[w] = IdleWorker
  BY <1>1
<1>5. \A w \in Workers : WorkerHolds(w)'
  BY <1>4 DEF WorkerHolds, IdleWorker, HasProfile
<1>6. Tallies'
  BY <1>3 DEF Tallies
<1> QED
  BY <1>2, <1>3, <1>4, <1>5, <1>6
     DEF BenchInv, Resting, RunInv, SearchCounts, FinishTrue, Searching

(* What the workers and the handlers see of a job does not change.         *)
SameJob ==
  /\ job'.request = job.request /\ job'.running = job.running
  /\ job'.total = job.total /\ job'.threads = job.threads
  /\ job'.completed = job.completed /\ job'.results = job.results
  /\ job'.active = job.active /\ job'.found = job.found /\ job'.finish = job.finish

(* The truth about a server is fixed.                                      *)
LEMMA SameServers ==
  ASSUME UNCHANGED able, job'.request = job.request
  PROVE  (\A s : Capable(s)' <=> Capable(s)) /\ (Searching' <=> Searching)
  BY DEF Capable, Searching

(* With the same results the same profiles are done, and good.             *)
LEMMA SameResults ==
  ASSUME job'.request = job.request, job'.results = job.results
  PROVE  (\A p : Good(p)' <=> Good(p)) /\ Done' = Done
  BY DEF Good, Done

(* A cancellation, and the steps of others, leave a job as it is.          *)
LEMMA JobKept ==
  ASSUME BenchInv, SameJob, UNCHANGED <<able, dead, queue, workers>>,
         job'.preflights = job.preflights /\ job'.rejected = job.rejected,
         cancel' = cancel \/ cancel' = TRUE, BenchTyped'
  PROVE  BenchInv'
<1>1. (\A s : Capable(s)' <=> Capable(s)) /\ (Searching' <=> Searching)
  BY SameServers DEF SameJob
<1>2. (\A p : Good(p)' <=> Good(p)) /\ Done' = Done
  BY SameResults DEF SameJob
<1>3. InHand' = InHand /\ \A w : Held(w)' = Held(w)
  BY DEF InHand, Held
<1>4. cancel \in BOOLEAN /\ (~cancel' => ~cancel)
  BY DEF BenchInv, BenchTyped
<1>5. Tallies' /\ Resting'
  BY DEF BenchInv, SameJob, Tallies, Resting
<1>6. \A w \in Workers : WorkerHolds(w)'
  BY <1>1, <1>4 DEF BenchInv, WorkerHolds, SameJob
<1>7. RunInv'
  <2>1. InOnePlace => InOnePlace'
    BY <1>2, <1>3 DEF InOnePlace, SameJob
  <2>2. Counted => Counted'
    BY <1>4 DEF Counted, Left, SameJob
  <2>3. OneEach => OneEach'
    BY <1>1, <1>2, <1>3 DEF OneEach, Taken
  <2>4. ASSUME NEW w \in Workers, Leaves(w) PROVE Leaves(w)'
    BY <1>1, <1>4, <2>4 DEF Leaves, TargetReached, SameJob
  <2> QED
    BY <1>3, <2>1, <2>2, <2>3, <2>4 DEF BenchInv, RunInv, SameJob
<1>8. SearchCounts'
  <2>1. {p \in Profiles : Good(p)}' = {p \in Profiles : Good(p)}
    BY <1>2
  <2>2. \A s : Covered(s)' <=> Covered(s)
    BY <1>2, <1>3 DEF Covered
  <2> QED
    BY <1>1, <1>4, <2>1, <2>2 DEF BenchInv, SearchCounts, SameJob
<1>9. FinishTrue'
  BY <1>1, <1>2 DEF BenchInv, FinishTrue, Found, SameJob
<1> QED
  BY <1>5, <1>6, <1>7, <1>8, <1>9 DEF BenchInv

(* A worker that is busy works for a running job.                          *)
LEMMA WorkersRun ==
  ASSUME BenchInv, NEW w \in Workers, workers[w].step # "idle"
  PROVE  job.running
<1>1. IdleWorker.step = "idle"
  BY DEF IdleWorker
<1> QED
  BY <1>1 DEF BenchInv, Resting

(* A worker that keeps its profile goes to its next step.                  *)
LEMMA HandKept ==
  ASSUME BenchInv, SameJob, UNCHANGED <<able, dead, queue, cancel>>, BenchTyped',
         NEW w \in Workers, NEW r, workers' = [workers EXCEPT ![w] = r],
         r.profile = workers[w].profile, workers[w].step # "idle", r.step # "idle",
         r.step = "gone" => cancel \/ TargetReached \/ queue = <<>>,
         WorkerHolds(w)', job'.rejected <= job'.preflights
  PROVE  BenchInv'
<1>1. (\A s : Capable(s)' <=> Capable(s)) /\ (Searching' <=> Searching)
  BY SameServers DEF SameJob
<1>2. (\A p : Good(p)' <=> Good(p)) /\ Done' = Done
  BY SameResults DEF SameJob
<1>3. workers'[w] = r /\ \A v \in Workers : v # w => workers'[v] = workers[v]
  BY DEF BenchInv, BenchTyped
<1>4. \A v \in Workers : workers'[v].profile = workers[v].profile
  BY <1>3
<1>5. InHand' = InHand /\ \A v \in Workers : Held(v)' = Held(v)
  BY <1>4 DEF InHand, Held
<1>6. job.running /\ job'.running
  BY WorkersRun DEF SameJob
<1>7. Tallies' /\ Resting'
  BY <1>6 DEF BenchInv, SameJob, Tallies, Resting
<1>8. \A v \in Workers : WorkerHolds(v)'
  <2> SUFFICES ASSUME NEW v \in Workers, v # w PROVE WorkerHolds(v)'
    OBVIOUS
  <2>1. WorkerHolds(v) /\ workers'[v] = workers[v]
    BY <1>3 DEF BenchInv
  <2> QED
    BY <1>1, <2>1 DEF WorkerHolds, SameJob
<1>9. RunInv'
  <2>1. InOnePlace => InOnePlace'
    BY <1>2, <1>5 DEF InOnePlace, SameJob
  <2>2. Counted => Counted'
    BY DEF Counted, Left, SameJob
  <2>3. OneEach => OneEach'
    BY <1>1, <1>2, <1>5 DEF OneEach, Taken
  <2>4. TargetReached' <=> TargetReached
    BY <1>1 DEF TargetReached, SameJob
  <2>5. ASSUME NEW v \in Workers PROVE Leaves(v)'
    <3>1. Leaves(v)
      BY <1>6 DEF BenchInv, RunInv
    <3>2. CASE v = w
      BY <1>3, <2>4, <3>2 DEF Leaves, SameJob
    <3>3. CASE v # w
      BY <1>3, <2>4, <3>1, <3>3 DEF Leaves, SameJob
    <3> QED
      BY <3>2, <3>3
  <2> QED
    BY <1>5, <1>6, <2>1, <2>2, <2>3, <2>5 DEF BenchInv, RunInv, SameJob
<1>10. SearchCounts'
  <2>1. {p \in Profiles : Good(p)}' = {p \in Profiles : Good(p)}
    BY <1>2
  <2>2. \A s : Covered(s)' <=> Covered(s)
    BY <1>2, <1>5 DEF Covered
  <2> QED
    BY <1>1, <2>1, <2>2 DEF BenchInv, SearchCounts, SameJob
<1>11. FinishTrue'
  BY <1>1, <1>2 DEF BenchInv, FinishTrue, Found, SameJob
<1> QED
  BY <1>7, <1>8, <1>9, <1>10, <1>11 DEF BenchInv

(* A job asks for a prefix of the services.                                *)
LEMMA PrefixAsked ==
  ASSUME BenchTyped
  PROVE  job.request.required \in 1..3
<1>1. job.request \in RequestSet \/ job.request = NoRequest
  BY BenchAssumption DEF BenchTyped, JobRecords
<1> QED
  BY <1>1 DEF RequestSet, NoRequest

(* Nothing is not a result.                                                *)
LEMMA NothingSeen ==
  /\ NoResult \notin Results /\ NoResult.profile = Nobody
  /\ \A r \in Results : r # NoResult /\ r.profile \in Profiles /\ r.profile # Nobody
  /\ NoHistory \in [ping: BOOLEAN, tests: Tests]
<1>1. NoResult.profile = Nobody
  BY DEF NoResult
<1>2. Nobody \notin Profiles
  BY BenchAssumption
<1>3. \A r \in Results : r.profile \in Profiles
  BY DEF Results
<1>4. NoHistory \in [ping: BOOLEAN, tests: Tests]
  BY DEF NoHistory, Tests, Skipped
<1> QED
  BY <1>1, <1>2, <1>3, <1>4

(* What the probes return ...                                              *)
LEMMA ProbedTests ==
  ASSUME NEW s, NEW required, NEW failFast
  PROVE  ServiceProbes(Truth(s), required, failFast) \in Tests /\ Skipped \in Tests
<1>1. Truth(s) \in Tests
  BY DEF Truth, Tests
<1> QED
  BY <1>1 DEF ServiceProbes, Tests, Skipped

(* ... are results of the profile that was probed ...                      *)
LEMMA ProbedResults ==
  ASSUME NEW request, NEW p \in Profiles
  PROVE  /\ AdaptiveResult(request, p) \in Results /\ ServiceResult(request, p) \in Results
         /\ AdaptiveResult(request, p).profile = p /\ ServiceResult(request, p).profile = p
<1>1. ServiceProbes(Truth(ServerOf[p]), request.required, request.failFast) \in Tests
      /\ ProbesAfterPing(request, ServerOf[p]) \in Tests
  BY ProbedTests DEF ProbesAfterPing
<1>2. AdaptiveResult(request, p) \in Results /\ AdaptiveResult(request, p).profile = p
  BY <1>1 DEF AdaptiveResult, Results
<1>3. ServiceResult(request, p) \in Results /\ ServiceResult(request, p).profile = p
  <2>1. ("ping" \in able[ServerOf[p]]) \in BOOLEAN
        /\ Outcome(request, "ping" \in able[ServerOf[p]], ProbesAfterPing(request, ServerOf[p])) \in BOOLEAN
    BY DEF Outcome
  <2> QED
    BY <1>1, <2>1 DEF ServiceResult, Results
<1> QED
  BY <1>2, <1>3

(* ... of a server that can do what was asked.                             *)
LEMMA CapableIsGood ==
  ASSUME BenchTyped, NEW p \in Profiles, Capable(ServerOf[p])
  PROVE  AdaptiveGood(AdaptiveResult(job.request, p), job.request.required)
<1> DEFINE required == job.request.required
           truth == Truth(ServerOf[p])
           tests == ServiceProbes(truth, required, job.request.failFast)
<1>1. required \in 1..3
  BY PrefixAsked
<1>2. \A i \in 1..required : truth[i] = "ok"
  BY <1>1 DEF Capable, Truth
<1>3. \A i \in 1..required : tests[i] = "ok"
  <2> SUFFICES ASSUME NEW i \in 1..required PROVE tests[i] = "ok"
    OBVIOUS
  <2>1. i \in 1..3 /\ ~(i > required) /\ \A j \in 1..(i - 1) : j \in 1..required
    BY <1>1
  <2>2. \A j \in 1..(i - 1) : truth[j] # "fail"
    BY <1>2, <2>1
  <2> HIDE DEF truth
  <2>3. tests[i] = truth[i]
    BY <2>1, <2>2 DEF ServiceProbes
  <2> QED
    BY <1>2, <2>3
<1>4. AdaptiveResult(job.request, p).tests = tests /\ AdaptiveResult(job.request, p).ping = TRUE
  BY DEF AdaptiveResult
<1> HIDE DEF tests, required
<1> QED
  BY <1>3, <1>4 DEF AdaptiveGood, PrefixComplete, required

-----------------------------------------------------------------------------
(* What a stop, an alarm and time do.                                      *)
LEMMA StopLooks ==
  ASSUME BenchInv, NEW c \in Stoppers, StopLook(c)
  PROVE  BenchInv'
<1>1. UNCHANGED <<able, dead, history, searchCursor, job, queue, cancel, workers, handle>>
  BY DEF StopLook, Unused, jobVars
<1>2. stoppers' \in [Stoppers -> {"idle", "cancel", "leave", "joining"}]
  BY DEF StopLook, BenchInv, BenchTyped
<1>3. spent' \in [stops: 0..MaxStops, aged: 0..MaxAged]
  <2>1. spent \in [stops: 0..MaxStops, aged: 0..MaxAged] /\ MaxStops \in Nat
    BY BenchAssumption DEF BenchInv, BenchTyped
  <2>2. spent.stops \in 0..MaxStops /\ spent.stops < MaxStops
    BY <2>1 DEF StopLook
  <2>3. spent.stops + 1 \in 0..MaxStops
    BY <2>1, <2>2
  <2> QED
    BY <2>1, <2>3 DEF StopLook
<1>4. BenchTyped'
  BY <1>1, <1>2, <1>3 DEF BenchInv, BenchTyped
<1> QED
  BY <1>1, <1>4, JobKept DEF SameJob

(* ... a stop that cancels, and lets go of the handle, ...                 *)
LEMMA StopActs ==
  ASSUME BenchInv, NEW c \in Stoppers, StopAct(c)
  PROVE  BenchInv'
<1>1. UNCHANGED <<able, dead, history, searchCursor, queue, workers, spent>> /\ handle' = FALSE
  BY DEF StopAct, Unused
<1>2. stoppers' \in [Stoppers -> {"idle", "cancel", "leave", "joining"}]
  BY DEF StopAct, BenchInv, BenchTyped
<1>3. job \in JobRecords /\ cancel \in BOOLEAN
  BY DEF BenchInv, BenchTyped
<1>4. job' \in JobRecords /\ (cancel' = cancel \/ cancel' = TRUE)
  BY <1>3 DEF StopAct, JobRecords
<1>5. SameJob /\ job'.preflights = job.preflights /\ job'.rejected = job.rejected
  BY <1>3 DEF StopAct, SameJob, JobRecords
<1>6. BenchTyped'
  BY <1>1, <1>2, <1>3, <1>4 DEF BenchInv, BenchTyped
<1> QED
  BY <1>1, <1>4, <1>5, <1>6, JobKept

(* ... the memory monitor, ...                                             *)
LEMMA MemoryAlarms ==
  ASSUME BenchInv, MemoryAlarm
  PROVE  BenchInv'
<1>1. UNCHANGED <<able, dead, history, searchCursor, queue, workers, stoppers, handle>> /\ cancel' = TRUE
  BY DEF MemoryAlarm, Unused
<1>3. job \in JobRecords
  BY DEF BenchInv, BenchTyped
<1>4. job' \in JobRecords
  BY <1>3 DEF MemoryAlarm, JobRecords
<1>5. SameJob /\ job'.preflights = job.preflights /\ job'.rejected = job.rejected
  BY <1>3 DEF MemoryAlarm, SameJob, JobRecords
<1>2. spent' \in [stops: 0..MaxStops, aged: 0..MaxAged]
  <2>1. spent \in [stops: 0..MaxStops, aged: 0..MaxAged] /\ MaxStops \in Nat
    BY BenchAssumption DEF BenchInv, BenchTyped
  <2>2. spent.stops \in 0..MaxStops /\ spent.stops < MaxStops
    BY <2>1 DEF MemoryAlarm
  <2>3. spent.stops + 1 \in 0..MaxStops
    BY <2>1, <2>2
  <2> QED
    BY <2>1, <2>3 DEF MemoryAlarm
<1>6. BenchTyped'
  BY <1>1, <1>2, <1>4 DEF BenchInv, BenchTyped
<1> QED
  BY <1>1, <1>5, <1>6, JobKept

(* ... and history that grows old between two jobs.                        *)
LEMMA HistoryAged ==
  ASSUME BenchInv, NEW s \in BenchServers, HistoryAges(s)
  PROVE  BenchInv'
<1>1. UNCHANGED <<able, dead, searchCursor, job, queue, cancel, workers, stoppers, handle>>
  BY DEF HistoryAges, Unused, jobVars
<1>2. history' \in [BenchServers -> [ping: BOOLEAN, tests: Tests]]
  BY NothingSeen DEF HistoryAges, BenchInv, BenchTyped
<1>3. spent' \in [stops: 0..MaxStops, aged: 0..MaxAged]
  <2>1. spent \in [stops: 0..MaxStops, aged: 0..MaxAged] /\ MaxAged \in Nat
    BY BenchAssumption DEF BenchInv, BenchTyped
  <2>2. spent.aged \in 0..MaxAged /\ spent.aged < MaxAged
    BY <2>1 DEF HistoryAges
  <2>3. spent.aged + 1 \in 0..MaxAged
    BY <2>1, <2>2
  <2> QED
    BY <2>1, <2>3 DEF HistoryAges
<1>4. BenchTyped'
  BY <1>1, <1>2, <1>3 DEF BenchInv, BenchTyped
<1> QED
  BY <1>1, <1>4, JobKept DEF SameJob

(* A worker's record changes to one of its type.                           *)
LEMMA WorkerTyped ==
  ASSUME BenchTyped, NEW w \in Workers, NEW r \in WorkerRecords, workers' = [workers EXCEPT ![w] = r]
  PROVE  workers' \in [Workers -> WorkerRecords]
  BY DEF BenchTyped

(* A worker leaves only when nothing is left to take.                      *)
LEMMA WorkerLeaves ==
  ASSUME BenchInv, NEW w \in Workers, LeaveLoop(w)
  PROVE  BenchInv'
<1> DEFINE r == [workers[w] EXCEPT !.step = "gone"]
<1>1. UNCHANGED <<able, dead, history, searchCursor, job, queue, cancel, stoppers, handle, spent>>
  BY DEF LeaveLoop, Unused, jobVars
<1>2. workers[w] \in WorkerRecords /\ workers[w].step = "take" /\ workers' = [workers EXCEPT ![w] = r]
  BY DEF LeaveLoop, BenchInv, BenchTyped
<1>3. r \in WorkerRecords /\ r.step = "gone" /\ r.profile = workers[w].profile /\ r.result = workers[w].result
  BY <1>2 DEF WorkerRecords, WorkerSteps
<1> HIDE DEF r
<1>4. BenchTyped'
  BY <1>1, <1>2, <1>3, WorkerTyped DEF BenchInv, BenchTyped
<1>5. workers'[w] = r
  BY <1>2 DEF BenchInv, BenchTyped
<1>6. WorkerHolds(w)'
  BY <1>2, <1>3, <1>5 DEF BenchInv, WorkerHolds, HasProfile
<1>7. cancel \/ TargetReached \/ queue = <<>>
  BY DEF LeaveLoop
<1>8. job'.rejected <= job'.preflights
  BY <1>1 DEF BenchInv, Tallies
<1>9. SameJob
  BY <1>1 DEF SameJob
<1> QED
  BY <1>1, <1>2, <1>3, <1>4, <1>6, <1>7, <1>8, <1>9, HandKept

(* A candidate that passes its preflight is probed; one that does not has  *)
(* no result, and it was not capable.                                      *)
LEMMA PreflightEnds ==
  ASSUME BenchInv, NEW w \in Workers, Preflight(w)
  PROVE  BenchInv'
<1> DEFINE passed == "ping" \in able[ServerOf[workers[w].profile]]
           next == IF passed /\ ~cancel THEN "probe" ELSE "probed"
           r == [workers[w] EXCEPT !.step = next]
<1>1. UNCHANGED <<able, dead, history, searchCursor, queue, cancel, stoppers, handle, spent>>
  BY DEF Preflight, Unused
<1>2. workers[w] \in WorkerRecords /\ workers[w].step = "preflight" /\ workers' = [workers EXCEPT ![w] = r]
  BY DEF Preflight, BenchInv, BenchTyped
<1>3. next \in {"probe", "probed"}
  OBVIOUS
<1>4. r \in WorkerRecords /\ r.step = next /\ r.profile = workers[w].profile /\ r.result = workers[w].result
  BY <1>2, <1>3 DEF WorkerRecords, WorkerSteps
<1>5. job \in JobRecords /\ job.rejected <= job.preflights
  BY DEF BenchInv, BenchTyped, Tallies
<1>6. job' \in JobRecords /\ SameJob /\ job'.rejected <= job'.preflights
  <2>1. CASE cancel
    BY <1>5, <2>1 DEF Preflight, SameJob
  <2>2. CASE ~cancel
    <3> DEFINE rejected == IF passed THEN job.rejected ELSE job.rejected + 1
    <3>1. job' = [job EXCEPT !.preflights = job.preflights + 1, !.rejected = rejected]
      BY <2>2 DEF Preflight
    <3>2. job.preflights \in Nat /\ job.rejected \in Nat
      BY <1>5 DEF JobRecords
    <3>3. rejected \in Nat /\ rejected <= job.preflights + 1
      BY <1>5, <3>2
    <3> HIDE DEF rejected
    <3> DEFINE asked == job.preflights + 1
    <3>4. asked \in Nat /\ rejected <= asked
      BY <3>2, <3>3
    <3>5. job' = [job EXCEPT !.preflights = asked, !.rejected = rejected]
      BY <3>1
    <3> HIDE DEF asked
    <3>6. job' \in JobRecords
      BY <1>5, <3>3, <3>4, <3>5 DEF JobRecords
    <3>7. job'.rejected = rejected /\ job'.preflights = asked /\ SameJob
      BY <1>5, <3>5 DEF JobRecords, SameJob
    <3> QED
      BY <3>4, <3>6, <3>7
  <2> QED
    BY <2>1, <2>2
<1> HIDE DEF r
<1>7. BenchTyped'
  BY <1>1, <1>2, <1>4, <1>6, WorkerTyped DEF BenchInv, BenchTyped
<1>8. workers'[w] = r
  BY <1>2 DEF BenchInv, BenchTyped
<1>9. WorkerHolds(w)'
  <2>1. WorkerHolds(w)
    BY DEF BenchInv
  <2>2. workers[w].profile # Nobody /\ workers[w].result = NoResult
    BY <1>2, <2>1 DEF WorkerHolds, HasProfile
  <2>3. (\A s : Capable(s)' <=> Capable(s)) /\ (Searching' <=> Searching)
    BY <1>1, <1>6, SameServers DEF SameJob
  <2>4. ~cancel /\ Capable(ServerOf[workers[w].profile]) => next = "probe"
    BY DEF Capable
  <2> HIDE DEF next
  <2> QED
    BY <1>1, <1>3, <1>4, <1>8, <2>2, <2>3, <2>4 DEF WorkerHolds, HasProfile
<1>10. r.step # "idle" /\ r.step # "gone"
  BY <1>3, <1>4
<1> HIDE DEF next
<1> QED
  BY <1>1, <1>2, <1>4, <1>6, <1>7, <1>9, <1>10, HandKept

(* A probe of a capable server ends with a good result.                    *)
LEMMA ProbeEnds ==
  ASSUME BenchInv, NEW w \in Workers, Probe(w)
  PROVE  BenchInv'
<1> DEFINE p == workers[w].profile
           seen == IF cancel THEN NoResult
                   ELSE IF Searching THEN AdaptiveResult(job.request, p) ELSE ServiceResult(job.request, p)
           r == [workers[w] EXCEPT !.step = "probed", !.result = seen]
<1>1. UNCHANGED <<able, dead, history, searchCursor, job, queue, cancel, stoppers, handle, spent>>
  BY DEF Probe, Unused, jobVars
<1>2. workers \in [Workers -> WorkerRecords] /\ workers[w] \in WorkerRecords /\ workers[w].step = "probe"
  BY DEF Probe, BenchInv, BenchTyped
<1>3. p \in Profiles /\ p # Nobody
  <2>1. WorkerHolds(w) /\ p \in Profiles \cup {Nobody}
    BY <1>2 DEF BenchInv, WorkerRecords
  <2> QED
    BY <1>2, <2>1 DEF WorkerHolds, HasProfile
<1>4. seen \in Results \cup {NoResult} /\ (seen # NoResult => seen.profile = p)
  BY <1>3, ProbedResults
<1>5. Searching /\ ~cancel /\ Capable(ServerOf[p]) => seen # NoResult /\ AdaptiveGood(seen, job.request.required)
  <2> SUFFICES ASSUME Searching, ~cancel, Capable(ServerOf[p])
               PROVE  seen # NoResult /\ AdaptiveGood(seen, job.request.required)
    OBVIOUS
  <2>1. seen = AdaptiveResult(job.request, p)
    OBVIOUS
  <2>2. BenchTyped
    BY DEF BenchInv
  <2> QED
    BY <1>3, <2>1, <2>2, ProbedResults, NothingSeen, CapableIsGood
<1> HIDE DEF seen
<1>6. workers' = [workers EXCEPT ![w] = r]
  BY <1>2 DEF Probe, seen
<1>7. r \in WorkerRecords /\ r.step = "probed" /\ r.profile = p /\ r.result = seen
  BY <1>2, <1>4 DEF WorkerRecords, WorkerSteps
<1> HIDE DEF r
<1>8. BenchTyped'
  BY <1>1, <1>6, <1>7, WorkerTyped DEF BenchInv, BenchTyped
<1>9. workers'[w] = r
  BY <1>2, <1>6
<1>10. (\A s : Capable(s)' <=> Capable(s)) /\ (Searching' <=> Searching)
  BY <1>1, SameServers
<1>11. WorkerHolds(w)'
  <2> HIDE DEF p
  <2> QED
    BY <1>1, <1>3, <1>4, <1>5, <1>7, <1>9, <1>10 DEF WorkerHolds, HasProfile
<1>12. job'.rejected <= job'.preflights /\ SameJob
  BY <1>1 DEF BenchInv, Tallies, SameJob
<1> QED
  BY <1>1, <1>2, <1>6, <1>7, <1>8, <1>11, <1>12, HandKept

(* The history is no part of the job.                                      *)
LEMMA ResultReported ==
  ASSUME BenchInv, NEW w \in Workers, ReportResult(w)
  PROVE  BenchInv'
<1> DEFINE r == [workers[w] EXCEPT !.step = "record"]
<1>1. UNCHANGED <<able, dead, searchCursor, job, queue, cancel, stoppers, handle, spent>>
  BY DEF ReportResult, Unused, jobVars
<1>2. workers[w] \in WorkerRecords /\ workers[w].step = "probed" /\ workers' = [workers EXCEPT ![w] = r]
  BY DEF ReportResult, BenchInv, BenchTyped
<1>3. r \in WorkerRecords /\ r.step = "record" /\ r.profile = workers[w].profile /\ r.result = workers[w].result
  BY <1>2 DEF WorkerRecords, WorkerSteps
<1> HIDE DEF r
<1>4. history' \in [BenchServers -> [ping: BOOLEAN, tests: Tests]]
  <2>1. CASE UNCHANGED history
    BY <2>1 DEF BenchInv, BenchTyped
  <2>2. CASE workers[w].result # NoResult /\ history' = [history EXCEPT ![ServerOf[workers[w].profile]] =
                                                       Remembered(workers[w].result)]
    <3>1. workers[w].result \in Results
      BY <1>2, <2>2 DEF WorkerRecords
    <3>2. Remembered(workers[w].result) \in [ping: BOOLEAN, tests: Tests]
      BY <3>1, NothingSeen DEF Remembered, Results
    <3> QED
      BY <2>2, <3>2 DEF BenchInv, BenchTyped
  <2> QED
    BY <2>1, <2>2 DEF ReportResult
<1>5. BenchTyped'
  BY <1>1, <1>2, <1>3, <1>4, WorkerTyped DEF BenchInv, BenchTyped
<1>6. workers'[w] = r
  BY <1>2 DEF BenchInv, BenchTyped
<1>7. WorkerHolds(w)'
  <2>1. (\A s : Capable(s)' <=> Capable(s)) /\ (Searching' <=> Searching)
    BY <1>1, SameServers
  <2>2. WorkerHolds(w)
    BY DEF BenchInv
  <2> QED
    BY <1>1, <1>2, <1>3, <1>6, <2>1, <2>2 DEF WorkerHolds, HasProfile
<1>8. job'.rejected <= job'.preflights /\ SameJob
  BY <1>1 DEF BenchInv, Tallies, SameJob
<1> QED
  BY <1>1, <1>2, <1>3, <1>5, <1>7, <1>8, HandKept

(* A worker takes a profile into its hands or lays one down.               *)
LEMMA HandsChange ==
  ASSUME BenchTyped, NEW w \in Workers, NEW r, workers' = [workers EXCEPT ![w] = r],
         \A u, v \in Workers : u # v => Held(u) \cap Held(v) = {}
  PROVE  /\ workers'[w] = r /\ \A v \in Workers : v # w => workers'[v] = workers[v]
         /\ \A v \in Workers : v # w => Held(v)' = Held(v)
         /\ Held(w)' = {r.profile} \ {Nobody}
         /\ InHand' = (InHand \ Held(w)) \cup ({r.profile} \ {Nobody})
<1>1. workers'[w] = r /\ \A v \in Workers : v # w => workers'[v] = workers[v]
  BY DEF BenchTyped
<1>2. \A v \in Workers : v # w => Held(v)' = Held(v)
  BY <1>1 DEF Held
<1>3. Held(w)' = {r.profile} \ {Nobody}
  BY <1>1 DEF Held
<1>4. \A p : p \in InHand <=> \E v \in Workers : p \in Held(v)
  BY DEF InHand, Held
<1>5. \A p : p \in InHand' <=> \E v \in Workers : p \in Held(v)'
  BY DEF InHand, Held
<1>6. ASSUME NEW p PROVE p \in InHand' <=> p \in (InHand \ Held(w)) \cup ({r.profile} \ {Nobody})
  BY <1>2, <1>3, <1>4, <1>5
<1> QED
  BY <1>1, <1>2, <1>3, <1>6

(* The worker's next profile leaves the queue.                             *)
LEMMA HeadTaken ==
  ASSUME NEW S, NEW q, Lists(q, S), q # <<>>
  PROVE  /\ Head(q) \in S /\ Lists(Tail(q), S \ {Head(q)})
         /\ Len(Tail(q)) = Len(q) - 1 /\ Len(q) \in Nat /\ Len(q) >= 1
<1> DEFINE t == Tail(q)
           R == S \ {Head(q)}
<1>1. q \in Seq(S) /\ q # <<>>
  BY DEF Lists
<1>2. Head(q) \in S /\ Head(q) = q[1] /\ t \in Seq(S) /\ Len(q) \in Nat /\ Len(q) >= 1
      /\ Len(t) = Len(q) - 1 /\ \A i \in 1..Len(t) : t[i] = q[i + 1]
  <2>1. Head(q) \in S /\ Head(q) = q[1] /\ t \in Seq(S) /\ Len(t) = Len(q) - 1
        /\ \A i \in 1..Len(t) : t[i] = q[i + 1]
    BY <1>1, HeadTailProperties
  <2>2. Len(q) \in Nat /\ Len(q) # 0
    BY <1>1, EmptySeq, LenProperties
  <2> QED
    BY <2>1, <2>2
<1> HIDE DEF t
<1>3. \A i \in 1..Len(t) : i + 1 \in 1..Len(q) /\ i + 1 # 1
  BY <1>2
<1>4. \A i \in 1..Len(t) : t[i] \in R
  <2> SUFFICES ASSUME NEW i \in 1..Len(t) PROVE t[i] \in R
    OBVIOUS
  <2>1. i + 1 \in 1..Len(q) /\ i + 1 # 1 /\ 1 \in 1..Len(q)
    BY <1>2, <1>3
  <2>2. q[i + 1] # q[1] /\ q[i + 1] \in S
    BY <1>1, <2>1, ElementOfSeq DEF Lists
  <2> QED
    BY <1>2, <2>2
<1>5. t \in Seq(R)
  <2>1. t \in [1..Len(t) -> S] /\ Len(t) \in Nat
    BY <1>2, LenProperties
  <2> HIDE DEF R
  <2>2. t \in [1..Len(t) -> R]
    BY <1>4, <2>1
  <2> QED
    BY <2>1, <2>2
<1>6. ASSUME NEW i \in 1..Len(t), NEW j \in 1..Len(t), t[i] = t[j] PROVE i = j
  <2>1. i + 1 \in 1..Len(q) /\ j + 1 \in 1..Len(q) /\ q[i + 1] = q[j + 1]
    BY <1>2, <1>3, <1>6
  <2>2. i + 1 = j + 1
    BY <2>1 DEF Lists
  <2> QED
    BY <1>2, <2>2
<1>7. ASSUME NEW x \in R PROVE \E i \in 1..Len(t) : t[i] = x
  <2>1. PICK j \in 1..Len(q) : q[j] = x
    BY DEF Lists
  <2>2. j # 1
    BY <1>2, <2>1
  <2>3. j - 1 \in 1..Len(t) /\ (j - 1) + 1 = j
    BY <1>2, <2>2
  <2> QED
    BY <1>2, <2>1, <2>3
<1> QED
  BY <1>2, <1>5, <1>6, <1>7 DEF Lists, t, R

(* Taking a profile moves it from the queue into the worker's hands, and   *)
(* reserves a place among the good ones it may turn out to fill.           *)
LEMMA ProfileTaken ==
  ASSUME BenchInv, NEW w \in Workers, TakeProfile(w)
  PROVE  BenchInv'
<1> DEFINE h == Head(queue)
           next == IF Searching THEN "preflight" ELSE "probe"
           r == [workers[w] EXCEPT !.profile = h, !.step = next]
           Q == ToSet(queue)
<1>1. /\ UNCHANGED <<able, dead, history, searchCursor, cancel, stoppers, handle, spent>>
      /\ ~cancel /\ MayTake /\ queue # <<>> /\ queue' = Tail(queue)
      /\ job' = [job EXCEPT !.active = job.active \cup {h}]
  BY DEF TakeProfile, Unused
<1>2. BenchTyped /\ workers \in [Workers -> WorkerRecords] /\ workers[w] \in WorkerRecords /\ job \in JobRecords
  BY DEF BenchInv, BenchTyped
<1>3. workers[w].step = "take" /\ workers[w].profile = Nobody /\ workers[w].result = NoResult
  BY DEF TakeProfile, BenchInv, WorkerHolds, HasProfile
<1>4. job.running /\ RunInv /\ InOnePlace /\ job.active = InHand /\ job.finish = "none"
  BY <1>3, WorkersRun DEF BenchInv, RunInv
<1>5. Lists(queue, Q)
  BY <1>4 DEF InOnePlace
<1>6. Q \subseteq Profiles
  BY <1>2, LenProperties DEF BenchTyped, ToSet
<1> HIDE DEF Q
<1>7. h \in Q /\ Lists(queue', Q \ {h}) /\ Len(queue') = Len(queue) - 1 /\ Len(queue) \in Nat /\ Len(queue) >= 1
  BY <1>1, <1>5, HeadTaken
<1>8. ToSet(queue') = Q \ {h}
  BY <1>7, ListCount
<1>9. h \in Profiles /\ h # Nobody
  BY <1>6, <1>7, BenchAssumption
<1> HIDE DEF h
<1>10. next \in {"preflight", "probe"}
  OBVIOUS
<1>11. r \in WorkerRecords /\ r.step = next /\ r.profile = h /\ r.result = NoResult
  BY <1>2, <1>3, <1>9, <1>10 DEF WorkerRecords, WorkerSteps
<1>12. workers' = [workers EXCEPT ![w] = r]
  BY <1>2 DEF TakeProfile, h
<1> HIDE DEF next, r
<1>13. /\ workers'[w] = r /\ \A v \in Workers : v # w => workers'[v] = workers[v]
       /\ \A v \in Workers : v # w => Held(v)' = Held(v)
       /\ Held(w)' = {h} /\ InHand' = InHand \cup {h} /\ Held(w) = {}
  <2>1. Held(w) = {}
    BY <1>3 DEF Held
  <2>2. \A u, v \in Workers : u # v => Held(u) \cap Held(v) = {}
    BY <1>4 DEF InOnePlace
  <2> QED
    BY <1>2, <1>9, <1>11, <1>12, <2>1, <2>2, HandsChange
<1>14. /\ job'.request = job.request /\ job'.running = job.running /\ job'.total = job.total
       /\ job'.threads = job.threads /\ job'.completed = job.completed /\ job'.results = job.results
       /\ job'.found = job.found /\ job'.finish = job.finish /\ job'.active = job.active \cup {h}
       /\ job'.preflights = job.preflights /\ job'.rejected = job.rejected /\ job' \in JobRecords
  BY <1>1, <1>2, <1>9 DEF JobRecords
<1>15. BenchTyped'
  <2>1. queue' \in Seq(Profiles)
    BY <1>1, <1>2, HeadTailProperties DEF BenchTyped
  <2>2. workers' \in [Workers -> WorkerRecords]
    BY <1>2, <1>11, <1>12, WorkerTyped
  <2> QED
    BY <1>1, <1>2, <1>14, <2>1, <2>2 DEF BenchTyped
<1>16. (\A s : Capable(s)' <=> Capable(s)) /\ (Searching' <=> Searching)
  BY <1>1, <1>14, SameServers
<1>17. (\A p : Good(p)' <=> Good(p)) /\ Done' = Done
  BY <1>14, SameResults
<1>18. h \notin InHand /\ h \notin Done /\ Q \cap InHand = {} /\ Q \cap Done = {} /\ InHand \cap Done = {}
  BY <1>4, <1>7 DEF InOnePlace, Q
<1>19. Tallies' /\ Resting'
  BY <1>4, <1>14 DEF BenchInv, Tallies, Resting
<1>20. ASSUME NEW v \in Workers PROVE WorkerHolds(v)'
  <2>1. CASE v = w
    BY <1>9, <1>10, <1>11, <1>13, <2>1 DEF WorkerHolds, HasProfile
  <2>2. CASE v # w
    BY <1>1, <1>13, <1>14, <1>16, <2>2 DEF BenchInv, WorkerHolds
  <2> QED
    BY <2>1, <2>2
<1>21. /\ Cardinality(job'.active) = Cardinality(job.active) + 1 /\ Cardinality(job.active) \in Nat
       /\ job.completed \in Nat /\ job.total \in Nat /\ job.found \in Nat
  <2>1. IsFiniteSet(job.active) /\ h \notin job.active
    BY <1>2, <1>4, <1>18, JobSets
  <2>2. Cardinality(job'.active) = Cardinality(job.active) + 1
    BY <1>14, <2>1, FS_AddElement
  <2> QED
    BY <1>2, <2>2, JobSets
<1>22. RunInv'
  <2>1. InOnePlace'
    <3>1. Lists(queue', ToSet(queue'))
      BY <1>7, <1>8
    <3>2. ASSUME NEW u \in Workers, NEW v \in Workers, u # v PROVE Held(u)' \cap Held(v)' = {}
      <4>1. \A x \in Workers : Held(x) \subseteq InHand /\ Held(x) \cap {h} = {}
        BY <1>18 DEF Held, InHand
      <4>2. Held(u) \cap Held(v) = {}
        BY <1>4, <3>2 DEF InOnePlace
      <4> QED
        BY <1>13, <3>2, <4>1, <4>2
    <3>3. ToSet(queue') \cap InHand' = {} /\ ToSet(queue') \cap Done' = {} /\ InHand' \cap Done' = {}
      BY <1>8, <1>13, <1>17, <1>18
    <3>4. \A i, j \in DOMAIN job'.results : job'.results[i].profile = job'.results[j].profile => i = j
      BY <1>4, <1>14 DEF InOnePlace
    <3> QED
      BY <3>1, <3>2, <3>3, <3>4 DEF InOnePlace
  <2>2. Counted'
    <3> DEFINE a == Cardinality(job.active)
    <3>1. Cardinality(job'.active) = a + 1 /\ a \in Nat
      BY <1>21
    <3> HIDE DEF a
    <3>2. Left' = (Len(queue) - 1) + (a + 1) + job.completed
      BY <1>7, <1>14, <3>1 DEF Left
    <3>3. Left = Len(queue) + a + job.completed
      BY DEF Left, a
    <3>4. Left' = Left
      BY <1>7, <1>21, <3>1, <3>2, <3>3
    <3>5. Counted
      BY <1>4 DEF RunInv
    <3> QED
      BY <1>1, <1>14, <3>4, <3>5 DEF Counted
  <2>3. OneEach'
    <3>1. Taken' = Taken
      BY <1>7, <1>8, <1>13, <1>17 DEF Taken, Q
    <3>2. OneEach
      BY <1>4 DEF RunInv
    <3> QED
      BY <1>16, <3>1, <3>2 DEF OneEach
  <2>4. ASSUME NEW v \in Workers PROVE Leaves(v)'
    <3>1. CASE v = w
      BY <1>10, <1>11, <1>13, <3>1 DEF Leaves
    <3>2. CASE v # w
      <4>1. Leaves(v)
        BY <1>4 DEF RunInv
      <4>2. TargetReached' <=> TargetReached
        BY <1>14, <1>16 DEF TargetReached
      <4> QED
        BY <1>1, <1>13, <1>14, <3>2, <4>1, <4>2 DEF Leaves
    <3> QED
      BY <3>1, <3>2
  <2>5. job.threads >= 1
    BY <1>4 DEF RunInv
  <2> QED
    BY <1>4, <1>13, <1>14, <2>1, <2>2, <2>3, <2>4, <2>5 DEF RunInv
<1>23. SearchCounts'
  <2> SUFFICES ASSUME Searching PROVE SearchCounts'
    BY <1>16 DEF SearchCounts
  <2>1. SearchCounts
    BY DEF BenchInv
  <2>2. {p \in Profiles : Good(p)}' = {p \in Profiles : Good(p)}
    BY <1>17
  <2>3. job'.found + Cardinality(job'.active) <= job'.request.target
    <3> DEFINE a == Cardinality(job.active)
    <3>1. job.found + a < job.request.target
      BY <1>1 DEF MayTake
    <3>2. job.request.target \in Nat
      <4>1. job.request \in RequestSet \/ job.request = NoRequest
        BY <1>2, BenchAssumption DEF JobRecords
      <4> QED
        BY <4>1 DEF RequestSet, NoRequest
    <3>3. Cardinality(job'.active) = a + 1 /\ a \in Nat /\ job.found \in Nat
      BY <1>21
    <3> HIDE DEF a
    <3>4. job.found + (a + 1) <= job.request.target
      BY <3>1, <3>2, <3>3
    <3> QED
      BY <1>14, <3>3, <3>4
  <2>4. \A s : Covered(s) => Covered(s)'
    BY <1>8, <1>13, <1>17 DEF Covered, Q
  <2> QED
    BY <1>1, <1>4, <1>14, <1>16, <2>1, <2>2, <2>3, <2>4 DEF SearchCounts
<1>24. FinishTrue'
  BY <1>4, <1>14 DEF FinishTrue
<1> QED
  BY <1>15, <1>19, <1>20, <1>22, <1>23, <1>24 DEF BenchInv

(* A worker that is done with its profile waits for the next one.          *)
LEMMA HandEmptied ==
  ASSUME BenchInv, NEW w \in Workers, workers[w].step \in {"probed", "record"}, UNCHANGED <<able, cancel>>,
         workers' = [workers EXCEPT ![w] = [IdleWorker EXCEPT !.step = "take"]],
         job'.request = job.request, job'.active = job.active \ {workers[w].profile}
  PROVE  LET p == workers[w].profile
         IN  /\ job.running /\ p \in Profiles /\ p # Nobody /\ p \in InHand /\ p \in job.active
             /\ job.active = InHand /\ InHand' = InHand \ {p}
             /\ workers'[w].step = "take" /\ \A v \in Workers : v # w => workers'[v] = workers[v]
             /\ \A u, v \in Workers : u # v => Held(u)' \cap Held(v)' = {}
             /\ \A v \in Workers : WorkerHolds(v)'
             /\ workers' \in [Workers -> WorkerRecords]
             /\ Cardinality(job.active) \in Nat /\ Cardinality(job'.active) = Cardinality(job.active) - 1
<1> DEFINE p == workers[w].profile
           r == [IdleWorker EXCEPT !.step = "take"]
<1>1. BenchTyped /\ workers[w] \in WorkerRecords /\ WorkerHolds(w)
  BY DEF BenchInv, BenchTyped
<1>2. p \in Profiles /\ p # Nobody
  BY <1>1 DEF WorkerHolds, HasProfile, WorkerRecords
<1>3. job.running /\ InOnePlace /\ job.active = InHand
  BY WorkersRun DEF BenchInv, RunInv
<1>4. r \in WorkerRecords /\ r.step = "take" /\ r.profile = Nobody /\ r.result = NoResult
  <2>1. NoResult \in Results \cup {NoResult} /\ Nobody \in Profiles \cup {Nobody}
    OBVIOUS
  <2> QED
    BY <2>1 DEF IdleWorker, WorkerRecords, WorkerSteps
<1> HIDE DEF r
<1>5. \A u, v \in Workers : u # v => Held(u) \cap Held(v) = {}
  BY <1>3 DEF InOnePlace
<1>6. Held(w) = {p}
  BY <1>2 DEF Held
<1>7. workers' = [workers EXCEPT ![w] = r]
  BY DEF r
<1>8. /\ workers'[w] = r /\ \A v \in Workers : v # w => workers'[v] = workers[v]
      /\ \A v \in Workers : v # w => Held(v)' = Held(v)
      /\ Held(w)' = {} /\ InHand' = InHand \ {p}
  <2>1. {r.profile} \ {Nobody} = {}
    BY <1>4
  <2>2. /\ workers'[w] = r /\ \A v \in Workers : v # w => workers'[v] = workers[v]
        /\ \A v \in Workers : v # w => Held(v)' = Held(v)
        /\ Held(w)' = {r.profile} \ {Nobody}
        /\ InHand' = (InHand \ Held(w)) \cup ({r.profile} \ {Nobody})
    BY <1>1, <1>5, <1>7, HandsChange
  <2> QED
    BY <1>6, <2>1, <2>2
<1>9. \A u, v \in Workers : u # v => Held(u)' \cap Held(v)' = {}
  BY <1>5, <1>8
<1>10. p \in InHand
  BY <1>2 DEF InHand
<1>11. (\A s : Capable(s)' <=> Capable(s)) /\ (Searching' <=> Searching)
  BY SameServers
<1>12. ASSUME NEW v \in Workers PROVE WorkerHolds(v)'
  <2>1. CASE v = w
    BY <1>4, <1>8, <2>1 DEF WorkerHolds, HasProfile
  <2>2. CASE v # w
    BY <1>8, <1>11, <2>2 DEF BenchInv, WorkerHolds
  <2> QED
    BY <2>1, <2>2
<1>13. workers' \in [Workers -> WorkerRecords]
  BY <1>1, <1>4, <1>7, WorkerTyped
<1>14. Cardinality(job.active) \in Nat /\ Cardinality(job'.active) = Cardinality(job.active) - 1
  <2>1. IsFiniteSet(job.active) /\ Cardinality(job.active) \in Nat /\ p \in job.active
    BY <1>1, <1>3, <1>10, JobSets
  <2>2. Cardinality(job.active \ {p}) = Cardinality(job.active) - 1
    BY <2>1, FS_RemoveElement
  <2> QED
    BY <2>1, <2>2
<1> QED
  BY <1>2, <1>3, <1>4, <1>8, <1>9, <1>10, <1>12, <1>13, <1>14

(* A cancelled job loses the profile a worker had in its hands.            *)
LEMMA ResultDropped ==
  ASSUME BenchInv, NEW w \in Workers, DropResult(w)
  PROVE  BenchInv'
<1> DEFINE p == workers[w].profile
           a == Cardinality(job.active)
<1>1. /\ UNCHANGED <<able, dead, history, searchCursor, queue, cancel, stoppers, handle, spent>> /\ cancel
      /\ workers[w].step = "probed" /\ job' = [job EXCEPT !.active = job.active \ {p}]
      /\ workers' = [workers EXCEPT ![w] = [IdleWorker EXCEPT !.step = "take"]]
  BY DEF DropResult, Unused
<1>2. BenchTyped /\ job \in JobRecords
  BY DEF BenchInv, BenchTyped
<1>3. /\ job'.request = job.request /\ job'.running = job.running /\ job'.total = job.total
      /\ job'.threads = job.threads /\ job'.completed = job.completed /\ job'.results = job.results
      /\ job'.found = job.found /\ job'.finish = job.finish /\ job'.active = job.active \ {p}
      /\ job'.preflights = job.preflights /\ job'.rejected = job.rejected /\ job' \in JobRecords
  BY <1>1, <1>2 DEF JobRecords
<1>4. /\ job.running /\ p \in Profiles /\ p \in InHand /\ p \in job.active
      /\ job.active = InHand /\ InHand' = InHand \ {p}
      /\ workers'[w].step = "take" /\ \A v \in Workers : v # w => workers'[v] = workers[v]
      /\ \A u, v \in Workers : u # v => Held(u)' \cap Held(v)' = {}
      /\ \A v \in Workers : WorkerHolds(v)'
      /\ workers' \in [Workers -> WorkerRecords]
      /\ a \in Nat /\ Cardinality(job'.active) = a - 1
  BY <1>1, <1>3, HandEmptied
<1>5. RunInv /\ InOnePlace /\ Counted /\ OneEach /\ job.finish = "none" /\ job.threads >= 1
  BY <1>4 DEF BenchInv, RunInv
<1>6. (\A s : Capable(s)' <=> Capable(s)) /\ (Searching' <=> Searching)
  BY <1>1, <1>3, SameServers
<1>7. (\A q : Good(q)' <=> Good(q)) /\ Done' = Done
  BY <1>3, SameResults
<1>8. BenchTyped'
  BY <1>1, <1>2, <1>3, <1>4 DEF BenchTyped
<1>9. Tallies' /\ Resting'
  BY <1>3, <1>4 DEF BenchInv, Tallies, Resting
<1>10. InOnePlace'
  BY <1>1, <1>3, <1>4, <1>5, <1>7 DEF InOnePlace
<1>11. Len(queue) \in Nat /\ job.completed \in Nat /\ job.total \in Nat /\ job.found \in Nat
  BY <1>2, JobSets
<1> HIDE DEF a
<1>12. Counted'
  <2>1. Left = Len(queue) + a + job.completed
    BY DEF Left, a
  <2>2. Left' = Len(queue) + (a - 1) + job.completed
    BY <1>1, <1>3, <1>4 DEF Left
  <2>3. Left' <= job.total
    BY <1>4, <1>5, <1>11, <2>1, <2>2 DEF Counted
  <2> QED
    BY <1>1, <1>3, <2>3 DEF Counted
<1>13. OneEach'
  BY <1>1, <1>4, <1>5, <1>6, <1>7 DEF OneEach, Taken
<1>14. ASSUME NEW v \in Workers PROVE Leaves(v)'
  <2>1. Leaves(v)
    BY <1>5, <1>4 DEF RunInv
  <2>2. v # w => workers'[v].step = workers[v].step
    BY <1>4
  <2> QED
    BY <1>1, <1>3, <1>4, <2>1, <2>2 DEF Leaves
<1>15. RunInv'
  BY <1>3, <1>4, <1>5, <1>10, <1>12, <1>13, <1>14 DEF RunInv
<1>16. SearchCounts'
  <2> SUFFICES ASSUME Searching PROVE SearchCounts'
    BY <1>6 DEF SearchCounts
  <2>1. SearchCounts
    BY DEF BenchInv
  <2>2. {q \in Profiles : Good(q)}' = {q \in Profiles : Good(q)}
    BY <1>7
  <2>3. job.found + a <= job.request.target /\ job.request.target \in Nat
    <3>1. job.request \in RequestSet \/ job.request = NoRequest
      BY <1>2, BenchAssumption DEF JobRecords
    <3>2. job.request.target \in Nat
      BY <3>1 DEF RequestSet, NoRequest
    <3> QED
      BY <2>1, <3>2 DEF SearchCounts, a
  <2>4. job'.found + Cardinality(job'.active) <= job'.request.target
    BY <1>3, <1>4, <1>11, <2>3
  <2> QED
    BY <1>1, <1>3, <1>6, <2>1, <2>2, <2>4 DEF SearchCounts
<1>17. FinishTrue'
  BY <1>3, <1>5 DEF FinishTrue
<1> QED
  BY <1>4, <1>8, <1>9, <1>15, <1>16, <1>17 DEF BenchInv

(* What a search asks for.                                                 *)
LEMMA TargetAsked ==
  ASSUME BenchTyped
  PROVE  job.request.target \in Nat /\ job.found \in Nat
<1>1. job.request \in RequestSet \/ job.request = NoRequest
  BY BenchAssumption DEF BenchTyped, JobRecords
<1>2. job.request.target \in Nat
  BY <1>1 DEF RequestSet, NoRequest
<1> QED
  BY <1>2 DEF BenchTyped, JobRecords

(* The results of a job after one more.                                    *)
LEMMA OneMoreResult ==
  ASSUME BenchTyped, InOnePlace, NEW result \in Results \cup {NoResult}, NEW p \in Profiles, p \notin Done,
         result # NoResult => result.profile = p,
         job'.request = job.request,
         job'.results = IF result = NoResult THEN job.results ELSE Append(job.results, result)
  PROVE  /\ job'.results \in Seq(Results) /\ Len(job'.results) <= Len(job.results) + 1
         /\ Done \subseteq Done' /\ Done' \subseteq Done \cup {p}
         /\ \A i, j \in DOMAIN job'.results : job'.results[i].profile = job'.results[j].profile => i = j
         /\ \A q : Good(q)' <=>
              Good(q) \/ (q = p /\ result # NoResult /\ AdaptiveGood(result, job.request.required))
         /\ Len(job.results) \in Nat /\ Len(job'.results) \in Nat
<1> DEFINE s == job.results
           t == job'.results
<1>1. s \in Seq(Results) /\ Len(s) \in Nat /\ DOMAIN s = 1..Len(s)
  BY JobSets
<1>2. CASE result = NoResult
  <2>1. t = s
    BY <1>2
  <2>2. (\A q : Good(q)' <=> Good(q)) /\ Done' = Done
    BY <2>1, SameResults
  <2> QED
    BY <1>1, <1>2, <2>1, <2>2 DEF InOnePlace
<1>3. CASE result # NoResult
  <2>1. result \in Results /\ t = Append(s, result) /\ result.profile = p
    BY <1>3
  <2> DEFINE n == Len(s)
  <2>2. /\ t \in Seq(Results) /\ Len(t) = n + 1 /\ DOMAIN t = 1..(n + 1)
        /\ t[n + 1] = result /\ \A i \in 1..n : t[i] = s[i]
    <3>1. t \in Seq(Results) /\ Len(t) = n + 1 /\ \A i \in 1..Len(s) : Append(s, result)[i] = s[i]
          /\ Append(s, result)[Len(s) + 1] = result
      BY <1>1, <2>1, AppendProperties
    <3> QED
      BY <2>1, <3>1, LenProperties
  <2> HIDE DEF s, t, n
  <2>3. n \in Nat /\ DOMAIN s = 1..n /\ Len(s) = n
    BY <1>1 DEF n
  <2>4. \A i \in 1..(n + 1) : i = n + 1 \/ i \in 1..n
    BY <2>3
  <2>5. (n + 1) \in 1..(n + 1) /\ \A i \in 1..n : i \in 1..(n + 1)
    BY <2>3
  <2>6. \A i \in 1..n : s[i].profile # p
    <3>1. \A i \in 1..n : s[i].profile \in Done
      BY <2>3 DEF Done, s
    <3> QED
      BY <3>1
  <2>7. Done' = Done \cup {p}
    <3>1. \A q : q \in Done <=> \E i \in 1..n : s[i].profile = q
      BY <2>3 DEF Done, s
    <3>2. \A q : q \in Done' <=> \E i \in 1..(n + 1) : t[i].profile = q
      BY <2>2 DEF Done, t
    <3>3. ASSUME NEW q PROVE q \in Done' <=> q \in Done \/ q = p
      BY <2>1, <2>2, <2>4, <2>5, <3>1, <3>2
    <3> QED
      BY <3>3
  <2>8. \A i, j \in 1..(n + 1) : t[i].profile = t[j].profile => i = j
    <3>1. \A i, j \in 1..n : s[i].profile = s[j].profile => i = j
      BY <2>3 DEF InOnePlace, s
    <3> QED
      BY <2>1, <2>2, <2>4, <2>6, <3>1
  <2>9. \A q : Good(q)' <=> Good(q) \/ (q = p /\ AdaptiveGood(result, job.request.required))
    <3>1. \A q : Good(q) <=> \E i \in 1..n : s[i].profile = q /\ AdaptiveGood(s[i], job.request.required)
      BY <2>3 DEF Good, s
    <3>2. \A q : Good(q)' <=> \E i \in 1..(n + 1) : t[i].profile = q /\ AdaptiveGood(t[i], job.request.required)
      BY <2>2 DEF Good, t
    <3> QED
      BY <2>1, <2>2, <2>4, <2>5, <3>1, <3>2
  <2> QED
    BY <1>3, <2>2, <2>3, <2>7, <2>8, <2>9 DEF t, s
<1> QED
  BY <1>2, <1>3

(* A result moves the profile from the hands to what is done; a good one   *)
(* fills the place its profile had reserved.                               *)
LEMMA ResultRecorded ==
  ASSUME BenchInv, NEW w \in Workers, RecordResult(w)
  PROVE  BenchInv'
<1> DEFINE p == workers[w].profile
           result == workers[w].result
           a == Cardinality(job.active)
           results == IF result = NoResult THEN job.results ELSE Append(job.results, result)
           found == IF NewlyGood(result) THEN job.found + 1 ELSE job.found
           completed == job.completed + 1
           isGood == result # NoResult /\ AdaptiveGood(result, job.request.required)
<1>1. /\ UNCHANGED <<able, dead, history, searchCursor, queue, cancel, stoppers, handle, spent>>
      /\ workers[w].step = "record"
      /\ job' = [job EXCEPT !.active = job.active \ {p}, !.completed = completed,
                            !.results = results, !.found = found]
      /\ workers' = [workers EXCEPT ![w] = [IdleWorker EXCEPT !.step = "take"]]
  BY DEF RecordResult, Unused
<1>2. BenchTyped /\ job \in JobRecords /\ WorkerHolds(w) /\ workers[w] \in WorkerRecords /\ Tallies
  BY DEF BenchInv, BenchTyped
<1>3. result \in Results \cup {NoResult} /\ (result # NoResult => result.profile = p)
  BY <1>2 DEF WorkerHolds, WorkerRecords
<1>4. found \in Nat /\ completed \in Nat /\ job.found \in Nat /\ found >= job.found /\ completed >= job.completed
  BY <1>2 DEF JobRecords
<1> HIDE DEF results, found, completed
<1>5. /\ job'.request = job.request /\ job'.running = job.running /\ job'.total = job.total
      /\ job'.threads = job.threads /\ job'.completed = completed /\ job'.results = results
      /\ job'.found = found /\ job'.finish = job.finish /\ job'.active = job.active \ {p}
      /\ job'.preflights = job.preflights /\ job'.rejected = job.rejected
  BY <1>1, <1>2 DEF JobRecords
<1>6. /\ job.running /\ p \in Profiles /\ p \in InHand /\ p \in job.active
      /\ job.active = InHand /\ InHand' = InHand \ {p}
      /\ workers'[w].step = "take" /\ \A v \in Workers : v # w => workers'[v] = workers[v]
      /\ \A u, v \in Workers : u # v => Held(u)' \cap Held(v)' = {}
      /\ \A v \in Workers : WorkerHolds(v)'
      /\ workers' \in [Workers -> WorkerRecords]
      /\ a \in Nat /\ Cardinality(job'.active) = a - 1
  BY <1>1, <1>5, HandEmptied
<1>7. RunInv /\ InOnePlace /\ Counted /\ OneEach /\ job.finish = "none" /\ job.threads >= 1
  BY <1>6 DEF BenchInv, RunInv
<1>8. p \notin Done /\ p \notin ToSet(queue)
  BY <1>6, <1>7 DEF InOnePlace
<1>9. /\ results \in Seq(Results) /\ Len(results) <= Len(job.results) + 1
      /\ Done \subseteq Done' /\ Done' \subseteq Done \cup {p}
      /\ \A i, j \in DOMAIN job'.results : job'.results[i].profile = job'.results[j].profile => i = j
      /\ \A q : Good(q)' <=> Good(q) \/ (q = p /\ isGood)
      /\ Len(job.results) \in Nat /\ Len(results) \in Nat
  <2>1. job'.results = IF result = NoResult THEN job.results ELSE Append(job.results, result)
    BY <1>5 DEF results
  <2> HIDE DEF p, result
  <2>2. /\ job'.results \in Seq(Results) /\ Len(job'.results) <= Len(job.results) + 1
        /\ Done \subseteq Done' /\ Done' \subseteq Done \cup {p}
        /\ \A i, j \in DOMAIN job'.results : job'.results[i].profile = job'.results[j].profile => i = j
        /\ \A q : Good(q)' <=>
             Good(q) \/ (q = p /\ result # NoResult /\ AdaptiveGood(result, job.request.required))
        /\ Len(job.results) \in Nat /\ Len(job'.results) \in Nat
    BY <1>2, <1>3, <1>5, <1>6, <1>7, <1>8, <2>1, OneMoreResult
  <2> QED
    BY <1>5, <2>2
<1>10. job' \in JobRecords
  BY <1>1, <1>2, <1>4, <1>9 DEF JobRecords
<1>11. BenchTyped'
  BY <1>1, <1>2, <1>6, <1>10 DEF BenchTyped
<1>12. Len(queue) \in Nat /\ job.completed \in Nat /\ job.total \in Nat /\ a >= 1
  <2>1. Len(queue) \in Nat /\ job.completed \in Nat /\ job.total \in Nat /\ IsFiniteSet(job.active)
    BY <1>2, JobSets
  <2>2. a # 0
    BY <1>6, <2>1, FS_EmptySet
  <2> QED
    BY <1>6, <2>1, <2>2
<1> HIDE DEF a
<1>13. Left = Len(queue) + a + job.completed /\ Left' = Left
  <2>1. Left = Len(queue) + a + job.completed
    BY DEF Left, a
  <2>2. Left' = Len(queue) + (a - 1) + completed
    BY <1>1, <1>5, <1>6 DEF Left
  <2>3. completed = job.completed + 1
    BY DEF completed
  <2> QED
    BY <1>6, <1>12, <2>1, <2>2, <2>3
<1>14. Counted'
  BY <1>1, <1>5, <1>7, <1>13 DEF Counted
<1>15. Tallies'
  <2>1. completed <= job.total
    BY <1>6, <1>7, <1>12, <1>13 DEF Counted, completed
  <2>2. Len(results) <= completed
    BY <1>2, <1>9, <1>12 DEF Tallies, completed
  <2> QED
    BY <1>2, <1>5, <2>1, <2>2 DEF Tallies
<1>16. Resting'
  BY <1>5, <1>6 DEF Resting
<1>17. (\A s : Capable(s)' <=> Capable(s)) /\ (Searching' <=> Searching)
  BY <1>1, <1>5, SameServers
<1>18. InOnePlace'
  <2>1. Lists(queue', ToSet(queue')) /\ ToSet(queue') \cap InHand' = {}
    BY <1>1, <1>6, <1>7 DEF InOnePlace
  <2>2. ToSet(queue') \cap Done' = {} /\ InHand' \cap Done' = {}
    BY <1>1, <1>6, <1>7, <1>8, <1>9 DEF InOnePlace
  <2> QED
    BY <1>6, <1>9, <2>1, <2>2 DEF InOnePlace
<1>19. OneEach'
  <2>1. Taken' \subseteq Taken
    BY <1>1, <1>6, <1>9 DEF Taken
  <2> QED
    BY <1>7, <1>17, <2>1 DEF OneEach
<1>20. ASSUME NEW v \in Workers PROVE Leaves(v)'
  <2>1. Leaves(v)
    BY <1>6, <1>7 DEF RunInv
  <2>2. TargetReached => TargetReached'
    <3>1. job.request.target \in Nat
      BY <1>2, TargetAsked
    <3> QED
      BY <1>4, <1>5, <1>17, <3>1 DEF TargetReached
  <2>3. v # w => workers'[v].step = workers[v].step
    BY <1>6
  <2> QED
    BY <1>1, <1>5, <1>6, <2>1, <2>2, <2>3 DEF Leaves
<1>21. RunInv'
  BY <1>5, <1>6, <1>7, <1>14, <1>18, <1>19, <1>20 DEF RunInv
<1>22. SearchCounts'
  <2> SUFFICES ASSUME Searching PROVE SearchCounts'
    BY <1>17 DEF SearchCounts
  <2> DEFINE G == {q \in Profiles : Good(q)}
             c == Cardinality(G)
  <2>1. SearchCounts
    BY DEF BenchInv
  <2>2. ~Good(p)
    BY <1>8 DEF Good, Done
  <2>3. IsFiniteSet(G) /\ c \in Nat
    BY <1>2, JobSets
  <2>4. {q \in Profiles : Good(q)}' = IF isGood THEN G \cup {p} ELSE G
    BY <1>6, <1>9
  <2>5. NewlyGood(result) <=> isGood
    <3>1. \A i \in DOMAIN job.results : job.results[i].profile # p
      BY <1>8 DEF Done
    <3> QED
      BY <1>3, <3>1 DEF NewlyGood
  <2>6. Cardinality(G \cup {p}) = c + 1
    BY <2>2, <2>3, FS_AddElement
  <2>7. job.found = c /\ job.found + a <= job.request.target
    BY <2>1 DEF SearchCounts, a
  <2> HIDE DEF G
  <2>8. job'.found = Cardinality({q \in Profiles : Good(q)}')
    <3> HIDE DEF c, isGood
    <3>1. CASE isGood
      BY <1>5, <2>4, <2>5, <2>6, <2>7, <3>1 DEF found
    <3>2. CASE ~isGood
      BY <1>5, <2>4, <2>5, <2>7, <3>2 DEF found, c
    <3> QED
      BY <3>1, <3>2
  <2>9. job'.found + Cardinality(job'.active) <= job'.request.target
    <3>1. found <= job.found + 1
      BY <1>4 DEF found
    <3>2. found + (a - 1) <= job.request.target
      <4>1. job.request.target \in Nat
        BY <1>2, TargetAsked
      <4> QED
        BY <1>4, <1>6, <2>7, <3>1, <4>1
    <3> QED
      BY <1>5, <1>6, <3>2
  <2>10. ASSUME ~cancel, NEW s \in BenchServers \ dead, Capable(s) PROVE Covered(s)'
    <3>1. PICK q \in Profiles : ServerOf[q] = s /\ (q \in ToSet(queue) \/ q \in InHand \/ Good(q))
      BY <1>6, <2>1, <2>10 DEF SearchCounts, Covered
    <3>2. CASE q = p
      <4>1. isGood
        BY <1>1, <1>2, <2>10, <3>1, <3>2 DEF WorkerHolds
      <4>2. Good(q)'
        BY <1>9, <3>2, <4>1
      <4> QED
        BY <3>1, <4>2 DEF Covered
    <3>3. CASE q # p
      <4>1. q \in ToSet(queue') \/ q \in InHand' \/ Good(q)'
        BY <1>1, <1>6, <1>9, <3>1, <3>3
      <4> QED
        BY <3>1, <4>1 DEF Covered
    <3> QED
      BY <3>2, <3>3
  <2> QED
    BY <1>1, <1>17, <2>8, <2>9, <2>10 DEF SearchCounts
<1>23. FinishTrue'
  BY <1>5, <1>7 DEF FinishTrue
<1> QED
  BY <1>6, <1>11, <1>15, <1>16, <1>21, <1>22, <1>23 DEF BenchInv

-----------------------------------------------------------------------------
(* The last worker has gone: nothing was left to do.                       *)
LEMMA JobFinished ==
  ASSUME BenchInv, FinishJob
  PROVE  BenchInv'
<1>1. /\ UNCHANGED <<able, dead, history, searchCursor, queue, cancel, handle, spent>>
      /\ job.running /\ \A w \in Workers : workers[w].step \in {"idle", "gone"}
      /\ job' = [job EXCEPT !.running = FALSE, !.active = {}, !.finish = FinishReason]
      /\ workers' = [w \in Workers |-> IdleWorker]
  BY DEF FinishJob, Unused, IsRunning
<1>2. BenchTyped /\ job \in JobRecords
  BY DEF BenchInv, BenchTyped
<1>3. FinishReason \in {"none", "cancelled", "target_reached", "exhausted"}
  BY DEF FinishReason
<1>4. /\ job'.request = job.request /\ job'.running = FALSE /\ job'.total = job.total
      /\ job'.completed = job.completed /\ job'.results = job.results /\ job'.found = job.found
      /\ job'.finish = FinishReason /\ job'.active = {}
      /\ job'.preflights = job.preflights /\ job'.rejected = job.rejected /\ job' \in JobRecords
  BY <1>1, <1>2, <1>3 DEF JobRecords
<1>5. BenchTyped'
  <2>1. IdleWorker \in WorkerRecords
    <3>1. NoResult \in Results \cup {NoResult} /\ Nobody \in Profiles \cup {Nobody}
      OBVIOUS
    <3> QED
      BY <3>1 DEF IdleWorker, WorkerRecords, WorkerSteps
  <2>2. stoppers' \in [Stoppers -> {"idle", "cancel", "leave", "joining"}]
    BY <1>2 DEF FinishJob, BenchTyped
  <2> QED
    BY <1>1, <1>2, <1>4, <2>1, <2>2 DEF BenchTyped
<1>6. (\A s : Capable(s)' <=> Capable(s)) /\ (Searching' <=> Searching)
  BY <1>1, <1>4, SameServers
<1>7. (\A p : Good(p)' <=> Good(p)) /\ Done' = Done
  BY <1>4, SameResults
<1>8. RunInv /\ job.active = InHand /\ job.threads >= 1 /\ \A w \in Workers : WorkerHolds(w) /\ Leaves(w)
  BY <1>1 DEF BenchInv, RunInv
<1>9. InHand = {}
  BY <1>1, <1>8 DEF InHand, WorkerHolds, HasProfile
<1>10. Tallies' /\ Resting'
  BY <1>1, <1>4 DEF BenchInv, Tallies, Resting
<1>11. ASSUME NEW w \in Workers PROVE WorkerHolds(w)'
  BY <1>1 DEF WorkerHolds, IdleWorker, HasProfile
<1>12. SearchCounts'
  <2>1. SearchCounts /\ job.active = {}
    BY <1>8, <1>9 DEF BenchInv
  <2>2. {p \in Profiles : Good(p)}' = {p \in Profiles : Good(p)}
    BY <1>7
  <2> QED
    BY <1>4, <1>6, <2>1, <2>2 DEF SearchCounts
<1>13. Searching /\ ~cancel => TargetReached \/ queue = <<>>
  <2>1. 1 \in Workers /\ job.threads \in Nat
    BY <1>2, BenchAssumption DEF Workers, JobRecords
  <2>2. workers[1].step = "gone"
    BY <1>1, <1>8, <2>1 DEF Leaves
  <2> QED
    BY <1>8, <2>1, <2>2 DEF Leaves
<1>14. FinishTrue'
  <2>1. CASE FinishReason = "exhausted"
    <3>1. Searching /\ ~cancel /\ ~TargetReached
      BY <2>1 DEF FinishReason
    <3>2. queue = <<>> /\ ToSet(queue) = {}
      BY <1>13, <3>1 DEF ToSet
    <3>3. job.found < job.request.target
      BY <1>2, <3>1, TargetAsked DEF TargetReached
    <3>4. ASSUME NEW s \in BenchServers \ dead, Capable(s) PROVE Found(s)'
      <4>1. Covered(s)
        BY <1>1, <3>1, <3>4 DEF BenchInv, SearchCounts
      <4> QED
        BY <1>7, <1>9, <3>2, <4>1 DEF Covered, Found
    <3> QED
      BY <1>1, <1>4, <1>6, <2>1, <3>3, <3>4 DEF FinishTrue
  <2>2. CASE FinishReason = "target_reached"
    <3>1. TargetReached
      BY <2>2 DEF FinishReason
    <3> QED
      BY <1>4, <1>6, <2>2, <3>1 DEF FinishTrue, TargetReached
  <2>3. CASE FinishReason # "exhausted" /\ FinishReason # "target_reached"
    BY <1>4, <2>3 DEF FinishTrue
  <2> QED
    BY <2>1, <2>2, <2>3
<1> QED
  BY <1>4, <1>5, <1>10, <1>11, <1>12, <1>14 DEF BenchInv, RunInv

-----------------------------------------------------------------------------
(* What a job tests, and that a set of profiles is what it tests.          *)
JobTests(request) == IF request.kind = "search" THEN OrderedCandidates(request) ELSE Selected
TestsAll(request, P) ==
  /\ Lists(JobTests(request), P) /\ P \subseteq Profiles
  /\ request.kind = "search" => OnePerServer(P)

(* A search tests one profile of each living server, others all profiles   *)
(* of living servers.                                                      *)
LEMMA JobProfiles ==
  ASSUME BenchTyped, NEW request \in Requests
  PROVE  \E P : TestsAll(request, P)
<1> DEFINE profiles == JobTests(request)
<1>1. searchCursor \in Nat
  BY BenchAssumption DEF BenchTyped
<1>2. CASE request.kind = "search"
  <2>1. PICK P : Lists(Candidates, P) /\ OnePerServer(P)
    BY CandidatesLists
  <2>2. Lists(profiles, P)
    BY <1>1, <1>2, <2>1, OrderedLists DEF JobTests
  <2> QED
    BY <2>1, <2>2 DEF OnePerServer, TestsAll
<1>3. CASE request.kind # "search"
  <2> DEFINE P == {p \in Profiles : ServerOf[p] \notin dead}
  <2>1. Lists(profiles, P)
    BY <1>3, SelectedLists DEF JobTests
  <2>2. P \subseteq Profiles
    OBVIOUS
  <2> HIDE DEF P
  <2> QED
    BY <1>3, <2>1, <2>2 DEF TestsAll
<1> QED
  BY <1>2, <1>3

(* A job starts with every profile in its queue, and nothing counted.      *)
LEMMA JobStarted ==
  ASSUME BenchInv, NEW request \in Requests, StartBench(request)
  PROVE  BenchInv'
<1> DEFINE profiles == JobTests(request)
<1>1. /\ UNCHANGED <<able, dead, history, stoppers, spent>> /\ ~job.running /\ profiles # <<>>
      /\ \E allowed \in 1..MaxWorkers : job' = NewJob(request, profiles, allowed)
      /\ workers' = [w \in Workers |-> IF w <= job'.threads THEN [IdleWorker EXCEPT !.step = "take"] ELSE IdleWorker]
      /\ queue' = profiles /\ cancel' = FALSE /\ handle' = TRUE
      /\ searchCursor' = IF request.kind = "search" THEN (searchCursor + 1) % CursorSpan ELSE searchCursor
  BY DEF StartBench, Unused, IsRunning, JobTests
<1>2. BenchTyped
  BY DEF BenchInv
<1>2a. PICK P : TestsAll(request, P)
  BY <1>2, JobProfiles
<1>3. Lists(profiles, P) /\ P \subseteq Profiles /\ (request.kind = "search" => OnePerServer(P))
  BY <1>2a DEF TestsAll
<1> HIDE DEF profiles
<1> DEFINE n == Len(profiles)
<1>4. n \in Nat /\ n # 0 /\ n <= Len(ProfileList) /\ Len(ProfileList) \in Nat
      /\ ToSet(profiles) = P /\ profiles \in Seq(Profiles)
  <2>1. n \in Nat /\ ToSet(profiles) = P /\ profiles \in Seq(P)
    BY <1>3, ListCount DEF Lists
  <2>2. n <= Len(ProfileList) /\ Len(ProfileList) \in Nat
    BY <1>3, ProfileCount
  <2>3. n # 0
    BY <1>1, <2>1, EmptySeq
  <2>4. profiles \in Seq(Profiles)
    <3>1. profiles \in [1..n -> P]
      BY <2>1, LenProperties
    <3>2. profiles \in [1..n -> Profiles]
      BY <1>3, <3>1
    <3> HIDE DEF n
    <3> QED
      BY <2>1, <3>2
  <2> QED
    BY <2>1, <2>2, <2>3, <2>4
<1>5. PICK allowed \in 1..MaxWorkers : job' = NewJob(request, profiles, allowed)
  BY <1>1
<1> DEFINE threads == IF allowed < n THEN allowed ELSE n
<1>6. threads \in 1..MaxWorkers /\ threads \in Nat
  BY <1>4, BenchAssumption
<1>7. NoJob \in JobRecords /\ NoJob.completed = 0 /\ NoJob.results = <<>> /\ NoJob.active = {}
      /\ NoJob.found = 0 /\ NoJob.preflights = 0 /\ NoJob.rejected = 0 /\ NoJob.finish = "none"
  BY <1>4, BenchAssumption DEF NoJob, JobRecords
<1>8. job' = [NoJob EXCEPT !.request = request, !.running = TRUE, !.total = n, !.threads = threads]
  BY <1>5 DEF NewJob
<1> HIDE DEF n, threads
<1>9. /\ job' \in JobRecords /\ job'.request = request /\ job'.running = TRUE /\ job'.total = n
      /\ job'.threads = threads /\ job'.completed = 0 /\ job'.results = <<>> /\ job'.active = {}
      /\ job'.found = 0 /\ job'.preflights = 0 /\ job'.rejected = 0 /\ job'.finish = "none"
  <2>1. n \in 0..Len(ProfileList) /\ threads \in 0..MaxWorkers
    BY <1>4, <1>6, BenchAssumption
  <2> QED
    BY <1>7, <1>8, <2>1 DEF JobRecords
<1>10. IdleWorker \in WorkerRecords /\ [IdleWorker EXCEPT !.step = "take"] \in WorkerRecords
  <2>1. NoResult \in Results \cup {NoResult} /\ Nobody \in Profiles \cup {Nobody}
    OBVIOUS
  <2> QED
    BY <2>1 DEF IdleWorker, WorkerRecords, WorkerSteps
<1>11. \A w \in Workers : /\ workers'[w].step \in {"idle", "take"} /\ workers'[w].profile = Nobody
                          /\ workers'[w].result = NoResult
                          /\ workers'[w].step = "idle" => w > threads
  <2> SUFFICES ASSUME NEW w \in Workers
               PROVE  /\ workers'[w].step \in {"idle", "take"} /\ workers'[w].profile = Nobody
                      /\ workers'[w].result = NoResult
                      /\ workers'[w].step = "idle" => w > threads
    OBVIOUS
  <2>1. CASE w <= threads
    <3>1. workers'[w] = [IdleWorker EXCEPT !.step = "take"]
      BY <1>1, <1>9, <2>1
    <3> QED
      BY <3>1 DEF IdleWorker
  <2>2. CASE ~(w <= threads)
    <3>1. workers'[w] = IdleWorker
      BY <1>1, <1>9, <2>2
    <3>2. w > threads
      BY <1>6, <2>2 DEF Workers
    <3> QED
      BY <3>1, <3>2 DEF IdleWorker
  <2> QED
    BY <2>1, <2>2
<1>12. BenchTyped'
  <2>1. workers' \in [Workers -> WorkerRecords]
    BY <1>1, <1>10
  <2>2. searchCursor' \in 0..(CursorSpan - 1)
    <3>1. searchCursor \in 0..(CursorSpan - 1) /\ CursorSpan \in Nat /\ CursorSpan # 0
      BY <1>2, BenchAssumption DEF BenchTyped
    <3>2. (searchCursor + 1) % CursorSpan \in 0..(CursorSpan - 1)
      BY <3>1
    <3> QED
      BY <1>1, <3>1, <3>2
  <2> QED
    BY <1>1, <1>2, <1>4, <1>9, <2>1, <2>2 DEF BenchTyped
<1>13. InHand' = {} /\ \A w \in Workers : Held(w)' = {}
  BY <1>11 DEF InHand, Held
<1>14. Done' = {} /\ \A p : ~Good(p)'
  BY <1>9 DEF Done, Good
<1>15. Cardinality({}) = 0
  BY FS_EmptySet
<1>16. Tallies' /\ Resting'
  <2>1. Len(<<>>) = 0
    OBVIOUS
  <2> QED
    BY <1>4, <1>9, <2>1 DEF Tallies, Resting
<1>17. \A w \in Workers : WorkerHolds(w)' /\ Leaves(w)'
  BY <1>9, <1>11 DEF WorkerHolds, Leaves, HasProfile
<1>18. RunInv'
  <2>1. InOnePlace'
    BY <1>1, <1>3, <1>4, <1>9, <1>13, <1>14 DEF InOnePlace
  <2>2. Counted'
    <3>1. Left' = n + 0 + 0
      BY <1>1, <1>9, <1>15 DEF Left, n
    <3> QED
      BY <1>4, <1>9, <3>1 DEF Counted
  <2>3. OneEach'
    <3>1. Taken' = P
      BY <1>1, <1>4, <1>13, <1>14 DEF Taken
    <3> QED
      BY <1>3, <1>9, <3>1 DEF OneEach, OnePerServer, Searching
  <2> QED
    BY <1>6, <1>9, <1>13, <1>17, <2>1, <2>2, <2>3 DEF RunInv
<1>19. SearchCounts'
  <2> SUFFICES ASSUME request.kind = "search" PROVE SearchCounts'
    BY <1>9 DEF SearchCounts, Searching
  <2>1. {p \in Profiles : Good(p)}' = {}
    BY <1>14
  <2>2. request.target \in Nat
    BY BenchAssumption DEF RequestSet
  <2>3. ASSUME NEW s \in BenchServers \ dead PROVE Covered(s)'
    BY <1>1, <1>3, <1>4, <2>3 DEF OnePerServer, Covered
  <2>4. job'.found = Cardinality({p \in Profiles : Good(p)}')
    BY <1>9, <1>15, <2>1
  <2>5. job'.found + Cardinality(job'.active) <= job'.request.target
    BY <1>9, <1>15, <2>2
  <2> QED
    BY <1>1, <2>3, <2>4, <2>5 DEF SearchCounts
<1>20. FinishTrue'
  BY <1>9 DEF FinishTrue
<1> QED
  BY <1>12, <1>16, <1>17, <1>18, <1>19, <1>20 DEF BenchInv

-----------------------------------------------------------------------------
(* Every step of a handler, a worker or the job's thread keeps this.       *)
LEMMA BenchSteps ==
  ASSUME BenchInv, [BenchNext]_benchVars
  PROVE  BenchInv'
<1>1. CASE UNCHANGED benchVars
  <2>1. BenchTyped'
    BY <1>1 DEF benchVars, BenchInv, BenchTyped
  <2> QED
    BY <1>1, <2>1, JobKept DEF benchVars, SameJob
<1>2. CASE \E r \in Requests : StartBench(r) \/ StartFails(r)
  BY <1>2, JobStarted, StartFailed
<1>3. CASE \E w \in Workers : WorkerStep(w)
  BY <1>3, ProfileTaken, WorkerLeaves, PreflightEnds, ProbeEnds, ResultDropped, ResultReported, ResultRecorded
     DEF WorkerStep
<1>4. CASE FinishJob \/ MemoryAlarm
  BY <1>4, JobFinished, MemoryAlarms
<1>5. CASE \E c \in Stoppers : StopLook(c) \/ StopAct(c)
  BY <1>5, StopLooks, StopActs
<1>6. CASE \E s \in BenchServers : HistoryAges(s)
  BY <1>6, HistoryAged
<1> QED
  BY <1>1, <1>2, <1>3, <1>4, <1>5, <1>6 DEF BenchNext

(* However jobs, workers, stops and memory alarms interleave, each profile *)
(* of a running job is in one place, and a search has counted its good     *)
(* servers and missed none (run_bench_with_probe).                         *)
THEOREM BenchInvariant == BenchSpec => []BenchInv
<1>1. BenchInv /\ [BenchNext]_benchVars => BenchInv'
  BY BenchSteps
<1> QED
  BY BenchStarts, <1>1, PTL DEF BenchSpec

(* The state of the benchmark runtime has its type: what is completed is   *)
(* never more than the job's total, results never more than what is        *)
(* completed (BenchJob).                                                   *)
THEOREM BenchTypes == BenchSpec => []BenchTypeOK
<1>1. BenchInv => BenchTypeOK
  <2> SUFFICES ASSUME BenchInv PROVE BenchTypeOK
    OBVIOUS
  <2>1. BenchTyped /\ Tallies /\ job \in JobRecords
    BY DEF BenchInv, BenchTyped
  <2>2. job.completed \in 0..job.total /\ job.rejected \in 0..job.preflights
    BY <2>1, JobSets DEF Tallies, JobRecords
  <2>3. ToSet(queue) \subseteq Profiles
    <3>1. queue \in Seq(Profiles)
      BY <2>1 DEF BenchTyped
    <3> QED
      BY <3>1, LenProperties DEF ToSet
  <2>4. ToSet(job.results) \subseteq Results
    <3>1. job.results \in Seq(Results)
      BY <2>1 DEF JobRecords
    <3> QED
      BY <3>1, LenProperties DEF ToSet
  <2>5. \A w \in Workers : /\ workers[w].step \in WorkerSteps
                           /\ workers[w].profile \in Profiles \cup {Nobody}
                           /\ workers[w].result \in Results \cup {NoResult}
    BY <2>1 DEF BenchTyped, WorkerRecords
  <2>6. \A s \in BenchServers : history[s].ping \in BOOLEAN /\ history[s].tests \in Tests
    BY <2>1 DEF BenchTyped
  <2> QED
    BY <2>1, <2>2, <2>3, <2>4, <2>5, <2>6 DEF BenchTypeOK, BenchTyped, Tallies, JobRecords, WorkerSteps
<1> QED
  BY BenchInvariant, <1>1, PTL

(* A search never finds more than its target, its number of good servers   *)
(* is the number it lists, "exhausted" means no capable server was missed,  *)
(* and "target_reached" means as many as were asked for, for any number of  *)
(* profiles, servers and workers (run_bench_with_probe).                   *)
THEOREM SearchIsTrue == BenchSpec => []SearchTellsTheTruth
<1>1. BenchInv => SearchTellsTheTruth
  <2> SUFFICES ASSUME BenchInv PROVE SearchTellsTheTruth
    OBVIOUS
  <2>1. BenchTyped /\ SearchCounts /\ FinishTrue
    BY DEF BenchInv
  <2>2. job.request.target \in Nat /\ job.found \in Nat /\ Cardinality(job.active) \in Nat
    BY <2>1, TargetAsked, JobSets
  <2>3. Searching => job.found <= job.request.target /\ job.found = Cardinality({p \in Profiles : Good(p)})
    <3>1. Searching => job.found + Cardinality(job.active) <= job.request.target
      BY <2>1 DEF SearchCounts
    <3> QED
      BY <2>1, <2>2, <3>1 DEF SearchCounts
  <2>4. job.finish = "target_reached" => job.found = job.request.target
    BY <2>1, <2>2, <2>3 DEF FinishTrue
  <2> QED
    BY <2>1, <2>3, <2>4 DEF SearchTellsTheTruth, FinishTrue, Found
<1> QED
  BY BenchInvariant, <1>1, PTL

(* While a job is not cancelled no profile is lost or taken twice, and a   *)
(* search asks a server once, whichever of its profiles is first           *)
(* (order_adaptive_search_candidates and the worker loop).                 *)
THEOREM CandidatesStay == BenchSpec => []CandidatesAccounted
<1>1. BenchInv => CandidatesAccounted
  <2> SUFFICES ASSUME BenchInv, job.running, ~cancel
               PROVE  /\ Len(queue) + Cardinality(InHand) + job.completed = job.total
                      /\ Cardinality(Taken) = Len(queue) + Cardinality(InHand) + Len(job.results)
                      /\ Searching => \A p, q \in Taken : ServerOf[p] = ServerOf[q] => p = q
    BY DEF CandidatesAccounted, IsRunning, Taken, Done
  <2>1. BenchTyped /\ InOnePlace /\ Counted /\ OneEach /\ job.active = InHand
    BY DEF BenchInv, RunInv
  <2> DEFINE Q == ToSet(queue)
             n == Len(job.results)
             q == Len(queue)
             a == Cardinality(InHand)
  <2>2. IsFiniteSet(Q) /\ Cardinality(Q) = q /\ q \in Nat
    BY <2>1, ListCount DEF InOnePlace
  <2>3. IsFiniteSet(InHand) /\ a \in Nat
    BY <2>1, JobSets
  <2>4. IsFiniteSet(Done) /\ Cardinality(Done) = n /\ n \in Nat
    <3> DEFINE s == [i \in 1..n |-> job.results[i].profile]
    <3>1. n \in Nat /\ DOMAIN job.results = 1..n
      BY <2>1, JobSets
    <3>2. Lists(s, Done)
      <4>1. s \in [1..n -> Done]
        BY <3>1 DEF Done
      <4>2. s \in Seq(Done) /\ Len(s) = n
        BY <3>1, <4>1
      <4>3. \A i, j \in 1..n : s[i] = s[j] => i = j
        BY <2>1, <3>1 DEF InOnePlace
      <4>4. \A x \in Done : \E i \in 1..n : s[i] = x
        BY <3>1 DEF Done
      <4> HIDE DEF s
      <4> QED
        BY <4>2, <4>3, <4>4 DEF Lists
    <3>3. Len(s) = n
      BY <3>1
    <3> HIDE DEF s, n
    <3> QED
      BY <3>1, <3>2, <3>3, ListCount
  <2>5. Q \cap InHand = {} /\ (Q \cup InHand) \cap Done = {}
    BY <2>1 DEF InOnePlace
  <2> HIDE DEF Q, n, q, a
  <2>6. IsFiniteSet(Q \cup InHand) /\ Cardinality(Q \cup InHand) = q + a
    <3>1. Cardinality(Q \cap InHand) = 0
      BY <2>5, FS_EmptySet
    <3>2. /\ IsFiniteSet(Q \cup InHand)
          /\ Cardinality(Q \cup InHand) = Cardinality(Q) + Cardinality(InHand) - Cardinality(Q \cap InHand)
      BY <2>2, <2>3, FS_Union
    <3>3. Cardinality(InHand) = a
      BY DEF a
    <3> QED
      BY <2>2, <2>3, <3>1, <3>2, <3>3
  <2>7. Cardinality(Q \cup InHand \cup Done) = q + a + n
    <3>1. Cardinality((Q \cup InHand) \cap Done) = 0
      BY <2>5, FS_EmptySet
    <3> QED
      BY <2>2, <2>3, <2>4, <2>6, <3>1, FS_Union
  <2> QED
    BY <2>1, <2>7 DEF Counted, Left, OneEach, Taken, Q, n, q, a
<1> QED
  BY BenchInvariant, <1>1, PTL
=============================================================================
