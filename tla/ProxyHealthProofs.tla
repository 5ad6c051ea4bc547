-------------------------- MODULE ProxyHealthProofs --------------------------
(***************************************************************************)
(* Proofs about ProxyHealth: for any profiles, subscription, requests and  *)
(* faults, a running core serves the active profile, the selector moves on *)
(* samples that core itself has taken, and a failover replaces the profile *)
(* that failed.                                                            *)
(***************************************************************************)
EXTENDS ProxyHealth, SequenceTheorems, FiniteSetTheorems, TLAPS

-----------------------------------------------------------------------------
(* Lists of distinct links.                                                *)

Distinct(s) == \A i, j \in 1..Len(s) : s[i] = s[j] => i = j
Lists == {s \in Seq(Profiles) : Distinct(s)}

(* A sequence has the elements of its positions.                           *)
LEMMA Elements ==
  ASSUME NEW S, NEW s \in Seq(S)
  PROVE  /\ DOMAIN s = 1..Len(s) /\ Len(s) \in Nat
         /\ ToSet(s) = {s[i] : i \in 1..Len(s)} /\ ToSet(s) \subseteq S
BY LenProperties, ElementOfSeq DEF ToSet

(* A link is found where it is, and only then.                             *)
LEMMA PositionFound ==
  ASSUME NEW S, NEW s \in Seq(S), NEW p
  PROVE  /\ Position(s, p) \in 0..Len(s)
         /\ Position(s, p) # 0 => s[Position(s, p)] = p
         /\ p \in ToSet(s) => Position(s, p) # 0
<1>1. DOMAIN s = 1..Len(s) /\ Len(s) \in Nat
  BY Elements
<1>2. CASE p \in ToSet(s)
  <2> DEFINE i == CHOOSE k \in DOMAIN s : s[k] = p
  <2>1. i \in DOMAIN s /\ s[i] = p
    BY <1>2 DEF ToSet
  <2>2. Position(s, p) = i
    BY <1>2 DEF Position
  <2> HIDE DEF i
  <2> QED
    BY <1>1, <2>1, <2>2
<1>3. CASE p \notin ToSet(s)
  BY <1>1, <1>3 DEF Position
<1> QED
  BY <1>2, <1>3

(* Without one position, the later elements move up.                       *)
LEMMA RemoveAtProperties ==
  ASSUME NEW S, NEW s \in Seq(S), NEW i \in 1..Len(s)
  PROVE  /\ RemoveAt(s, i) \in Seq(S) /\ Len(RemoveAt(s, i)) = Len(s) - 1
         /\ \A k \in 1..(Len(s) - 1) : RemoveAt(s, i)[k] = IF k < i THEN s[k] ELSE s[k + 1]
<1> DEFINE a == SubSeq(s, 1, i - 1)
           b == SubSeq(s, i + 1, Len(s))
<1>1. Len(s) \in Nat /\ \A k \in 1..Len(s) : s[k] \in S
  BY ElementOfSeq, LenProperties
<1>2. a \in Seq(S) /\ Len(a) = i - 1 /\ \A k \in 1..(i - 1) : a[k] = s[k]
  <2>1. /\ a \in Seq(S)
        /\ Len(a) = IF 1 <= i - 1 THEN (i - 1) - 1 + 1 ELSE 0
        /\ \A k \in 1 .. (i - 1) - 1 + 1 : a[k] = s[1 + k - 1]
    <3>1. 1 \in Int /\ i - 1 \in Int /\ \A k \in 1..(i - 1) : s[k] \in S
      BY <1>1
    <3> HIDE DEF a
    <3> QED
      BY <3>1, SubSeqProperties DEF a
  <2> HIDE DEF a
  <2> QED
    BY <2>1
<1>3. b \in Seq(S) /\ Len(b) = Len(s) - i /\ \A k \in 1..(Len(s) - i) : b[k] = s[k + i]
  <2>1. /\ b \in Seq(S)
        /\ Len(b) = IF i + 1 <= Len(s) THEN Len(s) - (i + 1) + 1 ELSE 0
        /\ \A k \in 1 .. Len(s) - (i + 1) + 1 : b[k] = s[(i + 1) + k - 1]
    <3>1. i + 1 \in Int /\ Len(s) \in Int /\ \A k \in (i + 1)..Len(s) : s[k] \in S
      BY <1>1
    <3> QED
      BY <3>1, SubSeqProperties
  <2> HIDE DEF b
  <2>2. \A k \in 1..(Len(s) - i) : (i + 1) + k - 1 = k + i /\ k \in 1 .. Len(s) - (i + 1) + 1
    BY <1>1
  <2> QED
    BY <1>1, <2>1, <2>2
<1> HIDE DEF a, b
<1>4. /\ a \o b \in Seq(S) /\ Len(a \o b) = Len(a) + Len(b)
      /\ \A k \in 1 .. Len(a) + Len(b) : (a \o b)[k] = IF k <= Len(a) THEN a[k] ELSE b[k - Len(a)]
  BY <1>2, <1>3, ConcatProperties
<1>5. RemoveAt(s, i) = a \o b
  BY DEF RemoveAt, a, b
<1>6. ASSUME NEW k \in 1..(Len(s) - 1)
      PROVE  (a \o b)[k] = IF k < i THEN s[k] ELSE s[k + 1]
  <2>1. CASE k < i
    BY <1>1, <1>2, <1>3, <1>4, <2>1
  <2>2. CASE k >= i
    <3>1. k - (i - 1) \in 1..(Len(s) - i) /\ (k - (i - 1)) + i = k + 1
      BY <1>1, <2>2
    <3>2. b[k - (i - 1)] = s[k + 1]
      BY <1>3, <3>1
    <3> QED
      BY <1>1, <1>2, <1>3, <1>4, <2>2, <3>2
  <2>3. k < i \/ k >= i
    BY <1>1
  <2> QED
    BY <2>1, <2>2, <2>3, Zenon
<1> QED
  BY <1>1, <1>2, <1>3, <1>4, <1>5, <1>6

(* A list without one of its profiles has each profile once.               *)
LEMMA RemoveAtDistinct ==
  ASSUME NEW s \in Lists, NEW i \in 1..Len(s)
  PROVE  RemoveAt(s, i) \in Lists
<1> DEFINE t == RemoveAt(s, i)
<1>1. s \in Seq(Profiles) /\ Distinct(s) /\ Len(s) \in Nat
  BY LenProperties DEF Lists
<1>2. /\ t \in Seq(Profiles) /\ Len(t) = Len(s) - 1
      /\ \A k \in 1..(Len(s) - 1) : t[k] = IF k < i THEN s[k] ELSE s[k + 1]
  BY <1>1, RemoveAtProperties
<1> HIDE DEF t
<1>3. Distinct(t)
  BY <1>1, <1>2 DEF Distinct
<1> QED
  BY <1>2, <1>3 DEF Lists, t

(* So has a list to which a new profile is appended ...                    *)
LEMMA AppendDistinct ==
  ASSUME NEW s \in Lists, NEW p \in Profiles, p \notin ToSet(s)
  PROVE  /\ Append(s, p) \in Lists /\ Len(Append(s, p)) = Len(s) + 1
         /\ \A k \in 1..Len(s) : Append(s, p)[k] = s[k]
<1> DEFINE t == Append(s, p)
<1>1. s \in Seq(Profiles) /\ Distinct(s) /\ Len(s) \in Nat /\ \A k \in 1..Len(s) : s[k] # p
  BY Elements DEF Lists, ToSet
<1>2. /\ t \in Seq(Profiles) /\ Len(t) = Len(s) + 1 /\ t[Len(s) + 1] = p
      /\ \A k \in 1..Len(s) : t[k] = s[k]
  BY <1>1, AppendProperties
<1> HIDE DEF t
<1>3. Distinct(t)
  BY <1>1, <1>2 DEF Distinct
<1> QED
  BY <1>2, <1>3 DEF Lists, t

(* ... one in which a profile is exchanged for a new one ...               *)
LEMMA EditDistinct ==
  ASSUME NEW s \in Lists, NEW i \in 1..Len(s), NEW p \in Profiles, p \notin ToSet(s)
  PROVE  /\ [s EXCEPT ![i] = p] \in Lists /\ Len([s EXCEPT ![i] = p]) = Len(s)
         /\ \A k \in 1..Len(s) : [s EXCEPT ![i] = p][k] = IF k = i THEN p ELSE s[k]
<1> DEFINE t == [s EXCEPT ![i] = p]
<1>1. s \in Seq(Profiles) /\ Distinct(s) /\ Len(s) \in Nat /\ \A k \in 1..Len(s) : s[k] # p
  BY Elements DEF Lists, ToSet
<1>2. /\ t \in Seq(Profiles) /\ Len(t) = Len(s)
      /\ \A k \in 1..Len(s) : t[k] = IF k = i THEN p ELSE s[k]
  BY <1>1, ExceptSeq
<1> HIDE DEF t
<1>3. Distinct(t)
  BY <1>1, <1>2 DEF Distinct
<1> QED
  BY <1>2, <1>3 DEF Lists, t

(* ... and one made of two lists with nothing in common.                   *)
LEMMA ConcatDistinct ==
  ASSUME NEW s \in Lists, NEW t \in Lists,
         \A i \in 1..Len(s), j \in 1..Len(t) : s[i] # t[j]
  PROVE  s \o t \in Lists
<1>1. s \in Seq(Profiles) /\ t \in Seq(Profiles) /\ Distinct(s) /\ Distinct(t)
      /\ Len(s) \in Nat /\ Len(t) \in Nat
  BY LenProperties DEF Lists
<1> DEFINE u == s \o t
<1>2. /\ u \in Seq(Profiles) /\ Len(u) = Len(s) + Len(t)
      /\ \A k \in 1 .. Len(s) + Len(t) : u[k] = IF k <= Len(s) THEN s[k] ELSE t[k - Len(s)]
  BY <1>1, ConcatProperties
<1> HIDE DEF u
<1>3. ASSUME NEW i \in 1..Len(u), NEW j \in 1..Len(u), u[i] = u[j]
      PROVE  i = j
  <2>1. CASE i <= Len(s) /\ j <= Len(s)
    BY <1>1, <1>2, <1>3, <2>1 DEF Distinct
  <2>2. CASE i > Len(s) /\ j > Len(s)
    <3>1. i - Len(s) \in 1..Len(t) /\ j - Len(s) \in 1..Len(t)
      BY <1>1, <1>2, <2>2
    <3>2. t[i - Len(s)] = t[j - Len(s)]
      BY <1>1, <1>2, <1>3, <2>2
    <3>3. i - Len(s) = j - Len(s)
      BY <1>1, <3>1, <3>2 DEF Distinct
    <3> QED
      BY <1>1, <1>2, <3>3
  <2>3. ASSUME NEW a \in 1..Len(u), NEW b \in 1..Len(u), a <= Len(s), b > Len(s)
        PROVE  u[a] # u[b]
    <3>1. a \in 1..Len(s) /\ b - Len(s) \in 1..Len(t)
      BY <1>1, <1>2, <2>3
    <3> QED
      BY <1>1, <1>2, <2>3, <3>1
  <2> QED
    BY <1>1, <1>2, <1>3, <2>1, <2>2, <2>3
<1> QED
  BY <1>2, <1>3 DEF Lists, Distinct, u

(* An arrangement of finitely many links is a list of them.                *)
LEMMA Arranged ==
  ASSUME NEW S, IsFiniteSet(S), S \subseteq Profiles, NEW s \in SetToSeqs(S)
  PROVE  s \in Lists /\ \A i \in 1..Len(s) : s[i] \in S
<1> DEFINE n == Cardinality(S)
<1>1. n \in Nat
  BY FS_CardinalityType
<1>2. s \in [1..n -> S] /\ \A i, j \in 1..n : i # j => s[i] # s[j]
  BY DEF SetToSeqs
<1> HIDE DEF n
<1>3. s \in Seq(S) /\ Len(s) = n
  BY <1>1, <1>2
<1>4. s \in Seq(Profiles)
  BY <1>3, SeqMonotonic
<1> QED
  BY <1>2, <1>3, <1>4 DEF Lists, Distinct

(* The set of a list's links is finite, as large as the list is long, and  *)
(* the list is an arrangement of it.                                       *)
LEMMA ListArranges ==
  ASSUME NEW s \in Lists
  PROVE  IsFiniteSet(ToSet(s)) /\ ToSet(s) \subseteq Profiles /\ s \in SetToSeqs(ToSet(s))
<1> DEFINE n == Len(s)
           S == ToSet(s)
<1>1. n \in Nat /\ DOMAIN s = 1..n /\ S = {s[i] : i \in 1..n} /\ S \subseteq Profiles
  BY Elements DEF Lists
<1>2. \A i, j \in 1..n : s[i] = s[j] => i = j
  BY DEF Lists, Distinct
<1>3. s \in [1..n -> S]
  <2>1. s \in [1..n -> Profiles]
    BY LenProperties DEF Lists
  <2> QED
    BY <1>1, <2>1
<1>4. IsFiniteSet(1..n) /\ Cardinality(1..n) = n
  <2> HIDE DEF n, S
  <2>1. 1 \in Int /\ n \in Int /\ (1 > n => n = 0) /\ n - 1 + 1 = n
    BY <1>1
  <2>2. IsFiniteSet(1..n) /\ Cardinality(1..n) = (IF 1 > n THEN 0 ELSE n - 1 + 1)
    BY <2>1, FS_Interval, Zenon
  <2> QED
    BY <2>1, <2>2, Zenon
<1>5. s \in Bijection(1..n, S)
  BY <1>1, <1>2, <1>3 DEF Bijection, Injection, Surjection, IsInjective
<1>6. ExistsBijection(1..n, S)
  BY <1>5 DEF ExistsBijection
<1>7. IsFiniteSet(S) /\ Cardinality(S) = n
  BY <1>4, <1>6, FS_Bijection
<1> HIDE DEF n, S
<1>8. s \in SetToSeqs(S)
  BY <1>2, <1>3, <1>7 DEF SetToSeqs
<1> QED
  BY <1>1, <1>7, <1>8 DEF S

-----------------------------------------------------------------------------
(* The inductive invariant: types, and what each step of a tick has ready. *)

Selectors == {"proxy-active", "REJECT"}
Cores == [up : BOOLEAN, gen : Generations, raw : Profiles, selector : Selectors,
          sample : Samples, ok : BOOLEAN]
Healths == [identity : Identities, sample : Samples,
            failures : 0..FailureThreshold, recoveries : 0..RecoveryThreshold]
Ticks == [step : Steps, up : BOOLEAN, bench : BOOLEAN, was : BOOLEAN,
          before : Identities, after : Identities, sample : Samples, ok : BOOLEAN,
          selector : Selectors, failed : Profiles \cup {NoProfile},
          candidates : SUBSET Profiles, chosen : Profiles \cup {NoProfile}, id : Nat]
Evidence == [failing : 0..FailureThreshold, healthy : 0..RecoveryThreshold]

ListTyped == list \in Lists /\ active \in 0..Len(list)
SetsTyped == proven \subseteq Profiles /\ failing \subseteq Profiles
CoreTyped == core \in Cores /\ rejected \in BOOLEAN /\ evidence \in Evidence
HealthTyped == health \in Healths
BoundsTyped == requests \in 0..MaxRequests /\ faults \in 0..MaxFaults

(* A sample the watchdog has read, or the core holds, and the counters do  *)
(* not show yet.                                                           *)
Read == wd.step \in {"reread", "decide"}
WdPending == Read /\ wd.sample # health.sample
CorePending == core.sample \notin {0, health.sample} /\ (Read => core.sample # wd.sample)

One(b) == IF b THEN 1 ELSE 0
FailingPending == One(WdPending /\ ~wd.ok) + One(CorePending /\ ~core.ok)
HealthyPending == One(WdPending /\ wd.ok) + One(CorePending /\ core.ok)

TickTyped ==
  /\ wd \in Ticks
  /\ Read <=> wd.sample # 0
  /\ wd.step = "rank" => wd.failed # NoProfile
  /\ wd.step = "switch" => wd.chosen # NoProfile

Typed ==
  /\ ListTyped /\ SetsTyped /\ CoreTyped /\ HealthTyped /\ TickTyped
  /\ bench \in BOOLEAN /\ BoundsTyped

(* Evidence stops counting at its limit.                                   *)
Shown(n, seen, limit) == seen = limit \/ n <= seen

(* Counted and pending samples together are no more than the core took.    *)
Counted ==
  active # 0 /\ health.identity = Identity =>
    /\ Shown(health.failures + FailingPending, evidence.failing, FailureThreshold)
    /\ Shown(health.recoveries + HealthyPending, evidence.healthy, RecoveryThreshold)

(* A core that took a sample after the one the watchdog read has it as     *)
(* evidence, whatever the watchdog is about to note.                       *)
Overtaken ==
  Read /\ core.sample # wd.sample =>
    /\ core.sample \notin {0, health.sample}
    /\ core.ok => evidence.healthy >= 1
    /\ ~core.ok => evidence.failing >= 1

(* The core the watchdog has just looked at is still the same.             *)
Watched == wd.step = "decide" => wd.after = Identity

Justified ==
  /\ wd.step = "reject" => evidence.failing = FailureThreshold
  /\ wd.step = "recover" => evidence.healthy = RecoveryThreshold

Running ==
  core.up => (active # 0 => core.raw = ActiveRaw) /\ Counted /\ Overtaken /\ Watched /\ Justified

ProxyInv == Typed /\ Running

-----------------------------------------------------------------------------
(* The operators of the model.                                             *)

(* The identity of no active profile differs from any other.               *)
LEMMA IdentityFacts ==
  ASSUME Typed
  PROVE  /\ active # 0 => /\ active \in 1..Len(list) /\ list[active] \in Profiles
                          /\ ActiveRaw = list[active]
                          /\ Identity = [gen |-> core.gen, raw |-> ActiveRaw]
                          /\ Identity # NoIdentity
         /\ active = 0 => ActiveRaw = NoProfile /\ Identity = NoIdentity
         /\ Identity \in Identities
<1>1. CASE active = 0
  BY <1>1 DEF ActiveRaw, Identity, Identities
<1>2. CASE active # 0
  <2>1. active \in 1..Len(list) /\ list[active] \in Profiles
    BY <1>2, ElementOfSeq, LenProperties DEF Typed, ListTyped, Lists
  <2>2. ActiveRaw = list[active] /\ Identity = [gen |-> core.gen, raw |-> ActiveRaw]
    BY <1>2 DEF ActiveRaw, Identity
  <2>3. core.gen \in Generations
    BY DEF Typed, CoreTyped, Cores
  <2>4. Identity # NoIdentity
    BY <2>1, <2>2, ProxyHealthAssumption DEF NoIdentity
  <2> QED
    BY <1>2, <2>1, <2>2, <2>3, <2>4 DEF Identities
<1> QED
  BY <1>1, <1>2

(* Four generations and three samples are enough to find a fresh one.      *)
LEMMA FreshFacts ==
  ASSUME Typed
  PROVE  /\ FreshGeneration \in Generations /\ FreshGeneration # health.identity.gen
         /\ FreshSample \in Samples \ {0, health.sample, wd.sample}
<1>1. \E g \in Generations \ {0} : g \notin {health.identity.gen, wd.before.gen, wd.after.gen}
  <2> DEFINE a == health.identity.gen
             b == wd.before.gen
             c == wd.after.gen
  <2>1. \E g \in {1, 2, 3, 4} : g \notin {a, b, c}
    <3> HIDE DEF a, b, c
    <3> QED
      OBVIOUS
  <2> HIDE DEF a, b, c
  <2>2. \A g \in {1, 2, 3, 4} : g \in Generations \ {0}
    BY DEF Generations
  <2> QED
    BY <2>1, <2>2 DEF a, b, c
<1>2. \E t \in Samples \ {0} : t \notin {health.sample, wd.sample}
  <2> DEFINE a == health.sample
             b == wd.sample
  <2>1. \E t \in {1, 2, 3} : t \notin {a, b}
    <3> HIDE DEF a, b
    <3> QED
      OBVIOUS
  <2> HIDE DEF a, b
  <2>2. \A t \in {1, 2, 3} : t \in Samples \ {0}
    BY DEF Samples
  <2> QED
    BY <2>1, <2>2 DEF a, b
<1> QED
  BY <1>1, <1>2 DEF FreshGeneration, FreshSample

(* A loaded core runs the given link as a generation of its own.           *)
LEMMA LoadedFacts ==
  ASSUME Typed, NEW raw \in Profiles, NEW selector \in Selectors, NEW c \in LoadedCores(raw, selector)
  PROVE  /\ c \in Cores /\ c.up /\ c.gen = FreshGeneration /\ c.raw = raw
         /\ c.sample \in {0, core.sample}
<1>1. PICK t \in {0, core.sample} :
        c = [core EXCEPT !.up = TRUE, !.gen = FreshGeneration, !.raw = raw,
                         !.selector = selector, !.sample = t]
  BY DEF LoadedCores
<1>2. core \in Cores /\ t \in Samples /\ FreshGeneration \in Generations
  BY FreshFacts DEF Typed, CoreTyped, Cores, Samples
<1> QED
  BY <1>1, <1>2 DEF Cores

(* A stopped core is a core that is not up.                                *)
LEMMA StoppedFacts ==
  ASSUME Typed
  PROVE  Stopped \in Cores /\ ~Stopped.up /\ NoEvidence \in Evidence
<1>1. core \in Cores
  BY DEF Typed, CoreTyped
<1>2. Stopped \in Cores
  <2>1. 0 \in Samples /\ "proxy-active" \in Selectors
    BY DEF Samples, Selectors
  <2> QED
    BY <1>1, <2>1 DEF Stopped, Cores
<1>4. Stopped.up = FALSE
  BY <1>1 DEF Stopped, Cores
<1>3. NoEvidence \in Evidence
  BY DEF NoEvidence, Evidence, FailureThreshold, RecoveryThreshold
<1> QED
  BY <1>2, <1>3, <1>4, Zenon

(* The selector an activation asks for is a selector.                      *)
LEMMA TargetFacts ==
  ASSUME NEW r \in BOOLEAN
  PROVE  Target(r) \in Selectors
BY DEF Target, Selectors

(* What a tick forgets when it ends or goes on to its next phase.          *)
LEMMA ForgettingFacts ==
  ASSUME TickTyped, NEW s \in Steps \ {"reread", "decide", "rank", "switch"}
  PROVE  /\ wd' = Proceed(s) => TickTyped' /\ wd'.step = s
         /\ TickEnds => TickTyped' /\ wd'.step = "sleep"
         /\ TickSkipped => TickTyped' /\ wd'.step = "sleep"
<1>1. wd \in Ticks
  BY DEF TickTyped
<1>2. Idle \in Ticks
  BY DEF Idle, Ticks, Steps, Identities, NoIdentity, Samples, Selectors
<1>3. ASSUME wd' = Proceed(s)
      PROVE  TickTyped' /\ wd'.step = s
  <2>1. wd' \in Ticks /\ wd'.step = s /\ wd'.sample = 0
    BY <1>1, <1>2, <1>3 DEF Proceed, Idle, Ticks
  <2> QED
    BY <2>1 DEF TickTyped, Read
<1>4. ASSUME TickEnds \/ TickSkipped
      PROVE  TickTyped' /\ wd'.step = "sleep"
  <2>1. wd' \in Ticks /\ wd'.step = "sleep" /\ wd'.sample = 0
    BY <1>1, <1>2, <1>4 DEF TickEnds, TickSkipped, Idle, Ticks
  <2> QED
    BY <2>1 DEF TickTyped, Read
<1> QED
  BY <1>3, <1>4

-----------------------------------------------------------------------------
(* What a step may do to the core.                                         *)

(* The watchdog neither holds a sample nor is about to move the selector.  *)
Quiet == wd.step \notin {"reread", "decide", "reject", "recover"}

(* Nothing is promised of a core that does not run.                        *)
LEMMA StoppedRun ==
  ASSUME core'.up = FALSE
  PROVE  Running'
BY DEF Running

(* The core goes on with the active profile, or that one is lost.          *)
LEMMA KeptRun ==
  ASSUME Typed, Running, Quiet, Quiet', core' = core, evidence' = evidence, health' = health,
         active' # 0 => active # 0 /\ ActiveRaw' = ActiveRaw
  PROVE  Running'
<1> SUFFICES ASSUME core.up
             PROVE  Running'
  BY StoppedRun DEF Running
<1>1. active # 0 => core.raw = ActiveRaw
  BY DEF Running
<1>2. ~Read /\ ~Read' /\ Watched' /\ Overtaken' /\ Justified'
  BY DEF Quiet, Read, Watched, Overtaken, Justified
<1>3. FailingPending' = FailingPending /\ HealthyPending' = HealthyPending
  <2>1. ~WdPending /\ ~WdPending'
    BY <1>2 DEF WdPending
  <2>2. CorePending' = CorePending
    BY <1>2 DEF CorePending
  <2> QED
    BY <2>1, <2>2 DEF FailingPending, HealthyPending, One
<1>4. active' # 0 => Identity' = Identity
  BY DEF Identity, ActiveRaw
<1>5. Counted'
  BY <1>3, <1>4 DEF Counted, Running
<1> QED
  BY <1>1, <1>2, <1>5 DEF Running

(* The watchdog stays where it is, and so does all it has looked at.       *)
LEMMA UntouchedRun ==
  ASSUME Running, core' = core, evidence' = evidence, health' = health, wd' = wd,
         active # 0 <=> active' # 0, ActiveRaw' = ActiveRaw
  PROVE  Running'
<1>1. Identity' = Identity
  BY DEF Identity, ActiveRaw
<1>2. /\ Counted' <=> Counted
      /\ Overtaken' <=> Overtaken
      /\ Watched' <=> Watched
      /\ Justified' <=> Justified
  <2>1. FailingPending' = FailingPending /\ HealthyPending' = HealthyPending
    BY DEF FailingPending, HealthyPending, WdPending, CorePending, Read
  <2> QED
    BY <1>1, <2>1 DEF Counted, Overtaken, Watched, Justified, Read
<1> QED
  BY <1>2 DEF Running

(* A load on the active profile makes the counters those of another core.  *)
LEMMA LoadedRun ==
  ASSUME Typed, Quiet', health' = health, core'.gen = FreshGeneration,
         active' # 0 => core'.raw = ActiveRaw'
  PROVE  Running'
<1>1. Watched' /\ Overtaken' /\ Justified'
  BY DEF Quiet, Read, Watched, Overtaken, Justified
<1>2. active' # 0 => Identity'.gen = core'.gen
  BY DEF Identity
<1>3. Counted'
  BY <1>2, FreshFacts DEF Counted
<1> QED
  BY <1>1, <1>3 DEF Running

(* An activation starts to count anew, from the sample it found.           *)
LEMMA ActivatedRun ==
  ASSUME Typed, Quiet', list' = list, NEW id \in 1..Len(list), Activated(id)
  PROVE  /\ Running' /\ active' \in 1..Len(list) /\ ActiveRaw' = list[id] /\ core'.raw = list[id]
         /\ CoreTyped' /\ HealthTyped'
<1>1. list[id] \in Profiles
  BY ElementOfSeq DEF Typed, ListTyped, Lists
<1>2. /\ core' \in Cores /\ core'.raw = list[id] /\ core'.up
  <2>1. "proxy-active" \in Selectors
    BY DEF Selectors
  <2> QED
    BY <1>1, <2>1, LoadedFacts DEF Activated
<1>3. /\ active' = id /\ rejected' = FALSE /\ evidence' = NoEvidence
      /\ health' = [identity |-> [gen |-> core'.gen, raw |-> list[id]],
                    sample |-> core'.sample, failures |-> 0, recoveries |-> 0]
  BY DEF Activated
<1>4. id # 0 /\ ActiveRaw' = list[id]
  <2>1. id # 0
    BY LenProperties DEF Typed, ListTyped, Lists
  <2> QED
    BY <1>3, <2>1 DEF ActiveRaw
<1>5. CoreTyped'
  BY <1>2, <1>3, StoppedFacts DEF CoreTyped
<1>6. HealthTyped'
  <2>1. 0 \in 0..FailureThreshold /\ 0 \in 0..RecoveryThreshold
    BY DEF FailureThreshold, RecoveryThreshold
  <2>2. core'.gen \in Generations /\ core'.sample \in Samples
    BY <1>2 DEF Cores
  <2>3. [gen |-> core'.gen, raw |-> list[id]] \in Identities
    BY <1>1, <2>2 DEF Identities
  <2> QED
    BY <1>3, <2>1, <2>2, <2>3 DEF HealthTyped, Healths
<1>7. Watched' /\ Overtaken' /\ Justified' /\ ~WdPending' /\ ~CorePending'
  BY <1>3 DEF Quiet, Read, Watched, Overtaken, Justified, WdPending, CorePending
<1>8. FailingPending' = 0 /\ HealthyPending' = 0
  BY <1>7 DEF FailingPending, HealthyPending, One
<1>9. Counted'
  BY <1>3, <1>8 DEF Counted, Shown, NoEvidence
<1> QED
  BY <1>2, <1>3, <1>4, <1>5, <1>6, <1>7, <1>9 DEF Running

(* Steps that count requests and faults stay within the bounds.            *)
LEMMA BoundFacts ==
  ASSUME BoundsTyped
  PROVE  /\ Request => requests' \in 0..MaxRequests
         /\ Fault => faults' \in 0..MaxFaults
         /\ Works => faults' \in 0..MaxFaults
         /\ UNCHANGED requests => requests' \in 0..MaxRequests
BY ProxyHealthAssumption DEF BoundsTyped, Request, Fault, Works

(* A failed activation leaves the core as it was, loads what it ran        *)
(* before, or stops it.                                                    *)
LEMMA FailedActivationStep ==
  ASSUME ProxyInv, Quiet, Quiet', list' = list, ActivationFails
  PROVE  Running' /\ ListTyped' /\ CoreTyped' /\ HealthTyped'
<1>1. Typed /\ Running /\ UNCHANGED <<active, rejected, health>> /\ core \in Cores
  BY DEF ProxyInv, ActivationFails, Typed, CoreTyped
<1>2. ActiveRaw' = ActiveRaw
  BY <1>1 DEF ActiveRaw
<1>3. ListTyped' /\ HealthTyped' /\ rejected' \in BOOLEAN
  BY <1>1 DEF Typed, ListTyped, HealthTyped, CoreTyped
<1>4. CASE UNCHANGED <<core, evidence>>
  <2>1. Running'
    BY <1>1, <1>2, <1>4, KeptRun
  <2> QED
    BY <1>1, <1>3, <1>4, <2>1 DEF Typed, CoreTyped
<1>5. CASE core.up /\ core' \in LoadedCores(core.raw, Target(rejected)) /\ evidence' = NoEvidence
  <2>1. Target(rejected) \in Selectors
    BY <1>1, TargetFacts DEF Typed, CoreTyped
  <2>2. core.raw \in Profiles
    BY <1>1 DEF Cores
  <2>3. core' \in Cores /\ core'.gen = FreshGeneration /\ core'.raw = core.raw
    BY <1>1, <1>5, <2>1, <2>2, LoadedFacts
  <2>4. Running'
    BY <1>1, <1>2, <1>5, <2>3, LoadedRun DEF Running
  <2> QED
    BY <1>1, <1>3, <1>5, <2>3, <2>4, StoppedFacts DEF CoreTyped
<1>6. CASE core' = Stopped /\ evidence' = NoEvidence
  <2>1. core' \in Cores /\ core'.up = FALSE /\ evidence' \in Evidence
    BY <1>1, <1>6, StoppedFacts
  <2> QED
    BY <1>3, <2>1, StoppedRun DEF CoreTyped
<1> QED
  BY <1>4, <1>5, <1>6 DEF ActivationFails

(* The activation of another profile keeps ProxyInv.                       *)
LEMMA ActivateProfileStep ==
  ASSUME ProxyInv, Quiet, Quiet', list' = list, NEW id, ActivateProfile(id)
  PROVE  Running' /\ ListTyped' /\ CoreTyped' /\ HealthTyped' /\ faults' \in 0..MaxFaults
<1>1. Typed /\ Running /\ BoundsTyped /\ ListTyped /\ CoreTyped /\ HealthTyped
  BY DEF ProxyInv, Typed
<1>2. DOMAIN list = 1..Len(list) /\ Len(list) \in Nat
  BY <1>1, LenProperties DEF ListTyped, Lists
<1>3. CASE id \in DOMAIN list /\ Activated(id) /\ Works
  <2>1. /\ Running' /\ active' \in 1..Len(list) /\ CoreTyped' /\ HealthTyped'
    BY <1>1, <1>2, <1>3, ActivatedRun
  <2> QED
    BY <1>1, <1>2, <1>3, <2>1, BoundFacts DEF ListTyped
<1>4. CASE id \in DOMAIN list /\ ActivationFails
  BY <1>1, <1>4, FailedActivationStep, BoundFacts DEF ActivationFails
<1>5. CASE Works /\ UNCHANGED <<active, core, rejected, health, evidence>>
  <2>1. ActiveRaw' = ActiveRaw
    BY <1>5 DEF ActiveRaw
  <2>2. Running'
    BY <1>1, <1>5, <2>1, KeptRun
  <2>3. ListTyped' /\ CoreTyped' /\ HealthTyped'
    BY <1>1, <1>5 DEF ListTyped, CoreTyped, HealthTyped
  <2> QED
    BY <1>1, <1>5, <2>2, <2>3, BoundFacts
<1> QED
  BY <1>3, <1>4, <1>5 DEF ActivateProfile

(* A reload by a handler keeps ProxyInv.                                   *)
LEMMA ReloadedStep ==
  ASSUME ProxyInv, Quiet', list' = list, Reloaded
  PROVE  Running' /\ ListTyped' /\ CoreTyped' /\ HealthTyped' /\ faults' \in 0..MaxFaults
<1>1. /\ Typed /\ BoundsTyped /\ active # 0 /\ UNCHANGED <<active, rejected, health>>
      /\ ListTyped /\ HealthTyped /\ CoreTyped
  BY DEF ProxyInv, Typed, Reloaded
<1>2. ListTyped' /\ HealthTyped' /\ rejected' \in BOOLEAN
  BY <1>1 DEF ListTyped, HealthTyped, CoreTyped
<1>3. CASE Works /\ core' \in LoadedCores(list[active], Target(rejected)) /\ evidence' = NoEvidence
  <2>1. Target(rejected) \in Selectors
    BY <1>1, TargetFacts DEF CoreTyped
  <2>2. list[active] \in Profiles /\ ActiveRaw = list[active]
    BY <1>1, IdentityFacts
  <2>3. core' \in Cores /\ core'.gen = FreshGeneration /\ core'.raw = list[active]
    BY <1>1, <1>3, <2>1, <2>2, LoadedFacts
  <2>4. ActiveRaw' = list[active]
    BY <1>1, <2>2 DEF ActiveRaw
  <2>5. Running'
    BY <1>1, <2>3, <2>4, LoadedRun
  <2> QED
    BY <1>1, <1>2, <1>3, <2>3, <2>5, StoppedFacts, BoundFacts DEF CoreTyped
<1>4. CASE Fault /\ core' = Stopped /\ evidence' = NoEvidence
  <2>1. core' \in Cores /\ core'.up = FALSE /\ evidence' \in Evidence
    BY <1>1, <1>4, StoppedFacts
  <2> QED
    BY <1>1, <1>2, <1>4, <2>1, StoppedRun, BoundFacts DEF CoreTyped
<1> QED
  BY <1>3, <1>4 DEF Reloaded

-----------------------------------------------------------------------------
(* The requests.                                                           *)

(* While the apply lock is free the watchdog is not judging a sample.      *)
LEMMA ApplyFreeIsQuiet ==
  ASSUME ApplyFree, wd' = wd
  PROVE  Quiet /\ Quiet'
BY DEF ApplyFree, Quiet

(* A step that leaves the watchdog alone keeps the types of its tick.      *)
LEMMA SameTick ==
  ASSUME TickTyped, wd' = wd
  PROVE  TickTyped'
BY DEF TickTyped, Read

(* The choice of a profile keeps ProxyInv.                                 *)
LEMMA SelectProfileStep ==
  ASSUME ProxyInv, NEW id, SelectProfile(id)
  PROVE  ProxyInv'
<1>1. /\ Quiet /\ Quiet' /\ list' = list /\ ActivateProfile(id) /\ Typed
      /\ UNCHANGED <<proven, bench, failing, wd>> /\ Request
  BY ApplyFreeIsQuiet DEF ProxyInv, SelectProfile
<1>2. Running' /\ ListTyped' /\ CoreTyped' /\ HealthTyped' /\ faults' \in 0..MaxFaults
  BY <1>1, ActivateProfileStep
<1>3. SetsTyped' /\ TickTyped' /\ bench' \in BOOLEAN /\ requests' \in 0..MaxRequests
  BY <1>1, SameTick, BoundFacts DEF Typed, SetsTyped
<1> QED
  BY <1>2, <1>3 DEF ProxyInv, Typed, BoundsTyped

(* A delete moves the profiles behind it up, and the active id with them.  *)
LEMMA DeleteProfileStep ==
  ASSUME ProxyInv, NEW id \in DOMAIN list, DeleteProfile(id)
  PROVE  ProxyInv'
<1>1. /\ Typed /\ Running /\ ListTyped /\ CoreTyped /\ HealthTyped /\ BoundsTyped
      /\ list' = RemoveAt(list, id) /\ active' = ActiveWithout(id) /\ Request /\ Works
      /\ UNCHANGED <<proven, bench, rejected, health, failing, wd>>
  BY DEF ProxyInv, Typed, DeleteProfile
<1>2. /\ list \in Lists /\ Len(list) \in Nat /\ active \in 0..Len(list) /\ id \in 1..Len(list)
  BY <1>1, Elements DEF ListTyped, Lists
<1>3. /\ list' \in Lists /\ Len(list') = Len(list) - 1
      /\ \A k \in 1..(Len(list) - 1) : list'[k] = IF k < id THEN list[k] ELSE list[k + 1]
  BY <1>1, <1>2, RemoveAtDistinct, RemoveAtProperties DEF Lists
<1>4. ListTyped'
  BY <1>1, <1>2, <1>3 DEF ListTyped, ActiveWithout
<1>5. SetsTyped' /\ TickTyped' /\ bench' \in BOOLEAN /\ BoundsTyped' /\ HealthTyped'
  BY <1>1, SameTick, BoundFacts DEF Typed, SetsTyped, HealthTyped, BoundsTyped
<1>6. CASE active = id
  <2>1. core' = Stopped /\ evidence' = NoEvidence
    BY <1>6 DEF DeleteProfile
  <2>2. core' \in Cores /\ core'.up = FALSE /\ evidence' \in Evidence
    BY <1>1, <2>1, StoppedFacts
  <2>3. CoreTyped'
    BY <1>1, <2>2 DEF CoreTyped
  <2>4. Running'
    BY <2>2, StoppedRun
  <2> QED
    BY <1>4, <1>5, <2>3, <2>4 DEF ProxyInv, Typed
<1>7. CASE active # id
  <2>1. core' = core /\ evidence' = evidence
    BY <1>7 DEF DeleteProfile
  <2>2. active # 0 => active' # 0 /\ list'[active'] = list[active]
    BY <1>1, <1>2, <1>3, <1>7 DEF ActiveWithout
  <2>3. active = 0 => active' = 0
    BY <1>1, <1>2 DEF ActiveWithout
  <2>4. (active # 0 <=> active' # 0) /\ ActiveRaw' = ActiveRaw
    BY <2>2, <2>3 DEF ActiveRaw
  <2>5. Running'
    BY <1>1, <2>1, <2>4, UntouchedRun
  <2>6. CoreTyped'
    BY <1>1, <2>1 DEF CoreTyped
  <2> QED
    BY <1>4, <1>5, <2>5, <2>6 DEF ProxyInv, Typed
<1> QED
  BY <1>6, <1>7

(* Adding a profile keeps ProxyInv.                                        *)
LEMMA AddProfileStep ==
  ASSUME ProxyInv, NEW p \in Profiles, AddProfile(p)
  PROVE  ProxyInv'
<1>1. /\ Typed /\ Running /\ ListTyped /\ CoreTyped /\ HealthTyped /\ BoundsTyped
      /\ p \notin ToSet(list) /\ list' = Append(list, p) /\ Request /\ Works
      /\ UNCHANGED <<active, proven, bench, core, rejected, evidence, health, failing, wd>>
  BY DEF ProxyInv, Typed, AddProfile, coreVars
<1>2. list \in Lists /\ Len(list) \in Nat /\ active \in 0..Len(list)
  BY <1>1, Elements DEF ListTyped, Lists
<1>3. list' \in Lists /\ Len(list') = Len(list) + 1 /\ \A k \in 1..Len(list) : list'[k] = list[k]
  BY <1>1, <1>2, AppendDistinct
<1>4. ListTyped'
  BY <1>1, <1>2, <1>3 DEF ListTyped
<1>5. active # 0 => list'[active] = list[active]
  BY <1>2, <1>3
<1>6. Running'
  <2>1. ActiveRaw' = ActiveRaw
    BY <1>1, <1>5 DEF ActiveRaw
  <2> QED
    BY <1>1, <2>1, UntouchedRun
<1>7. /\ SetsTyped' /\ TickTyped' /\ bench' \in BOOLEAN /\ BoundsTyped' /\ HealthTyped' /\ CoreTyped'
  BY <1>1, SameTick, BoundFacts DEF Typed, SetsTyped, HealthTyped, BoundsTyped, CoreTyped
<1> QED
  BY <1>4, <1>6, <1>7 DEF ProxyInv, Typed

(* An edit may reload the active link, which is a new one under the same   *)
(* id if it is the active profile that is edited.                          *)
LEMMA EditProfileStep ==
  ASSUME ProxyInv, NEW id \in DOMAIN list, NEW p \in Profiles, EditProfile(id, p)
  PROVE  ProxyInv'
<1>1. /\ Typed /\ Running /\ ListTyped /\ CoreTyped /\ HealthTyped /\ BoundsTyped
      /\ p \notin ToSet(list) /\ ApplyFree /\ Request /\ UNCHANGED <<bench, failing, wd>>
  BY DEF ProxyInv, Typed, EditProfile
<1>2. /\ list \in Lists /\ Len(list) \in Nat /\ active \in 0..Len(list) /\ id \in 1..Len(list)
  BY <1>1, Elements DEF ListTyped, Lists
<1>3. /\ Quiet /\ Quiet' /\ TickTyped' /\ bench' \in BOOLEAN /\ failing' \subseteq Profiles
      /\ requests' \in 0..MaxRequests
  BY <1>1, ApplyFreeIsQuiet, SameTick, BoundFacts DEF Typed, SetsTyped
<1>4. CASE /\ Works /\ list' = [list EXCEPT ![id] = p]
           /\ proven' = IF list[id] \in proven THEN (proven \ {list[id]}) \cup {p} ELSE proven \ {p}
           /\ \/ /\ active # 0 /\ core.up
                 /\ core' \in LoadedCores(list'[active], core.selector)
                 /\ rejected' = (core.selector = "REJECT")
                 /\ evidence' = NoEvidence
              \/ (id # active \/ ~core.up) /\ UNCHANGED coreVars
           /\ UNCHANGED <<active, health>>
  <2>1. /\ list' \in Lists /\ Len(list') = Len(list)
        /\ \A k \in 1..Len(list) : list'[k] = IF k = id THEN p ELSE list[k]
    <3>1. /\ [list EXCEPT ![id] = p] \in Lists /\ Len([list EXCEPT ![id] = p]) = Len(list)
          /\ \A k \in 1..Len(list) : [list EXCEPT ![id] = p][k] = IF k = id THEN p ELSE list[k]
      BY <1>1, <1>2, EditDistinct, Zenon
    <3>2. list' = [list EXCEPT ![id] = p]
      BY <1>4
    <3> QED
      BY <3>1, <3>2, Zenon
  <2>2. ListTyped' /\ HealthTyped'
    BY <1>1, <1>2, <1>4, <2>1 DEF ListTyped, HealthTyped
  <2>3. proven' \subseteq Profiles
    BY <1>1, <1>4 DEF Typed, SetsTyped
  <2>4. Running' /\ CoreTyped'
    <3>1. CASE /\ active # 0 /\ core.up
               /\ core' \in LoadedCores(list'[active], core.selector)
               /\ rejected' = (core.selector = "REJECT")
               /\ evidence' = NoEvidence
      <4>1. core.selector \in Selectors
        BY <1>1 DEF CoreTyped, Cores
      <4>2. list'[active] \in Profiles
        BY <1>2, <2>1, <3>1, Elements DEF Lists
      <4>3. core' \in Cores /\ core'.gen = FreshGeneration /\ core'.raw = list'[active]
        BY <1>1, <3>1, <4>1, <4>2, LoadedFacts
      <4>4. active' # 0 => ActiveRaw' = list'[active]
        BY <1>4, <3>1 DEF ActiveRaw
      <4>5. Running'
        BY <1>1, <1>3, <1>4, <3>1, <4>2, <4>3, <4>4, LoadedRun
      <4>6. rejected' \in BOOLEAN
        BY <3>1, Zenon
      <4> QED
        BY <1>1, <3>1, <4>3, <4>5, <4>6, StoppedFacts DEF CoreTyped
    <3>2. CASE (id # active \/ ~core.up) /\ UNCHANGED coreVars
      <4>1. UNCHANGED <<core, rejected, evidence>>
        BY <3>2 DEF coreVars
      <4>2. CoreTyped'
        BY <1>1, <4>1 DEF CoreTyped
      <4>3. CASE ~core.up
        BY <4>1, <4>2, <4>3 DEF Running
      <4>4. CASE id # active
        <5>1. ActiveRaw' = ActiveRaw
          BY <1>2, <1>4, <2>1, <4>4 DEF ActiveRaw
        <5> QED
          BY <1>1, <1>3, <1>4, <4>1, <4>2, <5>1, KeptRun
      <4> QED
        BY <3>2, <4>3, <4>4
    <3> QED
      BY <1>4, <3>1, <3>2
  <2> QED
    BY <1>1, <1>3, <1>4, <2>2, <2>3, <2>4, BoundFacts DEF ProxyInv, Typed, SetsTyped, BoundsTyped
<1>5. CASE ActivationFails /\ UNCHANGED <<list, proven>>
  <2>1. Running' /\ ListTyped' /\ CoreTyped' /\ HealthTyped'
    BY <1>3, <1>5, FailedActivationStep
  <2>2. faults' \in 0..MaxFaults
    BY <1>1, <1>5, BoundFacts DEF ActivationFails
  <2> QED
    BY <1>1, <1>3, <1>5, <2>1, <2>2 DEF ProxyInv, Typed, SetsTyped, BoundsTyped
<1> QED
  BY <1>4, <1>5 DEF EditProfile

(* A refresh finds the active profile again by its link, or loses it.      *)
LEMMA ReplaceStep ==
  ASSUME ProxyInv, Quiet, Quiet', ReplaceProfiles
  PROVE  Running' /\ ListTyped' /\ CoreTyped' /\ HealthTyped' /\ proven' = proven
<1>1. /\ Typed /\ Running /\ CoreTyped /\ HealthTyped /\ list \in Lists
      /\ UNCHANGED <<proven, core, rejected, evidence, health>>
  BY DEF ProxyInv, Typed, ListTyped, ReplaceProfiles, coreVars
<1>2. PICK kept \in Unsubscribed, answer \in Answers :
        list' = kept \o answer /\ active' = Position(list', ActiveRaw)
  BY DEF ReplaceProfiles, ActiveFound
<1>3. kept \in Lists /\ \A i \in 1..Len(kept) : kept[i] \notin Subscribed
  <2>1. IsFiniteSet(ToSet(list)) /\ ToSet(list) \subseteq Profiles
    BY <1>1, ListArranges
  <2>2. IsFiniteSet(ToSet(list) \ Subscribed) /\ ToSet(list) \ Subscribed \subseteq Profiles
    BY <2>1, FS_Subset
  <2>3. kept \in SetToSeqs(ToSet(list) \ Subscribed)
    BY DEF Unsubscribed
  <2> QED
    BY <2>2, <2>3, Arranged
<1>4. answer \in Lists /\ \A i \in 1..Len(answer) : answer[i] \in Subscribed
  <2>1. PICK links \in SUBSET Subscribed : answer \in SetToSeqs(links)
    BY DEF Answers
  <2>2. IsFiniteSet(links) /\ links \subseteq Profiles
    BY ProxyHealthAssumption, FS_Subset
  <2>3. answer \in Lists /\ \A i \in 1..Len(answer) : answer[i] \in links
    BY <2>1, <2>2, Arranged
  <2> QED
    BY <2>3
<1>5. list' \in Lists
  BY <1>2, <1>3, <1>4, ConcatDistinct
<1>6. active' \in 0..Len(list') /\ (active' # 0 => list'[active'] = ActiveRaw)
  BY <1>2, <1>5, PositionFound DEF Lists
<1>7. active' # 0 => active # 0 /\ ActiveRaw' = ActiveRaw
  <2>1. active' # 0 => ActiveRaw' = list'[active'] /\ list'[active'] \in Profiles
    BY <1>5, <1>6, ElementOfSeq, LenProperties DEF ActiveRaw, Lists
  <2> QED
    BY <1>1, <1>6, <2>1, IdentityFacts, ProxyHealthAssumption
<1>8. Running'
  BY <1>1, <1>7, KeptRun
<1> QED
  BY <1>1, <1>5, <1>6, <1>8 DEF ListTyped, CoreTyped, HealthTyped

(* The refresh of a subscription keeps ProxyInv.                           *)
LEMMA RefreshSubscriptionStep ==
  ASSUME ProxyInv, RefreshSubscription
  PROVE  ProxyInv'
<1>1. Quiet /\ Quiet' /\ ReplaceProfiles /\ Request /\ Works /\ UNCHANGED <<bench, failing, wd>> /\ Typed
  BY ApplyFreeIsQuiet DEF RefreshSubscription, ProxyInv
<1>2. Running' /\ ListTyped' /\ CoreTyped' /\ HealthTyped' /\ proven' = proven
  BY <1>1, ReplaceStep
<1>3. SetsTyped' /\ TickTyped' /\ bench' \in BOOLEAN /\ BoundsTyped'
  BY <1>1, <1>2, SameTick, BoundFacts DEF Typed, SetsTyped, BoundsTyped
<1> QED
  BY <1>2, <1>3 DEF ProxyInv, Typed

(* Any other activation keeps ProxyInv.                                    *)
LEMMA ActivateStep ==
  ASSUME ProxyInv, Activate
  PROVE  ProxyInv'
<1>1. Quiet' /\ Reloaded /\ Request /\ UNCHANGED <<list, proven, bench, failing, wd>> /\ Typed
  BY ApplyFreeIsQuiet DEF Activate, ProxyInv
<1>2. Running' /\ ListTyped' /\ CoreTyped' /\ HealthTyped' /\ faults' \in 0..MaxFaults
  BY <1>1, ReloadedStep
<1>3. SetsTyped' /\ TickTyped' /\ bench' \in BOOLEAN /\ BoundsTyped'
  BY <1>1, <1>2, SameTick, BoundFacts DEF Typed, SetsTyped, BoundsTyped
<1> QED
  BY <1>2, <1>3 DEF ProxyInv, Typed

(* A stop of the core keeps ProxyInv.                                      *)
LEMMA StopCoreStep ==
  ASSUME ProxyInv, StopCore
  PROVE  ProxyInv'
<1>1. /\ Typed /\ CoreTyped /\ Request /\ Works /\ core' = [Stopped EXCEPT !.gen = FreshGeneration]
      /\ evidence' = NoEvidence /\ UNCHANGED <<list, active, proven, bench, rejected, health, failing, wd>>
  BY DEF ProxyInv, Typed, StopCore, profileVars
<1>2. core' \in Cores /\ core'.up = FALSE /\ evidence' \in Evidence
  <2>1. Stopped \in Cores /\ Stopped.up = FALSE /\ FreshGeneration \in Generations /\ evidence' \in Evidence
    BY <1>1, StoppedFacts, FreshFacts
  <2> HIDE DEF Stopped
  <2>2. core' \in Cores
    BY <1>1, <2>1 DEF Cores
  <2>3. core'.up = Stopped.up
    BY <1>1, <2>1 DEF Cores
  <2> QED
    BY <2>1, <2>2, <2>3
<1>3. Running' /\ CoreTyped'
  BY <1>1, <1>2, StoppedRun DEF CoreTyped
<1>4. ListTyped' /\ HealthTyped' /\ SetsTyped' /\ TickTyped' /\ bench' \in BOOLEAN /\ BoundsTyped'
  BY <1>1, SameTick, BoundFacts DEF Typed, ListTyped, HealthTyped, SetsTyped, BoundsTyped
<1> QED
  BY <1>3, <1>4 DEF ProxyInv, Typed

(* A step that leaves the core and the active profile alone.               *)
LEMMA CoreLeftAlone ==
  ASSUME ProxyInv, UNCHANGED <<list, active, coreVars, health>>
  PROVE  /\ ListTyped' /\ CoreTyped' /\ HealthTyped' /\ Identity' = Identity
         /\ wd' = wd => Running' /\ TickTyped'
         /\ Quiet /\ Quiet' => Running'
<1>1. /\ Typed /\ Running /\ ListTyped /\ CoreTyped /\ HealthTyped /\ TickTyped
      /\ UNCHANGED <<core, rejected, evidence>>
  BY DEF ProxyInv, Typed, coreVars
<1>2. ActiveRaw' = ActiveRaw /\ Identity' = Identity
  BY <1>1 DEF ActiveRaw, Identity
<1>3. ListTyped' /\ CoreTyped' /\ HealthTyped'
  BY <1>1 DEF ListTyped, CoreTyped, HealthTyped
<1>4. wd' = wd => Running' /\ TickTyped'
  BY <1>1, <1>2, UntouchedRun, SameTick
<1>5. Quiet /\ Quiet' => Running'
  BY <1>1, <1>2, KeptRun
<1> QED
  BY <1>2, <1>3, <1>4, <1>5

(* The start of a benchmark keeps ProxyInv.                                *)
LEMMA StartBenchmarkStep ==
  ASSUME ProxyInv, StartBenchmark
  PROVE  ProxyInv'
<1>1. /\ Typed /\ Request /\ Works /\ bench' = TRUE /\ UNCHANGED <<proven, failing, wd>>
      /\ UNCHANGED <<list, active, coreVars, health>>
  BY DEF ProxyInv, StartBenchmark, profileVars
<1>2. Running' /\ ListTyped' /\ CoreTyped' /\ HealthTyped' /\ TickTyped'
  BY <1>1, CoreLeftAlone
<1>3. SetsTyped' /\ BoundsTyped'
  BY <1>1, BoundFacts DEF Typed, SetsTyped, BoundsTyped
<1> QED
  BY <1>1, <1>2, <1>3 DEF ProxyInv, Typed

(* The end of a benchmark keeps ProxyInv.                                  *)
LEMMA FinishBenchmarkStep ==
  ASSUME ProxyInv, FinishBenchmark
  PROVE  ProxyInv'
<1>1. /\ Typed /\ Works /\ bench' = FALSE /\ proven' \subseteq ToSet(list) /\ UNCHANGED <<failing, wd, requests>>
      /\ UNCHANGED <<list, active, coreVars, health>>
  BY DEF ProxyInv, FinishBenchmark
<1>2. Running' /\ ListTyped' /\ CoreTyped' /\ HealthTyped' /\ TickTyped'
  BY <1>1, CoreLeftAlone
<1>3. ToSet(list) \subseteq Profiles
  BY <1>1, ListArranges DEF Typed, ListTyped
<1>4. SetsTyped' /\ BoundsTyped'
  BY <1>1, <1>3, BoundFacts DEF Typed, SetsTyped, BoundsTyped
<1> QED
  BY <1>1, <1>2, <1>4 DEF ProxyInv, Typed

-----------------------------------------------------------------------------
(* The steps of a tick that leave the core alone.                          *)

(* What such a step still has to show.                                     *)
LEMMA TickStep ==
  ASSUME ProxyInv, UNCHANGED <<list, active, bench, coreVars, health>>, Quiet, Quiet',
         TickTyped', SetsTyped', BoundsTyped'
  PROVE  ProxyInv'
BY CoreLeftAlone DEF ProxyInv, Typed

(* What the watchdog holds at each step has its type.                      *)
LEMMA TickFacts ==
  ASSUME TickTyped
  PROVE  /\ wd \in Ticks
         /\ wd.step \notin {"reread", "decide"} => wd.sample = 0
         /\ wd.sample = 0 => wd.step \notin {"reread", "decide"}
         /\ wd.step = "rank" => wd.failed \in Profiles
         /\ wd.step = "switch" => wd.chosen \in Profiles
<1>1. wd \in Ticks /\ wd.failed \in Profiles \cup {NoProfile} /\ wd.chosen \in Profiles \cup {NoProfile}
  BY DEF TickTyped, Ticks
<1> QED
  BY <1>1 DEF TickTyped, Read

(* The beginning of a tick keeps ProxyInv.                                 *)
LEMMA WakeStep ==
  ASSUME ProxyInv, Wake
  PROVE  ProxyInv'
<1>1. /\ Typed /\ TickTyped /\ BoundsTyped /\ wd.step = "sleep" /\ Works /\ UNCHANGED <<proven, failing, requests>>
      /\ UNCHANGED <<list, active, bench, coreVars, health>>
  BY DEF ProxyInv, Typed, Wake, profileVars
<1>2. wd \in Ticks /\ wd.sample = 0 /\ bench \in BOOLEAN /\ Identity \in Identities
  BY <1>1, TickFacts, IdentityFacts DEF Typed
<1>3. {"fetch", "select", "restart"} \subseteq Steps
  BY DEF Steps
<1>4. wd' \in Ticks /\ wd'.sample = 0 /\ wd'.step \in {"fetch", "select", "restart"}
  <2>1. CASE wd' = [wd EXCEPT !.up = TRUE, !.step = "fetch", !.before = Identity]
    BY <1>2, <1>3, <2>1 DEF Ticks
  <2>2. CASE wd' = [wd EXCEPT !.up = TRUE, !.bench = TRUE, !.step = "select"]
    BY <1>2, <1>3, <2>2 DEF Ticks
  <2>3. CASE wd' = [wd EXCEPT !.bench = bench, !.step = "restart"]
    BY <1>2, <1>3, <2>3 DEF Ticks
  <2> QED
    BY <2>1, <2>2, <2>3 DEF Wake
<1>5. TickTyped' /\ Quiet /\ Quiet'
  BY <1>1, <1>4 DEF TickTyped, Read, Quiet
<1>6. SetsTyped' /\ BoundsTyped'
  BY <1>1, BoundFacts DEF Typed, SetsTyped, BoundsTyped
<1> QED
  BY <1>1, <1>5, <1>6, TickStep

(* Waiting for the backoff keeps ProxyInv.                                 *)
LEMMA RestartWaitsStep ==
  ASSUME ProxyInv, RestartWaits
  PROVE  ProxyInv'
<1>1. /\ Typed /\ TickTyped /\ BoundsTyped /\ wd.step = "restart" /\ Fault /\ UNCHANGED <<proven, failing, requests>>
      /\ wd' = [wd EXCEPT !.step = "select"] /\ UNCHANGED <<list, active, bench, coreVars, health>>
  BY DEF ProxyInv, Typed, RestartWaits, profileVars
<1>2. wd \in Ticks /\ wd.sample = 0
  BY <1>1, TickFacts
<1>3. wd' \in Ticks /\ wd'.sample = 0 /\ wd'.step = "select"
  BY <1>1, <1>2 DEF Ticks, Steps
<1>4. TickTyped' /\ Quiet /\ Quiet'
  BY <1>1, <1>3 DEF TickTyped, Read, Quiet
<1>5. SetsTyped' /\ BoundsTyped'
  BY <1>1, BoundFacts DEF Typed, SetsTyped, BoundsTyped
<1> QED
  BY <1>1, <1>4, <1>5, TickStep

(* The steps that only go on to the next phase, or end the tick.           *)
LEMMA PhaseEndsStep ==
  ASSUME ProxyInv, Inconclusive \/ NoCandidateLeft \/ AbortFailover \/ FinishTick
  PROVE  ProxyInv'
<1>1. /\ Typed /\ TickTyped /\ BoundsTyped /\ UNCHANGED <<proven, failing, requests>>
      /\ UNCHANGED <<list, active, bench, coreVars, health>> /\ (HealthDone \/ TickEnds)
      /\ wd.step \in {"fetch", "verify", "switch", "select", "replace"} /\ (Works \/ Fault)
  BY DEF ProxyInv, Typed, Inconclusive, NoCandidateLeft, AbortFailover, FinishTick, profileVars
<1>2. TickTyped' /\ wd'.step \in {"select", "sleep"}
  <2>1. "select" \in Steps \ {"reread", "decide", "rank", "switch"}
    BY DEF Steps
  <2> QED
    BY <1>1, <2>1, ForgettingFacts DEF HealthDone
<1>3. Quiet /\ Quiet'
  BY <1>1, <1>2 DEF Quiet
<1>4. SetsTyped' /\ BoundsTyped'
  BY <1>1, BoundFacts DEF Typed, SetsTyped, BoundsTyped
<1> QED
  BY <1>1, <1>2, <1>3, <1>4, TickStep

(* Ranking the candidates of a failover keeps ProxyInv.                    *)
LEMMA RankCandidatesStep ==
  ASSUME ProxyInv, RankCandidates
  PROVE  ProxyInv'
<1>1. /\ Typed /\ TickTyped /\ BoundsTyped /\ wd.step = "rank" /\ Works /\ UNCHANGED <<proven, requests>>
      /\ failing' = failing \cup {wd.failed}
      /\ wd' = [wd EXCEPT !.step = "verify", !.candidates = (ToSet(list) \cap proven) \ failing']
      /\ UNCHANGED <<list, active, bench, coreVars, health>> /\ proven \subseteq Profiles
  BY DEF ProxyInv, Typed, RankCandidates, profileVars, SetsTyped
<1>2. wd \in Ticks /\ wd.sample = 0 /\ wd.failed \in Profiles
  BY <1>1, TickFacts
<1>3. wd' \in Ticks /\ wd'.sample = 0 /\ wd'.step = "verify"
  <2> DEFINE c == (ToSet(list) \cap proven) \ failing'
  <2>1. c \in SUBSET Profiles /\ wd' = [wd EXCEPT !.step = "verify", !.candidates = c]
    BY <1>1
  <2>2. "verify" \in Steps
    BY DEF Steps
  <2> HIDE DEF c
  <2> QED
    BY <1>2, <2>1, <2>2 DEF Ticks
<1>4. TickTyped' /\ Quiet /\ Quiet'
  BY <1>1, <1>3 DEF TickTyped, Read, Quiet
<1>5. SetsTyped' /\ BoundsTyped'
  BY <1>1, <1>2, BoundFacts DEF Typed, SetsTyped, BoundsTyped
<1> QED
  BY <1>1, <1>4, <1>5, TickStep

(* Probing a candidate keeps ProxyInv.                                     *)
LEMMA VerifyCandidateStep ==
  ASSUME ProxyInv, NEW p \in wd.candidates, VerifyCandidate(p)
  PROVE  ProxyInv'
<1>1. /\ Typed /\ TickTyped /\ BoundsTyped /\ wd.step = "verify" /\ Works /\ UNCHANGED requests
      /\ UNCHANGED <<list, active, bench, coreVars, health>> /\ list \in Lists
  BY DEF ProxyInv, Typed, VerifyCandidate, ListTyped
<1>2. wd \in Ticks /\ wd.sample = 0 /\ p \in Profiles /\ p # NoProfile
  BY <1>1, TickFacts, ProxyHealthAssumption DEF Ticks
<1>3. wd.candidates \ {p} \in SUBSET Profiles /\ {"switch", "verify"} \subseteq Steps
  BY <1>2 DEF Ticks, Steps
<1>4. Position(list, p) \in Nat
  BY <1>1, PositionFound, LenProperties DEF Lists
<1>5. CASE /\ wd' = [wd EXCEPT !.step = "switch", !.chosen = p, !.id = Position(list, p),
                               !.candidates = @ \ {p}]
           /\ proven' = proven \cup {p} /\ UNCHANGED failing
  <2>1. wd' \in Ticks /\ wd'.sample = 0 /\ wd'.step = "switch" /\ wd'.chosen = p
    BY <1>2, <1>3, <1>4, <1>5 DEF Ticks
  <2>2. TickTyped' /\ Quiet /\ Quiet'
    BY <1>1, <1>2, <2>1 DEF TickTyped, Read, Quiet
  <2>3. SetsTyped' /\ BoundsTyped'
    BY <1>1, <1>2, <1>5, BoundFacts DEF Typed, SetsTyped, BoundsTyped
  <2> QED
    BY <1>1, <2>2, <2>3, TickStep
<1>6. CASE /\ wd' = [wd EXCEPT !.candidates = @ \ {p}]
           /\ proven' = proven \ {p} /\ failing' = failing \cup {p}
  <2>1. wd' \in Ticks /\ wd'.sample = 0 /\ wd'.step = "verify"
    BY <1>1, <1>2, <1>3, <1>6 DEF Ticks
  <2>2. TickTyped' /\ Quiet /\ Quiet'
    BY <1>1, <1>2, <2>1 DEF TickTyped, Read, Quiet
  <2>3. SetsTyped' /\ BoundsTyped'
    BY <1>1, <1>2, <1>6, BoundFacts DEF Typed, SetsTyped, BoundsTyped
  <2> QED
    BY <1>1, <2>2, <2>3, TickStep
<1> QED
  BY <1>5, <1>6 DEF VerifyCandidate

(* The next candidate is tried without the one before.                     *)
LEMMA NextCandidateFacts ==
  ASSUME TickTyped, wd.step = "switch", NextCandidate
  PROVE  TickTyped' /\ Quiet /\ Quiet'
<1>1. wd \in Ticks /\ wd.sample = 0
  BY TickFacts
<1>2. wd' \in Ticks /\ wd'.sample = 0 /\ wd'.step = "verify"
  BY <1>1 DEF NextCandidate, Ticks, Steps
<1> QED
  BY <1>2 DEF TickTyped, Read, Quiet

(* A candidate that is gone meanwhile keeps ProxyInv.                      *)
LEMMA CandidateGoneStep ==
  ASSUME ProxyInv, CandidateGone
  PROVE  ProxyInv'
<1>1. /\ Typed /\ TickTyped /\ BoundsTyped /\ wd.step = "switch" /\ Works /\ UNCHANGED <<proven, requests>>
      /\ failing' = failing \cup {wd.chosen} /\ NextCandidate
      /\ UNCHANGED <<list, active, bench, coreVars, health>>
  BY DEF ProxyInv, Typed, CandidateGone, profileVars
<1>2. TickTyped' /\ Quiet /\ Quiet'
  BY <1>1, NextCandidateFacts
<1>3. SetsTyped' /\ BoundsTyped'
  BY <1>1, TickFacts, BoundFacts DEF Typed, SetsTyped, BoundsTyped
<1> QED
  BY <1>1, <1>2, <1>3, TickStep

(* A profile chosen by its place in the list.                              *)
LEMMA ChooseStep ==
  ASSUME ProxyInv, ChooseBest \/ ChooseReplacement
  PROVE  ProxyInv'
<1>1. /\ Typed /\ TickTyped /\ BoundsTyped /\ wd.step \in {"select", "replace"} /\ Works
      /\ UNCHANGED <<proven, failing, requests>> /\ list \in Lists
      /\ UNCHANGED <<list, active, bench, coreVars, health>>
  BY DEF ProxyInv, Typed, ChooseBest, ChooseReplacement, profileVars, ListTyped
<1>2. wd \in Ticks /\ wd.sample = 0
  BY <1>1, TickFacts
<1>3. PICK id \in DOMAIN list :
        \/ wd' = [wd EXCEPT !.step = "activate", !.id = id, !.chosen = list[id]]
        \/ wd' = [wd EXCEPT !.step = "activate", !.up = FALSE, !.id = id, !.chosen = list[id]]
  BY DEF ChooseBest, ChooseReplacement, Replaceable
<1>4. id \in Nat /\ list[id] \in Profiles /\ "activate" \in Steps
  <2>1. list \in Seq(Profiles) /\ id \in 1..Len(list)
    BY <1>1, LenProperties DEF Lists
  <2> QED
    BY <2>1, ElementOfSeq DEF Steps
<1>5. wd' \in Ticks /\ wd'.sample = 0 /\ wd'.step = "activate"
  BY <1>2, <1>3, <1>4 DEF Ticks
<1>6. TickTyped' /\ Quiet /\ Quiet'
  BY <1>1, <1>5 DEF TickTyped, Read, Quiet
<1>7. SetsTyped' /\ BoundsTyped'
  BY <1>1, BoundFacts DEF Typed, SetsTyped, BoundsTyped
<1> QED
  BY <1>1, <1>6, <1>7, TickStep

-----------------------------------------------------------------------------
(* The steps of a tick that load a profile.                                *)

(* A restart of the core by the watchdog keeps ProxyInv.                   *)
LEMMA RestartCoreStep ==
  ASSUME ProxyInv, RestartCore
  PROVE  ProxyInv'
<1>1. /\ Typed /\ TickTyped /\ BoundsTyped /\ wd.step = "restart" /\ TickSkipped
      /\ UNCHANGED <<list, proven, bench, failing, requests>>
  BY DEF ProxyInv, Typed, RestartCore
<1>2. TickTyped' /\ wd'.step = "sleep"
  <2>1. "sleep" \in Steps \ {"reread", "decide", "rank", "switch"}
    BY DEF Steps
  <2> QED
    BY <1>1, <2>1, ForgettingFacts
<1>3. Quiet /\ Quiet'
  BY <1>1, <1>2 DEF Quiet
<1>4. SetsTyped' /\ bench' \in BOOLEAN /\ requests' \in 0..MaxRequests
  BY <1>1, BoundFacts DEF Typed, SetsTyped
<1>5. CASE Reloaded
  BY <1>1, <1>2, <1>3, <1>4, <1>5, ReloadedStep DEF ProxyInv, Typed, BoundsTyped
<1>6. CASE Works /\ UNCHANGED <<active, coreVars, health>>
  <2>1. Running' /\ ListTyped' /\ CoreTyped' /\ HealthTyped'
    BY <1>1, <1>3, <1>6, CoreLeftAlone
  <2> QED
    BY <1>1, <1>2, <1>4, <1>6, <2>1, BoundFacts DEF ProxyInv, Typed, BoundsTyped
<1> QED
  BY <1>5, <1>6 DEF RestartCore

(* The switch to a verified candidate keeps ProxyInv.                      *)
LEMMA SwitchToCandidateStep ==
  ASSUME ProxyInv, SwitchToCandidate
  PROVE  ProxyInv'
<1>1. /\ Typed /\ TickTyped /\ BoundsTyped /\ wd.step = "switch" /\ list \in Lists
      /\ UNCHANGED <<list, bench, requests>>
  BY DEF ProxyInv, Typed, ListTyped, SwitchToCandidate
<1>2. CASE Activated(CandidateId) /\ Works /\ HealthDone /\ UNCHANGED <<proven, failing>>
  <2>1. TickTyped' /\ wd'.step = "select"
    <3>1. "select" \in Steps \ {"reread", "decide", "rank", "switch"}
      BY DEF Steps
    <3> QED
      BY <1>1, <1>2, <3>1, ForgettingFacts DEF HealthDone
  <2>2. Quiet'
    BY <2>1 DEF Quiet
  <2>3. CandidateId \in 1..Len(list)
    <3>1. CandidateId \in 0..Len(list) /\ CandidateId # 0 /\ Len(list) \in Nat
      BY <1>1, PositionFound, LenProperties DEF CandidateId, SwitchToCandidate, Lists
    <3> HIDE DEF CandidateId
    <3> QED
      BY <3>1
  <2>4. Running' /\ active' \in 1..Len(list) /\ CoreTyped' /\ HealthTyped'
    BY <1>1, <1>2, <2>2, <2>3, ActivatedRun
  <2>5. ListTyped' /\ SetsTyped' /\ bench' \in BOOLEAN /\ BoundsTyped'
    BY <1>1, <1>2, <2>4, BoundFacts DEF Typed, ListTyped, SetsTyped, BoundsTyped
  <2> QED
    BY <2>1, <2>4, <2>5 DEF ProxyInv, Typed
<1>3. CASE /\ ActivationFails /\ proven' = proven \ {wd.chosen} /\ failing' = failing \cup {wd.chosen}
           /\ NextCandidate
  <2>1. TickTyped' /\ Quiet /\ Quiet'
    BY <1>1, <1>3, NextCandidateFacts
  <2>2. Running' /\ ListTyped' /\ CoreTyped' /\ HealthTyped'
    BY <1>1, <1>3, <2>1, FailedActivationStep
  <2>3. faults' \in 0..MaxFaults
    BY <1>1, <1>3, BoundFacts DEF ActivationFails
  <2>4. SetsTyped' /\ bench' \in BOOLEAN /\ BoundsTyped'
    BY <1>1, <1>3, <2>3, TickFacts, BoundFacts DEF Typed, SetsTyped, BoundsTyped
  <2> QED
    BY <2>1, <2>2, <2>4 DEF ProxyInv, Typed
<1> QED
  BY <1>2, <1>3 DEF SwitchToCandidate

(* A refresh by the watchdog keeps ProxyInv.                               *)
LEMMA RefreshDueStep ==
  ASSUME ProxyInv, RefreshDue
  PROVE  ProxyInv'
<1>1. /\ Typed /\ TickTyped /\ BoundsTyped /\ wd.step = "select" /\ Request /\ Works /\ ReplaceProfiles
      /\ wd' = [wd EXCEPT !.step = "replace", !.was = FALSE] /\ UNCHANGED <<bench, failing>>
  BY DEF ProxyInv, Typed, RefreshDue
<1>2. wd \in Ticks /\ wd.sample = 0
  BY <1>1, TickFacts
<1>3. wd' \in Ticks /\ wd'.sample = 0 /\ wd'.step = "replace"
  BY <1>1, <1>2 DEF Ticks, Steps
<1>4. TickTyped' /\ Quiet /\ Quiet'
  BY <1>1, <1>3 DEF TickTyped, Read, Quiet
<1>5. Running' /\ ListTyped' /\ CoreTyped' /\ HealthTyped' /\ proven' = proven
  BY <1>1, <1>4, ReplaceStep
<1>6. SetsTyped' /\ bench' \in BOOLEAN /\ BoundsTyped'
  BY <1>1, <1>5, BoundFacts DEF Typed, SetsTyped, BoundsTyped
<1> QED
  BY <1>4, <1>5, <1>6 DEF ProxyInv, Typed

(* The activation of the automatically chosen profile keeps ProxyInv.      *)
LEMMA ActivateChosenStep ==
  ASSUME ProxyInv, ActivateChosen
  PROVE  ProxyInv'
<1>1. /\ Typed /\ TickTyped /\ BoundsTyped /\ wd.step = "activate" /\ ActivateProfile(wd.id)
      /\ UNCHANGED <<list, proven, bench, failing, requests>>
  BY DEF ProxyInv, Typed, ActivateChosen
<1>2. TickTyped' /\ Quiet /\ Quiet'
  <2>1. CASE wd' = [wd EXCEPT !.step = "select", !.was = FALSE, !.id = 0, !.chosen = NoProfile]
    <3>1. wd \in Ticks /\ wd.sample = 0 /\ NoProfile \in Profiles \cup {NoProfile} /\ "select" \in Steps
      BY <1>1, TickFacts DEF Steps
    <3>2. wd' \in Ticks /\ wd'.sample = 0 /\ wd'.step = "select"
      BY <2>1, <3>1 DEF Ticks
    <3> QED
      BY <1>1, <3>2 DEF TickTyped, Read, Quiet
  <2>2. CASE TickEnds
    <3>1. "sleep" \in Steps \ {"reread", "decide", "rank", "switch"}
      BY DEF Steps
    <3>2. TickTyped' /\ wd'.step = "sleep"
      BY <1>1, <2>2, <3>1, ForgettingFacts
    <3> QED
      BY <1>1, <3>2 DEF Quiet
  <2> QED
    BY <2>1, <2>2 DEF ActivateChosen
<1>3. Running' /\ ListTyped' /\ CoreTyped' /\ HealthTyped' /\ faults' \in 0..MaxFaults
  BY <1>1, <1>2, ActivateProfileStep
<1>4. SetsTyped' /\ bench' \in BOOLEAN /\ BoundsTyped'
  BY <1>1, <1>3, BoundFacts DEF Typed, SetsTyped, BoundsTyped
<1> QED
  BY <1>2, <1>3, <1>4 DEF ProxyInv, Typed

-----------------------------------------------------------------------------
(* The observation: from the sample to the selector.                       *)

(* Samples seen but not counted yet are numbered.                          *)
LEMMA PendingFacts ==
  FailingPending \in Nat /\ HealthyPending \in Nat
BY DEF FailingPending, HealthyPending, One

(* The sample in the core becomes the sample the watchdog has read.        *)
LEMMA FetchSampleStep ==
  ASSUME ProxyInv, FetchSample
  PROVE  ProxyInv'
<1>1. /\ Typed /\ Running /\ TickTyped /\ BoundsTyped /\ wd.step = "fetch" /\ core.sample # 0 /\ Works
      /\ wd' = [wd EXCEPT !.step = "reread", !.sample = core.sample, !.ok = core.ok,
                          !.selector = core.selector]
      /\ UNCHANGED <<list, active, bench, coreVars, health>> /\ UNCHANGED <<proven, failing, requests>>
      /\ core \in Cores /\ UNCHANGED <<core, evidence>>
  BY DEF ProxyInv, Typed, FetchSample, profileVars, CoreTyped, coreVars
<1>2. wd \in Ticks /\ core.sample \in Samples /\ core.ok \in BOOLEAN /\ core.selector \in Selectors
  BY <1>1, TickFacts DEF Cores
<1>3. wd' \in Ticks /\ wd'.step = "reread" /\ wd'.sample = core.sample /\ wd'.ok = core.ok
  BY <1>1, <1>2 DEF Ticks, Steps
<1>4. ListTyped' /\ CoreTyped' /\ HealthTyped' /\ Identity' = Identity
  BY <1>1, CoreLeftAlone
<1>5. TickTyped'
  BY <1>1, <1>3 DEF TickTyped, Read
<1>6. SetsTyped' /\ BoundsTyped' /\ bench' \in BOOLEAN
  BY <1>1, BoundFacts DEF Typed, SetsTyped, BoundsTyped
<1>7. ~Read /\ Read' /\ Watched' /\ Overtaken' /\ Justified'
  BY <1>1, <1>3 DEF Read, Watched, Overtaken, Justified
<1>8. FailingPending' = FailingPending /\ HealthyPending' = HealthyPending
  <2>1. ~WdPending /\ ~CorePending' /\ (WdPending' <=> CorePending)
    BY <1>1, <1>3, <1>7 DEF WdPending, CorePending
  <2> QED
    BY <1>1, <1>3, <2>1 DEF FailingPending, HealthyPending, One
<1>9. Running'
  <2>1. ActiveRaw' = ActiveRaw
    BY <1>1 DEF ActiveRaw
  <2> QED
    BY <1>1, <1>4, <1>7, <1>8, <2>1 DEF Running, Counted
<1> QED
  BY <1>4, <1>5, <1>6, <1>9 DEF ProxyInv, Typed

(* Reading the health state again under the lock keeps ProxyInv.           *)
LEMMA RereadStep ==
  ASSUME ProxyInv, Reread
  PROVE  ProxyInv'
<1>1. /\ Typed /\ Running /\ TickTyped /\ BoundsTyped /\ wd.step = "reread" /\ Works
      /\ wd' = [wd EXCEPT !.step = "decide", !.after = Identity]
      /\ UNCHANGED <<list, active, bench, coreVars, health>> /\ UNCHANGED <<proven, failing, requests>>
      /\ UNCHANGED <<core, evidence>>
  BY DEF ProxyInv, Typed, Reread, profileVars, coreVars
<1>2. wd \in Ticks /\ Identity \in Identities /\ "decide" \in Steps
  BY <1>1, TickFacts, IdentityFacts DEF Steps
<1>3. /\ wd' \in Ticks /\ wd'.step = "decide" /\ wd'.sample = wd.sample /\ wd'.ok = wd.ok
      /\ wd'.after = Identity
  BY <1>1, <1>2 DEF Ticks
<1>4. ListTyped' /\ CoreTyped' /\ HealthTyped' /\ Identity' = Identity
  BY <1>1, CoreLeftAlone
<1>5. TickTyped' /\ Read /\ Read'
  BY <1>1, <1>3 DEF TickTyped, Read
<1>6. SetsTyped' /\ BoundsTyped' /\ bench' \in BOOLEAN
  BY <1>1, BoundFacts DEF Typed, SetsTyped, BoundsTyped
<1>7. Watched' /\ Justified' /\ (Overtaken' <=> Overtaken)
  BY <1>1, <1>3, <1>4, <1>5 DEF Watched, Overtaken, Justified
<1>8. FailingPending' = FailingPending /\ HealthyPending' = HealthyPending
  BY <1>1, <1>3, <1>5 DEF FailingPending, HealthyPending, WdPending, CorePending
<1>9. Running'
  <2>1. ActiveRaw' = ActiveRaw
    BY <1>1 DEF ActiveRaw
  <2> QED
    BY <1>1, <1>4, <1>7, <1>8, <2>1 DEF Running, Counted
<1> QED
  BY <1>4, <1>5, <1>6, <1>9 DEF ProxyInv, Typed

(* Only noted, an identity starts with no more than the sample that has    *)
(* overtaken the noted one.                                                *)
LEMMA NoteIdentityStep ==
  ASSUME ProxyInv, NoteIdentity
  PROVE  ProxyInv'
<1>1. /\ Typed /\ Running /\ TickTyped /\ BoundsTyped /\ CoreTyped /\ ListTyped /\ wd.step = "decide" /\ Works
      /\ health' = [identity |-> wd.after, sample |-> wd.sample, failures |-> 0, recoveries |-> 0]
      /\ rejected' = (wd.selector = "REJECT") /\ TickSkipped
      /\ UNCHANGED <<list, active, proven, bench, core, evidence, failing, requests>>
  BY DEF ProxyInv, Typed, NoteIdentity, profileVars
<1>2. wd \in Ticks /\ wd.after \in Identities /\ wd.sample \in Samples
  BY <1>1, TickFacts DEF Ticks
<1>3. TickTyped' /\ wd'.step = "sleep"
  <2>1. "sleep" \in Steps \ {"reread", "decide", "rank", "switch"}
    BY DEF Steps
  <2> QED
    BY <1>1, <2>1, ForgettingFacts
<1>4. HealthTyped'
  <2>1. 0 \in 0..FailureThreshold /\ 0 \in 0..RecoveryThreshold
    BY DEF FailureThreshold, RecoveryThreshold
  <2> QED
    BY <1>1, <1>2, <2>1 DEF HealthTyped, Healths
<1>5. CoreTyped' /\ ListTyped'
  <2>1. rejected' \in BOOLEAN
    BY <1>1, Zenon
  <2> QED
    BY <1>1, <2>1 DEF CoreTyped, ListTyped
<1>6. SetsTyped' /\ BoundsTyped' /\ bench' \in BOOLEAN
  BY <1>1, BoundFacts DEF Typed, SetsTyped, BoundsTyped
<1>7. Running'
  <2> SUFFICES ASSUME core.up
               PROVE  Running'
    BY <1>1 DEF Running
  <2>1. Watched' /\ Overtaken' /\ Justified' /\ ~WdPending'
    BY <1>3 DEF Read, Watched, Overtaken, Justified, WdPending
  <2>2. Read /\ Overtaken /\ (active # 0 => core.raw = ActiveRaw)
    BY <1>1 DEF Read, Running
  <2>3. CorePending' => core.sample # wd.sample
    BY <1>1 DEF CorePending
  <2>4. evidence.failing \in Nat /\ evidence.healthy \in Nat
    BY <1>1 DEF CoreTyped, Evidence
  <2>5. FailingPending' <= evidence.failing /\ HealthyPending' <= evidence.healthy
    BY <1>1, <2>1, <2>2, <2>3, <2>4 DEF FailingPending, HealthyPending, One, Overtaken
  <2>6. health'.failures + FailingPending' = FailingPending' /\ health'.recoveries + HealthyPending' = HealthyPending'
    <3>1. health'.failures = 0 /\ health'.recoveries = 0
      BY <1>1
    <3>2. FailingPending' \in Nat /\ HealthyPending' \in Nat
      BY DEF FailingPending, HealthyPending, One
    <3>3. \A n \in Nat : 0 + n = n
      OBVIOUS
    <3> QED
      BY <3>1, <3>2, <3>3, Zenon
  <2>7. Counted'
    BY <1>1, <2>5, <2>6 DEF Counted, Shown
  <2>8. ActiveRaw' = ActiveRaw
    BY <1>1 DEF ActiveRaw
  <2> QED
    BY <1>1, <2>1, <2>2, <2>7, <2>8 DEF Running
<1> QED
  BY <1>3, <1>4, <1>5, <1>6, <1>7 DEF ProxyInv, Typed

(* A fresh sample raises one counter by at most one and clears the other.  *)
LEMMA AdvancedFacts ==
  ASSUME health \in Healths, wd \in Ticks
  PROVE  /\ Advanced \in Healths
         /\ Advanced.identity = health.identity /\ Advanced.sample = wd.sample
         /\ Fresh /\ wd.ok => Advanced.failures = 0 /\ Advanced.recoveries <= health.recoveries + 1
         /\ Fresh /\ ~wd.ok => Advanced.failures <= health.failures + 1 /\ Advanced.recoveries = 0
         /\ ~Fresh => Advanced = health
<1> DEFINE f == AtMost(health.failures + 1, FailureThreshold)
           r == AtMost(health.recoveries + 1, RecoveryThreshold)
<1>1. /\ health.failures \in 0..FailureThreshold /\ health.recoveries \in 0..RecoveryThreshold
      /\ health.identity \in Identities /\ wd.sample \in Samples
  BY DEF Healths, Ticks
<1>2. /\ f \in 0..FailureThreshold /\ f <= health.failures + 1
      /\ r \in 0..RecoveryThreshold /\ r <= health.recoveries + 1
  BY <1>1 DEF AtMost, FailureThreshold, RecoveryThreshold
<1>3. 0 \in 0..FailureThreshold /\ 0 \in 0..RecoveryThreshold /\ 0 <= health.recoveries + 1
  BY <1>1 DEF FailureThreshold, RecoveryThreshold
<1> HIDE DEF f, r
<1>4. CASE Fresh /\ wd.ok
  <2>1. PICK n \in {r, 0} :
          Advanced = [identity |-> health.identity, sample |-> wd.sample, failures |-> 0, recoveries |-> n]
    BY <1>4 DEF Advanced, r
  <2>2. n \in 0..RecoveryThreshold /\ n <= health.recoveries + 1
    BY <1>2, <1>3
  <2> QED
    BY <1>1, <1>3, <1>4, <2>1, <2>2 DEF Healths
<1>5. CASE Fresh /\ ~wd.ok
  <2>1. Advanced = [identity |-> health.identity, sample |-> wd.sample, failures |-> f, recoveries |-> 0]
    BY <1>5 DEF Advanced, f
  <2> QED
    BY <1>1, <1>2, <1>3, <1>5, <2>1 DEF Healths
<1>6. CASE ~Fresh
  BY <1>6 DEF Advanced, Fresh
<1> QED
  BY <1>4, <1>5, <1>6

(* The decision counts the sample that was pending until then.             *)
LEMMA DecideHealthStep ==
  ASSUME ProxyInv, DecideHealth
  PROVE  ProxyInv'
<1>1. /\ Typed /\ Running /\ TickTyped /\ BoundsTyped /\ CoreTyped /\ ListTyped /\ wd.step = "decide" /\ Works
      /\ Comparable /\ health' = Advanced /\ rejected' = (wd.selector = "REJECT")
      /\ UNCHANGED <<list, active, proven, bench, core, evidence, requests>> /\ health \in Healths
  BY DEF ProxyInv, Typed, DecideHealth, profileVars, HealthTyped
<1>2. wd \in Ticks
  BY <1>1, TickFacts
<1>3. /\ health' \in Healths /\ health'.identity = health.identity /\ health'.sample = wd.sample
      /\ Fresh /\ wd.ok => health'.failures = 0 /\ health'.recoveries <= health.recoveries + 1
      /\ Fresh /\ ~wd.ok => health'.failures <= health.failures + 1 /\ health'.recoveries = 0
      /\ ~Fresh => health' = health
  BY <1>1, <1>2, AdvancedFacts
<1>4. /\ TickTyped' /\ wd'.step \in {"select", "recover", "reject"}
      /\ wd'.step = "recover" => health'.recoveries >= RecoveryThreshold
      /\ wd'.step = "reject" => health'.failures >= FailureThreshold
  <2>1. \A s \in {"select", "recover", "reject"} : s \in Steps \ {"reread", "decide", "rank", "switch"}
    BY DEF Steps
  <2>2. CASE Transition(Advanced) = "none"
    BY <1>1, <2>1, <2>2, ForgettingFacts DEF DecideHealth, HealthDone
  <2>3. CASE Transition(Advanced) = "recover"
    <3>1. wd' = Proceed("recover")
      BY <2>3 DEF DecideHealth
    <3>2. Advanced.recoveries >= RecoveryThreshold
      BY <2>3 DEF Transition
    <3> QED
      BY <1>1, <2>1, <3>1, <3>2, ForgettingFacts
  <2>4. CASE Transition(Advanced) = "reject"
    <3>1. PICK failed \in {ActiveRaw, NoProfile} : wd' = [Proceed("reject") EXCEPT !.failed = failed]
      BY <2>4 DEF DecideHealth
    <3>2. Advanced.failures >= FailureThreshold
      BY <2>4 DEF Transition
    <3>3. failed \in Profiles \cup {NoProfile}
      BY <1>1, IdentityFacts
    <3>4. Proceed("reject") \in Ticks
      <4>1. Idle \in Ticks /\ "reject" \in Steps
        BY DEF Idle, Ticks, Steps, Identities, NoIdentity, Samples, Selectors
      <4> QED
        BY <1>2, <4>1 DEF Proceed, Ticks
    <3>5. Proceed("reject").step = "reject" /\ Proceed("reject").sample = 0
      BY DEF Proceed, Idle
    <3>6. wd' \in Ticks /\ wd'.step = "reject" /\ wd'.sample = 0
      <4> DEFINE w == Proceed("reject")
      <4>1. w \in Ticks /\ w.step = "reject" /\ w.sample = 0 /\ wd' = [w EXCEPT !.failed = failed]
        BY <3>1, <3>4, <3>5
      <4> HIDE DEF w
      <4> QED
        BY <3>3, <4>1 DEF Ticks
    <3>7. TickTyped'
      BY <3>6 DEF TickTyped, Read
    <3> QED
      BY <1>1, <3>2, <3>6, <3>7
  <2>5. Transition(Advanced) \in {"none", "recover", "reject"}
    BY DEF Transition
  <2> QED
    BY <2>2, <2>3, <2>4, <2>5
<1>5. CoreTyped' /\ ListTyped'
  <2>1. rejected' \in BOOLEAN
    BY <1>1, Zenon
  <2> QED
    BY <1>1, <2>1 DEF CoreTyped, ListTyped
<1>6. SetsTyped' /\ BoundsTyped' /\ bench' \in BOOLEAN
  <2>1. failing' \subseteq Profiles
    BY <1>1 DEF DecideHealth, Typed, SetsTyped
  <2> QED
    BY <1>1, <2>1, BoundFacts DEF Typed, SetsTyped, BoundsTyped
<1>7. Running'
  <2> SUFFICES ASSUME core.up
               PROVE  Running'
    BY <1>1 DEF Running
  <2>1. Read /\ ~Read' /\ Watched' /\ Overtaken'
    BY <1>1, <1>4 DEF Read, Watched, Overtaken
  <2>2. Overtaken /\ Counted /\ Watched /\ (active # 0 => core.raw = ActiveRaw)
    BY <1>1 DEF Running
  <2>3. ActiveRaw' = ActiveRaw /\ Identity' = Identity
    BY <1>1 DEF ActiveRaw, Identity
  <2>4. (WdPending <=> Fresh) /\ ~WdPending'
    BY <2>1 DEF WdPending, Fresh
  <2>5. CorePending' <=> CorePending
    BY <1>1, <1>3, <2>1, <2>2 DEF CorePending, Overtaken, Fresh
  <2> DEFINE b == One(CorePending /\ ~core.ok)
             g == One(CorePending /\ core.ok)
  <2>6. b \in Nat /\ g \in Nat /\ FailingPending' = b /\ HealthyPending' = g
    BY <1>1, <2>4, <2>5 DEF FailingPending, HealthyPending, One
  <2>7. /\ FailingPending = (IF Fresh /\ ~wd.ok THEN 1 ELSE 0) + b
        /\ HealthyPending = (IF Fresh /\ wd.ok THEN 1 ELSE 0) + g
    BY <2>4 DEF FailingPending, HealthyPending, One
  <2> HIDE DEF b, g
  <2>8. /\ health.failures \in Nat /\ health.recoveries \in Nat
        /\ health'.failures \in Nat /\ health'.recoveries \in Nat
        /\ evidence.failing \in 0..FailureThreshold /\ evidence.healthy \in 0..RecoveryThreshold
        /\ evidence.failing \in Nat /\ evidence.healthy \in Nat
    BY <1>1, <1>3 DEF Healths, CoreTyped, Evidence, FailureThreshold, RecoveryThreshold
  <2>9. /\ health'.failures + FailingPending' <= health.failures + FailingPending
        /\ health'.recoveries + HealthyPending' <= health.recoveries + HealthyPending
    <3>1. CASE Fresh /\ wd.ok
      BY <1>3, <2>6, <2>7, <2>8, <3>1
    <3>2. CASE Fresh /\ ~wd.ok
      BY <1>3, <2>6, <2>7, <2>8, <3>2
    <3>3. CASE ~Fresh
      BY <1>3, <2>6, <2>7, <2>8, <3>3
    <3> QED
      BY <3>1, <3>2, <3>3
  <2>10. Counted'
    BY <1>1, <1>3, <2>2, <2>3, <2>6, <2>8, <2>9, PendingFacts DEF Counted, Shown
  <2>11. health'.identity = Identity /\ active # 0
    BY <1>1, <1>3, <2>2, IdentityFacts DEF Comparable, Watched
  <2>12. Justified'
    <3>1. /\ Shown(health'.failures + b, evidence.failing, FailureThreshold)
          /\ Shown(health'.recoveries + g, evidence.healthy, RecoveryThreshold)
      BY <1>1, <2>3, <2>6, <2>10, <2>11 DEF Counted
    <3> QED
      BY <1>1, <1>4, <2>6, <2>8, <3>1 DEF Justified, Shown, FailureThreshold, RecoveryThreshold
  <2> QED
    BY <1>1, <2>1, <2>2, <2>3, <2>10, <2>12 DEF Running
<1> QED
  BY <1>3, <1>4, <1>5, <1>6, <1>7 DEF ProxyInv, Typed, HealthTyped

(* The selector of the running core is moved, or the request is lost.      *)
LEMMA SelectorFacts ==
  ASSUME CoreTyped, NEW s \in Selectors, core' \in {core, [core EXCEPT !.selector = s]}
  PROVE  /\ core' \in Cores /\ core'.up = core.up /\ core'.gen = core.gen /\ core'.raw = core.raw
         /\ core'.sample = core.sample /\ core'.ok = core.ok
<1>1. core \in Cores
  BY DEF CoreTyped
<1> QED
  BY <1>1 DEF Cores

(* That changes nothing of the evidence, and counters may only fall, or    *)
(* rise to what the evidence already is.                                   *)
LEMMA MovedRun ==
  ASSUME Typed, Running, HealthTyped', ~Read, Quiet', UNCHANGED <<list, active, evidence>>,
         NEW s \in Selectors, core' \in {core, [core EXCEPT !.selector = s]},
         health'.identity = health.identity, health'.sample = health.sample,
         core.up => health'.failures <= health.failures \/ evidence.failing = FailureThreshold,
         health'.recoveries <= health.recoveries
  PROVE  Running'
<1> SUFFICES ASSUME core.up
             PROVE  Running'
  BY SelectorFacts DEF Running, Typed
<1>1. /\ core'.up = core.up /\ core'.gen = core.gen /\ core'.raw = core.raw
      /\ core'.sample = core.sample /\ core'.ok = core.ok
  BY SelectorFacts DEF Typed
<1>2. ~Read' /\ Watched' /\ Overtaken' /\ Justified'
  BY DEF Quiet, Read, Watched, Overtaken, Justified
<1>3. Counted /\ (active # 0 => core.raw = ActiveRaw)
  BY DEF Running
<1>4. ActiveRaw' = ActiveRaw /\ Identity' = Identity
  BY <1>1 DEF ActiveRaw, Identity
<1>5. FailingPending' = FailingPending /\ HealthyPending' = HealthyPending
  <2>1. ~WdPending /\ ~WdPending' /\ (CorePending' <=> CorePending)
    BY <1>1, <1>2 DEF WdPending, CorePending
  <2> QED
    BY <1>1, <2>1 DEF FailingPending, HealthyPending, One
<1>6. /\ health.failures \in Nat /\ health.recoveries \in Nat
      /\ health'.failures \in Nat /\ health'.recoveries \in Nat
      /\ evidence.failing \in Nat /\ evidence.healthy \in Nat
  BY DEF Typed, HealthTyped, Healths, CoreTyped, Evidence, FailureThreshold, RecoveryThreshold
<1>7. Counted'
  BY <1>3, <1>4, <1>5, <1>6, PendingFacts DEF Counted, Shown
<1> QED
  BY <1>1, <1>2, <1>3, <1>4, <1>7 DEF Running

(* Engaging REJECT after the last failing sample keeps ProxyInv.           *)
LEMMA EngageRejectStep ==
  ASSUME ProxyInv, EngageReject
  PROVE  ProxyInv'
<1>1. /\ Typed /\ Running /\ TickTyped /\ BoundsTyped /\ CoreTyped /\ ListTyped /\ HealthTyped
      /\ wd.step = "reject" /\ UNCHANGED <<list, active, bench, evidence, failing, requests>>
  BY DEF ProxyInv, Typed, EngageReject
<1>2. wd \in Ticks /\ wd.sample = 0 /\ ~Read /\ health \in Healths /\ "REJECT" \in Selectors
  BY <1>1, TickFacts DEF Read, HealthTyped, Selectors
<1>3. core.up => evidence.failing = FailureThreshold
  BY <1>1 DEF Running, Justified
<1>4. ListTyped' /\ bench' \in BOOLEAN /\ requests' \in 0..MaxRequests
  BY <1>1, BoundFacts DEF Typed, ListTyped
<1>5. CASE /\ core.up /\ Works /\ core' = [core EXCEPT !.selector = "REJECT"] /\ rejected' = TRUE
           /\ health' = [health EXCEPT !.failures = FailureThreshold] /\ proven' = proven \ {wd.failed}
           /\ IF wd.failed = NoProfile THEN HealthDone ELSE wd' = [wd EXCEPT !.step = "rank"]
  <2>1. /\ health' \in Healths /\ health'.identity = health.identity /\ health'.sample = health.sample
        /\ health'.recoveries = health.recoveries
    <3>1. FailureThreshold \in 0..FailureThreshold
      BY DEF FailureThreshold
    <3> QED
      BY <1>2, <1>5, <3>1 DEF Healths
  <2>2. TickTyped' /\ wd'.step \in {"select", "rank"}
    <3>1. CASE HealthDone
      <4>1. "select" \in Steps \ {"reread", "decide", "rank", "switch"}
        BY DEF Steps
      <4> QED
        BY <1>1, <3>1, <4>1, ForgettingFacts DEF HealthDone
    <3>2. CASE wd.failed # NoProfile /\ wd' = [wd EXCEPT !.step = "rank"]
      <4>1. wd' \in Ticks /\ wd'.step = "rank" /\ wd'.sample = 0 /\ wd'.failed = wd.failed
        BY <1>2, <3>2 DEF Ticks, Steps
      <4> QED
        BY <3>2, <4>1 DEF TickTyped, Read
    <3> QED
      BY <1>5, <3>1, <3>2
  <2>3. Quiet'
    BY <2>2 DEF Quiet
  <2>4. health.recoveries \in Nat /\ health'.recoveries <= health.recoveries
    BY <1>2, <2>1 DEF Healths, RecoveryThreshold
  <2>5. Running'
    BY <1>1, <1>2, <1>3, <1>5, <2>1, <2>3, <2>4, MovedRun DEF HealthTyped
  <2>6. CoreTyped' /\ HealthTyped' /\ SetsTyped' /\ BoundsTyped'
    BY <1>1, <1>2, <1>5, <2>1, SelectorFacts, BoundFacts
       DEF CoreTyped, HealthTyped, Typed, SetsTyped, BoundsTyped
  <2> QED
    BY <1>4, <2>2, <2>5, <2>6 DEF ProxyInv, Typed
<1>6. CASE /\ (~core.up /\ Works) \/ Fault
           /\ core' \in {core} \cup (IF core.up THEN {[core EXCEPT !.selector = "REJECT"]} ELSE {})
           /\ TickSkipped
           /\ UNCHANGED <<rejected, health, proven>>
  <2>1. TickTyped' /\ wd'.step = "sleep"
    <3>1. "sleep" \in Steps \ {"reread", "decide", "rank", "switch"}
      BY DEF Steps
    <3> QED
      BY <1>1, <1>6, <3>1, ForgettingFacts
  <2>2. Quiet' /\ HealthTyped'
    BY <1>1, <1>6, <2>1 DEF Quiet, HealthTyped
  <2>3. core' \in {core, [core EXCEPT !.selector = "REJECT"]}
    BY <1>6
  <2>4. health.recoveries \in Nat /\ health.failures \in Nat
    BY <1>2 DEF Healths, RecoveryThreshold, FailureThreshold
  <2>5. health'.failures <= health.failures /\ health'.recoveries <= health.recoveries
    BY <1>6, <2>4
  <2>6. Running'
    BY <1>1, <1>2, <1>6, <2>2, <2>3, <2>5, MovedRun
  <2>7. CoreTyped' /\ SetsTyped' /\ BoundsTyped'
    BY <1>1, <1>2, <1>6, <2>3, SelectorFacts, BoundFacts DEF CoreTyped, Typed, SetsTyped, BoundsTyped
  <2> QED
    BY <1>4, <2>1, <2>2, <2>6, <2>7 DEF ProxyInv, Typed
<1> QED
  BY <1>5, <1>6 DEF EngageReject

(* Giving the selector back after the last healthy sample keeps ProxyInv.  *)
LEMMA RecoverStep ==
  ASSUME ProxyInv, Recover
  PROVE  ProxyInv'
<1>1. /\ Typed /\ Running /\ TickTyped /\ BoundsTyped /\ CoreTyped /\ ListTyped /\ HealthTyped
      /\ wd.step = "recover" /\ UNCHANGED <<list, active, proven, bench, evidence, failing, requests>>
      /\ HealthDone
  BY DEF ProxyInv, Typed, Recover, profileVars
<1>2. ~Read /\ health \in Healths /\ "proxy-active" \in Selectors
  BY <1>1 DEF Read, HealthTyped, Selectors
<1>3. ListTyped' /\ bench' \in BOOLEAN /\ SetsTyped'
  BY <1>1 DEF Typed, ListTyped, SetsTyped
<1>4. TickTyped' /\ wd'.step = "select"
  <2>1. "select" \in Steps \ {"reread", "decide", "rank", "switch"}
    BY DEF Steps
  <2> QED
    BY <1>1, <2>1, ForgettingFacts DEF HealthDone
<1>5. Quiet'
  BY <1>4 DEF Quiet
<1>6. /\ core' \in {core, [core EXCEPT !.selector = "proxy-active"]}
      /\ (health' = [health EXCEPT !.recoveries = 0] \/ health' = health)
      /\ (rejected' = FALSE \/ rejected' = rejected) /\ (Works \/ Fault)
  BY DEF Recover
<1>7. /\ health' \in Healths /\ health'.identity = health.identity /\ health'.sample = health.sample
      /\ health'.failures = health.failures /\ health'.recoveries \in {0, health.recoveries}
  <2>1. 0 \in 0..RecoveryThreshold
    BY DEF RecoveryThreshold
  <2> QED
    BY <1>2, <1>6, <2>1 DEF Healths
<1>8. health.recoveries \in Nat /\ health.failures \in Nat
  BY <1>2 DEF Healths, RecoveryThreshold, FailureThreshold
<1>9. health'.failures <= health.failures /\ health'.recoveries <= health.recoveries
  BY <1>7, <1>8
<1>10. Running'
  BY <1>1, <1>2, <1>5, <1>6, <1>7, <1>9, MovedRun DEF HealthTyped
<1>11. CoreTyped' /\ HealthTyped' /\ BoundsTyped'
  BY <1>1, <1>2, <1>6, <1>7, SelectorFacts, BoundFacts DEF CoreTyped, HealthTyped, BoundsTyped
<1> QED
  BY <1>3, <1>4, <1>10, <1>11 DEF ProxyInv, Typed

-----------------------------------------------------------------------------
(* The environment.                                                        *)

(* A sample of the sensor is pending and evidence at once.                 *)
LEMMA MeasureUpstreamStep ==
  ASSUME ProxyInv, NEW ok \in BOOLEAN, MeasureUpstream(ok)
  PROVE  ProxyInv'
<1>1. /\ Typed /\ Running /\ TickTyped /\ BoundsTyped /\ CoreTyped /\ ListTyped /\ HealthTyped
      /\ core.up /\ core.sample \in {0, health.sample, wd.sample} /\ Works
      /\ core' = [core EXCEPT !.sample = FreshSample, !.ok = ok]
      /\ UNCHANGED <<list, active, proven, bench, rejected, health, failing, wd, requests>>
  BY DEF ProxyInv, Typed, MeasureUpstream, profileVars
<1>2. FreshSample \in Samples \ {0, health.sample, wd.sample}
  BY <1>1, FreshFacts
<1>3. /\ core' \in Cores /\ core'.up = core.up /\ core'.gen = core.gen /\ core'.raw = core.raw
      /\ core'.sample = FreshSample /\ core'.ok = ok
  <2>1. core \in Cores
    BY <1>1 DEF CoreTyped
  <2> QED
    BY <1>1, <1>2, <2>1 DEF Cores
<1> DEFINE f == AtMost(evidence.failing + 1, FailureThreshold)
           h == AtMost(evidence.healthy + 1, RecoveryThreshold)
<1>4. /\ evidence.failing \in 0..FailureThreshold /\ evidence.healthy \in 0..RecoveryThreshold
      /\ f \in 1..FailureThreshold /\ (f = FailureThreshold \/ f = evidence.failing + 1)
      /\ h \in 1..RecoveryThreshold /\ (h = RecoveryThreshold \/ h = evidence.healthy + 1)
      /\ evidence.failing = FailureThreshold => f = FailureThreshold
      /\ evidence.healthy = RecoveryThreshold => h = RecoveryThreshold
  <2>1. evidence.failing \in 0..FailureThreshold /\ evidence.healthy \in 0..RecoveryThreshold
    BY <1>1 DEF CoreTyped, Evidence
  <2> QED
    BY <2>1 DEF AtMost, FailureThreshold, RecoveryThreshold
<1>5. /\ evidence' \in Evidence
      /\ evidence'.failing = IF ok THEN evidence.failing ELSE f
      /\ evidence'.healthy = IF ok THEN h ELSE evidence.healthy
  <2>1. evidence \in Evidence
    BY <1>1 DEF CoreTyped
  <2>2. f \in 0..FailureThreshold /\ h \in 0..RecoveryThreshold
    BY <1>4 DEF FailureThreshold, RecoveryThreshold
  <2>3. evidence' = IF ok THEN [evidence EXCEPT !.healthy = h] ELSE [evidence EXCEPT !.failing = f]
    BY DEF MeasureUpstream
  <2> HIDE DEF f, h
  <2> QED
    BY <2>1, <2>2, <2>3 DEF Evidence
<1> HIDE DEF f, h
<1>6. CoreTyped' /\ ListTyped' /\ HealthTyped' /\ TickTyped'
  BY <1>1, <1>3, <1>5, SameTick DEF CoreTyped, ListTyped, HealthTyped
<1>7. SetsTyped' /\ BoundsTyped' /\ bench' \in BOOLEAN
  BY <1>1, BoundFacts DEF Typed, SetsTyped, BoundsTyped
<1>8. Counted /\ Watched /\ Justified /\ (active # 0 => core.raw = ActiveRaw)
  BY <1>1 DEF Running
<1>9. ActiveRaw' = ActiveRaw /\ Identity' = Identity /\ (Read' <=> Read)
  BY <1>1, <1>3 DEF ActiveRaw, Identity, Read
<1>10. Watched'
  BY <1>1, <1>8, <1>9 DEF Watched
<1>11. Overtaken'
  BY <1>1, <1>2, <1>3, <1>4, <1>5 DEF Overtaken, FailureThreshold, RecoveryThreshold
<1>12. Justified'
  BY <1>1, <1>4, <1>5, <1>8 DEF Justified
<1>13. ~CorePending /\ CorePending' /\ (WdPending' <=> WdPending)
  <2>1. wd.sample # 0 <=> Read
    BY <1>1 DEF TickTyped
  <2> QED
    BY <1>1, <1>2, <1>3, <1>9, <2>1 DEF CorePending, WdPending
<1>14. /\ FailingPending' = FailingPending + (IF ok THEN 0 ELSE 1)
       /\ HealthyPending' = HealthyPending + (IF ok THEN 1 ELSE 0)
  BY <1>1, <1>3, <1>13 DEF FailingPending, HealthyPending, One
<1>15. health.failures \in Nat /\ health.recoveries \in Nat
  BY <1>1 DEF HealthTyped, Healths, FailureThreshold, RecoveryThreshold
<1>16. Counted'
  <2>1. ASSUME Shown(health.failures + FailingPending, evidence.failing, FailureThreshold)
        PROVE  Shown(health.failures + FailingPending', evidence'.failing, FailureThreshold)
    BY <1>4, <1>5, <1>14, <1>15, <2>1, PendingFacts DEF Shown, FailureThreshold
  <2>2. ASSUME Shown(health.recoveries + HealthyPending, evidence.healthy, RecoveryThreshold)
        PROVE  Shown(health.recoveries + HealthyPending', evidence'.healthy, RecoveryThreshold)
    BY <1>4, <1>5, <1>14, <1>15, <2>2, PendingFacts DEF Shown, RecoveryThreshold
  <2> QED
    BY <1>1, <1>8, <1>9, <2>1, <2>2 DEF Counted
<1>17. Running'
  BY <1>1, <1>3, <1>8, <1>9, <1>10, <1>11, <1>12, <1>16 DEF Running
<1> QED
  BY <1>6, <1>7, <1>17 DEF ProxyInv, Typed

(* A crash of the core keeps ProxyInv.                                     *)
LEMMA CoreCrashStep ==
  ASSUME ProxyInv, CoreCrash
  PROVE  ProxyInv'
<1>1. /\ Typed /\ BoundsTyped /\ CoreTyped /\ Fault /\ core' = Stopped /\ evidence' = NoEvidence
      /\ UNCHANGED <<list, active, proven, bench, rejected, health, failing, wd, requests>>
  BY DEF ProxyInv, Typed, CoreCrash, profileVars
<1>2. core' \in Cores /\ core'.up = FALSE /\ evidence' \in Evidence
  BY <1>1, StoppedFacts
<1>3. Running' /\ CoreTyped'
  BY <1>1, <1>2, StoppedRun DEF CoreTyped
<1>4. ListTyped' /\ HealthTyped' /\ SetsTyped' /\ TickTyped' /\ bench' \in BOOLEAN /\ BoundsTyped'
  BY <1>1, SameTick, BoundFacts DEF Typed, ListTyped, HealthTyped, SetsTyped, BoundsTyped
<1> QED
  BY <1>3, <1>4 DEF ProxyInv, Typed

(* ProxyInv holds initially.                                               *)
LEMMA ProxyInit ==
  ASSUME Init
  PROVE  ProxyInv
<1>1. /\ list \in InitialLists /\ active = 1 /\ proven = ToSet(list) /\ bench = FALSE
      /\ core = [up |-> TRUE, gen |-> 1, raw |-> list[1], selector |-> "proxy-active",
                 sample |-> 0, ok |-> FALSE]
      /\ rejected = FALSE /\ health = NoHealth /\ failing = {} /\ wd = Idle /\ evidence = NoEvidence
      /\ requests = 0 /\ faults = 0
  BY DEF Init
<1>2. list \in Lists /\ Len(list) \in Nat \ {0}
  <2>1. list \in Seq(Profiles) /\ list # <<>> /\ IsInjective(list)
    BY <1>1, ProxyHealthAssumption
  <2>2. DOMAIN list = 1..Len(list) /\ Len(list) \in Nat
    BY <2>1, LenProperties
  <2>3. Distinct(list)
    BY <2>1, <2>2 DEF Distinct, IsInjective
  <2>4. Len(list) # 0
    BY <2>1, EmptySeq
  <2> QED
    BY <2>1, <2>2, <2>3, <2>4 DEF Lists
<1>3. ListTyped /\ list[1] \in Profiles
  BY <1>1, <1>2, ElementOfSeq DEF ListTyped, Lists
<1>4. SetsTyped
  BY <1>1, <1>2, ListArranges DEF SetsTyped
<1>5. CoreTyped
  <2>1. 1 \in Generations /\ 0 \in Samples /\ "proxy-active" \in Selectors
    BY DEF Generations, Samples, Selectors
  <2>2. core \in Cores
    BY <1>1, <1>3, <2>1 DEF Cores
  <2>3. evidence \in Evidence
    BY <1>1 DEF NoEvidence, Evidence, FailureThreshold, RecoveryThreshold
  <2> QED
    BY <1>1, <2>2, <2>3 DEF CoreTyped
<1>6. HealthTyped
  BY <1>1 DEF HealthTyped, Healths, NoHealth, Identities, Samples, FailureThreshold, RecoveryThreshold
<1>7. TickTyped /\ wd.step = "sleep"
  <2>1. Idle \in Ticks
    BY DEF Idle, Ticks, Steps, Identities, NoIdentity, Samples, Selectors
  <2>2. Idle.step = "sleep" /\ Idle.sample = 0
    BY DEF Idle
  <2> QED
    BY <1>1, <2>1, <2>2 DEF TickTyped, Read
<1>8. BoundsTyped
  BY <1>1, ProxyHealthAssumption DEF BoundsTyped
<1>9. Running
  <2>1. Overtaken /\ Watched /\ Justified
    BY <1>7 DEF Read, Overtaken, Watched, Justified
  <2>2. ActiveRaw = list[1] /\ Identity # NoIdentity
    BY <1>1, <1>2, <1>3, ProxyHealthAssumption DEF ActiveRaw, Identity, NoIdentity
  <2>3. Counted
    BY <1>1, <2>2 DEF Counted, NoHealth
  <2> QED
    BY <1>1, <2>1, <2>2, <2>3 DEF Running
<1> QED
  BY <1>1, <1>3, <1>4, <1>5, <1>6, <1>7, <1>8, <1>9 DEF ProxyInv, Typed

(* Every step keeps ProxyInv.                                              *)
LEMMA ProxyNext ==
  ASSUME ProxyInv, [Next]_vars
  PROVE  ProxyInv'
<1>1. ASSUME Handlers
      PROVE  ProxyInv'
  <2>1. DOMAIN list \subseteq Nat
    BY LenProperties DEF ProxyInv, Typed, ListTyped, Lists
  <2> QED
    BY <1>1, SelectProfileStep, DeleteProfileStep, EditProfileStep, AddProfileStep,
       RefreshSubscriptionStep, ActivateStep, StopCoreStep, StartBenchmarkStep DEF Handlers
<1>2. ASSUME WatchdogStep
      PROVE  ProxyInv'
  BY <1>2, WakeStep, RestartCoreStep, RestartWaitsStep, FetchSampleStep, PhaseEndsStep, RereadStep,
     NoteIdentityStep, DecideHealthStep, EngageRejectStep, RecoverStep, RankCandidatesStep,
     VerifyCandidateStep, SwitchToCandidateStep, CandidateGoneStep, ChooseStep, RefreshDueStep,
     ActivateChosenStep DEF WatchdogStep
<1>3. ASSUME FinishBenchmark \/ Measures \/ CoreCrash
      PROVE  ProxyInv'
  BY <1>3, FinishBenchmarkStep, MeasureUpstreamStep, CoreCrashStep DEF Measures
<1>4. ASSUME UNCHANGED vars
      PROVE  ProxyInv'
  <2>1. /\ UNCHANGED <<list, active, coreVars, health>> /\ UNCHANGED <<proven, bench, failing, wd, requests, faults>>
    BY <1>4 DEF vars, profileVars, boundVars
  <2>2. Running' /\ ListTyped' /\ CoreTyped' /\ HealthTyped' /\ TickTyped'
    BY <2>1, CoreLeftAlone
  <2>3. SetsTyped' /\ BoundsTyped' /\ bench' \in BOOLEAN
    BY <2>1 DEF ProxyInv, Typed, SetsTyped, BoundsTyped
  <2> QED
    BY <2>2, <2>3 DEF ProxyInv, Typed
<1> QED
  BY <1>1, <1>2, <1>3, <1>4 DEF Next

-----------------------------------------------------------------------------
(* The theorems.                                                           *)

(* The inductive invariant holds in every state of every behaviour.        *)
THEOREM ProxyHealthInvariant == Spec => []ProxyInv
<1>1. Init => ProxyInv
  BY ProxyInit
<1>2. ProxyInv /\ [Next]_vars => ProxyInv'
  BY ProxyNext
<1> QED
  BY <1>1, <1>2, PTL DEF Spec

(* The state stays well formed: profiles are distinct, the active id is in *)
(* the list, counters stay below their thresholds.                         *)
THEOREM ProxyHealthTypeCorrect == Spec => []TypeOK
<1>1. ProxyInv => TypeOK
  <2> SUFFICES ASSUME ProxyInv
               PROVE  TypeOK
    OBVIOUS
  <2>1. Typed /\ ListTyped /\ SetsTyped /\ CoreTyped /\ HealthTyped /\ TickTyped /\ BoundsTyped
    BY DEF ProxyInv, Typed
  <2>2. \E S \in SUBSET Profiles : list \in SetToSeqs(S)
    BY <2>1, ListArranges DEF ListTyped
  <2>3. /\ health.identity \in Identities /\ health.sample \in Samples
        /\ health.failures \in 0..FailureThreshold /\ health.recoveries \in 0..RecoveryThreshold
    BY <2>1 DEF HealthTyped, Healths
  <2>4. /\ wd.step \in Steps /\ wd.candidates \subseteq Profiles /\ wd.id \in Nat
        /\ {wd.failed, wd.chosen} \subseteq Profiles \cup {NoProfile}
    BY <2>1 DEF TickTyped, Ticks
  <2>5. active \in 0..Len(list) /\ bench \in BOOLEAN
    BY <2>1 DEF ListTyped, Typed
  <2>6. /\ core \in [up : BOOLEAN, gen : Generations, raw : Profiles,
                     selector : {"proxy-active", "REJECT"}, sample : Samples, ok : BOOLEAN]
        /\ rejected \in BOOLEAN
        /\ evidence \in [failing : 0..FailureThreshold, healthy : 0..RecoveryThreshold]
    BY <2>1 DEF CoreTyped, Cores, Selectors, Evidence
  <2> QED
    BY <2>1, <2>2, <2>3, <2>4, <2>5, <2>6 DEF TypeOK, SetsTyped, BoundsTyped
<1> QED
  BY <1>1, ProxyHealthInvariant, PTL

(* A core that runs while a profile is active serves that very profile,    *)
(* whatever deletes, refreshes, edits, switches and rollbacks came before. *)
THEOREM ActiveProfileIsServed == Spec => []ActiveIsServed
<1>1. ProxyInv => ActiveIsServed
  BY DEF ProxyInv, Running, ActiveIsServed
<1> QED
  BY <1>1, ProxyHealthInvariant, PTL

(* The selector of a running core moves on samples that this core took of  *)
(* its profile, and the counters never show more than those.               *)
THEOREM SelectorNeedsEvidence == Spec => []SelectorMovesOnEvidence
<1>1. ProxyInv => SelectorMovesOnEvidence
  <2> SUFFICES ASSUME ProxyInv, core.up
               PROVE  SelectorMovesOnEvidence
    BY DEF SelectorMovesOnEvidence, CountersAreEvidence
  <2>1. Counted /\ Justified
    BY DEF ProxyInv, Running
  <2>2. /\ health.failures \in 0..FailureThreshold /\ health.recoveries \in 0..RecoveryThreshold
        /\ evidence.failing \in 0..FailureThreshold /\ evidence.healthy \in 0..RecoveryThreshold
    BY DEF ProxyInv, Typed, HealthTyped, Healths, CoreTyped, Evidence
  <2>3. CountersAreEvidence
    BY <2>1, <2>2, PendingFacts DEF Counted, Shown, CountersAreEvidence, FailureThreshold, RecoveryThreshold
  <2> QED
    BY <2>1, <2>2, <2>3 DEF SelectorMovesOnEvidence, Justified, FailureThreshold, RecoveryThreshold
<1> QED
  BY <1>1, ProxyHealthInvariant, PTL

(* A failover replaces the profile that failed, if that is still active,   *)
(* by the candidate whose probe has just passed, wherever both are by then.*)
THEOREM FailoverHitsTheFailed == Spec => FailoverReplacesTheFailed
<1> DEFINE Replaces == wd.step = "switch" /\ wd' # wd /\ health' # health =>
                         ActiveRaw = wd.failed /\ ActiveRaw' = wd.chosen /\ core'.raw = wd.chosen
<1>1. ProxyInv /\ [Next]_vars => [Replaces]_vars
  <2> SUFFICES ASSUME ProxyInv, Next, wd.step = "switch", wd' # wd, health' # health
               PROVE  ActiveRaw = wd.failed /\ ActiveRaw' = wd.chosen /\ core'.raw = wd.chosen
    OBVIOUS
  <2>1. WatchdogStep
    BY DEF Next, Handlers, SelectProfile, DeleteProfile, EditProfile, AddProfile, RefreshSubscription,
           Activate, StopCore, StartBenchmark, FinishBenchmark, Measures, MeasureUpstream, CoreCrash
  <2>2. SwitchToCandidate
    BY <2>1 DEF WatchdogStep, Wake, RestartCore, RestartWaits, FetchSample, Inconclusive, Reread,
       NoteIdentity, DecideHealth, EngageReject, Recover, RankCandidates, VerifyCandidate,
       NoCandidateLeft, AbortFailover, CandidateGone, ChooseBest, RefreshDue, ChooseReplacement,
       FinishTick, ActivateChosen
  <2>3. Activated(CandidateId) /\ HealthDone /\ list' = list /\ ActiveRaw = wd.failed
    BY <2>2 DEF SwitchToCandidate, ActivationFails
  <2>4. Typed /\ TickTyped /\ list \in Seq(Profiles) /\ Len(list) \in Nat
    BY LenProperties DEF ProxyInv, Typed, ListTyped, Lists
  <2>5. CandidateId \in 1..Len(list) /\ list[CandidateId] = wd.chosen
    <3>1. CandidateId \in 0..Len(list) /\ CandidateId # 0 /\ list[CandidateId] = wd.chosen
      BY <2>2, <2>4, PositionFound DEF CandidateId, SwitchToCandidate
    <3> HIDE DEF CandidateId
    <3> QED
      BY <2>4, <3>1
  <2>6. Quiet'
    <3>1. "select" \in Steps \ {"reread", "decide", "rank", "switch"}
      BY DEF Steps
    <3> QED
      BY <2>3, <2>4, <3>1, ForgettingFacts DEF HealthDone, Quiet
  <2> QED
    BY <2>3, <2>4, <2>5, <2>6, ActivatedRun
<1> QED
  BY <1>1, ProxyHealthInvariant, PTL DEF Spec, FailoverReplacesTheFailed

=============================================================================
