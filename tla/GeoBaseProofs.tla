---------------------------- MODULE GeoBaseProofs ----------------------------
(***************************************************************************)
(* Proofs about GeoBase: for any number of bases, clients, artifacts,      *)
(* requests and faults, no record and no served configuration refers to a  *)
(* collected artifact, and the applied snapshot is what the core runs.     *)
(***************************************************************************)
EXTENDS GeoBase, FiniteSetTheorems, TLAPS

(* A snapshot maps every id to nothing or to a record with an artifact.    *)
Shaped(bases) ==
  /\ bases = [i \in Ids |-> bases[i]]
  /\ \A i \in Ids : bases[i] # NoBase => "artifact" \in DOMAIN bases[i]

ManifestFields == {"generation", "bases", "applied_generation", "applied_bases"}

(* The store: well shaped, complete, and equal generations are equal bases.*)
StoreSound ==
  /\ DOMAIN manifest = ManifestFields
  /\ Shaped(manifest.bases) /\ Shaped(manifest.applied_bases)
  /\ manifest.generation \in Nat /\ manifest.applied_generation \in Nat
  /\ manifest.applied_generation <= manifest.generation
  /\ manifest.generation = manifest.applied_generation =>
       manifest.bases = manifest.applied_bases
  /\ ArtifactsOf(manifest.bases) \subseteq artifacts
  /\ ArtifactsOf(manifest.applied_bases) \subseteq artifacts

ActFields == {"step", "projection", "generation", "bases", "previous", "up", "start"}
Planned == {"load", "commit"}

(* The holder of the apply lock acts for the snapshot it has planned: no   *)
(* mutation comes in between.                                              *)
PlanCurrent ==
  /\ DOMAIN act = ActFields
  /\ act.step \in Planned \cup {"idle", "collect", "rollback"}
  /\ act.projection \in Projections
  /\ act.step \in Planned /\ act.projection = "desired" =>
       act.generation = manifest.generation /\ act.bases = manifest.bases
  /\ act.step \in Planned /\ act.projection = "applied" =>
       act.bases = manifest.applied_bases
  /\ act.step = "collect" => act.bases = manifest.applied_bases

Known(config, published) == config = NoFile \/ config \subseteq published

(* Every configuration that is served or may be put back is complete.      *)
ServedKnown ==
  ~intruded =>
    /\ Known(file, artifacts) /\ Known(core.loaded, artifacts)
    /\ act.step # "idle" => Known(act.previous, artifacts)

(* An activation that is not intruded on runs on the file it has written,  *)
(* and the file of the last applied one is served until the next.          *)
OwnFile ==
  /\ ~core.up => core.loaded = NoFile
  /\ report = "applied" => LockFree
  /\ ~intruded =>
       /\ act.step \in Planned \cup {"collect"} => file = Providers(act.bases)
       /\ act.step \in {"commit", "collect"} /\ core.up => core.loaded = Providers(act.bases)
       /\ report = "applied" =>
            /\ file \in {NoFile, Providers(manifest.applied_bases)}
            /\ core.up => core.loaded = Providers(manifest.applied_bases)

GeoInv == StoreSound /\ PlanCurrent /\ ServedKnown /\ OwnFile

-----------------------------------------------------------------------------
(* The store's operators.                                                  *)

(* Only the artifacts of present bases are projected, so a configuration   *)
(* of a complete snapshot is complete.                                     *)
LEMMA ProvidersStored ==
  ASSUME NEW bases
  PROVE  Providers(bases) \subseteq ArtifactsOf(bases)
BY DEF Providers, ArtifactsOf, Present

(* Committing a snapshot leaves the desired side of the manifest alone.    *)
LEMMA CommittedFields ==
  ASSUME NEW m, DOMAIN m = ManifestFields, NEW generation, NEW bases
  PROVE  /\ DOMAIN Committed(m, generation, bases) = ManifestFields
         /\ Committed(m, generation, bases).bases = m.bases
         /\ Committed(m, generation, bases).generation = m.generation
         /\ Committed(m, generation, bases).applied_generation = generation
         /\ Committed(m, generation, bases).applied_bases = bases
BY DEF Committed, ManifestFields

(* A mutation leaves the applied snapshot alone and moves the generation.  *)
LEMMA MutatedFields ==
  ASSUME NEW m, DOMAIN m = ManifestFields, NEW bases
  PROVE  /\ DOMAIN Mutated(m, bases) = ManifestFields
         /\ Mutated(m, bases).bases = bases
         /\ Mutated(m, bases).generation = m.generation + 1
         /\ Mutated(m, bases).applied_generation = m.applied_generation
         /\ Mutated(m, bases).applied_bases = m.applied_bases
BY DEF Mutated, ManifestFields

(* Replacing one record of a complete snapshot by one whose artifact is    *)
(* published, or by none, leaves it complete.                              *)
LEMMA ReplacedShaped ==
  ASSUME NEW bases, Shaped(bases), NEW published, ArtifactsOf(bases) \subseteq published,
         NEW id \in Ids, NEW record,
         record # NoBase => "artifact" \in DOMAIN record /\ record.artifact \in published
  PROVE  /\ Shaped([bases EXCEPT ![id] = record])
         /\ ArtifactsOf([bases EXCEPT ![id] = record]) \subseteq published
<1> DEFINE new == [bases EXCEPT ![id] = record]
<1>1. /\ new = [i \in Ids |-> new[i]] /\ new[id] = record
      /\ \A i \in Ids : i # id => new[i] = bases[i]
  BY DEF Shaped
<1> HIDE DEF new
<1>2. Shaped(new)
  BY <1>1 DEF Shaped
<1>3. ASSUME NEW i \in Ids, new[i] # NoBase
      PROVE  new[i].artifact \in published
  <2>1. CASE i = id
    BY <2>1, <1>1, <1>3
  <2>2. CASE i # id
    BY <2>2, <1>1, <1>3 DEF ArtifactsOf, Present
  <2> QED
    BY <2>1, <2>2
<1>4. ArtifactsOf(new) \subseteq published
  BY <1>3 DEF ArtifactsOf, Present
<1> QED
  BY <1>2, <1>4 DEF new

-----------------------------------------------------------------------------
(* Steps that touch only the store, under the free lock.                   *)

(* The effect of a save of the desired bases, whether it was answered with *)
(* an error or not: artifacts are only added, and the desired bases stay   *)
(* or are replaced by complete ones.                                       *)
Saved ==
  /\ artifacts \subseteq artifacts'
  /\ \/ manifest' = manifest
     \/ \E bases :
          /\ manifest' = Mutated(manifest, bases)
          /\ Shaped(bases) /\ ArtifactsOf(bases) \subseteq artifacts'

(* A save under the free lock keeps the invariant: the applied snapshot,   *)
(* the files and the core are what they were.                              *)
LEMMA SavedInvariant ==
  ASSUME GeoInv, LockFree, Saved, UNCHANGED coreVars
  PROVE  GeoInv'
<1>1. StoreSound' /\ manifest'.applied_bases = manifest.applied_bases
  <2>1. CASE manifest' = manifest
    BY <2>1 DEF GeoInv, StoreSound, Saved
  <2>2. ASSUME NEW bases, manifest' = Mutated(manifest, bases),
               Shaped(bases), ArtifactsOf(bases) \subseteq artifacts'
        PROVE  StoreSound' /\ manifest'.applied_bases = manifest.applied_bases
    <3>1. /\ DOMAIN manifest' = ManifestFields
          /\ manifest'.bases = bases
          /\ manifest'.generation = manifest.generation + 1
          /\ manifest'.applied_generation = manifest.applied_generation
          /\ manifest'.applied_bases = manifest.applied_bases
      BY <2>2, MutatedFields DEF GeoInv, StoreSound
    <3>2. ArtifactsOf(manifest.applied_bases) \subseteq artifacts'
      BY DEF GeoInv, StoreSound, Saved
    <3>3. manifest'.applied_generation < manifest'.generation
      BY <3>1 DEF GeoInv, StoreSound
    <3>4. manifest'.generation \in Nat
      BY <3>1 DEF GeoInv, StoreSound
    <3> QED
      BY <2>2, <3>1, <3>2, <3>3, <3>4 DEF GeoInv, StoreSound
  <2> QED
    BY <2>1, <2>2 DEF Saved
<1>2. PlanCurrent'
  BY DEF GeoInv, PlanCurrent, LockFree, coreVars, Planned
<1>3. ServedKnown'
  BY DEF GeoInv, ServedKnown, Known, LockFree, coreVars, Saved
<1>4. OwnFile'
  BY <1>1 DEF GeoInv, OwnFile, LockFree, coreVars, Planned
<1> QED
  BY <1>1, <1>2, <1>3, <1>4 DEF GeoInv

(* A new generation of a base is complete: its artifact was published      *)
(* before the record that refers to it was saved.                          *)
LEMMA ReplaceSaved ==
  ASSUME GeoInv, NEW id \in Ids, NEW enabled, Replace(id, enabled)
  PROVE  Saved
<1>1. CASE UNCHANGED <<manifest, artifacts>>
  BY <1>1 DEF Saved
<1>2. CASE artifacts' = artifacts \cup {unique'}
  <2> DEFINE record == [enabled |-> enabled, revision |-> NextRevision(id), artifact |-> unique']
             bases == [manifest.bases EXCEPT ![id] = record]
  <2>1. /\ Shaped(manifest.bases) /\ ArtifactsOf(manifest.bases) \subseteq artifacts'
        /\ "artifact" \in DOMAIN record /\ record.artifact \in artifacts'
    BY <1>2 DEF GeoInv, StoreSound
  <2> HIDE DEF record
  <2>2. Shaped(bases) /\ ArtifactsOf(bases) \subseteq artifacts'
    BY <2>1, ReplacedShaped
  <2>3. CASE UNCHANGED <<manifest, artifacts>>
    BY <2>3 DEF Saved
  <2>4. CASE SaveManifest(Mutated(manifest, bases))
    BY <1>2, <2>2, <2>4 DEF Saved, SaveManifest
  <2> QED
    BY <2>3, <2>4 DEF Replace, record
<1> QED
  BY <1>1, <1>2 DEF Replace

(* Enabling a base keeps its artifact.                                     *)
LEMMA EnableSaved ==
  ASSUME GeoInv, NEW id \in Ids, manifest.bases[id] # NoBase, NEW enabled,
         SaveManifest(Mutated(manifest, [manifest.bases EXCEPT ![id].enabled = enabled])),
         UNCHANGED <<artifacts, unique>>
  PROVE  Saved
<1> DEFINE record == [manifest.bases[id] EXCEPT !.enabled = enabled]
           bases == [manifest.bases EXCEPT ![id] = record]
<1>1. /\ Shaped(manifest.bases) /\ ArtifactsOf(manifest.bases) \subseteq artifacts'
      /\ "artifact" \in DOMAIN manifest.bases[id] /\ manifest.bases[id].artifact \in artifacts'
  BY DEF GeoInv, StoreSound, Shaped, ArtifactsOf, Present
<1>2. "artifact" \in DOMAIN record /\ record.artifact \in artifacts'
  BY <1>1
<1>3. [manifest.bases EXCEPT ![id].enabled = enabled] = bases
  OBVIOUS
<1> HIDE DEF record
<1>4. Shaped(bases) /\ ArtifactsOf(bases) \subseteq artifacts'
  BY <1>1, <1>2, ReplacedShaped
<1>5. manifest' \in {manifest, Mutated(manifest, bases)}
  BY <1>3 DEF SaveManifest
<1> QED
  BY <1>4, <1>5 DEF Saved

(* Every API mutation of the desired bases is a save under the free lock.  *)
LEMMA MutateInvariant ==
  ASSUME GeoInv, NEW c, pending[c].id \in Ids, Mutate(c)
  PROVE  GeoInv'
<1> DEFINE r == pending[c]
<1>1. LockFree /\ UNCHANGED coreVars
  BY DEF Mutate
<1>2. ASSUME UNCHANGED storeVars
      PROVE  Saved
  BY <1>2 DEF Saved, storeVars
<1>3. ASSUME ~Refused(r),
             SaveManifest(Mutated(manifest,
               [manifest.bases EXCEPT ![r.id].enabled = (r.op = "enable")])),
             UNCHANGED <<artifacts, unique>>
      PROVE  Saved
  <2> HIDE DEF r
  <2>1. manifest.bases[r.id] # NoBase
    BY <1>3 DEF Refused
  <2> QED
    BY <2>1, <1>3, EnableSaved DEF r
<1>4. ASSUME SaveManifest(Mutated(manifest, [manifest.bases EXCEPT ![r.id] = NoBase])),
             UNCHANGED <<artifacts, unique>>
      PROVE  Saved
  <2>1. /\ Shaped(manifest.bases) /\ ArtifactsOf(manifest.bases) \subseteq artifacts'
    BY <1>4 DEF GeoInv, StoreSound
  <2>2. /\ Shaped([manifest.bases EXCEPT ![r.id] = NoBase])
        /\ ArtifactsOf([manifest.bases EXCEPT ![r.id] = NoBase]) \subseteq artifacts'
    BY <2>1, ReplacedShaped
  <2> QED
    BY <1>4, <2>2 DEF Saved, SaveManifest
<1>5. ASSUME Replace(r.id, manifest.bases[r.id].enabled)
      PROVE  Saved
  BY <1>5, ReplaceSaved
<1>6. Saved
  BY <1>2, <1>3, <1>4, <1>5, Zenon DEF Mutate
<1> QED
  BY <1>1, <1>6, SavedInvariant

(* A job's result is saved under the free lock.                            *)
LEMMA SaveInvariant ==
  ASSUME GeoInv, NEW j, j.id \in Ids, Save(j)
  PROVE  GeoInv'
<1>1. LockFree /\ UNCHANGED coreVars
  BY DEF Save
<1>2. ASSUME UNCHANGED storeVars
      PROVE  Saved
  BY <1>2 DEF Saved, storeVars
<1>3. ASSUME Replace(j.id, j.enabled)
      PROVE  Saved
  BY <1>3, ReplaceSaved
<1>4. Saved
  BY <1>2, <1>3 DEF Save
<1> QED
  BY <1>1, <1>4, SavedInvariant

-----------------------------------------------------------------------------
(* The activation.                                                         *)

(* The configuration of either snapshot of a sound store is complete.      *)
LEMMA SnapshotComplete ==
  ASSUME StoreSound
  PROVE  /\ Providers(manifest.bases) \subseteq artifacts
         /\ Providers(manifest.applied_bases) \subseteq artifacts
BY ProvidersStored DEF StoreSound

(* Planning an activation keeps GeoInv.                                    *)
LEMMA PlanInvariant ==
  ASSUME GeoInv, NEW projection \in Projections, NEW start, Plan(projection, start)
  PROVE  GeoInv'
<1> DEFINE bases == Snapshot(manifest, projection)
           generation == IF projection = "desired" THEN manifest.generation
                         ELSE manifest.applied_generation
           step == IF Loads(start) THEN "load" ELSE "commit"
<1>1. UNCHANGED <<manifest, artifacts, core, intruded>> /\ LockFree
  BY DEF Plan, storeVars
<1>2. StoreSound' /\ Known(Providers(bases), artifacts)
  BY <1>1, SnapshotComplete DEF GeoInv, StoreSound, Snapshot, Known
<1>3. CASE /\ file' = Providers(bases) /\ report' = "none"
           /\ act' = [step |-> step, projection |-> projection, generation |-> generation,
                      bases |-> bases, previous |-> file, up |-> core.up, start |-> start]
  <2>1. /\ DOMAIN act' = ActFields /\ act'.step = step /\ act'.projection = projection
        /\ act'.generation = generation /\ act'.bases = bases /\ act'.previous = file
    BY <1>3 DEF ActFields
  <2>2. step \in Planned /\ (step = "commit" => ~core.up)
    BY DEF Planned, Loads
  <2>3. /\ projection = "desired" => generation = manifest.generation /\ bases = manifest.bases
        /\ projection = "applied" => bases = manifest.applied_bases
    BY DEF Snapshot
  <2> HIDE DEF step, bases, generation
  <2>4. PlanCurrent'
    BY <1>1, <2>1, <2>2, <2>3 DEF PlanCurrent, Planned
  <2>5. ServedKnown'
    BY <1>1, <1>2, <1>3, <2>1 DEF GeoInv, ServedKnown, Known
  <2>6. OwnFile'
    BY <1>1, <1>3, <2>1, <2>2 DEF GeoInv, OwnFile, LockFree, Planned
  <2> QED
    BY <1>2, <2>4, <2>5, <2>6 DEF GeoInv
<1>4. CASE file' \in {file, Providers(bases)} /\ act' = act /\ report' = "refused"
  <2> HIDE DEF bases
  <2>1. PlanCurrent'
    BY <1>1, <1>4 DEF GeoInv, PlanCurrent
  <2>2. ServedKnown'
    BY <1>1, <1>2, <1>4 DEF GeoInv, ServedKnown, Known
  <2>3. OwnFile'
    BY <1>1, <1>4 DEF GeoInv, OwnFile, LockFree, Planned
  <2> QED
    BY <1>2, <2>1, <2>2, <2>3 DEF GeoInv
<1>5. \/ /\ file' = Providers(bases) /\ report' = "none"
         /\ act' = [step |-> step, projection |-> projection, generation |-> generation,
                    bases |-> bases, previous |-> file, up |-> core.up, start |-> start]
      \/ file' \in {file, Providers(bases)} /\ act' = act /\ report' = "refused"
  BY DEF Plan
<1> QED
  BY <1>3, <1>4, <1>5

(* What a step to the next phase of an activation leaves alone.            *)
LEMMA GoFields ==
  ASSUME PlanCurrent, NEW step, Go(step)
  PROVE  /\ DOMAIN act' = ActFields /\ act'.step = step
         /\ act'.projection = act.projection /\ act'.generation = act.generation
         /\ act'.bases = act.bases /\ act'.previous = act.previous
BY DEF PlanCurrent, Go, ActFields

(* The idle activation is well formed.                                     *)
LEMMA IdleFields ==
  /\ DOMAIN NoActivation = ActFields /\ NoActivation.step = "idle"
  /\ NoActivation.projection \in Projections
BY DEF NoActivation, ActFields, Projections

(* The activation's three ways out of "load" and "commit" that leave the   *)
(* store alone: on to the commit, or back.                                 *)
LEMMA LoadInvariant ==
  ASSUME GeoInv, Load
  PROVE  GeoInv'
<1>1. /\ UNCHANGED <<manifest, artifacts, file, report, intruded>>
      /\ act.step = "load"
  BY DEF Load, storeVars
<1>2. StoreSound' /\ PlanCurrent
  BY <1>1 DEF GeoInv, StoreSound
<1>3. CASE core' = [up |-> TRUE, loaded |-> file] /\ Go("commit")
  <2>1. /\ DOMAIN act' = ActFields /\ act'.step = "commit"
        /\ act'.projection = act.projection /\ act'.generation = act.generation
        /\ act'.bases = act.bases /\ act'.previous = act.previous
    BY <1>2, <1>3, GoFields
  <2>2. core'.up /\ core'.loaded = file
    BY <1>3
  <2>3. PlanCurrent'
    BY <1>1, <1>2, <2>1 DEF PlanCurrent, Planned
  <2>4. ServedKnown'
    BY <1>1, <2>1, <2>2 DEF GeoInv, ServedKnown, Known
  <2>5. OwnFile'
    BY <1>1, <2>1, <2>2 DEF GeoInv, OwnFile, LockFree, Planned
  <2> QED
    BY <1>2, <2>3, <2>4, <2>5 DEF GeoInv
<1>4. CASE /\ Go("rollback")
           /\ core' \in {core, [up |-> FALSE, loaded |-> NoFile], [up |-> TRUE, loaded |-> file]}
  <2>1. /\ DOMAIN act' = ActFields /\ act'.step = "rollback"
        /\ act'.projection = act.projection /\ act'.previous = act.previous
    BY <1>2, <1>4, GoFields
  <2>2. core' = core \/ (~core'.up /\ core'.loaded = NoFile) \/ (core'.up /\ core'.loaded = file)
    BY <1>4
  <2>3. PlanCurrent'
    BY <1>1, <1>2, <2>1 DEF PlanCurrent, Planned
  <2>4. ServedKnown'
    BY <1>1, <2>1, <2>2 DEF GeoInv, ServedKnown, Known
  <2>5. OwnFile'
    BY <1>1, <2>1, <2>2 DEF GeoInv, OwnFile, LockFree, Planned
  <2> QED
    BY <1>2, <2>3, <2>4, <2>5 DEF GeoInv
<1>5. \/ core' = [up |-> TRUE, loaded |-> file] /\ Go("commit")
      \/ /\ Go("rollback")
         /\ core' \in {core, [up |-> FALSE, loaded |-> NoFile], [up |-> TRUE, loaded |-> file]}
  BY DEF Load
<1> QED
  BY <1>3, <1>4, <1>5

(* A load that fails keeps GeoInv.                                         *)
LEMMA FailInvariant ==
  ASSUME GeoInv, Fail
  PROVE  GeoInv'
<1>1. /\ UNCHANGED <<manifest, artifacts, file, core, report, intruded>>
      /\ act.step = "commit" /\ Go("rollback")
  BY DEF Fail, storeVars
<1>2. /\ DOMAIN act' = ActFields /\ act'.step = "rollback"
      /\ act'.projection = act.projection /\ act'.previous = act.previous
  BY <1>1, GoFields DEF GeoInv
<1>3. StoreSound'
  BY <1>1 DEF GeoInv, StoreSound
<1>4. PlanCurrent'
  BY <1>1, <1>2 DEF GeoInv, PlanCurrent, Planned
<1>5. ServedKnown'
  BY <1>1, <1>2 DEF GeoInv, ServedKnown
<1>6. OwnFile'
  BY <1>1, <1>2 DEF GeoInv, OwnFile, LockFree, Planned
<1> QED
  BY <1>3, <1>4, <1>5, <1>6 DEF GeoInv

(* The commit stores the snapshot that was planned: nobody has mutated the *)
(* desired bases under the lock, so its generation names its bases.        *)
LEMMA CommitInvariant ==
  ASSUME GeoInv, Commit
  PROVE  GeoInv'
<1> DEFINE committed == Committed(manifest, act.generation, act.bases)
<1>1. /\ UNCHANGED <<artifacts, file, core, report, intruded>>
      /\ act.step = "commit" /\ act.projection = "desired"
  BY DEF Commit, storeVars
<1>2. act.generation = manifest.generation /\ act.bases = manifest.bases
  BY <1>1 DEF GeoInv, PlanCurrent, Planned
<1>3. /\ DOMAIN committed = ManifestFields /\ committed.bases = manifest.bases
      /\ committed.generation = manifest.generation
      /\ committed.applied_generation = manifest.generation
      /\ committed.applied_bases = manifest.bases
  BY <1>2, CommittedFields DEF GeoInv, StoreSound
<1>4. \/ manifest' = committed /\ Go("collect")
      \/ manifest' \in {manifest, committed} /\ Go("rollback")
  BY DEF Commit
<1> HIDE DEF committed
<1>5. StoreSound'
  <2>1. CASE manifest' = manifest
    BY <2>1, <1>1 DEF GeoInv, StoreSound
  <2>2. CASE manifest' = committed
    BY <2>2, <1>1, <1>3 DEF GeoInv, StoreSound
  <2> QED
    BY <2>1, <2>2, <1>4
<1>6. PICK step \in {"collect", "rollback"} :
         Go(step) /\ (step = "collect" => manifest' = committed)
  BY <1>4
<1>7. /\ DOMAIN act' = ActFields /\ act'.step = step /\ act'.bases = act.bases
      /\ act'.projection = act.projection /\ act'.previous = act.previous
  BY <1>6, GoFields DEF GeoInv
<1>8. PlanCurrent'
  BY <1>2, <1>3, <1>6, <1>7 DEF GeoInv, PlanCurrent, Planned
<1>9. ServedKnown'
  BY <1>1, <1>7 DEF GeoInv, ServedKnown
<1>10. OwnFile'
  BY <1>1, <1>6, <1>7 DEF GeoInv, OwnFile, LockFree, Planned
<1> QED
  BY <1>5, <1>8, <1>9, <1>10 DEF GeoInv

(* The end of an activation of the applied bases, or of one that has       *)
(* committed: whatever was collected, the file and the core refer to       *)
(* retained artifacts if the activation ended on its own file.             *)
LEMMA SuccessInvariant ==
  ASSUME GeoInv, Succeeded, act.bases = manifest.applied_bases, act.step \in {"commit", "collect"},
         UNCHANGED <<manifest, file, core>>,
         artifacts \cap Retained(manifest) \subseteq artifacts'
  PROVE  GeoInv'
<1> DEFINE applied == Providers(manifest.applied_bases)
<1>1. act' = NoActivation /\ report' = "applied"
  BY DEF Succeeded, Done
<1>2. ~intruded' => ~intruded \/ OnOwnFile
  BY Zenon DEF Succeeded
<1>3. /\ ArtifactsOf(manifest.bases) \subseteq artifacts'
      /\ ArtifactsOf(manifest.applied_bases) \subseteq artifacts'
  BY DEF GeoInv, StoreSound, Retained
<1>4. StoreSound'
  BY <1>3 DEF GeoInv, StoreSound
<1>5. applied \subseteq artifacts'
  BY <1>3, ProvidersStored
<1>6. ASSUME ~intruded'
      PROVE  file = applied /\ core.loaded \in {NoFile, applied} /\ (core.up => core.loaded = applied)
  <2>1. CASE ~intruded
    BY <2>1 DEF GeoInv, OwnFile, Planned
  <2>2. CASE OnOwnFile
    BY <2>2 DEF OnOwnFile, GeoInv, OwnFile
  <2> QED
    BY <2>1, <2>2, <1>2, <1>6
<1> HIDE DEF applied
<1>7. PlanCurrent'
  BY <1>1, IdleFields DEF PlanCurrent, Planned
<1>8. ServedKnown'
  BY <1>1, <1>5, <1>6, IdleFields DEF ServedKnown, Known
<1>9. OwnFile'
  BY <1>1, <1>6, IdleFields DEF GeoInv, OwnFile, LockFree, Planned, applied
<1> QED
  BY <1>4, <1>7, <1>8, <1>9 DEF GeoInv

(* Acknowledging what the core has loaded keeps GeoInv.                    *)
LEMMA AppliedInvariant ==
  ASSUME GeoInv, Applied
  PROVE  GeoInv'
<1>1. /\ Succeeded /\ UNCHANGED <<manifest, artifacts, file, core>>
      /\ act.step = "commit" /\ act.projection = "applied"
  BY DEF Applied, storeVars
<1>2. act.bases = manifest.applied_bases
  BY <1>1 DEF GeoInv, PlanCurrent, Planned
<1> QED
  BY <1>1, <1>2, SuccessInvariant

(* What is retained survives also a collection that stops half way.        *)
LEMMA CollectInvariant ==
  ASSUME GeoInv, Collect
  PROVE  GeoInv'
<1>1. Succeeded /\ UNCHANGED <<manifest, file, core>> /\ act.step = "collect"
  BY DEF Collect
<1>2. act.bases = manifest.applied_bases
  BY <1>1 DEF GeoInv, PlanCurrent
<1>3. artifacts \cap Retained(manifest) \subseteq artifacts'
  BY DEF Collect
<1> QED
  BY <1>1, <1>2, <1>3, SuccessInvariant

(* A rollback puts back the file that was there at the plan, which is      *)
(* complete as long as nobody intrudes: no activation has ended since.     *)
LEMMA RollbackInvariant ==
  ASSUME GeoInv, Rollback
  PROVE  GeoInv'
<1>1. UNCHANGED <<manifest, artifacts, intruded>> /\ act.step = "rollback"
  BY DEF Rollback, storeVars
<1>2. act' = NoActivation /\ report' \in {"restored", "incomplete"}
  BY DEF Rollback, Done
<1>3. file' \in {file, act.previous}
  BY DEF Rollback
<1>4. core' \in {core, [up |-> FALSE, loaded |-> NoFile], [up |-> TRUE, loaded |-> act.previous]}
  BY DEF Rollback
<1>5. \/ core' = core
      \/ ~core'.up /\ core'.loaded = NoFile
      \/ core'.up /\ core'.loaded = act.previous
  BY <1>4
<1>6. StoreSound'
  BY <1>1 DEF GeoInv, StoreSound
<1>7. PlanCurrent'
  BY <1>2, IdleFields DEF PlanCurrent, Planned
<1>8. ServedKnown'
  BY <1>1, <1>2, <1>3, <1>5, IdleFields DEF GeoInv, ServedKnown, Known
<1>9. OwnFile'
  BY <1>2, <1>5, IdleFields DEF GeoInv, OwnFile, LockFree, Planned
<1> QED
  BY <1>6, <1>7, <1>8, <1>9 DEF GeoInv

-----------------------------------------------------------------------------
(* Those who rewrite the file or stop the core.                            *)

(* Outside the activations the core is left alone, goes down, or runs on   *)
(* the file; the file is left alone, regenerated from the applied snapshot *)
(* or removed with the core, and that under an activation is an intrusion. *)
LEMMA OutsideInvariant ==
  ASSUME GeoInv, UNCHANGED <<manifest, artifacts, act, report>>,
         \/ core' = core
         \/ ~core'.up /\ core'.loaded = NoFile
         \/ /\ core'.up /\ core'.loaded = file' /\ (LockFree \/ intruded')
            /\ file' # NoFile \/ file' = Providers(manifest.applied_bases),
         \/ file' = file
         \/ file' = Providers(manifest.applied_bases)
         \/ file' = NoFile,
         ~intruded' => ~intruded /\ (file' = file \/ LockFree)
  PROVE  GeoInv'
<1>1. StoreSound' /\ PlanCurrent'
  BY DEF GeoInv, StoreSound, PlanCurrent
<1>2. Known(Providers(manifest.applied_bases), artifacts)
  BY SnapshotComplete DEF GeoInv, Known
<1>3. ServedKnown'
  BY <1>2 DEF GeoInv, ServedKnown, Known
<1>4. OwnFile'
  BY DEF GeoInv, OwnFile, LockFree, Planned
<1> QED
  BY <1>1, <1>3, <1>4 DEF GeoInv

(* A regeneration of the file without the apply lock keeps GeoInv.         *)
LEMMA RegenerateInvariant ==
  ASSUME GeoInv, Regenerate
  PROVE  GeoInv'
<1>1. /\ UNCHANGED <<manifest, artifacts, act, report>>
      /\ file' = Providers(manifest.applied_bases)
  BY DEF Regenerate, storeVars, Regenerated
<1>2. intruded' = (intruded \/ ~LockFree)
  BY DEF Regenerate
<1>3. (~intruded' => ~intruded /\ LockFree) /\ (LockFree \/ intruded')
  BY <1>2, Zenon
<1>4. \/ core' = core
      \/ core' = [up |-> TRUE, loaded |-> file']
      \/ core' = [up |-> FALSE, loaded |-> NoFile]
  BY DEF Regenerate
<1>5. \/ core' = core
      \/ core'.up /\ core'.loaded = file'
      \/ ~core'.up /\ core'.loaded = NoFile
  BY <1>4
<1> QED
  BY <1>1, <1>3, <1>5, OutsideInvariant

(* An undo keeps GeoInv.                                                   *)
LEMMA UndoInvariant ==
  ASSUME GeoInv, Undo
  PROVE  GeoInv'
<1>1. /\ UNCHANGED <<manifest, artifacts, act, report>>
      /\ file' = NoFile /\ ~core'.up /\ core'.loaded = NoFile
  BY DEF Undo, storeVars
<1>2. intruded' = (intruded \/ ~LockFree)
  BY DEF Undo
<1>3. ~intruded' => ~intruded /\ LockFree
  BY <1>2, Zenon
<1> QED
  BY <1>1, <1>3, OutsideInvariant

(* The update of the core restarts it on the file as it is.                *)
LEMMA UpdateCoreInvariant ==
  ASSUME GeoInv, NEW c, UpdateCore(c)
  PROVE  GeoInv'
<1>1. LockFree /\ UNCHANGED <<manifest, artifacts, file, act, report, intruded>>
  BY DEF UpdateCore, storeVars
<1>2. \/ core' = core
      \/ file # NoFile /\ core' = [up |-> TRUE, loaded |-> file]
      \/ core' = [up |-> FALSE, loaded |-> NoFile]
  BY DEF UpdateCore
<1>3. \/ core' = core
      \/ file # NoFile /\ core'.up /\ core'.loaded = file
      \/ ~core'.up /\ core'.loaded = NoFile
  BY <1>2
<1> QED
  BY <1>1, <1>3, OutsideInvariant

(* A stop of the core keeps GeoInv.                                        *)
LEMMA CoreStopsInvariant ==
  ASSUME GeoInv, CoreStops
  PROVE  GeoInv'
<1>1. /\ UNCHANGED <<manifest, artifacts, file, act, report, intruded>>
      /\ ~core'.up /\ core'.loaded = NoFile
  BY DEF CoreStops, storeVars
<1> QED
  BY <1>1, OutsideInvariant

(* A restart of the daemon forgets the activation; its file stays or is    *)
(* regenerated, and a complete one is complete still.                      *)
LEMMA RebootInvariant ==
  ASSUME GeoInv, Reboot
  PROVE  GeoInv'
<1>1. /\ UNCHANGED <<manifest, artifacts, intruded>>
      /\ act' = NoActivation /\ report' = "none"
      /\ file' \in {file, Providers(manifest.applied_bases)}
      /\ ~core'.up /\ core'.loaded = NoFile
  BY DEF Reboot, storeVars, Regenerated
<1>2. StoreSound' /\ Known(Providers(manifest.applied_bases), artifacts)
  BY <1>1, SnapshotComplete DEF GeoInv, StoreSound, Known
<1>3. PlanCurrent'
  BY <1>1, IdleFields DEF PlanCurrent, Planned
<1>4. ServedKnown'
  BY <1>1, <1>2, IdleFields DEF GeoInv, ServedKnown, Known
<1>5. OwnFile'
  BY <1>1, IdleFields DEF OwnFile, LockFree, Planned
<1> QED
  BY <1>2, <1>3, <1>4, <1>5 DEF GeoInv

(* Requests and jobs between their steps do not touch what GeoInv reads.   *)
LEMMA ElsewhereInvariant ==
  ASSUME GeoInv, UNCHANGED <<storeVars, coreVars>>
  PROVE  GeoInv'
BY DEF GeoInv, StoreSound, PlanCurrent, ServedKnown, OwnFile, LockFree, storeVars, coreVars

-----------------------------------------------------------------------------
(* Type correctness, variable group by variable group.                     *)

TypeStore == manifest \in Manifests /\ artifacts \subseteq Artifacts /\ unique \in 0..MaxArtifacts

TypeCore ==
  /\ file \in Configs /\ core \in [up : BOOLEAN, loaded : Configs]
  /\ act \in Activations
  /\ report \in {"none", "applied", "refused", "restored", "incomplete"}
  /\ intruded \in BOOLEAN

TypeJobs ==
  /\ pending \in [Clients -> Requests]
  /\ runtime \in [next : Nat, current : Nat, running : BOOLEAN, id : Ids]
  /\ jobs \subseteq Jobs

Counted == requests \in 0..MaxRequests /\ faults \in 0..MaxFaults

Typed == TypeStore /\ TypeCore /\ TypeJobs /\ Counted

(* A snapshot of well-typed bases names only artifacts.                    *)
LEMMA ProvidersTyped ==
  ASSUME NEW bases \in Bases
  PROVE  Providers(bases) \in Configs
<1>1. ArtifactsOf(bases) \subseteq Artifacts
  BY DEF Bases, Records, ArtifactsOf, Present
<1> QED
  BY <1>1, ProvidersStored DEF Configs

(* Steps that count requests and faults stay within the bounds.            *)
LEMMA CountedNext ==
  ASSUME Counted, Works \/ Fault, UNCHANGED requests \/ Request
  PROVE  Counted'
BY ConstantsAssumption DEF Counted, Works, Fault, Request

(* Saving well-typed bases leaves the manifest well typed.                 *)
LEMMA SaveTyped ==
  ASSUME manifest \in Manifests, NEW bases \in Bases, SaveManifest(Mutated(manifest, bases))
  PROVE  manifest' \in Manifests
<1> DEFINE next == manifest.generation + 1
<1>1. next \in Nat
  BY DEF Manifests
<1> HIDE DEF next
<1>2. [manifest EXCEPT !.bases = bases, !.generation = next] \in Manifests
  BY <1>1 DEF Manifests
<1>3. Mutated(manifest, bases) \in Manifests
  BY <1>2 DEF Mutated, next
<1> QED
  BY <1>3 DEF SaveManifest

(* Replacing a base keeps the types of the store.                          *)
LEMMA ReplaceTyped ==
  ASSUME TypeStore, NEW id \in Ids, NEW enabled \in BOOLEAN, Replace(id, enabled)
  PROVE  TypeStore'
<1>1. unique' \in Artifacts /\ unique' \in 0..MaxArtifacts
  BY ConstantsAssumption DEF TypeStore, Replace, Artifacts
<1>2. CASE UNCHANGED <<manifest, artifacts>>
  BY <1>1, <1>2 DEF TypeStore
<1>3. CASE artifacts' = artifacts \cup {unique'}
  <2> DEFINE record == [enabled |-> enabled, revision |-> NextRevision(id), artifact |-> unique']
             bases == [manifest.bases EXCEPT ![id] = record]
  <2>1. manifest.bases \in [Ids -> Records \cup {NoBase}]
    BY DEF TypeStore, Manifests, Bases
  <2>2. NextRevision(id) \in Nat \ {0}
    BY <2>1 DEF NextRevision, Records
  <2>3. record \in Records
    BY <1>1, <2>2 DEF Records
  <2> HIDE DEF record
  <2>4. bases \in Bases
    BY <2>1, <2>3 DEF Bases
  <2> HIDE DEF bases
  <2>5. CASE SaveManifest(Mutated(manifest, bases))
    BY <1>1, <1>3, <2>4, <2>5, SaveTyped DEF TypeStore
  <2>6. UNCHANGED manifest \/ SaveManifest(Mutated(manifest, bases))
    BY DEF Replace, bases, record
  <2> QED
    BY <1>1, <1>3, <2>5, <2>6 DEF TypeStore
<1> QED
  BY <1>2, <1>3 DEF Replace

(* Every mutation of the API keeps the types of the store.                 *)
LEMMA MutateTyped ==
  ASSUME Typed, NEW c \in Clients, Mutate(c)
  PROVE  TypeStore'
<1> DEFINE r == pending[c]
<1>1. r.id \in Ids
  BY DEF Typed, TypeJobs, Requests
<1>2. manifest.bases \in [Ids -> Records \cup {NoBase}]
  BY DEF Typed, TypeStore, Manifests, Bases
<1>3. CASE UNCHANGED storeVars
  BY <1>3 DEF Typed, TypeStore, storeVars
<1>4. CASE /\ ~Refused(r)
           /\ SaveManifest(Mutated(manifest,
                [manifest.bases EXCEPT ![r.id].enabled = (r.op = "enable")]))
           /\ UNCHANGED <<artifacts, unique>>
  <2> DEFINE enabled == (r.op = "enable")
             record == [manifest.bases[r.id] EXCEPT !.enabled = enabled]
             bases == [manifest.bases EXCEPT ![r.id] = record]
  <2>1. enabled \in BOOLEAN
    BY Zenon
  <2> HIDE DEF enabled
  <2>2. manifest.bases[r.id] \in Records
    BY <1>1, <1>2, <1>4 DEF Refused
  <2>3. record \in Records
    BY <2>1, <2>2 DEF Records
  <2>4. [manifest.bases EXCEPT ![r.id].enabled = enabled] = bases
    OBVIOUS
  <2> HIDE DEF record, r
  <2>5. bases \in Bases
    BY <1>1, <1>2, <2>3 DEF Bases
  <2> HIDE DEF bases
  <2>6. SaveManifest(Mutated(manifest, bases))
    BY <1>4, <2>4 DEF enabled
  <2> QED
    BY <1>4, <2>5, <2>6, SaveTyped DEF Typed, TypeStore
<1>5. CASE /\ SaveManifest(Mutated(manifest, [manifest.bases EXCEPT ![r.id] = NoBase]))
           /\ UNCHANGED <<artifacts, unique>>
  <2>1. [manifest.bases EXCEPT ![r.id] = NoBase] \in Bases
    BY <1>1, <1>2 DEF Bases
  <2> QED
    BY <1>5, <2>1, SaveTyped DEF Typed, TypeStore
<1>6. CASE Replace(r.id, manifest.bases[r.id].enabled) /\ ~Refused(r)
  <2>1. manifest.bases[r.id].enabled \in BOOLEAN
    BY <1>1, <1>2, <1>6 DEF Refused, Records
  <2> QED
    BY <1>1, <1>6, <2>1, ReplaceTyped DEF Typed
<1> QED
  BY <1>3, <1>4, <1>5, <1>6, Zenon DEF Mutate

(* Only mutations, saves of jobs, commits and collections touch the store. *)
LEMMA StoreTyped ==
  ASSUME Typed, Next
  PROVE  TypeStore'
<1>1. CASE UNCHANGED storeVars
  BY <1>1 DEF Typed, TypeStore, storeVars
<1>2. ASSUME NEW j \in jobs, Save(j)
      PROVE  TypeStore'
  <2>1. j.id \in Ids /\ j.enabled \in BOOLEAN
    BY DEF Typed, TypeJobs, Jobs
  <2>2. CASE Replace(j.id, j.enabled)
    BY <2>1, <2>2, ReplaceTyped DEF Typed
  <2> QED
    BY <1>1, <1>2, <2>2 DEF Save
<1>3. CASE Commit
  <2>1. Committed(manifest, act.generation, act.bases) \in Manifests
    BY DEF Typed, TypeStore, TypeCore, Manifests, Activations, Committed
  <2> QED
    BY <1>3, <2>1 DEF Commit, Typed, TypeStore
<1>4. CASE Collect
  BY <1>4 DEF Collect, Typed, TypeStore
<1> QED
  BY <1>1, <1>2, <1>3, <1>4, MutateTyped, Zenon
     DEF Next, Handle, Work, Activate, Arrive, LoadBase, StartJob, CheckUpdate, UpdateCore,
         Cancel, Analyze, Complete, Plan, Load, Fail, Applied, Rollback, Regenerate, Undo,
         CoreStops, Reboot, Quiet, vars, storeVars

(* An activation that goes to another step is an activation.               *)
LEMMA ActivationTyped ==
  /\ NoActivation \in Activations
  /\ \A a \in Activations : \A step \in {"idle", "load", "commit", "collect", "rollback"} :
       [a EXCEPT !.step = step] \in Activations
<1>1. NoBases \in Bases /\ NoFile \in Configs
  BY DEF NoBases, Bases, Configs
<1>2. NoActivation \in Activations
  BY <1>1 DEF NoActivation, Activations, Projections
<1>3. ASSUME NEW a \in Activations, NEW step \in {"idle", "load", "commit", "collect", "rollback"}
      PROVE  [a EXCEPT !.step = step] \in Activations
  BY DEF Activations
<1> QED
  BY <1>2, <1>3

(* Planning keeps the types of file, core and activation.                  *)
LEMMA PlanTyped ==
  ASSUME Typed, NEW projection \in Projections, NEW start \in BOOLEAN, Plan(projection, start)
  PROVE  TypeCore'
<1> DEFINE bases == Snapshot(manifest, projection)
           generation == IF projection = "desired" THEN manifest.generation
                         ELSE manifest.applied_generation
           step == IF Loads(start) THEN "load" ELSE "commit"
           planned == [step |-> step, projection |-> projection, generation |-> generation,
                       bases |-> bases, previous |-> file, up |-> core.up, start |-> start]
<1>1. bases \in Bases /\ generation \in Nat
  BY DEF Typed, TypeStore, Manifests, Snapshot
<1>2. step \in {"load", "commit"} /\ file \in Configs /\ core.up \in BOOLEAN
  BY DEF Typed, TypeCore
<1> HIDE DEF bases, generation, step
<1>3. planned \in Activations
  BY <1>1, <1>2 DEF Activations
<1>4. Providers(bases) \in Configs
  BY <1>1, ProvidersTyped
<1> HIDE DEF planned
<1>5. /\ UNCHANGED <<core, intruded>> /\ file' \in {file, Providers(bases)}
      /\ act' \in {act, planned} /\ report' \in {"none", "refused"}
  BY DEF Plan, bases, planned, generation, step
<1> QED
  BY <1>3, <1>4, <1>5 DEF Typed, TypeCore

(* Every step leaves the file, the core and the activation well typed.     *)
LEMMA CoreTyped ==
  ASSUME Typed, Next
  PROVE  TypeCore'
<1> DEFINE applied == Providers(manifest.applied_bases)
           down == [up |-> FALSE, loaded |-> NoFile]
           on(config) == [up |-> TRUE, loaded |-> config]
           Cores == [up : BOOLEAN, loaded : Configs]
           Acts == {NoActivation} \cup {[act EXCEPT !.step = step] :
                      step \in {"commit", "collect", "rollback"}}
           Reports == {"none", "applied", "refused", "restored", "incomplete"}
<1>1. applied \in Configs
  BY ProvidersTyped DEF Typed, TypeStore, Manifests
<1>2. down \in Cores /\ \A config \in Configs : on(config) \in Cores
  BY DEF Configs
<1>3. Acts \subseteq Activations
  BY ActivationTyped DEF Typed, TypeCore
<1>4. file \in Configs /\ NoFile \in Configs /\ act.previous \in Configs
  BY DEF Typed, TypeCore, Activations, Configs
<1>5. CASE UNCHANGED coreVars
  BY <1>5 DEF Typed, TypeCore, coreVars
<1> HIDE DEF applied, down, on, Cores, Acts, Reports
<1>6. CASE /\ file' \in {file, applied, NoFile, act.previous}
           /\ core' \in {core, down} \cup {on(config) : config \in Configs}
           /\ act' \in Acts \cup {act} /\ report' \in Reports /\ intruded' \in BOOLEAN
  BY <1>1, <1>2, <1>3, <1>4, <1>6 DEF Typed, TypeCore, Reports, Cores
<1>7. CASE Activate
  <2>1. CASE Load
    BY <2>1, <1>4, <1>6 DEF Load, Go, Acts, down, on, Typed, TypeCore, Reports
  <2>2. CASE Fail
    BY <2>2, <1>6 DEF Fail, Go, Acts, Typed, TypeCore, Reports
  <2>3. CASE Commit
    BY <2>3, <1>6 DEF Commit, Go, Acts, Typed, TypeCore, Reports
  <2>4. CASE Applied
    <3>1. intruded' \in BOOLEAN
      BY <2>4, Zenon DEF Applied, Succeeded
    <3> QED
      BY <2>4, <3>1, <1>6 DEF Applied, Succeeded, Done, Acts, Reports
  <2>5. CASE Collect
    <3>1. intruded' \in BOOLEAN
      BY <2>5, Zenon DEF Collect, Succeeded
    <3> QED
      BY <2>5, <3>1, <1>6 DEF Collect, Succeeded, Done, Acts, Reports
  <2>6. CASE Rollback
    BY <2>6, <1>4, <1>6 DEF Rollback, Done, Acts, down, on, Typed, TypeCore, Reports
  <2> QED
    BY <2>1, <2>2, <2>3, <2>4, <2>5, <2>6, <1>7 DEF Activate
<1>8. CASE Regenerate
  <2>1. intruded' \in BOOLEAN
    BY <1>8, Zenon DEF Regenerate
  <2> QED
    BY <1>8, <1>1, <2>1, <1>6 DEF Regenerate, Regenerated, Acts, down, on, applied, Typed, TypeCore, Reports
<1>9. CASE Undo
  <2>1. intruded' \in BOOLEAN
    BY <1>9, Zenon DEF Undo
  <2> QED
    BY <1>9, <2>1, <1>6 DEF Undo, Acts, down, Typed, TypeCore, Reports
<1>10. ASSUME NEW c \in Clients, UpdateCore(c)
       PROVE  TypeCore'
  BY <1>10, <1>4, <1>6 DEF UpdateCore, Acts, down, on, Typed, TypeCore, Reports
<1>11. CASE CoreStops
  BY <1>11, <1>6 DEF CoreStops, Acts, down, Typed, TypeCore, Reports
<1>12. CASE Reboot
  BY <1>12, <1>6 DEF Reboot, Regenerated, Acts, down, applied, Typed, TypeCore, Reports
<1> QED
  BY <1>5, <1>7, <1>8, <1>9, <1>10, <1>11, <1>12, PlanTyped, Zenon
     DEF Next, Handle, Work, Arrive, Mutate, LoadBase, StartJob, CheckUpdate, Cancel, Analyze, Save,
         Complete, Quiet, vars, coreVars

-----------------------------------------------------------------------------
(* Requests and jobs.                                                      *)

(* The one job there is belongs to the runtime's current number: a job is  *)
(* registered only when none runs, and completes before the next.          *)
OneJob ==
  /\ \A j, k \in jobs : j = k
  /\ \A j \in jobs : runtime.running /\ j.job = runtime.current
  /\ runtime.running => jobs # {}

(* The absence of a request is a value of Requests.                        *)
LEMMA NoRequestTyped == NoRequest \in Requests
BY ConstantsAssumption DEF NoRequest, Requests

(* Revisions are numbers, and a base that exists is enabled or not.        *)
LEMMA RevisionTyped ==
  ASSUME Typed, NEW id \in Ids
  PROVE  /\ Revision(id) \in Nat
         /\ manifest.bases[id] # NoBase => manifest.bases[id].enabled \in BOOLEAN
<1>1. manifest.bases \in [Ids -> Records \cup {NoBase}]
  BY DEF Typed, TypeStore, Manifests, Bases
<1>2. manifest.bases[id] = NoBase \/ manifest.bases[id] \in Records
  BY <1>1
<1> QED
  BY <1>2 DEF Revision, Records

(* A handler that goes from one well-typed record to another.              *)
LEMMA PendingTyped ==
  ASSUME Typed, NEW c \in Clients, NEW r \in Requests, pending' = [pending EXCEPT ![c] = r]
  PROVE  pending' \in [Clients -> Requests]
BY DEF Typed, TypeJobs

(* An arriving request is recorded well typed.                             *)
LEMMA ArriveJobs ==
  ASSUME Typed, NEW c \in Clients, NEW id \in Ids,
         NEW op \in {"enable", "disable", "delete", "static", "analyze", "sync"}, Arrive(c, op, id)
  PROVE  pending' \in [Clients -> Requests]
<1> DEFINE sync == (op = "sync")
           revision == Revision(id)
           r == [NoRequest EXCEPT !.op = op, !.id = id, !.sync = sync, !.revision = revision]
<1>1. sync \in BOOLEAN
  BY Zenon
<1>2. revision \in Nat
  BY RevisionTyped
<1> HIDE DEF sync, revision
<1>3. r \in Requests
  BY <1>1, <1>2, NoRequestTyped DEF Requests
<1>4. pending' = [pending EXCEPT ![c] = r]
  BY DEF Arrive, sync, revision
<1> QED
  BY <1>3, <1>4, PendingTyped

(* The first half of start_geobase_job leaves a well-typed request.        *)
LEMMA LoadBaseJobs ==
  ASSUME Typed, NEW c \in Clients, LoadBase(c)
  PROVE  pending' \in [Clients -> Requests]
<1> DEFINE q == pending[c]
           revision == Revision(q.id)
           enabled == manifest.bases[q.id] = NoBase \/ manifest.bases[q.id].enabled
           r == [q EXCEPT !.op = "start", !.revision = revision, !.enabled = enabled]
<1>1. q \in Requests /\ q.id \in Ids
  BY DEF Typed, TypeJobs, Requests
<1>2. enabled \in BOOLEAN
  BY Zenon
<1>3. revision \in Nat
  BY <1>1, RevisionTyped
<1>4. pending' \in {[pending EXCEPT ![c] = NoRequest], [pending EXCEPT ![c] = r]}
  BY DEF LoadBase, Answered
<1> HIDE DEF q, revision, enabled
<1>5. r \in Requests
  BY <1>1, <1>2, <1>3 DEF Requests
<1> HIDE DEF r
<1> QED
  BY <1>4, <1>5, NoRequestTyped, PendingTyped

(* A job starts only when none runs.                                       *)
LEMMA StartJobs ==
  ASSUME Typed, OneJob, NEW c \in Clients, StartJob(c)
  PROVE  TypeJobs' /\ OneJob'
<1> DEFINE r == pending[c]
           next == runtime.next + 1
           new == [job |-> next, id |-> r.id, sync |-> r.sync, revision |-> r.revision,
                   enabled |-> r.enabled, cancelled |-> FALSE, step |-> "analyzing"]
<1>1. r \in Requests /\ next \in Nat \ {0}
  BY DEF Typed, TypeJobs
<1>2. pending' \in [Clients -> Requests]
  BY NoRequestTyped, PendingTyped DEF StartJob, Answered
<1>3. CASE UNCHANGED jobVars
  BY <1>2, <1>3 DEF Typed, TypeJobs, jobVars, OneJob
<1>4. CASE /\ MayStart /\ jobs' = jobs \cup {new}
           /\ runtime' = [next |-> next, current |-> next, running |-> TRUE, id |-> r.id]
  <2> HIDE DEF r, next
  <2>1. new \in Jobs /\ new.job = next
    BY <1>1 DEF Jobs, Requests
  <2>2. /\ runtime' \in [next : Nat, current : Nat, running : BOOLEAN, id : Ids]
        /\ runtime'.running /\ runtime'.current = next
    BY <1>1, <1>4 DEF Requests
  <2> HIDE DEF new
  <2>3. jobs = {}
    BY <1>4, Zenon DEF MayStart, OneJob
  <2>4. jobs' = {new}
    BY <1>4, <2>3
  <2> QED
    BY <1>2, <2>1, <2>2, <2>4 DEF Typed, TypeJobs, OneJob
<1> QED
  BY <1>3, <1>4 DEF StartJob

(* What a thread does to its own job keeps it the only one.                *)
LEMMA JobStepKeepsOne ==
  ASSUME Typed, OneJob, NEW j \in jobs, NEW k \in Jobs, k.job = j.job,
         jobs' = (jobs \ {j}) \cup {k}, UNCHANGED <<pending, runtime>>
  PROVE  TypeJobs' /\ OneJob'
<1>1. jobs' = {k}
  BY DEF OneJob
<1>2. runtime.running /\ k.job = runtime.current
  BY DEF OneJob
<1> QED
  BY <1>1, <1>2 DEF Typed, TypeJobs, OneJob

(* A job that moves on is still the only one.                              *)
LEMMA MovedKeepsOne ==
  ASSUME Typed, OneJob, NEW j \in jobs, NEW step \in {"analyzing", "saving", "done"},
         Moved(j, step), UNCHANGED <<pending, runtime>>
  PROVE  TypeJobs' /\ OneJob'
<1> DEFINE k == [j EXCEPT !.step = step]
<1>1. k \in Jobs /\ k.job = j.job
  BY DEF Typed, TypeJobs, Jobs
<1>2. jobs' = (jobs \ {j}) \cup {k}
  BY DEF Moved
<1> HIDE DEF k
<1> QED
  BY <1>1, <1>2, JobStepKeepsOne

(* Cancelling a job does not make room for a second one.                   *)
LEMMA CancelKeepsOne ==
  ASSUME Typed, OneJob, Cancel
  PROVE  TypeJobs' /\ OneJob'
<1>1. PICK j \in jobs : jobs = {j} /\ runtime.running /\ j.job = runtime.current
  BY Zenon DEF Cancel, OneJob
<1> DEFINE k == [j EXCEPT !.cancelled = TRUE]
<1>2. k \in Jobs /\ k.job = j.job
  BY DEF Typed, TypeJobs, Jobs
<1>3. jobs' = {k}
  BY <1>1 DEF Cancel
<1> HIDE DEF k
<1>4. UNCHANGED <<pending, runtime>>
  BY DEF Cancel
<1> QED
  BY <1>1, <1>2, <1>3, <1>4, JobStepKeepsOne

(* The end of a job clears the running flag it owns.                       *)
LEMMA CompleteKeepsOne ==
  ASSUME Typed, OneJob, NEW j \in jobs, Complete(j)
  PROVE  TypeJobs' /\ OneJob'
<1>1. jobs' = {}
  BY DEF Complete, OneJob
<1>2. runtime' = [runtime EXCEPT !.current = 0, !.running = FALSE]
  BY DEF Complete, Completed, OneJob
<1>3. /\ runtime' \in [next : Nat, current : Nat, running : BOOLEAN, id : Ids]
      /\ ~runtime'.running
  BY <1>2 DEF Typed, TypeJobs
<1>4. pending' = pending
  BY DEF Complete
<1> QED
  BY <1>1, <1>3, <1>4 DEF Typed, TypeJobs, OneJob

(* Every step keeps OneJob and the types of the jobs.                      *)
LEMMA JobsNext ==
  ASSUME Typed, OneJob, Next
  PROVE  TypeJobs' /\ OneJob'
<1>1. CASE UNCHANGED <<pending, runtime, jobs>>
  BY <1>1 DEF Typed, TypeJobs, OneJob
<1>2. ASSUME pending' \in [Clients -> Requests], UNCHANGED <<runtime, jobs>>
      PROVE  TypeJobs' /\ OneJob'
  BY <1>2 DEF Typed, TypeJobs, OneJob
<1>3. ASSUME NEW c \in Clients,
             \/ \E op \in {"enable", "disable", "delete", "static", "analyze", "sync"}, id \in Ids :
                  Arrive(c, op, id)
             \/ Mutate(c) \/ LoadBase(c) \/ StartJob(c) \/ CheckUpdate(c) \/ UpdateCore(c)
      PROVE  TypeJobs' /\ OneJob'
  <2>1. ASSUME NEW op \in {"enable", "disable", "delete", "static", "analyze", "sync"},
               NEW id \in Ids, Arrive(c, op, id)
        PROVE  TypeJobs' /\ OneJob'
    BY <2>1, <1>2, ArriveJobs DEF Arrive, jobVars
  <2>2. CASE LoadBase(c)
    BY <2>2, <1>2, LoadBaseJobs DEF LoadBase, jobVars
  <2>3. CASE Mutate(c)
    BY <2>3, <1>2, NoRequestTyped, PendingTyped DEF Mutate, Answered, jobVars
  <2>4. CASE UpdateCore(c)
    BY <2>4, <1>2, NoRequestTyped, PendingTyped DEF UpdateCore, Answered, jobVars
  <2>5. CASE CheckUpdate(c)
    <3> DEFINE r == [NoRequest EXCEPT !.op = "update"]
    <3>1. r \in Requests
      BY NoRequestTyped DEF Requests
    <3>2. pending' = [pending EXCEPT ![c] = r] /\ UNCHANGED <<runtime, jobs>>
      BY <2>5 DEF CheckUpdate, jobVars
    <3> HIDE DEF r
    <3> QED
      BY <3>1, <3>2, <1>2, PendingTyped
  <2> QED
    BY <2>1, <2>2, <2>3, <2>4, <2>5, <1>3, StartJobs
<1>4. ASSUME NEW j \in jobs, Analyze(j) \/ Save(j) \/ Complete(j)
      PROVE  TypeJobs' /\ OneJob'
  <2>1. CASE Analyze(j)
    BY <2>1, MovedKeepsOne DEF Analyze
  <2>2. CASE Save(j)
    BY <2>2, MovedKeepsOne DEF Save
  <2> QED
    BY <2>1, <2>2, <1>4, CompleteKeepsOne
<1>5. CASE Reboot
  <2>1. /\ pending' = [c \in Clients |-> NoRequest] /\ jobs' = {}
        /\ runtime' = Idle
    BY <1>5 DEF Reboot
  <2>2. Idle \in [next : Nat, current : Nat, running : BOOLEAN, id : Ids] /\ ~Idle.running
    BY NoRequestTyped DEF Idle, Requests
  <2> QED
    BY <2>1, <2>2, NoRequestTyped DEF TypeJobs, OneJob
<1> QED
  BY <1>1, <1>3, <1>4, <1>5, CancelKeepsOne, Zenon
     DEF Next, Handle, Work, Activate, Plan, Load, Fail, Commit, Applied, Collect, Rollback,
         Regenerate, Undo, CoreStops, Quiet, vars, jobVars

(* Every step counts its request and its fault within their bounds.        *)
LEMMA StepsCounted ==
  ASSUME Counted, Next
  PROVE  Counted'
<1>1. CASE UNCHANGED <<requests, faults>>
  BY <1>1 DEF Counted
<1>2. \A id, enabled : Replace(id, enabled) => Works \/ Fault
  BY Zenon DEF Replace, SaveManifest
<1>3. ASSUME NEW c \in Clients
      PROVE  Mutate(c) => (Works \/ Fault) /\ UNCHANGED requests
  BY <1>2, Zenon DEF Mutate, SaveManifest
<1>4. ASSUME NEW c \in Clients, UpdateCore(c)
      PROVE  Works \/ Fault
  BY <1>4 DEF UpdateCore
<1>5. Works \/ Fault \/ UNCHANGED <<requests, faults>>
  <2>1. Activate => Works \/ Fault
    BY DEF Activate, Load, Fail, Commit, Applied, Collect, Rollback
  <2>2. Work => Works \/ Fault
    BY <1>2 DEF Work, Analyze, Save, Complete
  <2>3. Handle => Works \/ Fault
    BY <1>3, <1>4, Zenon DEF Handle, Arrive, LoadBase, StartJob, CheckUpdate
  <2>4. ASSUME NEW projection, NEW start, Plan(projection, start)
        PROVE  Works \/ Fault
    BY <2>4 DEF Plan
  <2> QED
    BY <2>1, <2>2, <2>3, <2>4, Zenon
       DEF Next, Cancel, Regenerate, Undo, CoreStops, Reboot, Quiet, vars
<1>6. UNCHANGED requests \/ Request
  BY <1>3, Zenon
     DEF Next, Handle, Arrive, LoadBase, StartJob, CheckUpdate, UpdateCore, Work, Analyze, Save,
         Complete, Cancel, Plan, Activate, Load, Fail, Commit, Applied, Collect, Rollback,
         Regenerate, Undo, CoreStops, Reboot, Quiet, vars
<1> QED
  BY <1>1, <1>5, <1>6, CountedNext

-----------------------------------------------------------------------------
(* The theorems.                                                           *)

GeoBaseInv == Typed /\ OneJob /\ GeoInv

(* GeoBaseInv holds initially.                                             *)
LEMMA GeoBaseInit == Init => GeoBaseInv
<1> SUFFICES ASSUME Init PROVE GeoBaseInv
  OBVIOUS
<1>1. NoBases \in Bases /\ \A i \in Ids : NoBases[i] = NoBase
  BY DEF NoBases, Bases
<1>2. Providers(NoBases) = {} /\ ArtifactsOf(NoBases) = {}
  BY <1>1 DEF Providers, ArtifactsOf, Present
<1>3. Typed
  <2>1. TypeStore
    BY <1>1, ConstantsAssumption DEF Init, TypeStore, Manifests
  <2>2. TypeCore
    BY ActivationTyped DEF Init, TypeCore, Configs
  <2>3. TypeJobs
    BY NoRequestTyped DEF Init, TypeJobs, Idle, Requests
  <2>4. Counted
    BY ConstantsAssumption DEF Init, Counted
  <2> QED
    BY <2>1, <2>2, <2>3, <2>4 DEF Typed
<1>4. OneJob
  BY DEF Init, OneJob, Idle
<1>5. StoreSound
  BY <1>1, <1>2 DEF Init, StoreSound, ManifestFields, Shaped, NoBases
<1>6. PlanCurrent
  BY IdleFields DEF Init, PlanCurrent, Planned
<1>7. ServedKnown
  BY IdleFields DEF Init, ServedKnown, Known
<1>8. OwnFile
  BY IdleFields DEF Init, OwnFile, Planned
<1> QED
  BY <1>3, <1>4, <1>5, <1>6, <1>7, <1>8 DEF GeoBaseInv, GeoInv

(* Every step keeps GeoInv.                                                *)
LEMMA GeoNext ==
  ASSUME GeoBaseInv, Next
  PROVE  GeoInv'
<1>1. ASSUME UNCHANGED <<storeVars, coreVars>>
      PROVE  GeoInv'
  BY <1>1, ElsewhereInvariant DEF GeoBaseInv
<1>2. ASSUME NEW c \in Clients
      PROVE  Mutate(c) \/ UpdateCore(c) => GeoInv'
  <2>1. pending[c].id \in Ids
    BY DEF GeoBaseInv, Typed, TypeJobs, Requests
  <2> QED
    BY <2>1, MutateInvariant, UpdateCoreInvariant DEF GeoBaseInv
<1>3. ASSUME NEW j \in jobs
      PROVE  Save(j) => GeoInv'
  <2>1. j.id \in Ids
    BY DEF GeoBaseInv, Typed, TypeJobs, Jobs
  <2> QED
    BY <2>1, SaveInvariant DEF GeoBaseInv
<1>4. Activate => GeoInv'
  BY LoadInvariant, FailInvariant, CommitInvariant, AppliedInvariant, CollectInvariant,
     RollbackInvariant DEF Activate, GeoBaseInv
<1>5. ASSUME NEW projection \in Projections, NEW start
      PROVE  Plan(projection, start) => GeoInv'
  BY PlanInvariant DEF GeoBaseInv
<1>6. Regenerate \/ Undo \/ CoreStops \/ Reboot => GeoInv'
  BY RegenerateInvariant, UndoInvariant, CoreStopsInvariant, RebootInvariant DEF GeoBaseInv
<1> QED
  BY <1>1, <1>2, <1>3, <1>4, <1>5, <1>6, Zenon
     DEF Next, Handle, Work, Arrive, LoadBase, StartJob, CheckUpdate, Cancel, Analyze, Complete,
         Quiet, vars, storeVars, coreVars

(* GeoBaseInv is inductive.                                                *)
LEMMA GeoBaseStep == GeoBaseInv /\ [Next]_vars => GeoBaseInv'
<1> SUFFICES ASSUME GeoBaseInv, [Next]_vars PROVE GeoBaseInv'
  OBVIOUS
<1>1. CASE Next
  BY <1>1, GeoNext, StoreTyped, CoreTyped, JobsNext, StepsCounted DEF GeoBaseInv, Typed
<1>2. CASE UNCHANGED vars
  <2>1. GeoInv'
    BY <1>2, ElsewhereInvariant DEF GeoBaseInv, vars, storeVars, coreVars
  <2>2. Typed' /\ OneJob'
    BY <1>2 DEF GeoBaseInv, Typed, TypeStore, TypeCore, TypeJobs, Counted, OneJob, vars
  <2> QED
    BY <2>1, <2>2 DEF GeoBaseInv
<1> QED
  BY <1>1, <1>2

(* GeoBaseInv holds in every reachable state.                              *)
LEMMA GeoBaseInvariant == Spec => []GeoBaseInv
BY GeoBaseInit, GeoBaseStep, PTL DEF Spec

(* The state stays well formed, the applied generation never runs ahead of *)
(* the desired one, and at most one analysis runs, exactly while the       *)
(* status says so (start_geobase_job, GeoBaseJobCompletion).               *)
THEOREM GeoBaseTypeCorrect == Spec => []TypeOK
<1>1. ASSUME GeoBaseInv
      PROVE  TypeOK
  <2>1. Cardinality(jobs) <= 1
    <3>1. CASE jobs = {}
      BY <3>1, FS_EmptySet
    <3>2. ASSUME NEW j \in jobs
          PROVE  Cardinality(jobs) <= 1
      <4>1. jobs = {j}
        BY <1>1 DEF GeoBaseInv, OneJob
      <4> QED
        BY <4>1, FS_Singleton
    <3> QED
      BY <3>1, <3>2
  <2>2. runtime.running <=> \E j \in jobs : j.job = runtime.current
    BY <1>1, Zenon DEF GeoBaseInv, OneJob
  <2>3. manifest.applied_generation <= manifest.generation
    BY <1>1 DEF GeoBaseInv, GeoInv, StoreSound
  <2> QED
    BY <1>1, <2>1, <2>2, <2>3, Zenon
       DEF TypeOK, GeoBaseInv, Typed, TypeStore, TypeCore, TypeJobs, Counted
<1> QED
  BY <1>1, GeoBaseInvariant, PTL

(* However publishing, saving, activating and collecting interleave and    *)
(* fail, no record and, without an intrusion on an activation, no served   *)
(* configuration refers to a collected artifact (garbage_collect).         *)
THEOREM NoDanglingArtifact == Spec => []ArtifactsExist
<1>1. GeoBaseInv => ArtifactsExist
  BY DEF GeoBaseInv, GeoInv, StoreSound, ServedKnown, Known, ArtifactsExist
<1> QED
  BY <1>1, GeoBaseInvariant, PTL

(* After an activation answered "applied" a running core serves the        *)
(* applied snapshot until the next one, and equal generations always name  *)
(* equal bases, also after saves that were answered with an error: what    *)
(* requires_apply reads can be trusted.                                    *)
THEOREM AppliedSnapshotIsTrue == Spec => []AppliedSnapshotTrue
<1>1. GeoBaseInv => AppliedSnapshotTrue
  BY DEF GeoBaseInv, GeoInv, StoreSound, OwnFile, AppliedSnapshotTrue
<1> QED
  BY <1>1, GeoBaseInvariant, PTL

==============================================================================
