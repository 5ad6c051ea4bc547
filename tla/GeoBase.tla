-------------------------------- MODULE GeoBase --------------------------------
(***************************************************************************)
(* The managed GeoBase store and those who use it.                         *)
(*                                                                         *)
(* The manifest keeps the desired bases and the exact snapshot of the last *)
(* activated configuration; the lists of a base live in an artifact        *)
(* directory with a unique name.  An analysis job publishes a new artifact *)
(* and replaces the base; API handlers enable, disable, delete and edit    *)
(* bases; an activation projects the desired or the applied bases into the *)
(* configuration file, commits the snapshot and collects the artifacts     *)
(* neither side refers to.  Every store operation is one transaction of    *)
(* the store's mutex, hence one action; mutations and activations hold the *)
(* apply lock, but the running check of a handler and the load of a job's  *)
(* base come before it, and geo download, undo and maintenance rewrite the *)
(* file without it.  The steps inside an activation are Activation's       *)
(* subject: here it plans, loads, commits, collects or is rolled back.     *)
(***************************************************************************)
EXTENDS Naturals, FiniteSets

CONSTANTS
  Ids,           \* ids of bases
  NoBase,        \* no record under an id
  NoFile,        \* the configuration file is absent, the core has loaded none
  Clients,       \* concurrent API requests
  MaxBases,      \* geobase.rs MAX_BASES
  MaxArtifacts,  \* bound on the artifact directories ever published
  MaxRequests,   \* bound on API requests
  MaxFaults      \* bound on failing calls, crashes and restarts

Artifacts == 1..MaxArtifacts

(* status is Ready or Disabled with enabled; name, source, counts and      *)
(* fingerprints are what the artifact stands for.                          *)
Records == [enabled : BOOLEAN, revision : Nat \ {0}, artifact : Artifacts]
Bases == [Ids -> Records \cup {NoBase}]
NoBases == [i \in Ids |-> NoBase]

Manifests ==
  [generation : Nat, bases : Bases, applied_generation : Nat, applied_bases : Bases]

Projections == {"desired", "applied"}

(* The rule providers a configuration refers to.                           *)
Configs == {NoFile} \cup SUBSET Artifacts

(* The holder of the apply lock, from its plan on.                         *)
Activations ==
  [step : {"idle", "load", "commit", "collect", "rollback"},
   projection : Projections, generation : Nat, bases : Bases,
   previous : Configs, up : BOOLEAN, start : BOOLEAN]

(* A handler that has passed its running check, with what it has read.     *)
Requests ==
  [op : {"none", "enable", "disable", "delete", "static", "analyze", "sync", "start",
         "update"},
   id : Ids, sync : BOOLEAN, revision : Nat, enabled : BOOLEAN]

(* A job thread: revision 0 stands for a base that has to be created.      *)
Jobs ==
  [job : Nat \ {0}, id : Ids, sync : BOOLEAN, revision : Nat,
   enabled : BOOLEAN, cancelled : BOOLEAN, step : {"analyzing", "saving", "done"}]

VARIABLES
  manifest,   \* manifest.json
  artifacts,  \* the published artifact directories
  unique,     \* the last of their names
  file,       \* the Mihomo configuration file
  core,       \* the Mihomo process: is it up, and what it has loaded
  act,        \* the activation that holds the apply lock
  pending,    \* handlers between their running check and their effect
  runtime,    \* inner.geobase: next and current job, running, its id
  jobs,       \* the job threads
  report,     \* what the last activation answered
  intruded,   \* read by properties only: was the file rewritten under an
              \* activation, with no activation since that ended on its own file
  requests, faults

storeVars == <<manifest, artifacts, unique>>
coreVars == <<file, core, act, report, intruded>>
jobVars == <<runtime, jobs>>
vars == <<manifest, artifacts, unique, file, core, act, pending, runtime, jobs,
          report, intruded, requests, faults>>

ASSUME ConstantsAssumption ==
  /\ Ids # {} /\ NoBase \notin Records /\ \A c \in SUBSET Artifacts : NoFile # c
  /\ MaxBases \in Nat /\ MaxArtifacts \in Nat
  /\ MaxRequests \in Nat /\ MaxFaults \in Nat

Works == UNCHANGED faults
Fault == faults < MaxFaults /\ faults' = faults + 1
Request == requests < MaxRequests /\ requests' = requests + 1

-----------------------------------------------------------------------------
(* The store.                                                              *)

Present(bases) == {i \in Ids : bases[i] # NoBase}
ArtifactsOf(bases) == {bases[i].artifact : i \in Present(bases)}

(* Only enabled bases are projected.                                       *)
Providers(bases) == {bases[i].artifact : i \in {j \in Present(bases) : bases[j].enabled}}

SnapshotOnly(m, projection) == m.bases
Snapshot(m, projection) ==
  IF projection = "desired" THEN m.bases ELSE m.applied_bases

Mutated(m, bases) == [m EXCEPT !.bases = bases, !.generation = @ + 1]

Committed(m, generation, bases) ==
  [m EXCEPT !.applied_generation = generation, !.applied_bases = bases]

RetainedEnabled(m) == Providers(m.bases) \cup Providers(m.applied_bases)
Retained(m) == ArtifactsOf(m.bases) \cup ArtifactsOf(m.applied_bases)

(* atomic_json: an error may come before or after the rename.              *)
SaveManifest(m) ==
  \/ Works /\ manifest' = m
  \/ Fault /\ manifest' \in {manifest, m}

(* replace_generation: publish a new artifact, then save the record that   *)
(* refers to it; an error may leave the artifact an orphan.                *)
RevisionFromZero(id) ==
  IF manifest.bases[id] = NoBase THEN 0 ELSE manifest.bases[id].revision + 1
NextRevision(id) ==
  IF manifest.bases[id] = NoBase THEN 1 ELSE manifest.bases[id].revision + 1

Replace(id, enabled) ==
  /\ unique < MaxArtifacts
  /\ unique' = unique + 1
  /\ \/ /\ artifacts' = artifacts \cup {unique'}
        /\ SaveManifest(Mutated(manifest,
             [manifest.bases EXCEPT ![id] =
               [enabled |-> enabled, revision |-> NextRevision(id), artifact |-> unique']]))
     \/ Fault /\ UNCHANGED <<manifest, artifacts>>

-----------------------------------------------------------------------------
(* API handlers: the check first, the apply lock and the effect later.     *)

NoRequest ==
  [op |-> "none", id |-> CHOOSE i \in Ids : TRUE, sync |-> FALSE, revision |-> 0,
   enabled |-> FALSE]

LockFree == act.step = "idle"
Running(id) == runtime.running /\ runtime.id = id
Revision(id) == IF manifest.bases[id] = NoBase THEN 0 ELSE manifest.bases[id].revision
Answered(c) == pending' = [pending EXCEPT ![c] = NoRequest]

(* A client asks for what it has seen: the revision of a static edit is    *)
(* the one it has read.                                                    *)
Arrive(c, op, id) ==
  /\ pending[c].op = "none" /\ Request /\ Works
  /\ IF op = "analyze" THEN ~runtime.running ELSE ~Running(id)
  /\ op \in {"static", "sync"} => manifest.bases[id] # NoBase
  /\ pending' = [pending EXCEPT ![c] = [NoRequest EXCEPT !.op = op, !.id = id,
                   !.sync = (op = "sync"), !.revision = Revision(id)]]
  /\ UNCHANGED <<storeVars, coreVars, jobVars>>

Mutates(op) == op \in {"enable", "disable", "delete", "static"}

(* The base is gone, or the revision has moved on.                         *)
Refused(r) ==
  \/ manifest.bases[r.id] = NoBase
  \/ r.op = "static" /\ Revision(r.id) # r.revision

Mutate(c) ==
  LET r == pending[c] IN
  /\ Mutates(r.op) /\ LockFree
  /\ \/ Refused(r) /\ Works /\ UNCHANGED storeVars
     \/ /\ ~Refused(r) /\ r.op \in {"enable", "disable"}
        /\ SaveManifest(Mutated(manifest,
             [manifest.bases EXCEPT ![r.id].enabled = (r.op = "enable")]))
        /\ UNCHANGED <<artifacts, unique>>
     \/ /\ ~Refused(r) /\ r.op = "delete"
        /\ SaveManifest(Mutated(manifest, [manifest.bases EXCEPT ![r.id] = NoBase]))
        /\ UNCHANGED <<artifacts, unique>>
     \/ /\ ~Refused(r) /\ r.op = "static"
        /\ manifest.bases[r.id].artifact \in artifacts
        /\ Replace(r.id, manifest.bases[r.id].enabled)
  /\ Answered(c)
  /\ UNCHANGED <<coreVars, jobVars, requests>>

-----------------------------------------------------------------------------
(* Analysis jobs.                                                          *)

(* start_geobase_job, between its two running checks: the revision and the *)
(* enabled flag the result will carry are read here.                       *)
LoadBase(c) ==
  LET r == pending[c] IN
  /\ r.op \in {"analyze", "sync"} /\ Works
  /\ IF r.sync /\ (runtime.running \/ manifest.bases[r.id] = NoBase)
     THEN Answered(c)
     ELSE pending' = [pending EXCEPT ![c] = [r EXCEPT !.op = "start",
            !.revision = Revision(r.id),
            !.enabled = manifest.bases[r.id] = NoBase \/ manifest.bases[r.id].enabled]]
  /\ UNCHANGED <<storeVars, coreVars, jobVars, requests>>

MayStart == ~runtime.running

StartJob(c) ==
  LET r == pending[c]
      job == runtime.next + 1 IN
  /\ r.op = "start" /\ Works
  /\ IF MayStart
     THEN /\ runtime' = [next |-> job, current |-> job, running |-> TRUE, id |-> r.id]
          /\ jobs' = jobs \cup
               {[job |-> job, id |-> r.id, sync |-> r.sync, revision |-> r.revision,
                 enabled |-> r.enabled, cancelled |-> FALSE, step |-> "analyzing"]}
     ELSE UNCHANGED jobVars
  /\ Answered(c)
  /\ UNCHANGED <<storeVars, coreVars, requests>>

Moved(j, step) == jobs' = (jobs \ {j}) \cup {[j EXCEPT !.step = step]}

(* The flag is looked at for the last time before the result is saved.     *)
Cancel ==
  /\ runtime.running /\ Request /\ Works
  /\ jobs' = {IF j.job = runtime.current THEN [j EXCEPT !.cancelled = TRUE] ELSE j : j \in jobs}
  /\ UNCHANGED <<storeVars, coreVars, pending, runtime>>

(* Download, parse, diff with the stored source, classify.                 *)
Analyze(j) ==
  /\ j.step = "analyzing"
  /\ \/ /\ ~j.cancelled /\ Works
        /\ j.sync => /\ manifest.bases[j.id] # NoBase
                     /\ manifest.bases[j.id].artifact \in artifacts
        /\ Moved(j, "saving")
     \/ /\ IF j.cancelled \/ (j.sync /\ manifest.bases[j.id] = NoBase) THEN Works ELSE Fault
        /\ Moved(j, "done")
  /\ UNCHANGED <<storeVars, coreVars, pending, runtime, requests>>

(* update for a base that was there, create for one that was not.          *)
Overtaken(j) ==
  \/ Revision(j.id) # j.revision
  \/ j.revision = 0 /\ Cardinality(Present(manifest.bases)) >= MaxBases

Save(j) ==
  /\ j.step = "saving" /\ LockFree
  /\ \/ Overtaken(j) /\ Works /\ UNCHANGED storeVars
     \/ ~Overtaken(j) /\ Replace(j.id, j.enabled)
  /\ Moved(j, "done")
  /\ UNCHANGED <<coreVars, pending, runtime, requests>>

(* GeoBaseJobCompletion, also when the thread panics.                      *)
CurrentGiven(j) == runtime
Completed(j) ==
  IF runtime.current = j.job THEN [runtime EXCEPT !.current = 0, !.running = FALSE]
  ELSE runtime

Complete(j) ==
  /\ j.step = "done" /\ Works
  /\ runtime' = Completed(j)
  /\ jobs' = jobs \ {j}
  /\ UNCHANGED <<storeVars, coreVars, pending, requests>>

-----------------------------------------------------------------------------
(* Activations.                                                            *)

NoActivation ==
  [step |-> "idle", projection |-> "applied", generation |-> 0, bases |-> NoBases,
   previous |-> NoFile, up |-> FALSE, start |-> FALSE]

Go(step) == act' = [act EXCEPT !.step = step]
Done(answer) == act' = NoActivation /\ report' = answer

(* The file is the one this activation wrote, and the core runs on no other.*)
OnOwnFile == file = Providers(act.bases) /\ (core.up => core.loaded = file)
Succeeded == Done("applied") /\ intruded' = (intruded /\ ~OnOwnFile)

Loads(start) == core.up \/ start

(* A projected artifact that is missing fails the plan; a write that fails *)
(* may have replaced the file.                                             *)
Plan(projection, start) ==
  LET bases == Snapshot(manifest, projection) IN
  /\ LockFree /\ Request
  /\ \/ /\ Providers(bases) \subseteq artifacts /\ Works
        /\ file' = Providers(bases)
        /\ act' = [step |-> IF Loads(start) THEN "load" ELSE "commit",
                   projection |-> projection,
                   generation |-> IF projection = "desired" THEN manifest.generation
                                  ELSE manifest.applied_generation,
                   bases |-> bases, previous |-> file, up |-> core.up, start |-> start]
        /\ report' = "none"
     \/ /\ IF Providers(bases) \subseteq artifacts
           THEN Fault /\ file' \in {file, Providers(bases)}
           ELSE Works /\ UNCHANGED file
        /\ report' = "refused"
        /\ UNCHANGED act
  /\ UNCHANGED <<storeVars, core, intruded, pending, jobVars>>

(* Reload, readiness, selector and firewall.                               *)
Load ==
  /\ act.step = "load"
  /\ \/ /\ file # NoFile /\ Works
        /\ core' = [up |-> TRUE, loaded |-> file]
        /\ Go("commit")
     \/ /\ IF file = NoFile THEN Works ELSE Fault
        /\ core' \in {core, [up |-> FALSE, loaded |-> NoFile]} \cup
                     (IF file = NoFile THEN {} ELSE {[up |-> TRUE, loaded |-> file]})
        /\ Go("rollback")
  /\ UNCHANGED <<storeVars, file, report, intruded, pending, jobVars, requests>>

(* Something after the load fails: the core died, the firewall refused.    *)
Fail ==
  /\ act.step = "commit" /\ (IF act.up /\ ~core.up THEN Works ELSE Fault)
  /\ Go("rollback")
  /\ UNCHANGED <<storeVars, file, core, report, intruded, pending, jobVars, requests>>

(* Only an activation of the desired bases is acknowledged.                *)
Commit ==
  /\ act.step = "commit" /\ act.projection = "desired"
  /\ \/ Works /\ manifest' = Committed(manifest, act.generation, act.bases) /\ Go("collect")
     \/ /\ Fault
        /\ manifest' \in {manifest, Committed(manifest, act.generation, act.bases)}
        /\ Go("rollback")
  /\ UNCHANGED <<artifacts, unique, file, core, report, intruded, pending, jobVars, requests>>

Applied ==
  /\ act.step = "commit" /\ act.projection = "applied" /\ Works
  /\ Succeeded
  /\ UNCHANGED <<storeVars, file, core, pending, jobVars, requests>>

(* garbage_collect: an error is a warning, some of it is done.             *)
Collect ==
  /\ act.step = "collect"
  /\ \/ Works /\ artifacts' = artifacts \cap Retained(manifest)
     \/ Fault /\ \E kept \in SUBSET artifacts :
          artifacts' = kept \cup (artifacts \cap Retained(manifest))
  /\ Succeeded
  /\ UNCHANGED <<manifest, unique, file, core, pending, jobVars, requests>>

Rollback ==
  /\ act.step = "rollback"
  /\ \/ /\ Works
        /\ file' = act.previous
        /\ core' = IF act.up /\ act.previous # NoFile
                   THEN [up |-> TRUE, loaded |-> act.previous]
                   ELSE [up |-> FALSE, loaded |-> NoFile]
        /\ Done("restored")
     \/ /\ Fault
        /\ file' \in {file, act.previous}
        /\ core' \in {core, [up |-> FALSE, loaded |-> NoFile]}
        /\ Done("incomplete")
  /\ UNCHANGED <<storeVars, intruded, pending, jobVars, requests>>

-----------------------------------------------------------------------------
(* Those who do not wait for the apply lock, and the environment.          *)

Regenerated == file' = Providers(manifest.applied_bases)

(* Geo download; maintenance also restarts a running core on the file.     *)
Regenerate ==
  /\ Request /\ Works
  /\ Providers(manifest.applied_bases) \subseteq artifacts
  /\ Regenerated
  /\ intruded' = (intruded \/ ~LockFree)
  /\ \/ UNCHANGED core
     \/ core.up /\ core' = [up |-> TRUE, loaded |-> file']
     \/ core.up /\ core' = [up |-> FALSE, loaded |-> NoFile]
  /\ UNCHANGED <<storeVars, act, report, pending, jobVars>>

(* Undo stops the core and removes the file.                               *)
Undo ==
  /\ Request /\ Works
  /\ file' = NoFile /\ core' = [up |-> FALSE, loaded |-> NoFile]
  /\ intruded' = (intruded \/ ~LockFree)
  /\ UNCHANGED <<storeVars, act, report, pending, jobVars>>

(* A core update looks whether the core runs, downloads, and later holds   *)
(* the apply lock around a restart on the file as it is, unless there was  *)
(* nothing to install.                                                     *)
CheckUpdate(c) ==
  /\ pending[c].op = "none" /\ core.up /\ Request /\ Works
  /\ pending' = [pending EXCEPT ![c] = [NoRequest EXCEPT !.op = "update"]]
  /\ UNCHANGED <<storeVars, coreVars, jobVars>>

UpdateCore(c) ==
  /\ pending[c].op = "update" /\ LockFree
  /\ \/ Works /\ UNCHANGED core
     \/ file # NoFile /\ Works /\ core' = [up |-> TRUE, loaded |-> file]
     \/ /\ IF file = NoFile THEN Works ELSE Fault
        /\ core' = [up |-> FALSE, loaded |-> NoFile]
  /\ Answered(c)
  /\ UNCHANGED <<storeVars, file, act, report, intruded, jobVars, requests>>

(* The core is stopped by a handler or dies.                               *)
CoreStops ==
  /\ core.up /\ Fault
  /\ core' = [up |-> FALSE, loaded |-> NoFile]
  /\ UNCHANGED <<storeVars, file, act, report, intruded, pending, jobVars, requests>>

Idle == [next |-> 0, current |-> 0, running |-> FALSE, id |-> NoRequest.id]

(* The daemon dies and starts again; regenerating the file may fail.       *)
Reboot ==
  /\ Fault
  /\ core' = [up |-> FALSE, loaded |-> NoFile]
  /\ \/ Providers(manifest.applied_bases) \subseteq artifacts /\ Regenerated
     \/ UNCHANGED file
  /\ act' = NoActivation
  /\ pending' = [c \in Clients |-> NoRequest]
  /\ runtime' = Idle /\ jobs' = {}
  /\ report' = "none"
  /\ UNCHANGED <<storeVars, intruded, requests>>

(* Nobody asks for anything.                                               *)
Quiet ==
  /\ LockFree /\ jobs = {} /\ \A c \in Clients : pending[c].op = "none"
  /\ UNCHANGED vars

-----------------------------------------------------------------------------

Init ==
  /\ manifest = [generation |-> 0, bases |-> NoBases,
                 applied_generation |-> 0, applied_bases |-> NoBases]
  /\ artifacts = {} /\ unique = 0
  /\ file \in {NoFile, {}} /\ core = [up |-> FALSE, loaded |-> NoFile]
  /\ act = NoActivation
  /\ pending = [c \in Clients |-> NoRequest]
  /\ runtime = Idle /\ jobs = {}
  /\ report = "none" /\ intruded = FALSE
  /\ requests = 0 /\ faults = 0

Handle ==
  \E c \in Clients :
    \/ \E op \in {"enable", "disable", "delete", "static", "analyze", "sync"}, id \in Ids :
         Arrive(c, op, id)
    \/ Mutate(c) \/ LoadBase(c) \/ StartJob(c) \/ CheckUpdate(c) \/ UpdateCore(c)

Work == \E j \in jobs : Analyze(j) \/ Save(j) \/ Complete(j)

Activate == Load \/ Fail \/ Commit \/ Applied \/ Collect \/ Rollback

Next ==
  \/ Handle \/ Cancel \/ Work
  \/ \E projection \in Projections, start \in BOOLEAN : Plan(projection, start)
  \/ Activate
  \/ Regenerate \/ Undo \/ CoreStops \/ Reboot \/ Quiet

Spec == Init /\ [][Next]_vars

(* Job threads and the activation's thread are scheduled.                  *)
FairSpec == Spec /\ WF_vars(Work) /\ WF_vars(Activate)

-----------------------------------------------------------------------------
(* Properties.                                                             *)

(* The state stays well formed; the applied generation never runs ahead;   *)
(* at most one analysis runs, and the status says so exactly while it does.*)
TypeOK ==
  /\ manifest \in Manifests /\ manifest.applied_generation <= manifest.generation
  /\ artifacts \subseteq Artifacts /\ unique \in 0..MaxArtifacts
  /\ file \in Configs /\ core \in [up : BOOLEAN, loaded : Configs]
  /\ act \in Activations /\ pending \in [Clients -> Requests]
  /\ runtime \in [next : Nat, current : Nat, running : BOOLEAN, id : Ids]
  /\ jobs \subseteq Jobs /\ Cardinality(jobs) <= 1
  /\ runtime.running <=> \E j \in jobs : j.job = runtime.current
  /\ report \in {"none", "applied", "refused", "restored", "incomplete"}
  /\ intruded \in BOOLEAN /\ requests \in 0..MaxRequests /\ faults \in 0..MaxFaults

(* Whatever fails between publishing, saving and collecting, every record  *)
(* of the desired and of the applied snapshot has its artifact; collecting *)
(* never removes an artifact the configuration file or the running core    *)
(* refers to, unless the file was rewritten without the apply lock under   *)
(* an activation and no activation has since ended on the file it wrote    *)
(* (a later one that fails puts the rewritten file back).                  *)
ArtifactsExist ==
  /\ ArtifactsOf(manifest.bases) \cup ArtifactsOf(manifest.applied_bases) \subseteq artifacts
  /\ ~intruded => \A served \in {file, core.loaded} \ {NoFile} : served \subseteq artifacts

(* "Exact snapshot used by the last successfully activated config": after  *)
(* an activation answered "applied" a running core serves the providers of *)
(* the applied snapshot, through any mutation of the desired one; and      *)
(* requires_apply can trust the generations: equal generations name equal  *)
(* bases, whatever saves were answered with an error.                      *)
AppliedSnapshotTrue ==
  /\ report = "applied" /\ LockFree /\ ~intruded /\ core.up =>
       core.loaded = Providers(manifest.applied_bases)
  /\ manifest.generation = manifest.applied_generation =>
       manifest.bases = manifest.applied_bases

(* An analysis ends, by result, error or cancellation.                     *)
AnalysisEnds == runtime.running ~> ~runtime.running
=============================================================================
