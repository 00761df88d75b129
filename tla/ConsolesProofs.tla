--------------------------- MODULE ConsolesProofs ---------------------------
(***************************************************************************)
(* Proofs about Consoles.  The views share nothing, so each is proved      *)
(* alone: an inductive invariant with one conjunct per panel or queue, and *)
(* a conjunct proved from the steps that disturb it.                       *)
(***************************************************************************)
EXTENDS Consoles, FiniteSetTheorems, SequenceTheorems, NaturalsInduction,
        WellFoundedInduction, TLAPS

-----------------------------------------------------------------------------
(* The GitOps view: Terraform *)

IacType ==
    iac \in [settings : IacSettings, state : IacStates, planning : BOOLEAN,
             applying : BOOLEAN, planned : IacSettings, edited : BOOLEAN]

\* What is planned is on screen from the start of a plan to the end of its
\* application, unless the form is edited under a run.
IacInv ==
    /\ IacType
    /\ (iac.planning \/ iac.applying \/ iac.state # "stale") /\ ~iac.edited =>
         iac.planned = iac.settings

IacSteps ==
    \/ \E s \in IacSettings : EditSettings(s)
    \/ TriggerTerraformPlan \/ PlanEnds \/ TriggerTerraformApply \/ ApplyEnds

LEMMA IacAlone == ASSUME [GitOpsNext]_gitopsVars PROVE IacSteps \/ UNCHANGED iac
BY DEF GitOpsNext, gitopsVars, delivery, strategies, IacSteps, TriggerGhaPipeline,
       AdvancePipeline, PipelineCompletes, TriggerArgoSync, SyncEnds,
       TriggerTrafficLoad, ScalingStep, RunRollingUpdate, RollingStep,
       ToggleCanarySimulator, TriggerCanaryAnomaly, CanaryRollsBack,
       SetCanaryWeight, RunBlueGreenDeployment, GreenReplicaSpawned,
       CutoverBlueGreen, CutoverEnds, TriggerAlertRule, TelemetryTick,
       RunReadinessScan, ScanStep

LEMMA IacStep == ASSUME IacInv, [GitOpsNext]_gitopsVars PROVE IacInv'
<1>1. CASE IacSteps
  BY <1>1 DEF IacSteps, IacInv, IacType, IacStates, EditSettings,
              TriggerTerraformPlan, PlanEnds, TriggerTerraformApply, ApplyEnds,
              PlanEnabled, ApplyEnabled, IacIdle
<1>2. CASE UNCHANGED iac
  BY <1>2 DEF IacInv, IacType
<1> QED BY <1>1, <1>2, IacAlone

-----------------------------------------------------------------------------
(* The pipeline and ArgoCD *)

ArgoType ==
    /\ gha \in GhaStates
    /\ argo \in [state : ArgoSyncStates, version : Nat, live : Nat,
                 crossed : BOOLEAN]
    /\ syncs \in Seq(Nat)

\* No synchronisation is ahead of the pipeline, and unless one was running
\* when the newest version was made all of them started from that version.
SyncsInv ==
    /\ argo.live <= argo.version
    /\ \A i \in 1..Len(syncs) :
         /\ syncs[i] <= argo.version
         /\ ~argo.crossed => syncs[i] = argo.version

ArgoInv == ArgoType /\ SyncsInv /\ SyncedMeansLatest

ArgoSteps ==
    \/ TriggerGhaPipeline
    \/ AdvancePipeline("testing", "building")
    \/ AdvancePipeline("building", "git_tagging")
    \/ PipelineCompletes
    \/ AdvancePipeline("completed", "idle")
    \/ TriggerArgoSync
    \/ \E i \in DOMAIN syncs : SyncEnds(i)

LEMMA ArgoAlone ==
    ASSUME [GitOpsNext]_gitopsVars PROVE ArgoSteps \/ UNCHANGED <<gha, argo, syncs>>
BY DEF GitOpsNext, gitopsVars, delivery, strategies, ArgoSteps, EditSettings,
       TriggerTerraformPlan, PlanEnds, TriggerTerraformApply, ApplyEnds,
       TriggerTrafficLoad, ScalingStep, RunRollingUpdate, RollingStep,
       ToggleCanarySimulator, TriggerCanaryAnomaly, CanaryRollsBack,
       SetCanaryWeight, RunBlueGreenDeployment, GreenReplicaSpawned,
       CutoverBlueGreen, CutoverEnds, TriggerAlertRule, TelemetryTick,
       RunReadinessScan, ScanStep

LEMMA JoinedPlace ==
    ASSUME NEW S, NEW b \in Seq(S), NEW a \in Seq(S)
    PROVE  /\ b \o a \in Seq(S) /\ Len(b \o a) = Len(b) + Len(a)
           /\ \A j \in 1..(Len(b) + Len(a)) :
                (b \o a)[j] = IF j <= Len(b) THEN b[j] ELSE a[j - Len(b)]
BY ConcatProperties

\* What is left of a sequence without one place was there before.
Left(new, old) ==
    \A j \in 1..Len(new) : \E k \in 1..Len(old) : new[j] = old[k]

LEMMA RemovedPlace ==
    ASSUME NEW S, NEW s \in Seq(S), NEW i \in 1..Len(s)
    PROVE  /\ RemoveAt(s, i) \in Seq(S) /\ Left(RemoveAt(s, i), s)
           /\ Len(RemoveAt(s, i)) = Len(s) - 1
<1>1. PICK b \in Seq(S) : b = SubSeq(s, 1, i - 1)
  <2>1. SubSeq(s, 1, i - 1) \in Seq(S)
    OBVIOUS
  <2> QED BY <2>1
<1>2. PICK a \in Seq(S) : a = SubSeq(s, i + 1, Len(s))
  <2>1. SubSeq(s, i + 1, Len(s)) \in Seq(S)
    OBVIOUS
  <2> QED BY <2>1
<1>3. Len(b) = i - 1 /\ \A j \in 1..(i - 1) : b[j] = s[j]
  BY <1>1
<1>4. Len(a) = Len(s) - i /\ \A j \in 1..(Len(s) - i) : a[j] = s[i + j]
  BY <1>2
<1>5. RemoveAt(s, i) = b \o a
  BY <1>1, <1>2 DEF RemoveAt
<1>6. ASSUME NEW j \in 1..(Len(b) + Len(a))
      PROVE  \E k \in 1..Len(s) : (b \o a)[j] = s[k]
  <2>1. i \in Int /\ Len(s) \in Nat /\ j \in Int
    BY <1>3, <1>4
  <2>2. CASE j <= Len(b)
    <3>1. (b \o a)[j] = s[j] /\ j \in 1..Len(s)
      BY <1>3, <1>4, <1>6, <2>1, <2>2, JoinedPlace
    <3> QED BY <3>1
  <2>3. CASE j > Len(b)
    <3>1. (b \o a)[j] = a[j - Len(b)]
      BY <1>6, <2>3, <2>1, <1>3, JoinedPlace
    <3>2. a[j - Len(b)] = s[j + 1] /\ j + 1 \in 1..Len(s)
      BY <1>3, <1>4, <1>6, <2>1, <2>3
    <3> QED BY <3>1, <3>2
  <2> QED BY <1>3, <2>1, <2>2, <2>3
<1>7. Len(RemoveAt(s, i)) = Len(s) - 1
  <2>1. Len(b) + Len(a) = Len(s) - 1
    BY <1>3, <1>4
  <2> QED BY <1>5, <2>1, JoinedPlace
<1> QED BY <1>5, <1>6, <1>7, JoinedPlace DEF Left

LEMMA ArgoStep == ASSUME ArgoInv, [GitOpsNext]_gitopsVars PROVE ArgoInv'
<1> USE DEF ArgoType, SyncsInv, SyncedMeansLatest, ArgoSyncStates, GhaStates
<1>1. CASE TriggerGhaPipeline
  BY <1>1 DEF ArgoInv, TriggerGhaPipeline
<1>2. ASSUME NEW from \in GhaStates, NEW to \in GhaStates, AdvancePipeline(from, to)
      PROVE  ArgoInv'
  BY <1>2 DEF ArgoInv, AdvancePipeline
<1>3. CASE PipelineCompletes
  <2>1. PICK c \in BOOLEAN : c = (syncs # <<>>)
    OBVIOUS
  <2>2. /\ argo' = [argo EXCEPT !.state = "OutOfSync", !.version = @ + 1,
                                !.crossed = c]
        /\ gha' = "completed" /\ syncs' = syncs
    BY <1>3, <2>1 DEF PipelineCompletes
  <2>3. /\ argo'.version = argo.version + 1 /\ argo'.live = argo.live
        /\ argo'.crossed = c /\ argo'.state = "OutOfSync"
    BY <2>2 DEF ArgoInv
  <2>4. ArgoType'
    <3>1. gha' \in GhaStates /\ syncs' \in Seq(Nat)
      BY <2>2 DEF ArgoInv
    <3>2. argo' = [state |-> "OutOfSync", version |-> argo.version + 1,
                   live |-> argo.live, crossed |-> c]
      BY <2>2 DEF ArgoInv
    <3>3. argo.version + 1 \in Nat /\ argo.live \in Nat
      BY DEF ArgoInv
    <3>4. argo' \in [state : ArgoSyncStates, version : Nat, live : Nat,
                     crossed : BOOLEAN]
      BY <2>1, <3>2, <3>3
    <3> QED BY <3>1, <3>4
  <2>5. ASSUME NEW i \in 1..Len(syncs) PROVE syncs[i] \in Nat /\ c
    <3>1. syncs # <<>> /\ syncs[i] \in Nat
      BY <2>5 DEF ArgoInv
    <3> QED BY <2>1, <3>1
  <2>6. ASSUME NEW i \in 1..Len(syncs')
        PROVE  /\ syncs'[i] <= argo'.version
               /\ ~argo'.crossed => syncs'[i] = argo'.version
    BY <2>2, <2>3, <2>5, <2>6 DEF ArgoInv
  <2>7. argo'.live <= argo'.version /\ SyncedMeansLatest'
    BY <2>3 DEF ArgoInv
  <2> QED BY <2>4, <2>6, <2>7 DEF ArgoInv
<1>4. CASE TriggerArgoSync
  <2>1. /\ argo' = [argo EXCEPT !.state = "Syncing"] /\ gha' = gha
        /\ syncs' = Append(syncs, argo.version)
    BY <1>4 DEF TriggerArgoSync
  <2>2. /\ argo'.version = argo.version /\ argo'.crossed = argo.crossed
        /\ argo'.live = argo.live /\ argo'.state = "Syncing"
    BY <2>1 DEF ArgoInv
  <2>3. ArgoType'
    BY <2>1 DEF ArgoInv
  <2>4. ASSUME NEW j \in 1..Len(syncs')
        PROVE  syncs'[j] = argo.version \/ (j \in 1..Len(syncs) /\ syncs'[j] = syncs[j])
    BY <2>1, <2>4 DEF ArgoInv
  <2> QED BY <2>2, <2>3, <2>4 DEF ArgoInv
<1>5. ASSUME NEW i \in DOMAIN syncs, SyncEnds(i) PROVE ArgoInv'
  <2>1. i \in 1..Len(syncs) /\ syncs[i] \in Nat
    BY <1>5 DEF ArgoInv
  <2>2. syncs' \in Seq(Nat) /\ Left(syncs', syncs)
    <3>1. syncs' = RemoveAt(syncs, i)
      BY <1>5 DEF SyncEnds
    <3> QED BY <2>1, <3>1, RemovedPlace DEF ArgoInv
  <2>3. ArgoType' /\ argo'.version = argo.version /\ argo'.crossed = argo.crossed
        /\ argo'.live = IF syncs[i] > argo.live THEN syncs[i] ELSE argo.live
    BY <1>5, <2>1, <2>2 DEF ArgoInv, SyncEnds
  <2>4. argo'.live <= argo'.version
        /\ (~argo'.crossed => argo'.live = argo'.version)
    BY <2>1, <2>3 DEF ArgoInv
  <2>5. ASSUME NEW j \in 1..Len(syncs')
        PROVE  /\ syncs'[j] <= argo'.version
               /\ ~argo'.crossed => syncs'[j] = argo'.version
    <3>1. \E k \in 1..Len(syncs) : syncs'[j] = syncs[k]
      BY <2>2, <2>5 DEF Left
    <3> QED BY <2>3, <3>1 DEF ArgoInv
  <2> QED BY <2>3, <2>4, <2>5 DEF ArgoInv
<1>6. CASE UNCHANGED <<gha, argo, syncs>>
  BY <1>6 DEF ArgoInv
<1> QED BY <1>1, <1>2, <1>3, <1>4, <1>5, <1>6, ArgoAlone DEF ArgoSteps

-----------------------------------------------------------------------------
(* The autoscaler *)

Scaling == [up : BOOLEAN, step : {1, 2}]

HpaType ==
    /\ hpa \in [target : Loads, replicas : 3..9, status : AutoScaleStatuses,
                overlapped : BOOLEAN]
    /\ scalings \in Seq(Scaling)

\* Unless chains of timers overlapped, there is one of them at most, for the
\* load on view, and when it has ended the replicas are those of that load.
OneChain ==
    ~hpa.overlapped =>
       \/ /\ Len(scalings) = 0
          /\ hpa.target = "high" => hpa.replicas = 9 /\ hpa.status = "stabilized"
          /\ hpa.target = "low" => hpa.replicas = 3 /\ hpa.status = "idle"
       \/ /\ Len(scalings) = 1
          /\ \/ hpa.target = "high" /\ scalings[1].up
             \/ hpa.target = "low" /\ ~scalings[1].up

HpaInv == HpaType /\ OneChain

HpaSteps ==
    \/ \E l \in Loads : TriggerTrafficLoad(l)
    \/ \E i \in DOMAIN scalings : ScalingStep(i)

LEMMA HpaAlone ==
    ASSUME [GitOpsNext]_gitopsVars PROVE HpaSteps \/ UNCHANGED <<hpa, scalings>>
BY DEF GitOpsNext, gitopsVars, delivery, strategies, HpaSteps, EditSettings,
       TriggerTerraformPlan, PlanEnds, TriggerTerraformApply, ApplyEnds,
       TriggerGhaPipeline, AdvancePipeline, PipelineCompletes, TriggerArgoSync,
       SyncEnds, RunRollingUpdate, RollingStep, ToggleCanarySimulator,
       TriggerCanaryAnomaly, CanaryRollsBack, SetCanaryWeight,
       RunBlueGreenDeployment, GreenReplicaSpawned, CutoverBlueGreen,
       CutoverEnds, TriggerAlertRule, TelemetryTick, RunReadinessScan, ScanStep

\* A click starts at most one chain, up for a high load and down for a low one
\* with replicas to take away.
LEMMA ChainOf ==
    ASSUME HpaType, NEW load \in Loads
    PROVE  /\ Chain(load) \in Seq(Scaling)
           /\ load = "high" => Len(Chain(load)) = 1 /\ Chain(load)[1].up
           /\ load = "mid" => Len(Chain(load)) = 0
           /\ load = "low" =>
                \/ Len(Chain(load)) = 0 /\ hpa.replicas = 3
                   /\ ChainStatus(load) = "idle"
                \/ Len(Chain(load)) = 1 /\ ~Chain(load)[1].up
           /\ ChainStatus(load) \in AutoScaleStatuses
<1>1. hpa.replicas \in 3..9
  BY DEF HpaType
<1>2. [up |-> TRUE, step |-> 1] \in Scaling /\ [up |-> FALSE, step |-> 1] \in Scaling
  BY DEF Scaling
<1>3. CASE load = "high"
  <2>1. /\ Chain(load) = <<[up |-> TRUE, step |-> 1]>>
        /\ ChainStatus(load) = "scaling_up"
    BY <1>3 DEF Chain, ChainStatus
  <2>2. /\ Chain(load) \in Seq(Scaling)
        /\ Len(Chain(load)) = 1 /\ Chain(load)[1].up
    BY <1>2, <2>1
  <2>3. load # "mid" /\ load # "low"
    BY <1>3
  <2> QED BY <1>3, <2>1, <2>2, <2>3 DEF AutoScaleStatuses
<1>4. CASE load = "mid" \/ (load = "low" /\ ~(hpa.replicas > 3))
  <2>1. Chain(load) = <<>> /\ ChainStatus(load) = "idle"
    BY <1>4 DEF Chain, ChainStatus
  <2>2. load = "low" => hpa.replicas = 3
    BY <1>1, <1>4
  <2>3. load # "high"
    BY <1>4
  <2> QED BY <2>1, <2>2, <2>3 DEF AutoScaleStatuses
<1>5. CASE load = "low" /\ hpa.replicas > 3
  <2>1. /\ Chain(load) = <<[up |-> FALSE, step |-> 1]>>
        /\ ChainStatus(load) = "scaling_down"
    BY <1>5 DEF Chain, ChainStatus
  <2>2. /\ Chain(load) \in Seq(Scaling)
        /\ Len(Chain(load)) = 1 /\ ~Chain(load)[1].up
    BY <1>2, <2>1
  <2>3. load # "mid" /\ load # "high"
    BY <1>5
  <2> QED BY <1>5, <2>1, <2>2, <2>3 DEF AutoScaleStatuses
<1> QED BY <1>3, <1>4, <1>5 DEF Loads

LEMMA LoadKeeps ==
    ASSUME HpaInv, NEW load \in Loads, TriggerTrafficLoad(load) PROVE HpaInv'
<1>1. PICK o \in BOOLEAN : o = (scalings # <<>>)
  OBVIOUS
<1>2. hpa' = [hpa EXCEPT !.target = load, !.status = ChainStatus(load),
                         !.overlapped = o]
  BY <1>1 DEF TriggerTrafficLoad
<1>3. hpa' = [target |-> load, replicas |-> hpa.replicas,
              status |-> ChainStatus(load), overlapped |-> o]
  BY <1>2 DEF HpaInv, HpaType
<1>4. hpa.replicas \in 3..9 /\ ChainStatus(load) \in AutoScaleStatuses
  BY ChainOf DEF HpaInv, HpaType
<1>5. scalings \in Seq(Scaling) /\ scalings' = scalings \o Chain(load)
  BY DEF TriggerTrafficLoad, HpaInv, HpaType
<1>6. HpaType'
  <2>1. scalings' \in Seq(Scaling)
    BY <1>5, ChainOf, JoinedPlace DEF HpaInv
  <2>2. hpa' \in [target : Loads, replicas : 3..9, status : AutoScaleStatuses,
                  overlapped : BOOLEAN]
    BY <1>1, <1>3, <1>4
  <2> QED BY <2>1, <2>2 DEF HpaType
<1>7. ASSUME ~o PROVE scalings' = Chain(load)
  <2>1. scalings = <<>>
    BY <1>1, <1>7
  <2> QED BY <1>5, <2>1, ChainOf, ConcatEmptySeq DEF HpaInv
<1>8. ASSUME ~o PROVE OneChain'
  BY <1>3, <1>7, <1>8, ChainOf DEF HpaInv, OneChain, Loads
<1>9. hpa'.overlapped = o
  BY <1>3
<1> QED BY <1>6, <1>8, <1>9 DEF HpaInv, OneChain

LEMMA ScalingKeeps ==
    ASSUME HpaInv, NEW i \in DOMAIN scalings, ScalingStep(i) PROVE HpaInv'
<1>1. scalings \in Seq(Scaling) /\ i \in 1..Len(scalings) /\ scalings[i] \in Scaling
  BY DEF HpaInv, HpaType
<1>2. CASE scalings[i].step = 1
  <2>1. /\ hpa' = [hpa EXCEPT !.replicas = IF scalings[i].up THEN 6 ELSE 5]
        /\ scalings' = [scalings EXCEPT ![i] = [scalings[i] EXCEPT !.step = 2]]
    BY <1>1, <1>2 DEF ScalingStep
  <2>2. [scalings[i] EXCEPT !.step = 2] \in Scaling
        /\ [scalings[i] EXCEPT !.step = 2].up = scalings[i].up
    BY <1>1 DEF Scaling
  <2>3. HpaType'
    <3>1. PICK n \in 3..9 : n = IF scalings[i].up THEN 6 ELSE 5
      OBVIOUS
    <3>2. hpa' = [target |-> hpa.target, replicas |-> n, status |-> hpa.status,
                  overlapped |-> hpa.overlapped]
      BY <2>1, <3>1 DEF HpaInv, HpaType
    <3>3. hpa' \in [target : Loads, replicas : 3..9, status : AutoScaleStatuses,
                    overlapped : BOOLEAN]
      BY <3>1, <3>2 DEF HpaInv, HpaType
    <3>4. scalings' \in Seq(Scaling)
      BY <1>1, <2>1, <2>2
    <3> QED BY <3>3, <3>4 DEF HpaType
  <2>4. /\ Len(scalings') = Len(scalings)
        /\ \A j \in 1..Len(scalings) : scalings'[j].up = scalings[j].up
    BY <1>1, <2>1, <2>2
  <2>5. hpa'.target = hpa.target /\ hpa'.overlapped = hpa.overlapped
    BY <2>1 DEF HpaInv, HpaType
  <2>6. Len(scalings) # 0 /\ Len(scalings) \in Nat
    BY <1>1
  <2> QED BY <2>3, <2>4, <2>5, <2>6 DEF HpaInv, OneChain
<1>3. CASE scalings[i].step = 2
  <2>1. /\ hpa' = [hpa EXCEPT !.replicas = IF scalings[i].up THEN 9 ELSE 3,
                      !.status = IF scalings[i].up THEN "stabilized" ELSE "idle"]
        /\ scalings' = RemoveAt(scalings, i)
    BY <1>1, <1>3 DEF ScalingStep
  <2>2. scalings' \in Seq(Scaling) /\ Len(scalings') = Len(scalings) - 1
    BY <1>1, <2>1, RemovedPlace
  <2>3. HpaType'
    <3>1. PICK n \in 3..9 : n = IF scalings[i].up THEN 9 ELSE 3
      OBVIOUS
    <3>2. PICK st \in AutoScaleStatuses :
            st = IF scalings[i].up THEN "stabilized" ELSE "idle"
      BY DEF AutoScaleStatuses
    <3>3. hpa' = [target |-> hpa.target, replicas |-> n, status |-> st,
                  overlapped |-> hpa.overlapped]
      BY <2>1, <3>1, <3>2 DEF HpaInv, HpaType
    <3>4. hpa' \in [target : Loads, replicas : 3..9, status : AutoScaleStatuses,
                    overlapped : BOOLEAN]
      BY <3>1, <3>2, <3>3 DEF HpaInv, HpaType
    <3> QED BY <2>2, <3>4 DEF HpaType
  <2>4. /\ hpa'.target = hpa.target /\ hpa'.overlapped = hpa.overlapped
        /\ scalings[i].up => hpa'.replicas = 9 /\ hpa'.status = "stabilized"
        /\ ~scalings[i].up => hpa'.replicas = 3 /\ hpa'.status = "idle"
    BY <2>1 DEF HpaInv, HpaType
  <2>5. ASSUME ~hpa.overlapped PROVE Len(scalings) = 1 /\ i = 1
    BY <1>1, <2>5 DEF HpaInv, OneChain
  <2> QED BY <2>2, <2>3, <2>4, <2>5 DEF HpaInv, OneChain
<1> QED BY <1>1, <1>2, <1>3 DEF Scaling

LEMMA HpaStep == ASSUME HpaInv, [GitOpsNext]_gitopsVars PROVE HpaInv'
<1>1. CASE UNCHANGED <<hpa, scalings>>
  BY <1>1 DEF HpaInv, HpaType, OneChain
<1> QED BY <1>1, HpaAlone, LoadKeeps, ScalingKeeps DEF HpaSteps

-----------------------------------------------------------------------------
(* The rolling update *)

\* The pods that each step of the update leaves, by name.
IdsAt(k) ==
    CASE k = 0 -> 1..6 [] k \in {1, 2} -> 1..7
      [] k \in {3, 4} -> 2..8 [] k = 5 -> 4..10 [] k = 6 -> 7..12
VersionAt(i) == IF i <= 6 THEN "V1" ELSE "V2"
StatusAt(k, i) ==
    IF i <= 6
    THEN IF (k = 2 /\ i = 1) \/ (k = 4 /\ i \in {2, 3}) THEN "Terminating"
         ELSE "Healthy"
    ELSE IF (k = 1 /\ i = 7) \/ (k = 3 /\ i = 8) THEN "Pending" ELSE "Ready"
PodAt(k, i) == PodOf(i, VersionAt(i), StatusAt(k, i))
PodsAt(k) == {PodAt(k, i) : i \in IdsAt(k)}

\* Those among them that serve, an interval of names at every step.
FirstServing(k) == CASE k \in {0, 1} -> 1 [] k \in {2, 3} -> 2 [] k \in {4, 5} -> 4
                     [] k = 6 -> 7
LastServing(k) == CASE k \in {0, 1} -> 6 [] k \in {2, 3} -> 7 [] k = 4 -> 8
                    [] k = 5 -> 10 [] k = 6 -> 12

RollingInv ==
    /\ rolling.step \in 0..6
    /\ rolling.pods = PodsAt(rolling.step)
    /\ rolling.state = "completed" => rolling.step = 6
    /\ rolling.state = "updating" => rolling.step < 6

LEMMA PodAtFields ==
    ASSUME NEW k, NEW i
    PROVE  /\ PodAt(k, i).id = i
           /\ PodAt(k, i).version = VersionAt(i)
           /\ PodAt(k, i).status = StatusAt(k, i)
BY DEF PodAt, PodOf

LEMMA PodsAreTyped == ASSUME NEW k \in 0..6 PROVE PodsAt(k) \subseteq Pod
<1>1. ASSUME NEW i \in 1..12 PROVE PodAt(k, i) \in Pod
  BY DEF PodAt, PodOf, VersionAt, StatusAt, Pod, PodStatuses
<1>2. IdsAt(k) \subseteq 1..12
  BY DEF IdsAt
<1> QED BY <1>1, <1>2 DEF PodsAt

\* Who serves: the pods of one interval of names.
LEMMA ServingAt ==
    ASSUME NEW k \in 0..6, NEW i \in IdsAt(k)
    PROVE  /\ i \in Int
           /\ StatusAt(k, i) \in {"Healthy", "Ready"} <=>
                i \in FirstServing(k)..LastServing(k)
BY DEF IdsAt, StatusAt, FirstServing, LastServing

LEMMA ServingCount ==
    ASSUME NEW k \in 0..6, rolling.pods = PodsAt(k)
    PROVE  Cardinality(Serving) = LastServing(k) - FirstServing(k) + 1
<1> DEFINE I == FirstServing(k)..LastServing(k)
           f == [i \in I |-> PodAt(k, i)]
<1>1. I \subseteq IdsAt(k)
  BY DEF IdsAt, FirstServing, LastServing
<1>2. Serving = {PodAt(k, i) : i \in I}
  <2>1. ASSUME NEW p \in Serving PROVE \E i \in I : p = PodAt(k, i)
    <3>1. PICK i \in IdsAt(k) : p = PodAt(k, i)
      BY DEF Serving, PodsAt
    <3>2. StatusAt(k, i) \in {"Healthy", "Ready"}
      BY <3>1, PodAtFields DEF Serving
    <3> QED BY <3>1, <3>2, ServingAt
  <2>2. ASSUME NEW i \in I PROVE PodAt(k, i) \in Serving
    <3>1. PodAt(k, i) \in rolling.pods
      BY <1>1 DEF PodsAt
    <3>2. StatusAt(k, i) \in {"Healthy", "Ready"}
      BY <1>1, ServingAt
    <3> QED BY <3>1, <3>2, PodAtFields DEF Serving
  <2> QED BY <2>1, <2>2
<1>3. f \in Bijection(I, Serving)
  <2>1. f \in [I -> Serving]
    BY <1>2
  <2>2. ASSUME NEW a \in I, NEW b \in I, f[a] = f[b] PROVE a = b
    BY <2>2, PodAtFields
  <2>3. ASSUME NEW t \in Serving PROVE \E a \in I : f[a] = t
    BY <1>2
  <2>4. DOMAIN f = I
    OBVIOUS
  <2> HIDE DEF f, I
  <2> QED BY <2>1, <2>2, <2>3, <2>4 DEF Bijection, Injection, IsInjective, Surjection
<1>4. /\ FirstServing(k) \in Int /\ LastServing(k) \in Int
      /\ FirstServing(k) <= LastServing(k)
  BY DEF FirstServing, LastServing
<1>5. IsFiniteSet(I) /\ Cardinality(I) = LastServing(k) - FirstServing(k) + 1
  BY <1>4, FS_Interval
<1> HIDE DEF f, I
<1> QED BY <1>3, <1>5, FS_Bijection DEF ExistsBijection

\* The guard of the roll-out, read off the steps.
LEMMA RollingIsSafe ==
    ASSUME RollingInv
    PROVE  /\ rolling.step \in 0..6 /\ rolling.pods \subseteq Pod
           /\ rolling.state = "completed" =>
                Cardinality(Serving) = 6 /\ \A p \in rolling.pods : p.version = "V2"
<1>1. Cardinality(Serving) = LastServing(rolling.step) - FirstServing(rolling.step) + 1
  BY ServingCount DEF RollingInv
<1>2. ASSUME rolling.state = "completed"
      PROVE  /\ LastServing(rolling.step) - FirstServing(rolling.step) + 1 = 6
             /\ \A p \in rolling.pods : p.version = "V2"
  <2>1. rolling.step = 6 /\ rolling.pods = PodsAt(6)
    BY <1>2 DEF RollingInv
  <2>2. ASSUME NEW i \in IdsAt(6) PROVE VersionAt(i) = "V2"
    BY DEF IdsAt, VersionAt
  <2> QED BY <2>1, <2>2, PodAtFields DEF PodsAt, LastServing, FirstServing
<1> QED BY <1>1, <1>2, PodsAreTyped DEF RollingInv

\* Marking and evacuating named pods, pod by pod.
PodsOf(f, ids) == {f[i] : i \in ids}
Table(k) == [i \in 1..12 |-> PodAt(k, i)]
MarkIn(f, ids, status) ==
    [i \in 1..12 |-> IF i \in ids THEN [f[i] EXCEPT !.status = status] ELSE f[i]]
Named(f) == \A i \in 1..12 : f[i] = PodOf(i, f[i].version, f[i].status)

LEMMA MarkedPods ==
    ASSUME NEW f, Named(f), NEW I \in SUBSET (1..12), NEW ids, NEW status
    PROVE  /\ Marked(PodsOf(f, I), ids, status) = PodsOf(MarkIn(f, ids, status), I)
           /\ Named(MarkIn(f, ids, status))
<1>1. ASSUME NEW i \in 1..12 PROVE f[i].id = i
  BY DEF Named, PodOf
<1>2. Marked(PodsOf(f, I), ids, status) = PodsOf(MarkIn(f, ids, status), I)
  <2>1. ASSUME NEW i \in I
        PROVE  MarkIn(f, ids, status)[i]
                 = IF f[i].id \in ids THEN [f[i] EXCEPT !.status = status] ELSE f[i]
    BY <1>1 DEF MarkIn
  <2>2. ASSUME NEW p \in Marked(PodsOf(f, I), ids, status)
        PROVE  p \in PodsOf(MarkIn(f, ids, status), I)
    <3>1. PICK q \in PodsOf(f, I) :
            p = IF q.id \in ids THEN [q EXCEPT !.status = status] ELSE q
      BY DEF Marked
    <3>2. PICK i \in I : q = f[i]
      BY DEF PodsOf
    <3> QED BY <2>1, <3>1, <3>2 DEF PodsOf
  <2>3. ASSUME NEW p \in PodsOf(MarkIn(f, ids, status), I)
        PROVE  p \in Marked(PodsOf(f, I), ids, status)
    <3>1. PICK i \in I : p = MarkIn(f, ids, status)[i]
      BY DEF PodsOf
    <3>2. f[i] \in PodsOf(f, I)
      BY DEF PodsOf
    <3> QED BY <2>1, <3>1, <3>2 DEF Marked
  <2> QED BY <2>2, <2>3
<1>3. ASSUME NEW i \in 1..12
      PROVE  LET g == MarkIn(f, ids, status)[i] IN g = PodOf(i, g.version, g.status)
  <2>1. f[i] = PodOf(i, f[i].version, f[i].status)
    BY DEF Named
  <2> QED BY <2>1 DEF MarkIn, PodOf
<1> QED BY <1>2, <1>3 DEF Named

LEMMA EvacuatedPods ==
    ASSUME NEW f, Named(f), NEW I \in SUBSET (1..12), NEW ids
    PROVE  Evacuated(PodsOf(f, I), ids) = PodsOf(f, I \ ids)
<1>1. ASSUME NEW i \in 1..12 PROVE f[i].id = i
  BY DEF Named, PodOf
<1> QED BY <1>1 DEF Evacuated, PodsOf

LEMMA PodsOfTable ==
    ASSUME NEW k \in 0..6
    PROVE  /\ IdsAt(k) \in SUBSET (1..12) /\ PodsAt(k) = PodsOf(Table(k), IdsAt(k))
           /\ Named(Table(k))
<1>1. IdsAt(k) \in SUBSET (1..12)
  BY DEF IdsAt
<1> QED BY <1>1, PodAtFields DEF PodsAt, PodsOf, Table, Named, PodAt, PodOf

\* Two tables that agree on some names hold the same pods of those names.
LEMMA SamePods ==
    ASSUME NEW f, NEW g, NEW I, \A i \in I : f[i] = g[i]
    PROVE  PodsOf(f, I) = PodsOf(g, I)
BY DEF PodsOf

LEMMA PodsAfterAt ==
    ASSUME NEW k \in 0..5 PROVE PodsAfter(k + 1, PodsAt(k)) = PodsAt(k + 1)
<1>1. CASE k = 0
  <2>1. \A i \in 1..6 : Table(0)[i] = Table(1)[i]
    BY DEF Table, PodAt, VersionAt, StatusAt
  <2>2. Table(1)[7] = PodOf(7, "V2", "Pending")
    BY DEF Table, PodAt, VersionAt, StatusAt
  <2>3. IdsAt(0) = 1..6 /\ IdsAt(1) = (1..6) \cup {7}
    BY DEF IdsAt
  <2> QED BY <1>1, <2>1, <2>2, <2>3, PodsOfTable DEF PodsAfter, PodsOf
<1>2. CASE k = 1
  <2> DEFINE f == MarkIn(MarkIn(Table(1), {1}, "Terminating"), {7}, "Ready")
  <2>1. \A i \in 1..7 : f[i] = Table(2)[i]
    BY DEF Table, PodAt, PodOf, VersionAt, StatusAt, MarkIn
  <2>2. IdsAt(1) = 1..7 /\ IdsAt(2) = 1..7
    BY DEF IdsAt
  <2>3. Marked(Marked(PodsAt(1), {1}, "Terminating"), {7}, "Ready") = PodsOf(f, 1..7)
    <3>1. PodsAt(1) = PodsOf(Table(1), 1..7) /\ Named(Table(1))
      BY <2>2, PodsOfTable
    <3>2. 1..7 \in SUBSET (1..12)
      OBVIOUS
    <3>3. /\ Marked(PodsAt(1), {1}, "Terminating")
               = PodsOf(MarkIn(Table(1), {1}, "Terminating"), 1..7)
          /\ Named(MarkIn(Table(1), {1}, "Terminating"))
      BY <3>1, <3>2, MarkedPods
    <3> QED BY <3>2, <3>3, MarkedPods
  <2> HIDE DEF f
  <2> QED BY <1>2, <2>1, <2>2, <2>3, PodsOfTable, SamePods DEF PodsAfter
<1>3. CASE k = 2
  <2>1. \A i \in 2..7 : Table(2)[i] = Table(3)[i]
    BY DEF Table, PodAt, VersionAt, StatusAt
  <2>2. Table(3)[8] = PodOf(8, "V2", "Pending")
    BY DEF Table, PodAt, VersionAt, StatusAt
  <2>3. IdsAt(2) \ {1} = 2..7 /\ IdsAt(3) = (2..7) \cup {8}
    BY DEF IdsAt
  <2>4. Evacuated(PodsAt(2), {1}) = PodsOf(Table(2), 2..7)
    <3>1. /\ PodsAt(2) = PodsOf(Table(2), IdsAt(2)) /\ Named(Table(2))
          /\ IdsAt(2) \in SUBSET (1..12)
      BY PodsOfTable
    <3> QED BY <2>3, <3>1, EvacuatedPods
  <2> QED BY <1>3, <2>1, <2>2, <2>3, <2>4, PodsOfTable DEF PodsAfter, PodsOf
<1>4. CASE k = 3
  <2> DEFINE f == MarkIn(MarkIn(Table(3), {2, 3}, "Terminating"), {8}, "Ready")
  <2>1. \A i \in 2..8 : f[i] = Table(4)[i]
    BY DEF Table, PodAt, PodOf, VersionAt, StatusAt, MarkIn
  <2>2. IdsAt(3) = 2..8 /\ IdsAt(4) = 2..8
    BY DEF IdsAt
  <2>3. Marked(Marked(PodsAt(3), {2, 3}, "Terminating"), {8}, "Ready") = PodsOf(f, 2..8)
    <3>1. PodsAt(3) = PodsOf(Table(3), 2..8) /\ Named(Table(3))
      BY <2>2, PodsOfTable
    <3>2. 2..8 \in SUBSET (1..12)
      OBVIOUS
    <3>3. /\ Marked(PodsAt(3), {2, 3}, "Terminating")
               = PodsOf(MarkIn(Table(3), {2, 3}, "Terminating"), 2..8)
          /\ Named(MarkIn(Table(3), {2, 3}, "Terminating"))
      BY <3>1, <3>2, MarkedPods
    <3> QED BY <3>2, <3>3, MarkedPods
  <2> HIDE DEF f
  <2> QED BY <1>4, <2>1, <2>2, <2>3, PodsOfTable, SamePods DEF PodsAfter
<1>5. CASE k = 4
  <2>1. \A i \in 4..8 : Table(4)[i] = Table(5)[i]
    BY DEF Table, PodAt, VersionAt, StatusAt
  <2>2. /\ Table(5)[9] = PodOf(9, "V2", "Ready")
        /\ Table(5)[10] = PodOf(10, "V2", "Ready")
    BY DEF Table, PodAt, VersionAt, StatusAt
  <2>3. IdsAt(4) \ {2, 3} = 4..8 /\ IdsAt(5) = (4..8) \cup {9, 10}
    BY DEF IdsAt
  <2>4. Evacuated(PodsAt(4), {2, 3}) = PodsOf(Table(4), 4..8)
    <3>1. /\ PodsAt(4) = PodsOf(Table(4), IdsAt(4)) /\ Named(Table(4))
          /\ IdsAt(4) \in SUBSET (1..12)
      BY PodsOfTable
    <3> QED BY <2>3, <3>1, EvacuatedPods
  <2> QED BY <1>5, <2>1, <2>2, <2>3, <2>4, PodsOfTable DEF PodsAfter, PodsOf
<1>6. CASE k = 5
  BY <1>6 DEF PodsAfter, PodsAt, PodAt, IdsAt, VersionAt, StatusAt
<1> QED BY <1>1, <1>2, <1>3, <1>4, <1>5, <1>6

LEMMA RollingAlone ==
    ASSUME [GitOpsNext]_gitopsVars PROVE RunRollingUpdate \/ RollingStep \/ UNCHANGED rolling
BY DEF GitOpsNext, gitopsVars, delivery, strategies, watching, EditSettings,
       TriggerTerraformPlan, PlanEnds, TriggerTerraformApply, ApplyEnds,
       TriggerGhaPipeline, AdvancePipeline, PipelineCompletes,
       TriggerArgoSync, SyncEnds, TriggerTrafficLoad, ScalingStep,
       ToggleCanarySimulator, TriggerCanaryAnomaly, CanaryRollsBack,
       SetCanaryWeight, RunBlueGreenDeployment, GreenReplicaSpawned,
       CutoverBlueGreen, CutoverEnds, TriggerAlertRule, TelemetryTick,
       RunReadinessScan, ScanStep

LEMMA RollingKeeps == ASSUME RollingInv, [GitOpsNext]_gitopsVars PROVE RollingInv'
<1>1. CASE RunRollingUpdate
  <2>1. LegacyPods = PodsAt(0)
    BY DEF LegacyPods, PodsAt, IdsAt, PodAt, VersionAt, StatusAt
  <2> QED BY <1>1, <2>1 DEF RunRollingUpdate, RollingInv
<1>2. CASE RollingStep
  <2>1. rolling.step \in 0..5 /\ rolling.pods = PodsAt(rolling.step)
    BY <1>2 DEF RollingStep, RollingInv
  <2>2. /\ rolling'.step = rolling.step + 1
        /\ rolling'.pods = PodsAfter(rolling.step + 1, rolling.pods)
        /\ rolling'.state = IF rolling.step + 1 = 6 THEN "completed" ELSE "updating"
    BY <1>2 DEF RollingStep
  <2>3. rolling'.pods = PodsAt(rolling'.step)
    BY <2>1, <2>2, PodsAfterAt
  <2> QED BY <2>1, <2>2, <2>3 DEF RollingInv
<1>3. CASE UNCHANGED rolling
  BY <1>3 DEF RollingInv
<1> QED BY <1>1, <1>2, <1>3, RollingAlone

-----------------------------------------------------------------------------
(* The canary *)

CanaryType ==
    /\ canary \in [weight : 0..100, running : BOOLEAN, status : CanaryStatuses,
                   error : BOOLEAN]
    /\ rollbacks \in Nat

RunsOnView == canary.running <=> canary.status \in {"active_traffic", "error_detected"}

CanaryInv ==
    /\ CanaryType
    /\ RunsOnView
    /\ canary.status = "error_detected" => rollbacks > 0

CanarySteps ==
    \/ ToggleCanarySimulator \/ TriggerCanaryAnomaly \/ CanaryRollsBack
    \/ \E w \in Weights : SetCanaryWeight(w)
    \/ TelemetryTick

LEMMA CanaryAlone ==
    ASSUME [GitOpsNext]_gitopsVars PROVE CanarySteps \/ UNCHANGED <<canary, rollbacks>>
BY DEF GitOpsNext, gitopsVars, delivery, strategies, watching, CanarySteps, EditSettings,
       TriggerTerraformPlan, PlanEnds, TriggerTerraformApply, ApplyEnds,
       TriggerGhaPipeline, AdvancePipeline, PipelineCompletes,
       TriggerArgoSync, SyncEnds, TriggerTrafficLoad, ScalingStep,
       RunRollingUpdate, RollingStep, RunBlueGreenDeployment,
       GreenReplicaSpawned, CutoverBlueGreen, CutoverEnds, TriggerAlertRule,
       RunReadinessScan, ScanStep

LEMMA CanaryStep == ASSUME CanaryInv, [GitOpsNext]_gitopsVars PROVE CanaryInv'
<1> USE DEF CanaryType, CanaryStatuses, RunsOnView
<1>1. CASE ToggleCanarySimulator
  <2>1. PICK c \in BOOLEAN : c = ~canary.running
    BY DEF CanaryInv
  <2>2. CASE canary.running
    <3>1. canary' = [weight |-> canary.weight, running |-> FALSE,
                     status |-> "idle", error |-> canary.error]
      BY <1>1, <2>2 DEF CanaryInv, ToggleCanarySimulator
    <3> QED BY <1>1, <3>1 DEF CanaryInv, ToggleCanarySimulator
  <2>3. CASE ~canary.running
    <3>1. canary' = [weight |-> canary.weight, running |-> TRUE,
                     status |-> "active_traffic", error |-> canary.error]
      BY <1>1, <2>3 DEF CanaryInv, ToggleCanarySimulator
    <3> QED BY <1>1, <3>1 DEF CanaryInv, ToggleCanarySimulator
  <2> QED BY <2>2, <2>3
<1>2. ASSUME NEW w \in Weights, SetCanaryWeight(w) PROVE CanaryInv'
  <2>1. w \in 0..100
    BY GitOpsAssumption
  <2>2. canary' = [weight |-> w, running |-> canary.running,
                   status |-> canary.status, error |-> canary.error]
    BY <1>2 DEF CanaryInv, SetCanaryWeight
  <2> QED BY <1>2, <2>1, <2>2 DEF CanaryInv, SetCanaryWeight
<1>3. CASE TriggerCanaryAnomaly
  <2>1. canary.running
    BY <1>3 DEF TriggerCanaryAnomaly, AnomalyEnabled
  <2>2. canary' = [weight |-> canary.weight, running |-> canary.running,
                   status |-> "error_detected", error |-> canary.error]
    BY <1>3 DEF CanaryInv, TriggerCanaryAnomaly
  <2>3. rollbacks' \in Nat /\ rollbacks' > 0
    BY <1>3 DEF CanaryInv, TriggerCanaryAnomaly
  <2>4. canary' \in [weight : 0..100, running : BOOLEAN, status : CanaryStatuses,
                     error : BOOLEAN]
    BY <2>2 DEF CanaryInv
  <2>5. canary'.running = canary.running /\ canary'.status = "error_detected"
    BY <2>2
  <2>6. RunsOnView'
    BY <2>1, <2>5
  <2>7. CanaryType'
    BY <2>3, <2>4
  <2>8. canary'.status = "error_detected" => rollbacks' > 0
    BY <2>3
  <2> HIDE DEF CanaryType, CanaryStatuses, RunsOnView
  <2> QED BY <2>6, <2>7, <2>8 DEF CanaryInv
<1>4. CASE CanaryRollsBack
  <2>1. canary' = [weight |-> 0, running |-> FALSE, status |-> "rollbacked",
                   error |-> canary.error]
    BY <1>4 DEF CanaryInv, CanaryRollsBack
  <2>2. rollbacks' = rollbacks - 1 /\ rollbacks' \in Nat
    BY <1>4 DEF CanaryInv, CanaryRollsBack
  <2>3. canary.error \in BOOLEAN
    BY DEF CanaryInv
  <2>4. CanaryType' /\ RunsOnView'
    BY <2>1, <2>2, <2>3
  <2> QED BY <2>1, <2>4 DEF CanaryInv
<1>5. CASE TelemetryTick
  <2>1. PICK e \in BOOLEAN : e = (canary.status = "error_detected")
    OBVIOUS
  <2>2. CASE canary.running
    <3>1. canary' = [weight |-> canary.weight, running |-> canary.running,
                     status |-> canary.status, error |-> e]
      BY <1>5, <2>1, <2>2 DEF CanaryInv, TelemetryTick
    <3>2. rollbacks' = rollbacks
      BY <1>5 DEF TelemetryTick
    <3> QED BY <2>1, <3>1, <3>2 DEF CanaryInv
  <2>3. CASE ~canary.running
    BY <1>5, <2>3 DEF CanaryInv, TelemetryTick
  <2> QED BY <2>2, <2>3
<1>6. CASE UNCHANGED <<canary, rollbacks>>
  BY <1>6 DEF CanaryInv
<1> QED BY <1>1, <1>2, <1>3, <1>4, <1>5, <1>6, CanaryAlone DEF CanarySteps

-----------------------------------------------------------------------------
(* Blue and green *)

\* Green is announced staged with its fourth replica, no sooner.
BlueGreenInv ==
    /\ blueGreen \in [active : {"blue", "green"}, status : BgStatuses,
                      ready : 0..GreenReplicas]
    /\ blueGreen.status = "deploying_green" => blueGreen.ready < GreenReplicas
    /\ blueGreen.status \in {"green_staged", "cutting_over"} =>
         blueGreen.ready = GreenReplicas

BlueGreenSteps ==
    RunBlueGreenDeployment \/ GreenReplicaSpawned \/ CutoverBlueGreen \/ CutoverEnds

LEMMA BlueGreenAlone ==
    ASSUME [GitOpsNext]_gitopsVars PROVE BlueGreenSteps \/ UNCHANGED blueGreen
BY DEF GitOpsNext, gitopsVars, delivery, strategies, watching, BlueGreenSteps,
       EditSettings, TriggerTerraformPlan, PlanEnds, TriggerTerraformApply,
       ApplyEnds, TriggerGhaPipeline, AdvancePipeline, PipelineCompletes,
       TriggerArgoSync, SyncEnds, TriggerTrafficLoad, ScalingStep,
       RunRollingUpdate, RollingStep, ToggleCanarySimulator,
       TriggerCanaryAnomaly, CanaryRollsBack, SetCanaryWeight,
       TriggerAlertRule, TelemetryTick, RunReadinessScan, ScanStep

LEMMA BlueGreenStep == ASSUME BlueGreenInv, [GitOpsNext]_gitopsVars PROVE BlueGreenInv'
<1> USE DEF BlueGreenInv, BgStatuses, GreenReplicas
<1>1. CASE BlueGreenSteps
  <2>1. CASE RunBlueGreenDeployment
    <3>1. blueGreen' = [active |-> blueGreen.active, status |-> "deploying_green",
                        ready |-> 0]
      BY <2>1 DEF RunBlueGreenDeployment
    <3> QED BY <3>1
  <2>2. CASE GreenReplicaSpawned
    <3>1. blueGreen.ready \in 0..3 /\ blueGreen.status = "deploying_green"
      BY <2>2 DEF GreenReplicaSpawned
    <3>2. PICK st \in BgStatuses :
            st = IF blueGreen.ready + 1 = 4 THEN "green_staged" ELSE "deploying_green"
      OBVIOUS
    <3>3. blueGreen' = [active |-> blueGreen.active, status |-> st,
                        ready |-> blueGreen.ready + 1]
      BY <2>2, <3>1, <3>2 DEF GreenReplicaSpawned
    <3> QED BY <3>1, <3>2, <3>3
  <2>3. CASE CutoverBlueGreen
    BY <2>3 DEF CutoverBlueGreen
  <2>4. CASE CutoverEnds
    BY <2>4 DEF CutoverEnds
  <2> QED BY <1>1, <2>1, <2>2, <2>3, <2>4 DEF BlueGreenSteps
<1>2. CASE UNCHANGED blueGreen
  BY <1>2 DEF BlueGreenInv
<1> QED BY <1>1, <1>2, BlueGreenAlone

-----------------------------------------------------------------------------
(* Alerts and the readiness scan *)

WatchInv ==
    /\ alerts \subseteq AlertNames
    /\ scan.done \in 0..ScanSteps
    /\ scan.state = "scanning" => scan.done < ScanSteps

WatchSteps ==
    \/ \E a \in AlertNames : TriggerAlertRule(a)
    \/ RunReadinessScan \/ ScanStep

LEMMA WatchAlone ==
    ASSUME [GitOpsNext]_gitopsVars PROVE WatchSteps \/ UNCHANGED <<alerts, scan>>
BY DEF GitOpsNext, gitopsVars, delivery, strategies, watching, WatchSteps, EditSettings,
       TriggerTerraformPlan, PlanEnds, TriggerTerraformApply, ApplyEnds,
       TriggerGhaPipeline, AdvancePipeline, PipelineCompletes,
       TriggerArgoSync, SyncEnds, TriggerTrafficLoad, ScalingStep,
       RunRollingUpdate, RollingStep, ToggleCanarySimulator,
       TriggerCanaryAnomaly, CanaryRollsBack, SetCanaryWeight,
       RunBlueGreenDeployment, GreenReplicaSpawned, CutoverBlueGreen,
       CutoverEnds, TelemetryTick

LEMMA WatchStep == ASSUME WatchInv, [GitOpsNext]_gitopsVars PROVE WatchInv'
<1>1. CASE WatchSteps
  BY <1>1, GitOpsAssumption
     DEF WatchSteps, WatchInv, TriggerAlertRule, RunReadinessScan, ScanStep
<1>2. CASE UNCHANGED <<alerts, scan>>
  BY <1>2 DEF WatchInv
<1> QED BY <1>1, <1>2, WatchAlone

-----------------------------------------------------------------------------
(* The view *)

Inv ==
    /\ IacInv /\ ArgoInv /\ HpaInv
    /\ RollingInv /\ CanaryInv /\ BlueGreenInv /\ WatchInv

LEMMA InitInv == ASSUME GitOpsInit PROVE Inv
<1> USE DEF GitOpsInit
<1>1. IacInv
  BY GitOpsAssumption DEF IacInv, IacType, IacStates
<1>2. ArgoInv
  <2>1. syncs = <<>>
    OBVIOUS
  <2> QED BY <2>1 DEF ArgoInv, ArgoType, SyncsInv, SyncedMeansLatest, GhaStates,
                      ArgoSyncStates
<1>3. HpaInv
  <2>1. scalings = <<>> /\ Len(scalings) = 0
    OBVIOUS
  <2> QED BY <2>1 DEF HpaInv, HpaType, OneChain, Loads, AutoScaleStatuses
<1>4. RollingInv
  BY DEF RollingInv, LegacyPods, PodsAt, IdsAt, PodAt, VersionAt, StatusAt
<1>5. CanaryInv
  BY DEF CanaryInv, CanaryType, CanaryStatuses, RunsOnView
<1>6. BlueGreenInv
  BY DEF BlueGreenInv, BgStatuses, GreenReplicas
<1>7. WatchInv
  BY GitOpsAssumption DEF WatchInv
<1> QED BY <1>1, <1>2, <1>3, <1>4, <1>5, <1>6, <1>7 DEF Inv

LEMMA StepInv == ASSUME Inv, [GitOpsNext]_gitopsVars PROVE Inv'
BY IacStep, ArgoStep, HpaStep, RollingKeeps, CanaryStep, BlueGreenStep, WatchStep
   DEF Inv

LEMMA InvHolds == GitOpsSpec => []Inv
BY InitInv, StepInv, PTL DEF GitOpsSpec

\* The variables of the view keep their types (GitOpsDashboard.tsx 19-2330).
THEOREM TypeCorrect == GitOpsSpec => []GitOpsTypeOK
<1>1. Inv => GitOpsTypeOK
  BY RollingIsSafe DEF Inv, GitOpsTypeOK, IacInv, IacType, ArgoInv, ArgoType, HpaInv,
                       HpaType, Scaling, CanaryInv, CanaryType, BlueGreenInv,
                       WatchInv
<1> QED BY <1>1, InvHolds, PTL

\* However the timers of the chains interleave with the clicks, the plan, the
\* synchronisation and the replicas on view are current, but for the overlaps
\* that each of the three names.
THEOREM DeliveryStaysCurrent == GitOpsSpec => []DeliveryIsCurrent
<1>1. Inv => DeliveryIsCurrent
  <2>1. ASSUME IacInv PROVE PlansAreCurrent
    BY <2>1 DEF IacInv, PlansAreCurrent
  <2>2. ASSUME ArgoInv PROVE SyncedMeansLatest
    BY <2>2 DEF ArgoInv
  <2>3. ASSUME HpaInv PROVE ReplicasFollowLoad
    BY <2>3 DEF HpaInv, OneChain, ReplicasFollowLoad
  <2> QED BY <2>1, <2>2, <2>3 DEF Inv, DeliveryIsCurrent
<1> QED BY <1>1, InvHolds, PTL

\* No order of clicks and timers takes a roll-out past its guard: the rollback
\* of a canary in error is on its way, a completed rolling update leaves six new
\* pods that serve, and traffic is cut over to four ready replicas.
THEOREM RolloutsStaySafe == GitOpsSpec => []RolloutsAreSafe
<1>1. Inv => RolloutsAreSafe
  BY RollingIsSafe DEF Inv, RolloutsAreSafe, CanaryInv, RunsOnView, BlueGreenInv
<1> QED BY <1>1, InvHolds, PTL

-----------------------------------------------------------------------------
(* The testing view *)

LEMMA TA == Testing!TestingAssumption
BY ConsolesAssumption

LEMMA TestingCounted ==
    ASSUME NEW S
    PROVE  /\ Testing!IsFiniteSet(S) <=> IsFiniteSet(S)
           /\ Testing!Cardinality(S) = Cardinality(S)
<1>1. Testing!IsFiniteSet(S) <=> IsFiniteSet(S)
  BY Zenon DEF Testing!IsFiniteSet, IsFiniteSet
<1>2. Testing!Cardinality(S) = Cardinality(S)
  BY Zenon DEF Testing!Cardinality, Cardinality, Testing!IsFiniteSet, IsFiniteSet
<1> QED BY <1>1, <1>2

LogLine == [from : Suites \cup Testing!Faults \cup {"pipeline"}, number : Int,
            faults : SUBSET Testing!Faults]
RunItem == [suite : Suites, next : Nat, faults : SUBSET Testing!Faults]
NoteItem == [from : Testing!Faults, number : {0, 1}, faults : {{}}]

TestingType ==
    /\ runningSuite \in Suites \cup {None}
    /\ runs \in Seq(RunItem)
    /\ starting \in Nat /\ crossed \in BOOLEAN
    /\ consoleLogs \in Seq(LogLine)
    /\ faults \subseteq Testing!Faults
    /\ notes \in Seq(NoteItem)
    /\ virtualUsers \in UserCounts

\* The first of the newest lines of the suite that runs are those it printed.
RunShown(r) ==
    \A k \in Testing!Printed(r.suite) :
       consoleLogs[k] =
          Testing!Line(r.suite, r.next - Cardinality({l \in Testing!Printed(r.suite) : l >= k}),
               r.faults)

\* The run under way is the only one, and on view.
OnView ==
    /\ runs = <<>> => runningSuite = None
    /\ runs # <<>> => Len(runs) = 1 /\ runningSuite = runs[1].suite /\ RunShown(runs[1])

\* Two runs at a time, or one that outlives the lock, only happen when crossed.
TestingInv ==
    TestingType /\ Testing!LockedByARun /\ (~crossed => OnView) /\ Testing!NotesTellFaults

LEMMA TestingTypeInit == ASSUME Testing!Init PROVE TestingType
<1>1. <<>> \in Seq(RunItem) /\ <<>> \in Seq(LogLine) /\ <<>> \in Seq(NoteItem)
  OBVIOUS
<1>2. SeedUsers \in UserCounts BY TA DEF Testing!TestingAssumption
<1> QED BY <1>1, <1>2 DEF Testing!Init, TestingType

LEMMA TestingTypeStep ==
    ASSUME TestingType, [Testing!Next]_(Testing!vars)
    PROVE  TestingType'
<1> USE DEF TestingType
<1> runs \in Seq(RunItem) /\ consoleLogs \in Seq(LogLine) /\ notes \in Seq(NoteItem)
  OBVIOUS
<1>1. ASSUME NEW s \in Suites, NEW fs \in SUBSET Testing!Faults, Testing!Start(s, fs),
             starting' \in Nat
      PROVE  TestingType'
  <2>1. [suite |-> s, next |-> 1, faults |-> fs] \in RunItem BY DEF RunItem
  <2>2. runs' \in Seq(RunItem) BY <1>1, <2>1 DEF Testing!Start
  <2>3. consoleLogs' \in Seq(LogLine) BY <1>1 DEF Testing!Start
  <2> QED BY <1>1, <2>2, <2>3 DEF Testing!Start, Testing!chaos
<1>2. "unit" \in Suites BY TA DEF Testing!TestingAssumption
<1>3. \A s : Testing!Switches(s) \in SUBSET Testing!Faults BY DEF Testing!Switches
<1>4. ASSUME NEW s \in Suites, Testing!RunTestLogs(s) PROVE TestingType'
  BY <1>1, <1>3, <1>4 DEF Testing!RunTestLogs
<1>5. CASE Testing!RunAllSuites
  <2>1. Testing!Banner \in LogLine BY DEF Testing!Banner, Testing!Line, LogLine
  <2>2. <<Testing!Banner, Testing!Banner>> \in Seq(LogLine) BY <2>1
  <2>3. consoleLogs' \in Seq(LogLine) BY <1>5, <2>2 DEF Testing!RunAllSuites
  <2> QED BY <1>5, <2>3 DEF Testing!RunAllSuites, Testing!chaos
<1>6. CASE Testing!PipelineStarts
  <2>1. starting' \in Nat BY <1>6 DEF Testing!PipelineStarts
  <2> QED BY <1>1, <1>2, <1>3, <1>6, <2>1 DEF Testing!PipelineStarts
<1>7. ASSUME NEW i \in DOMAIN runs, Testing!PrintLine(i) PROVE TestingType'
  <2>1. runs[i] \in RunItem OBVIOUS
  <2>2. Testing!Line(runs[i].suite, runs[i].next, runs[i].faults) \in LogLine
    BY <2>1 DEF Testing!Line, LogLine, RunItem
  <2>3. consoleLogs' \in Seq(LogLine) BY <1>7, <2>2 DEF Testing!PrintLine
  <2>4. PICK r : r = [runs[i] EXCEPT !.next = runs[i].next + 1] OBVIOUS
  <2>5. r \in RunItem
    <3>1. PICK s \in Suites, n \in Nat, fs \in SUBSET Testing!Faults :
            runs[i] = [suite |-> s, next |-> n, faults |-> fs]
      BY <2>1 DEF RunItem
    <3>2. r = [suite |-> s, next |-> n + 1, faults |-> fs] BY <2>4, <3>1
    <3> QED BY <3>2 DEF RunItem
  <2>6. runs' = [runs EXCEPT ![i] = r] BY <1>7, <2>4 DEF Testing!PrintLine
  <2>7. runs' \in Seq(RunItem) BY <2>5, <2>6
  <2> QED BY <1>7, <2>3, <2>7 DEF Testing!PrintLine, Testing!chaos
<1>8. ASSUME NEW i \in DOMAIN runs, Testing!RunEnds(i) PROVE TestingType'
  <2>1. runs' \in Seq(RunItem) BY <1>8 DEF Testing!RunEnds, Testing!RemoveAt
  <2> QED BY <1>8, <2>1 DEF Testing!RunEnds, Testing!chaos
<1>9. CASE Testing!ClearConsole BY <1>9 DEF Testing!ClearConsole, Testing!chaos
<1>10. ASSUME NEW f \in Testing!Faults, Testing!TriggerChaosToggle(f) PROVE TestingType'
  <2>1. PICK n : n = Testing!Note(f, f \notin faults) OBVIOUS
  <2>2. n \in NoteItem /\ n \in LogLine BY <2>1 DEF Testing!Note, NoteItem, LogLine
  <2>3. notes' = <<n>> \o notes /\ consoleLogs' = Append(consoleLogs, n)
    BY <1>10, <2>1 DEF Testing!TriggerChaosToggle
  <2>4. notes' \in Seq(NoteItem) BY <2>2, <2>3
  <2>5. consoleLogs' \in Seq(LogLine) BY <2>2, <2>3
  <2>6. faults' \subseteq Testing!Faults BY <1>10 DEF Testing!TriggerChaosToggle
  <2> QED BY <1>10, <2>4, <2>5, <2>6 DEF Testing!TriggerChaosToggle
<1>11. ASSUME NEW u \in UserCounts, Testing!SetVirtualUsers(u) PROVE TestingType'
  BY <1>11 DEF Testing!SetVirtualUsers
<1>12. CASE UNCHANGED Testing!vars BY <1>12 DEF Testing!vars
<1> QED BY <1>4, <1>5, <1>6, <1>7, <1>8, <1>9, <1>10, <1>11, <1>12 DEF Testing!Next

LEMMA LockStep ==
    ASSUME TestingType, Testing!LockedByARun, [Testing!Next]_(Testing!vars)
    PROVE  Testing!LockedByARun'
<1> USE DEF Testing!LockedByARun
<1> runs \in Seq(RunItem) BY DEF TestingType
<1>1. ASSUME NEW s, NEW fs, Testing!Start(s, fs) PROVE Testing!LockedByARun'
  <2>1. runs' = Append(runs, [suite |-> s, next |-> 1, faults |-> fs])
    BY <1>1 DEF Testing!Start
  <2>2. Len(runs) + 1 \in DOMAIN runs' /\ runs'[Len(runs) + 1].suite = s
    BY <2>1
  <2> QED BY <1>1, <2>2 DEF Testing!Start
<1>2. ASSUME NEW i \in DOMAIN runs, Testing!PrintLine(i) PROVE Testing!LockedByARun'
  <2>1. DOMAIN runs' = DOMAIN runs /\ runningSuite' = runningSuite
    BY <1>2 DEF Testing!PrintLine
  <2>2. \A j \in DOMAIN runs : runs'[j].suite = runs[j].suite
    BY <1>2 DEF Testing!PrintLine, RunItem
  <2> QED BY <2>1, <2>2
<1>3. ASSUME NEW i, Testing!RunEnds(i) PROVE Testing!LockedByARun'
  BY <1>3 DEF Testing!RunEnds
<1> QED
  BY <1>1, <1>2, <1>3 DEF Testing!Next, Testing!vars, Testing!chaos,
       Testing!RunTestLogs, Testing!RunAllSuites,
     Testing!PipelineStarts, Testing!ClearConsole, Testing!TriggerChaosToggle,
     Testing!SetVirtualUsers

LEMMA NotesStep ==
    ASSUME TestingType, Testing!NotesTellFaults, [Testing!Next]_(Testing!vars)
    PROVE  Testing!NotesTellFaults'
<1> notes \in Seq(NoteItem) /\ faults \subseteq Testing!Faults BY DEF TestingType
<1>1. ASSUME NEW f \in Testing!Faults, Testing!TriggerChaosToggle(f)
      PROVE  Testing!NotesTellFaults'
  <2>1. PICK n : n = Testing!Note(f, f \notin faults) OBVIOUS
  <2>2. n.from = f /\ (n = Testing!Note(f, TRUE) <=> f \notin faults)
    <3>1. n = [from |-> f, number |-> IF f \notin faults THEN 1 ELSE 0, faults |-> {}]
      BY <2>1 DEF Testing!Note
    <3>2. (n = Testing!Note(f, TRUE)) <=> n = [from |-> f, number |-> 1, faults |-> {}]
      BY DEF Testing!Note
    <3>3. n.from = f /\ n.number = IF f \notin faults THEN 1 ELSE 0 BY <3>1
    <3>4. CASE f \notin faults
      <4>1. n = [from |-> f, number |-> 1, faults |-> {}] BY <3>1, <3>4
      <4> QED BY Zenon, <4>1, <3>2, <3>3, <3>4
    <3>5. CASE f \in faults
      <4>1. n.number = 0 BY <3>3, <3>5
      <4>2. n # [from |-> f, number |-> 1, faults |-> {}] BY <4>1
      <4> QED BY Zenon, <4>2, <3>2, <3>3, <3>5
    <3> QED BY <3>4, <3>5
  <2>3. n \in NoteItem BY <2>1 DEF Testing!Note, NoteItem
  <2>4. notes' = <<n>> \o notes /\ faults' = IF f \notin faults THEN faults \cup {f}
                                           ELSE faults \ {f}
    BY <1>1, <2>1 DEF Testing!TriggerChaosToggle
  <2>5. /\ DOMAIN notes' = 1..(Len(notes) + 1) /\ notes'[1] = n
        /\ \A k \in DOMAIN notes : notes'[k + 1] = notes[k]
    BY <2>3, <2>4
  <2>6. ASSUME NEW g \in Testing!Faults
        PROVE  g \in faults' <=>
                 \E k \in DOMAIN notes' :
                    notes'[k] = Testing!Note(g, TRUE) /\ \A j \in 1..(k - 1) : notes'[j].from # g
    <3>1. CASE g = f
      <4>1. ASSUME NEW k \in DOMAIN notes', k # 1
            PROVE  ~\A j \in 1..(k - 1) : notes'[j].from # g
        <5>1. 1 \in 1..(k - 1) BY <2>5, <4>1
        <5> QED BY <5>1, <2>2, <2>5, <3>1
      <4>2. 1 \in DOMAIN notes' /\ \A j \in 1..(1 - 1) : FALSE BY <2>5
      <4>3. g \in faults' <=> f \notin faults BY <2>4, <3>1
      <4>4. g \in faults' <=> notes'[1] = Testing!Note(g, TRUE) BY <4>3, <2>2, <2>5, <3>1
      <4> QED BY <4>1, <4>2, <4>4
    <3>2. CASE g # f
      <4>1. g \in faults' <=> g \in faults BY <2>4, <3>2
      <4>2. g \in faults <=>
              \E k \in DOMAIN notes :
                 notes[k] = Testing!Note(g, TRUE) /\ \A j \in 1..(k - 1) : notes[j].from # g
        BY DEF Testing!NotesTellFaults
      <4>3. ASSUME NEW k \in DOMAIN notes, notes[k] = Testing!Note(g, TRUE),
                   \A j \in 1..(k - 1) : notes[j].from # g
            PROVE  /\ k + 1 \in DOMAIN notes' /\ notes'[k + 1] = Testing!Note(g, TRUE)
                   /\ \A j \in 1..((k + 1) - 1) : notes'[j].from # g
        <5>1. k \in Nat /\ k + 1 \in DOMAIN notes' BY <2>5
        <5>2. ASSUME NEW j \in 1..((k + 1) - 1) PROVE notes'[j].from # g
          <6>1. CASE j = 1 BY <6>1, <2>2, <2>5, <3>2
          <6>2. CASE j # 1
            <7>1. j - 1 \in 1..(k - 1) /\ j - 1 \in DOMAIN notes /\ (j - 1) + 1 = j
              BY <5>1, <6>2
            <7> QED BY <7>1, <2>5, <4>3
          <6> QED BY <6>1, <6>2
        <5> QED BY <5>1, <5>2, <2>5, <4>3
      <4>4. ASSUME NEW k \in DOMAIN notes', notes'[k] = Testing!Note(g, TRUE),
                   \A j \in 1..(k - 1) : notes'[j].from # g
            PROVE  /\ k - 1 \in DOMAIN notes /\ notes[k - 1] = Testing!Note(g, TRUE)
                   /\ \A j \in 1..((k - 1) - 1) : notes[j].from # g
        <5>1. k # 1
          <6>1. Testing!Note(g, TRUE).from = g BY DEF Testing!Note
          <6> QED BY <6>1, <2>2, <2>5, <3>2, <4>4
        <5>2. k - 1 \in DOMAIN notes /\ (k - 1) + 1 = k BY <5>1, <2>5
        <5>3. ASSUME NEW j \in 1..((k - 1) - 1) PROVE notes[j].from # g
          <6>1. j \in DOMAIN notes /\ j + 1 \in 1..(k - 1) BY <5>2
          <6> QED BY <6>1, <2>5, <4>4
        <5> QED BY <5>2, <5>3, <2>5, <4>4
      <4> QED BY <4>1, <4>2, <4>3, <4>4
    <3> QED BY <3>1, <3>2
  <2>7. curves' = Testing!Curves(virtualUsers', faults')
    BY <1>1 DEF Testing!TriggerChaosToggle
  <2> QED BY <2>6, <2>7 DEF Testing!NotesTellFaults
<1>2. ASSUME NEW u, Testing!SetVirtualUsers(u) PROVE Testing!NotesTellFaults'
  BY <1>2 DEF Testing!SetVirtualUsers, Testing!NotesTellFaults
<1>3. CASE UNCHANGED Testing!chaos
  BY <1>3 DEF Testing!chaos, Testing!NotesTellFaults
<1> QED
  BY <1>1, <1>2, <1>3 DEF Testing!Next, Testing!vars, Testing!chaos,
       Testing!RunTestLogs, Testing!RunAllSuites,
     Testing!PipelineStarts, Testing!ClearConsole, Testing!PrintLine, Testing!RunEnds,
     Testing!Start

\* A line of another source leaves the lines of a suite as they were.
LEMMA OtherLine ==
    ASSUME TestingType, NEW s \in Suites, NEW l \in LogLine, l.from # s,
           consoleLogs' = Append(consoleLogs, l)
    PROVE  /\ Testing!Printed(s)' = Testing!Printed(s)
           /\ \A k \in Testing!Printed(s) : consoleLogs'[k] = consoleLogs[k]
  BY DEF TestingType, Testing!Printed

LEMMA ViewStep ==
    ASSUME TestingInv, [Testing!Next]_(Testing!vars), ~crossed' PROVE OnView'
<1> TestingType /\ runs \in Seq(RunItem) /\ consoleLogs \in Seq(LogLine)
    /\ (~crossed => OnView)
  BY DEF TestingInv, TestingType
<1>1. ASSUME NEW s \in Suites, NEW fs, Testing!Start(s, fs) PROVE OnView'
  <2>1. runs = <<>> BY <1>1 DEF Testing!Start
  <2>2. runs' = <<[suite |-> s, next |-> 1, faults |-> fs]>>
    BY <1>1, <2>1 DEF Testing!Start
  <2>3. consoleLogs' = <<>> BY <1>1 DEF Testing!Start
  <2>4. \A t : Testing!Printed(t)' = {} BY <2>3 DEF Testing!Printed
  <2>5. Len(runs') = 1 /\ runs' # <<>> /\ runningSuite' = runs'[1].suite
    BY <1>1, <2>2 DEF Testing!Start
  <2> QED BY <2>4, <2>5 DEF OnView, RunShown
<1>2. ASSUME NEW i \in DOMAIN runs, Testing!PrintLine(i) PROVE OnView'
  <2>1. OnView /\ crossed' = crossed BY <1>2 DEF Testing!PrintLine
  <2>2. runs # <<>> /\ Len(runs) = 1 /\ i = 1 /\ RunShown(runs[1])
    BY <2>1 DEF OnView
  <2>3. PICK s \in Suites, n \in Nat, fs \in SUBSET Testing!Faults :
          runs[1] = [suite |-> s, next |-> n, faults |-> fs]
    <3>1. runs[1] \in RunItem BY <2>2
    <3> QED BY <3>1 DEF RunItem
  <2>4. runs' = [runs EXCEPT ![1] = [suite |-> s, next |-> n + 1, faults |-> fs]]
    <3>1. runs' = [runs EXCEPT ![1] = [runs[1] EXCEPT !.next = runs[1].next + 1]]
      BY <1>2, <2>2 DEF Testing!PrintLine
    <3>2. [runs[1] EXCEPT !.next = runs[1].next + 1]
            = [suite |-> s, next |-> n + 1, faults |-> fs]
      BY <2>3
    <3> QED BY <3>1, <3>2
  <2>5. /\ runs' # <<>> /\ Len(runs') = 1
        /\ runs'[1] = [suite |-> s, next |-> n + 1, faults |-> fs]
    BY <2>2, <2>4
  <2>6. PICK l \in LogLine : l = Testing!Line(s, n, fs)
    <3>1. Testing!Line(s, n, fs) \in LogLine BY DEF Testing!Line, LogLine
    <3> QED BY <3>1
  <2>7. consoleLogs' = Append(consoleLogs, l)
    BY <1>2, <2>2, <2>3, <2>6 DEF Testing!PrintLine
  <2>8. PICK m \in Nat : m = Len(consoleLogs) OBVIOUS
  <2>9. /\ \A k \in DOMAIN consoleLogs : consoleLogs'[k] = consoleLogs[k]
        /\ consoleLogs'[m + 1] = l /\ DOMAIN consoleLogs' = 1..(m + 1)
        /\ DOMAIN consoleLogs = 1..m
    BY <2>7, <2>8
  <2>10. l.from = s BY <2>6 DEF Testing!Line
  <2>11. Testing!Printed(s)' = Testing!Printed(s) \cup {m + 1} /\ Testing!Printed(s) \subseteq 1..m
    BY <2>9, <2>10 DEF Testing!Printed
  <2>12. ASSUME NEW k \in Testing!Printed(s)'
         PROVE  consoleLogs'[k] =
                  Testing!Line(s, (n + 1) - Cardinality({j \in Testing!Printed(s)' : j >= k}), fs)
    <3> DEFINE From(q) == {j \in Testing!Printed(s) : j >= q}
    <3>0. From(k) \subseteq 1..m /\ IsFiniteSet(From(k)) /\ k \in 1..(m + 1)
      <4>1. From(k) \subseteq 1..m BY <2>11
      <4>2. k \in 1..(m + 1)
        <5>1. k \in Testing!Printed(s) \/ k = m + 1 BY <2>11
        <5> QED BY <5>1, <2>11
      <4>3. IsFiniteSet(1..m) BY FS_Interval
      <4>4. IsFiniteSet(From(k)) BY <4>1, <4>3, FS_Subset
      <4> QED BY <4>1, <4>2, <4>4
    <3>1. {j \in Testing!Printed(s)' : j >= k} = From(k) \cup {m + 1} BY <2>11, <3>0
    <3>2. Cardinality(From(k)) \in Nat BY <3>0, FS_CardinalityType
    <3>3. m + 1 \notin From(k) BY <3>0
    <3>4. Cardinality({j \in Testing!Printed(s)' : j >= k}) = Cardinality(From(k)) + 1
      BY <3>0, <3>1, <3>3, FS_AddElement
    <3>5. (n + 1) - Cardinality({j \in Testing!Printed(s)' : j >= k}) = n - Cardinality(From(k))
      BY <3>2, <3>4
    <3>6. CASE k = m + 1
      <4>1. From(k) = {} BY <3>6, <3>0
      <4>2. Cardinality(From(k)) = 0 BY <4>1, FS_EmptySet
      <4>3. n - Cardinality(From(k)) = n BY <4>2
      <4> QED BY <3>5, <3>6, <4>3, <2>6, <2>9
    <3>7. CASE k # m + 1
      <4>1. k \in Testing!Printed(s) /\ k \in DOMAIN consoleLogs BY <3>7, <2>9, <2>11
      <4>2. consoleLogs[k] = Testing!Line(s, n - Cardinality(From(k)), fs)
        <5>1. runs[1].suite = s /\ runs[1].next = n /\ runs[1].faults = fs BY <2>3
        <5> QED BY <2>2, <4>1, <5>1 DEF RunShown
      <4> QED BY <3>5, <4>1, <4>2, <2>9
    <3> QED BY <3>6, <3>7
  <2>13. RunShown(runs[1])'
    <3>1. runs'[1].suite = s /\ runs'[1].next = n + 1 /\ runs'[1].faults = fs BY <2>5
    <3> QED BY <2>12, <3>1 DEF RunShown
  <2>14. runningSuite' = runs'[1].suite
    BY <1>2, <2>1, <2>2, <2>3, <2>5 DEF Testing!PrintLine, OnView
  <2> QED BY <2>5, <2>13, <2>14 DEF OnView
<1>3. ASSUME NEW i \in DOMAIN runs, Testing!RunEnds(i) PROVE OnView'
  <2>1. OnView BY <1>3 DEF Testing!RunEnds
  <2>2. Len(runs) = 1 /\ i = 1 BY <2>1 DEF OnView
  <2>3. runs' = <<>> BY <1>3, <2>2 DEF Testing!RunEnds, Testing!RemoveAt
  <2> QED BY <1>3, <2>3 DEF Testing!RunEnds, OnView
<1>4. CASE Testing!RunAllSuites
  <2>1. OnView BY <1>4 DEF Testing!RunAllSuites
  <2>2. runs = <<>>
    <3>1. CASE runs # <<>>
      <4>1. runs[1] \in RunItem BY <3>1
      <4> QED BY <4>1, <2>1, <1>4, TA
          DEF OnView, Testing!RunAllSuites, Testing!SuitesEnabled, RunItem,
               Testing!TestingAssumption
    <3> QED BY <3>1
  <2> QED BY <1>4, <2>1, <2>2 DEF Testing!RunAllSuites, OnView
<1>5. CASE Testing!ClearConsole
  <2>1. OnView BY <1>5 DEF Testing!ClearConsole
  <2>2. \A t : Testing!Printed(t)' = {} BY <1>5 DEF Testing!ClearConsole, Testing!Printed
  <2> QED BY <1>5, <2>1, <2>2 DEF Testing!ClearConsole, OnView, RunShown
<1>6. ASSUME NEW f \in Testing!Faults, Testing!TriggerChaosToggle(f) PROVE OnView'
  <2>1. OnView BY <1>6 DEF Testing!TriggerChaosToggle
  <2>2. PICK l : l = Testing!Note(f, f \notin faults) OBVIOUS
  <2>3. l \in LogLine /\ l.from = f BY <2>2 DEF Testing!Note, LogLine
  <2>4. consoleLogs' = Append(consoleLogs, l) BY <1>6, <2>2 DEF Testing!TriggerChaosToggle
  <2>5. CASE runs # <<>>
    <3>1. runs[1] \in RunItem BY <2>5
    <3>2. PICK s \in Suites : s = runs[1].suite BY <3>1 DEF RunItem
    <3>3. f # s BY TA DEF Testing!TestingAssumption
    <3>4. Testing!Printed(s)' = Testing!Printed(s) /\ \A k \in Testing!Printed(s) : consoleLogs'[k] = consoleLogs[k]
      BY OtherLine, <2>3, <2>4, <3>3
    <3>5. RunShown(runs[1]) BY <2>1, <2>5 DEF OnView
    <3>6. runs' = runs /\ runningSuite' = runningSuite
      BY <1>6 DEF Testing!TriggerChaosToggle
    <3>7. RunShown(runs[1])' BY <3>2, <3>4, <3>5, <3>6 DEF RunShown
    <3> QED BY <2>1, <3>6, <3>7 DEF OnView
  <2> QED BY <1>6, <2>1, <2>5 DEF Testing!TriggerChaosToggle, OnView
<1>7. CASE UNCHANGED <<runs, runningSuite, consoleLogs, crossed>>
  BY <1>7 DEF OnView, RunShown, Testing!Printed
<1>8. "unit" \in Suites BY TA DEF Testing!TestingAssumption
<1> QED
  BY <1>1, <1>2, <1>3, <1>4, <1>5, <1>6, <1>7, <1>8 DEF Testing!Next, Testing!vars,
       Testing!RunTestLogs,
     Testing!PipelineStarts, Testing!SetVirtualUsers

LEMMA SuitesHold ==
    Testing!Spec => [](Testing!TypeOK /\ Testing!LockedByARun /\ Testing!RunsAreOnView /\ Testing!NotesTellFaults)
<1>1. Testing!Init => TestingInv
  <2> SUFFICES ASSUME Testing!Init PROVE TestingInv OBVIOUS
  <2>1. Testing!LockedByARun /\ OnView BY DEF Testing!Init, Testing!LockedByARun, OnView
  <2>2. notes = <<>> /\ faults = {} /\ curves = Testing!Curves(virtualUsers, faults)
    BY DEF Testing!Init
  <2>3. DOMAIN notes = {} BY <2>2
  <2>4. Testing!NotesTellFaults BY <2>2, <2>3 DEF Testing!NotesTellFaults
  <2> QED BY <2>1, <2>4, TestingTypeInit DEF TestingInv
<1>2. TestingInv /\ [Testing!Next]_(Testing!vars) => TestingInv'
  BY TestingTypeStep, LockStep, NotesStep, ViewStep DEF TestingInv
<1>3. TestingInv => Testing!TypeOK /\ Testing!LockedByARun /\ Testing!RunsAreOnView /\ Testing!NotesTellFaults
  <2> SUFFICES ASSUME TestingInv
               PROVE  Testing!TypeOK /\ Testing!LockedByARun /\ Testing!RunsAreOnView /\ Testing!NotesTellFaults
    OBVIOUS
  <2> TestingType /\ Testing!LockedByARun /\ (~crossed => OnView) /\ Testing!NotesTellFaults
    BY DEF TestingInv
  <2>1. Testing!Range(notes) \subseteq {Testing!Note(f, on) : f \in Testing!Faults, on \in BOOLEAN}
    <3> SUFFICES ASSUME NEW k \in DOMAIN notes
                 PROVE  \E f \in Testing!Faults, on \in BOOLEAN : notes[k] = Testing!Note(f, on)
      BY DEF Testing!Range
    <3>1. notes[k] \in NoteItem BY DEF TestingType
    <3>2. notes[k] = Testing!Note(notes[k].from, notes[k].number = 1)
      BY <3>1 DEF NoteItem,
         Testing!Note
    <3> QED BY <3>1, <3>2 DEF NoteItem
  <2>2. Testing!TypeOK BY <2>1 DEF Testing!TypeOK, TestingType, RunItem
  <2>3. ASSUME ~crossed
        PROVE  /\ Len(runs) = (IF runningSuite = None THEN 0 ELSE 1)
               /\ \A i \in DOMAIN runs : RunShown(runs[i])
    <3> runs \in Seq(RunItem) /\ OnView BY <2>3 DEF TestingType
    <3>1. CASE runs = <<>> BY <3>1 DEF OnView
    <3>2. CASE runs # <<>>
      <4>1. runs[1] \in RunItem /\ Len(runs) = 1 /\ runningSuite = runs[1].suite
            /\ RunShown(runs[1])
        BY <3>2 DEF OnView
      <4>2. runningSuite # None BY <4>1, TA DEF RunItem, Testing!TestingAssumption
      <4> QED BY <4>1, <4>2
    <3> QED BY <3>1, <3>2
  <2>4. Testing!RunsAreOnView BY <2>3, TestingCounted DEF Testing!RunsAreOnView, RunShown
  <2> QED BY <2>2, <2>4
<1> QED BY <1>1, <1>2, <1>3, PTL DEF Testing!Spec

\* However suites, their lines and the switches interleave: a locked panel has its
\* run, a run that nothing crossed is on view line for line, and the notes tell the
\* faults (TestingDashboard.tsx:317-530).
THEOREM SuitesStayOnView == Testing!Spec => []SuitesAreOnView
BY SuitesHold, PTL DEF SuitesAreOnView

-----------------------------------------------------------------------------
(* The views of the cluster *)

LEMMA CA == Cluster!ClusterAssumption
BY ConsolesAssumption

LEMMA ClusterCounted ==
    ASSUME NEW S
    PROVE  /\ Cluster!IsFiniteSet(S) <=> IsFiniteSet(S)
           /\ Cluster!Cardinality(S) = Cardinality(S)
<1>1. Cluster!IsFiniteSet(S) <=> IsFiniteSet(S)
  BY Zenon DEF Cluster!IsFiniteSet, IsFiniteSet
<1>2. Cluster!Cardinality(S) = Cardinality(S)
  BY Zenon DEF Cluster!Cardinality, Cardinality, Cluster!IsFiniteSet, IsFiniteSet
<1> QED BY <1>1, <1>2

Less == {p \in Nat \X Nat : p[1] < p[2]}

LEMMA LessIsWellFounded == IsWellFoundedOn(Less, Nat)
  BY NatLessThanWellFounded, Zenon DEF OpToRel, Less

LEMMA LeastNumber ==
    ASSUME NEW T, T \subseteq Nat, T # {}
    PROVE  \E x \in T : \A y \in T : x <= y
  <1>1. PICK x \in T : \A y \in T : ~(<<y, x>> \in Less)
    BY WFMin, LessIsWellFounded
  <1>2. ASSUME NEW y \in T
        PROVE  x <= y
    <2>1. x \in Nat /\ y \in Nat /\ ~(y < x)
      BY <1>1 DEF Less
    <2> QED BY <2>1
  <1> QED BY <1>2

-----------------------------------------------------------------------------

CoreItem == [id : STRING, port : Nat, total : Nat \ {0}]

LEMMA SameLength == ASSUME NEW m \in Nat, NEW n \in Nat, 1..m = 1..n PROVE m = n
<1>1. CASE m < n
  <2>1. n \in 1..n /\ n \notin 1..m BY <1>1
  <2> QED BY <2>1
<1>2. CASE n < m
  <2>1. m \in 1..m /\ m \notin 1..n BY <1>2
  <2> QED BY <2>1
<1> QED BY <1>1, <1>2

Replica == [id : Cluster!Ids, port : Nat, status : Cluster!NodeStatuses, active : Nat,
            total : Cluster!Totals]
Restart == [id : Cluster!Ids, total : Cluster!Totals]
PlayState == [loading : BOOLEAN, status : Cluster!Codes \cup {Cluster!NoAnswer}]
DesignerState ==
    [mode : {"workspace", "generator"}, loading : BOOLEAN, generated : BOOLEAN,
     disk : BOOLEAN, scans : Nat, file : Cluster!WorkspaceFiles \cup Cluster!GeneratedFiles \cup {""},
     crossed : BOOLEAN]

NodesTyped ==
    /\ nodes \in Seq(Replica) /\ nodes # <<>>
    /\ selected \in Cluster!Ids \cup {"api-gateway"}
    /\ restarts \in Seq(Restart)

TrafficTyped ==
    /\ activeTab \in Cluster!Tabs /\ currentWorkload \in WorkloadLevels
    /\ points \in Seq(Cluster!TelemetryPoint) /\ Len(points) <= HistoryCap
    /\ traces \in Seq(Cluster!Trace) /\ Len(traces) <= TraceCap
    /\ opened \in 0..(TraceCap + 1)
    /\ play \in PlayState /\ sends \in Seq(Cluster!Send)

DesignTyped ==
    /\ deployed \in Seq(Names)
    /\ designer \in DesignerState
    /\ builds \in [Builds -> Cluster!Build]

LEMMA TotalsArePositive == Cluster!Totals \subseteq Nat \ {0}
<1>1. Core \in Seq(CoreItem) /\ Pods \in Nat \ {0}
  BY CA DEF Cluster!ClusterAssumption, CoreItem
<1>2. ASSUME NEW i \in DOMAIN Core PROVE Core[i].total \in Nat \ {0}
  <2>1. Core[i] \in CoreItem BY <1>1
  <2> QED BY <2>1 DEF CoreItem
<1> QED BY <1>1, <1>2 DEF Cluster!Totals

LEMMA SelectedIsANode ==
    ASSUME NodesTyped
    PROVE  /\ Cluster!SelectedNode \in Replica
           /\ \E i \in DOMAIN nodes : Cluster!SelectedNode = nodes[i]
<1> DEFINE found == {i \in DOMAIN nodes : nodes[i].id = selected}
<1>1. nodes \in Seq(Replica) /\ nodes # <<>> BY DEF NodesTyped
<1>2. CASE found = {}
  <2>1. Cluster!SelectedNode = nodes[1] BY <1>2 DEF Cluster!SelectedNode
  <2> QED BY <1>1, <2>1
<1>3. CASE found # {}
  <2>1. found \subseteq Nat BY <1>1
  <2>2. \E k \in found : \A j \in found : k <= j BY <2>1, <1>3, LeastNumber
  <2>3. PICK i : i = CHOOSE k \in found : \A j \in found : k <= j OBVIOUS
  <2>4. i \in found BY <2>2, <2>3
  <2>5. Cluster!SelectedNode = nodes[i] BY <1>3, <2>3 DEF Cluster!SelectedNode
  <2> QED BY <1>1, <2>4, <2>5
<1> QED BY <1>2, <1>3

Changed(id, status, active, total) ==
    /\ nodes' \in Seq(Replica) /\ Len(nodes') = Len(nodes)
    /\ DOMAIN nodes' = DOMAIN nodes
    /\ \A i \in DOMAIN nodes :
         /\ nodes'[i].id = nodes[i].id /\ nodes'[i].port = nodes[i].port
         /\ nodes[i].id # id => nodes'[i] = nodes[i]
         /\ nodes[i].id = id =>
              /\ nodes'[i].status = status /\ nodes'[i].active = active
              /\ nodes'[i].total = total

LEMMA NodeUpdated ==
    ASSUME nodes \in Seq(Replica), NEW id, NEW status \in Cluster!NodeStatuses,
           NEW active \in Nat, NEW total \in Cluster!Totals,
           Cluster!HandleUpdateNode(id, status, active, total)
    PROVE  Changed(id, status, active, total)
<1>1. PICK n \in Nat : n = Len(nodes) /\ DOMAIN nodes = 1..n OBVIOUS
<1>2. /\ DOMAIN nodes' = 1..n
      /\ nodes' = [i \in 1..n |->
           IF nodes[i].id = id
           THEN [nodes[i] EXCEPT !.status = status, !.active = active, !.total = total]
           ELSE nodes[i]]
  BY <1>1 DEF Cluster!HandleUpdateNode
<1>3. ASSUME NEW i \in 1..n
      PROVE  /\ nodes'[i] \in Replica
             /\ nodes'[i].id = nodes[i].id /\ nodes'[i].port = nodes[i].port
             /\ nodes[i].id # id => nodes'[i] = nodes[i]
             /\ nodes[i].id = id =>
                  /\ nodes'[i].status = status /\ nodes'[i].active = active
                  /\ nodes'[i].total = total
  <2>1. nodes[i] \in Replica BY <1>1
  <2>2. PICK k \in Cluster!Ids, p \in Nat, s \in Cluster!NodeStatuses, a \in Nat, t \in Cluster!Totals :
          nodes[i] = [id |-> k, port |-> p, status |-> s, active |-> a, total |-> t]
    BY <2>1 DEF Replica
  <2>3. CASE nodes[i].id # id
    <3>1. nodes'[i] = nodes[i] BY <1>2, <2>3
    <3> QED BY <2>1, <2>3, <3>1
  <2>4. CASE nodes[i].id = id
    <3>1. PICK m : m = [nodes[i] EXCEPT !.status = status, !.active = active,
                                        !.total = total]
      OBVIOUS
    <3>2. m = [id |-> k, port |-> p, status |-> status, active |-> active,
               total |-> total]
      <4>1. m = [[id |-> k, port |-> p, status |-> s, active |-> a, total |-> t]
                   EXCEPT !.status = status, !.active = active, !.total = total]
        BY <2>2, <3>1
      <4> QED BY <4>1
    <3>3. nodes'[i] = m BY <1>2, <2>4, <3>1
    <3> QED BY <2>2, <2>4, <3>2, <3>3 DEF Replica
  <2> QED BY <2>3, <2>4
<1>4. nodes' \in [1..n -> Replica] BY <1>2, <1>3
<1>5. nodes' \in Seq(Replica) BY <1>4, SeqDef
<1>6. Len(nodes') = n
  <2>1. Len(nodes') \in Nat /\ DOMAIN nodes' = 1..Len(nodes') BY <1>5
  <2> QED BY <1>2, <2>1, SameLength
<1> QED BY <1>1, <1>2, <1>3, <1>5, <1>6 DEF Changed

\* What each step does to the nodes.
Set(n, status, active) ==
    /\ status \in Cluster!NodeStatuses /\ active \in Nat
    /\ Cluster!HandleUpdateNode(n.id, status, active, n.total)

LEMMA ScaleSets ==
    ASSUME NodesTyped, NEW step \in {-1, 1}, Cluster!HandleScale(step)
    PROVE  \E next \in 1..Cluster!SelectedNode.total :
             Set(Cluster!SelectedNode, IF next = Cluster!SelectedNode.total THEN "HEALTHY"
                               ELSE "DEGRADED", next)
<1>1. PICK n \in Replica : n = Cluster!SelectedNode BY SelectedIsANode
<1>2. n.total \in Nat \ {0} /\ n.active \in Nat
  BY <1>1, TotalsArePositive DEF Replica
<1>3. PICK next \in 1..n.total : next = n.active + step
  BY <1>1, <1>2 DEF Cluster!HandleScale, Cluster!ScaleEnabled
<1>4. Cluster!HandleUpdateNode(n.id, Cluster!ScaledStatus(next, n.total), next, n.total)
  BY <1>1, <1>3 DEF Cluster!HandleScale
<1>5. Cluster!ScaledStatus(next, n.total) = IF next = n.total THEN "HEALTHY" ELSE "DEGRADED"
  <2>1. CASE next = n.total
    <3>1. next # 0 /\ next \notin 1..(n.total - 1) BY <1>2, <2>1
    <3> QED BY <2>1, <3>1 DEF Cluster!ScaledStatus
  <2>2. CASE next # n.total
    <3>1. next # 0 /\ next \in 1..(n.total - 1) BY <1>2, <2>2
    <3> QED BY <2>2, <3>1 DEF Cluster!ScaledStatus
  <2> QED BY <2>1, <2>2
<1>6. next \in Nat BY <1>2
<1>7. Set(n, IF next = n.total THEN "HEALTHY" ELSE "DEGRADED", next)
  BY <1>4, <1>5, <1>6 DEF Set, Cluster!NodeStatuses
<1> QED BY <1>1, <1>7

LEMMA ToggleSets ==
    ASSUME NodesTyped, Cluster!HandleTogglePower
    PROVE  \/ Set(Cluster!SelectedNode, "HEALTHY", Cluster!SelectedNode.total)
           \/ Set(Cluster!SelectedNode, "OFFLINE", 0)
<1>1. Cluster!SelectedNode.total \in Nat
  BY SelectedIsANode, TotalsArePositive DEF Replica
<1>2. CASE Cluster!SelectedNode.status = "OFFLINE"
  BY <1>1, <1>2 DEF Cluster!HandleTogglePower, Set, Cluster!NodeStatuses
<1>3. CASE Cluster!SelectedNode.status # "OFFLINE"
  BY <1>3 DEF Cluster!HandleTogglePower, Set, Cluster!NodeStatuses
<1> QED BY <1>2, <1>3

LEMMA RestartSets ==
    ASSUME Cluster!HandleRestart
    PROVE  Set(Cluster!SelectedNode, "DEGRADED", 1)
  BY DEF Cluster!HandleRestart, Set, Cluster!NodeStatuses

LEMMA RestartEndSets ==
    ASSUME NodesTyped, Cluster!RestartEnds
    PROVE  restarts # <<>> /\ Head(restarts) \in Restart
           /\ Set(Head(restarts), "HEALTHY", Head(restarts).total)
<1>1. restarts # <<>> /\ restarts \in Seq(Restart) BY DEF Cluster!RestartEnds, NodesTyped
<1>2. Head(restarts) \in Restart BY <1>1
<1>3. Head(restarts).total \in Nat BY <1>2, TotalsArePositive DEF Restart
<1>4. Cluster!HandleUpdateNode(Head(restarts).id, "HEALTHY", Head(restarts).total,
                       Head(restarts).total)
  BY DEF Cluster!RestartEnds
<1> QED BY <1>1, <1>2, <1>3, <1>4 DEF Set, Cluster!NodeStatuses

LEMMA SetTyped ==
    ASSUME NodesTyped, NEW n, n.id \in Cluster!Ids, n.total \in Cluster!Totals,
           NEW status, NEW active,
           Set(n, status, active)
    PROVE  Changed(n.id, status, active, n.total) /\ nodes' # <<>>
<1>1. /\ nodes \in Seq(Replica) /\ nodes # <<>>
      /\ Cluster!HandleUpdateNode(n.id, status, active, n.total)
      /\ status \in Cluster!NodeStatuses /\ active \in Nat
  BY DEF NodesTyped, Set
<1>2. Changed(n.id, status, active, n.total) BY <1>1, NodeUpdated
<1>3. nodes' # <<>>
  <2>1. nodes' \in Seq(Replica) /\ Len(nodes') = Len(nodes) BY <1>2 DEF Changed
  <2> QED BY <1>1, <2>1
<1> QED BY <1>2, <1>3

\* A step that sets the replicas of one node to what such a node says.
Steady(status, active, total) ==
    /\ active \in 0..total
    /\ status = "OFFLINE" <=> active = 0
    /\ status = "HEALTHY" => active = total

SetsOneNode ==
    \E n \in [id : Cluster!Ids, total : Cluster!Totals], status \in Cluster!NodeStatuses, active \in Nat :
       /\ Set(n, status, active) /\ Steady(status, active, n.total)
       /\ \/ restarts' = restarts /\ (status = "DEGRADED" => active < n.total)
          \/ restarts' = Append(restarts, n)
          \/ /\ restarts # <<>> /\ n = Head(restarts) /\ restarts' = Tail(restarts)
             /\ status = "HEALTHY"

NodeSteps ==
    \/ \E step \in {-1, 1} : Cluster!HandleScale(step)
    \/ Cluster!HandleTogglePower \/ Cluster!HandleRestart \/ Cluster!RestartEnds

LEMMA NodeStepsSet == ASSUME NodesTyped, NodeSteps PROVE SetsOneNode
<1>1. PICK n \in Replica : n = Cluster!SelectedNode BY SelectedIsANode
<1>2. PICK k \in Cluster!Ids, t \in Cluster!Totals : k = n.id /\ t = n.total
  BY <1>1 DEF Replica
<1>3. PICK m \in [id : Cluster!Ids, total : Cluster!Totals] : m = [id |-> k, total |-> t] OBVIOUS
<1>4. m.id = n.id /\ m.total = n.total BY <1>2, <1>3
<1>5. t \in Nat \ {0} BY <1>2, TotalsArePositive
<1>6. \A s, a : Set(n, s, a) <=> Set(m, s, a) BY <1>4 DEF Set
<1>7. ASSUME NEW step \in {-1, 1}, Cluster!HandleScale(step) PROVE SetsOneNode
  <2>1. PICK next \in 1..n.total :
          Set(n, IF next = n.total THEN "HEALTHY" ELSE "DEGRADED", next)
    BY <1>1, <1>7, ScaleSets
  <2>2. PICK s \in Cluster!NodeStatuses : s = IF next = n.total THEN "HEALTHY" ELSE "DEGRADED"
    BY DEF Cluster!NodeStatuses
  <2>3. next \in Nat /\ next \in 1..t BY <1>2, <1>5
  <2>4. Set(m, s, next) BY <1>6, <2>1, <2>2
  <2>5. Steady(s, next, t) BY <1>2, <1>5, <2>2, <2>3 DEF Steady
  <2>6. s = "DEGRADED" => next < t BY <1>2, <1>5, <2>2, <2>3
  <2>7. restarts' = restarts BY <1>7 DEF Cluster!HandleScale
  <2> QED BY <1>2, <1>4, <2>3, <2>4, <2>5, <2>6, <2>7 DEF SetsOneNode
<1>8. CASE Cluster!HandleTogglePower
  <2>1. restarts' = restarts BY <1>8 DEF Cluster!HandleTogglePower
  <2>2. CASE Set(n, "HEALTHY", n.total)
    <3>1. Set(m, "HEALTHY", t) BY <1>2, <1>6, <2>2
    <3>2. Steady("HEALTHY", t, t) BY <1>5 DEF Steady
    <3>3. "HEALTHY" \in Cluster!NodeStatuses BY DEF Cluster!NodeStatuses
    <3> QED BY <1>2, <1>4, <1>5, <2>1, <3>1, <3>2, <3>3 DEF SetsOneNode
  <2>3. CASE Set(n, "OFFLINE", 0)
    <3>1. Set(m, "OFFLINE", 0) BY <1>6, <2>3
    <3>2. Steady("OFFLINE", 0, t) BY <1>5 DEF Steady
    <3>3. "OFFLINE" \in Cluster!NodeStatuses BY DEF Cluster!NodeStatuses
    <3> QED BY <1>2, <1>4, <2>1, <3>1, <3>2, <3>3 DEF SetsOneNode
  <2> QED BY <1>1, <1>8, <2>2, <2>3, ToggleSets
<1>9. CASE Cluster!HandleRestart
  <2>1. Set(m, "DEGRADED", 1) BY <1>1, <1>6, <1>9, RestartSets
  <2>2. Steady("DEGRADED", 1, t) BY <1>5 DEF Steady
  <2>3. restarts' = Append(restarts, m)
    BY <1>1, <1>2, <1>3, <1>9 DEF Cluster!HandleRestart
  <2>4. "DEGRADED" \in Cluster!NodeStatuses BY DEF Cluster!NodeStatuses
  <2> QED BY <1>2, <1>4, <2>1, <2>2, <2>3, <2>4 DEF SetsOneNode
<1>10. CASE Cluster!RestartEnds
  <2>1. PICK r \in Restart : r = Head(restarts) BY <1>10, RestartEndSets
  <2>2. restarts # <<>> /\ Set(r, "HEALTHY", r.total)
    BY <1>10, <2>1, RestartEndSets
  <2>3. r \in [id : Cluster!Ids, total : Cluster!Totals] BY DEF Restart
  <2>4. r.total \in Nat \ {0} BY TotalsArePositive DEF Restart
  <2>5. Steady("HEALTHY", r.total, r.total) BY <2>4 DEF Steady
  <2>6. restarts' = Tail(restarts) BY <1>10 DEF Cluster!RestartEnds
  <2>7. "HEALTHY" \in Cluster!NodeStatuses BY DEF Cluster!NodeStatuses
  <2> QED BY <2>1, <2>2, <2>3, <2>4, <2>5, <2>6, <2>7 DEF SetsOneNode
<1> QED BY <1>7, <1>8, <1>9, <1>10 DEF NodeSteps

LEMMA OtherSteps ==
    ASSUME [Cluster!Next]_(Cluster!vars)
    PROVE  \/ NodeSteps
           \/ \E b \in Builds : Cluster!BuildDeploys(b)
           \/ UNCHANGED <<nodes, restarts>>
  BY DEF Cluster!Next, NodeSteps, Cluster!vars, Cluster!app, Cluster!views,
       Cluster!SetActiveTab, Cluster!TelemetryTick, Cluster!SetWorkload,
     Cluster!SelectTrace, Cluster!SelectNode, Cluster!Topology,
     Cluster!HandleSendRequest, Cluster!RequestAnswered, Cluster!Designer,
     Cluster!Rescan, Cluster!ScanAnswers, Cluster!ScanFails, Cluster!ShowWorkspace,
     Cluster!ShowGenerator, Cluster!SelectFile,
     Cluster!HandleGenerateService, Cluster!BuildAnswered, Cluster!BuildFails

LEMMA Deployed ==
    ASSUME NodesTyped, DesignTyped, NEW b \in Builds, Cluster!BuildDeploys(b)
    PROVE  \E n \in Replica :
             /\ nodes' = Append(nodes, n) /\ restarts' = restarts
             /\ n.id = Slug[builds[b].name] /\ n.port = BasePort + builds[b].size
             /\ n.status = "HEALTHY" /\ n.active = n.total /\ n.total = Pods
<1>1. builds[b] \in Cluster!Build BY DEF DesignTyped
<1>2. PICK name \in Names, size \in Cluster!Sizes :
        name = builds[b].name /\ size = builds[b].size
  BY <1>1 DEF Cluster!Build
<1>3. PICK n : n = Cluster!NewNode(name, size) OBVIOUS
<1>4. size \in Nat BY DEF Cluster!Sizes
<1>5. BasePort \in Nat /\ Pods \in Nat BY CA DEF Cluster!ClusterAssumption
<1>6. Slug[name] \in Cluster!Ids /\ Pods \in Cluster!Totals BY DEF Cluster!Ids,
     Cluster!Totals
<1>7. n \in Replica
  BY <1>3, <1>4, <1>5, <1>6 DEF Cluster!NewNode, Replica, Cluster!NodeStatuses
<1>8. nodes' = Append(nodes, n) BY <1>2, <1>3 DEF Cluster!BuildDeploys,
     Cluster!HandleDeployService
<1> QED BY <1>2, <1>3, <1>7, <1>8 DEF Cluster!BuildDeploys, Cluster!NewNode

LEMMA NodesTypedStep ==
    ASSUME NodesTyped, DesignTyped, [Cluster!Next]_(Cluster!vars) PROVE NodesTyped'
<1>1. nodes' \in Seq(Replica) /\ nodes' # <<>> /\ restarts' \in Seq(Restart)
  <2> nodes \in Seq(Replica) /\ nodes # <<>> /\ restarts \in Seq(Restart)
    BY DEF NodesTyped
  <2>1. CASE SetsOneNode
    <3>1. PICK n \in [id : Cluster!Ids, total : Cluster!Totals], status \in Cluster!NodeStatuses, active \in Nat :
            /\ Set(n, status, active)
            /\ \/ restarts' = restarts
               \/ restarts' = Append(restarts, n)
               \/ restarts # <<>> /\ restarts' = Tail(restarts)
      BY <2>1 DEF SetsOneNode
    <3>2. n \in Restart /\ n.id \in Cluster!Ids /\ n.total \in Cluster!Totals
      BY <3>1 DEF Restart
    <3>3. nodes' \in Seq(Replica) /\ nodes' # <<>>
      BY <3>1, <3>2, SetTyped DEF Changed
    <3>4. restarts' \in Seq(Restart)
      <4>1. CASE restarts' = restarts BY <4>1
      <4>2. CASE restarts' = Append(restarts, n) BY <3>2, <4>2
      <4>3. CASE restarts # <<>> /\ restarts' = Tail(restarts) BY <4>3
      <4> QED BY <3>1, <4>1, <4>2, <4>3
    <3> QED BY <3>3, <3>4
  <2>2. ASSUME NEW b \in Builds, Cluster!BuildDeploys(b)
        PROVE  nodes' \in Seq(Replica) /\ nodes' # <<>> /\ restarts' \in Seq(Restart)
    <3>1. PICK n \in Replica : nodes' = Append(nodes, n) /\ restarts' = restarts
      BY <2>2, Deployed
    <3> QED BY <3>1
  <2> QED BY <2>1, <2>2, OtherSteps, NodeStepsSet
<1>2. selected' \in Cluster!Ids \cup {"api-gateway"}
  <2> selected \in Cluster!Ids \cup {"api-gateway"} BY DEF NodesTyped
  <2> QED
    BY DEF Cluster!Next, NodeSteps, Cluster!vars, Cluster!app, Cluster!views,
         Cluster!SetActiveTab, Cluster!Mount, Cluster!TelemetryTick,
     Cluster!SetWorkload, Cluster!SelectTrace, Cluster!SelectNode, Cluster!Topology,
     Cluster!HandleSendRequest,
     Cluster!RequestAnswered, Cluster!Designer, Cluster!Rescan, Cluster!ScanAnswers,
     Cluster!ScanFails, Cluster!ShowWorkspace,
     Cluster!ShowGenerator, Cluster!SelectFile, Cluster!HandleGenerateService,
     Cluster!BuildAnswered, Cluster!BuildFails,
     Cluster!BuildDeploys, Cluster!HandleScale, Cluster!HandleTogglePower,
     Cluster!HandleRestart, Cluster!RestartEnds
<1> QED BY <1>1, <1>2 DEF NodesTyped

-----------------------------------------------------------------------------

LEMMA ErrorRateTyped ==
    ASSUME NodesTyped
    PROVE  Cluster!ErrorRate \in Cluster!TelemetryPoint
<1>1. Cluster!Offline \in Nat
  <2> DEFINE Off == {i \in DOMAIN nodes : nodes[i].status = "OFFLINE"}
  <2>1. Off \subseteq 1..Len(nodes) BY DEF NodesTyped
  <2>2. IsFiniteSet(Off)
    <3>1. Len(nodes) \in Nat BY DEF NodesTyped
    <3> QED BY <2>1, <3>1, FS_Interval, FS_Subset
  <2> QED BY <2>2, FS_CardinalityType, ClusterCounted DEF Cluster!Offline
<1>2. Cluster!AtMost(25 * Cluster!Offline, 100) \in {100} \cup {25 * k : k \in 0..3}
  <2>1. CASE 25 * Cluster!Offline < 100
    <3>1. Cluster!Offline \in 0..3 BY <1>1, <2>1
    <3> QED BY <2>1, <3>1 DEF Cluster!AtMost
  <2>2. CASE ~(25 * Cluster!Offline < 100) BY <2>2 DEF Cluster!AtMost
  <2> QED BY <2>1, <2>2
<1> QED BY <1>2 DEF Cluster!ErrorRate, Cluster!TelemetryPoint

LEMMA TraceKept ==
    ASSUME TrafficTyped, NEW trace \in Cluster!Trace, Cluster!NewTrace(trace)
    PROVE  /\ traces' \in Seq(Cluster!Trace) /\ Len(traces') <= TraceCap
           /\ opened' \in 0..(TraceCap + 1)
<1>1. TraceCap \in Nat \ {0} BY CA DEF Cluster!ClusterAssumption
<1>2. traces \in Seq(Cluster!Trace) /\ Len(traces) <= TraceCap /\ Len(traces) \in Nat
  BY DEF TrafficTyped
<1>3. PICK m \in 0..Len(traces) : m = Cluster!AtMost(Len(traces), TraceCap - 1) /\ m <= TraceCap - 1
  BY <1>1, <1>2 DEF Cluster!AtMost
<1>4. SubSeq(traces, 1, m) \in Seq(Cluster!Trace) /\ Len(SubSeq(traces, 1, m)) = m
  BY <1>2, <1>3
<1>5. traces' = <<trace>> \o SubSeq(traces, 1, m) BY <1>3 DEF Cluster!NewTrace
<1>6. traces' \in Seq(Cluster!Trace) /\ Len(traces') = 1 + m BY <1>4, <1>5
<1>7. opened' \in 0..(TraceCap + 1)
  <2>1. opened \in 0..(TraceCap + 1) /\ opened' = IF opened \in 1..TraceCap
                                                  THEN opened + 1 ELSE opened
    BY DEF TrafficTyped, Cluster!NewTrace
  <2> QED BY <2>1, <1>1
<1> QED BY <1>1, <1>3, <1>6, <1>7

LEMMA PointKept ==
    ASSUME NodesTyped, TrafficTyped, Cluster!TelemetryTick
    PROVE  points' \in Seq(Cluster!TelemetryPoint) /\ Len(points') <= HistoryCap
<1>1. HistoryCap \in Nat \ {0} BY CA DEF Cluster!ClusterAssumption
<1>2. points \in Seq(Cluster!TelemetryPoint) /\ Len(points) \in Nat BY DEF TrafficTyped
<1>3. PICK m \in 0..Len(points) :
        m = Cluster!AtMost(Len(points), HistoryCap - 1) /\ m <= HistoryCap - 1
  BY <1>1, <1>2 DEF Cluster!AtMost
<1>4. PICK kept : kept = SubSeq(points, Len(points) - m + 1, Len(points))
  OBVIOUS
<1>5. kept \in Seq(Cluster!TelemetryPoint) /\ Len(kept) = m
  <2>1. Len(points) - m + 1 \in 1..(Len(points) + 1) BY <1>2, <1>3
  <2>2. kept \in Seq(Cluster!TelemetryPoint) BY <1>2, <1>4, <2>1
  <2>3. Len(kept) = IF Len(points) - m + 1 <= Len(points)
                    THEN Len(points) - (Len(points) - m + 1) + 1 ELSE 0
    BY <1>2, <1>4, <2>1
  <2> QED BY <1>2, <1>3, <2>2, <2>3
<1>6. points' = Append(kept, Cluster!ErrorRate) BY <1>3, <1>4 DEF Cluster!TelemetryTick
<1>7. points' \in Seq(Cluster!TelemetryPoint) /\ Len(points') = m + 1
  BY <1>5, <1>6, ErrorRateTyped
<1> QED BY <1>1, <1>3, <1>7

LEMMA StatusTyped ==
    ASSUME NEW get, NEW positive
    PROVE  Cluster!TraceStatus(get, positive) \in Cluster!Codes
  BY DEF Cluster!TraceStatus, Cluster!Codes

LEMMA AnswerTyped ==
    ASSUME NEW e, NEW a, NEW p
    PROVE  Cluster!Answer(e, a, p) \in Cluster!Codes
<1>1. CASE e # "POST /transactions" BY <1>1 DEF Cluster!Answer, Cluster!Codes
<1>2. CASE e = "POST /transactions" /\ a
  <2>1. Cluster!Answer(e, a, p) = IF p THEN 201 ELSE 422 BY Zenon, <1>2 DEF Cluster!Answer
  <2> QED BY <2>1 DEF Cluster!Codes
<1>3. CASE e = "POST /transactions" /\ ~a
  <2>1. Cluster!Answer(e, a, p) = 401 BY Zenon, <1>3 DEF Cluster!Answer
  <2> QED BY <2>1 DEF Cluster!Codes
<1> QED BY <1>1, <1>2, <1>3

LEMMA SpansTyped ==
    ASSUME NEW get, NEW status
    PROVE  Cluster!TraceSpans(get, status) \subseteq Cluster!Services
  BY DEF Cluster!TraceSpans, Cluster!Services

LEMMA TrafficTypedStep ==
    ASSUME NodesTyped, TrafficTyped, [Cluster!Next]_(Cluster!vars) PROVE TrafficTyped'
<1> USE DEF TrafficTyped
<1>1. ASSUME NEW t \in Cluster!Tabs, Cluster!SetActiveTab(t) PROVE TrafficTyped'
  <2>1. play' \in PlayState
    BY <1>1 DEF Cluster!SetActiveTab, Cluster!Mount, Cluster!NewPlay, PlayState,
         Cluster!NoAnswer
  <2>2. opened' \in 0..(TraceCap + 1)
    <3>1. TraceCap \in Nat \ {0} BY CA DEF Cluster!ClusterAssumption
    <3>2. opened' = IF t = "tracing" THEN 1 ELSE 0 BY <1>1 DEF Cluster!SetActiveTab,
         Cluster!Mount
    <3> QED BY <3>1, <3>2
  <2>3. sends' \in Seq(Cluster!Send)
    <3>1. PICK n \in Nat : DOMAIN sends = 1..n OBVIOUS
    <3>2. ASSUME NEW i \in 1..n PROVE [sends[i] EXCEPT !.own = FALSE] \in Cluster!Send
      <4>1. sends[i] \in Cluster!Send BY <3>1
      <4> QED BY <4>1 DEF Cluster!Send
    <3>3. sends' = [i \in 1..n |-> [sends[i] EXCEPT !.own = FALSE]]
      BY <1>1, <3>1 DEF Cluster!SetActiveTab
    <3>4. sends' \in [1..n -> Cluster!Send] BY <3>2, <3>3
    <3> QED BY <3>4, SeqDef
  <2> QED BY <1>1, <2>1, <2>2, <2>3 DEF Cluster!SetActiveTab, Cluster!app
<1>2. CASE Cluster!TelemetryTick
  <2>1. traces' \in Seq(Cluster!Trace) /\ Len(traces') <= TraceCap
        /\ opened' \in 0..(TraceCap + 1)
    <3>1. CASE UNCHANGED <<traces, opened>> BY <3>1
    <3>2. ASSUME NEW s \in Cluster!BackgroundStatuses, Cluster!NewTrace(Cluster!BackgroundTrace(s))
          PROVE  traces' \in Seq(Cluster!Trace) /\ Len(traces') <= TraceCap
                 /\ opened' \in 0..(TraceCap + 1)
      <4>1. s \in Cluster!Codes BY DEF Cluster!BackgroundStatuses, Cluster!Codes
      <4>2. Cluster!BackgroundTrace(s) \in Cluster!Trace
        BY <4>1 DEF Cluster!BackgroundTrace, Cluster!Trace, Cluster!Services,
             Cluster!NoAnswer
      <4> QED BY <3>2, <4>2, TraceKept
    <3> QED BY <1>2, <3>1, <3>2 DEF Cluster!TelemetryTick
  <2> QED BY <1>2, <2>1, PointKept DEF Cluster!TelemetryTick
<1>3. ASSUME NEW w \in WorkloadLevels, Cluster!SetWorkload(w) PROVE TrafficTyped'
  BY <1>3 DEF Cluster!SetWorkload, Cluster!views
<1>4. ASSUME NEW i \in DOMAIN traces, Cluster!SelectTrace(i) PROVE TrafficTyped'
  <2>1. opened' \in 0..(TraceCap + 1)
    <3>1. TraceCap \in Nat \ {0} BY CA DEF Cluster!ClusterAssumption
    <3>2. i \in 1..Len(traces) /\ Len(traces) \in Nat OBVIOUS
    <3> QED BY <1>4, <3>1, <3>2 DEF Cluster!SelectTrace
  <2> QED BY <1>4, <2>1 DEF Cluster!SelectTrace, Cluster!app
<1>5. ASSUME NEW e \in Offered, NEW a \in BOOLEAN, NEW p \in BOOLEAN,
             Cluster!HandleSendRequest(e, a, p)
      PROVE  TrafficTyped'
  <2>1. PICK answer \in Cluster!Codes : answer = Cluster!Answer(e, a, p)
    BY AnswerTyped
  <2>2. PICK status \in Cluster!Codes : status = Cluster!TraceStatus(Cluster!IsGet(e), p)
    BY StatusTyped
  <2>3. PICK spans \in SUBSET Cluster!Services : spans = Cluster!TraceSpans(Cluster!IsGet(e), status)
    BY SpansTyped
  <2>4. PICK s : s = [own |-> TRUE, answer |-> answer,
                      trace |-> [status |-> status, spans |-> spans,
                                 answer |-> answer]]
    OBVIOUS
  <2>5. s \in Cluster!Send BY <2>4 DEF Cluster!Send, Cluster!Trace
  <2>6. sends' = Append(sends, s)
    BY <1>5, <2>1, <2>2, <2>3, <2>4 DEF Cluster!HandleSendRequest
  <2>7. sends' \in Seq(Cluster!Send) BY <2>5, <2>6
  <2>8. play' \in PlayState BY <1>5 DEF Cluster!HandleSendRequest, PlayState,
       Cluster!NoAnswer
  <2> QED BY <1>5, <2>7, <2>8 DEF Cluster!HandleSendRequest
<1>6. CASE Cluster!RequestAnswered
  <2>1. PICK s \in Cluster!Send : s = Head(sends) BY <1>6 DEF Cluster!RequestAnswered
  <2>2. s.trace \in Cluster!Trace /\ s.answer \in Cluster!Codes BY DEF Cluster!Send
  <2>3. sends' \in Seq(Cluster!Send) BY <1>6 DEF Cluster!RequestAnswered
  <2>4. Cluster!NewTrace(s.trace) BY <1>6, <2>1 DEF Cluster!RequestAnswered
  <2>5. play' \in PlayState
    <3>1. play' = play \/ play' = [loading |-> FALSE, status |-> s.answer]
      BY <1>6, <2>1 DEF Cluster!RequestAnswered
    <3>2. play \in PlayState OBVIOUS
    <3>3. [loading |-> FALSE, status |-> s.answer] \in PlayState
      BY <2>2 DEF PlayState
    <3> QED BY <3>1, <3>2, <3>3
  <2>6. /\ traces' \in Seq(Cluster!Trace) /\ Len(traces') <= TraceCap
        /\ opened' \in 0..(TraceCap + 1)
    BY <2>2, <2>4, TraceKept
  <2> QED BY <1>6, <2>3, <2>5, <2>6 DEF Cluster!RequestAnswered
<1>7. CASE UNCHANGED <<activeTab, currentWorkload, points, traces, opened, play, sends>>
  BY <1>7
<1> QED
  BY <1>1, <1>2, <1>3, <1>4, <1>5, <1>6, <1>7 DEF Cluster!Next, Cluster!vars,
       Cluster!app, Cluster!views, Cluster!SelectNode,
     Cluster!Topology, Cluster!HandleScale, Cluster!HandleTogglePower,
     Cluster!HandleRestart, Cluster!RestartEnds, Cluster!Designer,
     Cluster!Rescan, Cluster!ScanAnswers, Cluster!ScanFails, Cluster!ShowWorkspace,
     Cluster!ShowGenerator, Cluster!SelectFile,
     Cluster!HandleGenerateService, Cluster!BuildAnswered, Cluster!BuildFails,
     Cluster!BuildDeploys

-----------------------------------------------------------------------------
(* The status of a node *)

Waits(id, pending) == \E k \in DOMAIN pending : pending[k].id = id

\* The status of n tells its pods, or a restart that is pending will set it.
Told(n, pending) ==
    /\ Steady(n.status, n.active, n.total)
    /\ n.status = "DEGRADED" /\ n.active = n.total => Waits(n.id, pending)

LEMMA ToldStep ==
    ASSUME NodesTyped, DesignTyped, \A i \in DOMAIN nodes : Told(nodes[i], restarts), [Cluster!Next]_(Cluster!vars)
    PROVE  \A i \in DOMAIN nodes' : Told(nodes'[i], restarts')
<1> nodes \in Seq(Replica) /\ restarts \in Seq(Restart) BY DEF NodesTyped
<1>1. CASE SetsOneNode
  <2>1. PICK n \in [id : Cluster!Ids, total : Cluster!Totals], status \in Cluster!NodeStatuses, active \in Nat :
          /\ Set(n, status, active) /\ Steady(status, active, n.total)
          /\ \/ restarts' = restarts /\ (status = "DEGRADED" => active < n.total)
             \/ restarts' = Append(restarts, n)
             \/ /\ restarts # <<>> /\ n = Head(restarts) /\ restarts' = Tail(restarts)
                /\ status = "HEALTHY"
    BY <1>1 DEF SetsOneNode
  <2>2. n.id \in Cluster!Ids /\ n.total \in Cluster!Totals /\ n.total \in Nat /\ n \in Restart
    BY TotalsArePositive DEF Restart
  <2>3. Changed(n.id, status, active, n.total) BY <2>1, <2>2, SetTyped
  <2>4. ASSUME NEW id, Waits(id, restarts),
               id # n.id \/ restarts' = restarts \/ restarts' = Append(restarts, n)
        PROVE  Waits(id, restarts')
    <3>1. PICK k \in DOMAIN restarts : restarts[k].id = id BY <2>4 DEF Waits
    <3>2. CASE restarts' = restarts BY <3>1, <3>2 DEF Waits
    <3>3. CASE restarts' = Append(restarts, n)
      <4>1. k \in DOMAIN restarts' /\ restarts'[k] = restarts[k]
        BY <2>2, <3>1, <3>3
      <4> QED BY <3>1, <4>1 DEF Waits
    <3>4. CASE /\ restarts # <<>> /\ n = Head(restarts) /\ restarts' = Tail(restarts)
               /\ id # n.id
      <4>1. k # 1 BY <3>1, <3>4
      <4>2. k - 1 \in DOMAIN restarts' /\ restarts'[k - 1] = restarts[k]
        BY <3>1, <3>4, <4>1
      <4> QED BY <3>1, <4>2 DEF Waits
    <3> QED BY <2>1, <2>4, <3>2, <3>3, <3>4
  <2>5. ASSUME NEW i \in DOMAIN nodes PROVE Told(nodes'[i], restarts')
    <3>1. CASE nodes[i].id # n.id
      <4>1. nodes'[i] = nodes[i] /\ nodes[i] \in Replica BY <2>3, <3>1 DEF Changed
      <4>2. Told(nodes[i], restarts) OBVIOUS
      <4>3. Waits(nodes[i].id, restarts) => Waits(nodes[i].id, restarts') BY <2>4, <3>1
      <4>4. Steady(nodes'[i].status, nodes'[i].active, nodes'[i].total)
        BY <4>1, <4>2 DEF Told
      <4>5. nodes'[i].status = "DEGRADED" /\ nodes'[i].active = nodes'[i].total
              => Waits(nodes'[i].id, restarts')
        BY <4>1, <4>2, <4>3 DEF Told
      <4> QED BY <4>4, <4>5 DEF Told
    <3>2. CASE nodes[i].id = n.id
      <4>1. /\ nodes'[i].status = status /\ nodes'[i].active = active
            /\ nodes'[i].total = n.total /\ nodes'[i].id = n.id
        BY <2>3, <3>2 DEF Changed
      <4>2. Steady(nodes'[i].status, nodes'[i].active, nodes'[i].total)
        BY <2>1, <4>1
      <4>3. ASSUME status = "DEGRADED", active = n.total PROVE Waits(n.id, restarts')
        <5>1. restarts' = Append(restarts, n) BY <2>1, <2>2, <4>3
        <5>2. Len(restarts) + 1 \in DOMAIN restarts' /\ restarts'[Len(restarts) + 1] = n
          BY <2>2, <5>1
        <5> QED BY <5>2 DEF Waits
      <4> QED BY <4>1, <4>2, <4>3 DEF Told
    <3> QED BY <3>1, <3>2
  <2>6. DOMAIN nodes' = DOMAIN nodes BY <2>3 DEF Changed
  <2> QED BY <2>5, <2>6
<1>2. ASSUME NEW b \in Builds, Cluster!BuildDeploys(b)
      PROVE  \A i \in DOMAIN nodes' : Told(nodes'[i], restarts')
  <2>1. PICK n \in Replica :
          /\ nodes' = Append(nodes, n) /\ restarts' = restarts
          /\ n.status = "HEALTHY" /\ n.active = n.total /\ n.total = Pods
    BY <1>2, Deployed
  <2>2. n.total \in Nat \ {0} BY TotalsArePositive DEF Replica
  <2>3. Told(n, restarts')
    <3>1. Steady(n.status, n.active, n.total) BY <2>1, <2>2 DEF Steady
    <3> QED BY <2>1, <3>1 DEF Told
  <2>4. ASSUME NEW i \in DOMAIN nodes' PROVE Told(nodes'[i], restarts')
    <3>1. CASE i \in DOMAIN nodes
      <4>1. nodes'[i] = nodes[i] BY <2>1, <3>1
      <4>2. Told(nodes[i], restarts) BY <3>1
      <4> QED BY <2>1, <4>1, <4>2 DEF Told, Waits
    <3>2. CASE i \notin DOMAIN nodes
      <4>1. nodes'[i] = n BY <2>1, <3>2
      <4> QED BY <2>3, <4>1 DEF Told, Waits
    <3> QED BY <3>1, <3>2
  <2> QED BY <2>4
<1>3. CASE UNCHANGED <<nodes, restarts>> BY <1>3 DEF Told, Waits
<1> QED BY <1>1, <1>2, <1>3, OtherSteps, NodeStepsSet

-----------------------------------------------------------------------------
(* What is deployed *)

Ended == {b \in Builds : builds[b].stage = "ended"}
PortOf(i) == IF i <= Len(Core) THEN Core[i].port ELSE BasePort + i - 1

\* While generations never overlapped, each took the port that was next.
InTurn ==
    /\ \A i \in DOMAIN nodes : nodes[i].port = PortOf(i)
    /\ \A b \in Builds : Cluster!UnderWay(b) => builds[b].size = Len(nodes)
    /\ \A b, c \in Builds : Cluster!UnderWay(b) /\ Cluster!UnderWay(c) => b = c

\* What was deployed is what generations that ended have deployed.
Registered ==
    /\ Len(nodes) = Len(Core) + Len(deployed)
    /\ \A k \in DOMAIN deployed : nodes[Len(Core) + k].id = Slug[deployed[k]]
    /\ Len(deployed) <= Cardinality(Ended)
    /\ \A b \in Builds : builds[b].stage = "unused" => ~builds[b].overlapped
    /\ (\A b \in Builds : ~builds[b].overlapped) => InTurn

LEMMA CoreLength == Core \in Seq(CoreItem) /\ Len(Core) \in Nat /\ BasePort \in Nat
<1>1. Core \in Seq(CoreItem) /\ BasePort \in Nat BY CA DEF Cluster!ClusterAssumption,
     CoreItem
<1> QED BY <1>1

LEMMA EndedFinite == IsFiniteSet(Ended) /\ Cardinality(Ended) \in Nat
                     /\ Cardinality(Ended) <= Cardinality(Builds)
                     /\ IsFiniteSet(Builds) /\ Cardinality(Builds) \in Nat
<1>1. IsFiniteSet(Builds) BY CA, ClusterCounted DEF Cluster!ClusterAssumption
<1>2. Ended \subseteq Builds BY DEF Ended
<1>3. IsFiniteSet(Ended) /\ Cardinality(Ended) <= Cardinality(Builds)
  BY <1>1, <1>2, FS_Subset
<1> QED BY <1>1, <1>3, FS_CardinalityType

LEMMA NodesFit ==
    ASSUME NodesTyped, DesignTyped, Registered PROVE Len(nodes) \in Cluster!Sizes
<1>1. Len(deployed) \in Nat BY DEF DesignTyped
<1>2. Len(nodes) = Len(Core) + Len(deployed) /\ Len(deployed) <= Cardinality(Ended)
  BY DEF Registered
<1> QED BY <1>1, <1>2, CoreLength, EndedFinite, ClusterCounted DEF Cluster!Sizes

LEMMA DesignTypedStep ==
    ASSUME NodesTyped, DesignTyped, Registered, [Cluster!Next]_(Cluster!vars)
    PROVE  DesignTyped'
<1> /\ deployed \in Seq(Names) /\ designer \in DesignerState
    /\ builds \in [Builds -> Cluster!Build]
  BY DEF DesignTyped
<1>1. ASSUME NEW b \in Builds PROVE builds[b] \in Cluster!Build OBVIOUS
<1>2. Cluster!FirstFile \in Cluster!GeneratedFiles BY DEF Cluster!FirstFile,
     Cluster!GeneratedFiles
<1>3. "README.md" \in Cluster!WorkspaceFiles
  <2>1. \E e \in Disk : e.path = "README.md" /\ ~e.skipped /\ ~e.large
    BY CA DEF Cluster!ClusterAssumption
  <2> QED BY <2>1 DEF Cluster!WorkspaceFiles
<1>4. builds' \in [Builds -> Cluster!Build]
  <2>1. ASSUME NEW t \in Cluster!Tabs, Cluster!SetActiveTab(t)
        PROVE  builds' \in [Builds -> Cluster!Build]
    <3>1. builds' = [b \in Builds |-> [builds[b] EXCEPT !.own = FALSE]]
      BY <2>1 DEF Cluster!SetActiveTab
    <3>2. ASSUME NEW b \in Builds PROVE [builds[b] EXCEPT !.own = FALSE] \in Cluster!Build
      BY <1>1 DEF Cluster!Build
    <3> QED BY <3>1, <3>2
  <2>2. ASSUME NEW b \in Builds, NEW n \in Names, Cluster!HandleGenerateService(b, n)
        PROVE  builds' \in [Builds -> Cluster!Build]
    <3>1. PICK o : o = \E d \in Builds : Cluster!UnderWay(d) OBVIOUS
    <3>2. PICK r : r = [stage |-> "called", own |-> TRUE, name |-> n,
                        size |-> Len(nodes), overlapped |-> o]
      OBVIOUS
    <3>3. o \in BOOLEAN BY <3>1
    <3>4. r \in Cluster!Build BY <3>2, <3>3, NodesFit DEF Cluster!Build
    <3>5. builds' = [c \in Builds |-> IF c = b THEN r ELSE builds[c]]
      BY <2>2, <3>1, <3>2 DEF Cluster!HandleGenerateService
    <3> QED BY <3>4, <3>5
  <2>3. ASSUME NEW b \in Builds, Cluster!BuildAnswered(b)
        PROVE  builds' \in [Builds -> Cluster!Build]
    <3>1. PICK s \in Cluster!GenerateService(builds[b].name) :
            builds' = [builds EXCEPT ![b].stage = "answered", ![b].name = s.serviceName]
      BY <2>3 DEF Cluster!BuildAnswered
    <3>2. builds[b].name \in Names BY <1>1 DEF Cluster!Build
    <3>3. s.serviceName \in Names
      BY <3>2 DEF Cluster!GenerateService, Cluster!ServiceCode, Cluster!FallbackService
    <3>4. [[builds[b] EXCEPT !.stage = "answered"] EXCEPT !.name = s.serviceName] \in Cluster!Build
      BY <1>1, <3>3 DEF Cluster!Build
    <3>5. builds' = [builds EXCEPT ![b] =
            [[builds[b] EXCEPT !.stage = "answered"] EXCEPT !.name = s.serviceName]]
      BY <3>1
    <3> QED BY <3>4, <3>5
  <2>4. ASSUME NEW b \in Builds, Cluster!BuildFails(b) \/ Cluster!BuildDeploys(b)
        PROVE  builds' \in [Builds -> Cluster!Build]
    <3>1. builds' = [builds EXCEPT ![b].stage = "ended"]
      BY <2>4 DEF Cluster!BuildFails, Cluster!BuildDeploys
    <3>2. [builds[b] EXCEPT !.stage = "ended"] \in Cluster!Build BY <1>1 DEF Cluster!Build
    <3> QED BY <3>1, <3>2
  <2>5. CASE UNCHANGED builds BY <2>5
  <2> QED
    BY <2>1, <2>2, <2>3, <2>4, <2>5 DEF Cluster!Next, Cluster!vars,
         Cluster!TelemetryTick, Cluster!SetWorkload,
     Cluster!SelectTrace, Cluster!SelectNode, Cluster!Topology, Cluster!HandleScale,
     Cluster!HandleTogglePower, Cluster!HandleRestart,
     Cluster!RestartEnds, Cluster!HandleSendRequest, Cluster!RequestAnswered,
     Cluster!Designer, Cluster!Rescan, Cluster!ScanAnswers,
     Cluster!ScanFails, Cluster!ShowWorkspace, Cluster!ShowGenerator, Cluster!SelectFile
<1>5. designer' \in DesignerState
  <2> /\ designer.mode \in {"workspace", "generator"} /\ designer.scans \in Nat
      /\ designer = [mode |-> designer.mode, loading |-> designer.loading,
                     generated |-> designer.generated, disk |-> designer.disk,
                     scans |-> designer.scans, file |-> designer.file,
                     crossed |-> designer.crossed]
    BY DEF DesignerState
  <2>1. ASSUME NEW t \in Cluster!Tabs, Cluster!SetActiveTab(t)
        PROVE  designer' \in DesignerState
    <3>1. MaxScans \in Nat BY CA DEF Cluster!ClusterAssumption
    <3>2. PICK n \in Nat : n = IF t = "designer" THEN Cluster!AtMost(1, MaxScans) ELSE 0
      BY <3>1 DEF Cluster!AtMost
    <3>3. designer' = Cluster!NewDesigner(n) BY <2>1, <3>2 DEF Cluster!SetActiveTab,
         Cluster!Mount
    <3> QED BY <1>3, <3>3 DEF Cluster!NewDesigner, DesignerState
  <2>2. CASE Cluster!Rescan
    <3>1. designer.scans + 1 \in Nat OBVIOUS
    <3> QED BY <2>2, <3>1 DEF Cluster!Rescan, DesignerState
  <2>3. CASE Cluster!ScanAnswers
    <3>1. designer.scans - 1 \in Nat BY <2>3 DEF Cluster!ScanAnswers
    <3> QED BY <1>3, <2>3, <3>1 DEF Cluster!ScanAnswers, DesignerState
  <2>4. CASE Cluster!ScanFails
    <3>1. designer.scans - 1 \in Nat BY <2>4 DEF Cluster!ScanFails
    <3> QED BY <2>4, <3>1 DEF Cluster!ScanFails, DesignerState
  <2>5. CASE Cluster!ShowWorkspace BY <1>3, <2>5 DEF Cluster!ShowWorkspace, DesignerState
  <2>6. CASE Cluster!ShowGenerator BY <1>2, <2>6 DEF Cluster!ShowGenerator, DesignerState
  <2>7. ASSUME NEW f \in Cluster!WorkspaceFiles \cup Cluster!GeneratedFiles, Cluster!SelectFile(f)
        PROVE  designer' \in DesignerState
    BY <2>7 DEF Cluster!SelectFile, DesignerState
  <2>8. ASSUME NEW b \in Builds, NEW n \in Names, Cluster!HandleGenerateService(b, n)
        PROVE  designer' \in DesignerState
    BY <2>8 DEF Cluster!HandleGenerateService, DesignerState
  <2>9. ASSUME NEW b \in Builds, Cluster!BuildFails(b) PROVE designer' \in DesignerState
    BY <2>9 DEF Cluster!BuildFails, DesignerState
  <2>10. ASSUME NEW b \in Builds, Cluster!BuildDeploys(b)
         PROVE  designer' \in DesignerState
    BY <1>2, <2>10 DEF Cluster!BuildDeploys, DesignerState
  <2>11. CASE UNCHANGED designer BY <2>11
  <2> QED
    BY <2>1, <2>2, <2>3, <2>4, <2>5, <2>6, <2>7, <2>8, <2>9, <2>10, <2>11
       DEF Cluster!Next,
         Cluster!vars,
     Cluster!views, Cluster!TelemetryTick, Cluster!SetWorkload, Cluster!SelectTrace,
     Cluster!SelectNode, Cluster!Topology, Cluster!HandleScale,
     Cluster!HandleTogglePower, Cluster!HandleRestart, Cluster!RestartEnds,
     Cluster!HandleSendRequest, Cluster!RequestAnswered,
     Cluster!BuildAnswered
<1>6. deployed' \in Seq(Names)
  <2>1. ASSUME NEW b \in Builds, Cluster!BuildDeploys(b) PROVE deployed' \in Seq(Names)
    <3>1. builds[b].name \in Names BY <1>1 DEF Cluster!Build
    <3> QED BY <2>1, <3>1 DEF Cluster!BuildDeploys, Cluster!HandleDeployService
  <2>2. CASE UNCHANGED deployed BY <2>2
  <2> QED
    BY <2>1, <2>2 DEF Cluster!Next, Cluster!vars, Cluster!app, Cluster!SetActiveTab,
         Cluster!TelemetryTick, Cluster!SetWorkload,
     Cluster!SelectTrace, Cluster!SelectNode, Cluster!Topology, Cluster!HandleScale,
     Cluster!HandleTogglePower, Cluster!HandleRestart,
     Cluster!RestartEnds, Cluster!HandleSendRequest, Cluster!RequestAnswered,
     Cluster!Designer, Cluster!Rescan, Cluster!ScanAnswers,
     Cluster!ScanFails, Cluster!ShowWorkspace, Cluster!ShowGenerator,
     Cluster!SelectFile, Cluster!HandleGenerateService,
     Cluster!BuildAnswered, Cluster!BuildFails
<1> QED BY <1>4, <1>5, <1>6 DEF DesignTyped

\* What a step does to the generations.
Same(b) ==
    /\ builds'[b].stage = builds[b].stage /\ builds'[b].size = builds[b].size
    /\ builds'[b].overlapped = builds[b].overlapped /\ builds'[b].own = builds[b].own

Begins(b) ==
    /\ builds[b].stage = "unused" /\ builds'[b].stage = "called" /\ builds'[b].own
    /\ builds'[b].size = Len(nodes)
    /\ builds'[b].overlapped <=> \E d \in Builds : Cluster!UnderWay(d)
Answers(b) ==
    /\ builds[b].stage = "called" /\ builds'[b].stage = "answered"
    /\ builds'[b].size = builds[b].size
    /\ builds'[b].overlapped = builds[b].overlapped /\ builds'[b].own = builds[b].own
Ends(b) ==
    /\ Cluster!UnderWay(b) /\ builds'[b].stage = "ended"
    /\ builds'[b].overlapped = builds[b].overlapped
ClusterLeft(b) ==
    /\ builds'[b].stage = builds[b].stage /\ builds'[b].size = builds[b].size
    /\ builds'[b].overlapped = builds[b].overlapped /\ builds'[b].own = FALSE

LEMMA BuildBegins ==
    ASSUME DesignTyped, NEW b \in Builds, NEW n, Cluster!HandleGenerateService(b, n)
    PROVE  Begins(b) /\ \A c \in Builds \ {b} : Same(c)
<1>1. builds' = [c \in Builds |->
         IF c = b
         THEN [stage |-> "called", own |-> TRUE, name |-> n,
               size |-> Len(nodes), overlapped |-> \E d \in Builds : Cluster!UnderWay(d)]
         ELSE builds[c]]
  BY DEF Cluster!HandleGenerateService
<1>2. builds[b].stage = "unused" BY DEF Cluster!HandleGenerateService
<1>3. builds'[b] = [stage |-> "called", own |-> TRUE, name |-> n,
               size |-> Len(nodes), overlapped |-> \E d \in Builds : Cluster!UnderWay(d)]
  BY <1>1
<1>4. \A c \in Builds \ {b} : builds'[c] = builds[c] BY <1>1
<1> QED BY <1>2, <1>3, <1>4 DEF Begins, Same

LEMMA BuildAnswers ==
    ASSUME DesignTyped, NEW b \in Builds, Cluster!BuildAnswered(b)
    PROVE  Answers(b) /\ \A c \in Builds \ {b} : Same(c)
<1>1. builds \in [Builds -> Cluster!Build] /\ builds[b] \in Cluster!Build
  BY DEF DesignTyped
<1>2. PICK s : builds' = [builds EXCEPT ![b].stage = "answered", ![b].name = s.serviceName]
  BY DEF Cluster!BuildAnswered
<1>3. PICK m : m = [[builds[b] EXCEPT !.stage = "answered"] EXCEPT !.name = s.serviceName]
  OBVIOUS
<1>4. builds' = [builds EXCEPT ![b] = m] BY <1>1, <1>2, <1>3
<1>5. /\ m.stage = "answered" /\ m.size = builds[b].size
      /\ m.overlapped = builds[b].overlapped /\ m.own = builds[b].own
  BY <1>1, <1>3 DEF Cluster!Build
<1>6. builds[b].stage = "called" BY DEF Cluster!BuildAnswered
<1>7. builds'[b] = m /\ \A c \in Builds \ {b} : builds'[c] = builds[c]
  BY <1>1, <1>4
<1> QED BY <1>5, <1>6, <1>7 DEF Answers, Same

LEMMA BuildEnds ==
    ASSUME DesignTyped, NEW b \in Builds, Cluster!BuildFails(b) \/ Cluster!BuildDeploys(b)
    PROVE  Ends(b) /\ \A c \in Builds \ {b} : Same(c)
<1>1. builds \in [Builds -> Cluster!Build] /\ builds[b] \in Cluster!Build
  BY DEF DesignTyped
<1>2. builds' = [builds EXCEPT ![b] = [builds[b] EXCEPT !.stage = "ended"]]
  BY DEF Cluster!BuildFails, Cluster!BuildDeploys
<1>3. builds'[b] = [builds[b] EXCEPT !.stage = "ended"]
      /\ \A c \in Builds \ {b} : builds'[c] = builds[c]
  BY <1>1, <1>2
<1>4. builds'[b].stage = "ended" /\ builds'[b].overlapped = builds[b].overlapped
  BY <1>1, <1>3 DEF Cluster!Build
<1>5. Cluster!UnderWay(b) BY DEF Cluster!BuildFails, Cluster!BuildDeploys,
     Cluster!UnderWay
<1> QED BY <1>3, <1>4, <1>5 DEF Ends, Same

LEMMA BuildLeft ==
    ASSUME DesignTyped, NEW t, Cluster!SetActiveTab(t)
    PROVE  \A c \in Builds : ClusterLeft(c)
<1>1. builds \in [Builds -> Cluster!Build] BY DEF DesignTyped
<1>2. builds' = [b \in Builds |-> [builds[b] EXCEPT !.own = FALSE]]
  BY DEF Cluster!SetActiveTab
<1>3. ASSUME NEW c \in Builds PROVE ClusterLeft(c)
  <2>1. builds'[c] = [builds[c] EXCEPT !.own = FALSE] /\ builds[c] \in Cluster!Build
    BY <1>1, <1>2
  <2> QED BY <2>1 DEF Cluster!Build, ClusterLeft
<1> QED BY <1>3

LEMMA BuildSteps ==
    ASSUME [Cluster!Next]_(Cluster!vars)
    PROVE  \/ \E b \in Builds, n \in Names : Cluster!HandleGenerateService(b, n)
           \/ \E b \in Builds : Cluster!BuildAnswered(b) \/ Cluster!BuildFails(b) \/ Cluster!BuildDeploys(b)
           \/ \E t \in Cluster!Tabs : Cluster!SetActiveTab(t)
           \/ NodeSteps /\ UNCHANGED <<deployed, builds, designer>>
           \/ /\ Cluster!Rescan \/ Cluster!ScanAnswers \/ Cluster!ScanFails \/ Cluster!ShowWorkspace \/ Cluster!ShowGenerator
                 \/ \E f \in Cluster!WorkspaceFiles \cup Cluster!GeneratedFiles : Cluster!SelectFile(f)
              /\ UNCHANGED <<nodes, deployed, builds>>
           \/ UNCHANGED <<nodes, deployed, builds, designer>>
  BY DEF Cluster!Next, Cluster!vars, Cluster!app, Cluster!views, Cluster!TelemetryTick,
       Cluster!SetWorkload, Cluster!SelectTrace, Cluster!SelectNode,
     NodeSteps, Cluster!Topology, Cluster!HandleScale, Cluster!HandleTogglePower,
     Cluster!HandleRestart, Cluster!RestartEnds,
     Cluster!HandleSendRequest, Cluster!RequestAnswered, Cluster!Designer,
     Cluster!Rescan, Cluster!ScanAnswers, Cluster!ScanFails,
     Cluster!ShowWorkspace, Cluster!ShowGenerator, Cluster!SelectFile

NoneCrossed == \A b \in Builds : ~builds[b].overlapped

LEMMA EndedStep ==
    ASSUME DesignTyped, [Cluster!Next]_(Cluster!vars)
    PROVE  /\ Cardinality(Ended) <= Cardinality(Ended')
           /\ \A b \in Builds : Cluster!BuildDeploys(b) =>
                Cardinality(Ended') = Cardinality(Ended) + 1
<1>1. ASSUME NEW b \in Builds, Ends(b), \A c \in Builds \ {b} : Same(c)
      PROVE  Cardinality(Ended') = Cardinality(Ended) + 1
  <2>1. Ended' = Ended \cup {b} BY <1>1 DEF Ends, Same, Ended
  <2>2. b \notin Ended BY <1>1 DEF Ends, Cluster!UnderWay, Ended
  <2> QED BY <2>1, <2>2, EndedFinite, FS_AddElement
<1>2. ASSUME Ended' = Ended PROVE Cardinality(Ended) <= Cardinality(Ended')
  BY <1>2, EndedFinite
<1>3. ASSUME NEW b \in Builds, Cluster!BuildFails(b) \/ Cluster!BuildDeploys(b)
      PROVE  Cardinality(Ended') = Cardinality(Ended) + 1
  BY <1>1, <1>3, BuildEnds
<1>4. ASSUME NEW b \in Builds, NEW n \in Names, Cluster!HandleGenerateService(b, n)
      PROVE  Ended' = Ended
  <2>1. Begins(b) /\ \A c \in Builds \ {b} : Same(c) BY <1>4, BuildBegins
  <2> QED BY <2>1 DEF Begins, Same, Ended
<1>5. ASSUME NEW b \in Builds, Cluster!BuildAnswered(b) PROVE Ended' = Ended
  <2>1. Answers(b) /\ \A c \in Builds \ {b} : Same(c) BY <1>5, BuildAnswers
  <2> QED BY <2>1 DEF Answers, Same, Ended
<1>6. ASSUME NEW t \in Cluster!Tabs, Cluster!SetActiveTab(t) PROVE Ended' = Ended
  <2>1. \A c \in Builds : ClusterLeft(c) BY <1>6, BuildLeft
  <2> QED BY <2>1 DEF ClusterLeft, Ended
<1>7. ASSUME UNCHANGED builds PROVE Ended' = Ended
  BY <1>7 DEF Ended
<1>8. Cardinality(Ended) <= Cardinality(Ended) + 1 BY EndedFinite
<1>9. Cardinality(Ended) <= Cardinality(Ended')
  <2>1. CASE \E b \in Builds : Cluster!BuildFails(b) \/ Cluster!BuildDeploys(b)
    BY <1>3, <1>8, <2>1
  <2>2. CASE Ended' = Ended BY <1>2, <2>2
  <2> QED BY <2>1, <2>2, <1>4, <1>5, <1>6, <1>7, BuildSteps
<1>10. ASSUME NEW b \in Builds, Cluster!BuildDeploys(b)
       PROVE  Cardinality(Ended') = Cardinality(Ended) + 1
  BY <1>3, <1>10
<1> QED BY Zenon, <1>9, <1>10

LEMMA InTurnStep ==
    ASSUME NodesTyped, DesignTyped, Registered, [Cluster!Next]_(Cluster!vars), NoneCrossed'
    PROVE  InTurn'
<1> nodes \in Seq(Replica) /\ Len(nodes) \in Nat /\ BasePort \in Nat /\ Len(Core) \in Nat
  BY CoreLength DEF NodesTyped
<1>0. ASSUME NoneCrossed PROVE InTurn BY <1>0 DEF Registered, NoneCrossed
<1>1. ASSUME NEW b \in Builds, NEW n \in Names, Cluster!HandleGenerateService(b, n)
      PROVE  InTurn'
  <2>1. Begins(b) /\ \A c \in Builds \ {b} : Same(c) BY <1>1, BuildBegins
  <2>2. \A d \in Builds : ~Cluster!UnderWay(d)
    <3>1. ~builds'[b].overlapped BY DEF NoneCrossed
    <3> QED BY <2>1, <3>1 DEF Begins
  <2>3. \A c \in Builds : Cluster!UnderWay(c)' => c = b
    BY <2>1, <2>2 DEF Same, Cluster!UnderWay
  <2>4. \A c \in Builds \ {b} : ~builds[c].overlapped
    BY <2>1 DEF NoneCrossed, Same
  <2>5. nodes' = nodes BY <1>1 DEF Cluster!HandleGenerateService
  <2>6. ~builds[b].overlapped BY <2>1 DEF Registered, Begins
  <2>7. InTurn BY <1>0, <2>4, <2>6 DEF NoneCrossed
  <2>8. builds'[b].size = Len(nodes') BY <2>1, <2>5 DEF Begins
  <2> QED BY <2>3, <2>5, <2>7, <2>8 DEF InTurn, PortOf
<1>2. ASSUME NEW b \in Builds, Cluster!BuildAnswered(b) PROVE InTurn'
  <2>1. Answers(b) /\ \A c \in Builds \ {b} : Same(c) BY <1>2, BuildAnswers
  <2>2. \A c \in Builds : /\ Cluster!UnderWay(c)' <=> Cluster!UnderWay(c)
                          /\ builds'[c].size = builds[c].size
                          /\ builds'[c].overlapped = builds[c].overlapped
    BY <2>1 DEF Answers, Same, Cluster!UnderWay
  <2>3. nodes' = nodes BY <1>2 DEF Cluster!BuildAnswered, Cluster!app
  <2>4. InTurn BY <1>0, <2>2 DEF NoneCrossed
  <2> QED BY <2>2, <2>3, <2>4 DEF InTurn, PortOf
<1>3. ASSUME NEW b \in Builds, Cluster!BuildFails(b) PROVE InTurn'
  <2>1. Ends(b) /\ \A c \in Builds \ {b} : Same(c) BY <1>3, BuildEnds
  <2>2. \A c \in Builds : /\ Cluster!UnderWay(c)' => Cluster!UnderWay(c) /\ builds'[c].size = builds[c].size
                          /\ builds'[c].overlapped = builds[c].overlapped
    BY <2>1 DEF Ends, Same, Cluster!UnderWay
  <2>3. nodes' = nodes BY <1>3 DEF Cluster!BuildFails
  <2>4. InTurn BY <1>0, <2>2 DEF NoneCrossed
  <2> QED BY <2>2, <2>3, <2>4 DEF InTurn, PortOf
<1>4. ASSUME NEW b \in Builds, Cluster!BuildDeploys(b) PROVE InTurn'
  <2>1. Ends(b) /\ \A c \in Builds \ {b} : Same(c) BY <1>4, BuildEnds
  <2>2. \A c \in Builds : builds'[c].overlapped = builds[c].overlapped
    BY <2>1 DEF Ends, Same
  <2>3. InTurn BY <1>0, <2>2 DEF NoneCrossed
  <2>4. Cluster!UnderWay(b) BY <2>1 DEF Ends
  <2>5. \A c \in Builds : ~Cluster!UnderWay(c)'
    BY <2>1, <2>3, <2>4 DEF InTurn, Ends, Same, Cluster!UnderWay
  <2>6. PICK n \in Replica : nodes' = Append(nodes, n) /\ n.port = BasePort + builds[b].size
    BY <1>4, Deployed
  <2>7. builds[b].size = Len(nodes) BY <2>3, <2>4 DEF InTurn
  <2>8. Len(Core) <= Len(nodes)
    <3>1. Len(deployed) \in Nat /\ Len(nodes) = Len(Core) + Len(deployed)
      BY DEF Registered, DesignTyped
    <3> QED BY <3>1
  <2>9. ASSUME NEW i \in DOMAIN nodes' PROVE nodes'[i].port = PortOf(i)
    <3>1. CASE i \in DOMAIN nodes
      <4>1. nodes'[i] = nodes[i] BY <2>6, <3>1
      <4> QED BY <2>3, <3>1, <4>1 DEF InTurn
    <3>2. CASE i \notin DOMAIN nodes
      <4>1. i = Len(nodes) + 1 /\ nodes'[i] = n BY <2>6, <3>2
      <4>2. PortOf(i) = BasePort + i - 1 BY <2>8, <4>1 DEF PortOf
      <4> QED BY <2>6, <2>7, <4>1, <4>2
    <3> QED BY <3>1, <3>2
  <2> QED BY <2>5, <2>9 DEF InTurn, PortOf
<1>5. ASSUME NEW t \in Cluster!Tabs, Cluster!SetActiveTab(t) PROVE InTurn'
  <2>1. \A c \in Builds : ClusterLeft(c) BY <1>5, BuildLeft
  <2>2. \A c \in Builds : /\ Cluster!UnderWay(c)' <=> Cluster!UnderWay(c)
                          /\ builds'[c].size = builds[c].size
                          /\ builds'[c].overlapped = builds[c].overlapped
    BY <2>1 DEF ClusterLeft, Cluster!UnderWay
  <2>3. nodes' = nodes BY <1>5 DEF Cluster!SetActiveTab, Cluster!app
  <2>4. InTurn BY <1>0, <2>2 DEF NoneCrossed
  <2> QED BY <2>2, <2>3, <2>4 DEF InTurn, PortOf
<1>6. CASE SetsOneNode /\ UNCHANGED builds
  <2>1. PICK n \in [id : Cluster!Ids, total : Cluster!Totals], status \in Cluster!NodeStatuses, active \in Nat :
          Set(n, status, active)
    BY <1>6 DEF SetsOneNode
  <2>2. n.id \in Cluster!Ids /\ n.total \in Cluster!Totals OBVIOUS
  <2>3. Changed(n.id, status, active, n.total) BY <2>1, <2>2, SetTyped
  <2>4. InTurn BY <1>0, <1>6 DEF NoneCrossed
  <2>5. DOMAIN nodes' = DOMAIN nodes /\ Len(nodes') = Len(nodes)
        /\ \A i \in DOMAIN nodes : nodes'[i].port = nodes[i].port
    BY <2>3 DEF Changed
  <2> QED BY <1>6, <2>4, <2>5 DEF InTurn, PortOf, Cluster!UnderWay
<1>7. CASE UNCHANGED <<nodes, builds>>
  <2>1. InTurn BY <1>0, <1>7 DEF NoneCrossed
  <2> QED BY <1>7, <2>1 DEF InTurn, PortOf, Cluster!UnderWay
<1> QED BY <1>1, <1>2, <1>3, <1>4, <1>5, <1>6, <1>7, BuildSteps, NodeStepsSet

LEMMA RegisteredStep ==
    ASSUME NodesTyped, DesignTyped, Registered, [Cluster!Next]_(Cluster!vars)
    PROVE  Registered'
<1> nodes \in Seq(Replica) /\ Len(nodes) \in Nat /\ deployed \in Seq(Names)
    /\ Len(deployed) \in Nat /\ Len(Core) \in Nat
  BY CoreLength DEF NodesTyped, DesignTyped
<1>1. Cardinality(Ended) <= Cardinality(Ended')
      /\ \A b \in Builds : Cluster!BuildDeploys(b) =>
           Cardinality(Ended') = Cardinality(Ended) + 1
  BY EndedStep
<1>2. Cardinality(Ended) \in Nat /\ Cardinality(Ended') \in Nat
  <2>1. Ended' \subseteq Builds BY DEF Ended
  <2> QED BY <2>1, EndedFinite, FS_Subset, FS_CardinalityType
<1> DEFINE Listed == /\ Len(nodes) = Len(Core) + Len(deployed)
                     /\ \A k \in DOMAIN deployed : nodes[Len(Core) + k].id = Slug[deployed[k]]
                     /\ Len(deployed) <= Cardinality(Ended)
<1>3. Listed BY DEF Registered
<1>4. Listed'
  <2>1. ASSUME NEW b \in Builds, Cluster!BuildDeploys(b) PROVE Listed'
    <3>1. PICK n \in Replica : nodes' = Append(nodes, n) /\ n.id = Slug[builds[b].name]
      BY <2>1, Deployed
    <3>2. deployed' = Append(deployed, builds[b].name)
      BY <2>1 DEF Cluster!BuildDeploys, Cluster!HandleDeployService
    <3>3. builds[b].name \in Names
      <4>1. builds[b] \in Cluster!Build BY DEF DesignTyped
      <4> QED BY <4>1 DEF Cluster!Build
    <3>4. Len(nodes') = Len(nodes) + 1 /\ Len(deployed') = Len(deployed) + 1
      BY <3>1, <3>2, <3>3
    <3>5. ASSUME NEW k \in DOMAIN deployed'
          PROVE  nodes'[Len(Core) + k].id = Slug[deployed'[k]]
      <4>1. CASE k \in DOMAIN deployed
        <5>1. Len(Core) + k \in DOMAIN nodes BY <1>3, <4>1
        <5>2. nodes'[Len(Core) + k] = nodes[Len(Core) + k] BY <3>1, <5>1
        <5>3. deployed'[k] = deployed[k] BY <3>2, <3>3, <4>1
        <5> QED BY <1>3, <4>1, <5>2, <5>3
      <4>2. CASE k \notin DOMAIN deployed
        <5>1. k = Len(deployed) + 1 BY <3>2, <3>3, <4>2
        <5>2. Len(Core) + k = Len(nodes) + 1 BY <1>3, <5>1
        <5>3. nodes'[Len(nodes) + 1] = n BY <3>1
        <5>4. deployed'[k] = builds[b].name BY <3>2, <3>3, <5>1
        <5> QED BY <3>1, <5>2, <5>3, <5>4
      <4> QED BY <4>1, <4>2
    <3>6. Len(deployed') <= Cardinality(Ended')
      <4>1. Cardinality(Ended') = Cardinality(Ended) + 1 BY <1>1, <2>1
      <4> QED BY <1>2, <1>3, <3>4, <4>1
    <3>7. Len(nodes') = Len(Core) + Len(deployed') BY <1>3, <3>4
    <3> QED BY <3>5, <3>6, <3>7
  <2>2. CASE SetsOneNode /\ UNCHANGED deployed
    <3>1. PICK n \in [id : Cluster!Ids, total : Cluster!Totals], status \in Cluster!NodeStatuses, active \in Nat :
            Set(n, status, active)
      BY <2>2 DEF SetsOneNode
    <3>2. n.id \in Cluster!Ids /\ n.total \in Cluster!Totals OBVIOUS
    <3>3. Changed(n.id, status, active, n.total) BY <3>1, <3>2, SetTyped
    <3>4. /\ DOMAIN nodes' = DOMAIN nodes /\ Len(nodes') = Len(nodes)
          /\ \A i \in DOMAIN nodes : nodes'[i].id = nodes[i].id
      BY <3>3 DEF Changed
    <3>5. \A k \in DOMAIN deployed : Len(Core) + k \in DOMAIN nodes BY <1>3
    <3>6. Len(deployed) <= Cardinality(Ended') BY <1>1, <1>2, <1>3
    <3> QED BY <1>3, <2>2, <3>4, <3>5, <3>6
  <2>3. CASE UNCHANGED <<nodes, deployed>>
    <3>1. Len(deployed) <= Cardinality(Ended') BY <1>1, <1>2, <1>3
    <3> QED BY <1>3, <2>3, <3>1
  <2>4. ASSUME NEW b \in Builds,
               Cluster!BuildAnswered(b) \/ Cluster!BuildFails(b) \/ \E n \in Names : Cluster!HandleGenerateService(b, n)
        PROVE  UNCHANGED <<nodes, deployed>>
    BY <2>4 DEF Cluster!BuildAnswered, Cluster!BuildFails,
         Cluster!HandleGenerateService, Cluster!app
  <2>5. ASSUME NEW t \in Cluster!Tabs, Cluster!SetActiveTab(t)
        PROVE  UNCHANGED <<nodes, deployed>>
    BY <2>5 DEF Cluster!SetActiveTab, Cluster!app
  <2> QED BY <2>1, <2>2, <2>3, <2>4, <2>5, BuildSteps, NodeStepsSet
<1>5. ASSUME NEW c \in Builds, builds'[c].stage = "unused"
      PROVE  ~builds'[c].overlapped
  <2>1. builds[c].stage = "unused" => ~builds[c].overlapped BY DEF Registered
  <2>2. ASSUME NEW b \in Builds, Begins(b), \A d \in Builds \ {b} : Same(d)
        PROVE  ~builds'[c].overlapped
    BY <1>5, <2>1, <2>2 DEF Begins, Same
  <2>3. ASSUME NEW b \in Builds, Answers(b) \/ Ends(b), \A d \in Builds \ {b} : Same(d)
        PROVE  ~builds'[c].overlapped
    BY <1>5, <2>1, <2>3 DEF Answers, Ends, Same
  <2>4. ASSUME \A d \in Builds : ClusterLeft(d) PROVE ~builds'[c].overlapped
    BY <1>5, <2>1, <2>4 DEF ClusterLeft
  <2>5. CASE UNCHANGED builds BY <1>5, <2>1, <2>5
  <2> QED
    BY <2>2, <2>3, <2>4, <2>5, BuildSteps, BuildBegins, BuildAnswers, BuildEnds, BuildLeft
<1> QED BY <1>4, <1>5, InTurnStep DEF Registered, NoneCrossed

-----------------------------------------------------------------------------
(* The views wait for what is under way *)

Mine(b) == Cluster!UnderWay(b) /\ builds[b].own

\* The designer waits for one call of its own, the playground for one timer.
DesignerWaits ==
    /\ designer.loading <=> \E b \in Builds : Mine(b)
    /\ \A b, c \in Builds : Mine(b) /\ Mine(c) => b = c

PlaygroundWaits ==
    /\ play.loading <=> \E i \in DOMAIN sends : sends[i].own
    /\ \A i, j \in DOMAIN sends : sends[i].own /\ sends[j].own => i = j

FileOnView ==
    Cluster!FilesOf(designer.mode) # {} /\ ~designer.crossed =>
      designer.file \in Cluster!FilesOf(designer.mode)

LEMMA DesignerWaitsStep ==
    ASSUME DesignTyped, DesignerWaits, [Cluster!Next]_(Cluster!vars) PROVE DesignerWaits'
<1> designer \in DesignerState BY DEF DesignTyped
<1>1. ASSUME NEW b \in Builds, NEW n \in Names, Cluster!HandleGenerateService(b, n)
      PROVE  DesignerWaits'
  <2>1. Begins(b) /\ \A c \in Builds \ {b} : Same(c) BY <1>1, BuildBegins
  <2>2. ~designer.loading BY <1>1 DEF Cluster!HandleGenerateService
  <2>3. designer'.loading
    <3>1. designer' = [designer EXCEPT !.loading = TRUE, !.generated = FALSE]
      BY <1>1 DEF Cluster!HandleGenerateService
    <3> QED BY <3>1 DEF DesignerState
  <2>4. \A c \in Builds : Mine(c)' <=> c = b
    BY <2>1, <2>2 DEF DesignerWaits, Begins, Same, Mine, Cluster!UnderWay
  <2> QED BY <2>3, <2>4 DEF DesignerWaits
<1>2. ASSUME NEW b \in Builds, Cluster!BuildAnswered(b) PROVE DesignerWaits'
  <2>1. Answers(b) /\ \A c \in Builds \ {b} : Same(c) BY <1>2, BuildAnswers
  <2>2. \A c \in Builds : Mine(c)' <=> Mine(c)
    BY <2>1 DEF Answers, Same, Mine, Cluster!UnderWay
  <2>3. designer' = designer BY <1>2 DEF Cluster!BuildAnswered, Cluster!views
  <2> QED BY <2>2, <2>3 DEF DesignerWaits
<1>3. ASSUME NEW b \in Builds, Cluster!BuildFails(b) \/ Cluster!BuildDeploys(b)
      PROVE  DesignerWaits'
  <2>1. Ends(b) /\ \A c \in Builds \ {b} : Same(c) BY <1>3, BuildEnds
  <2>2. \A c \in Builds : Mine(c)' <=> Mine(c) /\ c # b
    BY <2>1 DEF Ends, Same, Mine, Cluster!UnderWay
  <2>3. Cluster!UnderWay(b) BY <2>1 DEF Ends
  <2>4. CASE builds[b].own
    <3>1. Mine(b) BY <2>3, <2>4 DEF Mine
    <3>2. \A c \in Builds : ~Mine(c)' BY <2>2, <3>1 DEF DesignerWaits
    <3>3. ~designer'.loading
      <4>1. CASE Cluster!BuildFails(b)
        <5>1. designer' = [designer EXCEPT !.loading = FALSE]
          BY <2>4, <4>1 DEF Cluster!BuildFails
        <5> QED BY <5>1 DEF DesignerState
      <4>2. CASE Cluster!BuildDeploys(b)
        <5>1. designer' = [designer EXCEPT !.loading = FALSE, !.generated = TRUE,
                             !.file = Cluster!FirstFile, !.crossed = designer.mode = "workspace"]
          BY <2>4, <4>2 DEF Cluster!BuildDeploys
        <5> QED BY <5>1 DEF DesignerState
      <4> QED BY <1>3, <4>1, <4>2
    <3> QED BY <3>2, <3>3 DEF DesignerWaits
  <2>5. CASE ~builds[b].own
    <3>1. designer' = designer BY <1>3, <2>5 DEF Cluster!BuildFails, Cluster!BuildDeploys
    <3>2. \A c \in Builds : Mine(c)' <=> Mine(c) BY <2>2, <2>5 DEF Mine
    <3> QED BY <3>1, <3>2 DEF DesignerWaits
  <2> QED BY <2>4, <2>5
<1>4. ASSUME NEW t \in Cluster!Tabs, Cluster!SetActiveTab(t) PROVE DesignerWaits'
  <2>1. \A c \in Builds : ClusterLeft(c) BY <1>4, BuildLeft
  <2>2. \A c \in Builds : ~Mine(c)' BY <2>1 DEF ClusterLeft, Mine
  <2>3. ~designer'.loading BY <1>4 DEF Cluster!SetActiveTab, Cluster!Mount,
       Cluster!NewDesigner
  <2> QED BY <2>2, <2>3 DEF DesignerWaits
<1>5. CASE UNCHANGED builds /\ designer'.loading = designer.loading
  BY <1>5 DEF DesignerWaits, Mine, Cluster!UnderWay
<1>6. ASSUME NEW f,
             Cluster!Rescan \/ Cluster!ScanAnswers \/ Cluster!ScanFails \/ Cluster!ShowWorkspace \/ Cluster!ShowGenerator
               \/ Cluster!SelectFile(f)
      PROVE  designer'.loading = designer.loading
  BY <1>6 DEF DesignerState, Cluster!Rescan, Cluster!ScanAnswers, Cluster!ScanFails,
       Cluster!ShowWorkspace,
     Cluster!ShowGenerator, Cluster!SelectFile
<1> QED BY <1>1, <1>2, <1>3, <1>4, <1>5, <1>6, BuildSteps

LEMMA PlaygroundWaitsStep ==
    ASSUME TrafficTyped, PlaygroundWaits, [Cluster!Next]_(Cluster!vars)
    PROVE  PlaygroundWaits'
<1> sends \in Seq(Cluster!Send) /\ play \in PlayState BY DEF TrafficTyped
<1>1. ASSUME NEW t \in Cluster!Tabs, Cluster!SetActiveTab(t) PROVE PlaygroundWaits'
  <2>1. ~play'.loading BY <1>1 DEF Cluster!SetActiveTab, Cluster!Mount, Cluster!NewPlay
  <2>2. sends' = [i \in DOMAIN sends |-> [sends[i] EXCEPT !.own = FALSE]]
    BY <1>1 DEF Cluster!SetActiveTab
  <2>3. ASSUME NEW i \in DOMAIN sends PROVE ~sends'[i].own
    <3>1. sends'[i] = [sends[i] EXCEPT !.own = FALSE] /\ sends[i] \in Cluster!Send BY <2>2
    <3> QED BY <3>1 DEF Cluster!Send
  <2>4. DOMAIN sends' = DOMAIN sends BY <2>2
  <2> QED BY <2>1, <2>3, <2>4 DEF PlaygroundWaits
<1>2. ASSUME NEW e \in Offered, NEW a \in BOOLEAN, NEW p \in BOOLEAN,
             Cluster!HandleSendRequest(e, a, p)
      PROVE  PlaygroundWaits'
  <2>1. play'.loading /\ ~play.loading BY <1>2 DEF Cluster!HandleSendRequest
  <2>2. PICK s : sends' = Append(sends, s) /\ s.own BY <1>2 DEF Cluster!HandleSendRequest
  <2>3. \A i \in DOMAIN sends : ~sends[i].own BY <2>1 DEF PlaygroundWaits
  <2>4. /\ DOMAIN sends' = 1..(Len(sends) + 1) /\ sends'[Len(sends) + 1] = s
        /\ \A i \in DOMAIN sends : sends'[i] = sends[i]
        /\ DOMAIN sends = 1..Len(sends) /\ Len(sends) \in Nat
    BY <2>2
  <2>5. \A i \in DOMAIN sends' : sends'[i].own <=> i = Len(sends) + 1
    <3> SUFFICES ASSUME NEW i \in DOMAIN sends'
                 PROVE  sends'[i].own <=> i = Len(sends) + 1
      OBVIOUS
    <3>1. CASE i = Len(sends) + 1 BY <2>2, <2>4, <3>1
    <3>2. CASE i # Len(sends) + 1
      <4>1. i \in DOMAIN sends BY <2>4, <3>2
      <4> QED BY <2>3, <2>4, <3>2, <4>1
    <3> QED BY <3>1, <3>2
  <2>6. Len(sends) + 1 \in DOMAIN sends' BY <2>4
  <2> QED BY <2>1, <2>5, <2>6 DEF PlaygroundWaits
<1>3. CASE Cluster!RequestAnswered
  <2>1. sends # <<>> /\ sends' = Tail(sends) BY <1>3 DEF Cluster!RequestAnswered
  <2>2. /\ \A i \in DOMAIN sends' : i + 1 \in DOMAIN sends /\ sends'[i] = sends[i + 1]
        /\ \A i \in DOMAIN sends : i # 1 => i - 1 \in DOMAIN sends' /\ sends'[i - 1] = sends[i]
        /\ 1 \in DOMAIN sends /\ Head(sends) = sends[1] /\ DOMAIN sends' \subseteq Nat \ {0}
    BY <2>1
  <2>3. CASE sends[1].own
    <3>1. ~play'.loading BY <1>3, <2>2, <2>3 DEF Cluster!RequestAnswered
    <3>2. ASSUME NEW i \in DOMAIN sends' PROVE ~sends'[i].own
      <4>1. i + 1 # 1 BY <2>2
      <4> QED BY <2>2, <2>3, <4>1 DEF PlaygroundWaits
    <3> QED BY <3>1, <3>2 DEF PlaygroundWaits
  <2>4. CASE ~sends[1].own
    <3>1. play' = play BY <1>3, <2>2, <2>4 DEF Cluster!RequestAnswered
    <3>2. (\E i \in DOMAIN sends : sends[i].own) <=> \E i \in DOMAIN sends' : sends'[i].own
      <4>1. ASSUME NEW i \in DOMAIN sends, sends[i].own
            PROVE  \E j \in DOMAIN sends' : sends'[j].own
        BY <2>2, <2>4, <4>1
      <4>2. ASSUME NEW j \in DOMAIN sends', sends'[j].own
            PROVE  \E i \in DOMAIN sends : sends[i].own
        BY <2>2, <4>2
      <4> QED BY <4>1, <4>2
    <3>3. ASSUME NEW i \in DOMAIN sends', NEW j \in DOMAIN sends', sends'[i].own,
                 sends'[j].own
          PROVE  i = j
      <4>1. i + 1 = j + 1 BY <2>2, <3>3 DEF PlaygroundWaits
      <4> QED BY <2>2, <4>1
    <3> QED BY <3>1, <3>2, <3>3 DEF PlaygroundWaits
  <2> QED BY <2>3, <2>4
<1>4. CASE UNCHANGED <<play, sends>> BY <1>4 DEF PlaygroundWaits
<1> QED
  BY <1>1, <1>2, <1>3, <1>4 DEF Cluster!Next, Cluster!vars, Cluster!app, Cluster!views,
       Cluster!TelemetryTick, Cluster!SetWorkload,
     Cluster!SelectTrace, Cluster!SelectNode, Cluster!Topology, Cluster!HandleScale,
     Cluster!HandleTogglePower, Cluster!HandleRestart,
     Cluster!RestartEnds, Cluster!Designer, Cluster!Rescan, Cluster!ScanAnswers,
     Cluster!ScanFails, Cluster!ShowWorkspace,
     Cluster!ShowGenerator, Cluster!SelectFile, Cluster!HandleGenerateService,
     Cluster!BuildAnswered, Cluster!BuildFails,
     Cluster!BuildDeploys

LEMMA FileOnViewStep ==
    ASSUME DesignTyped, FileOnView, [Cluster!Next]_(Cluster!vars) PROVE FileOnView'
<1> designer \in DesignerState BY DEF DesignTyped
<1>1. Cluster!FirstFile \in Cluster!GeneratedFiles BY DEF Cluster!FirstFile,
     Cluster!GeneratedFiles
<1>2. "README.md" \in Cluster!WorkspaceFiles
  <2>1. \E e \in Disk : e.path = "README.md" /\ ~e.skipped /\ ~e.large
    BY CA DEF Cluster!ClusterAssumption
  <2> QED BY <2>1 DEF Cluster!WorkspaceFiles
<1>3. ASSUME NEW t \in Cluster!Tabs, Cluster!SetActiveTab(t) PROVE FileOnView'
  <2>1. designer'.mode = "workspace" /\ ~designer'.disk
    BY <1>3 DEF Cluster!SetActiveTab, Cluster!Mount, Cluster!NewDesigner
  <2>2. Cluster!FilesOf(designer.mode)' = {} BY <2>1 DEF Cluster!FilesOf
  <2> QED BY <2>2 DEF FileOnView
<1>4. CASE Cluster!Rescan \/ Cluster!ScanFails
  <2>1. /\ designer'.mode = designer.mode /\ designer'.disk = designer.disk
        /\ designer'.generated = designer.generated /\ designer'.file = designer.file
        /\ designer'.crossed = designer.crossed
    BY <1>4 DEF Cluster!Rescan, Cluster!ScanFails, DesignerState
  <2> QED BY <2>1 DEF FileOnView, Cluster!FilesOf
<1>5. CASE Cluster!ScanAnswers
  <2>1. /\ designer'.mode = designer.mode /\ designer'.disk
        /\ designer'.file = "README.md"
        /\ designer'.crossed <=> designer.mode = "generator"
    BY <1>5 DEF Cluster!ScanAnswers, DesignerState
  <2>2. CASE designer.mode = "generator" BY <2>1, <2>2 DEF FileOnView
  <2>3. CASE designer.mode = "workspace"
    <3>1. Cluster!FilesOf(designer.mode)' = Cluster!WorkspaceFiles
      BY <2>1, <2>3 DEF Cluster!FilesOf
    <3> QED BY <1>2, <2>1, <3>1 DEF FileOnView
  <2> QED BY <2>2, <2>3 DEF DesignerState
<1>6. CASE Cluster!ShowWorkspace
  <2>1. CASE designer.disk
    <3>1. designer'.mode = "workspace" /\ designer'.disk /\ designer'.file = "README.md"
      BY <1>6, <2>1 DEF Cluster!ShowWorkspace, DesignerState
    <3>2. Cluster!FilesOf(designer.mode)' = Cluster!WorkspaceFiles
      BY <3>1 DEF Cluster!FilesOf
    <3> QED BY <1>2, <3>1, <3>2 DEF FileOnView
  <2>2. CASE ~designer.disk
    <3>1. designer'.mode = "workspace" /\ ~designer'.disk
      BY <1>6, <2>2 DEF Cluster!ShowWorkspace, DesignerState
    <3>2. Cluster!FilesOf(designer.mode)' = {} BY <3>1 DEF Cluster!FilesOf
    <3> QED BY <3>2 DEF FileOnView
  <2> QED BY <2>1, <2>2
<1>7. CASE Cluster!ShowGenerator
  <2>1. /\ designer'.mode = "generator" /\ designer'.generated = designer.generated
        /\ designer'.file = IF designer.generated THEN Cluster!FirstFile ELSE ""
    BY <1>7 DEF Cluster!ShowGenerator, DesignerState
  <2>2. CASE designer.generated
    <3>1. Cluster!FilesOf(designer.mode)' = Cluster!GeneratedFiles
      BY <2>1, <2>2 DEF Cluster!FilesOf
    <3> QED BY <1>1, <2>1, <2>2, <3>1 DEF FileOnView
  <2>3. CASE ~designer.generated
    <3>1. Cluster!FilesOf(designer.mode)' = {} BY <2>1, <2>3 DEF Cluster!FilesOf
    <3> QED BY <3>1 DEF FileOnView
  <2> QED BY <2>2, <2>3
<1>8. ASSUME NEW f, Cluster!SelectFile(f) PROVE FileOnView'
  <2>1. /\ designer'.mode = designer.mode /\ designer'.disk = designer.disk
        /\ designer'.generated = designer.generated /\ designer'.file = f
        /\ f \in Cluster!FilesOf(designer.mode)
    BY <1>8 DEF Cluster!SelectFile, DesignerState
  <2>2. Cluster!FilesOf(designer.mode)' = Cluster!FilesOf(designer.mode)
    BY <2>1 DEF Cluster!FilesOf
  <2> QED BY <2>1, <2>2 DEF FileOnView
<1>9. ASSUME NEW b \in Builds, NEW n \in Names, Cluster!HandleGenerateService(b, n)
      PROVE  FileOnView'
  <2>1. designer'.mode = "generator" /\ ~designer'.generated
    BY <1>9 DEF Cluster!HandleGenerateService, DesignerState
  <2>2. Cluster!FilesOf(designer.mode)' = {} BY <2>1 DEF Cluster!FilesOf
  <2> QED BY <2>2 DEF FileOnView
<1>10. ASSUME NEW b \in Builds, Cluster!BuildFails(b) PROVE FileOnView'
  <2>1. /\ designer'.mode = designer.mode /\ designer'.disk = designer.disk
        /\ designer'.generated = designer.generated /\ designer'.file = designer.file
        /\ designer'.crossed = designer.crossed
    BY <1>10 DEF Cluster!BuildFails, DesignerState
  <2> QED BY <2>1 DEF FileOnView, Cluster!FilesOf
<1>11. ASSUME NEW b \in Builds, Cluster!BuildDeploys(b) PROVE FileOnView'
  <2>1. CASE ~builds[b].own
    <3>1. designer' = designer BY <1>11, <2>1 DEF Cluster!BuildDeploys
    <3> QED BY <3>1 DEF FileOnView, Cluster!FilesOf
  <2>2. CASE builds[b].own
    <3>1. /\ designer'.mode = designer.mode /\ designer'.generated
          /\ designer'.file = Cluster!FirstFile
          /\ designer'.crossed <=> designer.mode = "workspace"
      BY <1>11, <2>2 DEF Cluster!BuildDeploys, DesignerState
    <3>2. CASE designer.mode = "workspace" BY <3>1, <3>2 DEF FileOnView
    <3>3. CASE designer.mode = "generator"
      <4>1. Cluster!FilesOf(designer.mode)' = Cluster!GeneratedFiles
        BY <3>1, <3>3 DEF Cluster!FilesOf
      <4> QED BY <1>1, <3>1, <4>1 DEF FileOnView
    <3> QED BY <3>2, <3>3 DEF DesignerState
  <2> QED BY <2>1, <2>2
<1>12. ASSUME NEW b \in Builds, Cluster!BuildAnswered(b) PROVE UNCHANGED designer
  BY <1>12 DEF Cluster!BuildAnswered, Cluster!views
<1>13. CASE UNCHANGED designer BY <1>13 DEF FileOnView, Cluster!FilesOf
<1> QED
  BY <1>3, <1>4, <1>5, <1>6, <1>7, <1>8, <1>9, <1>10, <1>11, <1>12, <1>13, BuildSteps

-----------------------------------------------------------------------------

ClusterInv ==
    /\ NodesTyped /\ TrafficTyped /\ DesignTyped
    /\ \A i \in DOMAIN nodes : Told(nodes[i], restarts)
    /\ Registered
    /\ DesignerWaits /\ PlaygroundWaits /\ FileOnView

LEMMA ClusterInit == ASSUME Cluster!Init PROVE ClusterInv
<1>1. /\ Core \in Seq(CoreItem) /\ Core # <<>> /\ "normal" \in WorkloadLevels
      /\ HistoryCap \in Nat \ {0} /\ TraceCap \in Nat \ {0} /\ Names # {}
      /\ MaxScans \in Nat
  BY CA DEF Cluster!ClusterAssumption, CoreItem
<1>2. PICK n \in Nat : n = Len(Core) /\ DOMAIN Core = 1..n BY <1>1
<1>3. nodes = [i \in 1..n |-> Cluster!CoreNode(Core[i])] BY <1>2 DEF Cluster!Init
<1>4. ASSUME NEW i \in 1..n
      PROVE  /\ Cluster!CoreNode(Core[i]) \in Replica /\ nodes[i] = Cluster!CoreNode(Core[i])
             /\ nodes[i].port = Core[i].port /\ Told(nodes[i], restarts)
  <2>1. Core[i] \in CoreItem BY <1>1, <1>2
  <2>2. Core[i].id \in Cluster!Ids /\ Core[i].total \in Cluster!Totals
    BY <1>2 DEF Cluster!Ids,
       Cluster!Totals
  <2>3. Core[i].total \in Nat \ {0} /\ Core[i].port \in Nat BY <2>1 DEF CoreItem
  <2>4. Cluster!CoreNode(Core[i]) \in Replica
    BY <2>2, <2>3 DEF Cluster!CoreNode, Replica, Cluster!NodeStatuses
  <2>5. nodes[i] = Cluster!CoreNode(Core[i]) BY <1>3
  <2>6. Told(nodes[i], restarts) BY <2>3, <2>5 DEF Told, Steady, Cluster!CoreNode
  <2> QED BY <2>4, <2>5, <2>6 DEF Cluster!CoreNode
<1>5. nodes \in Seq(Replica) /\ Len(nodes) = n /\ nodes # <<>> /\ DOMAIN nodes = 1..n
  <2>1. nodes \in [1..n -> Replica] BY <1>3, <1>4
  <2>2. nodes \in Seq(Replica) /\ DOMAIN nodes = 1..n BY <2>1, SeqDef
  <2>3. Len(nodes) \in Nat /\ DOMAIN nodes = 1..Len(nodes) BY <2>2
  <2>4. Len(nodes) = n BY <2>2, <2>3, SameLength
  <2>5. n # 0 BY <1>1, <1>2
  <2> QED BY <2>2, <2>4, <2>5
<1>6. NodesTyped BY <1>5 DEF Cluster!Init, NodesTyped
<1>7. TrafficTyped
  <2>1. activeTab \in Cluster!Tabs /\ currentWorkload \in WorkloadLevels /\ opened \in 0..(TraceCap + 1)
    BY <1>1 DEF Cluster!Init, Cluster!Tabs
  <2>2. points \in Seq(Cluster!TelemetryPoint) /\ Len(points) <= HistoryCap
    <3>1. points \in [1..HistoryCap -> Cluster!TelemetryPoint]
      BY DEF Cluster!Init, Cluster!TelemetryPoint
    <3>2. points \in Seq(Cluster!TelemetryPoint) /\ DOMAIN points = 1..HistoryCap
      BY <1>1, <3>1, SeqDef
    <3>3. Len(points) \in Nat /\ DOMAIN points = 1..Len(points) BY <3>2
    <3>4. Len(points) = HistoryCap BY <1>1, <3>2, <3>3, SameLength
    <3> QED BY <1>1, <3>2, <3>4
  <2>3. Cluster!SeedTrace \in Cluster!Trace BY DEF Cluster!SeedTrace, Cluster!Trace,
       Cluster!Codes, Cluster!NoAnswer
  <2>4. traces \in Seq(Cluster!Trace) /\ Len(traces) <= TraceCap
    BY <1>1, <2>3 DEF Cluster!Init
  <2>5. play \in PlayState /\ sends \in Seq(Cluster!Send)
    BY DEF Cluster!Init, Cluster!NewPlay, PlayState, Cluster!NoAnswer
  <2> QED BY <2>1, <2>2, <2>4, <2>5 DEF TrafficTyped
<1>8. DesignTyped
  <2>1. "README.md" \in Cluster!WorkspaceFiles
    <3>1. \E e \in Disk : e.path = "README.md" /\ ~e.skipped /\ ~e.large
      BY CA DEF Cluster!ClusterAssumption
    <3> QED BY <3>1 DEF Cluster!WorkspaceFiles
  <2>2. designer \in DesignerState BY <2>1 DEF Cluster!Init, Cluster!NewDesigner,
       DesignerState
  <2>3. PICK name \in Names : name = CHOOSE k \in Names : TRUE BY <1>1
  <2>4. 0 \in Cluster!Sizes BY CoreLength, EndedFinite, ClusterCounted DEF Cluster!Sizes
  <2>5. [stage |-> "unused", own |-> FALSE, name |-> name, size |-> 0,
         overlapped |-> FALSE] \in Cluster!Build
    BY <2>4 DEF Cluster!Build
  <2>6. builds \in [Builds -> Cluster!Build] BY <2>3, <2>5 DEF Cluster!Init
  <2> QED BY <2>2, <2>6 DEF Cluster!Init, DesignTyped
<1>9. \A b \in Builds : builds[b].stage = "unused" /\ ~builds[b].own /\ ~builds[b].overlapped
  BY DEF Cluster!Init
<1>10. Registered
  <2>1. deployed = <<>> /\ Len(deployed) = 0 /\ DOMAIN deployed = {} BY DEF Cluster!Init
  <2>2. Cardinality(Ended) \in Nat BY EndedFinite
  <2>3. InTurn BY <1>2, <1>4, <1>5, <1>9 DEF InTurn, PortOf, Cluster!UnderWay
  <2> QED BY <1>2, <1>5, <1>9, <2>1, <2>2, <2>3 DEF Registered
<1>11. DesignerWaits BY <1>9 DEF Cluster!Init, Cluster!NewDesigner, DesignerWaits,
     Mine, Cluster!UnderWay
<1>12. PlaygroundWaits BY DEF Cluster!Init, Cluster!NewPlay, PlaygroundWaits
<1>13. FileOnView
  <2>1. designer.mode = "workspace" /\ ~designer.disk BY DEF Cluster!Init,
       Cluster!NewDesigner
  <2>2. Cluster!FilesOf(designer.mode) = {} BY <2>1 DEF Cluster!FilesOf
  <2> QED BY <2>2 DEF FileOnView
<1> QED
  BY <1>4, <1>5, <1>6, <1>7, <1>8, <1>10, <1>11, <1>12, <1>13 DEF ClusterInv

LEMMA PortsDiffer ==
    ASSUME NodesTyped, DesignTyped, Registered, InTurn,
           NEW i \in DOMAIN nodes, NEW j \in DOMAIN nodes, nodes[i].port = nodes[j].port
    PROVE  i = j
<1>1. /\ Core \in Seq(CoreItem)
      /\ \A k, l \in DOMAIN Core : k # l => Core[k].port # Core[l].port
      /\ \A k \in DOMAIN Core : Core[k].port < BasePort + Len(Core)
      /\ BasePort \in Nat
  BY CA DEF Cluster!ClusterAssumption, CoreItem
<1>2. \A k \in DOMAIN Core : Core[k].port \in Nat
  <2>1. \A k \in DOMAIN Core : Core[k] \in CoreItem BY <1>1
  <2> QED BY <2>1 DEF CoreItem
<1>3. nodes[i].port = PortOf(i) /\ nodes[j].port = PortOf(j) BY DEF InTurn
<1>4. i \in Nat \ {0} /\ j \in Nat \ {0} /\ Len(Core) \in Nat /\ DOMAIN Core = 1..Len(Core)
  BY <1>1 DEF NodesTyped
<1>9. PortOf(i) = PortOf(j) BY <1>3
<1>5. CASE i <= Len(Core) /\ j <= Len(Core)
  <2>1. i \in DOMAIN Core /\ j \in DOMAIN Core BY <1>4, <1>5
  <2>2. Core[i].port = Core[j].port BY <1>9, <1>5 DEF PortOf
  <2> QED BY <1>1, <2>1, <2>2
<1>6. CASE i > Len(Core) /\ j > Len(Core)
  <2>1. PortOf(i) = BasePort + i - 1 BY <1>4, <1>6 DEF PortOf
  <2>2. PortOf(j) = BasePort + j - 1 BY <1>4, <1>6 DEF PortOf
  <2>3. BasePort + i - 1 = BasePort + j - 1 BY <1>9, <2>1, <2>2
  <2>4. BasePort \in Nat /\ i \in Nat /\ j \in Nat BY <1>1, <1>4
  <2> QED BY <2>3, <2>4
<1>7. CASE i <= Len(Core) /\ j > Len(Core)
  <2>1. PortOf(i) < BasePort + Len(Core) /\ PortOf(i) \in Nat
    BY <1>1, <1>2, <1>4, <1>7 DEF PortOf
  <2>2. PortOf(j) = BasePort + j - 1 BY <1>4, <1>7 DEF PortOf
  <2>3. BasePort + j - 1 < BasePort + Len(Core) BY <1>9, <2>1, <2>2
  <2>4. BasePort \in Nat /\ j \in Nat /\ Len(Core) \in Nat /\ j > Len(Core)
    BY <1>1, <1>4, <1>7
  <2> QED BY <2>3, <2>4
<1>8. CASE i > Len(Core) /\ j <= Len(Core)
  <2>1. PortOf(j) < BasePort + Len(Core) /\ PortOf(j) \in Nat
    BY <1>1, <1>2, <1>4, <1>8 DEF PortOf
  <2>2. PortOf(i) = BasePort + i - 1 BY <1>4, <1>8 DEF PortOf
  <2>3. BasePort + i - 1 < BasePort + Len(Core) BY <1>9, <2>1, <2>2
  <2>4. BasePort \in Nat /\ i \in Nat /\ Len(Core) \in Nat /\ i > Len(Core)
    BY <1>1, <1>4, <1>8
  <2> QED BY <2>3, <2>4
<1> QED BY <1>4, <1>5, <1>6, <1>7, <1>8

LEMMA ClusterInvTells ==
    ASSUME ClusterInv
    PROVE  Cluster!TypeOK /\ Cluster!StatusTellsReplicas /\ Cluster!DeploysAreRegistered /\ Cluster!ViewsAreCurrent
<1> USE DEF ClusterInv
<1>1. Cluster!TypeOK
  <2>1. Replica \subseteq Cluster!ServiceNode BY TotalsArePositive DEF Replica,
       Cluster!ServiceNode
  <2>2. nodes \in Seq(Cluster!ServiceNode)
    <3>1. nodes \in Seq(Replica) BY DEF NodesTyped
    <3> QED BY <2>1, <3>1
  <2> QED BY <2>2 DEF Cluster!TypeOK, NodesTyped, TrafficTyped, DesignTyped, Restart,
       PlayState, DesignerState
<1>2. Cluster!StatusTellsReplicas BY DEF Cluster!StatusTellsReplicas, Told, Steady, Waits
<1>3. Cluster!DeploysAreRegistered
  <2>1. ASSUME \A b \in Builds : ~builds[b].overlapped PROVE InTurn
    BY <2>1 DEF Registered
  <2>2. (\A b \in Builds : ~builds[b].overlapped) =>
          \A i, j \in DOMAIN nodes : nodes[i].port = nodes[j].port => i = j
    BY <2>1, PortsDiffer
  <2> QED BY <2>2 DEF Cluster!DeploysAreRegistered, Registered
<1>4. Cluster!ViewsAreCurrent
  BY DEF Cluster!ViewsAreCurrent, DesignerWaits, PlaygroundWaits, FileOnView, Mine
<1> QED BY <1>1, <1>2, <1>3, <1>4

LEMMA ClusterHolds ==
    Cluster!Spec => [](Cluster!TypeOK /\ Cluster!StatusTellsReplicas /\ Cluster!DeploysAreRegistered /\ Cluster!ViewsAreCurrent)
<1>1. Cluster!Init => ClusterInv BY ClusterInit
<1>2. ClusterInv /\ [Cluster!Next]_(Cluster!vars) => ClusterInv'
  <2> SUFFICES ASSUME ClusterInv, [Cluster!Next]_(Cluster!vars) PROVE ClusterInv' OBVIOUS
  <2>1. NodesTyped' /\ TrafficTyped' /\ DesignTyped'
    BY NodesTypedStep, TrafficTypedStep, DesignTypedStep DEF ClusterInv
  <2>2. (\A i \in DOMAIN nodes : Told(nodes[i], restarts))'
    BY ToldStep DEF ClusterInv
  <2>3. Registered' BY RegisteredStep DEF ClusterInv
  <2>4. DesignerWaits' /\ PlaygroundWaits' /\ FileOnView'
    BY DesignerWaitsStep, PlaygroundWaitsStep, FileOnViewStep DEF ClusterInv
  <2> QED BY <2>1, <2>2, <2>3, <2>4 DEF ClusterInv
<1>3. ClusterInv => Cluster!TypeOK /\ Cluster!StatusTellsReplicas /\ Cluster!DeploysAreRegistered /\ Cluster!ViewsAreCurrent
  BY ClusterInvTells
<1> QED BY <1>1, <1>2, <1>3, PTL DEF Cluster!Spec

\* However clicks, restart timers and builds interleave: the status of a node tells
\* its pods, what was deployed is registered on a port of its own, and the views
\* wait and show as they should (App.tsx:23-359, TopologyView.tsx:27-75,
\* Playground.tsx:32-116, ServiceDesigner.tsx:42-154).
THEOREM ClusterStaysTold == Cluster!Spec => []ClusterIsTold
BY ClusterHolds, PTL DEF ClusterIsTold

-----------------------------------------------------------------------------
\* The console runs each view as it runs alone.
THEOREM ConsolesRunTheirParts ==
    ConsolesSpec => GitOpsSpec /\ Cluster!Spec /\ Events!Spec /\ Testing!Spec
<1>1. ConsolesInit => GitOpsInit /\ Cluster!Init /\ Events!Init /\ Testing!Init
  BY DEF ConsolesInit
<1>2. [ConsolesNext]_<<screen, gitopsVars, clusterVars, eventVars, testingVars>> =>
        /\ [GitOpsNext]_gitopsVars /\ [Cluster!Next]_(Cluster!vars)
        /\ [Events!Next]_(Events!vars) /\ [Testing!Next]_(Testing!vars)
  BY Zenon DEF ConsolesNext, OfGitOps, OfCluster, OfEvents, OfTesting, clusterVars,
     eventVars, testingVars, Cluster!vars, Cluster!app, Cluster!views, Events!vars,
     Events!queues, Events!commands,
     Testing!vars
<1> QED BY <1>1, <1>2, PTL DEF ConsolesSpec, GitOpsSpec, Cluster!Spec, Events!Spec, Testing!Spec
=============================================================================
