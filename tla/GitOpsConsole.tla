---------------------------- MODULE GitOpsConsole ----------------------------
(***************************************************************************)
(* The GitOps view of the console (GitOpsDashboard.tsx): Terraform, the    *)
(* CI pipeline and ArgoCD, the autoscaler, the rolling, canary and         *)
(* blue-green simulators, alerts and the readiness scan.                   *)
(*                                                                         *)
(* Every operation is a chain of timers that no later click cancels; a     *)
(* click is allowed by what the buttons and the handlers check.  What the  *)
(* chains print is left out, and so are the steps of one that only print.  *)
(***************************************************************************)
EXTENDS Integers, Sequences, SequencesExt, FiniteSets

CONSTANTS
    IacSettings,        \* values of the infrastructure form
    SeedSettings,
    Weights,            \* of the canary slider
    ScanSteps,          \* lines of the readiness scan (54)
    MaxVersion, MaxSyncs, MaxScalings, MaxRollbacks  \* bound what piles up

ASSUME GitOpsAssumption ==
    /\ SeedSettings \in IacSettings
    /\ Weights \subseteq 0..100 /\ 10 \in Weights
    /\ ScanSteps \in Nat \ {0}
    /\ {MaxVersion, MaxSyncs, MaxScalings, MaxRollbacks} \subseteq Nat

VARIABLES
    iac,        \* the Terraform form, its run and what was planned
    gha,        \* stage of the pipeline
    argo,       \* the synchronisation and the version the pipeline made
    syncs,      \* versions that the running synchronisations started from
    hpa,        \* the autoscaler
    scalings,   \* its chains of timers: [up, step]
    rolling,    \* the rolling update
    canary,
    rollbacks,  \* pending rollback timers of the canary
    blueGreen,
    alerts,     \* names of the active alerts
    telemetry,  \* the newest point
    scan

gitopsVars == <<iac, gha, argo, syncs, hpa, scalings, rolling, canary, rollbacks,
                blueGreen, alerts, telemetry, scan>>
delivery == <<iac, gha, argo, syncs>>
strategies == <<hpa, scalings, rolling, canary, rollbacks, blueGreen>>
watching == <<alerts, telemetry, scan>>

-----------------------------------------------------------------------------
(* Records *)

IacStates == {"stale", "planned", "applied"}
GhaStates == {"idle", "testing", "building", "git_tagging", "completed"}
ArgoSyncStates == {"Synced", "OutOfSync", "Syncing", "Degraded"}
Loads == {"low", "mid", "high"}         \* up to 500, between, 4000 and more
AutoScaleStatuses == {"idle", "scaling_up", "stabilized", "scaling_down"}
PodStatuses == {"Healthy", "Terminating", "Pending", "Ready"}
Pod == [id : 1..12, version : {"V1", "V2"}, status : PodStatuses]
CanaryStatuses == {"idle", "active_traffic", "error_detected", "rollbacked",
                   "fully_promoted"}
BgStatuses == {"stable", "deploying_green", "green_staged", "cutting_over",
               "rollback"}
AlertNames == {"PodInCrashLoop", "APIHighLatencyP99", "CloudSQLConnectionsExhausted"}

PodOf(i, version, status) == [id |-> i, version |-> version, status |-> status]
LegacyPods == {PodOf(i, "V1", "Healthy") : i \in 1..6}

GitOpsInit ==
    /\ iac = [settings |-> SeedSettings, state |-> "stale", planning |-> FALSE,
              applying |-> FALSE, planned |-> SeedSettings, edited |-> FALSE]
    /\ gha = "idle"
    /\ argo = [state |-> "Synced", version |-> 1, live |-> 1, crossed |-> FALSE]
    /\ syncs = <<>>
    /\ hpa = [target |-> "low", replicas |-> 3, status |-> "idle",
              overlapped |-> FALSE]
    /\ scalings = <<>>
    /\ rolling = [state |-> "idle", step |-> 0, pods |-> LegacyPods]
    /\ canary = [weight |-> 10, running |-> FALSE, status |-> "idle", error |-> FALSE]
    /\ rollbacks = 0
    /\ blueGreen = [active |-> "blue", status |-> "stable", ready |-> 0]
    /\ alerts = {}
    /\ telemetry = [memory |-> FALSE, latency |-> FALSE, database |-> FALSE]
    /\ scan = [state |-> "idle", done |-> ScanSteps]

-----------------------------------------------------------------------------
(* Terraform *)

IacIdle == ~iac.planning /\ ~iac.applying
PlanEnabled == IacIdle
ApplyEnabled == IacIdle /\ iac.state = "planned"

\* Fault: an edit leaves the plan standing.
EditSettingsPlanned(s) ==
    /\ s # iac.settings
    /\ iac' = [iac EXCEPT !.settings = s, !.edited = iac.edited \/ ~IacIdle]
    /\ UNCHANGED <<gha, argo, syncs, strategies, watching>>

\* edited: the form changed under a run, whose end says nothing of it.
EditSettings(s) ==
    /\ s # iac.settings
    /\ iac' = [iac EXCEPT !.settings = s, !.state = "stale",
                          !.edited = iac.edited \/ ~IacIdle]
    /\ UNCHANGED <<gha, argo, syncs, strategies, watching>>

TriggerTerraformPlan ==
    /\ PlanEnabled
    /\ iac' = [iac EXCEPT !.planning = TRUE, !.planned = iac.settings,
                          !.edited = FALSE]
    /\ UNCHANGED <<gha, argo, syncs, strategies, watching>>

PlanEnds ==
    /\ iac.planning
    /\ iac' = [iac EXCEPT !.planning = FALSE, !.state = "planned"]
    /\ UNCHANGED <<gha, argo, syncs, strategies, watching>>

TriggerTerraformApply ==
    /\ ApplyEnabled
    /\ iac' = [iac EXCEPT !.applying = TRUE]
    /\ UNCHANGED <<gha, argo, syncs, strategies, watching>>

ApplyEnds ==
    /\ iac.applying
    /\ iac' = [iac EXCEPT !.applying = FALSE, !.state = "applied"]
    /\ UNCHANGED <<gha, argo, syncs, strategies, watching>>

-----------------------------------------------------------------------------
(* The pipeline and ArgoCD *)

PipelineEnabled == gha = "idle"
SyncEnabled == argo.state \notin {"Syncing", "Synced"}

TriggerGhaPipeline ==
    /\ PipelineEnabled
    /\ argo.version < MaxVersion
    /\ gha' = "testing"
    /\ UNCHANGED <<iac, argo, syncs, strategies, watching>>

AdvancePipeline(from, to) ==
    /\ gha = from
    /\ gha' = to
    /\ UNCHANGED <<iac, argo, syncs, strategies, watching>>

\* crossed: a synchronisation that started from an older version is running.
PipelineCompletes ==
    /\ gha = "git_tagging"
    /\ gha' = "completed"
    /\ argo' = [argo EXCEPT !.state = "OutOfSync", !.version = @ + 1,
                            !.crossed = syncs # <<>>]
    /\ UNCHANGED <<iac, syncs, strategies, watching>>

TriggerArgoSync ==
    /\ SyncEnabled
    /\ Len(syncs) < MaxSyncs
    /\ argo' = [argo EXCEPT !.state = "Syncing"]
    /\ syncs' = Append(syncs, argo.version)
    /\ UNCHANGED <<iac, gha, strategies, watching>>

\* The last line of a synchronisation; delays are random, so any may end.
SyncEnds(i) ==
    /\ argo' = [argo EXCEPT !.state = "Synced",
                   !.live = IF syncs[i] > @ THEN syncs[i] ELSE @]
    /\ syncs' = RemoveAt(syncs, i)
    /\ UNCHANGED <<iac, gha, strategies, watching>>

-----------------------------------------------------------------------------
(* The autoscaler *)

\* A chain starts from the load and the replicas of the click.
Chain(load) ==
    CASE load = "high" -> <<[up |-> TRUE, step |-> 1]>>
      [] load = "low" /\ hpa.replicas > 3 -> <<[up |-> FALSE, step |-> 1]>>
      [] OTHER -> <<>>
ChainStatus(load) ==
    CASE load = "high" -> "scaling_up"
      [] load = "low" /\ hpa.replicas > 3 -> "scaling_down"
      [] OTHER -> "idle"

TriggerTrafficLoad(load) ==
    /\ Len(scalings) < MaxScalings
    /\ hpa' = [hpa EXCEPT !.target = load, !.status = ChainStatus(load),
                          !.overlapped = scalings # <<>>]
    /\ scalings' = scalings \o Chain(load)
    /\ UNCHANGED <<delivery, rolling, canary, rollbacks, blueGreen, watching>>

ScalingStep(i) ==
    /\ hpa' = IF scalings[i].step = 1
              THEN [hpa EXCEPT !.replicas = IF scalings[i].up THEN 6 ELSE 5]
              ELSE [hpa EXCEPT !.replicas = IF scalings[i].up THEN 9 ELSE 3,
                               !.status = IF scalings[i].up THEN "stabilized"
                                          ELSE "idle"]
    /\ scalings' = IF scalings[i].step = 1
                   THEN [scalings EXCEPT ![i].step = 2] ELSE RemoveAt(scalings, i)
    /\ UNCHANGED <<delivery, rolling, canary, rollbacks, blueGreen, watching>>

-----------------------------------------------------------------------------
(* The rolling update *)

Marked(pods, ids, status) ==
    {IF p.id \in ids THEN [p EXCEPT !.status = status] ELSE p : p \in pods}
Evacuated(pods, ids) == {p \in pods : p.id \notin ids}

PodsAfter(step, pods) ==
    CASE step = 1 -> pods \cup {PodOf(7, "V2", "Pending")}
      [] step = 2 -> Marked(Marked(pods, {1}, "Terminating"), {7}, "Ready")
      [] step = 3 -> Evacuated(pods, {1}) \cup {PodOf(8, "V2", "Pending")}
      [] step = 4 -> Marked(Marked(pods, {2, 3}, "Terminating"), {8}, "Ready")
      [] step = 5 -> Evacuated(pods, {2, 3})
                     \cup {PodOf(9, "V2", "Ready"), PodOf(10, "V2", "Ready")}
      [] step = 6 -> {PodOf(i, "V2", "Ready") : i \in 7..12}

RunRollingUpdate ==
    /\ rolling.state # "updating"
    /\ rolling' = [state |-> "updating", step |-> 0, pods |-> LegacyPods]
    /\ UNCHANGED <<delivery, hpa, scalings, canary, rollbacks, blueGreen, watching>>

RollingStep ==
    /\ rolling.state = "updating"
    /\ LET step == rolling.step + 1
       IN  rolling' = [state |-> IF step = 6 THEN "completed" ELSE "updating",
                       step |-> step, pods |-> PodsAfter(step, rolling.pods)]
    /\ UNCHANGED <<delivery, hpa, scalings, canary, rollbacks, blueGreen, watching>>

Serving == {p \in rolling.pods : p.status \in {"Healthy", "Ready"}}

-----------------------------------------------------------------------------
(* The canary *)

AnomalyEnabled == canary.running /\ canary.status # "error_detected"

ToggleCanarySimulator ==
    /\ canary' = [canary EXCEPT !.running = ~@,
                     !.status = IF canary.running THEN "idle" ELSE "active_traffic"]
    /\ UNCHANGED <<delivery, hpa, scalings, rolling, rollbacks, blueGreen, watching>>

SetCanaryWeight(w) ==
    /\ canary.running
    /\ canary' = [canary EXCEPT !.weight = w]
    /\ UNCHANGED <<delivery, hpa, scalings, rolling, rollbacks, blueGreen, watching>>

TriggerCanaryAnomaly ==
    /\ AnomalyEnabled
    /\ rollbacks < MaxRollbacks
    /\ canary' = [canary EXCEPT !.status = "error_detected"]
    /\ rollbacks' = rollbacks + 1
    /\ UNCHANGED <<delivery, hpa, scalings, rolling, blueGreen, watching>>

\* Fault: the rollback leaves the canary running.
CanaryRollsBackRunning ==
    /\ rollbacks > 0
    /\ canary' = [canary EXCEPT !.status = "rollbacked", !.weight = 0]
    /\ rollbacks' = rollbacks - 1
    /\ UNCHANGED <<delivery, hpa, scalings, rolling, blueGreen, watching>>

\* Five seconds later, whether or not the canary that failed still runs.
CanaryRollsBack ==
    /\ rollbacks > 0
    /\ canary' = [canary EXCEPT !.status = "rollbacked", !.weight = 0,
                                !.running = FALSE]
    /\ rollbacks' = rollbacks - 1
    /\ UNCHANGED <<delivery, hpa, scalings, rolling, blueGreen, watching>>

-----------------------------------------------------------------------------
(* Blue and green *)

DeployGreenEnabled == blueGreen.status = "stable"
GreenReplicas == 4

RunBlueGreenDeployment ==
    /\ DeployGreenEnabled
    /\ blueGreen' = [blueGreen EXCEPT !.status = "deploying_green", !.ready = 0]
    /\ UNCHANGED <<delivery, hpa, scalings, rolling, canary, rollbacks, watching>>

GreenReplicaSpawned ==
    /\ blueGreen.status = "deploying_green"
    /\ blueGreen' = [blueGreen EXCEPT !.ready = @ + 1,
                        !.status = IF blueGreen.ready + 1 = GreenReplicas
                                   THEN "green_staged" ELSE @]
    /\ UNCHANGED <<delivery, hpa, scalings, rolling, canary, rollbacks, watching>>

CutoverBlueGreen ==
    /\ blueGreen.status = "green_staged"
    /\ blueGreen' = [blueGreen EXCEPT !.status = "cutting_over"]
    /\ UNCHANGED <<delivery, hpa, scalings, rolling, canary, rollbacks, watching>>

CutoverEnds ==
    /\ blueGreen.status = "cutting_over"
    /\ blueGreen' = [blueGreen EXCEPT !.status = "stable",
                        !.active = IF @ = "blue" THEN "green" ELSE "blue"]
    /\ UNCHANGED <<delivery, hpa, scalings, rolling, canary, rollbacks, watching>>

-----------------------------------------------------------------------------
(* Alerts, telemetry and the readiness scan *)

TriggerAlertRule(a) ==
    /\ alerts' = IF a \in alerts THEN alerts \ {a} ELSE alerts \cup {a}
    /\ UNCHANGED <<delivery, strategies, telemetry, scan>>

\* What an active alert does to the next point; the other figures are noise.
\* A running canary has its error rate read in the same tick.
TelemetryTick ==
    /\ telemetry' = [memory |-> "PodInCrashLoop" \in alerts,
                     latency |-> "APIHighLatencyP99" \in alerts,
                     database |-> "CloudSQLConnectionsExhausted" \in alerts]
    /\ canary' = IF canary.running
                 THEN [canary EXCEPT !.error = canary.status = "error_detected"]
                 ELSE canary
    /\ UNCHANGED <<delivery, hpa, scalings, rolling, rollbacks, blueGreen, alerts,
                   scan>>

RunReadinessScan ==
    /\ scan.state # "scanning"
    /\ scan' = [state |-> "scanning", done |-> 0]
    /\ UNCHANGED <<delivery, strategies, alerts, telemetry>>

ScanProgress == (scan.done * 100) \div ScanSteps

\* Fault: the scan goes on one line past the last.
ScanStepBeyond ==
    /\ scan.state = "scanning"
    /\ scan' = [state |-> IF scan.done = ScanSteps THEN "completed" ELSE "scanning",
                done |-> scan.done + 1]
    /\ UNCHANGED <<delivery, strategies, alerts, telemetry>>

ScanStep ==
    /\ scan.state = "scanning"
    /\ scan' = [state |-> IF scan.done + 1 = ScanSteps THEN "completed"
                          ELSE "scanning",
                done |-> scan.done + 1]
    /\ UNCHANGED <<delivery, strategies, alerts, telemetry>>

-----------------------------------------------------------------------------

GitOpsNext ==
    \/ \E s \in IacSettings : EditSettings(s)
    \/ TriggerTerraformPlan \/ PlanEnds \/ TriggerTerraformApply \/ ApplyEnds
    \/ TriggerGhaPipeline
    \/ AdvancePipeline("testing", "building")
    \/ AdvancePipeline("building", "git_tagging")
    \/ PipelineCompletes
    \/ AdvancePipeline("completed", "idle")
    \/ TriggerArgoSync
    \/ \E i \in DOMAIN syncs : SyncEnds(i)
    \/ \E l \in Loads : TriggerTrafficLoad(l)
    \/ \E i \in DOMAIN scalings : ScalingStep(i)
    \/ RunRollingUpdate \/ RollingStep
    \/ ToggleCanarySimulator \/ TriggerCanaryAnomaly \/ CanaryRollsBack
    \/ \E w \in Weights : SetCanaryWeight(w)
    \/ RunBlueGreenDeployment \/ GreenReplicaSpawned
    \/ CutoverBlueGreen \/ CutoverEnds
    \/ \E a \in AlertNames : TriggerAlertRule(a)
    \/ TelemetryTick
    \/ RunReadinessScan \/ ScanStep

GitOpsSpec == GitOpsInit /\ [][GitOpsNext]_gitopsVars

-----------------------------------------------------------------------------
(* Properties *)

\* Types of the variables.
GitOpsTypeOK ==
    /\ iac \in [settings : IacSettings, state : IacStates, planning : BOOLEAN,
                applying : BOOLEAN, planned : IacSettings, edited : BOOLEAN]
    /\ gha \in GhaStates
    /\ argo \in [state : ArgoSyncStates, version : Nat, live : Nat,
                 crossed : BOOLEAN]
    /\ syncs \in Seq(Nat)
    /\ hpa \in [target : Loads, replicas : 3..9, status : AutoScaleStatuses,
                overlapped : BOOLEAN]
    /\ scalings \in Seq([up : BOOLEAN, step : {1, 2}])
    /\ rolling.step \in 0..6 /\ rolling.pods \subseteq Pod
    /\ canary \in [weight : 0..100, running : BOOLEAN, status : CanaryStatuses,
                   error : BOOLEAN]
    /\ rollbacks \in Nat
    /\ blueGreen \in [active : {"blue", "green"}, status : BgStatuses,
                      ready : 0..GreenReplicas]
    /\ alerts \subseteq AlertNames
    /\ scan.done \in 0..ScanSteps

\* A plan or an application on screen is one of the settings on screen, unless
\* the form was edited while the run was under way.
PlansAreCurrent ==
    iac.state # "stale" /\ ~iac.edited => iac.planned = iac.settings

\* ArgoCD shows Synced only when a synchronisation has started from the newest
\* version, unless the pipeline made that version while one was running.
SyncedMeansLatest ==
    argo.state = "Synced" /\ ~argo.crossed => argo.live = argo.version

\* Once the timers have run out the replicas are those the load calls for,
\* unless a load was chosen while the timers of another were running.
ReplicasFollowLoad ==
    scalings = <<>> /\ ~hpa.overlapped =>
        /\ hpa.target = "high" => hpa.replicas = 9 /\ hpa.status = "stabilized"
        /\ hpa.target = "low" => hpa.replicas = 3 /\ hpa.status = "idle"

\* A plan, a synchronisation and the replicas on view are current.
DeliveryIsCurrent == PlansAreCurrent /\ SyncedMeansLatest /\ ReplicasFollowLoad

\* A roll-out never loses its guard: a canary in error has its rollback on the
\* way and one that runs is on view as running; a rolling update ends with six
\* new pods; and traffic is cut over only to four ready replicas.
RolloutsAreSafe ==
    /\ canary.running <=> canary.status \in {"active_traffic", "error_detected"}
    /\ canary.status = "error_detected" => rollbacks > 0
    /\ rolling.state = "completed" =>
         Cardinality(Serving) = 6 /\ \A p \in rolling.pods : p.version = "V2"
    /\ blueGreen.status \in {"green_staged", "cutting_over"} =>
         blueGreen.ready = GreenReplicas

\* What GitOpsDashboard.tsx says of a rolling update: "MaxUnavailable: 0" (923,
\* 1715), "Uptime continuity: 100% Guaranteed" (1719).  Then no step of it
\* leaves fewer pods serving than there were before the update.
UptimeIsContinuous == Cardinality(Serving) >= Cardinality(LegacyPods)

\* What GitOpsDashboard.tsx says of the end of the pipeline: ArgoCD is set out
\* of sync to let the user trigger a synchronisation.  Then a version that is
\* not live can be synchronised, now or by the run under way.
NewVersionCanBeSynced ==
    argo.live < argo.version =>
        SyncEnabled \/ \E i \in DOMAIN syncs : syncs[i] = argo.version
=============================================================================
