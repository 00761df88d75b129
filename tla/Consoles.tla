------------------------------ MODULE Consoles ------------------------------
(***************************************************************************)
(* The console without the platforms on the server: App with the views of  *)
(* the cluster, the event view, the GitOps view and the testing view.  App *)
(* shows one view at a time, and the last three keep their state to        *)
(* themselves: a behaviour is one of the view it names.                    *)
(***************************************************************************)
EXTENDS GitOpsConsole

CONSTANTS Core, BasePort, Pods, Names, Slug, WorkloadLevels, Offered, Disk, Keyed,
          HistoryCap, TraceCap, Builds, MaxRestarts, MaxSends, MaxScans
VARIABLES activeTab, currentWorkload, nodes, deployed, points, traces, selected,
          restarts, play, sends, designer, builds, opened

Cluster == INSTANCE ClusterConsole WITH telemetry <- points

CONSTANTS Transactions, SeedOrder, NewTopics, Forms, NewSchemas, MaxTopics,
          MaxSchemas, MaxReplays
VARIABLES events, snapshots, schemas, topics, retryQueue, dlq, readModel,
          processingState, command, replays, purged, rebuilt

Events == INSTANCE EventConsole WITH crossed <- rebuilt

CONSTANTS Suites, Lines, UserCounts, SeedUsers, None, MaxRuns, MaxNotes
VARIABLES runningSuite, runs, starting, consoleLogs, faults, notes,
          virtualUsers, curves, crossed

Testing == INSTANCE TestingConsole

ASSUME ConsolesAssumption ==
    /\ Cluster!ClusterAssumption /\ Events!EventAssumption
    /\ Testing!TestingAssumption

-----------------------------------------------------------------------------

VARIABLE screen

clusterVars == <<activeTab, currentWorkload, nodes, deployed, points, traces,
                 selected, restarts, play, sends, designer, builds, opened>>
eventVars == <<events, snapshots, schemas, topics, retryQueue, dlq, readModel,
               processingState, command, replays, purged, rebuilt>>
testingVars == <<runningSuite, runs, starting, consoleLogs, faults, notes,
                 virtualUsers, curves, crossed>>

ConsolesInit ==
    /\ GitOpsInit /\ Cluster!Init /\ Events!Init /\ Testing!Init
    /\ screen \in {"gitops", "cluster", "events", "testing"}

OfGitOps == screen = "gitops" /\ UNCHANGED <<screen, clusterVars, eventVars, testingVars>>
OfCluster == screen = "cluster" /\ UNCHANGED <<screen, gitopsVars, eventVars, testingVars>>
OfEvents == screen = "events" /\ UNCHANGED <<screen, gitopsVars, clusterVars, testingVars>>
OfTesting == screen = "testing" /\ UNCHANGED <<screen, gitopsVars, clusterVars, eventVars>>

ConsolesNext ==
    \/ OfGitOps /\ GitOpsNext
    \/ OfCluster /\ Cluster!Next
    \/ OfEvents /\ Events!Next
    \/ OfTesting /\ Testing!Next

ConsolesSpec ==
    ConsolesInit
    /\ [][ConsolesNext]_<<screen, gitopsVars, clusterVars, eventVars, testingVars>>

-----------------------------------------------------------------------------
(* Properties *)

\* The cluster: types; a node's status tells its pods, every deployed service
\* is registered, and the views wait and show as they should.
ClusterIsTold ==
    /\ Cluster!TypeOK /\ Cluster!StatusTellsReplicas
    /\ Cluster!DeploysAreRegistered /\ Cluster!ViewsAreCurrent

\* Events: types; rows, snapshots and rebuilds say what the streams say, and
\* no event, failure or count is lost.
StreamsAreTold ==
    Events!TypeOK /\ Events!RowsTellStreams /\ Events!NothingIsLost

\* Testing: types; a locked panel has its run, runs and curves are on view.
SuitesAreOnView ==
    /\ Testing!TypeOK /\ Testing!LockedByARun
    /\ Testing!RunsAreOnView /\ Testing!NotesTellFaults
=============================================================================
