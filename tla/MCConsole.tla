------------------------------ MODULE MCConsole ------------------------------
(***************************************************************************)
(* The consoles, with and without a platform on the server, on small       *)
(* instances.  They share no state.  Within one there are panels that work *)
(* on the same state: a behaviour is one of the panel that panel names, in *)
(* the platform that part or the view that screen names, and leaves what   *)
(* only the other panels work on as it was.                                *)
(***************************************************************************)
EXTENDS Platforms, Consoles

CONSTANTS w1, credentials, added, x, y, tk, ingress, rego, edited,
          key1, key2, key3, key4, auth, other, alice, bob, s1, s2, p1, p2

VARIABLE panel

PlatformPanels == ("zero trust" :> {"tables", "spinners"}) @@ ("ai" :> {"jobs"})
Panels == [gitops |-> {"infrastructure", "delivery", "scaling", "rollout", "watching"},
          cluster |-> {"design", "load", "traffic"},
          events |-> {"queues", "lists", "topics"},
          testing |-> {"suites", "faults"}]

platformVars == <<part, vars, aiVars>>
consoleVars == <<screen, gitopsVars, clusterVars, eventVars, testingVars>>

MCInit ==
    /\ PlatformsInit /\ ConsolesInit
    /\ \/ screen = "gitops" /\ panel \in PlatformPanels[part]
       \/ part = "ai" /\ panel \in Panels[screen]

-----------------------------------------------------------------------------

GitOpsPanels ==
    /\ panel # "infrastructure" => UNCHANGED iac
    /\ panel # "delivery" => UNCHANGED <<gha, argo, syncs>>
    /\ panel # "scaling" => UNCHANGED <<hpa, scalings>>
    /\ panel # "rollout" => UNCHANGED <<rolling, canary, rollbacks, blueGreen>>
    /\ panel # "watching" => UNCHANGED <<alerts, scan>>

PanelTabs == [design |-> {"topology", "designer"},
             load |-> {"topology", "metrics"},
             traffic |-> {"metrics", "tracing", "playground"}]
ClusterPanels ==
    /\ panel = "design" => UNCHANGED <<points, traces>>
    /\ activeTab' \in PanelTabs[panel]

CONSTANTS t1, t2, t3
Provisioned(counts) ==
    {n \in DOMAIN counts : Len(counts[n]) # Len(Events!SeedTopics[n])}
EventPanels ==
    /\ panel = "queues" => /\ UNCHANGED <<snapshots, schemas>>
                          /\ Provisioned(topics') = {} /\ Len(replays') < 2
    /\ panel = "lists" => Provisioned(topics') = {} /\ command'.id # t3
    /\ panel = "topics" => /\ UNCHANGED <<snapshots, schemas, replays>>
                           /\ Cardinality(Provisioned(topics')) < 2
                           /\ command'.id # t3

TestingPanels ==
    /\ panel = "suites" => UNCHANGED virtualUsers /\ faults' \subseteq {"db"}
    /\ panel = "faults" => UNCHANGED <<runs, starting>>

\* Calls that change the tables, and calls that turn a spinner.
PanelOps == [tables |-> Ops \ {"issueJwt", "evaluate", "simulate"},
             spinners |-> Spinning \cup {"load"}]
PlatformPanel ==
    /\ panel \in PlatformPanels[part]
    /\ part = "zero trust" => \A c \in Calls : calls'[c].op \in PanelOps[panel]

MCNext ==
    /\ UNCHANGED panel
    /\ \/ PlatformsNext /\ PlatformPanel /\ UNCHANGED consoleVars
       \/ panel \in Panels[screen] /\ UNCHANGED platformVars
          /\ \/ OfGitOps /\ GitOpsNext /\ GitOpsPanels
             \/ OfCluster /\ Cluster!Next /\ ClusterPanels
             \/ OfEvents /\ Events!Next /\ EventPanels
             \/ OfTesting /\ Testing!Next /\ TestingPanels

MCSpec == MCInit /\ [][MCNext]_<<panel, platformVars, consoleVars>>

-----------------------------------------------------------------------------

SeedVersion == [p \in Paths |-> IF p = credentials THEN 1 ELSE 0]
RolesOf == [u \in Users |->
              IF u = alice THEN {"admin", "security-engineer"} ELSE {"developer"}]

SomeSettings == {[field |-> "routingStrategy", value |-> "static"],
                 [field |-> "failoverEnabled", value |-> FALSE]}
Text == [words |-> "few", code |-> FALSE, fail |-> FALSE]
FailingText == [Text EXCEPT !.fail = TRUE]
CodeText == [Text EXCEPT !.code = TRUE]
SomeChats == {Text, FailingText}
SomeQueries == {CodeText}

CoreNodes == <<[id |-> "compute-engine", port |-> 8080, total |-> 2],
               [id |-> "postgres-db", port |-> 5432, total |-> 1]>>
Slugs == [n \in Names |-> IF n = "Postgres DB" THEN "postgres-db" ELSE "payments"]
Entries == {[path |-> "README.md", skipped |-> FALSE, large |-> FALSE],
            [path |-> ".git/config", skipped |-> TRUE, large |-> FALSE]}

Seeds == <<t1>>
Typed(schema, blank, high, fail) ==
    [schema |-> schema, blank |-> blank, high |-> high, fail |-> fail]
SomeForms == {Typed(1, {}, TRUE, TRUE), Typed(1, {}, FALSE, FALSE),
              Typed(2, {"tenant_id"}, FALSE, FALSE)}
SomeSchemas == {[eventType |-> "TransactionCreated", version |-> 1,
                 fields |-> {"id", "amount", "created_by", "tenant_id"}]}

SuiteLines == [s \in Suites |-> IF s = "chaos" THEN 3 ELSE 2]
=============================================================================
