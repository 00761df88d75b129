---------------------------- MODULE ComputeEngine ----------------------------
(***************************************************************************)
(* The compute engine: the transaction service over its event store, and   *)
(* the broker.  The two share no state (the service dispatches to its own  *)
(* handler, not over the broker), so a behaviour is one of the one or of   *)
(* the other, as part says; the other stays as it was initially.           *)
(***************************************************************************)
EXTENDS TransactionCQRS

CONSTANTS Events, InvalidEvents, Topics, Handlers, Broken, Flaky, MaxRetries,
          BackoffBase, FailureCap

VARIABLES part, topics, consumers, running, retryQueue, deadLetter, loop,
          published, succeeded, failures

Broker == INSTANCE KafkaCluster

ASSUME BrokerAssumption == Broker!ClusterAssumption

brokerVars == <<topics, consumers, running, retryQueue, deadLetter, loop,
                published, succeeded, failures>>
all == <<part, vars, brokerVars>>

EngineInit == Init /\ Broker!Init /\ part \in {"service", "broker"}

OfService == part = "service" /\ UNCHANGED <<part, brokerVars>>
OfBroker == part = "broker" /\ UNCHANGED <<part, vars>>

\* Every request has been answered and every handler has run.
Served ==
    /\ part = "service"
    /\ \A r \in Requests : pc[r] = "done"
    /\ deliveries = {}
    /\ UNCHANGED all

EngineNext ==
    \/ OfService /\ Next
    \/ OfBroker /\ Broker!Next
    \/ Served

\* FairSpec of the service, FairHandlersSpec of the broker.
EngineSpec ==
    /\ EngineInit /\ [][EngineNext]_all
    /\ \A r \in Requests : WF_all(OfService /\ RequestSteps(r))
    /\ WF_all(OfService /\ Dispatching)
    /\ WF_all(OfBroker /\ Broker!Goroutines)
    /\ WF_all(OfBroker /\ Broker!Elapse)
    /\ WF_all(OfBroker /\ Broker!LoopSteps)
    /\ SF_all(OfBroker /\ Broker!RetrySucceeds)

\* The broker: types, and no failed delivery is forgotten or dead-lettered
\* before its time.
BrokerIsSound ==
    Broker!TypeOK /\ Broker!NoFailureForgotten /\ Broker!DeadLettersAreEarned

\* An event sent to a subscriber is handled by one or dead-lettered.
SentIsSettled == Broker!SentIsSettled
=============================================================================
