---------------------------- MODULE KafkaCluster ----------------------------
(***************************************************************************)
(* MemoryKafkaCluster of compute-engine: topics, subscriptions, dispatch   *)
(* of a published event to one goroutine per subscriber, the retry queue   *)
(* and its polling loop, and the dead letter list                          *)
(* (repository/event_driven_impl.go).                                      *)
(*                                                                         *)
(* The mutex of the cluster protects single sections only: the retry loop  *)
(* takes its entries out of the queue in one section, runs the handlers    *)
(* with no lock, and routes a failure back in another.  Those sections are *)
(* the steps.  Handlers are the subscribers' own code: a call returns an   *)
(* error or not, as Broken and Flaky say.                                  *)
(*                                                                         *)
(* Entries are kept in sets, not slices: what is due is executed in any    *)
(* order, the code's queue order included.                                 *)
(***************************************************************************)
EXTENDS Integers, Sequences, FiniteSets

CONSTANTS
    Events,         \* event identifiers; each is published at most once
    InvalidEvents,  \* events the schema registry refuses
    Topics,         \* topic names
    Handlers,       \* consumer handlers that may subscribe
    Broken,         \* handlers whose every call fails
    Flaky,          \* handlers any call of which may fail; others never fail
    MaxRetries,     \* maxRetries, 3 in the code
    BackoffBase,    \* backoffBase in ticks of the retry loop: 100 ms / 50 ms
    FailureCap      \* bound: failed deliveries are counted up to it

\* What a module that instantiates this one assumes.
ClusterAssumption ==
    /\ InvalidEvents \subseteq Events
    /\ Broken \subseteq Handlers /\ Flaky \subseteq Handlers
    /\ MaxRetries \in Nat
    /\ BackoffBase \in Nat \ {0}
    /\ FailureCap \in Nat
    \* Arithmetic the provers lack: powers of two are positive and grow.
    /\ \A n \in 0..MaxRetries : 2 ^ n \in 1..2 ^ MaxRetries

VARIABLES
    topics,         \* provisioned topics
    consumers,      \* consumers[t]: handlers in subscription order
    running,        \* goroutines spawned by PublishEvent
    retryQueue,     \* scheduled retries
    deadLetter,     \* deadLetter[e]: dead letters recorded for e
    loop,           \* the retry loop: where it stands and what it executes
    published,      \* history: published[e] is "no", "refused" or "sent"
    succeeded,      \* history: <<event, handler>> calls that returned no error
    failures        \* history: failed deliveries of an event, up to FailureCap

vars ==
    <<topics, consumers, running, retryQueue, deadLetter, loop, published,
      succeeded, failures>>

Delivery == [event : Events, topic : Topics, handler : Handlers,
             at : {"handle", "route"}]

MaxDelay == BackoffBase * 2 ^ MaxRetries

RetryEntry == [event : Events, topic : Topics, count : 1..MaxRetries,
               wait : 0..MaxDelay]

Idle == [at |-> "sleep", ready |-> {}, current |-> {}, left |-> <<>>]

Init ==
    /\ topics = Topics
    /\ consumers = [t \in Topics |-> <<>>]
    /\ running = {}
    /\ retryQueue = {}
    /\ deadLetter = [e \in Events |-> 0]
    /\ loop = Idle
    /\ published = [e \in Events |-> "no"]
    /\ succeeded = {}
    /\ failures = [e \in Events |-> 0]

MayFail(h) == h \in Broken \cup Flaky
MaySucceed(h) == h \notin Broken

-----------------------------------------------------------------------------
(* Administration *)

CreateTopic(t) ==
    /\ t \notin topics
    /\ topics' = topics \cup {t}
    /\ UNCHANGED <<consumers, running, retryQueue, deadLetter, loop, published,
                   succeeded, failures>>

\* Subscriptions and scheduled retries of the topic survive its deletion.
DeleteTopic(t) ==
    /\ t \in topics
    /\ topics' = topics \ {t}
    /\ UNCHANGED <<consumers, running, retryQueue, deadLetter, loop, published,
                   succeeded, failures>>

\* Subscribe does not look whether the topic exists.  (Bound: once per
\* handler and topic.)
Subscribe(t, h) ==
    /\ \A i \in DOMAIN consumers[t] : consumers[t][i] # h
    /\ consumers' = [consumers EXCEPT ![t] = Append(@, h)]
    /\ UNCHANGED <<topics, running, retryQueue, deadLetter, loop, published,
                   succeeded, failures>>

-----------------------------------------------------------------------------
(* PublishEvent: validation, then topic and subscribers read in one        *)
(* section, then one goroutine per subscriber; with no subscriber the      *)
(* event is gone and the caller is told nothing.                           *)

PublishRefused(e, t) ==
    /\ published[e] = "no"
    /\ e \in InvalidEvents \/ t \notin topics
    /\ published' = [published EXCEPT ![e] = "refused"]
    /\ UNCHANGED <<topics, consumers, running, retryQueue, deadLetter, loop,
                   succeeded, failures>>

PublishEvent(e, t) ==
    /\ published[e] = "no"
    /\ e \notin InvalidEvents
    /\ t \in topics
    /\ published' = [published EXCEPT ![e] = "sent"]
    /\ running' = running \cup
           {[event |-> e, topic |-> t, handler |-> consumers[t][i],
             at |-> "handle"] : i \in DOMAIN consumers[t]}
    /\ UNCHANGED <<topics, consumers, retryQueue, deadLetter, loop, succeeded,
                   failures>>

\* Handle of one goroutine returns no error: the goroutine ends.
HandleSucceeds(d) ==
    /\ d.at = "handle"
    /\ MaySucceed(d.handler)
    /\ running' = running \ {d}
    /\ succeeded' = succeeded \cup {<<d.event, d.handler>>}
    /\ UNCHANGED <<topics, consumers, retryQueue, deadLetter, loop, published,
                   failures>>

HandleFails(d) ==
    /\ d.at = "handle"
    /\ MayFail(d.handler)
    /\ running' = (running \ {d}) \cup {[d EXCEPT !.at = "route"]}
    /\ UNCHANGED <<topics, consumers, retryQueue, deadLetter, loop, published,
                   succeeded, failures>>

-----------------------------------------------------------------------------
(* routeToRetry: one section under the lock.                               *)

Scheduled(e) == {r \in retryQueue : r.event = e}

\* BackoffBase doubled once per retry after the first.
Delay(count) == BackoffBase * 2 ^ (count - 1)

Failed(e) ==
    failures' = [failures EXCEPT ![e] = IF @ < FailureCap THEN @ + 1 ELSE @]

\* The new entry replaces the one found in the queue, if any.
Reschedule(e, t, count) ==
    retryQueue' = (retryQueue \ Scheduled(e)) \cup
        {[event |-> e, topic |-> t, count |-> count, wait |-> Delay(count)]}

\* Fault: one retry too few.
ExhaustedEarly(count) == count >= MaxRetries
Exhausted(count) == count > MaxRetries

Offload(e) ==
    /\ retryQueue' = retryQueue \ Scheduled(e)
    /\ deadLetter' = [deadLetter EXCEPT ![e] = @ + 1]

\* The count continues only from an entry that is in the queue right now.
RouteToRetry(e, t) ==
    /\ \E count \in IF Scheduled(e) = {} THEN {1}
                    ELSE {r.count + 1 : r \in Scheduled(e)} :
           \/ Exhausted(count) /\ Offload(e)
           \/ ~Exhausted(count) /\ Reschedule(e, t, count) /\ UNCHANGED deadLetter
    /\ Failed(e)

RouteDelivery(d) ==
    /\ d.at = "route"
    /\ RouteToRetry(d.event, d.topic)
    /\ running' = running \ {d}
    /\ UNCHANGED <<topics, consumers, loop, published, succeeded>>

-----------------------------------------------------------------------------
(* startRetryLoop *)

\* Time passes: every scheduled retry is one tick nearer.
Elapse ==
    /\ \E r \in retryQueue : r.wait > 0
    /\ retryQueue' = {[r EXCEPT !.wait = IF @ > 0 THEN @ - 1 ELSE 0] : r \in retryQueue}
    /\ UNCHANGED <<topics, consumers, running, deadLetter, loop, published,
                   succeeded, failures>>

Due == {r \in retryQueue : r.wait = 0}

\* Fault: the poll forgets what it found due.
CollectAndDrop ==
    /\ loop.at = "sleep"
    /\ Due # {}
    /\ retryQueue' = retryQueue \ Due
    /\ UNCHANGED <<topics, consumers, running, deadLetter, loop, published,
                   succeeded, failures>>

\* A poll takes everything due out of the queue before executing any of it.
Collect ==
    /\ loop.at = "sleep"
    /\ Due # {}
    /\ retryQueue' = retryQueue \ Due
    /\ loop' = [loop EXCEPT !.at = "next", !.ready = Due]
    /\ UNCHANGED <<topics, consumers, running, deadLetter, published, succeeded,
                   failures>>

\* The subscribers are read anew for each entry.
StartEntry ==
    /\ loop.at = "next"
    /\ \E r \in loop.ready :
           loop' = [at |-> IF consumers[r.topic] = <<>> THEN "route" ELSE "attempt",
                    ready |-> loop.ready \ {r}, current |-> {r},
                    left |-> consumers[r.topic]]
    /\ UNCHANGED <<topics, consumers, running, retryQueue, deadLetter, published,
                   succeeded, failures>>

EndPoll ==
    /\ loop.at = "next"
    /\ loop.ready = {}
    /\ loop' = Idle
    /\ UNCHANGED <<topics, consumers, running, retryQueue, deadLetter, published,
                   succeeded, failures>>

\* The first handler that succeeds ends the entry: the others are not called.
RetrySucceeds ==
    /\ loop.at = "attempt"
    /\ MaySucceed(Head(loop.left))
    /\ loop' = [loop EXCEPT !.at = "next", !.current = {}, !.left = <<>>]
    /\ succeeded' = succeeded \cup
           {<<r.event, Head(loop.left)>> : r \in loop.current}
    /\ UNCHANGED <<topics, consumers, running, retryQueue, deadLetter, published,
                   failures>>

RetryFails ==
    /\ loop.at = "attempt"
    /\ MayFail(Head(loop.left))
    /\ loop' = [loop EXCEPT !.left = Tail(@),
                            !.at = IF Len(loop.left) > 1 THEN "attempt" ELSE "route"]
    /\ UNCHANGED <<topics, consumers, running, retryQueue, deadLetter, published,
                   succeeded, failures>>

\* No handler succeeded: the entry, gone from the queue since Collect, is
\* routed like a first failure.
RouteRetry ==
    /\ loop.at = "route"
    /\ \E r \in loop.current : RouteToRetry(r.event, r.topic)
    /\ loop' = [loop EXCEPT !.at = "next", !.current = {}, !.left = <<>>]
    /\ UNCHANGED <<topics, consumers, running, published, succeeded>>

-----------------------------------------------------------------------------
LoopSteps ==
    \/ Collect \/ StartEntry \/ EndPoll
    \/ RetrySucceeds \/ RetryFails \/ RouteRetry

GoroutineSteps(d) == HandleSucceeds(d) \/ HandleFails(d) \/ RouteDelivery(d)

Goroutines == \E d \in running : GoroutineSteps(d)

Admin ==
    \/ \E t \in Topics : CreateTopic(t) \/ DeleteTopic(t)
    \/ \E t \in Topics, h \in Handlers : Subscribe(t, h)

Publishing ==
    \E e \in Events, t \in Topics : PublishRefused(e, t) \/ PublishEvent(e, t)

Next ==
    \/ Admin
    \/ Publishing
    \/ Goroutines
    \/ Elapse
    \/ LoopSteps

Spec == Init /\ [][Next]_vars

\* Goroutines and the loop are scheduled, and time passes.
FairSpec ==
    /\ Spec
    /\ WF_vars(Goroutines)
    /\ WF_vars(Elapse)
    /\ WF_vars(LoopSteps)

\* In addition, a handler that is not broken does not fail for ever: a retry
\* attempted again and again succeeds in the end.
FairHandlersSpec == FairSpec /\ SF_vars(RetrySucceeds)

-----------------------------------------------------------------------------
(* Type correctness *)

TypeOK ==
    /\ topics \subseteq Topics
    /\ consumers \in [Topics -> Seq(Handlers)]
    /\ running \subseteq Delivery
    /\ retryQueue \subseteq RetryEntry
    /\ deadLetter \in [Events -> Nat]
    /\ loop \in [at : {"sleep", "next", "attempt", "route"},
                 ready : SUBSET RetryEntry, current : SUBSET RetryEntry,
                 left : Seq(Handlers)]
    /\ published \in [Events -> {"no", "refused", "sent"}]
    /\ succeeded \subseteq Events \X Handlers
    /\ failures \in [Events -> 0..FailureCap]

-----------------------------------------------------------------------------
(* Safety *)

InLoop(e) == \E r \in loop.ready \cup loop.current : r.event = e

InFlight(e) ==
    \/ \E d \in running : d.event = e
    \/ Scheduled(e) # {}
    \/ InLoop(e)

\* An event whose delivery failed is never forgotten: until some subscriber
\* has handled it, it is in a goroutine, in the queue, in the hands of the
\* retry loop (which takes it out of the queue first) or dead-lettered.
NoFailureForgotten ==
    \A e \in Events :
        failures[e] > 0 =>
            \/ InFlight(e)
            \/ deadLetter[e] > 0
            \/ \E h \in Handlers : <<e, h>> \in succeeded

\* A dead letter stands for MaxRetries + 1 failed deliveries of its own,
\* whoever suffered them.
DeadLettersAreEarned ==
    \A e \in Events :
        LET owed == (MaxRetries + 1) * deadLetter[e]
        IN  failures[e] >= IF owed < FailureCap THEN owed ELSE FailureCap

-----------------------------------------------------------------------------
(* Liveness *)

\* Under FairHandlersSpec: an event sent to at least one subscriber is
\* eventually handled by one, or dead-lettered.
SentIsSettled ==
    \A e \in Events :
        (\E d \in running : d.event = e) ~>
            \/ \E h \in Handlers : <<e, h>> \in succeeded
            \/ deadLetter[e] > 0

\* "Max Retries Exhausted! Offloading event package to DLQ": an event whose
\* only subscribers always fail ends in the dead letter list.
AlwaysFailingIsDeadLettered ==
    \A e \in Events : (\E d \in running : d.event = e) ~> deadLetter[e] > 0
=============================================================================
