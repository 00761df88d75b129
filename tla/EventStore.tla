----------------------------- MODULE EventStore -----------------------------
(***************************************************************************)
(* MemoryEventStore of compute-engine: append-only event streams guarded   *)
(* by optimistic concurrency control, and one snapshot per stream.         *)
(*                                                                         *)
(* Every method of the Go type runs under one mutex, so each is one atomic *)
(* operation here: reads are state functions, writes are action operators  *)
(* that a component using the store conjoins with its own step.            *)
(***************************************************************************)
EXTENDS Integers, Sequences

CONSTANTS
    TxIds,          \* transaction identifiers; a stream is named after one
    NoSnapshot      \* "no snapshot saved yet" (GetSnapshot returns nil)

VARIABLES
    streams,        \* streams[id]: the sequence of events of the stream
    snapshots       \* snapshots[id]: the last snapshot saved, or NoSnapshot

storeVars == <<streams, snapshots>>

StoreInit ==
    /\ streams = [id \in TxIds |-> <<>>]
    /\ snapshots = [id \in TxIds |-> NoSnapshot]

(***************************************************************************)
(* The events AppendEvents stores: versions continue the stream's own,     *)
(* whatever version the caller's records carried.                          *)
(***************************************************************************)
Numbered(stream, events) ==
    [i \in DOMAIN events |-> [events[i] EXCEPT !.version = Len(stream) + i]]

AnyVersion == -1

\* Fault: the expected version is compared with nothing.
VersionMatchesUnchecked(id, expected) == TRUE

\* The OCC check: -1 skips it, otherwise the stream must be as expected.
VersionMatches(id, expected) ==
    expected # AnyVersion => Len(streams[id]) = expected

\* The write of AppendEvents, made only when VersionMatches holds.
AppendEvents(id, events) ==
    streams' = [streams EXCEPT ![id] = @ \o Numbered(@, events)]

(***************************************************************************)
(* ReadStream and ReplayEvents: the events from a version on.  A stored    *)
(* version is the event's position (see Numbered), so the events the code  *)
(* keeps with e.Version >= fromVersion are a suffix of the stream.         *)
(***************************************************************************)
ReadStream(id, fromVersion) ==
    LET first == IF fromVersion < 1 THEN 1 ELSE fromVersion
    IN  SubSeq(streams[id], first, Len(streams[id]))

SaveSnapshot(id, snapshot) ==
    snapshots' = [snapshots EXCEPT ![id] = snapshot]
=============================================================================
