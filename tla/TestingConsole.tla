---------------------------- MODULE TestingConsole ----------------------------
(***************************************************************************)
(* The testing view of the console (TestingDashboard.tsx): the suites'     *)
(* runs, each an interval timer that prints its prepared lines one by one, *)
(* the chaos switches and the curves drawn from them.                      *)
(*                                                                         *)
(* A line is known by its suite and its number; a run carries the switches *)
(* it was started under, which its lines were prepared from.  The tables   *)
(* of the view (coverage, benchmarks, scans) never change.                 *)
(***************************************************************************)
EXTENDS Integers, Sequences, SequencesExt, FiniteSets

CONSTANTS
    Suites,             \* names of the suites
    Lines,              \* how many lines each suite prints
    UserCounts, SeedUsers,   \* positions of the slider of virtual users
    None,               \* no suite is on view as running
    MaxRuns, MaxNotes   \* bound runs at once, and chaos lines on the console

Faults == {"db", "pod", "lag", "mem"}

\* What a module that instantiates this one assumes.
TestingAssumption ==
    /\ "unit" \in Suites
    /\ Lines \in [Suites -> Nat \ {0}]
    /\ SeedUsers \in UserCounts
    /\ Suites \cap ({None, "pipeline"} \cup Faults) = {}
    /\ {MaxRuns, MaxNotes} \subseteq Nat

VARIABLES
    runningSuite,
    runs,           \* the intervals under way: [suite, next, faults]
    starting,       \* pending timers of the pipeline button
    consoleLogs,    \* lines on the console
    faults,         \* the chaos switches that are on
    notes,          \* the list of chaos injections and recoveries, newest first
    virtualUsers,
    curves,         \* what the load curves were drawn from
    crossed         \* a run began while another was under way

vars == <<runningSuite, runs, starting, consoleLogs, faults, notes, virtualUsers,
          curves, crossed>>
chaos == <<faults, notes, virtualUsers, curves>>

\* The lines of the console: of a suite, of the chaos switches, of the button.
Line(s, n, f) == [from |-> s, number |-> n, faults |-> f]
Note(f, on) == [from |-> f, number |-> IF on THEN 1 ELSE 0, faults |-> {}]
Banner == Line("pipeline", 1, {})

\* The curves know the users and three of the four faults: a pod's death is
\* not drawn.
Curves(users, fs) == [users |-> users, faults |-> fs \ {"pod"}]

Init ==
    /\ runningSuite = None
    /\ runs = <<>>
    /\ starting = 0
    /\ consoleLogs = <<>>
    /\ faults = {}
    /\ notes = <<>>
    /\ virtualUsers = SeedUsers
    /\ curves = Curves(SeedUsers, {})
    /\ crossed = FALSE

-----------------------------------------------------------------------------
(* Suites *)

SuitesEnabled == runningSuite = None

\* The lines are prepared at the start, from the switches as they are then.
Start(s, fs) ==
    /\ Len(runs) < MaxRuns
    /\ runningSuite' = s
    /\ consoleLogs' = <<>>
    /\ runs' = Append(runs, [suite |-> s, next |-> 1, faults |-> fs])
    /\ crossed' = (runs # <<>>)
    /\ UNCHANGED chaos

\* Only the lines of these two suites depend on the switches.
Switches(s) == IF s \in {"load", "chaos"} THEN faults ELSE {}

RunTestLogs(s) == SuitesEnabled /\ Start(s, Switches(s)) /\ UNCHANGED starting

\* The pipeline button only starts the unit tests, 600 ms later and without a
\* look at what runs by then; nothing is on view as running in between.
RunAllSuites ==
    /\ SuitesEnabled
    /\ starting + Len(runs) < MaxRuns
    /\ consoleLogs' = consoleLogs \o <<Banner, Banner>>
    /\ starting' = starting + 1
    /\ UNCHANGED <<runningSuite, runs, crossed, chaos>>

PipelineStarts ==
    /\ starting > 0
    /\ starting' = starting - 1
    /\ Start("unit", Switches("unit"))

PrintLine(i) ==
    LET r == runs[i]
    IN  /\ r.next <= Lines[r.suite]
        /\ consoleLogs' = Append(consoleLogs, Line(r.suite, r.next, r.faults))
        /\ runs' = [runs EXCEPT ![i].next = @ + 1]
        /\ UNCHANGED <<runningSuite, starting, crossed, chaos>>

\* Fault: the end of a run leaves the suites locked.
RunEndsLocked(i) ==
    /\ runs[i].next > Lines[runs[i].suite]
    /\ runs' = RemoveAt(runs, i)
    /\ UNCHANGED <<runningSuite, starting, consoleLogs, crossed, chaos>>

\* The end of any run shows all suites as over.
RunEnds(i) ==
    /\ runs[i].next > Lines[runs[i].suite]
    /\ runningSuite' = None
    /\ runs' = RemoveAt(runs, i)
    /\ UNCHANGED <<starting, consoleLogs, crossed, chaos>>

ClearConsole ==
    /\ consoleLogs' = <<>>
    /\ UNCHANGED <<runningSuite, runs, starting, crossed, chaos>>

-----------------------------------------------------------------------------
(* Chaos and load *)

TriggerChaosToggle(f) ==
    LET on == f \notin faults
        note == Note(f, on)
    IN  /\ Len(notes) < MaxNotes
        /\ faults' = IF on THEN faults \cup {f} ELSE faults \ {f}
        /\ notes' = <<note>> \o notes
        /\ consoleLogs' = Append(consoleLogs, note)
        /\ curves' = Curves(virtualUsers, faults')
        /\ UNCHANGED <<runningSuite, runs, starting, virtualUsers, crossed>>

SetVirtualUsers(u) ==
    /\ virtualUsers' = u
    /\ curves' = Curves(u, faults)
    /\ UNCHANGED <<runningSuite, runs, starting, consoleLogs, faults, notes, crossed>>

Next ==
    \/ \E s \in Suites : RunTestLogs(s)
    \/ RunAllSuites \/ PipelineStarts
    \/ \E i \in DOMAIN runs : PrintLine(i) \/ RunEnds(i)
    \/ ClearConsole
    \/ \E f \in Faults : TriggerChaosToggle(f)
    \/ \E u \in UserCounts : SetVirtualUsers(u)

Spec == Init /\ [][Next]_vars

-----------------------------------------------------------------------------
(* Properties *)

\* Types of the variables.
TypeOK ==
    /\ runningSuite \in Suites \cup {None}
    /\ runs \in Seq([suite : Suites, next : Nat, faults : SUBSET Faults])
    /\ starting \in Nat /\ crossed \in BOOLEAN
    /\ faults \subseteq Faults
    /\ Range(notes) \subseteq {Note(f, on) : f \in Faults, on \in BOOLEAN}
    /\ virtualUsers \in UserCounts

\* The suites are locked for nothing only while one of them runs, whatever runs
\* crossed: the end of another may free them early, never leave them locked.
LockedByARun ==
    runningSuite # None => \E i \in DOMAIN runs : runs[i].suite = runningSuite

Printed(s) == {k \in DOMAIN consoleLogs : consoleLogs[k].from = s}

\* Unless the pipeline's timer crossed another run: one suite runs at a time
\* and is the one on view, and what the console shows of it, since a clearing,
\* are its latest lines in order, all prepared under the switches of its start.
RunsAreOnView ==
    ~crossed =>
        /\ Len(runs) = (IF runningSuite = None THEN 0 ELSE 1)
        /\ \A i \in DOMAIN runs :
             LET r == runs[i]
                 p == Printed(r.suite)
             IN  \A k \in p :
                    consoleLogs[k] =
                       Line(r.suite, r.next - Cardinality({l \in p : l >= k}),
                            r.faults)

\* The curves, the switches and the list of injections agree: a fault is on
\* exactly when the newest note of it says so, and drawn when it has a curve.
NotesTellFaults ==
    /\ curves = Curves(virtualUsers, faults)
    /\ \A f \in Faults :
         f \in faults <=>
            \E k \in DOMAIN notes :
               /\ notes[k] = Note(f, TRUE)
               /\ \A j \in 1..(k - 1) : notes[j].from # f
=============================================================================
