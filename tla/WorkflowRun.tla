---------------------------- MODULE WorkflowRun ----------------------------
(***************************************************************************)
(* One run of a workflow: a plan of agents, log lines, serial containers   *)
(* (phases and pipelines) and parallel ones.  A worker walks the plan,     *)
(* each part of a parallel step in a task of its own, and appends the      *)
(* steps it completes to a journal.  A run that was cut short is resumed   *)
(* from the journal, by any client and at any time.                        *)
(*                                                                         *)
(* The plan is a tree below Root, which is not a step of its own and is    *)
(* never journaled.  Task[n] is the step whose task runs n.                *)
(* Source: core/src/session_manager/session_workflows.rs.                  *)
(***************************************************************************)
EXTENDS Integers, FiniteSets, Sequences, SequencesExt

CONSTANTS
    Steps, Root,
    Kind,             \* "agent", "log", "serial" or "parallel"
    Parts,            \* the parts of a container, in order
    Task,
    MaxConcurrency,   \* permits for agents
    Attempts, None,   \* the start of the run and the calls that resume it
    MaxUpsets         \* bound on cancels, failures and crashes

Part == [p \in Steps |-> ToSet(Parts[p])]

\* The parts a serial container runs before n.
Earlier ==
    [n \in Steps |-> {m \in Steps : \E p \in Steps :
        /\ Kind[p] = "serial"
        /\ \E i, j \in DOMAIN Parts[p] : i < j /\ Parts[p][i] = m /\ Parts[p][j] = n}]

ASSUME WorkflowAssumption ==
    /\ IsFiniteSet(Steps)
    /\ Root \in Steps
    /\ Kind \in [Steps -> {"agent", "log", "serial", "parallel"}]
    /\ Kind[Root] = "serial"
    /\ Parts \in [Steps -> Seq(Steps)]
    /\ \A p \in Steps : Kind[p] \in {"agent", "log"} => Part[p] = {}
    /\ \A p \in Steps : Root \notin Part[p]
    /\ \A p, q \in Steps : p # q => Part[p] \cap Part[q] = {}
    /\ \A n \in Steps : n \notin Earlier[n]
    /\ Task \in [Steps -> Steps]
    /\ Task[Root] = Root
    /\ \A p \in Steps : \A n \in Part[p] :
          Task[n] = IF Kind[p] = "parallel" THEN n ELSE Task[p]
    /\ MaxConcurrency \in Nat
    /\ None \notin Attempts
    /\ MaxUpsets \in Nat

VARIABLES
    run,       \* the status in run.json
    journal,   \* the steps whose completion is journaled
    active,    \* the attempt that has reserved the run
    stage,     \* where an attempt is
    known,     \* the completed steps it read from the journal
    flagged,   \* attempts whose cancel flag is set
    pc,        \* where each step of an attempt is
    aborted,   \* the tasks of an attempt that were aborted and not yet dropped
    stale,     \* attempts that read the journal before others added to it
    redone,    \* agents invoked for a step whose completion was journaled
    upsets     \* cancels, failures and crashes so far

disk == <<run, journal>>
past == <<stale, redone>>
vars == <<run, journal, active, stage, known, flagged, pc, aborted, stale, redone,
          upsets>>

Results == {"running", "completed", "failed", "cancelled"}
Stages == {"idle", "looked", "read", "setup", "running", "sealing", "done", "dead"}

\* A step that has not returned; "failing" and "cancelling" wait for the tasks
\* of a parallel step that was given up.
Working == {"spawning", "begun", "queued", "agent", "output", "failing", "cancelling"}
Phases == Working \cup {"idle", "done", "failed", "cancelled", "gone", "landing"}

WorkflowTypeOK ==
    /\ run \in Results \cup {"none"}
    /\ journal \subseteq Steps \ {Root}
    /\ active \in Attempts \cup {None}
    /\ stage \in [Attempts -> Stages]
    /\ known \in [Attempts -> SUBSET Steps]
    /\ flagged \subseteq Attempts
    /\ pc \in [Attempts -> [Steps -> Phases]]
    /\ aborted \in [Attempts -> SUBSET Steps]
    /\ stale \subseteq Attempts
    /\ redone \subseteq Attempts \X Steps
    /\ upsets \in 0 .. MaxUpsets
    /\ \A r \in Attempts :
          Cardinality({n \in Steps : pc[r][n] = "agent"}) <= MaxConcurrency

Unbegun == [n \in Steps |-> "idle"]

\* A run that is still to be started, or one whose process was lost before it had
\* completed a step.
Init ==
    /\ run \in {"none", "running"}
    /\ journal = {}
    /\ active = None
    /\ stage = [r \in Attempts |-> "idle"]
    /\ known = [r \in Attempts |-> {}]
    /\ flagged = {}
    /\ pc = [r \in Attempts |-> Unbegun]
    /\ aborted = [r \in Attempts |-> {}]
    /\ stale = {}
    /\ redone = {}
    /\ upsets = 0

Upset == upsets < MaxUpsets /\ upsets' = upsets + 1

At(r, s) == stage' = [stage EXCEPT ![r] = s]

-----------------------------------------------------------------------------
(* Starting and resuming.                                                  *)

\* start_workflow: the run's name is new, so nobody else can have reserved it.
Start(r) ==
    /\ run = "none"
    /\ \A a \in Attempts : stage[a] = "idle"
    /\ active' = r
    /\ At(r, "setup")
    /\ UNCHANGED <<disk, known, flagged, pc, aborted, past, upsets>>

\* resume_workflow asks whether the run is active, then reads its files, and
\* reserves the run when it has them.
ResumeLooks(r) ==
    /\ run # "none"
    /\ stage[r] = "idle"
    /\ active = None
    /\ At(r, "looked")
    /\ UNCHANGED <<disk, active, known, flagged, pc, aborted, past, upsets>>

\* Mutant: what the journal has complete is not passed on to the worker.
ResumeReadsNothing(r) ==
    /\ stage[r] = "looked"
    /\ At(r, "read")
    /\ UNCHANGED <<disk, active, known, flagged, pc, aborted, past, upsets>>

ResumeReads(r) ==
    /\ stage[r] = "looked"
    /\ known' = [known EXCEPT ![r] = journal]
    /\ At(r, "read")
    /\ UNCHANGED <<disk, active, flagged, pc, aborted, past, upsets>>

Reserve(r) ==
    /\ stage[r] = "read"
    /\ active = None
    /\ active' = r
    /\ At(r, "setup")
    /\ UNCHANGED <<disk, known, flagged, pc, aborted, past, upsets>>

\* The run is active, or a file cannot be read.  A crash or a full disk may leave
\* run.json or the last line of the journal half written, and then every resume
\* is refused: those are behaviours of this model in which it always is.
ResumeRefused(r) ==
    /\ stage[r] \in {"looked", "read"}
    /\ At(r, "done")
    /\ UNCHANGED <<disk, active, known, flagged, pc, aborted, past, upsets>>

\* The run's files, its cancel flag and the worker.
SetUp(r) ==
    /\ stage[r] = "setup"
    /\ run' = "running"
    /\ At(r, "running")
    /\ pc' = [pc EXCEPT ![r][Root] = "begun"]
    /\ UNCHANGED <<journal, active, known, flagged, aborted, past, upsets>>

\* A file cannot be written; the reservation is dropped.
SetUpFails(r) ==
    /\ Upset
    /\ stage[r] = "setup"
    /\ run' \in {run, "running"}
    /\ active' = None
    /\ At(r, "done")
    /\ UNCHANGED <<journal, known, flagged, pc, aborted, past>>

-----------------------------------------------------------------------------
(* Steps.  A task that was aborted does nothing more.                      *)

Goes(r, n, from, to) ==
    /\ Task[n] \notin aborted[r]
    /\ pc[r][n] \in from
    /\ pc' = [pc EXCEPT ![r][n] = to]

\* The next part of a serial container, or any part of a parallel one.
Ready(r, p, n) ==
    /\ n \in Part[p]
    /\ pc[r][p] \in {"spawning", "begun"}
    /\ pc[r][n] = "idle"
    /\ \A m \in Earlier[n] : pc[r][m] = "done"

\* Before each part a serial container looks at the cancel flag.
MayRun(r, p, n) == Ready(r, p, n) /\ (Kind[p] = "serial" => r \notin flagged)

Skip(r, p, n) ==
    /\ MayRun(r, p, n)
    /\ n \in known[r]
    /\ Goes(r, n, {"idle"}, "done")
    /\ UNCHANGED <<disk, active, stage, known, flagged, aborted, past, upsets>>

\* An agent looks at the flag before it asks for a permit.
Begun(r, n) ==
    CASE Kind[n] = "parallel" -> "spawning"
      [] Kind[n] = "agent" -> IF r \in flagged THEN "cancelled" ELSE "queued"
      [] OTHER -> "begun"

Begin(r, p, n) ==
    /\ MayRun(r, p, n)
    /\ n \notin known[r]
    /\ Goes(r, n, {"idle"}, Begun(r, n))
    /\ UNCHANGED <<disk, active, stage, known, flagged, aborted, past, upsets>>

BeginFails(r, p, n) ==
    /\ Upset
    /\ MayRun(r, p, n)
    /\ n \notin known[r]
    /\ Goes(r, n, {"idle"}, "failed")
    /\ UNCHANGED <<run, journal, active, stage, known, flagged, aborted, past>>

\* What is left before a step is complete is the append of its completion.
AllDone(r, n) == \A m \in Part[n] : pc[r][m] = "done"

Completable(r, n) ==
    \/ Kind[n] = "agent" /\ pc[r][n] = "output"
    \/ Kind[n] = "log" /\ pc[r][n] = "begun"
    \/ Kind[n] \in {"serial", "parallel"} /\ pc[r][n] = "begun" /\ AllDone(r, n)

\* complete_step; other attempts that have read the journal read it too early.
Journaled(r, n) ==
    /\ journal' = journal \cup ({n} \ {Root})
    /\ stale' = stale \cup {a \in Attempts \ {r} :
                             n # Root /\ stage[a] \notin {"idle", "looked"}}

\* Mutant: a container is complete with the first of its parts.
CompleteEarly(r, n) ==
    /\ \/ Completable(r, n)
       \/ Kind[n] = "parallel" /\ \E m \in Part[n] : pc[r][m] = "done"
    /\ Goes(r, n, {"begun", "output"}, "done")
    /\ Journaled(r, n)
    /\ UNCHANGED <<run, active, stage, known, flagged, aborted, redone, upsets>>

Complete(r, n) ==
    /\ Completable(r, n)
    /\ Goes(r, n, {"begun", "output"}, "done")
    /\ Journaled(r, n)
    /\ UNCHANGED <<run, active, stage, known, flagged, aborted, redone, upsets>>

\* The journal or the log cannot be written.
CompleteFails(r, n) ==
    /\ Upset
    /\ n # Root
    /\ Completable(r, n)
    /\ Goes(r, n, {"begun", "output"}, "failed")
    /\ UNCHANGED <<run, journal, active, stage, known, flagged, aborted, past>>

-----------------------------------------------------------------------------
(* Agents.                                                                 *)

\* Mutant: the count leaves out one of the agents.
PermitsButOne(r) == Cardinality({n \in Steps : pc[r][n] = "agent"}) - 1

Permits(r) == Cardinality({n \in Steps : pc[r][n] = "agent"})

\* Mutant: the parts of a parallel step hold a permit while they work.
InvokeStructural(r, n) ==
    /\ Cardinality({m \in Steps : pc[r][m] = "agent" \/
                      (Kind[m] = "parallel" /\ Task[m] = m /\ pc[r][m] \in Working)})
         < MaxConcurrency
    /\ Goes(r, n, {"queued"}, "agent")
    /\ redone' = IF n \in journal THEN redone \cup {<<r, n>>} ELSE redone
    /\ UNCHANGED <<disk, active, stage, known, flagged, aborted, stale, upsets>>

\* A permit is held while the agent runs; a cancel does not end the wait for it.
Invoke(r, n) ==
    /\ Permits(r) < MaxConcurrency
    /\ Goes(r, n, {"queued"}, "agent")
    /\ redone' = IF n \in journal THEN redone \cup {<<r, n>>} ELSE redone
    /\ UNCHANGED <<disk, active, stage, known, flagged, aborted, stale, upsets>>

AgentEnds(r, n) ==
    /\ \/ Goes(r, n, {"agent"}, "output") /\ UNCHANGED upsets
       \/ Goes(r, n, {"agent"}, "failed") /\ Upset
    /\ UNCHANGED <<disk, active, stage, known, flagged, aborted, past>>

AgentCancelled(r, n) ==
    /\ r \in flagged
    /\ Goes(r, n, {"agent"}, "cancelled")
    /\ UNCHANGED <<disk, active, stage, known, flagged, aborted, past, upsets>>

-----------------------------------------------------------------------------
(* Containers.                                                             *)

Errors == {"failed", "cancelled"}

\* An error of a part, or a cancel before the next one, ends a serial container.
SerialEnds(r, p) ==
    /\ Kind[p] = "serial"
    /\ \E n \in Part[p] :
          \/ pc[r][n] \in Errors /\ Goes(r, p, {"begun"}, pc[r][n])
          \/ Ready(r, p, n) /\ r \in flagged /\ Goes(r, p, {"begun"}, "cancelled")
    /\ UNCHANGED <<disk, active, stage, known, flagged, aborted, past, upsets>>

\* The parts that are at work, each in a task of its own.
WorkingParts(r, p) == {n \in Part[p] : pc[r][n] \in Working}

Spawned(r, p) ==
    /\ r \notin flagged
    /\ Goes(r, p, {"spawning"}, "begun")
    /\ UNCHANGED <<disk, active, stage, known, flagged, aborted, past, upsets>>

\* A cancel found while spawning: the set of tasks is dropped, which aborts them
\* and does not wait for them.  The journal's line for a cancelled step is left out,
\* and with it the failure that a cancel becomes when that line cannot be written.
SpawnCancelled(r, p) ==
    /\ r \in flagged
    /\ Goes(r, p, {"spawning"}, "cancelled")
    /\ aborted' = [aborted EXCEPT ![r] = @ \cup WorkingParts(r, p)]
    /\ UNCHANGED <<disk, active, stage, known, flagged, past, upsets>>

\* Mutant: the other parts are left to run.
PartFailsAlone(r, p) ==
    /\ Kind[p] = "parallel"
    /\ \E n \in Part[p] :
          \/ pc[r][n] = "failed" /\ Goes(r, p, {"begun"}, "failed")
          \/ pc[r][n] = "cancelled" /\ Goes(r, p, {"begun"}, "cancelled")
    /\ flagged' = flagged \cup {r}
    /\ UNCHANGED <<disk, active, stage, known, aborted, past, upsets>>

\* The first part that ends in an error sets the run's cancel flag and has the
\* others aborted.
PartFails(r, p) ==
    /\ Kind[p] = "parallel"
    /\ \E n \in Part[p] :
          \/ pc[r][n] = "failed" /\ Goes(r, p, {"begun"}, "failing")
          \/ pc[r][n] = "cancelled" /\ Goes(r, p, {"begun"}, "cancelling")
    /\ flagged' = flagged \cup {r}
    /\ aborted' = [aborted EXCEPT ![r] = @ \cup WorkingParts(r, p)]
    /\ UNCHANGED <<disk, active, stage, known, past, upsets>>

\* The error is returned once every task of the step has stopped.
Drained(r, p) ==
    /\ WorkingParts(r, p) = {}
    /\ \/ Goes(r, p, {"failing"}, "failed")
       \/ Goes(r, p, {"cancelling"}, "cancelled")
    /\ UNCHANGED <<disk, active, stage, known, flagged, aborted, past, upsets>>

\* The runtime drops an aborted task, and with it the steps it was running and
\* the task sets of its own parallel steps.  An append handed to the file system
\* lands all the same.
Drop(r, t) ==
    /\ t \in aborted[r]
    /\ \E land \in BOOLEAN :
          pc' = [pc EXCEPT ![r] = [n \in Steps |->
                   IF Task[n] = t /\ pc[r][n] \in Working
                   THEN IF land /\ Completable(r, n) THEN "landing" ELSE "gone"
                   ELSE pc[r][n]]]
    /\ aborted' = [aborted EXCEPT ![r] = (@ \ {t}) \cup
                     UNION {WorkingParts(r, p) : p \in {q \in Steps :
                        Kind[q] = "parallel" /\ Task[q] = t /\ pc[r][q] \in Working}}]
    /\ UNCHANGED <<disk, active, stage, known, flagged, past, upsets>>

Lands(r, n) ==
    /\ pc[r][n] = "landing"
    /\ pc' = [pc EXCEPT ![r][n] = "gone"]
    /\ Journaled(r, n)
    /\ UNCHANGED <<run, active, stage, known, flagged, aborted, redone, upsets>>

-----------------------------------------------------------------------------
(* The end of an attempt, cancels and crashes.                             *)

Result(r) == IF pc[r][Root] = "done" THEN "completed" ELSE pc[r][Root]

\* finalize: run.json, then the journal and the task record.
Finalize(r) ==
    /\ stage[r] = "running"
    /\ pc[r][Root] \in Errors \cup {"done"}
    /\ run' = Result(r)
    /\ At(r, "sealing")
    /\ UNCHANGED <<journal, active, known, flagged, pc, aborted, past, upsets>>

Seal(r) ==
    /\ stage[r] = "sealing"
    /\ At(r, "done")
    /\ active' = None
    /\ UNCHANGED <<disk, known, flagged, pc, aborted, past, upsets>>

\* The worker ends without a result if it cannot write at its beginning or its end.
WorkerFails(r) ==
    /\ Upset
    /\ stage[r] = "running"
    /\ \/ pc[r] = [Unbegun EXCEPT ![Root] = "begun"]
       \/ pc[r][Root] \in Errors \cup {"done"}
    /\ pc' = [pc EXCEPT ![r][Root] = "gone"]
    /\ At(r, "done")
    /\ active' = None
    /\ UNCHANGED <<disk, known, flagged, aborted, past>>

CancelRun(r) ==
    /\ Upset
    /\ stage[r] \in {"running", "sealing"}
    /\ active = r
    /\ flagged' = flagged \cup {r}
    /\ UNCHANGED <<disk, active, stage, known, pc, aborted, past>>

\* The process is lost.
Crash ==
    /\ Upset
    /\ \E r \in Attempts : stage[r] \in {"looked", "read", "setup", "running", "sealing"}
    /\ stage' = [r \in Attempts |-> IF stage[r] \in {"idle", "done"}
                                    THEN stage[r] ELSE "dead"]
    /\ run' \in IF \E r \in Attempts : stage[r] = "setup"
                THEN {run, "running"} ELSE {run}
    /\ active' = None
    /\ pc' = [r \in Attempts |-> Unbegun]
    /\ aborted' = [r \in Attempts |-> {}]
    /\ UNCHANGED <<journal, known, flagged, past>>

-----------------------------------------------------------------------------
Opens(r) ==
    \/ Start(r) \/ ResumeLooks(r) \/ ResumeReads(r) \/ Reserve(r) \/ ResumeRefused(r)
    \/ SetUp(r) \/ SetUpFails(r)

\* What a step that has begun does of its own.
Advances(r, n) ==
    \/ \E m \in Part[n] : Skip(r, n, m) \/ Begin(r, n, m) \/ BeginFails(r, n, m)
    \/ Complete(r, n) \/ CompleteFails(r, n)
    \/ Invoke(r, n) \/ AgentCancelled(r, n)
    \/ SerialEnds(r, n) \/ Spawned(r, n) \/ SpawnCancelled(r, n) \/ PartFails(r, n)
    \/ Drained(r, n) \/ Drop(r, n) \/ Lands(r, n)

Closes(r) == Finalize(r) \/ Seal(r) \/ WorkerFails(r)

Next ==
    \/ Crash
    \/ \E r \in Attempts :
          \/ Opens(r) \/ Closes(r) \/ CancelRun(r)
          \/ \E n \in Steps : Advances(r, n) \/ AgentEnds(r, n)

Spec == Init /\ [][Next]_vars

\* Tasks that can go on do.  No behaviour has infinitely many steps, so one condition
\* for each attempt asks no more than one for each task would.  An agent is sure to
\* end only once it is cancelled.
Fairness ==
    \A r \in Attempts :
        WF_vars(\/ SetUp(r) \/ SetUpFails(r) \/ Closes(r)
                \/ \E n \in Steps : pc[r][n] \in Working \cup {"landing"} /\ Advances(r, n))

FairSpec == Spec /\ Fairness

-----------------------------------------------------------------------------
(* Properties.                                                             *)

\* What is recorded as complete is complete in all its parts, and so is what a
\* serial container ran before it: a resumed run skips a journaled step without
\* looking below it.  The run's own record of completion is held to the same.
JournalClosed ==
    /\ \A n \in journal : Part[n] \cup Earlier[n] \subseteq journal
    /\ run = "completed" => Part[Root] \subseteq journal

\* The containers at work that n is a part of.
Chain(r, n) == {m \in Steps : pc[r][m] \in Working /\ n \in Part[m]}

\* An agent still at work when its run has ended was told to stop, itself or
\* with the step it is a part of: no agent is left to itself (run_parallel_steps,
\* "so no child agent keeps running").  A step at work has a container at work or
\* is in a task that was aborted.
NothingOutlivesRun ==
    \A r \in Attempts : \A n \in Steps \ {Root} :
        pc[r][n] \in Working => Chain(r, n) # {} \/ n \in aborted[r]

\* An agent is invoked again for a step the journal has complete only by an
\* attempt that read the journal before another attempt wrote that: a resume
\* reads first and reserves the run afterwards.
RedoneOnlyIfStale == \A x \in redone : x[1] \in stale

\* A cancelled run ends, although agents wait for permits without looking at the
\* flag; a run that nobody cancels waits for nothing but its agents, however its
\* parallel steps are nested.
RunSettles ==
    \A r \in Attempts :
        /\ r \in flagged ~> stage[r] \in {"done", "dead"}
        /\ stage[r] = "running" ~> \/ stage[r] \in {"done", "dead"}
                                   \/ \E n \in Steps : pc[r][n] = "agent"
=============================================================================
