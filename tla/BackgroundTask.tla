--------------------------- MODULE BackgroundTask ---------------------------
(***************************************************************************)
(* A background task: the record of it on disk, the worker that runs it,   *)
(* and everyone who reads and rewrites the record.                         *)
(*                                                                         *)
(* A job runs in a process of its own, which the command line spawns       *)
(* (bg-worker); an agent runs inside the process whose turn started it.    *)
(* Both keep one record in one file.  Whoever changes it reads the file,   *)
(* changes what was read and renames a new file over the old one; nothing  *)
(* locks the two, and most of the actors are different processes.  Every   *)
(* read and every write is a step.                                         *)
(*                                                                         *)
(* A write that fails and a process that is lost are the same here: the    *)
(* actor goes no further.                                                  *)
(***************************************************************************)
EXTENDS Naturals

CONSTANTS
    Clients,        \* whoever lists, cancels or stops the task
    Lister,         \* the one of them that is sure to list the jobs now and then
    NoRecord        \* nothing was read

Launcher == "launcher"
Worker == "worker"
Actors == Clients \cup {Launcher, Worker}

ASSUME BackgroundAssumption ==
    /\ Clients \cap {Launcher, Worker} = {}
    /\ Lister \in Clients

Active == {"queued", "running"}
Final == {"completed", "failed", "cancelled", "orphaned"}
Statuses == Active \cup Final

\* pid: whether the worker's process is on record.
Records == [status : Statuses, pid : BOOLEAN]

ASSUME NoRecordAssumption == NoRecord \notin Records

VARIABLES
    kind,       \* "job" or "agent"
    rec,        \* the record on disk
    held,       \* what an actor has read and not written back
    launcher,   \* who starts the task: where it is
    worker,     \* who runs it
    outcome,    \* how the worker's turn ended
    term,       \* SIGTERM waits for the worker
    flag,       \* the agent's entry in the registry of cancel flags
    client,     \* where a client is
    asked,      \* history: somebody set out to cancel the task
    misjudged   \* history: a probe of the worker failed while it lived

vars == <<kind, rec, held, launcher, worker, outcome, term, flag, client, asked,
          misjudged>>

BackgroundTypeOK ==
    /\ kind \in {"job", "agent"}
    /\ rec \in Records \cup {NoRecord}
    /\ kind = "agent" /\ rec # NoRecord => ~rec.pid
    /\ held \in [Actors -> Records \cup {NoRecord}]
    /\ launcher \in {"new", "created", "marking", "failing", "registered", "done", "lost"}
    /\ worker \in {"none", "booting", "ready", "turn", "stopping", "finishing", "gone"}
    /\ outcome \in {"none", "completed", "failed", "cancelled"}
    /\ term \in BOOLEAN
    /\ flag \in {"none", "clear", "set"}
    /\ client \in [Clients -> {"idle", "list", "load", "orphan", "kill", "mark", "cancel",
                               "stop", "write", "signal"}]
    /\ asked \in BOOLEAN
    /\ misjudged \in BOOLEAN

Init ==
    /\ kind \in {"job", "agent"}
    /\ rec = NoRecord
    /\ held = [a \in Actors |-> NoRecord]
    /\ launcher = "new"
    /\ worker = "none"
    /\ outcome = "none"
    /\ term = FALSE
    /\ flag = "none"
    /\ client = [c \in Clients |-> "idle"]
    /\ asked = FALSE
    /\ misjudged = FALSE

-----------------------------------------------------------------------------
(* The record.                                                             *)

\* Mutant: a job that was completed may still be cancelled.
CanTransitionLate(from, to) ==
    \/ from = to
    \/ from = "queued" /\ to \in {"running", "failed", "cancelled"}
    \/ from = "running" /\ to \in Final
    \/ from = "completed" /\ to = "cancelled"

CanTransition(from, to) ==
    \/ from = to
    \/ from = "queued" /\ to \in {"running", "failed", "cancelled"}
    \/ from = "running" /\ to \in Final

Reads(a) ==
    /\ rec # NoRecord
    /\ held' = [held EXCEPT ![a] = rec]

Forgets(a) == held' = [held EXCEPT ![a] = NoRecord]

\* BackgroundManager::transition, its second half: what was read decides whether
\* the change is legal, and is what is written back.
Marks(a, next) ==
    /\ held[a] # NoRecord
    /\ rec' = IF CanTransition(held[a].status, next)
              THEN [status |-> next, pid |-> held[a].pid \/ next = "running"]
              ELSE rec
    /\ Forgets(a)

\* A write that does not look at the status it replaces.
Overwrites(a, next) ==
    /\ held[a] # NoRecord
    /\ rec' = [held[a] EXCEPT !.status = next]
    /\ Forgets(a)

-----------------------------------------------------------------------------
(* The command line starts a job.                                          *)

CreateJob ==
    /\ kind = "job"
    /\ launcher = "new"
    /\ rec' = [status |-> "queued", pid |-> FALSE]
    /\ launcher' = "created"
    /\ UNCHANGED <<kind, held, worker, outcome, term, flag, client, asked,
                   misjudged>>

Spawn ==
    /\ kind = "job"
    /\ launcher = "created"
    /\ \/ launcher' = "marking" /\ worker' = "booting"
       \/ launcher' = "failing" /\ UNCHANGED worker
    /\ UNCHANGED <<kind, rec, held, outcome, term, flag, client, asked, misjudged>>

LauncherReads ==
    /\ launcher \in {"marking", "failing"}
    /\ held[Launcher] = NoRecord
    /\ Reads(Launcher)
    /\ UNCHANGED <<kind, rec, launcher, worker, outcome, term, flag, client, asked,
                   misjudged>>

\* mark_running with the child's pid, or mark_failed.
LauncherMarks ==
    /\ launcher \in {"marking", "failing"}
    /\ Marks(Launcher, IF launcher = "marking" THEN "running" ELSE "failed")
    /\ launcher' = "done"
    /\ UNCHANGED <<kind, worker, outcome, term, flag, client, asked, misjudged>>

LauncherLost ==
    /\ kind = "job"
    /\ launcher \in {"created", "marking", "failing"}
    /\ launcher' = "lost"
    /\ Forgets(Launcher)
    /\ UNCHANGED <<kind, rec, worker, outcome, term, flag, client, asked,
                   misjudged>>

-----------------------------------------------------------------------------
(* A turn starts an agent.                                                 *)

\* Mutant: the process that runs the agent is on record as the agent's own.
CreateAgentPid ==
    /\ kind = "agent"
    /\ launcher = "new"
    /\ rec' = [status |-> "running", pid |-> TRUE]
    /\ launcher' = "created"
    /\ UNCHANGED <<kind, held, worker, outcome, term, flag, client, asked,
                   misjudged>>

CreateAgent ==
    /\ kind = "agent"
    /\ launcher = "new"
    /\ rec' = [status |-> "running", pid |-> FALSE]
    /\ launcher' = "created"
    /\ UNCHANGED <<kind, held, worker, outcome, term, flag, client, asked,
                   misjudged>>

RegisterAgent ==
    /\ kind = "agent"
    /\ launcher = "created"
    /\ flag' = "clear"
    /\ launcher' = "registered"
    /\ UNCHANGED <<kind, rec, held, worker, outcome, term, client, asked,
                   misjudged>>

\* The tool result is written before the worker starts: if that fails there is
\* none, the record says running and the flag stays.
AgentStarts ==
    /\ launcher = "registered"
    /\ \/ launcher' = "done" /\ worker' = "turn"
       \/ launcher' = "lost" /\ UNCHANGED worker
    /\ UNCHANGED <<kind, rec, held, outcome, term, flag, client, asked, misjudged>>

-----------------------------------------------------------------------------
(* The worker.                                                             *)

\* run_background_worker installs its SIGTERM handler first of all.
WorkerReady ==
    /\ worker = "booting"
    /\ worker' = "ready"
    /\ UNCHANGED <<kind, rec, held, launcher, outcome, term, flag, client, asked,
                   misjudged>>

WorkerReads ==
    /\ worker = "ready" \/ worker = "finishing"
    /\ held[Worker] = NoRecord
    /\ Reads(Worker)
    /\ UNCHANGED <<kind, rec, launcher, worker, outcome, term, flag, client, asked,
                   misjudged>>

\* mark_running again, with its own pid; a refusal is ignored and the turn is
\* submitted all the same.
WorkerMarks ==
    /\ worker = "ready"
    /\ Marks(Worker, "running")
    /\ worker' = "turn"
    /\ UNCHANGED <<kind, launcher, outcome, term, flag, client, asked, misjudged>>

\* Mutant: the signal is looked at only until the turn begins.
WorkerSignalledEarly ==
    /\ kind = "job"
    /\ worker = "ready"
    /\ term
    /\ worker' = "stopping"
    /\ UNCHANGED <<kind, rec, held, launcher, outcome, term, flag, client, asked,
                   misjudged>>

\* The select between the turn's events and SIGTERM: the turn is cancelled.
WorkerSignalled ==
    /\ kind = "job"
    /\ worker = "turn"
    /\ term
    /\ worker' = "stopping"
    /\ UNCHANGED <<kind, rec, held, launcher, outcome, term, flag, client, asked,
                   misjudged>>

\* TurnFinished; Error, a blocked budget or a refused turn; TurnCancelled, which a
\* cancel may come too late for.
TurnEnds ==
    /\ worker \in {"turn", "stopping"}
    /\ \/ outcome' \in {"completed", "failed"}
       \/ outcome' = "cancelled" /\ (worker = "stopping" \/ flag = "set")
    /\ worker' = "finishing"
    /\ UNCHANGED <<kind, rec, held, launcher, term, flag, client, asked, misjudged>>

\* A job asks whether the change is legal, an agent does not.
WorkerFinishes ==
    /\ worker = "finishing"
    /\ \/ kind = "job" /\ Marks(Worker, outcome)
       \/ kind = "agent" /\ Overwrites(Worker, outcome)
    /\ worker' = "gone"
    /\ flag' = "none"
    /\ UNCHANGED <<kind, launcher, outcome, term, client, asked, misjudged>>

\* The process dies, cannot write, or loses the stream of its turn.
WorkerLost ==
    /\ worker \notin {"none", "gone"}
    /\ worker' = "gone"
    /\ flag' = "none"
    /\ Forgets(Worker)
    /\ UNCHANGED <<kind, rec, launcher, outcome, term, client, asked, misjudged>>

-----------------------------------------------------------------------------
(* Clients.                                                                *)

\* list_jobs and load_job read a job; load_job is how a cancel begins
\* (cancel_background_job, or cancel_async_task once it has seen an active task).
BeginLoad(c) ==
    /\ kind = "job"
    /\ client[c] = "idle"
    /\ Reads(c)
    /\ \E step \in {"list", "load"} : client' = [client EXCEPT ![c] = step]
    /\ UNCHANGED <<kind, rec, launcher, worker, outcome, term, flag, asked,
                   misjudged>>

\* Mutant: the process is not probed.
ProcessUnprobed(answer) == ~answer /\ UNCHANGED misjudged

\* process_is_alive: whatever keeps kill -0 from succeeding counts as an answer of
\* no, a probe that cannot be made or is not permitted included.
ProcessIsAlive(answer) ==
    \/ answer = (worker # "gone") /\ UNCHANGED misjudged
    \/ ~answer /\ worker # "gone" /\ misjudged' = TRUE

\* reconcile_orphan, to the probe of the process of a running job; then the caller
\* goes on with what it read: a list is done, a cancel looks whether the job is
\* active.
Probe(c) ==
    /\ client[c] \in {"list", "load"}
    /\ \E alive \in BOOLEAN :
          /\ IF held[c].status = "running" /\ held[c].pid THEN ProcessIsAlive(alive)
             ELSE alive /\ UNCHANGED misjudged
          /\ \/ /\ ~alive
                /\ client' = [client EXCEPT ![c] = "orphan"]
                /\ UNCHANGED <<held, asked>>
             \/ /\ alive
                /\ client[c] = "load" /\ held[c].status \in Active
                /\ client' = [client EXCEPT ![c] = "kill"]
                /\ asked' = TRUE
                /\ UNCHANGED held
             \/ /\ alive
                /\ client[c] = "list" \/ held[c].status \notin Active
                /\ client' = [client EXCEPT ![c] = "idle"]
                /\ Forgets(c)
                /\ UNCHANGED asked
    /\ UNCHANGED <<kind, rec, launcher, worker, outcome, term, flag>>

\* Mutant: the change is returned and not saved.
SaveOrphanNot(c) ==
    /\ client[c] = "orphan"
    /\ Forgets(c)
    /\ client' = [client EXCEPT ![c] = "idle"]
    /\ UNCHANGED <<kind, rec, launcher, worker, outcome, term, flag, asked,
                   misjudged>>

\* The record that was read is written back as orphaned.
SaveOrphan(c) ==
    /\ client[c] = "orphan"
    /\ Overwrites(c, "orphaned")
    /\ client' = [client EXCEPT ![c] = "idle"]
    /\ UNCHANGED <<kind, launcher, worker, outcome, term, flag, asked, misjudged>>

\* kill -TERM, if the record that was read had a pid.  It may fail, and the cancel
\* goes on.  It ends a worker that has no handler yet.
SendTerm(r) ==
    \/ UNCHANGED <<worker, term>>
    \/ /\ r.pid /\ worker = "booting"
       /\ worker' = "gone"
       /\ UNCHANGED term
    \/ /\ r.pid /\ worker \notin {"none", "booting", "gone"}
       /\ term' = TRUE
       /\ UNCHANGED worker

Kill(c) ==
    /\ client[c] = "kill"
    /\ SendTerm(held[c])
    /\ Forgets(c)
    /\ client' = [client EXCEPT ![c] = "mark"]
    /\ UNCHANGED <<kind, rec, launcher, outcome, flag, asked, misjudged>>

CancelReads(c) ==
    /\ client[c] = "mark"
    /\ Reads(c)
    /\ client' = [client EXCEPT ![c] = "cancel"]
    /\ UNCHANGED <<kind, rec, launcher, worker, outcome, term, flag, asked,
                   misjudged>>

CancelMarks(c) ==
    /\ client[c] = "cancel"
    /\ Marks(c, "cancelled")
    /\ client' = [client EXCEPT ![c] = "idle"]
    /\ UNCHANGED <<kind, launcher, worker, outcome, term, flag, asked, misjudged>>

\* TaskStop: a task that is not active is refused; otherwise its process is sent
\* TERM, its flag is set if it is registered in this process, and the record that
\* was read is written back as cancelled.
BeginStop(c) ==
    /\ client[c] = "idle"
    /\ Reads(c)
    /\ rec.status \in Active
    /\ client' = [client EXCEPT ![c] = "stop"]
    /\ asked' = TRUE
    /\ UNCHANGED <<kind, rec, launcher, worker, outcome, term, flag, misjudged>>

StopSignals(c) ==
    /\ client[c] = "stop"
    /\ SendTerm(held[c])
    /\ flag' \in {flag, IF flag = "none" THEN "none" ELSE "set"}
    /\ client' = [client EXCEPT ![c] = "write"]
    /\ UNCHANGED <<kind, rec, held, launcher, outcome, asked, misjudged>>

StopWrites(c) ==
    /\ client[c] = "write"
    /\ Overwrites(c, "cancelled")
    /\ client' = [client EXCEPT ![c] = "idle"]
    /\ UNCHANGED <<kind, launcher, worker, outcome, term, flag, asked, misjudged>>

\* cancel_async_task of an agent that was active when read: its flag is set, if it
\* has one.
BeginSignal(c) ==
    /\ kind = "agent"
    /\ client[c] = "idle"
    /\ Reads(c)
    /\ rec.status \in Active
    /\ client' = [client EXCEPT ![c] = "signal"]
    /\ UNCHANGED <<kind, rec, launcher, worker, outcome, term, flag, asked,
                   misjudged>>

SetFlag(c) ==
    /\ client[c] = "signal"
    /\ flag' = IF flag = "none" THEN "none" ELSE "set"
    /\ asked' = (asked \/ flag # "none")
    /\ Forgets(c)
    /\ client' = [client EXCEPT ![c] = "idle"]
    /\ UNCHANGED <<kind, rec, launcher, worker, outcome, term, misjudged>>

\* reconcile_orphaned_agents, when any process on this home directory starts: an
\* agent on record as running is taken for lost.
BeginReconcile(c) ==
    /\ kind = "agent"
    /\ client[c] = "idle"
    /\ Reads(c)
    /\ rec.status = "running"
    /\ client' = [client EXCEPT ![c] = "orphan"]
    /\ UNCHANGED <<kind, rec, launcher, worker, outcome, term, flag, asked,
                   misjudged>>

ClientLost(c) ==
    /\ client[c] # "idle"
    /\ Forgets(c)
    /\ client' = [client EXCEPT ![c] = "idle"]
    /\ UNCHANGED <<kind, rec, launcher, worker, outcome, term, flag, asked,
                   misjudged>>

-----------------------------------------------------------------------------
Launches ==
    \/ CreateJob \/ Spawn \/ LauncherReads \/ LauncherMarks
    \/ CreateAgent \/ RegisterAgent \/ AgentStarts

Works ==
    \/ WorkerReady \/ WorkerReads \/ WorkerMarks \/ WorkerSignalled
    \/ WorkerFinishes

Serves(c) ==
    \/ Probe(c) \/ SaveOrphan(c) \/ Kill(c) \/ CancelReads(c) \/ CancelMarks(c)
    \/ StopSignals(c) \/ StopWrites(c) \/ SetFlag(c)

Next ==
    \/ Launches \/ LauncherLost
    \/ Works \/ TurnEnds \/ WorkerLost
    \/ \E c \in Clients :
          \/ BeginLoad(c) \/ BeginStop(c) \/ BeginSignal(c) \/ BeginReconcile(c)
          \/ Serves(c) \/ ClientLost(c)

Spec == Init /\ [][Next]_vars

\* Processes run on; a turn that was told to stop ends; and one client comes back to
\* list the jobs and is not lost each time before the end of it.  Nothing is asked
\* of the other clients, nor of a turn that was not told to stop.
Fairness ==
    /\ WF_vars(Launches)
    /\ WF_vars(Works)
    /\ WF_vars(worker = "stopping" /\ TurnEnds)
    /\ WF_vars(Serves(Lister))
    /\ SF_vars(BeginLoad(Lister)) /\ SF_vars(Probe(Lister)) /\ SF_vars(SaveOrphan(Lister))

FairSpec == Spec /\ Fairness

-----------------------------------------------------------------------------
(* Properties.                                                             *)

\* What a status says did happen, whoever wrote it last and however old what they
\* wrote back was: a completed or failed task ended that way (or was never
\* spawned), a cancelled one was asked to stop, and a job is called orphaned only
\* if its process is gone or somebody failed to probe it (reconcile_orphan).
Truthful(r) ==
    /\ r.status = "completed" => outcome = "completed"
    /\ r.status = "failed" => outcome = "failed" \/ (worker = "none" /\ launcher = "done")
    /\ r.status = "cancelled" => asked
    /\ kind = "job" /\ r.status = "orphaned" => worker = "gone" \/ misjudged

RecordTruthful == rec # NoRecord => Truthful(rec)

\* A job that has come to its end is changed only by somebody who had read it
\* when it was something else, and once by each: whoever reads it afterwards
\* leaves it alone (can_transition_to, is_active).
FinalUnlessStale ==
    [][kind = "job" /\ rec # NoRecord /\ rec.status \in Final /\ rec'.status # rec.status
         => \E a \in Actors : /\ held[a] # NoRecord /\ held'[a] = NoRecord
                              /\ held[a].status # rec.status]_vars

\* A worker that was sent SIGTERM goes away, wherever the signal found it.
SignalledWorkerEnds == term ~> worker = "gone"

\* A job that was recorded as running does not look active for ever once its
\* worker is gone: not even what a slow writer puts back lasts.
JobSettles ==
    kind = "job" /\ launcher = "done" /\ worker \in {"none", "gone"}
        ~> [](rec # NoRecord /\ rec.status \in Final)
=============================================================================
