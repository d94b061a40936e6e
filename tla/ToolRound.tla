----------------------------- MODULE ToolRound -----------------------------
(***************************************************************************)
(* One provider response and the tools it asks for.                        *)
(*                                                                         *)
(* While the response still streams, a tool that needs no decision and has *)
(* no hooks is started as a task of its own (a streamed execution), in     *)
(* whatever order the blocks arrive.  When the response is complete the    *)
(* round goes through the tool uses in the provider's order: it takes the  *)
(* buffered result of a streamed execution, or runs the tool inline with   *)
(* its permission and hooks.  A round ends because every tool is done, a   *)
(* tool was denied, the turn was cancelled, or something failed.           *)
(*                                                                         *)
(* What hooks say to the model is held back while the round lasts          *)
(* (hold, contexts), so that nothing comes between the results.            *)
(***************************************************************************)
EXTENDS Integers, Sequences, FiniteSets

CONSTANT N      \* the most tool uses a response has

ASSUME NAssumption == N \in Nat \ {0}

\* The response that streams in, and the turn.
VARIABLES
    arrived,    \* tool uses that are complete, 1 .. arrived
    attempt,    \* which provider is streaming
    cancel,     \* the turn's cancel flag
    registered  \* the turn is the one in the registry

\* The streamed executions.
VARIABLES
    executions, \* the driver's table of them
    run         \* what became of each task

\* The round.
VARIABLES
    phase,      \* where the driver is
    ending,     \* how the round ends, once that is decided
    next_index, \* tool uses handed out by the scheduler
    ready,      \* those handed out and not yet worked on, in order
    committed   \* tool uses whose outcome is "continue", 1 .. committed

\* What others see.
VARIABLES
    hold,       \* hold_depth of the session's context queue
    contexts,   \* the hook contexts held back, by tool use
    log,        \* the transcript after the assistant's message
    started,    \* ToolUseStarted events, by tool use
    finished    \* ToolUseCompleted events, by tool use

stream == <<arrived, attempt>>
turn   == <<cancel, registered>>
tasks  == <<executions, run>>
round  == <<phase, ending, next_index, ready, committed>>
queue  == <<hold, contexts>>
events == <<started, finished>>
vars   == <<stream, turn, tasks, round, queue, log, events>>

Uses == 1 .. N

Runs == {"idle", "running", "ok", "stopped", "broken", "aborted"}

Phases == {"stream", "respond", "collect", "work", "ask", "invoke", "stop",
           "answer", "close", "over"}

\* "aborted" is a cancel while the response streams, "discarded" an attempt
\* thrown away after one of its tools had started.
Endings == {"none", "continue", "denied", "cancelled", "aborted", "discarded",
            "failed"}

\* "result" is what the tool, or its refusal, wrote; "interrupted" is a result
\* made up for a tool use that has none.
Results == {"result", "interrupted"}

Entries == [kind : Results \cup {"context", "command", "notice"}, use : 0 .. N]

Entry(k, i) == [kind |-> k, use |-> i]

ToolRoundTypeOK ==
    /\ arrived \in 0 .. N
    /\ attempt \in {"primary", "fallback"}
    /\ cancel \in BOOLEAN
    /\ registered \in BOOLEAN
    /\ executions \subseteq Uses
    /\ run \in [Uses -> Runs]
    /\ phase \in Phases
    /\ ending \in Endings
    /\ next_index \in 0 .. N
    /\ ready \in Seq(Uses)
    /\ committed \in 0 .. N
    /\ hold \in 0 .. 1
    /\ contexts \in Seq(Uses)
    /\ log \in Seq(Entries)
    /\ started \in [Uses -> Nat]
    /\ finished \in [Uses -> Nat]

Init ==
    /\ arrived = 0
    /\ attempt = "primary"
    /\ cancel = FALSE
    /\ registered = TRUE
    /\ executions = {}
    /\ run = [i \in Uses |-> "idle"]
    /\ phase = "stream"
    /\ ending = "none"
    /\ next_index = 0
    /\ ready = <<>>
    /\ committed = 0
    /\ hold = 0
    /\ contexts = <<>>
    /\ log = <<>>
    /\ started = [i \in Uses |-> 0]
    /\ finished = [i \in Uses |-> 0]

\* The tool uses that have a result in the transcript.
Answered == {log[p].use : p \in {q \in DOMAIN log : log[q].kind \in Results}}

Bump(f, i) == [f EXCEPT ![i] = @ + 1]

-----------------------------------------------------------------------------
(* Streamed executions.                                                    *)

StartStreamed(i) ==
    /\ executions' = executions \cup {i}
    /\ run' = [run EXCEPT ![i] = "running"]
    /\ started' = Bump(started, i)
    /\ UNCHANGED finished

NotStreamed == UNCHANGED <<tasks, events>>

\* The task ends: with a result, interrupted, or with an error of its own.
ExecutionEnds(i) ==
    /\ run[i] = "running"
    /\ \E r \in {"ok", "stopped", "broken"} : run' = [run EXCEPT ![i] = r]
    /\ UNCHANGED <<stream, turn, executions, round, queue, log, events>>

\* Mutant: tasks are detached instead of aborted.
DroppedDetached == run

\* The handles are dropped, which aborts the tasks and announces nothing.
Dropped == [i \in Uses |-> IF i \in executions /\ run[i] = "running"
                           THEN "aborted" ELSE run[i]]

-----------------------------------------------------------------------------
(* The response streams in.                                                *)

ToolUseArrives ==
    /\ phase = "stream"
    /\ arrived < N
    /\ arrived' = arrived + 1
    /\ StartStreamed(arrived + 1) \/ NotStreamed
    /\ UNCHANGED <<attempt, turn, round, queue, log>>

StreamCompletes ==
    /\ phase = "stream"
    /\ arrived > 0
    /\ ~cancel
    /\ phase' = "respond"
    /\ UNCHANGED <<stream, turn, tasks, ending, next_index, ready, committed,
                   queue, log, events>>

Stop(e) ==
    /\ phase' = "stop"
    /\ ending' = e

\* However the stream ended, the flag is looked at first.
StreamCancelled ==
    /\ phase = "stream"
    /\ cancel
    /\ Stop("aborted")
    /\ UNCHANGED <<stream, turn, tasks, next_index, ready, committed, queue, log,
                   events>>

StreamFails ==
    /\ phase = "stream"
    /\ ~cancel
    /\ Stop("failed")
    /\ UNCHANGED <<stream, turn, tasks, next_index, ready, committed, queue, log,
                   events>>

\* The first provider fails in the middle of its response.  The second one may
\* take over only if no tool of the first response was started.
DiscardAttempt ==
    /\ phase = "stream"
    /\ attempt = "primary"
    /\ \/ /\ executions = {}
          /\ arrived' = 0
          /\ attempt' = "fallback"
          /\ UNCHANGED <<phase, ending>>
       \/ /\ executions # {}
          /\ Stop("discarded")
          /\ UNCHANGED stream
    /\ UNCHANGED <<turn, tasks, next_index, ready, committed, queue, log, events>>

-----------------------------------------------------------------------------
(* Through the tool uses in order.                                         *)

\* Mutant: the queue is held once for the response and once for the round.
RespondHoldsTwice ==
    /\ phase = "respond"
    /\ phase' = "collect"
    /\ hold' = hold + 2
    /\ UNCHANGED <<stream, turn, tasks, ending, next_index, ready, committed,
                   contexts, log, events>>

\* The assistant's message is written and the context queue held.
Respond ==
    /\ phase = "respond"
    /\ phase' = "collect"
    /\ hold' = hold + 1
    /\ UNCHANGED <<stream, turn, tasks, ending, next_index, ready, committed,
                   contexts, log, events>>

RespondFails ==
    /\ phase = "respond"
    /\ phase' = "over"
    /\ ending' = "failed"
    /\ executions' = {}
    /\ run' = Dropped
    /\ UNCHANGED <<stream, turn, next_index, ready, committed, queue, log, events>>

\* next_ready: up to and including the first tool use that has to run inline.
Collect ==
    /\ phase = "collect"
    /\ next_index < arrived
    /\ next_index' = next_index + 1
    /\ ready' = Append(ready, next_index + 1)
    /\ \/ /\ next_index + 1 \in executions
          /\ NotStreamed
          /\ UNCHANGED phase
       \/ /\ next_index + 1 \notin executions
          /\ StartStreamed(next_index + 1)
          /\ UNCHANGED phase
       \/ /\ next_index + 1 \notin executions
          /\ NotStreamed
          /\ phase' = "work"
    /\ UNCHANGED <<stream, turn, ending, committed, queue, log>>

\* Mutant: contexts are flushed after each batch of tool uses.
CollectedFlushing ==
    /\ phase = "collect"
    /\ next_index = arrived
    /\ IF ready = <<>> THEN Stop("continue")
                       ELSE phase' = "work" /\ UNCHANGED ending
    /\ log' = log \o [p \in DOMAIN contexts |-> Entry("context", contexts[p])]
    /\ contexts' = <<>>
    /\ UNCHANGED <<stream, turn, tasks, next_index, ready, committed, hold, events>>

Collected ==
    /\ phase = "collect"
    /\ next_index = arrived
    /\ IF ready = <<>> THEN Stop("continue")
                       ELSE phase' = "work" /\ UNCHANGED ending
    /\ UNCHANGED <<stream, turn, tasks, next_index, ready, committed, queue, log,
                   events>>

\* The scheduler's decision on an outcome.  Items are worked on in order, so
\* the outcome recorded is always the next to commit.
Continue(i) ==
    /\ committed' = i
    /\ ready' = Tail(ready)
    /\ phase' = IF Tail(ready) = <<>> THEN "collect" ELSE "work"
    /\ UNCHANGED ending

Halt(e) ==
    /\ Stop(e)
    /\ ready' = Tail(ready)
    /\ UNCHANGED committed

\* The result message, and the event after it.
WriteResult(i) ==
    /\ log' = Append(log, Entry("result", i))
    /\ finished' = Bump(finished, i)
    /\ UNCHANGED started

\* What the hooks of the tool have to say, if anything, waits in the queue.
MaySay(i) ==
    /\ contexts' \in {contexts, Append(contexts, i)}
    /\ UNCHANGED hold

\* An error: the queue of contexts is thrown away.
Fail ==
    /\ Stop("failed")
    /\ hold' = 0
    /\ contexts' = <<>>
    /\ ready' = Tail(ready)
    /\ UNCHANGED <<stream, turn, next_index, committed, log, events>>

WorkStreamed ==
    /\ phase = "work"
    /\ LET i == Head(ready) IN
       /\ i \in executions
       /\ run[i] \in {"ok", "stopped"}
       /\ executions' = executions \ {i}
       /\ WriteResult(i)
       /\ IF run[i] = "ok" THEN Continue(i) ELSE Halt("cancelled")
    /\ UNCHANGED <<stream, turn, run, next_index, queue>>

\* The task failed, or its result could not be written.
WorkStreamedFails ==
    /\ phase = "work"
    /\ LET i == Head(ready) IN
       /\ i \in executions
       /\ run[i] \in {"ok", "stopped", "broken"}
       /\ executions' = executions \ {i}
    /\ UNCHANGED run
    /\ Fail

Inline(i) ==
    /\ i = Head(ready)
    /\ i \notin executions

\* Nothing is written; the end of the round answers the tool use.
WorkCancelled ==
    /\ phase = "work"
    /\ Inline(Head(ready))
    /\ cancel
    /\ Halt("cancelled")
    /\ UNCHANGED <<stream, turn, tasks, next_index, queue, log, events>>

WorkUnknownTool ==
    /\ phase = "work"
    /\ ~cancel
    /\ LET i == Head(ready) IN
       /\ Inline(i)
       /\ WriteResult(i)
       /\ Continue(i)
    /\ UNCHANGED <<stream, turn, tasks, next_index, queue>>

\* A rule, a hook, the user, or the trust of an MCP server: the denial is the
\* tool's result.
WorkDenied ==
    /\ phase \in {"work", "ask", "invoke"}
    /\ phase = "work" => ~cancel
    /\ LET i == Head(ready) IN
       /\ Inline(i)
       /\ WriteResult(i)
       /\ MaySay(i)
    /\ Halt("denied")
    /\ UNCHANGED <<stream, turn, tasks, next_index>>

WorkAsks ==
    /\ phase = "work"
    /\ ~cancel
    /\ Inline(Head(ready))
    /\ phase' = "ask"
    /\ UNCHANGED <<stream, turn, tasks, ending, next_index, ready, committed,
                   queue, log, events>>

\* Mutant: the wait looks at the registry instead of the flag.
AskInterruptedIfDetached ==
    /\ phase = "ask"
    /\ cancel
    /\ ~registered
    /\ Halt("cancelled")
    /\ UNCHANGED <<stream, turn, tasks, next_index, queue, log, events>>

\* await_permission_decision gives up when the flag is set.
AskInterrupted ==
    /\ phase = "ask"
    /\ cancel
    /\ Halt("cancelled")
    /\ UNCHANGED <<stream, turn, tasks, next_index, queue, log, events>>

\* Allowed, or approved: the tool is announced and invoked.
Invoke ==
    /\ phase \in {"work", "ask"}
    /\ phase = "work" => ~cancel
    /\ Inline(Head(ready))
    /\ phase' = "invoke"
    /\ started' = Bump(started, Head(ready))
    /\ UNCHANGED <<stream, turn, tasks, ending, next_index, ready, committed,
                   queue, log, finished>>

\* A result or an error of the tool.
InvokeEnds ==
    /\ phase = "invoke"
    /\ LET i == Head(ready) IN
       /\ WriteResult(i)
       /\ MaySay(i)
       /\ Continue(i)
    /\ UNCHANGED <<stream, turn, tasks, next_index>>

InvokeInterrupted ==
    /\ phase = "invoke"
    /\ LET i == Head(ready) IN
       /\ WriteResult(i)
       /\ MaySay(i)
    /\ Halt("cancelled")
    /\ UNCHANGED <<stream, turn, tasks, next_index>>

\* The wait for the trust of an MCP server was interrupted: no result yet.
TrustInterrupted ==
    /\ phase = "invoke"
    /\ cancel
    /\ Halt("cancelled")
    /\ UNCHANGED <<stream, turn, tasks, next_index, queue, log, events>>

\* Hooks, progress records or the result could not be written.
WorkFails ==
    /\ phase \in {"work", "ask", "invoke"}
    /\ phase = "work" => ~cancel
    /\ Inline(Head(ready))
    /\ UNCHANGED tasks
    /\ Fail

-----------------------------------------------------------------------------
(* The end of the round.                                                   *)

\* Mutant: stopping announces the tool in a cancelled round too.
StopExecutionLoud(i) ==
    /\ phase = "stop"
    /\ i \in executions
    /\ executions' = executions \ {i}
    /\ run' = [run EXCEPT ![i] = IF @ = "running" THEN "stopped" ELSE @]
    /\ finished' = Bump(finished, i)
    /\ UNCHANGED <<stream, turn, round, queue, log, started>>

\* interrupt_streamed_tool_executions, and stop_streamed_tool_executions, which
\* leaves the events to the answers: the task is flagged and waited for.
StopExecution(i) ==
    /\ phase = "stop"
    /\ i \in executions
    /\ executions' = executions \ {i}
    /\ run' = [run EXCEPT ![i] = IF @ = "running" THEN "stopped" ELSE @]
    /\ finished' = IF ending = "cancelled" THEN finished ELSE Bump(finished, i)
    /\ UNCHANGED <<stream, turn, round, queue, log, started>>

Said == [p \in DOMAIN contexts |-> Entry("context", contexts[p])]

\* flush_tool_result_context_queue; with the queue gone it does nothing.
Flush(rest) ==
    /\ hold' = 0
    /\ contexts' = <<>>
    /\ log' = log \o Said \o rest

Over ==
    /\ phase' = "over"
    /\ UNCHANGED <<stream, turn, tasks, next_index, ready, committed, events>>

\* Every tool is done: contexts, then the commands the user has queued.
EndContinue ==
    /\ phase = "stop"
    /\ executions = {}
    /\ ending = "continue"
    /\ \E rest \in {<<>>, <<Entry("command", 0)>>} : Flush(rest)
    /\ Over
    /\ UNCHANGED ending

\* execute_tool_round flushes the contexts before it returns the denial.
EndDenied ==
    /\ phase = "stop"
    /\ executions = {}
    /\ ending = "denied"
    /\ Flush(<<>>)
    /\ phase' = "answer"
    /\ UNCHANGED <<stream, turn, tasks, ending, next_index, ready, committed,
                   events>>

EndCancelled ==
    /\ phase = "stop"
    /\ executions = {}
    /\ ending = "cancelled"
    /\ phase' = "answer"
    /\ UNCHANGED <<stream, turn, tasks, ending, next_index, ready, committed,
                   queue, log, events>>

\* A response that was cancelled or failed while it streamed: the partial
\* message has no results, and the next request repairs it.  The notice may
\* fail to be written.
EndWithoutRound ==
    /\ phase = "stop"
    /\ executions = {}
    /\ \/ /\ \/ ending = "failed"
             \/ ending = "discarded" /\ ~cancel
             \/ ending \in {"aborted", "discarded"} /\ cancel /\ registered
          /\ ending' = "failed"
          /\ UNCHANGED log
       \/ /\ ending = "aborted" \/ (ending = "discarded" /\ cancel)
          /\ ending' = "aborted"
          /\ log' = IF registered THEN Append(log, Entry("notice", 0)) ELSE log
    /\ Over
    /\ UNCHANGED queue

\* Mutant: the cancelled tool use is skipped as the denied one is.
RemainingAfterCurrent == committed + 2 .. arrived

\* remaining_tool_uses of the outcome.
Remaining == (IF ending = "denied" THEN committed + 2 ELSE committed + 1) .. arrived

\* Mutant: whether the transcript has a result already is not asked.
AnswerNextAgain ==
    /\ phase = "answer"
    /\ \E i \in Remaining :
          /\ \A p \in DOMAIN log : log[p] # Entry("interrupted", i)
          /\ log' = Append(log, Entry("interrupted", i))
          /\ finished' = Bump(finished, i)
    /\ UNCHANGED <<stream, turn, tasks, round, queue, started>>

\* append_interrupted_tool_results, one tool use at a time, those without a
\* result only.
AnswerNext ==
    /\ phase = "answer"
    /\ \E i \in Remaining \ Answered :
          /\ \A j \in Remaining \ Answered : i <= j
          /\ log' = Append(log, Entry("interrupted", i))
          /\ finished' = Bump(finished, i)
    /\ UNCHANGED <<stream, turn, tasks, round, queue, started>>

AnswersDone ==
    /\ phase = "answer"
    /\ Remaining \subseteq Answered
    /\ phase' = "close"
    /\ UNCHANGED <<stream, turn, tasks, ending, next_index, ready, committed,
                   queue, log, events>>

\* The second flush of a denied round, the only one of a cancelled round.  The
\* notice is written only by the turn that is still the registered one.
Close ==
    /\ phase = "close"
    /\ Flush(IF ending = "cancelled" /\ registered
             THEN <<Entry("notice", 0)>> ELSE <<>>)
    /\ Over
    /\ UNCHANGED ending

\* A result, a context, a command or the notice cannot be written.  A failure
\* among the results leaves the context queue of a cancelled round held.
EndFails ==
    /\ \/ phase \in {"answer", "close"}
       \/ phase = "stop" /\ executions = {} /\ ending \in {"continue", "denied"}
    /\ ending' = "failed"
    /\ \/ phase = "answer" /\ UNCHANGED <<queue, log>>
       \/ /\ phase # "answer"
          /\ hold' = 0
          /\ contexts' = <<>>
          /\ \E k \in 0 .. Len(contexts) : log' = log \o SubSeq(Said, 1, k)
    /\ Over

-----------------------------------------------------------------------------
CancelTurn ==
    /\ phase # "over"
    /\ registered
    /\ ~cancel
    /\ cancel' = TRUE
    /\ UNCHANGED <<stream, registered, tasks, round, queue, log, events>>

InterruptTurn ==
    /\ phase # "over"
    /\ registered
    /\ cancel' = TRUE
    /\ registered' = FALSE
    /\ UNCHANGED <<stream, tasks, round, queue, log, events>>

\* What the driver does by itself, once the stream is over.
Driver ==
    \/ StreamCancelled
    \/ Respond \/ RespondFails
    \/ Collect \/ Collected
    \/ WorkStreamed \/ WorkStreamedFails \/ WorkCancelled \/ AskInterrupted
    \/ \E i \in Uses : StopExecution(i)
    \/ EndContinue \/ EndDenied \/ EndCancelled \/ EndWithoutRound
    \/ AnswerNext \/ AnswersDone \/ Close \/ EndFails

Next ==
    \/ ToolUseArrives \/ StreamCompletes \/ StreamFails \/ DiscardAttempt
    \/ \E i \in Uses : ExecutionEnds(i)
    \/ WorkUnknownTool \/ WorkDenied \/ WorkAsks \/ Invoke \/ InvokeEnds
    \/ InvokeInterrupted \/ TrustInterrupted \/ WorkFails
    \/ Driver
    \/ CancelTurn \/ InterruptTurn

Spec == Init /\ [][Next]_vars

\* The driver goes on; an inline tool and a streamed execution end once the
\* turn is cancelled, which they poll (and which a forwarder passes on).
Fairness ==
    /\ WF_vars(Driver)
    /\ WF_vars(cancel /\ InvokeInterrupted)
    /\ \A i \in Uses : WF_vars(cancel /\ ExecutionEnds(i))

FairSpec == Spec /\ Fairness

-----------------------------------------------------------------------------
(* Properties.                                                             *)

Settled == ending \in {"continue", "denied", "cancelled"}

Contract == INSTANCE AnsweredRound WITH
    uses     <- 1 .. arrived,
    answered <- Answered,
    state    <- IF phase = "over"
                THEN IF Settled THEN "settled" ELSE "abandoned"
                ELSE IF phase \in {"stream", "respond"} THEN "asking"
                ELSE "answering"

\* What the rounds of a session promise the next request: tool uses are answered
\* in the provider's order, and a round that is settled has answered them all
\* (ToolRoundScheduler, append_interrupted_tool_results).
KeepsContract == Contract!Spec

\* Results are written in the provider's order and no tool use has two, although
\* a task, the round and the answers made up at the end may all write one
\* (session_has_tool_result).
ResultsInOrder ==
    \A p, q \in DOMAIN log :
        p < q /\ log[p].kind \in Results /\ log[q].kind \in Results
        => log[p].use < log[q].use

\* What a hook says never comes between the results that tools wrote
\* (begin_tool_result_context_queue).
ContextsFollowResults ==
    \A p, q \in DOMAIN log :
        p < q /\ log[q].kind = "result" => log[p].kind = "result"

\* A client that saw a tool start sees it complete, and only once, although the
\* task, the round and the answers made up at the end all announce completions.
\* (In a denied round a stopped execution is announced twice.)
EventsPaired ==
    /\ phase = "over" /\ ending # "failed" =>
          \A i \in Uses : started[i] > 0 => finished[i] > 0
    /\ ending \in {"none", "continue", "cancelled", "aborted"} =>
          \A i \in Uses : finished[i] <= 1

\* Nothing of a round outlives it: no task still runs, and the context queue
\* is given back, or the session's contexts would never be written again.
NothingOutlivesRound ==
    phase = "over" =>
        /\ \A i \in Uses : run[i] # "running"
        /\ ending # "failed" => hold = 0 /\ contexts = <<>>

\* Once the turn is cancelled its round ends, whichever task it waits for.
CancelEndsRound == cancel ~> phase = "over"
=============================================================================
