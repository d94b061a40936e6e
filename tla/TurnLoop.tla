------------------------------ MODULE TurnLoop ------------------------------
(***************************************************************************)
(* The turns of one session: how they are submitted, what their driver     *)
(* does between provider requests, how the user's further commands are     *)
(* queued and taken in, how turns are cancelled and interrupted, and the   *)
(* transcript that all of them write.                                      *)
(*                                                                         *)
(* An interrupted turn leaves the registry at once and runs out by itself, *)
(* so it writes beside the turn that follows it.  The registry, the queue, *)
(* the review counter and the transcript are each under a lock of their    *)
(* own; every step between two of them is an action.                       *)
(*                                                                         *)
(* A round of tools is what AnsweredRound says of it: results in order,    *)
(* then an end.                                                            *)
(***************************************************************************)
EXTENDS MessageRepair

CONSTANTS
    Turns,          \* numbers, in the order in which they are submitted
    Commands,       \* what the user says while a turn runs
    None,           \* no turn
    MaxWork,        \* bound on the requests and compactions of all turns
    MaxUses,        \* bound on the tool uses of a response
    MaxSweeps,      \* bound on the cancels whose discard is outstanding
    ReviewLimit     \* MAX_APPROVAL_REVIEWS_PER_TURN

ASSUME TurnLoopAssumption ==
    /\ Turns \subseteq Nat
    /\ None \notin Turns
    /\ MaxWork \in Nat
    /\ MaxUses \in Nat
    /\ MaxSweeps \in Nat
    /\ ReviewLimit \in Nat

\* What the turns share.
VARIABLES
    active,     \* the turn in the registry
    flagged,    \* the turns whose cancel flag is set
    queue,      \* queued_user_commands
    sweeps,     \* cancels that have yet to discard the queue
    reviews,    \* approval_review_counts of the session
    log         \* the messages of the transcript

\* Each turn's driver.
VARIABLES
    pc,         \* where it is
    requests,   \* provider_request_count
    compacted,  \* the kinds of compaction its prompt has had
    hand,       \* commands drained and not yet written
    todo,       \* tool uses of its round without a result
    seen        \* the transcript it read in order to rewrite it

\* History.
VARIABLES
    steer,      \* how far a command has come
    lost,       \* commands that were accepted and will not be taken in
    granted,    \* tool uses of a turn that were reviewed
    rivals      \* turns that have run at the same time as a turn

shared  == <<active, flagged, queue, sweeps, reviews, log>>
driver  == <<pc, requests, compacted, hand, todo, seen>>
history == <<steer, lost, granted, rivals>>
vars    == <<shared, driver, history>>

Message(kind, uses) == [kind |-> kind, uses |-> uses]
Prompt(t) == [kind |-> "prompt", uses |-> {}, turn |-> t]
Said(c) == [kind |-> "command", uses |-> {}, command |-> c]

\* The driver's steps, in the order of run_turn_loop.
Steps == {"idle", "begin", "setup", "undo", "hooks", "block", "top", "flush", "check", "light",
          "auto", "stream", "idlecheck", "round", "inject", "notice", "ending",
          "closing", "gone"}

Live(t) == pc[t] \notin {"idle", "gone"}

\* A tool use: the turn, the request and its place in the response.
Uses == Turns \X Nat \X (1 .. MaxUses)

TurnLoopTypeOK ==
    /\ active \in Turns \cup {None}
    /\ flagged \subseteq Turns
    /\ queue \in Seq(Commands)
    /\ sweeps \in 0 .. MaxSweeps
    /\ reviews \in 0 .. ReviewLimit
    /\ pc \in [Turns -> Steps]
    /\ requests \in [Turns -> Nat]
    /\ compacted \in [Turns -> SUBSET {"light", "auto"}]
    /\ hand \in [Turns -> Seq(Commands)]
    /\ todo \in [Turns -> Seq(Uses)]
    /\ steer \in [Commands -> {"new", "seen", "accepted"}]
    /\ lost \subseteq Commands
    /\ granted \in [Turns -> SUBSET Uses]
    /\ rivals \in [Turns -> SUBSET Turns]

Init ==
    /\ active = None
    /\ flagged = {}
    /\ queue = <<>>
    /\ sweeps = 0
    /\ reviews = 0
    /\ log = <<>>
    /\ pc = [t \in Turns |-> "idle"]
    /\ requests = [t \in Turns |-> 0]
    /\ compacted = [t \in Turns |-> {}]
    /\ hand = [t \in Turns |-> <<>>]
    /\ todo = [t \in Turns |-> <<>>]
    /\ seen = [t \in Turns |-> <<>>]
    /\ steer = [c \in Commands |-> "new"]
    /\ lost = {}
    /\ granted = [t \in Turns |-> {}]
    /\ rivals = [t \in Turns |-> {}]

Go(t, step) == pc' = [pc EXCEPT ![t] = step]

Write(m) == log' = Append(log, m)

-----------------------------------------------------------------------------
(* Submitting a turn, and its end.                                         *)

\* ActiveTurnRegistry::insert; an active turn refuses another.
Submit(t) ==
    /\ pc[t] = "idle"
    /\ \A u \in Turns : u < t => pc[u] # "idle"
    /\ active = None
    /\ active' = t
    /\ Go(t, "begin")
    /\ rivals' = [u \in Turns |->
                    IF u = t THEN {v \in Turns : Live(v)}
                    ELSE IF Live(u) THEN rivals[u] \cup {t} ELSE rivals[u]]
    /\ UNCHANGED <<flagged, queue, sweeps, reviews, log, requests, compacted, hand,
                   todo, seen, steer, lost, granted>>

\* begin_permission_turn.
BeginPermissions(t) ==
    /\ pc[t] = "begin"
    /\ reviews' = 0
    /\ Go(t, "setup")
    /\ UNCHANGED <<active, flagged, queue, sweeps, log, requests, compacted, hand,
                   todo, seen, history>>

\* The session is registered, the prompt kept in the history and written.
SetUp(t) ==
    /\ pc[t] = "setup"
    /\ Write(Prompt(t))
    /\ Go(t, "hooks")
    /\ UNCHANGED <<active, flagged, queue, sweeps, reviews, requests, compacted,
                   hand, todo, seen, history>>

\* Mutant: whatever is registered is removed.
ClearAnyway(t) == active' = None

ClearIfMatching(t) == active' = IF active = t THEN None ELSE active

\* The turn's flag goes with it, and its reviews.
Leave(t) ==
    /\ Go(t, "gone")
    /\ flagged' = flagged \ {t}
    /\ granted' = [granted EXCEPT ![t] = {}]

\* The registry entry is given back, or the session would be wedged.
SetUpFails(t) ==
    /\ pc[t] = "setup"
    /\ ClearIfMatching(t)
    /\ Go(t, "undo")
    /\ UNCHANGED <<flagged, queue, sweeps, reviews, log, requests, compacted, hand,
                   todo, seen, history>>

\* end_permission_turn, by session: after the registry when the setup failed,
\* before it when the driver ends.
EndPermissions(t) ==
    /\ pc[t] \in {"undo", "ending"}
    /\ reviews' = 0
    /\ IF pc[t] = "undo" THEN Leave(t)
       ELSE Go(t, "closing") /\ UNCHANGED <<flagged, granted>>
    /\ UNCHANGED <<active, queue, sweeps, log, requests, compacted, hand, todo,
                   seen, steer, lost, rivals>>

\* Mutant: the count is cleared once more.
LeaveRegistryClears(t) ==
    /\ pc[t] = "closing"
    /\ ClearIfMatching(t)
    /\ reviews' = 0
    /\ Leave(t)
    /\ UNCHANGED <<queue, sweeps, log, requests, compacted, hand, todo, seen, steer,
                   lost, rivals>>

LeaveRegistry(t) ==
    /\ pc[t] = "closing"
    /\ ClearIfMatching(t)
    /\ Leave(t)
    /\ UNCHANGED <<queue, sweeps, reviews, log, requests, compacted, hand, todo,
                   seen, steer, lost, rivals>>

-----------------------------------------------------------------------------
(* Before the first request.                                               *)

\* The provider is not allowed, or a hook's context cannot be written: the turn
\* ends.  Otherwise the hooks let it pass; a context of theirs is part of the
\* prompt here.
HooksDone(t) ==
    /\ pc[t] = "hooks"
    /\ \E step \in {"top", "ending"} : Go(t, step)
    /\ UNCHANGED <<shared, requests, compacted, hand, todo, seen, history>>

\* The transcript is read, worked on and written again as a whole, with no lock
\* over the two: what others write in between is lost, what they take out comes
\* back.
Read(t, step) ==
    /\ seen' = [seen EXCEPT ![t] = log]
    /\ Go(t, step)

Rewrite(t, messages) ==
    /\ log' = messages
    /\ lost' = {c \in Commands : /\ Said(c) \notin ToSet(messages)
                                 /\ c \in lost \/ Said(c) \in ToSet(log)}
    /\ seen' = [seen EXCEPT ![t] = <<>>]

\* A hook blocks the prompt: it is removed if it is still the last message.
HooksBlock(t) ==
    /\ pc[t] = "hooks"
    /\ Read(t, "block")
    /\ UNCHANGED <<shared, requests, compacted, hand, todo, history>>

RemovePrompt(t) ==
    /\ pc[t] = "block"
    /\ Rewrite(t, IF seen[t] # <<>> /\ Last(seen[t]) = Prompt(t)
                  THEN Front(seen[t]) ELSE log)
    /\ Go(t, "ending")
    /\ UNCHANGED <<active, flagged, queue, sweeps, reviews, requests, compacted,
                   hand, todo, steer, granted, rivals>>

-----------------------------------------------------------------------------
(* The loop.                                                               *)

\* is_active is asked first; the notice is a step of its own.
Cancelled(t) == Go(t, IF active = t THEN "notice" ELSE "ending")

\* Mutant: only the registered turn looks at its flag.
TopCancelledRegistered(t) ==
    /\ pc[t] = "top"
    /\ t \in flagged
    /\ active = t
    /\ Go(t, "notice")
    /\ UNCHANGED <<shared, requests, compacted, hand, todo, seen, history>>

TopCancelled(t) ==
    /\ pc[t] = "top"
    /\ t \in flagged
    /\ Cancelled(t)
    /\ UNCHANGED <<shared, requests, compacted, hand, todo, seen, history>>

\* Mutant: what was drained stays in the queue.
DrainCopy(t) ==
    /\ hand' = [hand EXCEPT ![t] = queue]
    /\ UNCHANGED queue

Drain(t) ==
    /\ hand' = [hand EXCEPT ![t] = queue]
    /\ queue' = <<>>

\* Queued commands are taken in from the second request on.
Top(t) ==
    /\ pc[t] = "top"
    /\ t \notin flagged
    /\ IF requests[t] > 0 THEN Drain(t) ELSE UNCHANGED <<hand, queue>>
    /\ Go(t, IF hand'[t] = <<>> THEN "check" ELSE "flush")
    /\ UNCHANGED <<active, flagged, sweeps, reviews, log, requests, compacted, todo,
                   seen, history>>

\* flush_queued_user_commands, at the top of the loop and after a round.
WriteCommand(t) ==
    /\ pc[t] \in {"flush", "inject"}
    /\ hand[t] # <<>>
    /\ Write(Said(Head(hand[t])))
    /\ hand' = [hand EXCEPT ![t] = Tail(@)]
    /\ Go(t, IF hand'[t] # <<>> THEN pc[t] ELSE IF pc[t] = "flush" THEN "check" ELSE "top")
    /\ UNCHANGED <<active, flagged, queue, sweeps, reviews, requests, compacted, todo,
                   seen, history>>

\* The commands in hand are gone with the turn.
WriteCommandFails(t) ==
    /\ pc[t] \in {"flush", "inject"}
    /\ lost' = lost \cup ToSet(hand[t])
    /\ hand' = [hand EXCEPT ![t] = <<>>]
    /\ Go(t, "ending")
    /\ UNCHANGED <<shared, requests, compacted, todo, seen, steer, granted, rivals>>

Work == MapThenSumSet(LAMBDA u : requests[u] + Cardinality(compacted[u]), Turns)

\* Where the prompt of t is among the messages: its own, or else the last thing
\* the user said, the first message if there is neither.
PromptAt(t, messages) ==
    LET own == {p \in DOMAIN messages : messages[p] = Prompt(t)}
        words == {p \in DOMAIN messages : messages[p].kind \in UserWords}
    IN  Max({1} \cup (IF own # {} THEN own ELSE words))

\* Once for a prompt: a lightweight compaction shortens messages, if there are
\* two; an automatic one puts a summary for those before the prompt, if there
\* are any.
CompactReads(t, kind) ==
    /\ kind \notin compacted[t]
    /\ Work < MaxWork
    /\ IF kind = "light" THEN Len(log) > 1 ELSE PromptAt(t, log) > 1
    /\ Read(t, kind)

Shortened(t) ==
    IF pc[t] = "light" THEN seen[t]
    ELSE <<Message("summary", {})>>
         \o SubSeq(seen[t], PromptAt(t, seen[t]), Len(seen[t]))

CompactWrites(t) ==
    /\ pc[t] \in {"light", "auto"}
    /\ Rewrite(t, Shortened(t))
    /\ compacted' = [compacted EXCEPT ![t] = @ \cup {pc[t]}]
    /\ Go(t, "top")
    /\ UNCHANGED <<active, flagged, queue, sweeps, reviews, requests, hand, todo,
                   steer, granted, rivals>>

CompactFails(t) ==
    /\ pc[t] \in {"light", "auto"}
    /\ seen' = [seen EXCEPT ![t] = <<>>]
    /\ Go(t, "ending")
    /\ UNCHANGED <<shared, requests, compacted, hand, todo, history>>

Compacts(t) == CompactWrites(t) \/ CompactFails(t)

\* The budget blocks the turn or the request cannot be built, or a lightweight
\* compaction goes round again.
Check(t) ==
    /\ pc[t] = "check"
    /\ \/ Go(t, "ending") /\ UNCHANGED seen
       \/ CompactReads(t, "light")
    /\ UNCHANGED <<shared, requests, compacted, hand, todo, history>>

\* The request is announced; a prompt that is too long is compacted once, or the
\* turn gives up.
Announce(t) ==
    /\ pc[t] = "check"
    /\ Work < MaxWork
    /\ requests' = [requests EXCEPT ![t] = @ + 1]
    /\ \/ \E step \in {"stream", "ending"} : Go(t, step) /\ UNCHANGED seen
       \/ CompactReads(t, "auto")
    /\ UNCHANGED <<shared, compacted, hand, todo, history>>

\* What a response may ask for.
Asks(t, k) == [i \in 1 .. k |-> <<t, requests[t], i>>]

\* A cancel before the request is sent, or while the response streams: what has
\* arrived is kept, tool uses without results included.
StreamCancelled(t) ==
    /\ pc[t] = "stream"
    /\ t \in flagged
    /\ \/ UNCHANGED log
       \/ \E k \in 0 .. MaxUses : Write(Message("assistant", ToSet(Asks(t, k))))
    /\ Cancelled(t)
    /\ UNCHANGED <<active, flagged, queue, sweeps, reviews, requests, compacted,
                   hand, todo, seen, history>>

\* The provider fails, or says the context is too large.
StreamFails(t) ==
    /\ pc[t] = "stream"
    /\ t \notin flagged
    /\ \/ Go(t, "ending") /\ UNCHANGED seen
       \/ CompactReads(t, "auto")
    /\ UNCHANGED <<shared, requests, compacted, hand, todo, history>>

\* No tools: the model is sent on (auto-continue, its answer kept or not, or a
\* stop hook's feedback), or a stop hook ends the turn, or the queue is looked at.
StreamAnswers(t) ==
    /\ pc[t] = "stream"
    /\ t \notin flagged
    /\ \/ UNCHANGED log /\ Go(t, "top")
       \/ /\ Write(Message("assistant", {}))
          /\ \E step \in {"top", "ending", "idlecheck"} : Go(t, step)
       \/ /\ log' = log \o <<Message("assistant", {}), Message("context", {})>>
          /\ Go(t, "top")
    /\ UNCHANGED <<active, flagged, queue, sweeps, reviews, requests, compacted,
                   hand, todo, seen, history>>

\* has_queued_user_commands: the turn goes on for them, or it has finished.
IdleCheck(t) ==
    /\ pc[t] = "idlecheck"
    /\ Go(t, IF queue # <<>> THEN "top" ELSE "ending")
    /\ UNCHANGED <<shared, requests, compacted, hand, todo, seen, history>>

StreamAsks(t) ==
    /\ pc[t] = "stream"
    /\ t \notin flagged
    /\ \E k \in 1 .. MaxUses :
          /\ Write(Message("assistant", ToSet(Asks(t, k))))
          /\ todo' = [todo EXCEPT ![t] = Asks(t, k)]
    /\ Go(t, "round")
    /\ UNCHANGED <<active, flagged, queue, sweeps, reviews, requests, compacted,
                   hand, seen, history>>

-----------------------------------------------------------------------------
(* A round of tools.                                                       *)

\* A result, its own or one made up: the next in order.
RoundAnswers(t) ==
    /\ pc[t] = "round"
    /\ todo[t] # <<>>
    /\ Write(Message("result", {Head(todo[t])}))
    /\ todo' = [todo EXCEPT ![t] = Tail(@)]
    /\ UNCHANGED <<active, flagged, queue, sweeps, reviews, pc, requests, compacted,
                   hand, seen, history>>

\* Mutant: one review more than the limit.
ReviewBeginsOneMore(t) ==
    /\ pc[t] = "round"
    /\ reviews <= ReviewLimit
    /\ reviews' = reviews + 1
    /\ \E u \in ToSet(todo[t]) \ granted[t] :
          granted' = [granted EXCEPT ![t] = @ \cup {u}]
    /\ UNCHANGED <<active, flagged, queue, sweeps, log, driver, steer, lost, rivals>>

\* try_begin_approval_review, once for a tool use that needs permission.
ReviewBegins(t) ==
    /\ pc[t] = "round"
    /\ reviews < ReviewLimit
    /\ reviews' = reviews + 1
    /\ \E u \in ToSet(todo[t]) \ granted[t] :
          granted' = [granted EXCEPT ![t] = @ \cup {u}]
    /\ UNCHANGED <<active, flagged, queue, sweeps, log, driver, steer, lost, rivals>>

\* Every tool use is answered: on to the next request with the commands queued
\* meanwhile, or the end of a denied round.
RoundContinues(t) ==
    /\ pc[t] = "round"
    /\ todo[t] = <<>>
    /\ \/ Drain(t) /\ Go(t, IF queue = <<>> THEN "top" ELSE "inject")
       \/ UNCHANGED <<hand, queue>> /\ Go(t, "ending")
    /\ UNCHANGED <<active, flagged, sweeps, reviews, log, requests, compacted, todo,
                   seen, history>>

RoundCancelled(t) ==
    /\ pc[t] = "round"
    /\ todo[t] = <<>>
    /\ t \in flagged
    /\ Cancelled(t)
    /\ UNCHANGED <<shared, requests, compacted, hand, todo, seen, history>>

RoundFails(t) ==
    /\ pc[t] = "round"
    /\ todo' = [todo EXCEPT ![t] = <<>>]
    /\ Go(t, "ending")
    /\ UNCHANGED <<shared, requests, compacted, hand, seen, history>>

\* append_interruption_message; it may fail.
WriteNotice(t) ==
    /\ pc[t] = "notice"
    /\ Write(Message("notice", {})) \/ UNCHANGED log
    /\ Go(t, "ending")
    /\ UNCHANGED <<active, flagged, queue, sweeps, reviews, requests, compacted,
                   hand, todo, seen, history>>

-----------------------------------------------------------------------------
(* Clients.                                                                *)

\* steer_turn looks at the registry and is refused if no turn is active, writes the
\* prompt history, then queues.
SteerLooks(c) ==
    /\ steer[c] = "new"
    /\ active # None
    /\ steer' = [steer EXCEPT ![c] = "seen"]
    /\ UNCHANGED <<shared, driver, lost, granted, rivals>>

SteerQueues(c) ==
    /\ steer[c] = "seen"
    /\ steer' = [steer EXCEPT ![c] = "accepted"]
    /\ queue' = Append(queue, c)
    /\ UNCHANGED <<active, flagged, sweeps, reviews, log, driver, lost, granted,
                   rivals>>

SteerFails(c) ==
    /\ steer[c] = "seen"
    /\ steer' = [steer EXCEPT ![c] = "new"]
    /\ UNCHANGED <<shared, driver, lost, granted, rivals>>

\* cancel_turn, or the owner of the turn disconnects.
CancelTurn ==
    /\ active # None
    /\ sweeps < MaxSweeps
    /\ flagged' = flagged \cup {active}
    /\ sweeps' = sweeps + 1
    /\ UNCHANGED <<active, queue, reviews, log, driver, history>>

InterruptTurn ==
    /\ active # None
    /\ sweeps < MaxSweeps
    /\ flagged' = flagged \cup {active}
    /\ active' = None
    /\ sweeps' = sweeps + 1
    /\ UNCHANGED <<queue, reviews, log, driver, history>>

\* discard_queued_user_commands, after the registry's lock was released.
Discard ==
    /\ sweeps > 0
    /\ sweeps' = sweeps - 1
    /\ queue' = <<>>
    /\ lost' = lost \cup ToSet(queue)
    /\ UNCHANGED <<active, flagged, reviews, log, driver, steer, granted, rivals>>

-----------------------------------------------------------------------------
\* What a driver does without waiting for the provider or a tool.  Hooks have a
\* time limit.
Drives(t) ==
    \/ EndPermissions(t) \/ LeaveRegistry(t)
    \/ HooksDone(t) \/ HooksBlock(t) \/ RemovePrompt(t)
    \/ TopCancelled(t) \/ Top(t)
    \/ WriteCommand(t) \/ WriteCommandFails(t)
    \/ Check(t) \/ Announce(t)
    \/ StreamCancelled(t)
    \/ IdleCheck(t)
    \/ RoundContinues(t) \/ RoundCancelled(t)
    \/ WriteNotice(t)

Next ==
    \/ \E t \in Turns :
          \/ Submit(t) \/ BeginPermissions(t) \/ SetUp(t) \/ SetUpFails(t)
          \/ Drives(t) \/ Compacts(t)
          \/ StreamFails(t) \/ StreamAnswers(t) \/ StreamAsks(t)
          \/ RoundAnswers(t) \/ ReviewBegins(t) \/ RoundFails(t)
    \/ \E c \in Commands : SteerLooks(c) \/ SteerQueues(c) \/ SteerFails(c)
    \/ CancelTurn \/ InterruptTurn \/ Discard

Spec == Init /\ [][Next]_vars

\* Drivers and the setup go on, through a lightweight compaction too.  A tool is
\* sure to end only once its turn is cancelled (ToolRound!CancelEndsRound).
\* Nothing is asked of the provider, so neither of an automatic compaction: its
\* call is given a cancellation token that nothing sets.
Fairness ==
    \A t \in Turns :
        /\ WF_vars(Drives(t))
        /\ WF_vars(pc[t] = "light" /\ Compacts(t))
        /\ WF_vars(BeginPermissions(t) \/ SetUp(t) \/ SetUpFails(t))
        /\ WF_vars(t \in flagged /\ RoundAnswers(t))

FairSpec == Spec /\ Fairness

-----------------------------------------------------------------------------
(* Properties.                                                             *)

\* A turn that runs and was not told to stop is the registered one, so at most
\* one turn of a session does: a turn that runs out beside its successor never
\* takes the registry from it (clear_if_matching).
OneLiveTurn ==
    \A t \in Turns : Live(t) /\ pc[t] # "undo" /\ t \notin flagged => active = t

\* Whatever two turns have written beside each other, and whatever a cancel, a
\* failure or the removal of a prompt has left out, in the request made of it
\* each tool use has one answer before the assistant speaks again, and nothing
\* else is answered (repair_missing_tool_results).  A provider asks for more, see
\* RequestsAcceptable.
RequestsAnswered == AnsweredBeforeNext(RepairMissingToolResults(log))


Positions(s, x) == {p \in DOMAIN s : s[p] = x}

\* Where a command is.
Places(c) ==
    {<<"queue", None, p>> : p \in Positions(queue, c)}
    \cup (UNION {{<<"hand", t, p>> : p \in Positions(hand[t], c)} : t \in Turns})
    \cup {<<"log", None, p>> : p \in Positions(log, Said(c))}

\* A command that was accepted is in the queue, in the hands of a turn or in the
\* transcript, in one of them and once, unless a cancel discarded it, its write
\* failed or the transcript was written again without it (drain, discard, flush).
CommandsConserved ==
    \A c \in Commands :
        Cardinality(Places(c)) = IF steer[c] = "accepted" /\ c \notin lost THEN 1 ELSE 0

\* The counter of automatic reviews belongs to the session, and each turn clears
\* it when it begins and when it ends, so a turn may be given the limit twice more
\* for each turn that ran beside it, but never more than that.
ReviewsBounded ==
    \A t \in Turns :
        Cardinality(granted[t]) <= ReviewLimit * (1 + 2 * Cardinality(rivals[t]))

\* A turn that is cancelled gives the session back, wherever the cancel found it,
\* unless it waits for good for the summary of an automatic compaction, which no
\* cancel reaches (compact_session_before_current_prompt).
CancelledTurnLeaves ==
    \A t \in Turns : t \in flagged ~> (pc[t] = "gone" \/ [](pc[t] = "auto"))
=============================================================================
