--------------------------- MODULE PersistentGoal ---------------------------
(***************************************************************************)
(* The persistent goal of one session: its records in the transcript, the  *)
(* session's slot in the active-turn registry, the supervised goal turns,  *)
(* and the clients, the model and the crashes that act on them.            *)
(* Sources: core/src/session_manager/session_goal.rs,                      *)
(*          core/src/turn_loop.rs (ActiveTurnRegistry),                    *)
(*          session-store/src/transcript/mod.rs (the decoder),             *)
(*          session-store/src/files/persistence.rs (the appends).          *)
(*                                                                         *)
(* The transcript is kept as what its decoder folds the records into: the  *)
(* last snapshot, the start checkpoints with no terminal, and the terminal *)
(* checkpoints.  Every operation on the goal holds the session's append    *)
(* lock from its read of the transcript to its append, so `lock` holds the *)
(* one operation in progress with what it has read; registry operations    *)
(* (interrupt, cancel) do not take the lock and fall between the two.      *)
(***************************************************************************)
EXTENDS GoalRules

CONSTANTS
    Turns,       \* the goal turns continue_goal_if_eligible may start
    NoTurn,      \* the slot is free
    UserTurn,    \* an ordinary prompt holds the slot
    Budgets,     \* the token budgets a request may set
    Usages,      \* the tokens a turn may use
    Kinds,       \* how a turn may end: a subset of TerminalKinds
    MaxRevision  \* bound: no request is made of a goal at this revision

ASSUME TurnsAreDistinct == NoTurn \notin Turns /\ UserTurn \notin Turns
                           /\ NoTurn # UserTurn
ASSUME NumbersAreNatural == Budgets \subseteq Nat /\ Usages \subseteq Nat
                            /\ MaxRevision \in Nat
ASSUME KindsAreTerminal == Kinds \subseteq TerminalKinds

VARIABLES
    snapshot,    \* transcript: the last goal snapshot, NoGoal after a tombstone
    open,        \* transcript: start checkpoints without their terminal
    ended,       \* transcript: <<goal id, turn>> of the terminal checkpoints
    slot,        \* memory: the turn registered as active in the session
    cancelled,   \* memory: the turns whose cancel flag is set
    queued,      \* memory: a user command or a pending question waits
    lock,        \* memory: the holder of the append lock and what it read
    turn,        \* memory: the stage each goal turn has reached
    outcome,     \* memory: how the driver ended and what it used
    minted,      \* the goal ids and turn ids handed out so far
    spent        \* history: tokens checkpointed into each goal

disk == <<snapshot, open, ended>>
registry == <<slot, cancelled, queued>>
vars == <<snapshot, open, ended, slot, cancelled, queued, lock, turn, outcome,
          minted, spent>>

----------------------------------------------------------------------------
(* Types                                                                   *)

Checkpoint == [gid : GoalIds, rev : Nat, turn : Turns]

Authorities == {"user", "model"}

Requests == [authority : Authorities, expected : Nat, replace : BOOLEAN,
             status : Statuses \union {Keep}, rebudget : BOOLEAN, budget : Nat]

(* The client's turn, from the reservation of the slot to its release:     *)
(* reserved -> started -> running -> ended -> settled -> gone.  A turn     *)
(* lost in a crash, or whose start or setup failed, is gone at once.       *)
Stages == {"unused", "reserved", "started", "running", "ended", "settled",
           "gone"}

Free == [op |-> "free", goal |-> NoGoal, turn |-> NoTurn]

Holders == [op : {"free", "set", "clear", "continue", "start", "finish"},
            goal : GoalRecord, turn : Turns \union {NoTurn}]

Outcomes == [kind : TerminalKinds, usage : Nat, gid : GoalIds \union {NoGoalId}]

NoOutcome == [kind |-> "interrupted", usage |-> 0, gid |-> NoGoalId]

----------------------------------------------------------------------------
(* What a load of the transcript returns                                   *)

(* The decoder looks for an open checkpoint taken at the snapshot's own    *)
(* revision: its turn was interrupted before its terminal checkpoint.      *)
Interrupting == {c \in open : c.gid = snapshot.gid /\ c.rev = snapshot.rev}

IsRecovered == snapshot.status = "active" /\ Interrupting # {}

Paused(g) == [g EXCEPT !.status = "paused", !.rev = @ + 1]

(* session.goal: an interrupted goal reads as paused one revision later,   *)
(* which nothing has written.                                              *)
Decoded == IF IsRecovered THEN Paused(snapshot) ELSE snapshot

RecoveredFrom(t) == IsRecovered /\ \E c \in Interrupting : c.turn = t

(* goal_for_live_turn: the turn's own recovery is undone for it.           *)
GoalForTurn(t) == IF RecoveredFrom(t) THEN snapshot ELSE Decoded

(* load_current_goal: the recovery of the registered turn is undone.       *)
CurrentGoal == GoalForTurn(slot)

----------------------------------------------------------------------------
Init ==
    /\ snapshot = NoGoal
    /\ open = {}
    /\ ended = {}
    /\ slot = NoTurn
    /\ cancelled = {}
    /\ queued = FALSE
    /\ lock = Free
    /\ turn = [t \in Turns |-> "unused"]
    /\ outcome = [t \in Turns |-> NoOutcome]
    /\ minted = {}
    /\ spent = [id \in GoalIds |-> 0]

Advance(t, stage) == turn' = [turn EXCEPT ![t] = stage]

(* Mutant: the slot is not released.                                       *)
SlotKept(t) == slot

(* ActiveTurnRegistry::clear_if_matching                                   *)
SlotWithout(t) == IF slot = t THEN NoTurn ELSE slot

(* The turn's task is over and its memory is dropped.                      *)
Leave(t) ==
    /\ slot' = SlotWithout(t)
    /\ Advance(t, "gone")
    /\ outcome' = [outcome EXCEPT ![t] = NoOutcome]
    /\ cancelled' = cancelled \ {t}

(* transcript_append_lock: an operation reads under the lock.              *)
Acquire(op, goal, t) ==
    /\ lock = Free
    /\ lock' = [op |-> op, goal |-> goal, turn |-> t]

Release == lock' = Free

----------------------------------------------------------------------------
(* set_goal: the user's session/goal/set, or the model's create_goal and   *)
(* update_goal                                                             *)

ModelMayAsk(req, g) ==
    \/ g = NoGoal /\ ~ req.replace /\ req.status = Keep
    \/ g # NoGoal /\ g.status = "complete" /\ req.replace /\ req.status = Keep
    \/ /\ g # NoGoal /\ ~ req.replace /\ ~ req.rebudget
       /\ req.status \in {"complete", "blocked"}

(* A driver, the registered one or one an interrupt has detached, may be   *)
(* calling a goal tool.                                                    *)
ModelIsRunning == slot = UserTurn \/ \E t \in Turns : turn[t] = "running"

MayAsk(req, g) == req.authority = "model" => ModelIsRunning /\ ModelMayAsk(req, g)

RequestsOf(g) ==
    [authority : Authorities, expected : {g.rev}, replace : BOOLEAN,
     status : Statuses \union {Keep}, rebudget : BOOLEAN,
     budget : Budgets \union {NoBudget}]

SetRead ==
    /\ CurrentGoal.rev < MaxRevision
    /\ Acquire("set", CurrentGoal, NoTurn)
    /\ UNCHANGED <<snapshot, open, ended, slot, cancelled, queued, turn,
                   outcome, minted, spent>>

CreateGoal(req, id) ==
    /\ id \notin minted
    /\ minted' = minted \union {id}
    /\ \/ lock.goal = NoGoal /\ CreateAccepted(req)
       \/ lock.goal # NoGoal /\ req.replace /\ ReplaceAccepted(req, lock.goal)
    /\ snapshot' = Created(req, id)

EditGoal(req) ==
    /\ lock.goal # NoGoal /\ ~ req.replace
    /\ MutateAccepted(req, lock.goal)
    /\ snapshot' = Mutated(req, lock.goal)
    /\ UNCHANGED minted

SetWrite ==
    /\ lock.op = "set"
    /\ \E req \in RequestsOf(lock.goal) :
          /\ MayAsk(req, lock.goal)
          /\ EditGoal(req) \/ \E id \in GoalIds : CreateGoal(req, id)
    /\ Release
    /\ UNCHANGED <<open, ended, slot, cancelled, queued, turn, outcome, spent>>

(* clear_goal                                                              *)
ClearRead ==
    /\ Acquire("clear", CurrentGoal, NoTurn)
    /\ UNCHANGED <<snapshot, open, ended, slot, cancelled, queued, turn,
                   outcome, minted, spent>>

ClearWrite ==
    /\ lock.op = "clear"
    /\ lock.goal # NoGoal
    /\ snapshot' = NoGoal
    /\ Release
    /\ UNCHANGED <<open, ended, slot, cancelled, queued, turn, outcome, minted,
                   spent>>

(* The request is refused (a stale revision, a transition or a budget that *)
(* is not allowed, nothing to clear, a session that is busy), or its       *)
(* append fails: nothing is written.                                       *)
Refuse ==
    /\ lock.op \in {"set", "clear", "continue"}
    /\ Release
    /\ UNCHANGED <<snapshot, open, ended, slot, cancelled, queued, turn,
                   outcome, minted, spent>>

----------------------------------------------------------------------------
(* continue_goal_if_eligible                                               *)

ContinueRead ==
    /\ CurrentGoal.rev < MaxRevision
    /\ Acquire("continue", CurrentGoal, NoTurn)
    /\ UNCHANGED <<snapshot, open, ended, slot, cancelled, queued, turn,
                   outcome, minted, spent>>

(* The registry is looked at, and the slot taken, after the transcript was *)
(* read.  An exhausted goal is stored as limited instead.                  *)
ContinueReserve(t) ==
    /\ lock.op = "continue"
    /\ turn[t] = "unused"
    /\ lock.goal # NoGoal
    /\ ~ queued
    /\ slot = NoTurn
    /\ lock.goal.status = "active"
    /\ IF Exhausted(lock.goal)
       THEN /\ snapshot' = [lock.goal EXCEPT !.status = "budget_limited",
                                             !.rev = @ + 1]
            /\ Release
            /\ UNCHANGED <<slot, turn, outcome>>
       ELSE /\ slot' = t
            /\ lock' = [op |-> "start", turn |-> t,
                        goal |-> [lock.goal EXCEPT !.rev = @ + 1]]
            /\ Advance(t, "reserved")
            /\ outcome' = [outcome EXCEPT ![t].gid = lock.goal.gid]
            /\ UNCHANGED snapshot
    /\ UNCHANGED <<open, ended, cancelled, queued, minted, spent>>

(* Mutant: the start is appended without the goal's new revision.          *)
StartWriteUnrevised(t) ==
    /\ lock.op = "start" /\ lock.turn = t
    /\ open' = open \union {[gid |-> lock.goal.gid, rev |-> lock.goal.rev,
                             turn |-> t]}
    /\ Advance(t, "started")
    /\ Release
    /\ UNCHANGED <<snapshot, ended, slot, cancelled, queued, outcome, minted,
                   spent>>

(* append_goal_snapshot_and_turn_start                                     *)
StartWrite(t) ==
    /\ lock.op = "start" /\ lock.turn = t
    /\ snapshot' = lock.goal
    /\ open' = open \union {[gid |-> lock.goal.gid, rev |-> lock.goal.rev,
                             turn |-> t]}
    /\ Advance(t, "started")
    /\ Release
    /\ UNCHANGED <<ended, slot, cancelled, queued, outcome, minted, spent>>

(* Mutant: a terminal record closes every start checkpoint of its goal.    *)
RecordTerminalOfGoal(gid, t) ==
    /\ ended' = ended \union {<<gid, t>>}
    /\ open' = {c \in open : c.gid # gid}

(* The terminal record closes the turn's start checkpoint.                 *)
RecordTerminal(gid, t) ==
    /\ ended' = ended \union {<<gid, t>>}
    /\ open' = {c \in open : c.gid # gid \/ c.turn # t}

(* Two records go out in one write.  A write cut short, by a full disk or  *)
(* by a crash, leaves none or only the first of them readable.             *)
CutShort ==
    \/ UNCHANGED disk
    \/ lock.op = "start" /\ snapshot' = lock.goal /\ UNCHANGED <<open, ended>>
    \/ /\ lock.op = "finish"
       /\ lock.goal.gid = outcome[lock.turn].gid
       /\ <<lock.goal.gid, lock.turn>> \notin ended
       /\ RecordTerminal(lock.goal.gid, lock.turn)
       /\ UNCHANGED snapshot

StartFails(t) ==
    /\ lock.op = "start" /\ lock.turn = t
    /\ CutShort
    /\ Leave(t)
    /\ Release
    /\ UNCHANGED <<queued, minted, spent>>

(* register_with_cwd, which may fail, then append_message, which takes the *)
(* lock in its turn.                                                       *)
SetUp(t) ==
    /\ turn[t] = "started"
    /\ \/ /\ lock = Free
          /\ Advance(t, "running")
          /\ UNCHANGED <<slot, outcome, cancelled>>
       \/ Leave(t)
    /\ UNCHANGED <<snapshot, open, ended, queued, lock, minted, spent>>

----------------------------------------------------------------------------
(* spawn_supervised_goal_turn and finish_goal_turn                         *)

(* Mutant: a driver heeds its flag only while its turn holds the slot.     *)
DriverEndsRegistered(t) ==
    /\ turn[t] = "running" /\ slot = t
    /\ \E kind \in Kinds, usage \in Usages :
          /\ kind = "cancelled" => t \in cancelled
          /\ kind = "finished" => t \notin cancelled
          /\ outcome' = [outcome EXCEPT ![t].kind = kind, ![t].usage = usage]
    /\ Advance(t, "ended")
    /\ UNCHANGED <<snapshot, open, ended, slot, cancelled, queued, lock, minted,
                   spent>>

(* The driver sends its terminal event, or ends without one.  It finishes  *)
(* a turn only if its last look at the flag found it clear.                *)
DriverEnds(t) ==
    /\ turn[t] = "running"
    /\ \E kind \in Kinds, usage \in Usages :
          /\ kind = "cancelled" => t \in cancelled
          /\ kind = "finished" => t \notin cancelled
          /\ outcome' = [outcome EXCEPT ![t].kind = kind, ![t].usage = usage]
    /\ Advance(t, "ended")
    /\ UNCHANGED <<snapshot, open, ended, slot, cancelled, queued, lock, minted,
                   spent>>

(* The client dropped the turn's stream: the next event cannot be sent and *)
(* the supervisor cancels the session's active turn, whichever that is.    *)
(* It may still be forwarding events when the driver has ended.            *)
StreamDropped(t) ==
    /\ turn[t] \in {"running", "ended"}
    /\ lock.turn # t
    /\ slot # NoTurn
    /\ cancelled' = cancelled \union {slot}
    /\ UNCHANGED <<snapshot, open, ended, slot, queued, lock, turn, outcome,
                   minted, spent>>

FinishRead(t) ==
    /\ turn[t] = "ended"
    /\ Acquire("finish", GoalForTurn(t), t)
    /\ UNCHANGED <<snapshot, open, ended, slot, cancelled, queued, turn,
                   outcome, minted, spent>>

(* The terminal checkpoint, with the goal it leaves if the turn's goal is  *)
(* still the current one.                                                  *)
FinishWrite(t) ==
    LET goal == lock.goal
        mine == outcome[t]
    IN  /\ lock.op = "finish" /\ lock.turn = t
        /\ IF <<mine.gid, t>> \in ended THEN UNCHANGED <<open, ended>>
           ELSE RecordTerminal(mine.gid, t)
        /\ IF goal.gid = mine.gid /\ <<mine.gid, t>> \notin ended
           THEN /\ snapshot' = Checkpointed(goal, mine.kind, mine.usage)
                /\ spent' = [spent EXCEPT ![mine.gid] = @ + mine.usage]
           ELSE UNCHANGED <<snapshot, spent>>
        /\ Advance(t, "settled")
        /\ Release
        /\ UNCHANGED <<slot, cancelled, queued, outcome, minted>>

(* The checkpoint fails: the client is told, nothing is retried.           *)
FinishFails(t) ==
    /\ lock.op = "finish" /\ lock.turn = t
    /\ CutShort
    /\ Advance(t, "settled")
    /\ Release
    /\ UNCHANGED <<slot, cancelled, queued, outcome, minted, spent>>

Settle(t) ==
    /\ turn[t] = "settled"
    /\ Leave(t)
    /\ UNCHANGED <<snapshot, open, ended, queued, lock, minted, spent>>

----------------------------------------------------------------------------
(* The session's other traffic                                             *)

SubmitPrompt ==
    /\ slot = NoTurn
    /\ slot' = UserTurn
    /\ UNCHANGED <<snapshot, open, ended, cancelled, queued, lock, turn,
                   outcome, minted, spent>>

PromptEnds ==
    /\ slot = UserTurn
    /\ slot' = NoTurn
    /\ cancelled' = cancelled \ {UserTurn}
    /\ UNCHANGED <<snapshot, open, ended, queued, lock, turn, outcome, minted,
                   spent>>

(* steer_turn queues a command, or the model asks the user a question.     *)
Enqueue ==
    /\ slot # NoTurn
    /\ ~ queued
    /\ queued' = TRUE
    /\ UNCHANGED <<snapshot, open, ended, slot, cancelled, lock, turn, outcome,
                   minted, spent>>

(* A driver, registered or detached, takes the commands in; the question   *)
(* is answered; or a cancel discards them after its turn has gone.         *)
Drain ==
    /\ queued
    /\ queued' = FALSE
    /\ UNCHANGED <<snapshot, open, ended, slot, cancelled, lock, turn, outcome,
                   minted, spent>>

(* Mutant: the registry is not asked whether a turn is active.             *)
CancelUnguarded ==
    /\ cancelled' = cancelled \union {slot}
    /\ queued' = FALSE
    /\ UNCHANGED <<snapshot, open, ended, slot, lock, turn, outcome, minted,
                   spent>>

(* cancel_turn, or the disconnect of the turn's owner, sets the flag; the  *)
(* turn keeps the slot until it settles.                                   *)
Cancel ==
    /\ slot # NoTurn
    /\ cancelled' = cancelled \union {slot}
    /\ queued' = FALSE
    /\ UNCHANGED <<snapshot, open, ended, slot, lock, turn, outcome, minted,
                   spent>>

(* interrupt_turn sets the flag and frees the slot: the turn is detached.  *)
Interrupt ==
    /\ slot # NoTurn
    /\ slot' = NoTurn
    /\ cancelled' = (cancelled \union {slot}) \ {UserTurn}
    /\ queued' = FALSE
    /\ UNCHANGED <<snapshot, open, ended, lock, turn, outcome, minted, spent>>

(* The process is lost: memory goes, a write in progress is cut short.     *)
Crash ==
    /\ CutShort
    /\ slot' = NoTurn
    /\ cancelled' = {}
    /\ queued' = FALSE
    /\ lock' = Free
    /\ turn' = [t \in Turns |-> IF turn[t] = "unused" THEN "unused" ELSE "gone"]
    /\ outcome' = [t \in Turns |-> NoOutcome]
    /\ UNCHANGED <<minted, spent>>

----------------------------------------------------------------------------
Client == SetRead \/ SetWrite \/ ClearRead \/ ClearWrite \/ Refuse
          \/ ContinueRead \/ SubmitPrompt \/ PromptEnds \/ Enqueue \/ Drain
          \/ Cancel \/ Interrupt

Supervisor(t) == ContinueReserve(t) \/ StartWrite(t) \/ StartFails(t)
                 \/ SetUp(t) \/ DriverEnds(t) \/ StreamDropped(t)
                 \/ FinishRead(t) \/ FinishWrite(t) \/ FinishFails(t)
                 \/ Settle(t)

Next == Client \/ Crash \/ \E t \in Turns : Supervisor(t)

Spec == Init /\ [][Next]_vars

(* The holder of the lock goes on; a waiter gets it in turn (the lock is   *)
(* first come, first served, so no one is passed over for ever); a driver  *)
(* is only counted on to end once its cancel flag is set.                  *)
Fairness ==
    /\ WF_vars(SetWrite \/ ClearWrite \/ Refuse)
    /\ \A t \in Turns :
          /\ WF_vars(StartWrite(t) \/ StartFails(t))
          /\ WF_vars(SetUp(t))
          /\ WF_vars(t \in cancelled /\ DriverEnds(t))
          /\ SF_vars(FinishRead(t))
          /\ WF_vars(FinishWrite(t) \/ FinishFails(t))
          /\ WF_vars(Settle(t))

FairSpec == Spec /\ Fairness

----------------------------------------------------------------------------
(* Properties                                                              *)

Live(t) == turn[t] \in {"started", "running", "ended"}

(* Every variable keeps its type.                                          *)
TypeOK ==
    /\ snapshot \in GoalRecord
    /\ open \subseteq Checkpoint
    /\ ended \subseteq GoalIds \X Turns
    /\ slot \in Turns \union {NoTurn, UserTurn}
    /\ cancelled \subseteq Turns \union {UserTurn}
    /\ queued \in BOOLEAN
    /\ lock \in Holders
    /\ turn \in [Turns -> Stages]
    /\ outcome \in [Turns -> Outcomes]
    /\ minted \subseteq GoalIds
    /\ spent \in [GoalIds -> Nat]

(* The tokens stored in the goal are those of the turns checkpointed into  *)
(* it, each counted once: edits made while a turn runs, turns finishing    *)
(* after an interrupt, recoveries and crashes neither lose nor repeat any  *)
(* (set_goal and finish_goal_turn re-read the goal under the append lock). *)
UsageConserved == snapshot.gid # NoGoalId => snapshot.used = spent[snapshot.gid]

(* No stored goal is active with its budget used up: edits that lower the  *)
(* budget, resumptions and finishing turns all store it limited.  The      *)
(* check continue_goal_if_eligible makes of it is therefore never needed.  *)
ActiveUnderBudget == snapshot.status = "active" => ~ Exhausted(snapshot)

(* A turn that has started has its start checkpoint in the transcript, and *)
(* no terminal, until its own checkpoint: no edit, clear, replacement or   *)
(* other turn's end takes it away.  If the process is lost now, a load     *)
(* recovers the turn's goal as interrupted by this turn, unless the goal   *)
(* has come to a later revision since, when it reads as active             *)
(* (decode_session_transcript).                                            *)
LiveTurnIsOpen ==
    \A t \in Turns : Live(t) =>
        /\ <<outcome[t].gid, t>> \notin ended
        /\ \E c \in open :
              /\ c.turn = t /\ c.gid = outcome[t].gid
              /\ c.gid = snapshot.gid /\ snapshot.status = "active"
                    => RecoveredFrom(t) \/ c.rev < snapshot.rev

(* The detailed specification keeps the promise of GoalLifecycle: every    *)
(* step, of a turn that finishes late, an edit of a goal read as recovered *)
(* or a write cut short included, changes the stored goal as it allows.    *)
Lifecycle == INSTANCE GoalLifecycle WITH goal <- snapshot, past <- minted

KeepsLifecycle == Lifecycle!Spec

(* Two turns are never open at the same revision of a goal, which is what  *)
(* lets the decoder pick the turn a recovery belongs to.                   *)
OneTurnPerRevision ==
    \A c, d \in open : c.gid = d.gid /\ c.rev = d.rev => c = d

(* docs/persistent-goals.md:129 says a goal stays active over a normal end *)
(* of its turn, its budget aside.  An interrupted turn that still ends     *)
(* normally reads its successor's open checkpoint as an interruption       *)
(* (session_goal.rs:511) and stores the goal paused under a live turn.     *)
NormalFinishKeepsActive ==
    [][\A t \in Turns :
          /\ FinishWrite(t) /\ outcome[t].kind = "finished"
          /\ snapshot.status = "active" /\ snapshot.gid = outcome[t].gid
          => snapshot'.status \in {"active", "budget_limited"}]_vars

(* A cancelled turn reaches its end: the driver stops, the checkpoint is   *)
(* written or given up, and the slot is released.                          *)
CancelledTurnSettles ==
    \A t \in Turns : (turn[t] # "unused" /\ t \in cancelled) ~> turn[t] = "gone"

(* A turn whose driver has ended, or whose start or setup fails, does not  *)
(* keep the session's slot.                                                *)
EndedTurnFreesSlot ==
    \A t \in Turns : turn[t] \in {"ended", "settled", "gone"} ~> slot # t

----------------------------------------------------------------------------
(* The inductive invariant                                                 *)

(* What a load under the lock can have returned, while the lock is held.   *)
Reads(g) == g = snapshot \/ (snapshot.status = "active" /\ g = Paused(snapshot))

(* The transcript does not move under the holder of the lock.              *)
LockInv ==
    /\ lock.op \in {"set", "clear", "continue"} =>
          lock.turn = NoTurn /\ Reads(lock.goal)
    /\ lock.op = "start" =>
          /\ lock.turn \in Turns
          /\ turn[lock.turn] = "reserved"
          /\ outcome[lock.turn].gid = snapshot.gid
          /\ snapshot.gid # NoGoalId
          /\ snapshot.status = "active"
          /\ lock.goal = [snapshot EXCEPT !.rev = @ + 1]
    /\ lock.op = "finish" =>
          /\ lock.turn \in Turns
          /\ turn[lock.turn] = "ended"
          /\ Reads(lock.goal)

(* A reservation is the lock holder's; a turn has a goal until it settles, *)
(* and leaves no record before it starts.                                  *)
TurnInv ==
    \A t \in Turns :
        /\ turn[t] = "reserved" => lock.op = "start" /\ lock.turn = t
        /\ turn[t] \in {"reserved", "started", "running", "ended"} =>
              outcome[t].gid \in GoalIds
        /\ turn[t] \in {"unused", "reserved"} =>
              /\ \A c \in open : c.turn # t
              /\ \A id \in GoalIds : <<id, t>> \notin ended

(* Records belong to goals that were created, at revisions they have had.  *)
DiskInv ==
    /\ snapshot.gid = NoGoalId => snapshot = NoGoal
    /\ snapshot.gid # NoGoalId => snapshot.gid \in minted
    /\ \A c \in open :
          c.gid \in minted /\ (c.gid = snapshot.gid => c.rev <= snapshot.rev)
    /\ \A id \in GoalIds : id \notin minted => spent[id] = 0

(* A running turn's start checkpoint is on disk without a terminal.        *)
OpenInv ==
    \A t \in Turns : Live(t) =>
        /\ \E c \in open : c.turn = t /\ c.gid = outcome[t].gid
        /\ <<outcome[t].gid, t>> \notin ended

(* Inductive: each operation re-establishes all of it from what the lock   *)
(* kept still since its read.                                              *)
IInv ==
    /\ TypeOK
    /\ LockInv
    /\ TurnInv
    /\ DiskInv
    /\ UsageConserved
    /\ ActiveUnderBudget
    /\ OpenInv
    /\ OneTurnPerRevision
============================================================================
