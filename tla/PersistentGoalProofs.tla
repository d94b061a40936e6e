----------------------- MODULE PersistentGoalProofs -----------------------
(***************************************************************************)
(* Proofs about PersistentGoal, for every set of turns, goal ids, budgets, *)
(* usages and ends of a turn, and for every bound on the revisions.         *)
(***************************************************************************)
EXTENDS PersistentGoal, TLAPS

----------------------------------------------------------------------------
(* What the rules yield                                                    *)

(* The limit on an exhausted goal changes its status only, and only from   *)
(* active to budget_limited.                                               *)
LEMMA LimitedGoal ==
    ASSUME NEW g \in GoalRecord
    PROVE  /\ LimitIfExhausted(g) \in GoalRecord
           /\ LimitIfExhausted(g).gid = g.gid
           /\ LimitIfExhausted(g).rev = g.rev
           /\ LimitIfExhausted(g).used = g.used
           /\ \/ LimitIfExhausted(g).status = g.status
              \/ g.status = "active" /\ LimitIfExhausted(g).status = "budget_limited"
           /\ LimitIfExhausted(g).status = "active" => ~ Exhausted(LimitIfExhausted(g))
BY DEF LimitIfExhausted, GoalRecord, Exhausted, Statuses

(* A request that creates a goal yields an active one at revision 1.       *)
LEMMA CreatedGoal ==
    ASSUME NEW req \in Requests, NEW id \in GoalIds
    PROVE  /\ Created(req, id) \in GoalRecord
           /\ Created(req, id).gid = id
           /\ Created(req, id).rev = 1
           /\ Created(req, id).used = 0
           /\ Created(req, id).status = "active"
BY DEF Created, GoalRecord, Requests, Statuses, NoBudget

Moves == Lifecycle!Moves

(* An accepted edit advances the revision by one, keeps identity and usage *)
(* and moves the status along the table.                                   *)
LEMMA MutatedGoal ==
    ASSUME NEW req \in Requests, NEW g \in GoalRecord, MutateAccepted(req, g)
    PROVE  /\ Mutated(req, g) \in GoalRecord
           /\ Mutated(req, g).gid = g.gid
           /\ Mutated(req, g).rev = g.rev + 1
           /\ Mutated(req, g).used = g.used
           /\ Mutated(req, g).status = "active" => ~ Exhausted(Mutated(req, g))
           /\ <<g.status, Mutated(req, g).status>> \in Moves
<1> DEFINE budgeted == [g EXCEPT !.budget = BudgetAfter(req, g)]
           moved == IF req.status = Keep THEN budgeted
                    ELSE [budgeted EXCEPT !.status = req.status]
           limited == LimitIfExhausted(moved)
<1>1. budgeted \in GoalRecord /\ budgeted.gid = g.gid /\ budgeted.rev = g.rev
      /\ budgeted.used = g.used /\ budgeted.status = g.status
  BY DEF GoalRecord, BudgetAfter, Requests
<1>2. /\ moved \in GoalRecord /\ moved.gid = g.gid /\ moved.rev = g.rev
      /\ moved.used = g.used
      /\ moved.status = IF req.status = Keep THEN g.status ELSE req.status
  BY <1>1 DEF GoalRecord, Requests, Keep
<1>3. <<g.status, moved.status>> \in Moves
      /\ (moved.status = "active" => <<g.status, "budget_limited">> \in Moves)
  BY <1>2 DEF MutateAccepted, TransitionAllowed, ModelTransitions, UserTransitions,
     Moves, Lifecycle!Moves, Statuses, Lifecycle!Statuses, GoalRecord, Requests, Keep
<1> HIDE DEF moved
<1>4. /\ limited \in GoalRecord /\ limited.gid = g.gid /\ limited.rev = g.rev
      /\ limited.used = g.used
      /\ limited.status = "active" => ~ Exhausted(limited)
      /\ <<g.status, limited.status>> \in Moves
  BY <1>2, <1>3, LimitedGoal
<1>5. Mutated(req, g) = [limited EXCEPT !.rev = @ + 1]
  BY DEF Mutated, moved
<1> HIDE DEF limited
<1> QED
  BY <1>4, <1>5 DEF GoalRecord, Exhausted

(* A checkpoint adds the usage, advances the revision by one and moves the *)
(* status of an active goal only.                                          *)
LEMMA CheckpointedGoal ==
    ASSUME NEW g \in GoalRecord, NEW kind \in TerminalKinds, NEW usage \in Nat
    PROVE  /\ Checkpointed(g, kind, usage) \in GoalRecord
           /\ Checkpointed(g, kind, usage).gid = g.gid
           /\ Checkpointed(g, kind, usage).rev = g.rev + 1
           /\ Checkpointed(g, kind, usage).used = g.used + usage
           /\ Checkpointed(g, kind, usage).status = "active"
                 => ~ Exhausted(Checkpointed(g, kind, usage))
           /\ <<g.status, Checkpointed(g, kind, usage).status>> \in Moves
<1> DEFINE counted == [g EXCEPT !.used = @ + usage, !.rev = @ + 1]
           ended2 == WithTerminalStatus(counted, kind)
<1>1. counted \in GoalRecord /\ counted.gid = g.gid /\ counted.rev = g.rev + 1
      /\ counted.used = g.used + usage /\ counted.status = g.status
  <2>1. g.used + usage \in Nat /\ g.rev + 1 \in Nat
    BY DEF GoalRecord
  <2> QED
    BY <2>1 DEF GoalRecord
<1>2. StatusAfter(kind) \in Statuses
  BY DEF StatusAfter, Statuses
<1> HIDE DEF counted
<1>3. /\ ended2 \in GoalRecord /\ ended2.gid = g.gid /\ ended2.rev = g.rev + 1
      /\ ended2.used = g.used + usage
      /\ ended2.status = g.status \/ g.status = "active"
      /\ ended2.status = "active" => g.status = "active"
  BY <1>1, <1>2 DEF WithTerminalStatus, GoalRecord
<1>4. Checkpointed(g, kind, usage) = LimitIfExhausted(ended2)
  BY DEF Checkpointed, counted
<1> HIDE DEF ended2
<1>5. /\ g.status = "active" => \A s \in Statuses : <<g.status, s>> \in Moves
      /\ <<g.status, g.status>> \in Moves
  BY DEF Moves, Lifecycle!Moves, Statuses, Lifecycle!Statuses, GoalRecord
<1>6. LimitIfExhausted(ended2).status \in Statuses
  BY <1>3, LimitedGoal DEF GoalRecord
<1> QED
  BY <1>3, <1>4, <1>5, <1>6, LimitedGoal

----------------------------------------------------------------------------
(* What the lock holder read still stands for the stored goal              *)

(* The goal read under the lock has the stored goal's identity, budget and *)
(* usage; its revision is no older, and any move from its status is a move *)
(* from the stored one.                                                    *)
LEMMA ReadGoal ==
    ASSUME snapshot \in GoalRecord, NEW g, Reads(g)
    PROVE  /\ g \in GoalRecord
           /\ g.gid = snapshot.gid /\ g.used = snapshot.used
           /\ g.rev \in Nat /\ snapshot.rev \in Nat /\ g.rev >= snapshot.rev
           /\ \A s \in Statuses :
                 <<g.status, s>> \in Moves => <<snapshot.status, s>> \in Moves
<1>1. CASE g = snapshot
  BY <1>1 DEF GoalRecord
<1>2. CASE snapshot.status = "active" /\ g = Paused(snapshot)
  <2>1. /\ g \in GoalRecord /\ g.gid = snapshot.gid /\ g.used = snapshot.used
        /\ g.rev = snapshot.rev + 1 /\ snapshot.rev \in Nat
    <3>1. snapshot.rev \in Nat /\ snapshot.rev + 1 \in Nat
      BY DEF GoalRecord
    <3> QED
      BY <1>2, <3>1 DEF Paused, GoalRecord, Statuses
  <2>2. \A s \in Statuses : <<snapshot.status, s>> \in Moves
    BY <1>2 DEF Moves, Lifecycle!Moves, Statuses, Lifecycle!Statuses
  <2> QED
    BY <2>1, <2>2
<1> QED
  BY <1>1, <1>2 DEF Reads

(* A load reads the stored goal, or the recovery made up for it.           *)
LEMMA LoadReads ==
    ASSUME NEW t
    PROVE  Reads(GoalForTurn(t))
BY DEF Reads, GoalForTurn, Decoded, IsRecovered, RecoveredFrom

(* The goal load_current_goal returns, whichever turn is registered.       *)
LEMMA CurrentGoalReads == Reads(CurrentGoal)
BY LoadReads DEF CurrentGoal

(* The null record is of the type of the stored goal.                      *)
LEMMA NoGoalIsAGoal == NoGoal \in GoalRecord
BY DEF NoGoal, GoalRecord, Statuses, NoBudget

----------------------------------------------------------------------------
(* The inductive invariant                                                 *)

(* The first state has no goal, no turn and a free lock.                   *)
LEMMA InitIInv == Init => IInv
<1> SUFFICES ASSUME Init PROVE IInv
  OBVIOUS
<1>1. TypeOK
  BY NoGoalIsAGoal DEF Init, TypeOK, Holders, Free, Outcomes, NoOutcome, Stages,
     Checkpoint, TerminalKinds
<1>2. LockInv
  BY DEF Init, LockInv, Free
<1>3. TurnInv /\ OpenInv /\ OneTurnPerRevision
  BY DEF Init, TurnInv, OpenInv, OneTurnPerRevision, Live
<1>4. DiskInv /\ UsageConserved /\ ActiveUnderBudget
  BY DEF Init, DiskInv, UsageConserved, ActiveUnderBudget, NoGoal
<1> QED
  BY <1>1, <1>2, <1>3, <1>4 DEF IInv

(* A step on the registry alone leaves what the invariant says of the      *)
(* transcript, the lock and the turns as it is.                            *)
LEMMA RegistryStep ==
    ASSUME IInv, TypeOK',
           UNCHANGED <<snapshot, open, ended, lock, turn, outcome, minted, spent>>
    PROVE  IInv'
BY DEF IInv, LockInv, TurnInv, DiskInv, UsageConserved, ActiveUnderBudget,
   OpenInv, OneTurnPerRevision, Live, Reads, Interrupting

(* Cancellations, interrupts and ordinary prompts keep the invariant.      *)
LEMMA TrafficStep ==
    ASSUME IInv,
           \/ SubmitPrompt \/ PromptEnds \/ Enqueue \/ Drain \/ Cancel
           \/ Interrupt
           \/ \E t \in Turns : StreamDropped(t)
    PROVE  IInv' /\ UNCHANGED <<snapshot, minted>>
<1>1. /\ TypeOK'
      /\ UNCHANGED <<snapshot, open, ended, lock, turn, outcome, minted, spent>>
  BY DEF IInv, TypeOK, SubmitPrompt, PromptEnds, Enqueue, Drain, Cancel,
     Interrupt, StreamDropped
<1> QED
  BY <1>1, RegistryStep

(* Taking the lock to read, or giving it up without a write.               *)
LEMMA ReadStep ==
    ASSUME IInv,
           \/ SetRead \/ ClearRead \/ ContinueRead \/ Refuse
           \/ \E t \in Turns : FinishRead(t)
    PROVE  IInv' /\ UNCHANGED <<snapshot, minted>>
<1>1. UNCHANGED <<snapshot, open, ended, slot, cancelled, queued, turn, outcome,
                  minted, spent>>
  BY DEF SetRead, ClearRead, ContinueRead, Refuse, FinishRead
<1>2. \/ lock' = Free /\ lock.op \in {"set", "clear", "continue"}
      \/ /\ lock = Free
         /\ \E op \in {"set", "clear", "continue"} :
               lock' = [op |-> op, goal |-> CurrentGoal, turn |-> NoTurn]
      \/ /\ lock = Free
         /\ \E t \in Turns :
               /\ turn[t] = "ended"
               /\ lock' = [op |-> "finish", goal |-> GoalForTurn(t), turn |-> t]
  BY DEF SetRead, ClearRead, ContinueRead, Refuse, FinishRead, Acquire, Release
<1>3. CurrentGoal \in GoalRecord /\ \A t : GoalForTurn(t) \in GoalRecord
  BY ReadGoal, LoadReads, CurrentGoalReads DEF IInv, TypeOK
<1>4. TypeOK'
  BY <1>1, <1>2, <1>3, NoGoalIsAGoal DEF IInv, TypeOK, Holders, Free
<1>5. LockInv'
  BY <1>1, <1>2, LoadReads, CurrentGoalReads DEF IInv, LockInv, Reads, Free
<1>6. TurnInv'
  BY <1>1, <1>2 DEF IInv, TurnInv, Free
<1>7. /\ DiskInv' /\ UsageConserved' /\ ActiveUnderBudget' /\ OpenInv'
      /\ OneTurnPerRevision'
  BY <1>1 DEF IInv, DiskInv, UsageConserved, ActiveUnderBudget, OpenInv,
     OneTurnPerRevision, Live
<1> QED
  BY <1>1, <1>4, <1>5, <1>6, <1>7 DEF IInv

(* A step that leaves the stored goal where a move of the table puts it.   *)
Moved ==
    \/ UNCHANGED <<snapshot, minted>>
    \/ Lifecycle!Next

(* Identities are never given twice: a goal created under the lock is new. *)
LEMMA CreateStep ==
    ASSUME IInv, lock.op = "set",
           NEW req \in Requests, NEW id \in GoalIds, CreateGoal(req, id),
           Release,
           UNCHANGED <<open, ended, slot, cancelled, queued, turn, outcome, spent>>
    PROVE  IInv' /\ Moved
<1>1. /\ snapshot' \in GoalRecord /\ snapshot'.gid = id /\ snapshot'.rev = 1
      /\ snapshot'.used = 0 /\ snapshot'.status = "active"
      /\ id \notin minted /\ minted' = minted \union {id} /\ id # NoGoalId
  BY CreatedGoal, NoGoalIdIsFresh DEF CreateGoal
<1>2. ~ Exhausted(snapshot')
  <2>1. snapshot' = Created(req, id)
    BY DEF CreateGoal
  <2>2. req.rebudget => req.budget \in Nat
    BY DEF Requests
  <2>3. snapshot'.budget \in Nat /\ snapshot'.used = 0
    BY <1>1 DEF GoalRecord
  <2> QED
    BY <2>3 DEF Exhausted, NoBudget
<1>3. TypeOK'
  BY <1>1, NoGoalIsAGoal DEF IInv, TypeOK, Holders, Free, Release
<1>4. LockInv' /\ TurnInv'
  BY DEF IInv, LockInv, TurnInv, Release, Free
<1>5. DiskInv' /\ UsageConserved'
  BY <1>1 DEF IInv, TypeOK, DiskInv, UsageConserved
<1>6. ActiveUnderBudget' /\ OpenInv' /\ OneTurnPerRevision'
  BY <1>2 DEF IInv, ActiveUnderBudget, OpenInv, OneTurnPerRevision, Live
<1>7. Lifecycle!Create(id)
  BY <1>1 DEF Lifecycle!Create, Lifecycle!GoalRecord, Lifecycle!Statuses,
     GoalRecord, Statuses
<1> QED
  BY <1>3, <1>4, <1>5, <1>6, <1>7 DEF IInv, Moved, Lifecycle!Next

(* A write that keeps the goal's identity and advances its revision is a   *)
(* change GoalLifecycle allows if its status is.                           *)
LEMMA ChangeStep ==
    ASSUME TypeOK, DiskInv, UNCHANGED minted,
           snapshot.gid # NoGoalId, snapshot' \in GoalRecord,
           snapshot'.gid = snapshot.gid, snapshot'.rev > snapshot.rev,
           snapshot'.used >= snapshot.used,
           <<snapshot.status, snapshot'.status>> \in Moves,
           snapshot'.status = "active" => ~ Exhausted(snapshot')
    PROVE  Moved
<1>1. snapshot # Lifecycle!NoGoal
  BY DEF Lifecycle!NoGoal, Lifecycle!NoBudget
<1>2. Lifecycle!GoalRecord = GoalRecord
  BY DEF Lifecycle!GoalRecord, GoalRecord, Lifecycle!Statuses, Statuses
<1>3. snapshot'.status = "active" => ~ Lifecycle!Exhausted(snapshot')
  BY DEF Lifecycle!Exhausted, Exhausted, Lifecycle!NoBudget, NoBudget
<1> QED
  BY <1>1, <1>2, <1>3 DEF Moved, Lifecycle!Next, Lifecycle!Change, Moves

(* An accepted edit of the goal read under the lock: usage is kept, the    *)
(* revision grows, so no open checkpoint is at the new one.                *)
LEMMA EditStep ==
    ASSUME IInv, lock.op = "set",
           NEW req \in Requests, EditGoal(req), Release,
           UNCHANGED <<open, ended, slot, cancelled, queued, turn, outcome, spent>>
    PROVE  IInv' /\ Moved
<1>1. /\ lock.goal \in GoalRecord /\ lock.goal.gid = snapshot.gid
      /\ lock.goal.used = snapshot.used /\ lock.goal.rev >= snapshot.rev
      /\ lock.goal.rev \in Nat /\ snapshot.rev \in Nat
      /\ \A s \in Statuses :
            <<lock.goal.status, s>> \in Moves => <<snapshot.status, s>> \in Moves
  BY ReadGoal DEF IInv, TypeOK, LockInv
<1>2. /\ snapshot' \in GoalRecord /\ snapshot'.gid = snapshot.gid
      /\ snapshot'.rev > snapshot.rev /\ snapshot'.used = snapshot.used
      /\ snapshot'.status = "active" => ~ Exhausted(snapshot')
      /\ <<lock.goal.status, snapshot'.status>> \in Moves
  BY <1>1, MutatedGoal DEF EditGoal
<1>3. snapshot.gid # NoGoalId
  <2>1. CASE lock.goal = snapshot
    BY <2>1 DEF IInv, DiskInv, EditGoal
  <2>2. CASE snapshot.status = "active"
    BY <2>2 DEF IInv, DiskInv, NoGoal
  <2> QED
    BY <2>1, <2>2 DEF IInv, LockInv, Reads
<1>4. UNCHANGED minted
  BY DEF EditGoal
<1>5. TypeOK'
  BY <1>2, <1>4, NoGoalIsAGoal DEF IInv, TypeOK, Holders, Free, Release
<1>6. LockInv' /\ TurnInv'
  BY DEF IInv, LockInv, TurnInv, Release, Free
<1>7. DiskInv' /\ UsageConserved'
  <2>1. \A c \in open' : c.gid \in minted' /\ c.rev \in Nat
                            /\ (c.gid = snapshot.gid => c.rev <= snapshot.rev)
    BY <1>4 DEF IInv, TypeOK, Checkpoint, DiskInv
  <2>2. snapshot'.rev \in Nat
    BY <1>2 DEF GoalRecord
  <2>3. \A c \in open' : c.gid = snapshot'.gid => c.rev <= snapshot'.rev
    BY <1>1, <1>2, <2>1, <2>2
  <2> QED
    BY <1>2, <1>3, <1>4, <2>1, <2>3 DEF IInv, DiskInv, UsageConserved
<1>8. ActiveUnderBudget' /\ OpenInv' /\ OneTurnPerRevision'
  BY <1>2 DEF IInv, ActiveUnderBudget, OpenInv, OneTurnPerRevision, Live
<1>9. Moved
  <2>1. snapshot'.used >= snapshot.used /\ <<snapshot.status, snapshot'.status>> \in Moves
    BY <1>1, <1>2 DEF IInv, TypeOK, GoalRecord
  <2> QED
    BY <1>2, <1>3, <1>4, <2>1, ChangeStep DEF IInv
<1> QED
  BY <1>5, <1>6, <1>7, <1>8, <1>9 DEF IInv

(* set_goal creates or edits, and releases the lock.                       *)
LEMMA SetStep ==
    ASSUME IInv, SetWrite
    PROVE  IInv' /\ Moved
<1>1. PICK req \in RequestsOf(lock.goal) :
         EditGoal(req) \/ \E id \in GoalIds : CreateGoal(req, id)
  BY DEF SetWrite
<1>2. lock.goal.rev \in Nat
  BY DEF IInv, TypeOK, Holders, GoalRecord
<1>3. req \in Requests
  <2>1. Budgets \union {NoBudget} \subseteq Nat /\ {lock.goal.rev} \subseteq Nat
    BY <1>2, NumbersAreNatural DEF NoBudget
  <2> HIDE DEF NoBudget
  <2> QED
    BY <2>1 DEF Requests, RequestsOf
<1> QED
  BY <1>1, <1>3, EditStep, CreateStep DEF SetWrite

(* clear_goal appends its tombstone: the open checkpoints stay, and none of *)
(* them is for the goal that is then stored.                               *)
LEMMA ClearStep ==
    ASSUME IInv, ClearWrite
    PROVE  IInv' /\ Moved
<1>1. /\ snapshot' = NoGoal /\ snapshot' \in GoalRecord
      /\ NoGoal.gid = NoGoalId /\ NoGoal.status # "active"
  BY NoGoalIsAGoal DEF ClearWrite, NoGoal
<1>2. TypeOK'
  BY <1>1 DEF IInv, TypeOK, Holders, Free, Release, ClearWrite
<1>3. LockInv' /\ TurnInv'
  BY DEF IInv, LockInv, TurnInv, Release, Free, ClearWrite
<1>4. DiskInv' /\ UsageConserved' /\ ActiveUnderBudget'
  <2>1. \A c \in open : c.gid \in GoalIds
    BY DEF IInv, TypeOK, Checkpoint
  <2> QED
    BY <1>1, <2>1, NoGoalIdIsFresh DEF IInv, DiskInv, UsageConserved,
       ActiveUnderBudget, ClearWrite
<1>5. OpenInv' /\ OneTurnPerRevision'
  BY DEF IInv, OpenInv, OneTurnPerRevision, Live, ClearWrite
<1>6. Moved
  <2>1. NoGoal = Lifecycle!NoGoal
    BY DEF NoGoal, Lifecycle!NoGoal, NoBudget, Lifecycle!NoBudget
  <2> QED
    BY <1>1, <2>1 DEF Moved, Lifecycle!Next, Lifecycle!Clear, ClearWrite
<1> QED
  BY <1>2, <1>3, <1>4, <1>5, <1>6 DEF IInv

(* Taking the slot: the goal to be stored is the stored one, one revision  *)
(* later; an exhausted one, which ActiveUnderBudget rules out, aside.      *)
LEMMA ReserveStep ==
    ASSUME IInv, NEW t \in Turns, ContinueReserve(t)
    PROVE  IInv' /\ UNCHANGED <<snapshot, minted>>
<1>1. lock.goal = snapshot /\ snapshot.status = "active" /\ snapshot \in GoalRecord
  BY DEF IInv, TypeOK, LockInv, Reads, Paused, ContinueReserve, GoalRecord
<1>2. ~ Exhausted(lock.goal)
  BY <1>1 DEF IInv, ActiveUnderBudget
<1> DEFINE next == [snapshot EXCEPT !.rev = @ + 1]
<1>3. /\ lock.op = "continue" /\ turn[t] = "unused"
      /\ slot' = t /\ UNCHANGED <<snapshot, open, ended, cancelled, queued, minted, spent>>
      /\ lock' = [op |-> "start", turn |-> t, goal |-> next]
      /\ turn' = [turn EXCEPT ![t] = "reserved"]
      /\ outcome' = [outcome EXCEPT ![t].gid = snapshot.gid]
  BY <1>1, <1>2 DEF ContinueReserve, Advance
<1>4. next \in GoalRecord
  BY <1>1 DEF GoalRecord
<1>5. snapshot.gid # NoGoalId /\ snapshot.gid \in GoalIds
  BY <1>1 DEF IInv, DiskInv, NoGoal, GoalRecord
<1> HIDE DEF next
<1>6. TypeOK'
  <2>1. /\ lock' \in Holders /\ turn' \in [Turns -> Stages]
        /\ outcome' \in [Turns -> Outcomes]
    BY <1>3, <1>4, <1>5 DEF IInv, TypeOK, Holders, Stages, Outcomes
  <2> QED
    BY <1>3, <2>1 DEF IInv, TypeOK
<1>7. LockInv'
  BY <1>1, <1>3, <1>5 DEF IInv, TypeOK, LockInv, Outcomes, next
<1>8. TurnInv'
  BY <1>3, <1>5 DEF IInv, TypeOK, TurnInv, Outcomes
<1>9. DiskInv' /\ UsageConserved' /\ ActiveUnderBudget' /\ OneTurnPerRevision'
  BY <1>3 DEF IInv, DiskInv, UsageConserved, ActiveUnderBudget, OneTurnPerRevision
<1>10. OpenInv'
  BY <1>3 DEF IInv, TypeOK, OpenInv, Live
<1> QED
  BY <1>3, <1>6, <1>7, <1>8, <1>9, <1>10 DEF IInv

(* What the pending start will store is a change of the stored goal.       *)
LEMMA PendingStart ==
    ASSUME IInv, lock.op = "start"
    PROVE  /\ lock.goal \in GoalRecord
           /\ lock.goal.gid = snapshot.gid /\ snapshot.gid \in GoalIds
           /\ snapshot.gid # NoGoalId
           /\ lock.goal.rev = snapshot.rev + 1 /\ snapshot.rev \in Nat
           /\ lock.goal.used = snapshot.used /\ snapshot.used \in Nat
           /\ lock.goal.status = snapshot.status /\ snapshot.status = "active"
           /\ ~ Exhausted(lock.goal)
           /\ <<snapshot.status, lock.goal.status>> \in Moves
<1>1. snapshot \in GoalRecord /\ snapshot.rev \in Nat /\ snapshot.rev + 1 \in Nat
  BY DEF IInv, TypeOK, GoalRecord
<1>2. lock.goal = [snapshot EXCEPT !.rev = @ + 1] /\ snapshot.status = "active"
      /\ snapshot.gid # NoGoalId
  BY DEF IInv, LockInv
<1>3. ~ Exhausted(snapshot)
  BY <1>2 DEF IInv, ActiveUnderBudget
<1>4. <<"active", "active">> \in Moves
  BY DEF Moves, Lifecycle!Moves, Lifecycle!Statuses
<1> QED
  BY <1>1, <1>2, <1>3, <1>4 DEF GoalRecord, Exhausted

(* append_goal_snapshot_and_turn_start: the snapshot takes the next        *)
(* revision, so the new checkpoint is the only one open there.             *)
LEMMA StartStep ==
    ASSUME IInv, NEW t \in Turns, StartWrite(t)
    PROVE  IInv' /\ Moved
<1> DEFINE start == [gid |-> lock.goal.gid, rev |-> lock.goal.rev, turn |-> t]
<1>1. /\ lock.op = "start" /\ lock.turn = t /\ turn[t] = "reserved"
      /\ outcome[t].gid = snapshot.gid
      /\ snapshot' = lock.goal /\ open' = open \union {start}
      /\ turn' = [turn EXCEPT ![t] = "started"] /\ lock' = Free
      /\ UNCHANGED <<ended, slot, cancelled, queued, outcome, minted, spent>>
  BY DEF IInv, LockInv, StartWrite, Advance, Release
<1>2. /\ lock.goal \in GoalRecord
      /\ lock.goal.gid = snapshot.gid /\ snapshot.gid \in GoalIds
      /\ snapshot.gid # NoGoalId
      /\ lock.goal.rev = snapshot.rev + 1 /\ snapshot.rev \in Nat
      /\ lock.goal.used = snapshot.used /\ snapshot.used \in Nat
      /\ ~ Exhausted(lock.goal)
      /\ <<snapshot.status, lock.goal.status>> \in Moves
  BY <1>1, PendingStart
<1>3. start \in Checkpoint /\ start.gid = snapshot.gid
      /\ start.rev = snapshot.rev + 1 /\ start.turn = t
  BY <1>2 DEF Checkpoint
<1> HIDE DEF start
<1>4. TypeOK'
  <2>1. turn' \in [Turns -> Stages] /\ lock' \in Holders
    BY <1>1, NoGoalIsAGoal DEF IInv, TypeOK, Stages, Holders, Free
  <2> QED
    BY <1>1, <1>2, <1>3, <2>1 DEF IInv, TypeOK
<1>5. LockInv'
  BY <1>1 DEF LockInv, Free
<1>6. TurnInv'
  BY <1>1, <1>3 DEF IInv, TypeOK, TurnInv
<1>7. \A c \in open : c.rev \in Nat
  BY DEF IInv, TypeOK, Checkpoint
<1>8. DiskInv'
  <2>1. snapshot.gid \in minted
    BY <1>2 DEF IInv, DiskInv
  <2>2. \A c \in open : c.gid = snapshot.gid => c.rev <= lock.goal.rev
    BY <1>2, <1>7 DEF IInv, DiskInv
  <2>3. \A c \in open' : c.gid \in minted /\ (c.gid = snapshot'.gid => c.rev <= snapshot'.rev)
    BY <1>1, <1>2, <1>3, <2>1, <2>2 DEF IInv, DiskInv
  <2> QED
    BY <1>1, <1>2, <2>1, <2>3 DEF IInv, DiskInv
<1>9. UsageConserved' /\ ActiveUnderBudget'
  BY <1>1, <1>2 DEF IInv, UsageConserved, ActiveUnderBudget
<1>10. OpenInv'
  BY <1>1, <1>2, <1>3 DEF IInv, TypeOK, OpenInv, Live, TurnInv
<1>11. OneTurnPerRevision'
  <2>1. \A c \in open : c.gid = start.gid => c.rev # start.rev
    BY <1>2, <1>3, <1>7 DEF IInv, DiskInv
  <2> QED
    BY <1>1, <2>1 DEF IInv, OneTurnPerRevision
<1>12. Moved
  <2>1. /\ snapshot'.rev > snapshot.rev /\ snapshot'.used >= snapshot.used
        /\ snapshot' \in GoalRecord /\ snapshot'.gid = snapshot.gid
        /\ <<snapshot.status, snapshot'.status>> \in Moves
        /\ ~ Exhausted(snapshot')
    BY <1>1, <1>2
  <2> QED
    BY <1>1, <1>2, <2>1, ChangeStep DEF IInv
<1> QED
  BY <1>4, <1>5, <1>6, <1>8, <1>9, <1>10, <1>11, <1>12 DEF IInv

(* A write cut short leaves a transcript that still satisfies the          *)
(* invariant: the start's snapshot without its checkpoint, or a terminal   *)
(* without its snapshot.                                                   *)
LEMMA CutShortStep ==
    ASSUME IInv, CutShort, UNCHANGED <<minted, spent>>
    PROVE  /\ snapshot' \in GoalRecord /\ open' \subseteq open
           /\ ended' \subseteq GoalIds \X Turns
           /\ DiskInv' /\ UsageConserved' /\ ActiveUnderBudget'
           /\ OneTurnPerRevision' /\ Moved
           /\ lock.op # "finish" => UNCHANGED <<open, ended>>
           /\ \A t \in Turns : t # lock.turn =>
                 /\ \A c \in open : c.turn = t => c \in open'
                 /\ \A id \in GoalIds : <<id, t>> \in ended' => <<id, t>> \in ended
           /\ lock.op = "finish" => turn[lock.turn] = "ended"
<1>1. CASE UNCHANGED disk
  BY <1>1 DEF disk, IInv, TypeOK, DiskInv, UsageConserved, ActiveUnderBudget,
     OneTurnPerRevision, Moved, LockInv
<1>2. CASE lock.op = "start" /\ snapshot' = lock.goal /\ UNCHANGED <<open, ended>>
  <2>1. /\ lock.goal \in GoalRecord
        /\ lock.goal.gid = snapshot.gid /\ snapshot.gid \in GoalIds
        /\ snapshot.gid # NoGoalId
        /\ lock.goal.rev = snapshot.rev + 1 /\ snapshot.rev \in Nat
        /\ lock.goal.used = snapshot.used /\ snapshot.used \in Nat
        /\ ~ Exhausted(lock.goal)
        /\ <<snapshot.status, lock.goal.status>> \in Moves
    BY <1>2, PendingStart
  <2>2. \A c \in open : c.rev \in Nat
    BY DEF IInv, TypeOK, Checkpoint
  <2>3. \A c \in open' : c.gid \in minted /\ (c.gid = snapshot'.gid => c.rev <= snapshot'.rev)
    BY <1>2, <2>1, <2>2 DEF IInv, DiskInv
  <2>4. DiskInv'
    BY <1>2, <2>1, <2>3 DEF IInv, DiskInv
  <2>5. UsageConserved' /\ ActiveUnderBudget' /\ OneTurnPerRevision'
    BY <1>2, <2>1 DEF IInv, UsageConserved, ActiveUnderBudget, OneTurnPerRevision
  <2>6. Moved
    <3>1. /\ snapshot'.rev > snapshot.rev /\ snapshot'.used >= snapshot.used
          /\ snapshot' \in GoalRecord /\ snapshot'.gid = snapshot.gid
          /\ <<snapshot.status, snapshot'.status>> \in Moves
          /\ ~ Exhausted(snapshot')
      BY <1>2, <2>1
    <3> QED
      BY <2>1, <3>1, ChangeStep DEF IInv
  <2> QED
    BY <1>2, <2>1, <2>4, <2>5, <2>6 DEF IInv, TypeOK
<1>3. CASE /\ lock.op = "finish"
           /\ lock.goal.gid = outcome[lock.turn].gid
           /\ <<lock.goal.gid, lock.turn>> \notin ended
           /\ RecordTerminal(lock.goal.gid, lock.turn)
           /\ UNCHANGED snapshot
  <2>1. lock.turn \in Turns /\ turn[lock.turn] = "ended"
        /\ outcome[lock.turn].gid \in GoalIds
    BY <1>3 DEF IInv, LockInv, TurnInv
  <2>2. open' \subseteq open /\ ended' \subseteq GoalIds \X Turns
    BY <1>3, <2>1 DEF IInv, TypeOK, RecordTerminal
  <2>3. DiskInv' /\ UsageConserved' /\ ActiveUnderBudget' /\ OneTurnPerRevision'
    BY <1>3, <2>2 DEF IInv, DiskInv, UsageConserved, ActiveUnderBudget,
       OneTurnPerRevision
  <2>4. \A t \in Turns : t # lock.turn =>
                 /\ \A c \in open : c.turn = t => c \in open'
                 /\ \A id \in GoalIds : <<id, t>> \in ended' => <<id, t>> \in ended
    BY <1>3 DEF RecordTerminal
  <2> QED
    BY <1>3, <2>1, <2>2, <2>3, <2>4 DEF IInv, TypeOK, Moved
<1> QED
  BY <1>1, <1>2, <1>3 DEF CutShort

(* A start that fails gives the slot back, whatever reached the file.      *)
LEMMA StartFailsStep ==
    ASSUME IInv, NEW t \in Turns, StartFails(t)
    PROVE  IInv' /\ Moved
<1>1. /\ lock.op = "start" /\ lock.turn = t /\ CutShort
      /\ slot' = SlotWithout(t) /\ turn' = [turn EXCEPT ![t] = "gone"]
      /\ outcome' = [outcome EXCEPT ![t] = NoOutcome]
      /\ cancelled' = cancelled \ {t} /\ lock' = Free
      /\ UNCHANGED <<queued, minted, spent>>
  BY DEF StartFails, Leave, Advance, Release
<1>2. /\ snapshot' \in GoalRecord /\ UNCHANGED <<open, ended>>
      /\ DiskInv' /\ UsageConserved' /\ ActiveUnderBudget'
      /\ OneTurnPerRevision' /\ Moved
  BY <1>1, CutShortStep
<1>3. TypeOK'
  <2>1. /\ turn' \in [Turns -> Stages] /\ lock' \in Holders
        /\ outcome' \in [Turns -> Outcomes]
        /\ slot' \in Turns \union {NoTurn, UserTurn}
    BY <1>1, NoGoalIsAGoal DEF IInv, TypeOK, Stages, Holders, Free, Outcomes,
       NoOutcome, TerminalKinds, SlotWithout
  <2> QED
    BY <1>1, <1>2, <2>1 DEF IInv, TypeOK
<1>4. LockInv'
  BY <1>1 DEF LockInv, Free
<1>5. TurnInv'
  BY <1>1, <1>2 DEF IInv, TypeOK, TurnInv
<1>6. OpenInv'
  BY <1>1, <1>2 DEF IInv, TypeOK, OpenInv, Live
<1> QED
  BY <1>2, <1>3, <1>4, <1>5, <1>6 DEF IInv

(* What the driver reports of a turn's end is an outcome.                  *)
LEMMA OutcomeReported ==
    ASSUME outcome \in [Turns -> Outcomes], NEW t \in Turns, DriverEnds(t)
    PROVE  /\ outcome' \in [Turns -> Outcomes]
           /\ outcome'[t].gid = outcome[t].gid
           /\ \A u \in Turns : u # t => outcome'[u] = outcome[u]
<1>1. PICK kind \in TerminalKinds, usage \in Nat :
         outcome' = [outcome EXCEPT ![t].kind = kind, ![t].usage = usage]
  BY NumbersAreNatural, KindsAreTerminal DEF DriverEnds
<1> DEFINE o == [[outcome[t] EXCEPT !.kind = kind] EXCEPT !.usage = usage]
<1>2. outcome' = [outcome EXCEPT ![t] = o]
  BY <1>1
<1>3. o \in Outcomes /\ o.gid = outcome[t].gid
  <2>1. outcome[t] \in Outcomes
    OBVIOUS
  <2> QED
    BY <2>1 DEF Outcomes
<1> HIDE DEF o
<1> QED
  BY <1>2, <1>3

(* A turn that is set up, that ends or that is released, on its own.       *)
LEMMA StageStep ==
    ASSUME IInv, NEW t \in Turns, SetUp(t) \/ DriverEnds(t) \/ Settle(t)
    PROVE  IInv' /\ UNCHANGED <<snapshot, minted>>
<1>1. /\ UNCHANGED <<snapshot, open, ended, queued, lock, minted, spent>>
      /\ slot' \in Turns \union {NoTurn, UserTurn}
      /\ cancelled' \subseteq cancelled
  BY DEF IInv, TypeOK, SetUp, DriverEnds, Settle, Leave, SlotWithout
<1>2. PICK stage \in {"running", "ended", "gone"} :
         turn' = [turn EXCEPT ![t] = stage]
  BY DEF SetUp, DriverEnds, Settle, Leave, Advance
<1>3. turn[t] \in {"started", "running", "settled"}
  BY DEF SetUp, DriverEnds, Settle
<1>4. /\ outcome' \in [Turns -> Outcomes]
      /\ \A u \in Turns : u # t => outcome'[u] = outcome[u]
      /\ stage \in {"running", "ended"} => Live(t) /\ outcome'[t].gid = outcome[t].gid
  <2>1. CASE UNCHANGED outcome /\ turn[t] = "started"
    BY <2>1 DEF IInv, TypeOK, Live
  <2>2. CASE outcome' = [outcome EXCEPT ![t] = NoOutcome] /\ turn'[t] = "gone"
    <3>1. NoOutcome \in Outcomes
      BY DEF NoOutcome, Outcomes, TerminalKinds
    <3> QED
      BY <1>2, <2>2, <3>1 DEF IInv, TypeOK
  <2>3. CASE DriverEnds(t)
    <3>1. outcome \in [Turns -> Outcomes]
      BY DEF IInv, TypeOK
    <3>2. Live(t)
      BY <2>3 DEF DriverEnds, Live
    <3> QED
      BY <2>3, <3>1, <3>2, OutcomeReported
  <2>4. turn \in [Turns -> Stages]
    BY DEF IInv, TypeOK
  <2>5. Leave(t) => outcome' = [outcome EXCEPT ![t] = NoOutcome] /\ turn'[t] = "gone"
    BY <2>4 DEF Leave, Advance
  <2>6. SetUp(t) \/ Settle(t) => Leave(t) \/ (UNCHANGED outcome /\ turn[t] = "started")
    BY DEF SetUp, Settle
  <2> QED
    BY <2>1, <2>2, <2>3, <2>5, <2>6
<1>5. TypeOK'
  <2>1. turn' \in [Turns -> Stages]
    BY <1>2 DEF IInv, TypeOK, Stages
  <2> QED
    BY <1>1, <1>4, <2>1 DEF IInv, TypeOK
<1>6. LockInv'
  BY <1>1, <1>2, <1>3, <1>4 DEF IInv, TypeOK, LockInv, Reads
<1>7. TurnInv'
  BY <1>1, <1>2, <1>3, <1>4 DEF IInv, TypeOK, TurnInv, Live
<1>8. OpenInv'
  BY <1>1, <1>2, <1>3, <1>4 DEF IInv, TypeOK, OpenInv, Live
<1>9. DiskInv' /\ UsageConserved' /\ ActiveUnderBudget' /\ OneTurnPerRevision'
  BY <1>1 DEF IInv, DiskInv, UsageConserved, ActiveUnderBudget, OneTurnPerRevision
<1> QED
  BY <1>1, <1>5, <1>6, <1>7, <1>8, <1>9 DEF IInv

(* A turn's checkpoint charges the stored goal only if it is the turn's    *)
(* own; the turn's start checkpoint goes, the others stay.                 *)
LEMMA FinishStep ==
    ASSUME IInv, NEW t \in Turns, FinishWrite(t)
    PROVE  IInv' /\ Moved
<1> DEFINE gid == outcome[t].gid
           repeated == <<gid, t>> \in ended
           mine == lock.goal.gid = gid /\ ~ repeated
<1>1. /\ lock.op = "finish" /\ lock.turn = t /\ turn[t] = "ended"
      /\ Reads(lock.goal) /\ gid \in GoalIds
      /\ turn' = [turn EXCEPT ![t] = "settled"] /\ lock' = Free
      /\ UNCHANGED <<slot, cancelled, queued, outcome, minted>>
  BY DEF IInv, LockInv, TurnInv, FinishWrite, Advance, Release
<1>2. /\ ~ mine => UNCHANGED <<snapshot, spent>>
      /\ mine => /\ snapshot' = Checkpointed(lock.goal, outcome[t].kind, outcome[t].usage)
                 /\ spent' = [spent EXCEPT ![gid] = @ + outcome[t].usage]
      /\ open' \subseteq open /\ ended' \subseteq ended \union {<<gid, t>>}
      /\ \A c \in open : c.turn # t => c \in open'
  BY DEF FinishWrite, RecordTerminal
<1>3. /\ lock.goal \in GoalRecord /\ lock.goal.gid = snapshot.gid
      /\ lock.goal.used = snapshot.used /\ lock.goal.rev >= snapshot.rev
      /\ lock.goal.rev \in Nat /\ snapshot.rev \in Nat
      /\ \A s \in Statuses :
            <<lock.goal.status, s>> \in Moves => <<snapshot.status, s>> \in Moves
  BY <1>1, ReadGoal DEF IInv, TypeOK
<1>4. outcome[t].kind \in TerminalKinds /\ outcome[t].usage \in Nat /\ snapshot.used \in Nat
  BY DEF IInv, TypeOK, Outcomes, GoalRecord
<1>5. mine => /\ snapshot' \in GoalRecord /\ snapshot'.gid = gid
              /\ snapshot.gid = gid /\ gid # NoGoalId
              /\ snapshot'.rev > snapshot.rev
              /\ snapshot'.used = snapshot.used + outcome[t].usage
              /\ snapshot'.status = "active" => ~ Exhausted(snapshot')
              /\ <<snapshot.status, snapshot'.status>> \in Moves
  <2> SUFFICES ASSUME mine
               PROVE  /\ snapshot' \in GoalRecord /\ snapshot'.gid = gid
                      /\ snapshot.gid = gid /\ gid # NoGoalId
                      /\ snapshot'.rev > snapshot.rev
                      /\ snapshot'.used = snapshot.used + outcome[t].usage
                      /\ snapshot'.status = "active" => ~ Exhausted(snapshot')
                      /\ <<snapshot.status, snapshot'.status>> \in Moves
    OBVIOUS
  <2>1. /\ snapshot' \in GoalRecord /\ snapshot'.gid = lock.goal.gid
        /\ snapshot'.rev = lock.goal.rev + 1
        /\ snapshot'.used = lock.goal.used + outcome[t].usage
        /\ snapshot'.status = "active" => ~ Exhausted(snapshot')
        /\ <<lock.goal.status, snapshot'.status>> \in Moves
    BY <1>2, <1>3, <1>4, CheckpointedGoal
  <2>2. snapshot'.status \in Statuses
    BY <2>1 DEF GoalRecord
  <2> QED
    BY <1>1, <1>3, <2>1, <2>2, NoGoalIdIsFresh
<1> HIDE DEF repeated, mine
<1>6. TypeOK'
  <2>1. turn' \in [Turns -> Stages] /\ lock' \in Holders
    BY <1>1, NoGoalIsAGoal DEF IInv, TypeOK, Stages, Holders, Free
  <2>2. ended' \subseteq GoalIds \X Turns /\ open' \subseteq Checkpoint
    BY <1>1, <1>2 DEF IInv, TypeOK
  <2>3. spent' \in [GoalIds -> Nat] /\ snapshot' \in GoalRecord
    BY <1>1, <1>2, <1>4, <1>5 DEF IInv, TypeOK
  <2> QED
    BY <1>1, <2>1, <2>2, <2>3 DEF IInv, TypeOK
<1>7. LockInv'
  BY <1>1 DEF LockInv, Free
<1>8. TurnInv'
  <2>1. \A u \in Turns : turn'[u] \in {"unused", "reserved"} =>
           u # t /\ turn[u] = turn'[u]
    BY <1>1 DEF IInv, TypeOK
  <2>2. \A u \in Turns : turn'[u] # "reserved"
    BY <1>1, <2>1 DEF IInv, TurnInv
  <2> QED
    BY <1>1, <1>2, <2>1, <2>2 DEF IInv, TypeOK, TurnInv
<1>9. DiskInv'
  <2>1. \A c \in open : c.rev \in Nat
    BY DEF IInv, TypeOK, Checkpoint
  <2>2. CASE mine
    <3>1. snapshot'.rev \in Nat /\ gid \in minted
      BY <1>5, <2>2 DEF IInv, DiskInv, GoalRecord
    <3>2. \A c \in open' : c.gid \in minted' /\ (c.gid = snapshot'.gid => c.rev <= snapshot'.rev)
      BY <1>1, <1>2, <1>3, <1>5, <2>1, <2>2, <3>1 DEF IInv, DiskInv
    <3>3. \A id \in GoalIds : id \notin minted' => spent'[id] = 0
      BY <1>1, <1>2, <2>2, <3>1 DEF IInv, TypeOK, DiskInv
    <3> QED
      BY <1>1, <1>5, <2>2, <3>1, <3>2, <3>3 DEF DiskInv
  <2>3. CASE ~ mine
    BY <1>1, <1>2, <2>3 DEF IInv, DiskInv
  <2> QED
    BY <2>2, <2>3
<1>10. UsageConserved' /\ ActiveUnderBudget'
  BY <1>1, <1>2, <1>5 DEF IInv, TypeOK, UsageConserved, ActiveUnderBudget
<1>11. OpenInv'
  <2>1. \A u \in Turns : Live(u)' => u # t /\ Live(u)
    BY <1>1 DEF IInv, TypeOK, Live
  <2> QED
    BY <1>1, <1>2, <2>1 DEF IInv, OpenInv
<1>12. OneTurnPerRevision'
  BY <1>2 DEF IInv, OneTurnPerRevision
<1>13. Moved
  <2>1. CASE mine
    <3>1. snapshot'.used >= snapshot.used
      BY <1>4, <1>5, <2>1
    <3> QED
      BY <1>1, <1>5, <2>1, <3>1, ChangeStep DEF IInv
  <2>2. CASE ~ mine
    BY <1>1, <1>2, <2>2 DEF Moved
  <2> QED
    BY <2>1, <2>2
<1> QED
  BY <1>6, <1>7, <1>8, <1>9, <1>10, <1>11, <1>12, <1>13 DEF IInv

(* A checkpoint that fails ends the turn without charging the goal.        *)
LEMMA FinishFailsStep ==
    ASSUME IInv, NEW t \in Turns, FinishFails(t)
    PROVE  IInv' /\ Moved
<1>1. /\ lock.op = "finish" /\ lock.turn = t /\ turn[t] = "ended" /\ CutShort
      /\ turn' = [turn EXCEPT ![t] = "settled"] /\ lock' = Free
      /\ UNCHANGED <<slot, cancelled, queued, outcome, minted, spent>>
  BY DEF IInv, LockInv, FinishFails, Advance, Release
<1>2. /\ snapshot' \in GoalRecord /\ open' \subseteq open
      /\ ended' \subseteq GoalIds \X Turns
      /\ DiskInv' /\ UsageConserved' /\ ActiveUnderBudget'
      /\ OneTurnPerRevision' /\ Moved
      /\ \A u \in Turns : u # t =>
                 /\ \A c \in open : c.turn = u => c \in open'
                 /\ \A id \in GoalIds : <<id, u>> \in ended' => <<id, u>> \in ended
  BY <1>1, CutShortStep
<1>3. TypeOK'
  <2>1. turn' \in [Turns -> Stages] /\ lock' \in Holders
    BY <1>1, NoGoalIsAGoal DEF IInv, TypeOK, Stages, Holders, Free
  <2> QED
    BY <1>1, <1>2, <2>1 DEF IInv, TypeOK
<1>4. LockInv'
  BY <1>1 DEF LockInv, Free
<1>5. \A u \in Turns : turn'[u] # "settled" => u # t /\ turn[u] = turn'[u]
  BY <1>1 DEF IInv, TypeOK
<1>6. TurnInv'
  BY <1>1, <1>2, <1>5 DEF IInv, TurnInv
<1>7. OpenInv'
  <2>1. \A u \in Turns : Live(u)' => u # t /\ Live(u) /\ outcome[u].gid \in GoalIds
    BY <1>5 DEF IInv, TurnInv, Live
  <2> QED
    BY <1>1, <1>2, <2>1 DEF IInv, OpenInv
<1> QED
  BY <1>2, <1>3, <1>4, <1>6, <1>7 DEF IInv

(* A crash drops the memory and leaves the transcript of a write cut short. *)
LEMMA CrashStep ==
    ASSUME IInv, Crash
    PROVE  IInv' /\ Moved
<1>1. /\ CutShort /\ slot' = NoTurn /\ cancelled' = {} /\ queued' = FALSE
      /\ lock' = Free /\ outcome' = [t \in Turns |-> NoOutcome]
      /\ turn' = [t \in Turns |-> IF turn[t] = "unused" THEN "unused" ELSE "gone"]
      /\ UNCHANGED <<minted, spent>>
  BY DEF Crash
<1>2. /\ snapshot' \in GoalRecord /\ open' \subseteq open
      /\ ended' \subseteq GoalIds \X Turns
      /\ DiskInv' /\ UsageConserved' /\ ActiveUnderBudget'
      /\ OneTurnPerRevision' /\ Moved
      /\ lock.op # "finish" => UNCHANGED <<open, ended>>
      /\ lock.op = "finish" => turn[lock.turn] = "ended"
      /\ \A t \in Turns : t # lock.turn =>
            \A id \in GoalIds : <<id, t>> \in ended' => <<id, t>> \in ended
  BY <1>1, CutShortStep
<1>3. TypeOK'
  <2>1. /\ turn' \in [Turns -> Stages] /\ lock' \in Holders
        /\ outcome' \in [Turns -> Outcomes]
    BY <1>1, NoGoalIsAGoal DEF IInv, TypeOK, Stages, Holders, Free, Outcomes,
       NoOutcome, TerminalKinds
  <2> QED
    BY <1>1, <1>2, <2>1 DEF IInv, TypeOK
<1>4. LockInv'
  BY <1>1 DEF LockInv, Free
<1>5. TurnInv'
  <2>1. \A t \in Turns : turn'[t] = "unused" => turn[t] = "unused"
    BY <1>1
  <2>2. \A t \in Turns : turn'[t] \in {"unused", "gone"}
    BY <1>1
  <2>3. \A t \in Turns : turn[t] = "unused" =>
           \A id \in GoalIds : <<id, t>> \in ended' => <<id, t>> \in ended
    BY <1>2
  <2> QED
    BY <1>2, <2>1, <2>2, <2>3 DEF IInv, TurnInv
<1>6. OpenInv'
  BY <1>1 DEF OpenInv, Live
<1> QED
  BY <1>2, <1>3, <1>4, <1>5, <1>6 DEF IInv

----------------------------------------------------------------------------
(* Every step of the specification, and the theorems                       *)

(* Each action re-establishes the invariant and moves the stored goal as   *)
(* GoalLifecycle allows.                                                   *)
LEMMA NextStep ==
    ASSUME IInv, [Next]_vars
    PROVE  IInv' /\ Moved
<1>1. CASE UNCHANGED vars
  <2>1. TypeOK'
    BY <1>1 DEF vars, IInv, TypeOK
  <2> QED
    BY <1>1, <2>1, RegistryStep DEF vars, Moved
<1>2. CASE Client
  BY <1>2, TrafficStep, ReadStep, SetStep, ClearStep DEF Client, Moved
<1>3. CASE Crash
  BY <1>3, CrashStep
<1>4. ASSUME NEW t \in Turns, Supervisor(t)
      PROVE  IInv' /\ Moved
  BY <1>4, ReserveStep, StartStep, StartFailsStep, StageStep, TrafficStep,
     ReadStep, FinishStep, FinishFailsStep DEF Supervisor, Moved
<1> QED
  BY <1>1, <1>2, <1>3, <1>4 DEF Next

(* The strengthened invariant holds in every reachable state.              *)
THEOREM InductiveInvariant == Spec => []IInv
<1>1. IInv /\ [Next]_vars => IInv'
  BY NextStep
<1> QED
  BY <1>1, InitIInv, PTL DEF Spec

(* Every variable keeps its type.                                          *)
THEOREM TypeCorrect == Spec => []TypeOK
<1>1. IInv => TypeOK
  BY DEF IInv
<1> QED
  BY <1>1, InductiveInvariant, PTL

(* The goal's usage is that of the turns checkpointed into it, each once,  *)
(* whatever edits, interrupts and crashes fall between (finish_goal_turn). *)
THEOREM UsageIsConserved == Spec => []UsageConserved
<1>1. IInv => UsageConserved
  BY DEF IInv
<1> QED
  BY <1>1, InductiveInvariant, PTL

(* No goal is stored active with its budget used up (mutate_goal_from_     *)
(* request, finish_goal_turn).                                             *)
THEOREM ActiveIsUnderBudget == Spec => []ActiveUnderBudget
<1>1. IInv => ActiveUnderBudget
  BY DEF IInv
<1> QED
  BY <1>1, InductiveInvariant, PTL

(* A running goal turn always has its start checkpoint on disk, and no     *)
(* terminal, and a load recovers its goal unless the goal has come to a    *)
(* later revision (append_goal_snapshot_and_turn_start, finish_goal_turn,  *)
(* the decoder).                                                           *)
THEOREM LiveTurnsAreOpen == Spec => []LiveTurnIsOpen
<1>1. IInv => LiveTurnIsOpen
  <2> SUFFICES ASSUME IInv, NEW t \in Turns, Live(t)
               PROVE  /\ <<outcome[t].gid, t>> \notin ended
                      /\ \E c \in open :
                            /\ c.turn = t /\ c.gid = outcome[t].gid
                            /\ c.gid = snapshot.gid /\ snapshot.status = "active"
                                  => RecoveredFrom(t) \/ c.rev < snapshot.rev
    BY DEF LiveTurnIsOpen
  <2>1. <<outcome[t].gid, t>> \notin ended
    BY DEF IInv, OpenInv
  <2>2. PICK c \in open : c.turn = t /\ c.gid = outcome[t].gid
    BY DEF IInv, OpenInv
  <2>3. ASSUME c.gid = snapshot.gid, snapshot.status = "active"
        PROVE  RecoveredFrom(t) \/ c.rev < snapshot.rev
    <3>1. c.rev \in Nat /\ snapshot.rev \in Nat /\ c.rev <= snapshot.rev
      BY <2>3 DEF IInv, TypeOK, DiskInv, Checkpoint, GoalRecord
    <3>2. c.rev = snapshot.rev => c \in Interrupting
      BY <2>3 DEF Interrupting
    <3> QED
      BY <2>2, <2>3, <3>1, <3>2 DEF RecoveredFrom, IsRecovered
  <2> QED
    BY <2>1, <2>2, <2>3
<1> QED
  BY <1>1, InductiveInvariant, PTL

(* The decoder never has two turns to choose from when it recovers a goal  *)
(* (the search for an open start in transcript/mod.rs).                    *)
THEOREM RecoveryIsUnambiguous == Spec => []OneTurnPerRevision
<1>1. IInv => OneTurnPerRevision
  BY DEF IInv
<1> QED
  BY <1>1, InductiveInvariant, PTL

(* The stored goal obeys GoalLifecycle: fresh identities, growing          *)
(* revisions, usage that never falls, statuses along the authority table.  *)
THEOREM Refinement == Spec => KeepsLifecycle
<1>1. Init => Lifecycle!Init
  BY DEF Init, Lifecycle!Init, NoGoal, Lifecycle!NoGoal, NoBudget, Lifecycle!NoBudget
<1>2. IInv /\ [Next]_vars => [Lifecycle!Next]_<<snapshot, minted>>
  BY NextStep DEF Moved
<1> QED
  BY <1>1, <1>2, InductiveInvariant, PTL DEF Spec, KeepsLifecycle, Lifecycle!Spec
============================================================================
