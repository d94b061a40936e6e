------------------------ MODULE GoalCompactionProofs ------------------------
(***************************************************************************)
(* A compaction that rewrites the transcript under the goal's operations   *)
(* may lose usage but never invents any, for every set of turns, goal ids, *)
(* budgets and usages.  IInv of PersistentGoal is of no help here: the     *)
(* rewrite moves the transcript under the holder of the append lock.       *)
(***************************************************************************)
EXTENDS GoalCompaction, PersistentGoalProofs

(* A goal record whoever holds it: it counts no more than was spent.       *)
Counted(g) ==
    /\ g.gid = NoGoalId => g = NoGoal
    /\ g.gid # NoGoalId => g.used <= spent[g.gid]

TurnGoals ==
    \A t \in Turns : turn[t] \in {"reserved", "started", "running", "ended"}
                     => outcome[t].gid \in GoalIds

HeldFor ==
    /\ lock.op = "start" => /\ lock.turn \in Turns
                            /\ turn[lock.turn] = "reserved"
                            /\ lock.goal.gid \in GoalIds
    /\ lock.op = "finish" => lock.turn \in Turns /\ turn[lock.turn] = "ended"

CInv ==
    /\ CTypeOK
    /\ Counted(snapshot) /\ Counted(lock.goal) /\ Counted(compaction.goal)
    /\ TurnGoals
    /\ HeldFor

(* Nothing has been spent and nobody holds a goal.                         *)
LEMMA InitCInv == CInit => CInv
<1> SUFFICES ASSUME CInit PROVE CInv
  OBVIOUS
<1>1. TypeOK
  BY InitIInv DEF CInit, IInv
<1>2. compaction \in Compactions
  BY NoGoalIsAGoal DEF CInit, Idle, Compactions
<1>3. /\ snapshot = NoGoal /\ lock.goal = NoGoal /\ compaction.goal = NoGoal
      /\ NoGoal.gid = NoGoalId
  BY DEF CInit, Init, Free, Idle, NoGoal
<1>4. Counted(snapshot) /\ Counted(lock.goal) /\ Counted(compaction.goal)
  BY <1>3 DEF Counted
<1>5. TurnGoals /\ HeldFor
  BY DEF CInit, Init, TurnGoals, HeldFor, Free
<1> QED
  BY <1>1, <1>2, <1>4, <1>5 DEF CInv, CTypeOK

(* What a load returns counts what the stored goal counts.                 *)
LEMMA LoadCounted ==
    ASSUME CInv, NEW g, Reads(g)
    PROVE  g \in GoalRecord /\ Counted(g)
<1>1. snapshot \in GoalRecord /\ g \in GoalRecord /\ g.gid = snapshot.gid /\ g.used = snapshot.used
  BY ReadGoal DEF CInv, CTypeOK, TypeOK
<1>2. g.gid = NoGoalId => g = NoGoal
  <2>1. CASE g = snapshot
    BY <2>1 DEF CInv, Counted
  <2>2. CASE snapshot.status = "active"
    BY <1>1, <2>2 DEF CInv, Counted, NoGoal
  <2> QED
    BY <2>1, <2>2 DEF Reads
<1> QED
  BY <1>1, <1>2 DEF CInv, Counted

(* A step that stores no goal and spends nothing.                          *)
LEMMA IdleStep ==
    ASSUME CInv, TypeOK', UNCHANGED <<snapshot, spent, compaction>>,
           lock' = lock \/ lock' = Free \/ Counted(lock'.goal),
           TurnGoals', HeldFor'
    PROVE  CInv'
<1>1. Counted(NoGoal)
  BY DEF Counted, NoGoal
<1>2. Counted(lock.goal)' /\ Counted(snapshot)' /\ Counted(compaction.goal)'
  BY <1>1 DEF CInv, Counted, Free
<1> QED
  BY <1>2 DEF CInv, CTypeOK

LEMMA TrafficCounted ==
    ASSUME CInv, UNCHANGED compaction,
           \/ SubmitPrompt \/ PromptEnds \/ Enqueue \/ Drain \/ Cancel \/ Interrupt
           \/ \E t \in Turns : StreamDropped(t)
    PROVE  CInv'
<1>1. TypeOK' /\ UNCHANGED <<snapshot, open, ended, lock, turn, outcome, minted, spent>>
  BY DEF CInv, CTypeOK, TypeOK, SubmitPrompt, PromptEnds, Enqueue, Drain, Cancel,
     Interrupt, StreamDropped
<1>2. TurnGoals' /\ HeldFor'
  BY <1>1 DEF CInv, TurnGoals, HeldFor
<1> QED
  BY <1>1, <1>2, IdleStep

LEMMA ReadCounted ==
    ASSUME CInv, UNCHANGED compaction,
           \/ SetRead \/ ClearRead \/ ContinueRead \/ Refuse
           \/ \E t \in Turns : FinishRead(t)
    PROVE  CInv'
<1>1. UNCHANGED <<snapshot, open, ended, slot, cancelled, queued, turn, outcome,
                  minted, spent>>
  BY DEF SetRead, ClearRead, ContinueRead, Refuse, FinishRead
<1>2. \/ lock' = Free
      \/ \E op \in {"set", "clear", "continue"} :
               lock' = [op |-> op, goal |-> CurrentGoal, turn |-> NoTurn]
      \/ \E t \in Turns :
               /\ turn[t] = "ended"
               /\ lock' = [op |-> "finish", goal |-> GoalForTurn(t), turn |-> t]
  BY DEF SetRead, ClearRead, ContinueRead, Refuse, FinishRead, Acquire, Release
<1>3. /\ CurrentGoal \in GoalRecord /\ Counted(CurrentGoal)
      /\ \A t : GoalForTurn(t) \in GoalRecord /\ Counted(GoalForTurn(t))
  BY LoadCounted, LoadReads, CurrentGoalReads
<1>4. TypeOK'
  BY <1>1, <1>2, <1>3, NoGoalIsAGoal DEF CInv, CTypeOK, TypeOK, Holders, Free
<1>5. lock' = Free \/ Counted(lock'.goal)
  BY <1>2, <1>3
<1>6. TurnGoals' /\ HeldFor'
  BY <1>1, <1>2 DEF CInv, TurnGoals, HeldFor, Free
<1> QED
  BY <1>1, <1>4, <1>5, <1>6, IdleStep

(* A write under the lock that spends nothing.                             *)
LEMMA WriteStep ==
    ASSUME CInv, TypeOK', Counted(snapshot'), UNCHANGED <<spent, compaction>>,
           lock' = Free, TurnGoals'
    PROVE  CInv'
<1>1. Counted(NoGoal) /\ lock'.goal = NoGoal /\ lock'.op = "free"
  BY DEF Counted, NoGoal, Free
<1>2. Counted(lock.goal)' /\ Counted(snapshot)' /\ Counted(compaction.goal)'
  BY <1>1 DEF CInv, Counted
<1>3. HeldFor'
  BY <1>1 DEF HeldFor
<1> QED
  BY <1>2, <1>3 DEF CInv, CTypeOK

LEMMA SetCounted ==
    ASSUME CInv, UNCHANGED compaction, SetWrite \/ ClearWrite
    PROVE  CInv'
<1>1. CASE ClearWrite
  <2>1. TypeOK' /\ snapshot' = NoGoal /\ lock' = Free /\ Counted(NoGoal)
    BY <1>1, NoGoalIsAGoal DEF CInv, CTypeOK, TypeOK, Holders, Free, Release, ClearWrite,
       Counted, NoGoal
  <2>2. TurnGoals' /\ UNCHANGED spent
    BY <1>1 DEF CInv, TurnGoals, ClearWrite
  <2> QED
    BY <2>1, <2>2, WriteStep
<1>2. CASE SetWrite
  <2>1. PICK req \in RequestsOf(lock.goal) :
           EditGoal(req) \/ \E id \in GoalIds : CreateGoal(req, id)
    BY <1>2 DEF SetWrite
  <2>2. lock.goal \in GoalRecord /\ lock.goal.rev \in Nat
    BY DEF CInv, CTypeOK, TypeOK, Holders, GoalRecord
  <2>3. req \in Requests
    <3>1. Budgets \union {NoBudget} \subseteq Nat /\ {lock.goal.rev} \subseteq Nat
      BY <2>2, NumbersAreNatural DEF NoBudget
    <3> HIDE DEF NoBudget
    <3> QED
      BY <3>1 DEF Requests, RequestsOf
  <2>4. snapshot' \in GoalRecord /\ Counted(snapshot') /\ minted' \subseteq GoalIds
    <3>1. CASE EditGoal(req)
      <4>1. /\ snapshot' \in GoalRecord /\ snapshot'.gid = lock.goal.gid
            /\ snapshot'.used = lock.goal.used
        BY <2>2, <2>3, <3>1, MutatedGoal DEF EditGoal
      <4> QED
        BY <3>1, <4>1 DEF EditGoal, CInv, CTypeOK, TypeOK, Counted
    <3>2. ASSUME NEW id \in GoalIds, CreateGoal(req, id)
          PROVE  snapshot' \in GoalRecord /\ Counted(snapshot') /\ minted' \subseteq GoalIds
      <4>1. /\ snapshot' \in GoalRecord /\ snapshot'.gid = id /\ snapshot'.used = 0
        BY <2>3, <3>2, CreatedGoal DEF CreateGoal
      <4>2. spent[id] \in Nat /\ id # NoGoalId
        BY NoGoalIdIsFresh DEF CInv, CTypeOK, TypeOK
      <4> QED
        BY <3>2, <4>1, <4>2 DEF CreateGoal, CInv, CTypeOK, TypeOK, Counted
    <3> QED
      BY <2>1, <3>1, <3>2
  <2>5. TypeOK' /\ lock' = Free /\ UNCHANGED spent
    BY <1>2, <2>4, NoGoalIsAGoal DEF SetWrite, CInv, CTypeOK, TypeOK, Holders, Free, Release
  <2>6. TurnGoals'
    BY <1>2 DEF SetWrite, CInv, TurnGoals
  <2> QED
    BY <2>4, <2>5, <2>6, WriteStep
<1> QED
  BY <1>1, <1>2

(* The next revision of a goal counts the same, and so does a limited one. *)
LEMMA RevisedCounted ==
    ASSUME NEW g \in GoalRecord, Counted(g), g # NoGoal
    PROVE  /\ g.gid \in GoalIds
           /\ [g EXCEPT !.rev = @ + 1] \in GoalRecord
           /\ Counted([g EXCEPT !.rev = @ + 1])
           /\ [g EXCEPT !.rev = @ + 1].gid = g.gid
           /\ [g EXCEPT !.status = "budget_limited", !.rev = @ + 1] \in GoalRecord
           /\ Counted([g EXCEPT !.status = "budget_limited", !.rev = @ + 1])
<1>1. g.gid # NoGoalId /\ g.gid \in GoalIds /\ g.used <= spent[g.gid]
  BY DEF Counted, GoalRecord
<1>2. g.rev + 1 \in Nat
  BY DEF GoalRecord
<1>3. ASSUME NEW h \in {[g EXCEPT !.rev = @ + 1],
                        [g EXCEPT !.status = "budget_limited", !.rev = @ + 1]}
      PROVE  h \in GoalRecord /\ h.gid = g.gid /\ h.used = g.used
  BY <1>2 DEF GoalRecord, Statuses
<1> QED
  BY <1>1, <1>3 DEF Counted

LEMMA ReserveCounted ==
    ASSUME CInv, UNCHANGED compaction, NEW t \in Turns, ContinueReserve(t)
    PROVE  CInv'
<1>1. lock.goal \in GoalRecord /\ Counted(lock.goal) /\ lock.goal # NoGoal
  BY DEF CInv, CTypeOK, TypeOK, Holders, ContinueReserve
<1>2. CASE Exhausted(lock.goal)
  <2>1. snapshot' = [lock.goal EXCEPT !.status = "budget_limited", !.rev = @ + 1]
    BY <1>2 DEF ContinueReserve
  <2>2. snapshot' \in GoalRecord /\ Counted(snapshot')
    BY <1>1, <2>1, RevisedCounted
  <2>3. TypeOK' /\ lock' = Free /\ UNCHANGED <<spent, turn, outcome>>
    BY <1>2, <2>2, NoGoalIsAGoal DEF ContinueReserve, CInv, CTypeOK, TypeOK, Holders, Free, Release
  <2> QED
    BY <2>2, <2>3, WriteStep DEF CInv, TurnGoals
<1>3. CASE ~ Exhausted(lock.goal)
  <2> DEFINE next == [lock.goal EXCEPT !.rev = @ + 1]
  <2>1. next \in GoalRecord /\ Counted(next) /\ next.gid \in GoalIds /\ lock.goal.gid \in GoalIds
    BY <1>1, RevisedCounted
  <2>2. /\ slot' = t /\ UNCHANGED <<snapshot, open, ended, cancelled, queued, minted, spent>>
        /\ lock' = [op |-> "start", turn |-> t, goal |-> next]
        /\ turn' = [turn EXCEPT ![t] = "reserved"]
        /\ outcome' = [outcome EXCEPT ![t].gid = lock.goal.gid]
    BY <1>3 DEF ContinueReserve, Advance
  <2> HIDE DEF next
  <2>3. /\ lock' \in Holders /\ turn' \in [Turns -> Stages] /\ outcome' \in [Turns -> Outcomes]
    BY <2>1, <2>2 DEF CInv, CTypeOK, TypeOK, Holders, Stages, Outcomes
  <2>4. TypeOK'
    BY <2>2, <2>3 DEF CInv, CTypeOK, TypeOK
  <2>5. TurnGoals' /\ HeldFor'
    BY <2>1, <2>2 DEF CInv, CTypeOK, TypeOK, TurnGoals, HeldFor, Outcomes
  <2> QED
    BY <2>1, <2>2, <2>4, <2>5, IdleStep
<1> QED
  BY <1>2, <1>3

(* What a write cut short leaves on disk.                                  *)
LEMMA CutShortCounted ==
    ASSUME CInv, CutShort
    PROVE  /\ snapshot' \in GoalRecord /\ Counted(snapshot')
           /\ open' \subseteq Checkpoint /\ ended' \subseteq GoalIds \X Turns
<1>1. CASE UNCHANGED disk
  BY <1>1 DEF CInv, CTypeOK, TypeOK, disk
<1>2. CASE lock.op = "start" /\ snapshot' = lock.goal /\ UNCHANGED <<open, ended>>
  BY <1>2 DEF CInv, CTypeOK, TypeOK, Holders
<1>3. CASE /\ lock.op = "finish"
           /\ lock.goal.gid = outcome[lock.turn].gid
           /\ RecordTerminal(lock.goal.gid, lock.turn)
           /\ UNCHANGED snapshot
  <2>1. lock.turn \in Turns /\ lock.goal.gid \in GoalIds
    BY <1>3 DEF CInv, HeldFor, TurnGoals
  <2> QED
    BY <1>3, <2>1 DEF CInv, CTypeOK, TypeOK, RecordTerminal
<1> QED
  BY <1>1, <1>2, <1>3 DEF CutShort

LEMMA StartCounted ==
    ASSUME CInv, UNCHANGED compaction, NEW t \in Turns, StartWrite(t) \/ StartFails(t)
    PROVE  CInv'
<1>1. lock.op = "start" /\ lock.turn = t /\ lock' = Free /\ UNCHANGED spent
  BY DEF StartWrite, StartFails, Release
<1>2. lock' \in Holders
  BY <1>1, NoGoalIsAGoal DEF Holders, Free
<1>3. CASE StartWrite(t)
  <2>1. lock.goal \in GoalRecord /\ Counted(lock.goal) /\ lock.goal.gid \in GoalIds
        /\ lock.goal.rev \in Nat
    BY <1>1 DEF CInv, CTypeOK, TypeOK, Holders, HeldFor, GoalRecord
  <2>2. TypeOK' /\ snapshot' = lock.goal
    BY <1>2, <1>3, <2>1 DEF CInv, CTypeOK, TypeOK, StartWrite, Advance, Stages, Checkpoint
  <2>3. TurnGoals'
    BY <1>1, <1>3 DEF CInv, CTypeOK, TypeOK, StartWrite, Advance, TurnGoals, HeldFor
  <2> QED
    BY <1>1, <2>1, <2>2, <2>3, WriteStep
<1>4. CASE StartFails(t)
  <2>1. /\ turn' = [turn EXCEPT ![t] = "gone"]
        /\ outcome' = [outcome EXCEPT ![t] = NoOutcome]
        /\ slot' \in Turns \union {NoTurn, UserTurn} /\ cancelled' \subseteq Turns \union {UserTurn}
        /\ UNCHANGED <<queued, minted, spent>>
    BY <1>4 DEF StartFails, Leave, Advance, SlotWithout, CInv, CTypeOK, TypeOK
  <2>2. turn' \in [Turns -> Stages] /\ outcome' \in [Turns -> Outcomes]
    BY <2>1 DEF CInv, CTypeOK, TypeOK, Stages, Outcomes, NoOutcome, TerminalKinds
  <2>3. TypeOK' /\ Counted(snapshot')
    BY <1>2, <1>4, <2>1, <2>2, CutShortCounted DEF StartFails, CInv, CTypeOK, TypeOK
  <2>4. TurnGoals'
    BY <2>1 DEF CInv, CTypeOK, TypeOK, TurnGoals
  <2> QED
    BY <1>1, <2>3, <2>4, WriteStep
<1> QED
  BY <1>3, <1>4

(* The stages of a turn between its start and its end.                     *)
LEMMA StageCounted ==
    ASSUME CInv, UNCHANGED compaction, NEW t \in Turns, SetUp(t) \/ DriverEnds(t) \/ Settle(t)
    PROVE  CInv'
<1>1. UNCHANGED <<snapshot, open, ended, queued, lock, minted, spent>>
  BY DEF SetUp, DriverEnds, Settle
<1>2. lock.op \in {"start", "finish"} => lock.turn # t
  BY DEF CInv, HeldFor, SetUp, DriverEnds, Settle
<1>3. PICK stage \in {"running", "ended", "gone"} : turn' = [turn EXCEPT ![t] = stage]
  BY DEF SetUp, DriverEnds, Settle, Leave, Advance
<1>4. slot' \in Turns \union {NoTurn, UserTurn} /\ cancelled' \subseteq Turns \union {UserTurn}
  BY DEF SetUp, DriverEnds, Settle, Leave, SlotWithout, CInv, CTypeOK, TypeOK
<1>5. /\ outcome' \in [Turns -> Outcomes]
      /\ \A u \in Turns : u # t => outcome'[u] = outcome[u]
      /\ stage \in {"running", "ended"} => outcome'[t].gid = outcome[t].gid
                                         /\ turn[t] \in {"started", "running"}
  <2>1. CASE UNCHANGED outcome /\ turn[t] = "started"
    BY <2>1 DEF CInv, CTypeOK, TypeOK
  <2>2. CASE outcome' = [outcome EXCEPT ![t] = NoOutcome] /\ turn'[t] = "gone"
    <3>1. NoOutcome \in Outcomes
      BY DEF NoOutcome, Outcomes, TerminalKinds
    <3> QED
      BY <1>3, <2>2, <3>1 DEF CInv, CTypeOK, TypeOK
  <2>3. CASE DriverEnds(t)
    <3>1. outcome \in [Turns -> Outcomes]
      BY DEF CInv, CTypeOK, TypeOK
    <3>2. turn[t] \in {"started", "running"}
      BY <2>3 DEF DriverEnds
    <3> QED
      BY <2>3, <3>1, <3>2, OutcomeReported
  <2>4. turn \in [Turns -> Stages]
    BY DEF CInv, CTypeOK, TypeOK
  <2>5. Leave(t) => outcome' = [outcome EXCEPT ![t] = NoOutcome] /\ turn'[t] = "gone"
    BY <2>4 DEF Leave, Advance
  <2>6. SetUp(t) \/ Settle(t) => Leave(t) \/ (UNCHANGED outcome /\ turn[t] = "started")
    BY DEF SetUp, Settle
  <2> QED
    BY <2>1, <2>2, <2>3, <2>5, <2>6
<1>6. TypeOK'
  <2>1. turn' \in [Turns -> Stages]
    BY <1>3 DEF CInv, CTypeOK, TypeOK, Stages
  <2> QED
    BY <1>1, <1>4, <1>5, <2>1 DEF CInv, CTypeOK, TypeOK
<1>7. TurnGoals'
  BY <1>3, <1>5 DEF CInv, CTypeOK, TypeOK, TurnGoals
<1>8. HeldFor'
  BY <1>1, <1>2, <1>3 DEF CInv, CTypeOK, TypeOK, HeldFor
<1> QED
  BY <1>1, <1>6, <1>7, <1>8, IdleStep

(* The checkpoint adds the turn's usage to the goal it read and to what was *)
(* spent on it; a goal read before a rewrite counts no more than one read   *)
(* after it.                                                               *)
LEMMA FinishCounted ==
    ASSUME CInv, UNCHANGED compaction, NEW t \in Turns, FinishWrite(t) \/ FinishFails(t)
    PROVE  CInv'
<1> DEFINE mine == outcome[t]
<1>1. /\ lock.op = "finish" /\ lock.turn = t /\ lock' = Free
      /\ turn' = [turn EXCEPT ![t] = "settled"]
      /\ UNCHANGED <<slot, cancelled, queued, outcome, minted>>
  BY DEF FinishWrite, FinishFails, Release, Advance
<1>2. mine.gid \in GoalIds /\ mine.kind \in TerminalKinds /\ mine.usage \in Nat
  BY <1>1 DEF CInv, CTypeOK, TypeOK, HeldFor, TurnGoals, Outcomes
<1>3. lock' \in Holders /\ turn' \in [Turns -> Stages]
  BY <1>1, NoGoalIsAGoal DEF Holders, Free, CInv, CTypeOK, TypeOK, Stages
<1>4. TurnGoals'
  BY <1>1 DEF CInv, CTypeOK, TypeOK, TurnGoals
<1>5. CASE FinishFails(t)
  <2>1. TypeOK' /\ Counted(snapshot') /\ UNCHANGED spent
    BY <1>1, <1>3, <1>5, CutShortCounted DEF FinishFails, CInv, CTypeOK, TypeOK
  <2> QED
    BY <1>1, <1>4, <2>1, WriteStep
<1>6. CASE FinishWrite(t)
  <2>1. open' \subseteq Checkpoint /\ ended' \subseteq GoalIds \X Turns
    BY <1>2, <1>6 DEF FinishWrite, RecordTerminal, CInv, CTypeOK, TypeOK
  <2>2. CASE UNCHANGED <<snapshot, spent>>
    <3>1. TypeOK' /\ Counted(snapshot')
      BY <1>1, <1>3, <2>1, <2>2 DEF CInv, CTypeOK, TypeOK
    <3> QED
      BY <1>1, <1>4, <2>2, <3>1, WriteStep
  <2>3. CASE /\ lock.goal.gid = mine.gid
             /\ snapshot' = Checkpointed(lock.goal, mine.kind, mine.usage)
             /\ spent' = [spent EXCEPT ![mine.gid] = @ + mine.usage]
    <3>1. /\ lock.goal \in GoalRecord /\ lock.goal.used \in Nat
          /\ spent[mine.gid] \in Nat /\ mine.gid # NoGoalId
      BY <1>2, NoGoalIdIsFresh DEF CInv, CTypeOK, TypeOK, Holders, GoalRecord
    <3>2. /\ snapshot' \in GoalRecord /\ snapshot'.gid = mine.gid
          /\ snapshot'.used = lock.goal.used + mine.usage
      BY <1>2, <2>3, <3>1, CheckpointedGoal
    <3>3. /\ spent' \in [GoalIds -> Nat]
          /\ spent'[mine.gid] = spent[mine.gid] + mine.usage
          /\ \A id \in GoalIds : spent'[id] >= spent[id]
      BY <1>2, <2>3, <3>1 DEF CInv, CTypeOK, TypeOK
    <3>4. TypeOK'
      BY <1>1, <1>3, <2>1, <3>2, <3>3 DEF CInv, CTypeOK, TypeOK
    <3>5. lock.goal.used <= spent[mine.gid]
      BY <2>3, <3>1 DEF CInv, Counted
    <3>6. Counted(snapshot)'
      BY <1>2, <3>1, <3>2, <3>3, <3>5 DEF Counted
    <3>7. Counted(compaction.goal)'
      <4>1. compaction.goal \in GoalRecord /\ compaction.goal.used \in Nat
        BY DEF CInv, CTypeOK, Compactions, GoalRecord
      <4>2. CASE compaction.goal.gid = NoGoalId
        BY <4>2 DEF CInv, Counted
      <4>3. CASE compaction.goal.gid # NoGoalId
        <5>1. compaction.goal.gid \in GoalIds
          BY <4>1, <4>3 DEF GoalRecord
        <5>2. /\ compaction.goal.used <= spent[compaction.goal.gid]
              /\ spent[compaction.goal.gid] \in Nat /\ spent'[compaction.goal.gid] \in Nat
          BY <3>3, <4>3, <5>1 DEF CInv, CTypeOK, TypeOK, Counted
        <5> QED
          BY <3>3, <4>1, <4>3, <5>1, <5>2 DEF Counted
      <4> QED
        BY <4>2, <4>3
    <3>8. Counted(lock.goal)' /\ HeldFor'
      BY <1>1 DEF Free, Counted, NoGoal, HeldFor
    <3> QED
      BY <1>4, <3>4, <3>6, <3>7, <3>8 DEF CInv, CTypeOK
  <2> QED
    BY <1>6, <2>2, <2>3 DEF FinishWrite
<1> QED
  BY <1>5, <1>6

(* The process is lost, with the compaction in it.                         *)
LEMMA CrashCounted == ASSUME CInv, CompactedCrash PROVE CInv'
<1>1. /\ lock' = Free /\ compaction' = Idle /\ UNCHANGED spent
      /\ outcome' = [t \in Turns |-> NoOutcome] /\ cancelled' = {} /\ slot' = NoTurn
      /\ queued' = FALSE /\ UNCHANGED minted
      /\ turn' = [t \in Turns |-> IF turn[t] = "unused" THEN "unused" ELSE "gone"]
  BY DEF CompactedCrash, Crash
<1>2. lock' \in Holders /\ compaction' \in Compactions
  BY <1>1, NoGoalIsAGoal DEF Holders, Free, Idle, Compactions
<1>3. turn' \in [Turns -> Stages] /\ outcome' \in [Turns -> Outcomes]
  BY <1>1 DEF Stages, Outcomes, NoOutcome, TerminalKinds
<1>4. CTypeOK' /\ Counted(snapshot')
  BY <1>1, <1>2, <1>3, CutShortCounted DEF CompactedCrash, Crash, CInv, CTypeOK, TypeOK
<1>5. /\ lock'.goal = NoGoal /\ lock'.op = "free" /\ compaction'.goal = NoGoal
      /\ NoGoal.gid = NoGoalId
  BY <1>1 DEF Free, Idle, NoGoal
<1>6. Counted(lock.goal)' /\ Counted(compaction.goal)' /\ Counted(snapshot)'
  BY <1>1, <1>4, <1>5 DEF Counted
<1>7. TurnGoals' /\ HeldFor'
  BY <1>1, <1>5 DEF TurnGoals, HeldFor
<1> QED
  BY <1>4, <1>6, <1>7 DEF CInv

(* The rewrite stores what the load returned, however long ago.            *)
LEMMA CompactCounted ==
    ASSUME CInv,
           (\E mode \in {"full", "light"} : CompactRead(mode)) \/ CompactWrite \/ CompactionFails
    PROVE  CInv'
<1>1. /\ UNCHANGED <<lock, turn, outcome, spent, slot, cancelled, queued, minted>>
      /\ HeldFor' /\ TurnGoals'
  BY DEF CInv, CompactRead, CompactWrite, CompactionFails, vars, HeldFor, TurnGoals
<1>2. /\ Idle \in Compactions /\ Counted(Idle.goal)
  BY NoGoalIsAGoal DEF Idle, Compactions, Counted, NoGoal
<1>3. ASSUME NEW mode \in {"full", "light"}, CompactRead(mode) PROVE CInv'
  <2>1. Decoded \in GoalRecord /\ Counted(Decoded)
    BY LoadCounted DEF Reads, Decoded, IsRecovered
  <2>2. UNCHANGED <<snapshot, open, ended>>
    BY <1>3 DEF CompactRead, vars
  <2>3. compaction' \in Compactions /\ Counted(compaction'.goal)
    BY <1>3, <2>1 DEF CompactRead, CInv, CTypeOK, TypeOK, Compactions
  <2>4. CTypeOK'
    BY <1>1, <2>2, <2>3 DEF CInv, CTypeOK, TypeOK
  <2>5. Counted(snapshot)' /\ Counted(lock.goal)' /\ Counted(compaction.goal)'
    BY <1>1, <2>2, <2>3 DEF CInv, Counted
  <2> QED
    BY <1>1, <2>4, <2>5 DEF CInv
<1>4. CASE CompactWrite
  <2>1. /\ snapshot' = compaction.goal /\ open' = compaction.open /\ ended' = compaction.ended
        /\ compaction' = Idle
    BY <1>4 DEF CompactWrite
  <2>2. CTypeOK'
    BY <1>1, <1>2, <2>1 DEF CInv, CTypeOK, TypeOK, Compactions
  <2>3. Counted(snapshot)' /\ Counted(lock.goal)' /\ Counted(compaction.goal)'
    BY <1>1, <1>2, <2>1 DEF CInv, Counted
  <2> QED
    BY <1>1, <2>2, <2>3 DEF CInv
<1>5. CASE CompactionFails
  <2>1. UNCHANGED <<snapshot, open, ended>> /\ compaction' = Idle
    BY <1>5 DEF CompactionFails, vars
  <2>2. CTypeOK'
    BY <1>1, <1>2, <2>1 DEF CInv, CTypeOK, TypeOK
  <2>3. Counted(snapshot)' /\ Counted(lock.goal)' /\ Counted(compaction.goal)'
    BY <1>1, <1>2, <2>1 DEF CInv, Counted
  <2> QED
    BY <1>1, <2>2, <2>3 DEF CInv
<1> QED
  BY <1>3, <1>4, <1>5

LEMMA CStep == CInv /\ [CNext]_cvars => CInv'
<1> SUFFICES ASSUME CInv, [CNext]_cvars PROVE CInv'
  OBVIOUS
<1>1. CASE UNCHANGED cvars
  BY <1>1 DEF cvars, CInv, CTypeOK, TypeOK, Counted, TurnGoals, HeldFor
<1>2. CASE Client /\ UNCHANGED compaction
  BY <1>2, TrafficCounted, ReadCounted, SetCounted DEF Client
<1>3. ASSUME NEW t \in Turns, Supervisor(t), UNCHANGED compaction PROVE CInv'
  BY <1>3, ReserveCounted, StartCounted, StageCounted, TrafficCounted, ReadCounted,
     FinishCounted DEF Supervisor
<1> QED
  BY <1>1, <1>2, <1>3, CrashCounted, CompactCounted DEF CNext

----------------------------------------------------------------------------
(* The theorems                                                            *)

(* The invariant of a goal whose transcript is compacted under it.         *)
THEOREM CompactionInvariant == CSpec => []CInv
<1>1. CInv /\ [CNext]_cvars => CInv'
  BY CStep
<1> QED
  BY <1>1, InitCInv, PTL DEF CSpec

(* Every variable keeps its type, what the compaction holds included       *)
(* (session_compaction.rs).                                                *)
THEOREM CompactionTypes == CSpec => []CTypeOK
<1>1. CInv => CTypeOK
  BY DEF CInv
<1> QED
  BY <1>1, CompactionInvariant, PTL

(* The goal never counts more tokens than its turns have checkpointed,     *)
(* whenever a rewrite puts an older transcript back                        *)
(* (persist_full_session, finish_goal_turn).                               *)
THEOREM CompactionInventsNoUsage == CSpec => []UsageNeverInflated
<1>1. CInv => UsageNeverInflated
  BY DEF CInv, Counted, UsageNeverInflated
<1> QED
  BY <1>1, CompactionInvariant, PTL

============================================================================
