--------------------------- MODULE TurnLoopProofs ---------------------------
(***************************************************************************)
(* What holds of the turns of a session however many there are, whatever   *)
(* they ask for and however often they are cancelled.                      *)
(***************************************************************************)
EXTENDS TurnLoop, FiniteSetTheorems, NaturalsInduction, TLAPS

\* The inductive invariant: what OneLiveTurn needs besides itself are the types.
TurnInv == TurnLoopTypeOK /\ OneLiveTurn

\* Nobody is registered and no turn has begun.
LEMMA TurnInit == Init => TurnInv
  BY TurnLoopAssumption DEF Init, TurnInv, TurnLoopTypeOK, OneLiveTurn, Live, Steps

\* A driver that goes on, or leaves, with the registry and the flags as they were.
LEMMA GoKeeps ==
    ASSUME TurnInv, NEW t \in Turns, pc[t] \notin {"idle", "gone", "undo"},
           NEW step, Go(t, step), UNCHANGED <<active, flagged>>
    PROVE  OneLiveTurn'
  BY DEF TurnInv, TurnLoopTypeOK, OneLiveTurn, Live, Go

\* The steps of a driver that leave the registry alone.
LEMMA DriverKeeps ==
    ASSUME TurnInv, NEW t \in Turns,
           \/ SetUp(t) \/ HooksDone(t) \/ HooksBlock(t) \/ RemovePrompt(t)
           \/ TopCancelled(t) \/ Top(t) \/ WriteCommand(t)
           \/ WriteCommandFails(t) \/ Check(t) \/ Announce(t)
           \/ CompactWrites(t) \/ CompactFails(t) \/ StreamCancelled(t)
           \/ StreamFails(t) \/ StreamAnswers(t) \/ IdleCheck(t)
           \/ StreamAsks(t) \/ RoundContinues(t) \/ RoundCancelled(t)
           \/ RoundFails(t) \/ WriteNotice(t) \/ BeginPermissions(t)
    PROVE  TurnInv'
<1> USE TurnLoopAssumption DEF shared, driver, history
<1>1. CASE SetUp(t)
  <2>1. TurnLoopTypeOK'
    <3>1. pc' \in [Turns -> Steps]
      BY <1>1 DEF TurnInv, TurnLoopTypeOK, SetUp, Write, Go, Steps
    <3> QED
      BY <1>1, <3>1 DEF TurnInv, TurnLoopTypeOK, SetUp, Write
  <2>2. OneLiveTurn'
    BY <1>1, GoKeeps DEF SetUp, Write
  <2> QED
    BY <2>1, <2>2 DEF TurnInv
<1>2. CASE HooksDone(t)
  <2>1. TurnLoopTypeOK'
    <3>1. pc' \in [Turns -> Steps]
      BY <1>2 DEF TurnInv, TurnLoopTypeOK, HooksDone, Go, Steps
    <3> QED
      BY <1>2, <3>1 DEF TurnInv, TurnLoopTypeOK, HooksDone
  <2>2. OneLiveTurn'
    BY <1>2, GoKeeps DEF HooksDone
  <2> QED
    BY <2>1, <2>2 DEF TurnInv
<1>3. CASE HooksBlock(t)
  <2>1. TurnLoopTypeOK'
    <3>1. pc' \in [Turns -> Steps]
      BY <1>3 DEF TurnInv, TurnLoopTypeOK, HooksBlock, Read, Go, Steps
    <3> QED
      BY <1>3, <3>1 DEF TurnInv, TurnLoopTypeOK, HooksBlock, Read
  <2>2. OneLiveTurn'
    BY <1>3, GoKeeps DEF HooksBlock, Read
  <2> QED
    BY <2>1, <2>2 DEF TurnInv
<1>4. CASE RemovePrompt(t)
  <2>1. TurnLoopTypeOK'
    <3>1. pc' \in [Turns -> Steps]
      BY <1>4 DEF TurnInv, TurnLoopTypeOK, RemovePrompt, Rewrite, Go, Steps
    <3> QED
      BY <1>4, <3>1 DEF TurnInv, TurnLoopTypeOK, RemovePrompt, Rewrite
  <2>2. OneLiveTurn'
    BY <1>4, GoKeeps DEF RemovePrompt, Rewrite
  <2> QED
    BY <2>1, <2>2 DEF TurnInv
<1>5. CASE TopCancelled(t)
  <2>1. TurnLoopTypeOK'
    <3>1. pc' \in [Turns -> Steps]
      BY <1>5 DEF TurnInv, TurnLoopTypeOK, TopCancelled, Cancelled, Go, Steps
    <3> QED
      BY <1>5, <3>1 DEF TurnInv, TurnLoopTypeOK, TopCancelled, Cancelled
  <2>2. OneLiveTurn'
    BY <1>5, GoKeeps DEF TopCancelled, Cancelled
  <2> QED
    BY <2>1, <2>2 DEF TurnInv
<1>6. CASE Top(t)
  <2>1. TurnLoopTypeOK'
    <3>1. hand' \in [Turns -> Seq(Commands)] /\ queue' \in Seq(Commands)
      <4>1. CASE requests[t] > 0
        BY <1>6, <4>1 DEF TurnInv, TurnLoopTypeOK, Top, Drain
      <4>2. CASE ~(requests[t] > 0)
        BY <1>6, <4>2 DEF TurnInv, TurnLoopTypeOK, Top
      <4> QED
        BY <4>1, <4>2
    <3>2. pc' \in [Turns -> Steps]
      BY <1>6 DEF TurnInv, TurnLoopTypeOK, Top, Go, Steps
    <3> QED
      BY <1>6, <3>1, <3>2 DEF TurnInv, TurnLoopTypeOK, Top
  <2>2. OneLiveTurn'
    BY <1>6, GoKeeps DEF Top, Drain
  <2> QED
    BY <2>1, <2>2 DEF TurnInv
<1>7. CASE WriteCommand(t)
  <2>1. TurnLoopTypeOK'
    <3>1. hand[t] \in Seq(Commands) /\ Tail(hand[t]) \in Seq(Commands)
      BY <1>7 DEF TurnInv, TurnLoopTypeOK, WriteCommand
    <3>2. hand' \in [Turns -> Seq(Commands)]
      BY <1>7, <3>1 DEF TurnInv, TurnLoopTypeOK, WriteCommand
    <3>3. pc' \in [Turns -> Steps]
      BY <1>7 DEF TurnInv, TurnLoopTypeOK, WriteCommand, Go, Steps
    <3> QED
      BY <1>7, <3>2, <3>3 DEF TurnInv, TurnLoopTypeOK, WriteCommand
  <2>2. OneLiveTurn'
    BY <1>7, GoKeeps DEF WriteCommand, Write
  <2> QED
    BY <2>1, <2>2 DEF TurnInv
<1>8. CASE WriteCommandFails(t)
  <2>1. TurnLoopTypeOK'
    <3>1. pc' \in [Turns -> Steps]
      BY <1>8 DEF TurnInv, TurnLoopTypeOK, WriteCommandFails, ToSet, Go, Steps
    <3>2. /\ lost' = lost \cup ToSet(hand[t]) /\ hand' = [hand EXCEPT ![t] = <<>>]
          /\ UNCHANGED <<shared, requests, compacted, todo, steer, granted, rivals>>
      BY <1>8 DEF WriteCommandFails
    <3>3. lost' \subseteq Commands /\ hand' \in [Turns -> Seq(Commands)]
      BY <3>2 DEF TurnInv, TurnLoopTypeOK, ToSet
    <3> QED
      BY <3>1, <3>2, <3>3 DEF TurnInv, TurnLoopTypeOK
  <2>2. OneLiveTurn'
    BY <1>8, GoKeeps DEF WriteCommandFails, ToSet
  <2> QED
    BY <2>1, <2>2 DEF TurnInv
<1>9. CASE Check(t)
  <2>1. TurnLoopTypeOK'
    <3>1. pc' \in [Turns -> Steps]
      BY <1>9 DEF TurnInv, TurnLoopTypeOK, Check, CompactReads, Read, Go, Steps
    <3> QED
      BY <1>9, <3>1 DEF TurnInv, TurnLoopTypeOK, Check, CompactReads, Read
  <2>2. OneLiveTurn'
    BY <1>9, GoKeeps DEF Check, CompactReads, Read
  <2> QED
    BY <2>1, <2>2 DEF TurnInv
<1>10. CASE Announce(t)
  <2>1. TurnLoopTypeOK'
    <3>1. pc' \in [Turns -> Steps]
      BY <1>10 DEF TurnInv, TurnLoopTypeOK, Announce, CompactReads, Read, Go,
         Steps
    <3>2. /\ requests' = [requests EXCEPT ![t] = @ + 1]
          /\ UNCHANGED <<shared, compacted, hand, todo, history>>
      BY <1>10 DEF Announce
    <3> QED
      BY <3>1, <3>2 DEF TurnInv, TurnLoopTypeOK
  <2>2. OneLiveTurn'
    BY <1>10, GoKeeps DEF Announce, CompactReads, Read
  <2> QED
    BY <2>1, <2>2 DEF TurnInv
<1>11. CASE CompactWrites(t)
  <2>1. TurnLoopTypeOK'
    <3>1. pc' \in [Turns -> Steps]
      BY <1>11 DEF TurnInv, TurnLoopTypeOK, CompactWrites, Rewrite, Go, Steps
    <3> QED
      BY <1>11, <3>1 DEF TurnInv, TurnLoopTypeOK, CompactWrites, Rewrite
  <2>2. OneLiveTurn'
    BY <1>11, GoKeeps DEF CompactWrites, Rewrite
  <2> QED
    BY <2>1, <2>2 DEF TurnInv
<1>12. CASE CompactFails(t)
  <2>1. TurnLoopTypeOK'
    <3>1. pc' \in [Turns -> Steps]
      BY <1>12 DEF TurnInv, TurnLoopTypeOK, CompactFails, Go, Steps
    <3> QED
      BY <1>12, <3>1 DEF TurnInv, TurnLoopTypeOK, CompactFails
  <2>2. OneLiveTurn'
    BY <1>12, GoKeeps DEF CompactFails
  <2> QED
    BY <2>1, <2>2 DEF TurnInv
<1>13. CASE StreamCancelled(t)
  <2>1. TurnLoopTypeOK'
    <3>1. pc' \in [Turns -> Steps]
      BY <1>13 DEF TurnInv, TurnLoopTypeOK, StreamCancelled, Cancelled, Go,
         Steps
    <3> QED
      BY <1>13, <3>1 DEF TurnInv, TurnLoopTypeOK, StreamCancelled, Cancelled
  <2>2. OneLiveTurn'
    BY <1>13, GoKeeps DEF StreamCancelled, Cancelled
  <2> QED
    BY <2>1, <2>2 DEF TurnInv
<1>14. CASE StreamFails(t)
  <2>1. TurnLoopTypeOK'
    <3>1. pc' \in [Turns -> Steps]
      BY <1>14 DEF TurnInv, TurnLoopTypeOK, StreamFails, CompactReads, Read,
         Go, Steps
    <3> QED
      BY <1>14, <3>1 DEF TurnInv, TurnLoopTypeOK, StreamFails, CompactReads,
         Read
  <2>2. OneLiveTurn'
    BY <1>14, GoKeeps DEF StreamFails, CompactReads, Read
  <2> QED
    BY <2>1, <2>2 DEF TurnInv
<1>15. CASE StreamAnswers(t)
  <2>1. TurnLoopTypeOK'
    <3>1. pc' \in [Turns -> Steps]
      BY <1>15 DEF TurnInv, TurnLoopTypeOK, StreamAnswers, Go, Steps
    <3> QED
      BY <1>15, <3>1 DEF TurnInv, TurnLoopTypeOK, StreamAnswers
  <2>2. OneLiveTurn'
    BY <1>15, GoKeeps DEF StreamAnswers
  <2> QED
    BY <2>1, <2>2 DEF TurnInv
<1>16. CASE IdleCheck(t)
  <2>1. TurnLoopTypeOK'
    <3>1. pc' \in [Turns -> Steps]
      BY <1>16 DEF TurnInv, TurnLoopTypeOK, IdleCheck, Go, Steps
    <3> QED
      BY <1>16, <3>1 DEF TurnInv, TurnLoopTypeOK, IdleCheck
  <2>2. OneLiveTurn'
    BY <1>16, GoKeeps DEF IdleCheck
  <2> QED
    BY <2>1, <2>2 DEF TurnInv
<1>17. CASE StreamAsks(t)
  <2>1. TurnLoopTypeOK'
    <3>1. PICK k \in 1 .. MaxUses : todo' = [todo EXCEPT ![t] = Asks(t, k)]
      BY <1>17 DEF StreamAsks
    <3>2. Asks(t, k) \in Seq(Uses)
      BY DEF TurnInv, TurnLoopTypeOK, Asks, Uses
    <3>3. todo' \in [Turns -> Seq(Uses)]
      BY <3>1, <3>2 DEF TurnInv, TurnLoopTypeOK
    <3> QED
      BY <1>17, <3>3 DEF TurnInv, TurnLoopTypeOK, StreamAsks, Go, Steps
  <2>2. OneLiveTurn'
    BY <1>17, GoKeeps DEF StreamAsks, Asks
  <2> QED
    BY <2>1, <2>2 DEF TurnInv
<1>18. CASE RoundContinues(t)
  <2>1. TurnLoopTypeOK'
    <3>1. hand' \in [Turns -> Seq(Commands)] /\ queue' \in Seq(Commands)
      BY <1>18 DEF TurnInv, TurnLoopTypeOK, RoundContinues, Drain
    <3>2. pc' \in [Turns -> Steps]
      BY <1>18 DEF TurnInv, TurnLoopTypeOK, RoundContinues, Go, Steps
    <3> QED
      BY <1>18, <3>1, <3>2 DEF TurnInv, TurnLoopTypeOK, RoundContinues
  <2>2. OneLiveTurn'
    BY <1>18, GoKeeps DEF RoundContinues, Drain
  <2> QED
    BY <2>1, <2>2 DEF TurnInv
<1>19. CASE RoundCancelled(t)
  <2>1. TurnLoopTypeOK'
    <3>1. pc' \in [Turns -> Steps]
      BY <1>19 DEF TurnInv, TurnLoopTypeOK, RoundCancelled, Cancelled, Go,
         Steps
    <3> QED
      BY <1>19, <3>1 DEF TurnInv, TurnLoopTypeOK, RoundCancelled, Cancelled
  <2>2. OneLiveTurn'
    BY <1>19, GoKeeps DEF RoundCancelled, Cancelled
  <2> QED
    BY <2>1, <2>2 DEF TurnInv
<1>20. CASE RoundFails(t)
  <2>1. TurnLoopTypeOK'
    <3>1. pc' \in [Turns -> Steps]
      BY <1>20 DEF TurnInv, TurnLoopTypeOK, RoundFails, Go, Steps
    <3>2. /\ todo' = [todo EXCEPT ![t] = <<>>]
          /\ UNCHANGED <<shared, requests, compacted, hand, history>>
      BY <1>20 DEF RoundFails
    <3> QED
      BY <3>1, <3>2 DEF TurnInv, TurnLoopTypeOK
  <2>2. OneLiveTurn'
    BY <1>20, GoKeeps DEF RoundFails
  <2> QED
    BY <2>1, <2>2 DEF TurnInv
<1>21. CASE WriteNotice(t)
  <2>1. TurnLoopTypeOK'
    <3>1. pc' \in [Turns -> Steps]
      BY <1>21 DEF TurnInv, TurnLoopTypeOK, WriteNotice, Go, Steps
    <3> QED
      BY <1>21, <3>1 DEF TurnInv, TurnLoopTypeOK, WriteNotice
  <2>2. OneLiveTurn'
    BY <1>21, GoKeeps DEF WriteNotice
  <2> QED
    BY <2>1, <2>2 DEF TurnInv
<1>22. CASE BeginPermissions(t)
  <2>1. TurnLoopTypeOK'
    <3>1. pc' \in [Turns -> Steps]
      BY <1>22 DEF TurnInv, TurnLoopTypeOK, BeginPermissions, Go, Steps
    <3>2. reviews' \in 0 .. ReviewLimit
      BY <1>22, TurnLoopAssumption DEF BeginPermissions
    <3>3. UNCHANGED <<active, flagged, queue, sweeps, requests, compacted, hand, todo, history>>
      BY <1>22 DEF BeginPermissions
    <3> QED
      BY <3>1, <3>2, <3>3 DEF TurnInv, TurnLoopTypeOK, history
  <2>2. OneLiveTurn'
    BY <1>22, GoKeeps DEF BeginPermissions
  <2> QED
    BY <2>1, <2>2 DEF TurnInv
<1> QED
  BY <1>1, <1>2, <1>3, <1>4, <1>5, <1>6, <1>7, <1>8, <1>9, <1>10, <1>11,
     <1>12, <1>13, <1>14, <1>15, <1>16, <1>17, <1>18, <1>19, <1>20, <1>21,
     <1>22

\* The steps that change the registry, and the client's.
LEMMA RegistryKeeps ==
    ASSUME TurnInv, NEW t \in Turns,
           \/ Submit(t) \/ SetUpFails(t) \/ EndPermissions(t) \/ LeaveRegistry(t)
           \/ ReviewBegins(t) \/ RoundAnswers(t)
    PROVE  TurnInv'
<1> USE TurnLoopAssumption DEF shared, driver, history
<1>1. CASE Submit(t)
  <2>1. TurnLoopTypeOK'
    <3>1. pc' \in [Turns -> Steps]
      BY <1>1 DEF TurnInv, TurnLoopTypeOK, Submit, Go, Live, Steps
    <3> QED
      BY <1>1, <3>1 DEF TurnInv, TurnLoopTypeOK, Submit, Live
  <2>2. OneLiveTurn'
    BY <1>1 DEF TurnInv, TurnLoopTypeOK, OneLiveTurn, Submit, Go, Live
  <2> QED
    BY <2>1, <2>2 DEF TurnInv
<1>2. CASE SetUpFails(t)
  <2>1. TurnLoopTypeOK'
    <3>1. pc' \in [Turns -> Steps]
      BY <1>2 DEF TurnInv, TurnLoopTypeOK, SetUpFails, Go, ClearIfMatching,
         Steps
    <3> QED
      BY <1>2, <3>1 DEF TurnInv, TurnLoopTypeOK, SetUpFails, ClearIfMatching
  <2>2. OneLiveTurn'
    BY <1>2 DEF TurnInv, TurnLoopTypeOK, OneLiveTurn, SetUpFails, Go,
       ClearIfMatching, Live
  <2> QED
    BY <2>1, <2>2 DEF TurnInv
<1>3. CASE EndPermissions(t)
  <2>1. TurnLoopTypeOK'
    <3>1. pc' \in [Turns -> Steps] /\ flagged' \subseteq Turns
      <4>1. CASE pc[t] = "undo"
        BY <1>3, <4>1 DEF TurnInv, TurnLoopTypeOK, EndPermissions, Go, Leave, Steps
      <4>2. CASE pc[t] # "undo"
        BY <1>3, <4>2 DEF TurnInv, TurnLoopTypeOK, EndPermissions, Go, Steps
      <4> QED
        BY <4>1, <4>2
    <3>2. granted' \in [Turns -> SUBSET Uses]
      <4>1. CASE pc[t] = "undo"
        BY <1>3, <4>1 DEF TurnInv, TurnLoopTypeOK, EndPermissions, Leave
      <4>2. CASE pc[t] # "undo"
        BY <1>3, <4>2 DEF TurnInv, TurnLoopTypeOK, EndPermissions
      <4> QED
        BY <4>1, <4>2
    <3> QED
      BY <1>3, <3>1, <3>2 DEF TurnInv, TurnLoopTypeOK, EndPermissions
  <2>2. OneLiveTurn'
    BY <1>3 DEF TurnInv, TurnLoopTypeOK, OneLiveTurn, EndPermissions, Go,
       Leave, Live
  <2> QED
    BY <2>1, <2>2 DEF TurnInv
<1>4. CASE LeaveRegistry(t)
  <2>1. TurnLoopTypeOK'
    <3>1. pc' \in [Turns -> Steps]
      BY <1>4 DEF TurnInv, TurnLoopTypeOK, LeaveRegistry, Go, Leave,
         ClearIfMatching, Steps
    <3> QED
      BY <1>4, <3>1 DEF TurnInv, TurnLoopTypeOK, LeaveRegistry, Leave,
         ClearIfMatching
  <2>2. OneLiveTurn'
    BY <1>4 DEF TurnInv, TurnLoopTypeOK, OneLiveTurn, LeaveRegistry, Go,
       Leave, ClearIfMatching, Live
  <2> QED
    BY <2>1, <2>2 DEF TurnInv
<1>5. CASE ReviewBegins(t)
  <2>1. TurnLoopTypeOK'
    <3>1. PICK u \in ToSet(todo[t]) : granted' = [granted EXCEPT ![t] = granted[t] \cup {u}]
      BY <1>5 DEF ReviewBegins
    <3>2. u \in Uses
      BY DEF TurnInv, TurnLoopTypeOK, ToSet
    <3>3. granted' \in [Turns -> SUBSET Uses]
      BY <3>1, <3>2 DEF TurnInv, TurnLoopTypeOK
    <3>4. /\ reviews' \in 0 .. ReviewLimit
          /\ UNCHANGED <<active, flagged, queue, sweeps, driver, steer, lost, rivals>>
      BY <1>5 DEF TurnInv, TurnLoopTypeOK, ReviewBegins
    <3> QED
      BY <3>3, <3>4 DEF TurnInv, TurnLoopTypeOK
  <2>2. OneLiveTurn'
    BY <1>5 DEF TurnInv, TurnLoopTypeOK, OneLiveTurn, ReviewBegins, ToSet,
       Live
  <2> QED
    BY <2>1, <2>2 DEF TurnInv
<1>6. CASE RoundAnswers(t)
  <2>1. TurnLoopTypeOK'
    <3>1. todo[t] \in Seq(Uses) /\ Tail(todo[t]) \in Seq(Uses)
      BY <1>6 DEF TurnInv, TurnLoopTypeOK, RoundAnswers
    <3> QED
      BY <1>6, <3>1 DEF TurnInv, TurnLoopTypeOK, RoundAnswers
  <2>2. OneLiveTurn'
    BY <1>6 DEF TurnInv, TurnLoopTypeOK, OneLiveTurn, RoundAnswers, Live
  <2> QED
    BY <2>1, <2>2 DEF TurnInv
<1> QED
  BY <1>1, <1>2, <1>3, <1>4, <1>5, <1>6

\* Steers, cancels and interrupts; an interrupt flags the turn it takes out.
LEMMA ClientKeeps ==
    ASSUME TurnInv,
           \/ \E c \in Commands : SteerLooks(c) \/ SteerQueues(c) \/ SteerFails(c)
           \/ CancelTurn \/ InterruptTurn \/ Discard
    PROVE  TurnInv'
<1> USE TurnLoopAssumption DEF shared, driver, history
<1>1. ASSUME NEW c \in Commands, SteerLooks(c) PROVE TurnInv'
  <2>1. TurnLoopTypeOK'
    BY <1>1 DEF TurnInv, TurnLoopTypeOK, SteerLooks
  <2>2. OneLiveTurn'
    BY <1>1 DEF TurnInv, TurnLoopTypeOK, OneLiveTurn, SteerLooks, Live
  <2> QED
    BY <2>1, <2>2 DEF TurnInv
<1>2. ASSUME NEW c \in Commands, SteerQueues(c) PROVE TurnInv'
  <2>1. TurnLoopTypeOK'
    BY <1>2 DEF TurnInv, TurnLoopTypeOK, SteerQueues
  <2>2. OneLiveTurn'
    BY <1>2 DEF TurnInv, TurnLoopTypeOK, OneLiveTurn, SteerQueues, Live
  <2> QED
    BY <2>1, <2>2 DEF TurnInv
<1>3. ASSUME NEW c \in Commands, SteerFails(c) PROVE TurnInv'
  <2>1. TurnLoopTypeOK'
    BY <1>3 DEF TurnInv, TurnLoopTypeOK, SteerFails
  <2>2. OneLiveTurn'
    BY <1>3 DEF TurnInv, TurnLoopTypeOK, OneLiveTurn, SteerFails, Live
  <2> QED
    BY <2>1, <2>2 DEF TurnInv
<1>4. CASE CancelTurn
  <2>1. TurnLoopTypeOK'
    BY <1>4 DEF TurnInv, TurnLoopTypeOK, CancelTurn
  <2>2. OneLiveTurn'
    BY <1>4 DEF TurnInv, TurnLoopTypeOK, OneLiveTurn, CancelTurn, Live
  <2> QED
    BY <2>1, <2>2 DEF TurnInv
<1>5. CASE InterruptTurn
  <2>1. TurnLoopTypeOK'
    BY <1>5 DEF TurnInv, TurnLoopTypeOK, InterruptTurn
  <2>2. OneLiveTurn'
    BY <1>5 DEF TurnInv, TurnLoopTypeOK, OneLiveTurn, InterruptTurn, Live
  <2> QED
    BY <2>1, <2>2 DEF TurnInv
<1>6. CASE Discard
  <2>1. TurnLoopTypeOK'
    BY <1>6 DEF TurnInv, TurnLoopTypeOK, Discard, ToSet
  <2>2. OneLiveTurn'
    BY <1>6 DEF TurnInv, TurnLoopTypeOK, OneLiveTurn, Discard, Live
  <2> QED
    BY <2>1, <2>2 DEF TurnInv
<1> QED
  BY <1>1, <1>2, <1>3, <1>4, <1>5, <1>6

\* Every step keeps the invariant.
LEMMA TurnNext == TurnInv /\ [Next]_vars => TurnInv'
<1> SUFFICES ASSUME TurnInv, [Next]_vars PROVE TurnInv'
  OBVIOUS
<1>1. CASE UNCHANGED vars
  BY <1>1 DEF vars, shared, driver, history, TurnInv, TurnLoopTypeOK, OneLiveTurn,
     Live
<1>2. CASE Next
  BY <1>2, DriverKeeps, RegistryKeeps, ClientKeeps DEF Next, Drives, Compacts
<1> QED
  BY <1>1, <1>2

\* For any turns: types are kept, and whoever runs unflagged is registered
\* (ActiveTurnRegistry::insert, interrupt and clear_if_matching).
THEOREM TurnInvariant == Spec => []TurnInv
  BY TurnInit, TurnNext, PTL DEF Spec

(* The registry, the queue, the review counter and every driver keep their *)
(* types; the counter stays within MAX_APPROVAL_REVIEWS_PER_TURN           *)
(* (try_begin_approval_review).                                            *)
THEOREM TurnTypes == Spec => []TurnLoopTypeOK
<1>1. TurnInv => TurnLoopTypeOK
  BY DEF TurnInv
<1> QED
  BY <1>1, TurnInvariant, PTL

(* A turn that runs and was not told to stop is the registered one,        *)
(* however turns are cancelled, interrupted and run out beside each other  *)
(* (ActiveTurnRegistry::insert, clear_if_matching).                        *)
THEOREM TurnsAlone == Spec => []OneLiveTurn
<1>1. TurnInv => OneLiveTurn
  BY DEF TurnInv
<1> QED
  BY <1>1, TurnInvariant, PTL

-----------------------------------------------------------------------------
(* The reviews of a turn.                                                  *)

Begun == {t \in Turns : pc[t] # "idle"}

\* The times a turn beside t has cleared the counter: once when it began, once
\* when it ended.
Opened(t) == {u \in rivals[t] : pc[u] # "begin"}
Closed(t) == {u \in rivals[t] : pc[u] \in {"closing", "gone"}}
Cleared(t) == Cardinality(Opened(t)) + Cardinality(Closed(t))

\* Turns that run at the same time know of each other.
RivalInv ==
    /\ IsFiniteSet(Begun)
    /\ \A t \in Turns : rivals[t] \subseteq Begun
    /\ \A t, u \in Turns : t # u /\ Live(t) /\ Live(u) => u \in rivals[t]

\* What the counter does not show of a turn's reviews was cleared by others, at
\* most the limit each time.
GrantInv ==
    \A t \in Turns :
        /\ IsFiniteSet(granted[t])
        /\ pc[t] \in {"idle", "begin", "gone"} => granted[t] = {}
        /\ pc[t] # "closing" =>
              Cardinality(granted[t]) <= reviews + ReviewLimit * Cleared(t)

ReviewInv == TurnInv /\ RivalInv /\ GrantInv /\ ReviewsBounded

\* The two facts about products that the bound of the reviews needs.
LEMMA Widens ==
    ASSUME NEW L \in Nat, NEW a \in Nat, NEW b \in Nat, a <= b
    PROVE  L * a \in Nat /\ L * b \in Nat /\ L * a <= L * b
  OBVIOUS

\* One more clear is worth one more limit.
LEMMA Spends ==
    ASSUME NEW L \in Nat, NEW a \in Nat, NEW b \in Nat, a + 1 <= b
    PROVE  L * a \in Nat /\ L * b \in Nat /\ L * a + L <= L * b
<1>1. L * (a + 1) = L * a + L
  OBVIOUS
<1>2. L * (a + 1) <= L * b /\ L * b \in Nat /\ L * a \in Nat
  BY Widens
<1> QED
  BY <1>1, <1>2

\* The sets that are counted are finite.
LEMMA Countable ==
    ASSUME NEW B, IsFiniteSet(B), NEW R, R \subseteq B, NEW S, S \subseteq R
    PROVE  /\ IsFiniteSet(R) /\ Cardinality(R) \in Nat
           /\ IsFiniteSet(S) /\ Cardinality(S) \in Nat
           /\ Cardinality(S) <= Cardinality(R)
<1>1. IsFiniteSet(R)
  BY FS_Subset
<1>2. IsFiniteSet(S) /\ Cardinality(S) <= Cardinality(R)
  BY <1>1, FS_Subset
<1> QED
  BY <1>1, <1>2, FS_CardinalityType

\* A rival clears the counter when it begins and when it ends, so twice at most.
LEMMA ClearedCount ==
    ASSUME RivalInv, NEW t \in Turns
    PROVE  /\ IsFiniteSet(Opened(t)) /\ Cardinality(Opened(t)) \in Nat
           /\ IsFiniteSet(Closed(t)) /\ Cardinality(Closed(t)) \in Nat
           /\ Cleared(t) \in Nat /\ Cardinality(rivals[t]) \in Nat
           /\ Cleared(t) <= 2 * Cardinality(rivals[t])
<1>1. /\ IsFiniteSet(Begun) /\ rivals[t] \subseteq Begun
      /\ Opened(t) \subseteq rivals[t] /\ Closed(t) \subseteq rivals[t]
  BY DEF RivalInv, Opened, Closed
<1>2. /\ IsFiniteSet(Opened(t)) /\ Cardinality(Opened(t)) \in Nat
      /\ Cardinality(Opened(t)) <= Cardinality(rivals[t]) /\ Cardinality(rivals[t]) \in Nat
  BY <1>1, Countable
<1>3. /\ IsFiniteSet(Closed(t)) /\ Cardinality(Closed(t)) \in Nat
      /\ Cardinality(Closed(t)) <= Cardinality(rivals[t])
  BY <1>1, Countable
<1> QED
  BY <1>2, <1>3 DEF Cleared

\* The limit of a turn follows from what was cleared beside it.
LEMMA WithinLimit ==
    ASSUME RivalInv, NEW k \in 0 .. ReviewLimit, NEW t \in Turns,
           NEW n \in Nat, n <= k + ReviewLimit * Cleared(t)
    PROVE  n <= ReviewLimit * (1 + 2 * Cardinality(rivals[t]))
<1> DEFINE R == Cardinality(rivals[t])
           C == Cleared(t)
<1>1. R \in Nat /\ C \in Nat /\ C <= 2 * R /\ ReviewLimit \in Nat
  BY ClearedCount, TurnLoopAssumption
<1> HIDE DEF R, C
<1>2. ReviewLimit * C \in Nat /\ ReviewLimit * (1 + 2 * R) \in Nat
      /\ ReviewLimit * C + ReviewLimit <= ReviewLimit * (1 + 2 * R)
  BY <1>1, Spends
<1>3. n <= ReviewLimit * (1 + 2 * R)
  <2>1. k \in Nat /\ k <= ReviewLimit /\ n <= k + ReviewLimit * C
    BY <1>1 DEF C
  <2> QED
    BY <1>1, <1>2, <2>1
<1> QED
  BY <1>3 DEF R

\* A turn whose reviews stay keeps its limit: what is cleared beside it is counted.
LEMMA CountKeeps ==
    ASSUME ReviewInv, RivalInv', reviews' \in 0 .. ReviewLimit, NEW t \in Turns,
           Opened(t) \subseteq Opened(t)', Closed(t) \subseteq Closed(t)',
           \/ reviews <= reviews'
           \/ Opened(t) # Opened(t)'
           \/ Closed(t) # Closed(t)',
           pc[t] # "closing", granted'[t] = granted[t]
    PROVE  Cardinality(granted'[t]) <= reviews' + ReviewLimit * Cleared(t)'
<1>1. /\ IsFiniteSet(Begun') /\ rivals'[t] \subseteq Begun'
      /\ Opened(t)' \subseteq rivals'[t] /\ Closed(t)' \subseteq rivals'[t]
  BY DEF RivalInv, Opened, Closed
<1> DEFINE o == Cardinality(Opened(t))
           c == Cardinality(Closed(t))
           p == Cardinality(Opened(t)')
           d == Cardinality(Closed(t)')
           n == Cardinality(granted[t])
<1>2. IsFiniteSet(Opened(t)') /\ IsFiniteSet(Closed(t)')
  BY <1>1, Countable
<1>3. /\ o \in Nat /\ p \in Nat /\ o <= p /\ (o = p => Opened(t) = Opened(t)')
      /\ c \in Nat /\ d \in Nat /\ c <= d /\ (c = d => Closed(t) = Closed(t)')
  BY <1>2, FS_CardinalityType, FS_Subset
<1>4. n \in Nat /\ n <= reviews + ReviewLimit * (o + c)
  BY FS_CardinalityType DEF ReviewInv, GrantInv, Cleared
<1>5. /\ reviews \in Nat /\ reviews <= ReviewLimit /\ ReviewLimit \in Nat
      /\ reviews' \in Nat
  BY TurnLoopAssumption DEF ReviewInv, TurnInv, TurnLoopTypeOK
<1>6. reviews <= reviews' \/ o # p \/ c # d
  BY <1>3
<1> HIDE DEF o, c, p, d, n
<1>7. n <= reviews' + ReviewLimit * (p + d)
  <2>1. CASE reviews <= reviews'
    <3>1. /\ ReviewLimit * (o + c) \in Nat /\ ReviewLimit * (p + d) \in Nat
          /\ ReviewLimit * (o + c) <= ReviewLimit * (p + d)
      BY <1>3, <1>5, Widens
    <3> QED
      BY <1>4, <1>5, <2>1, <3>1
  <2>2. CASE o # p \/ c # d
    <3>1. o + c \in Nat /\ p + d \in Nat /\ (o + c) + 1 <= p + d
      BY <1>3, <2>2
    <3>2. /\ ReviewLimit * (o + c) \in Nat /\ ReviewLimit * (p + d) \in Nat
          /\ ReviewLimit * (o + c) + ReviewLimit <= ReviewLimit * (p + d)
      BY <1>5, <3>1, Spends
    <3> QED
      BY <1>4, <1>5, <3>2
  <2> QED
    BY <1>6, <2>1, <2>2
<1> QED
  BY <1>7 DEF Cleared, p, d, n

\* What is left to show of a turn once its reviews and those beside it are counted.
LEMMA BoundKeeps ==
    ASSUME ReviewInv, RivalInv', NEW t \in Turns,
           rivals[t] \subseteq rivals'[t], granted'[t] = granted[t]
    PROVE  Cardinality(granted'[t]) <= ReviewLimit * (1 + 2 * Cardinality(rivals'[t]))
<1> DEFINE n == Cardinality(granted[t])
           a == Cardinality(rivals[t])
           b == Cardinality(rivals'[t])
<1>1. IsFiniteSet(Begun') /\ rivals'[t] \subseteq Begun'
  BY DEF RivalInv
<1>2. a \in Nat /\ b \in Nat /\ a <= b
  BY <1>1, Countable
<1>3. n \in Nat /\ n <= ReviewLimit * (1 + 2 * a)
  BY FS_CardinalityType DEF ReviewInv, GrantInv, ReviewsBounded
<1> HIDE DEF n, a, b
<1>4. /\ ReviewLimit * (1 + 2 * a) \in Nat /\ ReviewLimit * (1 + 2 * b) \in Nat
      /\ ReviewLimit * (1 + 2 * a) <= ReviewLimit * (1 + 2 * b)
  BY <1>2, TurnLoopAssumption, Widens
<1>5. n <= ReviewLimit * (1 + 2 * b)
  BY <1>3, <1>4
<1> QED
  BY <1>5 DEF n, b

\* Turns go on, none begins or ends.
Quiet ==
    /\ UNCHANGED <<reviews, granted, rivals>>
    /\ \/ pc' = pc
       \/ \E t \in Turns, step \in Steps \ {"idle", "begin", "closing", "gone"} :
             Go(t, step) /\ pc[t] \notin {"idle", "begin", "closing", "gone"}

\* Steps that touch neither the counter nor who is at work.
LEMMA QuietKeeps ==
    ASSUME ReviewInv, Quiet
    PROVE  RivalInv' /\ GrantInv' /\ ReviewsBounded'
<1>1. \A t \in Turns : \A step \in {"idle", "begin", "closing", "gone"} :
         pc'[t] = step <=> pc[t] = step
  BY DEF Quiet, Go, ReviewInv, TurnInv, TurnLoopTypeOK
<1>2. RivalInv'
  <2>1. Begun' = Begun /\ \A t \in Turns : Live(t)' = Live(t)
    BY <1>1 DEF Begun, Live
  <2> QED
    BY <2>1 DEF ReviewInv, RivalInv, Quiet
<1>3. GrantInv'
  <2>1. \A t \in Turns : Opened(t)' = Opened(t) /\ Closed(t)' = Closed(t)
    <3>1. \A t \in Turns : rivals[t] \subseteq Turns /\ rivals'[t] = rivals[t]
      BY DEF Quiet, ReviewInv, TurnInv, TurnLoopTypeOK
    <3> QED
      BY <1>1, <3>1 DEF Opened, Closed
  <2>2. \A t \in Turns : Cleared(t)' = Cleared(t)
    BY <2>1 DEF Cleared
  <2> QED
    BY <1>1, <2>2 DEF ReviewInv, GrantInv, Quiet
<1>4. ReviewsBounded'
  BY DEF ReviewInv, ReviewsBounded, Quiet
<1> QED
  BY <1>2, <1>3, <1>4

\* A turn without reviews is within every limit.
LEMMA NothingGranted ==
    ASSUME RivalInv', reviews' \in 0 .. ReviewLimit, NEW t \in Turns, granted'[t] = {}
    PROVE  /\ IsFiniteSet(granted'[t])
           /\ Cardinality(granted'[t]) <= reviews' + ReviewLimit * Cleared(t)'
           /\ Cardinality(granted'[t]) <= ReviewLimit * (1 + 2 * Cardinality(rivals'[t]))
<1>1. /\ IsFiniteSet(Begun') /\ rivals'[t] \subseteq Begun'
      /\ Opened(t)' \subseteq rivals'[t] /\ Closed(t)' \subseteq rivals'[t]
  BY DEF RivalInv, Opened, Closed
<1>2. /\ Cardinality(Opened(t)') \in Nat /\ Cardinality(Closed(t)') \in Nat
      /\ Cardinality(rivals'[t]) \in Nat
  BY <1>1, Countable
<1>3. Cleared(t)' \in Nat /\ 1 + 2 * Cardinality(rivals'[t]) \in Nat
  BY <1>2 DEF Cleared
<1>4. /\ ReviewLimit * Cleared(t)' \in Nat
      /\ ReviewLimit * (1 + 2 * Cardinality(rivals'[t])) \in Nat
  BY <1>3, TurnLoopAssumption, Widens
<1>5. IsFiniteSet(granted'[t]) /\ Cardinality(granted'[t]) = 0
  BY FS_EmptySet
<1> QED
  BY <1>4, <1>5

\* A turn that is submitted has cleared nothing yet.
LEMMA ReviewSubmit ==
    ASSUME ReviewInv, NEW t \in Turns, Submit(t)
    PROVE  RivalInv' /\ GrantInv' /\ ReviewsBounded'
<1>1. /\ pc \in [Turns -> Steps] /\ rivals \in [Turns -> SUBSET Turns]
      /\ reviews \in 0 .. ReviewLimit
  BY DEF ReviewInv, TurnInv, TurnLoopTypeOK
<1>2. /\ pc[t] = "idle" /\ pc' = [pc EXCEPT ![t] = "begin"]
      /\ UNCHANGED <<granted, reviews>>
      /\ rivals' = [u \in Turns |->
                       IF u = t THEN {v \in Turns : Live(v)}
                       ELSE IF Live(u) THEN rivals[u] \cup {t} ELSE rivals[u]]
  BY DEF Submit, Go
<1>3. RivalInv'
  <2>1. Begun' = Begun \cup {t}
    BY <1>1, <1>2 DEF Begun
  <2>2. IsFiniteSet(Begun')
    BY <2>1, FS_AddElement DEF ReviewInv, RivalInv
  <2>3. \A u \in Turns : rivals'[u] \subseteq Begun'
    BY <1>1, <1>2, <2>1 DEF ReviewInv, RivalInv, Begun, Live
  <2>4. \A u, v \in Turns : u # v /\ Live(u)' /\ Live(v)' => v \in rivals'[u]
    BY <1>1, <1>2 DEF ReviewInv, RivalInv, Live
  <2> QED
    BY <2>2, <2>3, <2>4 DEF RivalInv
<1>4. ASSUME NEW u \in Turns, u # t
      PROVE  /\ rivals[u] \subseteq rivals'[u] /\ Opened(u) = Opened(u)'
             /\ Closed(u) = Closed(u)' /\ pc'[u] = pc[u]
  <2>1. t \notin rivals[u]
    BY <1>2 DEF ReviewInv, RivalInv, Begun
  <2>2. \A v \in Turns : v # t => pc'[v] = pc[v]
    BY <1>1, <1>2
  <2>3. rivals[u] \subseteq Turns /\ pc'[t] = "begin"
    BY <1>1, <1>2
  <2>4. rivals'[u] = rivals[u] \/ rivals'[u] = rivals[u] \cup {t}
    BY <1>2, <1>4
  <2> QED
    BY <1>4, <2>1, <2>2, <2>3, <2>4 DEF Opened, Closed
<1>5. granted'[t] = {} /\ pc'[t] = "begin"
  BY <1>1, <1>2 DEF ReviewInv, GrantInv
<1>6. GrantInv'
  <2> SUFFICES ASSUME NEW u \in Turns
               PROVE  /\ IsFiniteSet(granted'[u])
                      /\ pc'[u] \in {"idle", "begin", "gone"} => granted'[u] = {}
                      /\ pc'[u] # "closing" =>
                            Cardinality(granted'[u]) <= reviews' + ReviewLimit * Cleared(u)'
    BY DEF GrantInv
  <2>1. CASE u = t
    BY <1>1, <1>2, <1>3, <1>5, <2>1, NothingGranted
  <2>2. CASE u # t
    <3>1. Cleared(u)' = Cleared(u)
      BY <1>4, <2>2 DEF Cleared
    <3> QED
      BY <1>2, <1>4, <2>2, <3>1 DEF ReviewInv, GrantInv
  <2> QED
    BY <2>1, <2>2
<1>7. ReviewsBounded'
  <2> SUFFICES ASSUME NEW u \in Turns
               PROVE  Cardinality(granted'[u])
                        <= ReviewLimit * (1 + 2 * Cardinality(rivals'[u]))
    BY DEF ReviewsBounded
  <2>1. CASE u = t
    BY <1>1, <1>2, <1>3, <1>5, <2>1, NothingGranted
  <2>2. CASE u # t
    BY <1>2, <1>3, <1>4, <2>2, BoundKeeps
  <2> QED
    BY <2>1, <2>2
<1> QED
  BY <1>3, <1>6, <1>7

\* The ways a turn goes on that change what the others know of it.
Turning(t, step) ==
    /\ Go(t, step)
    /\ \/ pc[t] = "begin" /\ step = "setup" /\ reviews' = 0
       \/ pc[t] = "ending" /\ step = "closing" /\ reviews' = 0
       \/ pc[t] = "undo" /\ step = "gone" /\ reviews' = 0
       \/ pc[t] = "closing" /\ step = "gone" /\ reviews' = reviews
    /\ \A u \in Turns \ {t} : granted'[u] = granted[u]
    /\ granted'[t] = IF step = "gone" THEN {} ELSE granted[t]
    /\ rivals' = rivals

\* A turn clears the counter when it begins and when it ends, and every turn that
\* runs beside it has it among its rivals.
LEMMA ReviewTurns ==
    ASSUME ReviewInv, NEW t \in Turns, NEW step, Turning(t, step)
    PROVE  RivalInv' /\ GrantInv' /\ ReviewsBounded'
<1>1. /\ pc \in [Turns -> Steps] /\ rivals \in [Turns -> SUBSET Turns]
      /\ reviews \in 0 .. ReviewLimit /\ ReviewLimit \in Nat
  BY TurnLoopAssumption DEF ReviewInv, TurnInv, TurnLoopTypeOK
<1>2. /\ pc'[t] = step /\ \A u \in Turns \ {t} : pc'[u] = pc[u]
      /\ pc[t] \in {"begin", "ending", "undo", "closing"}
      /\ step \in {"setup", "closing", "gone"}
  BY <1>1 DEF Turning, Go
<1>3. reviews' \in 0 .. ReviewLimit
  BY <1>1 DEF Turning
<1>4. RivalInv'
  <2>1. Begun' = Begun
    BY <1>2 DEF Begun
  <2>2. \A u \in Turns : Live(u)' => Live(u)
    BY <1>2 DEF Live
  <2>3. rivals' = rivals
    BY DEF Turning
  <2> QED
    BY <2>1, <2>2, <2>3 DEF ReviewInv, RivalInv
<1>5. ASSUME NEW u \in Turns \ {t}
      PROVE  /\ pc'[u] = pc[u] /\ granted'[u] = granted[u] /\ rivals'[u] = rivals[u]
             /\ Opened(u) \subseteq Opened(u)' /\ Closed(u) \subseteq Closed(u)'
             /\ Live(u) => \/ reviews <= reviews'
                           \/ Opened(u) # Opened(u)'
                           \/ Closed(u) # Closed(u)'
  <2>1. /\ pc'[u] = pc[u] /\ granted'[u] = granted[u] /\ rivals'[u] = rivals[u]
        /\ rivals[u] \subseteq Turns
    BY <1>1, <1>2 DEF Turning
  <2>2. Opened(u) \subseteq Opened(u)'
    BY <1>2, <2>1 DEF Opened
  <2>3. Closed(u) \subseteq Closed(u)'
    BY <1>2, <2>1 DEF Closed, Turning
  <2>4. ASSUME Live(u)
        PROVE  \/ reviews <= reviews' \/ Opened(u) # Opened(u)' \/ Closed(u) # Closed(u)'
    <3>1. t \in rivals[u] /\ t \in rivals'[u]
      BY <1>2, <1>5, <2>1, <2>4 DEF ReviewInv, RivalInv, Live
    <3>2. CASE pc[t] = "begin"
      BY <1>2, <3>1, <3>2 DEF Opened, Turning
    <3>3. CASE pc[t] \in {"ending", "undo"}
      BY <1>2, <3>1, <3>3 DEF Closed, Turning
    <3>4. CASE pc[t] = "closing"
      BY <1>1, <3>4 DEF Turning
    <3> QED
      BY <1>2, <3>2, <3>3, <3>4
  <2> QED
    BY <2>1, <2>2, <2>3, <2>4
<1>6. step # "closing" => granted'[t] = {}
  BY <1>2 DEF Turning, ReviewInv, GrantInv
<1>7. GrantInv'
  <2> SUFFICES ASSUME NEW u \in Turns
               PROVE  /\ IsFiniteSet(granted'[u])
                      /\ pc'[u] \in {"idle", "begin", "gone"} => granted'[u] = {}
                      /\ pc'[u] # "closing" =>
                            Cardinality(granted'[u]) <= reviews' + ReviewLimit * Cleared(u)'
    BY DEF GrantInv
  <2>1. CASE granted'[u] = {}
    BY <1>3, <1>4, <2>1, NothingGranted
  <2>2. CASE u = t /\ step = "closing"
    BY <1>2, <2>2 DEF ReviewInv, GrantInv, Turning
  <2>3. CASE u # t /\ granted'[u] # {}
    <3>1. Live(u) /\ granted'[u] = granted[u] /\ pc'[u] = pc[u]
      BY <1>5, <2>3 DEF ReviewInv, GrantInv, Live
    <3>2. CASE pc[u] # "closing"
      BY <1>3, <1>4, <1>5, <2>3, <3>1, <3>2, CountKeeps DEF ReviewInv, GrantInv
    <3>3. CASE pc[u] = "closing"
      BY <3>1, <3>3 DEF ReviewInv, GrantInv
    <3> QED
      BY <3>2, <3>3
  <2> QED
    BY <1>6, <2>1, <2>2, <2>3
<1>8. ReviewsBounded'
  <2> SUFFICES ASSUME NEW u \in Turns
               PROVE  Cardinality(granted'[u])
                        <= ReviewLimit * (1 + 2 * Cardinality(rivals'[u]))
    BY DEF ReviewsBounded
  <2>1. CASE granted'[u] = {}
    BY <1>3, <1>4, <2>1, NothingGranted
  <2>2. CASE u # t \/ step = "closing"
    <3>1. granted'[u] = granted[u] /\ rivals[u] \subseteq rivals'[u]
      BY <2>2 DEF Turning
    <3> QED
      BY <1>4, <3>1, BoundKeeps
  <2> QED
    BY <1>6, <2>1, <2>2
<1> QED
  BY <1>4, <1>7, <1>8

\* One review more is counted.
LEMMA ReviewTaken ==
    ASSUME ReviewInv, NEW t \in Turns, ReviewBegins(t)
    PROVE  RivalInv' /\ GrantInv' /\ ReviewsBounded'
<1> USE DEF shared, driver
<1>1. /\ granted \in [Turns -> SUBSET Uses] /\ rivals \in [Turns -> SUBSET Turns]
      /\ reviews \in 0 .. ReviewLimit /\ ReviewLimit \in Nat
  BY TurnLoopAssumption DEF ReviewInv, TurnInv, TurnLoopTypeOK
<1>2. /\ pc' = pc /\ rivals' = rivals /\ pc[t] = "round"
      /\ reviews' = reviews + 1 /\ reviews < ReviewLimit
  BY DEF ReviewBegins
<1>3. PICK u : granted' = [granted EXCEPT ![t] = granted[t] \cup {u}]
  BY DEF ReviewBegins
<1>4. reviews' \in 0 .. ReviewLimit
  BY <1>1, <1>2
<1>5. RivalInv'
  BY <1>2 DEF ReviewInv, RivalInv, Begun, Live
<1>6. \A v \in Turns : Cleared(v)' = Cleared(v)
  BY <1>2 DEF Cleared, Opened, Closed
<1>7. /\ IsFiniteSet(granted[t] \cup {u}) /\ granted'[t] = granted[t] \cup {u}
      /\ Cardinality(granted[t]) \in Nat /\ Cardinality(granted'[t]) \in Nat
      /\ Cardinality(granted'[t]) <= Cardinality(granted[t]) + 1
  <2>1. IsFiniteSet(granted[t])
    BY DEF ReviewInv, GrantInv
  <2>2. /\ IsFiniteSet(granted[t] \cup {u}) /\ Cardinality(granted[t]) \in Nat
        /\ Cardinality(granted[t] \cup {u}) \in {Cardinality(granted[t]),
                                                Cardinality(granted[t]) + 1}
    BY <2>1, FS_AddElement, FS_CardinalityType
  <2> QED
    BY <1>1, <1>3, <2>2
<1>8. GrantInv'
  <2> SUFFICES ASSUME NEW v \in Turns
               PROVE  /\ IsFiniteSet(granted'[v])
                      /\ pc'[v] \in {"idle", "begin", "gone"} => granted'[v] = {}
                      /\ pc'[v] # "closing" =>
                            Cardinality(granted'[v]) <= reviews' + ReviewLimit * Cleared(v)'
    BY DEF GrantInv
  <2> DEFINE most == ReviewLimit * Cleared(v)
  <2>1. most \in Nat /\ ReviewLimit * Cleared(v)' = most
    BY <1>1, <1>6, ClearedCount, Widens DEF ReviewInv
  <2>2. /\ IsFiniteSet(granted[v]) /\ Cardinality(granted[v]) \in Nat
        /\ pc[v] # "closing" => Cardinality(granted[v]) <= reviews + most
        /\ pc[v] \in {"idle", "begin", "gone"} => granted[v] = {}
    BY FS_CardinalityType DEF ReviewInv, GrantInv
  <2> HIDE DEF most
  <2>3. CASE v = t
    <3>1. pc'[v] = "round" /\ IsFiniteSet(granted'[v])
      BY <1>2, <1>7, <2>3
    <3> DEFINE a == Cardinality(granted[v])
               b == Cardinality(granted'[v])
    <3>2. a \in Nat /\ b \in Nat /\ b <= a + 1 /\ a <= reviews + most
      BY <1>2, <1>7, <2>2, <2>3
    <3> HIDE DEF a, b
    <3>3. b <= reviews' + most
      BY <1>1, <1>2, <2>1, <3>2
    <3> QED
      BY <2>1, <3>1, <3>3 DEF b
  <2>4. CASE v # t
    <3>1. granted'[v] = granted[v]
      BY <1>1, <1>3, <2>4
    <3> QED
      BY <1>1, <1>2, <2>1, <2>2, <3>1
  <2> QED
    BY <2>3, <2>4
<1>9. ReviewsBounded'
  <2> SUFFICES ASSUME NEW v \in Turns
               PROVE  Cardinality(granted'[v])
                        <= ReviewLimit * (1 + 2 * Cardinality(rivals'[v]))
    BY DEF ReviewsBounded
  <2>1. CASE v = t
    <3>1. Cardinality(granted'[t]) <= reviews' + ReviewLimit * Cleared(t)'
      BY <1>2, <1>8 DEF GrantInv
    <3>2. \A w \in Turns, n \in Nat : n <= reviews + 1 + ReviewLimit * Cleared(w)
             => n <= ReviewLimit * (1 + 2 * Cardinality(rivals[w]))
      <4> TAKE w \in Turns, n \in Nat
      <4> HAVE n <= reviews + 1 + ReviewLimit * Cleared(w)
      <4>1. reviews + 1 \in 0 .. ReviewLimit
        BY <1>1, <1>2
      <4> QED
        BY <4>1, WithinLimit DEF ReviewInv
    <3> QED
      BY <1>2, <1>6, <1>7, <2>1, <3>1, <3>2
  <2>2. CASE v # t
    <3>1. granted'[v] = granted[v] /\ rivals[v] \subseteq rivals'[v]
      BY <1>1, <1>2, <1>3, <2>2
    <3> QED
      BY <1>5, <3>1, BoundKeeps
  <2> QED
    BY <2>1, <2>2
<1> QED
  BY <1>5, <1>8, <1>9

\* The steps that go on quietly.
LEMMA DriverQuiet ==
    ASSUME ReviewInv, NEW t \in Turns,
           \/ SetUp(t) \/ SetUpFails(t) \/ HooksDone(t) \/ HooksBlock(t)
           \/ RemovePrompt(t) \/ TopCancelled(t) \/ Top(t) \/ WriteCommand(t)
           \/ WriteCommandFails(t) \/ Check(t) \/ Announce(t)
           \/ CompactWrites(t) \/ CompactFails(t) \/ StreamCancelled(t)
           \/ StreamFails(t) \/ StreamAnswers(t) \/ IdleCheck(t)
           \/ StreamAsks(t) \/ RoundContinues(t) \/ RoundCancelled(t)
           \/ RoundFails(t) \/ WriteNotice(t) \/ RoundAnswers(t)
    PROVE  Quiet
<1> USE DEF shared, history
<1> DEFINE Moves == \E step \in Steps \ {"idle", "begin", "closing", "gone"} :
                       Go(t, step) /\ pc[t] \notin {"idle", "begin", "closing", "gone"}
<1>0. Moves /\ UNCHANGED <<reviews, granted, rivals>> => Quiet
  BY DEF Quiet
<1>1. CASE SetUp(t)
  BY <1>0, <1>1 DEF SetUp, Write, Steps
<1>2. CASE SetUpFails(t)
  BY <1>0, <1>2 DEF SetUpFails, Steps
<1>3. CASE HooksDone(t)
  BY <1>0, <1>3 DEF HooksDone, Steps
<1>4. CASE HooksBlock(t)
  BY <1>0, <1>4 DEF HooksBlock, Read, Steps
<1>5. CASE RemovePrompt(t)
  BY <1>0, <1>5 DEF RemovePrompt, Rewrite, Steps
<1>6. CASE TopCancelled(t)
  BY <1>0, <1>6 DEF TopCancelled, Cancelled, Steps
<1>7. CASE Top(t)
  BY <1>0, <1>7 DEF Top, Steps
<1>8. CASE WriteCommand(t)
  BY <1>0, <1>8 DEF WriteCommand, Write, Steps
<1>9. CASE WriteCommandFails(t)
  BY <1>0, <1>9 DEF WriteCommandFails, Steps
<1>10. CASE Check(t)
  BY <1>0, <1>10 DEF Check, CompactReads, Read, Steps
<1>11. CASE Announce(t)
  BY <1>0, <1>11 DEF Announce, CompactReads, Read, Steps
<1>12. CASE CompactWrites(t)
  BY <1>0, <1>12 DEF CompactWrites, Rewrite, Steps
<1>13. CASE CompactFails(t)
  BY <1>0, <1>13 DEF CompactFails, Steps
<1>14. CASE StreamCancelled(t)
  BY <1>0, <1>14 DEF StreamCancelled, Cancelled, Steps
<1>15. CASE StreamFails(t)
  BY <1>0, <1>15 DEF StreamFails, CompactReads, Read, Steps
<1>16. CASE StreamAnswers(t)
  BY <1>0, <1>16 DEF StreamAnswers, Steps
<1>17. CASE IdleCheck(t)
  BY <1>0, <1>17 DEF IdleCheck, Steps
<1>18. CASE StreamAsks(t)
  BY <1>0, <1>18 DEF StreamAsks, Steps
<1>19. CASE RoundContinues(t)
  BY <1>0, <1>19 DEF RoundContinues, Steps
<1>20. CASE RoundCancelled(t)
  BY <1>0, <1>20 DEF RoundCancelled, Cancelled, Steps
<1>21. CASE RoundFails(t)
  BY <1>0, <1>21 DEF RoundFails, Steps
<1>22. CASE WriteNotice(t)
  BY <1>0, <1>22 DEF WriteNotice, Steps
<1>23. CASE RoundAnswers(t)
  BY <1>23 DEF RoundAnswers, Quiet
<1> QED
  BY <1>1, <1>2, <1>3, <1>4, <1>5, <1>6, <1>7, <1>8, <1>9, <1>10, <1>11, <1>12, <1>13, <1>14, <1>15, <1>16, <1>17, <1>18, <1>19, <1>20, <1>21, <1>22, <1>23

\* Every step keeps the invariant.
LEMMA ReviewNext == ReviewInv /\ [Next]_vars => ReviewInv'
<1> SUFFICES ASSUME ReviewInv, [Next]_vars PROVE ReviewInv'
  OBVIOUS
<1>1. TurnInv'
  BY TurnNext DEF ReviewInv
<1>2. CASE Quiet
  BY <1>1, <1>2, QuietKeeps DEF ReviewInv
<1>3. ASSUME NEW t \in Turns, Submit(t) PROVE ReviewInv'
  BY <1>1, <1>3, ReviewSubmit DEF ReviewInv
<1>4. ASSUME NEW t \in Turns, NEW step, Turning(t, step) PROVE ReviewInv'
  BY <1>1, <1>4, ReviewTurns DEF ReviewInv
<1>5. ASSUME NEW t \in Turns, BeginPermissions(t) PROVE Turning(t, "setup")
  BY <1>5 DEF BeginPermissions, Turning, history
<1>6. ASSUME NEW t \in Turns, EndPermissions(t)
      PROVE  Turning(t, IF pc[t] = "undo" THEN "gone" ELSE "closing")
  <2>1. granted \in [Turns -> SUBSET Uses] /\ rivals \in [Turns -> SUBSET Turns]
    BY DEF ReviewInv, TurnInv, TurnLoopTypeOK
  <2>2. CASE pc[t] = "undo"
    BY <1>6, <2>1, <2>2 DEF EndPermissions, Leave, Turning
  <2>3. CASE pc[t] = "ending"
    BY <1>6, <2>1, <2>3 DEF EndPermissions, Turning
  <2> QED
    BY <1>6, <2>2, <2>3 DEF EndPermissions
<1>7. ASSUME NEW t \in Turns, LeaveRegistry(t) PROVE Turning(t, "gone")
  <2>1. granted \in [Turns -> SUBSET Uses] /\ rivals \in [Turns -> SUBSET Turns]
    BY DEF ReviewInv, TurnInv, TurnLoopTypeOK
  <2> QED
    BY <1>7, <2>1 DEF LeaveRegistry, Leave, Turning
<1>8. ASSUME NEW t \in Turns, ReviewBegins(t) PROVE ReviewInv'
  BY <1>1, <1>8, ReviewTaken DEF ReviewInv
<1>9. CASE \/ \E c \in Commands : SteerLooks(c) \/ SteerQueues(c) \/ SteerFails(c)
           \/ CancelTurn \/ InterruptTurn \/ Discard
           \/ UNCHANGED vars
  <2>1. Quiet
    BY <1>9 DEF SteerLooks, SteerQueues, SteerFails, CancelTurn, InterruptTurn, Discard,
       vars, shared, driver, history, Quiet
  <2> QED
    BY <1>2, <2>1
<1> QED
  BY <1>2, <1>3, <1>4, <1>5, <1>6, <1>7, <1>8, <1>9, DriverQuiet DEF Next, Drives, Compacts

\* No turn knows a rival and no review was granted.
LEMMA ReviewInit == Init => ReviewInv
<1> SUFFICES ASSUME Init PROVE ReviewInv
  OBVIOUS
<1>1. TurnInv
  BY TurnInit
<1>2. Begun = {} /\ \A t \in Turns : pc[t] = "idle" /\ rivals[t] = {} /\ granted[t] = {}
  BY DEF Init, Begun
<1>3. RivalInv
  BY <1>2, FS_EmptySet DEF RivalInv, Live
<1>4. ASSUME NEW t \in Turns
      PROVE  /\ IsFiniteSet(granted[t]) /\ Cardinality(granted[t]) = 0
             /\ reviews + ReviewLimit * Cleared(t) \in Nat
             /\ ReviewLimit * (1 + 2 * Cardinality(rivals[t])) \in Nat
  <2>1. Cleared(t) \in Nat /\ Cardinality(rivals[t]) \in Nat
    BY <1>3, ClearedCount
  <2>2. 1 + 2 * Cardinality(rivals[t]) \in Nat /\ reviews = 0
    BY <2>1 DEF Init
  <2>3. /\ ReviewLimit * Cleared(t) \in Nat
        /\ ReviewLimit * (1 + 2 * Cardinality(rivals[t])) \in Nat
    BY <2>1, <2>2, TurnLoopAssumption, Widens
  <2>4. IsFiniteSet(granted[t]) /\ Cardinality(granted[t]) = 0
    BY <1>2, FS_EmptySet
  <2>5. \A n \in Nat : reviews + n \in Nat
    BY <2>2
  <2> QED
    BY <2>3, <2>4, <2>5
<1>5. GrantInv /\ ReviewsBounded
  BY <1>2, <1>4 DEF GrantInv, ReviewsBounded
<1> QED
  BY <1>1, <1>3, <1>5 DEF ReviewInv

\* For any turns and limit: the reviews of a turn are those the counter shows and
\* those that rivals cleared (begin_permission_turn, end_permission_turn).
THEOREM ReviewInvariant == Spec => []ReviewInv
  BY ReviewInit, ReviewNext, PTL DEF Spec

(* A turn is given at most its limit of automatic reviews, and that much    *)
(* again for each time a turn beside it began or ended, though the counter  *)
(* is the session's and every turn clears it (try_begin_approval_review,    *)
(* begin_permission_turn, end_permission_turn).                             *)
THEOREM ReviewsStayBounded == Spec => []ReviewsBounded
<1>1. ReviewInv => ReviewsBounded
  BY DEF ReviewInv
<1> QED
  BY <1>1, ReviewInvariant, PTL

-----------------------------------------------------------------------------
(* The commands of a session.                                              *)

\* What a transcript consists of.
Lines ==
    [kind : {"assistant", "result", "context", "notice", "summary"}, uses : SUBSET Uses]
    \cup {Prompt(t) : t \in Turns} \cup {Said(c) : c \in Commands}

\* The commands in a transcript, and that none of them is there twice.
Spoken(ms) == {c \in Commands : Said(c) \in ToSet(ms)}
SpokenOnce(ms) ==
    \A p, q \in DOMAIN ms : ms[p] = ms[q] /\ ms[p] \in {Said(c) : c \in Commands} => p = q

\* Nothing is in the sequence twice.
Distinct(s) == \A p, q \in DOMAIN s : s[p] = s[q] => p = q

Accepted == {c \in Commands : steer[c] = "accepted"}

\* Drivers hold commands only in order to write them.
HandsFull == \A t \in Turns : hand[t] # <<>> => pc[t] \in {"flush", "inject"}

\* No place has a command twice.
PlacesDistinct ==
    /\ Distinct(queue)
    /\ log \in Seq(Lines) /\ SpokenOnce(log)
    /\ seen \in [Turns -> Seq(Lines)]
    /\ \A t \in Turns : Distinct(hand[t]) /\ SpokenOnce(seen[t])

\* No two places have the same command.
PlacesApart ==
    /\ ToSet(queue) \cap Spoken(log) = {}
    /\ \A t \in Turns :
          /\ ToSet(hand[t]) \cap ToSet(queue) = {}
          /\ ToSet(hand[t]) \cap Spoken(log) = {}
          /\ \A u \in Turns \ {t} : ToSet(hand[t]) \cap ToSet(hand[u]) = {}

\* A command in a transcript that was read is past the queue and the drivers' hands.
SeenIsPast ==
    \A t \in Turns :
        /\ Spoken(seen[t]) \subseteq Accepted
        /\ Spoken(seen[t]) \cap ToSet(queue) = {}
        /\ \A u \in Turns : Spoken(seen[t]) \cap ToSet(hand[u]) = {}

\* What was accepted is somewhere or lost.
AcceptedAreKept ==
    /\ lost \subseteq Accepted
    /\ \A c \in Commands :
          (c \in Accepted /\ c \notin lost)
             <=> \/ c \in ToSet(queue) \/ c \in Spoken(log)
                 \/ \E t \in Turns : c \in ToSet(hand[t])

CommandInv ==
    /\ TurnInv
    /\ HandsFull
    /\ PlacesDistinct
    /\ PlacesApart
    /\ SeenIsPast
    /\ AcceptedAreKept

-----------------------------------------------------------------------------
(* Sequences, and the commands in them.                                    *)

Words == {Said(c) : c \in Commands}

\* The message of a command is told from every other, and from that of another command.
LEMMA SaidAlone ==
    /\ \A c \in Commands : Said(c) \in Lines /\ Said(c) \in Words
    /\ \A c, d \in Commands : Said(c) = Said(d) => c = d
    /\ \A t \in Turns : Prompt(t) \in Lines /\ Prompt(t) \notin Words
    /\ \A uses \in SUBSET Uses :
          \A kind \in {"assistant", "result", "context", "notice", "summary"} :
             Message(kind, uses) \in Lines /\ Message(kind, uses) \notin Words
<1>1. \A c \in Commands : Said(c) \in Lines /\ Said(c) \in Words
  BY DEF Lines, Words
<1>2. \A c, d \in Commands : Said(c) = Said(d) => c = d
  <2> TAKE c, d \in Commands
  <2>1. Said(c).command = c /\ Said(d).command = d
    BY DEF Said
  <2> QED
    BY <2>1
<1>3. \A w \in Words : w.kind = "command"
  BY DEF Words, Said
<1>4. \A t \in Turns : Prompt(t) \in Lines /\ Prompt(t) \notin Words
  <2> TAKE t \in Turns
  <2>1. Prompt(t).kind = "prompt"
    BY DEF Prompt
  <2> QED
    BY <1>3, <2>1 DEF Lines
<1>5. ASSUME NEW uses \in SUBSET Uses,
             NEW kind \in {"assistant", "result", "context", "notice", "summary"}
      PROVE  Message(kind, uses) \in Lines /\ Message(kind, uses) \notin Words
  <2>1. Message(kind, uses).kind = kind
    BY DEF Message
  <2> QED
    BY <1>3, <2>1 DEF Lines, Message
<1> QED
  BY <1>1, <1>2, <1>4, <1>5

\* A transcript in which every command comes from the same place of another.
LEMMA PartSpoken ==
    ASSUME NEW ms \in Seq(Lines), NEW part \in Seq(Lines), NEW k \in Int,
           \A p \in DOMAIN part : part[p] \in Words =>
              p + k \in DOMAIN ms /\ part[p] = ms[p + k]
    PROVE  /\ Spoken(part) \subseteq Spoken(ms)
           /\ SpokenOnce(ms) => SpokenOnce(part)
<1>1. Spoken(part) \subseteq Spoken(ms)
  BY SaidAlone DEF Spoken, ToSet
<1>2. ASSUME SpokenOnce(ms) PROVE SpokenOnce(part)
  <2> SUFFICES ASSUME NEW p \in DOMAIN part, NEW q \in DOMAIN part, part[p] = part[q],
                      part[p] \in Words
               PROVE  p = q
    BY DEF SpokenOnce, Words
  <2>1. /\ p + k \in DOMAIN ms /\ q + k \in DOMAIN ms
        /\ ms[p + k] = ms[q + k] /\ ms[p + k] \in Words
    OBVIOUS
  <2>2. p + k = q + k
    BY <1>2, <2>1 DEF SpokenOnce, Words
  <2> QED
    BY <2>2
<1> QED
  BY <1>1, <1>2

\* Nothing is said in an empty transcript.
LEMMA EmptySpoken ==
    /\ <<>> \in Seq(Lines) /\ Spoken(<<>>) = {} /\ SpokenOnce(<<>>)
    /\ ToSet(<<>>) = {} /\ Distinct(<<>>)
  BY DEF Spoken, SpokenOnce, ToSet, Distinct

\* A message of another kind says no command.
LEMMA AppendOther ==
    ASSUME NEW ms \in Seq(Lines), NEW m \in Lines, m \notin Words
    PROVE  /\ Append(ms, m) \in Seq(Lines)
           /\ Spoken(Append(ms, m)) = Spoken(ms)
           /\ SpokenOnce(ms) => SpokenOnce(Append(ms, m))
<1>1. /\ Append(ms, m) \in Seq(Lines) /\ DOMAIN Append(ms, m) = 1 .. Len(ms) + 1
      /\ \A p \in 1 .. Len(ms) : Append(ms, m)[p] = ms[p]
      /\ Append(ms, m)[Len(ms) + 1] = m /\ DOMAIN ms = 1 .. Len(ms) /\ Len(ms) \in Nat
  OBVIOUS
<1> DEFINE longer == Append(ms, m)
<1> HIDE DEF longer
<1>2. \A p \in DOMAIN longer : longer[p] \in Words => p \in DOMAIN ms /\ longer[p] = ms[p]
  BY <1>1 DEF longer
<1>3. longer \in Seq(Lines) /\ \A p \in DOMAIN longer : p + 0 = p
  BY <1>1 DEF longer
<1>4. Spoken(longer) \subseteq Spoken(ms) /\ (SpokenOnce(ms) => SpokenOnce(longer))
  BY <1>2, <1>3, PartSpoken
<1>5. Spoken(ms) \subseteq Spoken(longer)
  BY <1>1 DEF Spoken, ToSet, longer
<1> QED
  BY <1>3, <1>4, <1>5 DEF longer

\* A command that was not there is there once.
LEMMA AppendSaid ==
    ASSUME NEW ms \in Seq(Lines), NEW c \in Commands, c \notin Spoken(ms), SpokenOnce(ms)
    PROVE  /\ Append(ms, Said(c)) \in Seq(Lines)
           /\ Spoken(Append(ms, Said(c))) = Spoken(ms) \cup {c}
           /\ SpokenOnce(Append(ms, Said(c)))
<1> DEFINE longer == Append(ms, Said(c))
<1>1. /\ longer \in Seq(Lines) /\ DOMAIN longer = 1 .. Len(ms) + 1
      /\ \A p \in 1 .. Len(ms) : longer[p] = ms[p]
      /\ longer[Len(ms) + 1] = Said(c) /\ DOMAIN ms = 1 .. Len(ms) /\ Len(ms) \in Nat
  BY SaidAlone
<1> HIDE DEF longer
<1>2. ToSet(longer) = ToSet(ms) \cup {Said(c)}
  BY <1>1 DEF ToSet
<1>3. Spoken(longer) = Spoken(ms) \cup {c}
  BY <1>2, SaidAlone DEF Spoken
<1>4. \A p \in DOMAIN ms : ms[p] # Said(c)
  BY DEF Spoken, ToSet
<1>5. SpokenOnce(longer)
  BY <1>1, <1>4 DEF SpokenOnce
<1> QED
  BY <1>1, <1>3, <1>5 DEF longer

\* A command that was not queued is queued once.
LEMMA AppendDistinct ==
    ASSUME NEW s \in Seq(Commands), NEW c \in Commands, c \notin ToSet(s), Distinct(s)
    PROVE  ToSet(Append(s, c)) = ToSet(s) \cup {c} /\ Distinct(Append(s, c))
<1> DEFINE longer == Append(s, c)
<1>1. /\ DOMAIN longer = 1 .. Len(s) + 1 /\ DOMAIN s = 1 .. Len(s) /\ Len(s) \in Nat
      /\ \A p \in 1 .. Len(s) : longer[p] = s[p]
      /\ longer[Len(s) + 1] = c
  OBVIOUS
<1> HIDE DEF longer
<1>2. ToSet(longer) = ToSet(s) \cup {c}
  BY <1>1 DEF ToSet
<1>3. \A p \in DOMAIN s : s[p] # c
  BY DEF ToSet
<1>4. Distinct(longer)
  BY <1>1, <1>3 DEF Distinct
<1> QED
  BY <1>2, <1>4 DEF longer

\* Taking the head of a queue out leaves the others.
LEMMA TailDistinct ==
    ASSUME NEW S, NEW s \in Seq(S), s # <<>>, Distinct(s)
    PROVE  /\ Head(s) \in S /\ Head(s) \in ToSet(s)
           /\ ToSet(Tail(s)) = ToSet(s) \ {Head(s)}
           /\ Distinct(Tail(s))
<1>1. /\ Len(s) \in Nat /\ Len(s) > 0 /\ DOMAIN s = 1 .. Len(s)
      /\ Head(s) = s[1] /\ s[1] \in S
      /\ DOMAIN Tail(s) = 1 .. Len(s) - 1
      /\ \A p \in 1 .. Len(s) - 1 : Tail(s)[p] = s[p + 1]
  OBVIOUS
<1>2. ToSet(Tail(s)) \subseteq ToSet(s) \ {Head(s)}
  BY <1>1 DEF ToSet, Distinct
<1>3. ASSUME NEW c \in ToSet(s) \ {Head(s)} PROVE c \in ToSet(Tail(s))
  <2>1. PICK p \in 1 .. Len(s) : c = s[p] /\ p # 1
    BY <1>1, <1>3 DEF ToSet
  <2>2. p - 1 \in 1 .. Len(s) - 1 /\ Tail(s)[p - 1] = c
    BY <1>1, <2>1
  <2> QED
    BY <1>1, <2>2 DEF ToSet
<1>4. Distinct(Tail(s))
  BY <1>1 DEF Distinct
<1> QED
  BY <1>1, <1>2, <1>3, <1>4 DEF ToSet

\* Max of positions, which are never without a last one.
LEMMA LastPosition ==
    ASSUME NEW n \in Nat, NEW S \in SUBSET (0 .. n), S # {}
    PROVE  Max(S) \in S /\ \A q \in S : q <= Max(S)
<1> DEFINE R == OpToRel(<, Nat)
           T == {n - p : p \in S}
<1> HIDE DEF R
<1>1. T \subseteq Nat /\ T # {}
  <2>1. \A p \in S : n - p \in Nat
    OBVIOUS
  <2> QED
    BY <2>1
<1>2. PICK x \in T : \A y \in T : <<y, x>> \notin R
  BY <1>1, WFMin, NatLessThanWellFounded, Zenon DEF R
<1>3. \A y \in T : ~(y < x)
  BY <1>1, <1>2 DEF OpToRel, R
<1>4. PICK p \in S : x = n - p
  OBVIOUS
<1>5. ASSUME NEW q \in S PROVE p >= q
  <2>1. n - q \in T
    OBVIOUS
  <2>2. ~(n - q < n - p)
    BY <1>3, <1>4, <2>1
  <2>3. p \in Nat /\ q \in Nat
    OBVIOUS
  <2> QED
    BY <2>2, <2>3
<1>6. Max(S) \in S /\ \A q \in S : Max(S) >= q
  BY <1>5 DEF Max
<1> QED
  BY <1>6

\* Where a turn's prompt is said to be: in the transcript, or first if it is empty.
LEMMA PromptPlace ==
    ASSUME NEW S, NEW ms \in Seq(S), NEW t
    PROVE  PromptAt(t, ms) \in 1 .. (Len(ms) + 1)
<1> DEFINE own == {p \in DOMAIN ms : ms[p] = Prompt(t)}
           words == {p \in DOMAIN ms : ms[p].kind \in UserWords}
           places == {1} \cup (IF own # {} THEN own ELSE words)
<1>1. Len(ms) + 1 \in Nat /\ DOMAIN ms = 1 .. Len(ms)
  OBVIOUS
<1>2. own \subseteq DOMAIN ms /\ words \subseteq DOMAIN ms
  OBVIOUS
<1>3. PromptAt(t, ms) = Max(places)
  BY DEF PromptAt
<1> HIDE DEF own, words
<1>4. places \in SUBSET (1 .. (Len(ms) + 1)) /\ places # {}
  BY <1>1, <1>2
<1> HIDE DEF places
<1>5. places \in SUBSET (0 .. (Len(ms) + 1))
  BY <1>1, <1>4
<1>6. Max(places) \in places
  BY <1>1, <1>4, <1>5, LastPosition
<1> QED
  BY <1>3, <1>4, <1>6

\* What becomes of the commands when a transcript is written again.
LEMMA PartsSpoken ==
    ASSUME NEW ms \in Seq(Lines), SpokenOnce(ms),
           NEW n \in 1 .. (Len(ms) + 1)
    PROVE  LET rest == <<Message("summary", {})>> \o SubSeq(ms, n, Len(ms))
           IN  rest \in Seq(Lines) /\ Spoken(rest) \subseteq Spoken(ms) /\ SpokenOnce(rest)
<1> DEFINE m == Message("summary", {})
           rest == <<m>> \o SubSeq(ms, n, Len(ms))
<1>1. m \in Lines /\ m \notin Words
  BY SaidAlone
<1> HIDE DEF m
<1>2. SubSeq(ms, n, Len(ms)) \in Seq(Lines)
  OBVIOUS
<1>3. /\ rest \in Seq(Lines) /\ rest[1] = m
      /\ \A p \in DOMAIN rest : p # 1 => p + (n - 2) \in DOMAIN ms /\ rest[p] = ms[p + (n - 2)]
  BY <1>1, <1>2
<1> HIDE DEF rest
<1> DEFINE k == n - 2
<1>4. /\ k \in Int
      /\ \A p \in DOMAIN rest : rest[p] \in Words => p + k \in DOMAIN ms /\ rest[p] = ms[p + k]
  BY <1>1, <1>3
<1> HIDE DEF k
<1>5. Spoken(rest) \subseteq Spoken(ms) /\ SpokenOnce(rest)
  BY <1>3, <1>4, PartSpoken
<1> QED
  BY <1>3, <1>5 DEF rest, m

\* A transcript without its last message says no more than before.
LEMMA FrontSpoken ==
    ASSUME NEW ms \in Seq(Lines), SpokenOnce(ms), ms # <<>>
    PROVE  /\ Front(ms) \in Seq(Lines) /\ Spoken(Front(ms)) \subseteq Spoken(ms)
           /\ SpokenOnce(Front(ms))
<1> DEFINE front == Front(ms)
<1>1. /\ front \in Seq(Lines)
      /\ \A p \in DOMAIN front : p + 0 \in DOMAIN ms /\ front[p] = ms[p + 0]
  BY DEF Front
<1> HIDE DEF front
<1>2. Spoken(front) \subseteq Spoken(ms) /\ SpokenOnce(front)
  BY <1>1, PartSpoken
<1> QED
  BY <1>1, <1>2 DEF front

-----------------------------------------------------------------------------
(* The steps, by what they do to the places of commands.                   *)

\* A driver reads the transcript, or puts away what it read.
SeenMoves(t) ==
    seen' \in {seen, [seen EXCEPT ![t] = log], [seen EXCEPT ![t] = <<>>]}

\* The commands stay where they are, and what a driver reads is the transcript.
LEMMA CommandsStay ==
    ASSUME CommandInv, TurnInv', HandsFull', UNCHANGED <<queue, hand, steer, lost>>,
           log' \in Seq(Lines), SpokenOnce(log'), Spoken(log') = Spoken(log),
           NEW t \in Turns, SeenMoves(t)
    PROVE  CommandInv'
<1>0. /\ seen' \in [Turns -> Seq(Lines)]
      /\ \A u \in Turns : seen'[u] = seen[u] \/ seen'[u] = log \/ seen'[u] = <<>>
  BY EmptySpoken DEF CommandInv, PlacesDistinct, SeenMoves
<1>1. \A u \in Turns : /\ SpokenOnce(seen'[u])
                       /\ Spoken(seen'[u]) \subseteq Spoken(seen[u]) \cup Spoken(log)
  BY <1>0, EmptySpoken DEF CommandInv, PlacesDistinct
<1>2. PlacesDistinct'
  BY <1>0, <1>1 DEF CommandInv, PlacesDistinct
<1>3. PlacesApart'
  BY DEF CommandInv, PlacesApart
<1>4. AcceptedAreKept'
  BY DEF CommandInv, AcceptedAreKept, Accepted
<1>5. /\ Spoken(log) \subseteq Accepted /\ Spoken(log) \cap ToSet(queue) = {}
      /\ \A u \in Turns : Spoken(log) \cap ToSet(hand[u]) = {}
  BY DEF CommandInv, AcceptedAreKept, PlacesApart, Spoken
<1>6. SeenIsPast'
  BY <1>1, <1>5 DEF CommandInv, SeenIsPast, Accepted
<1> QED
  BY <1>2, <1>3, <1>4, <1>6 DEF CommandInv

\* A driver takes the queue.
LEMMA CommandsDrained ==
    ASSUME CommandInv, TurnInv', HandsFull', NEW t \in Turns, hand[t] = <<>>, Drain(t),
           UNCHANGED <<steer, lost, log, seen>>
    PROVE  CommandInv'
<1>1. /\ hand'[t] = queue /\ queue' = <<>> /\ ToSet(queue') = {} /\ ToSet(hand[t]) = {}
      /\ \A u \in Turns \ {t} : hand'[u] = hand[u]
  BY EmptySpoken DEF CommandInv, TurnInv, TurnLoopTypeOK, Drain
<1>2. PlacesDistinct'
  BY <1>1, EmptySpoken DEF CommandInv, PlacesDistinct
<1>3. PlacesApart'
  BY <1>1 DEF CommandInv, PlacesApart
<1>4. SeenIsPast'
  <2>1. \A u, v \in Turns : Spoken(seen[u]) \cap ToSet(hand'[v]) = {}
    BY <1>1 DEF CommandInv, SeenIsPast
  <2> QED
    BY <1>1, <2>1 DEF CommandInv, SeenIsPast, Accepted
<1>5. AcceptedAreKept'
  BY <1>1 DEF CommandInv, AcceptedAreKept, Accepted
<1> QED
  BY <1>2, <1>3, <1>4, <1>5 DEF CommandInv

\* A driver writes the first of the commands it holds.
LEMMA CommandWritten ==
    ASSUME CommandInv, TurnInv', HandsFull', NEW t \in Turns, hand[t] # <<>>,
           log' = Append(log, Said(Head(hand[t]))),
           hand' = [hand EXCEPT ![t] = Tail(@)],
           UNCHANGED <<queue, steer, lost, seen>>
    PROVE  CommandInv'
<1> DEFINE c == Head(hand[t])
<1>1. /\ hand[t] \in Seq(Commands) /\ Distinct(hand[t]) /\ log \in Seq(Lines)
      /\ SpokenOnce(log)
  BY DEF CommandInv, TurnInv, TurnLoopTypeOK, PlacesDistinct
<1>2. c \in Commands /\ c \in ToSet(hand[t])
  BY <1>1, TailDistinct
<1>3. /\ ToSet(hand'[t]) = ToSet(hand[t]) \ {c} /\ Distinct(hand'[t])
      /\ \A u \in Turns \ {t} : hand'[u] = hand[u]
  <2>1. hand'[t] = Tail(hand[t]) /\ \A u \in Turns \ {t} : hand'[u] = hand[u]
    BY DEF CommandInv, TurnInv, TurnLoopTypeOK
  <2> QED
    BY <1>1, <2>1, TailDistinct
<1>4. c \notin Spoken(log)
  BY <1>2 DEF CommandInv, PlacesApart
<1> HIDE DEF c
<1>5. /\ log' \in Seq(Lines) /\ Spoken(log') = Spoken(log) \cup {c} /\ SpokenOnce(log')
  BY <1>1, <1>2, <1>4, AppendSaid DEF c
<1>6. PlacesDistinct'
  BY <1>3, <1>5 DEF CommandInv, PlacesDistinct
<1>7. PlacesApart'
  <2>1. c \notin ToSet(queue) /\ \A u \in Turns \ {t} : c \notin ToSet(hand[u])
    BY <1>2 DEF CommandInv, PlacesApart
  <2>2. \A u \in Turns : ToSet(hand'[u]) \subseteq ToSet(hand[u]) /\ c \notin ToSet(hand'[u])
    BY <1>3, <2>1
  <2>3. ToSet(queue) \cap Spoken(log') = {}
    BY <1>5, <2>1 DEF CommandInv, PlacesApart
  <2>4. \A u \in Turns : ToSet(hand'[u]) \cap ToSet(queue) = {}
    BY <2>2 DEF CommandInv, PlacesApart
  <2>5. \A u \in Turns : ToSet(hand'[u]) \cap Spoken(log') = {}
    <3>1. \A u \in Turns : ToSet(hand[u]) \cap Spoken(log) = {}
      BY DEF CommandInv, PlacesApart
    <3>2. Spoken(log') = Spoken(log) \cup {c}
      BY <1>5
    <3> QED
      BY <2>2, <3>1, <3>2, Zenon
  <2>6. \A u, v \in Turns : u # v => ToSet(hand'[u]) \cap ToSet(hand'[v]) = {}
    BY <2>2 DEF CommandInv, PlacesApart
  <2> QED
    BY <2>3, <2>4, <2>5, <2>6 DEF PlacesApart
<1>8. SeenIsPast'
  <2>1. \A u, v \in Turns : Spoken(seen[u]) \cap ToSet(hand'[v]) = {}
    BY <1>3 DEF CommandInv, SeenIsPast
  <2> QED
    BY <2>1 DEF CommandInv, SeenIsPast, Accepted
<1>9. AcceptedAreKept'
  BY <1>2, <1>3, <1>5 DEF CommandInv, AcceptedAreKept, Accepted
<1> QED
  BY <1>6, <1>7, <1>8, <1>9 DEF CommandInv

\* What a driver holds is lost.
LEMMA CommandsDropped ==
    ASSUME CommandInv, TurnInv', HandsFull', NEW t \in Turns,
           lost' = lost \cup ToSet(hand[t]), hand' = [hand EXCEPT ![t] = <<>>],
           UNCHANGED <<queue, log, steer, seen>>
    PROVE  CommandInv'
<1>1. /\ hand'[t] = <<>> /\ ToSet(hand'[t]) = {} /\ Distinct(hand'[t])
      /\ \A u \in Turns \ {t} : hand'[u] = hand[u]
  BY EmptySpoken DEF CommandInv, TurnInv, TurnLoopTypeOK
<1>2. PlacesDistinct'
  BY <1>1 DEF CommandInv, PlacesDistinct
<1>3. PlacesApart'
  BY <1>1 DEF CommandInv, PlacesApart
<1>4. SeenIsPast'
  <2>1. \A u, v \in Turns : Spoken(seen[u]) \cap ToSet(hand'[v]) = {}
    BY <1>1 DEF CommandInv, SeenIsPast
  <2> QED
    BY <2>1 DEF CommandInv, SeenIsPast, Accepted
<1>5. AcceptedAreKept'
  <2>1. ToSet(hand[t]) \subseteq Accepted /\ Accepted' = Accepted
    <3>1. ToSet(hand[t]) \subseteq Commands
      BY DEF CommandInv, TurnInv, TurnLoopTypeOK, ToSet
    <3> QED
      BY <3>1 DEF CommandInv, AcceptedAreKept, Accepted
  <2>2. ASSUME NEW c \in Commands
        PROVE  (c \in Accepted' /\ c \notin lost')
                  <=> \/ c \in ToSet(queue') \/ c \in Spoken(log')
                      \/ \E u \in Turns : c \in ToSet(hand'[u])
    <3>1. CASE c \in ToSet(hand[t])
      BY <1>1, <3>1 DEF CommandInv, PlacesApart
    <3>2. CASE c \notin ToSet(hand[t])
      BY <1>1, <2>1, <3>2 DEF CommandInv, AcceptedAreKept
    <3> QED
      BY <3>1, <3>2
  <2>3. lost' \subseteq Accepted'
    BY <2>1 DEF CommandInv, AcceptedAreKept
  <2> QED
    BY <2>2, <2>3 DEF AcceptedAreKept
<1> QED
  BY <1>2, <1>3, <1>4, <1>5 DEF CommandInv

\* The transcript is written again from what was read of it.
LEMMA CommandsRewritten ==
    ASSUME CommandInv, TurnInv', HandsFull', NEW t \in Turns, NEW ms \in Seq(Lines),
           SpokenOnce(ms), Rewrite(t, ms), UNCHANGED <<queue, hand, steer>>,
           Spoken(ms) \subseteq Spoken(seen[t]) \/ Spoken(ms) \subseteq Spoken(log)
    PROVE  CommandInv'
<1>1. /\ Spoken(log) \subseteq Accepted /\ Spoken(log) \cap ToSet(queue) = {}
      /\ \A u \in Turns : Spoken(log) \cap ToSet(hand[u]) = {}
  BY DEF CommandInv, AcceptedAreKept, PlacesApart, Spoken
<1>2. /\ Spoken(ms) \subseteq Accepted /\ Spoken(ms) \cap ToSet(queue) = {}
      /\ \A u \in Turns : Spoken(ms) \cap ToSet(hand[u]) = {}
  BY <1>1 DEF CommandInv, SeenIsPast
<1>3. /\ seen' \in [Turns -> Seq(Lines)]
      /\ \A u \in Turns : seen'[u] = seen[u] \/ seen'[u] = <<>>
  BY EmptySpoken DEF Rewrite, CommandInv, PlacesDistinct
<1>4. PlacesDistinct'
  BY <1>3, EmptySpoken DEF CommandInv, PlacesDistinct, Rewrite
<1>5. PlacesApart'
  BY <1>2 DEF CommandInv, PlacesApart, Rewrite
<1>6. SeenIsPast'
  <2>1. \A u \in Turns : Spoken(seen'[u]) \subseteq Spoken(seen[u])
    BY <1>3, EmptySpoken
  <2> QED
    BY <2>1 DEF CommandInv, SeenIsPast, Accepted
<1>7. AcceptedAreKept'
  <2>1. \A c \in Commands : c \in lost' <=>
           c \notin Spoken(ms) /\ (c \in lost \/ c \in Spoken(log))
    BY DEF Rewrite, Spoken
  <2>2. log' = ms /\ Accepted' = Accepted
    BY DEF Rewrite, Accepted
  <2>3. lost' \subseteq Accepted'
    <3>1. lost' \subseteq Commands
      BY DEF Rewrite
    <3> QED
      BY <1>1, <2>1, <2>2, <3>1 DEF CommandInv, AcceptedAreKept
  <2>4. ASSUME NEW c \in Commands
        PROVE  (c \in Accepted' /\ c \notin lost')
                  <=> \/ c \in ToSet(queue') \/ c \in Spoken(log')
                      \/ \E u \in Turns : c \in ToSet(hand'[u])
    <3>1. CASE c \in Spoken(ms)
      BY <1>2, <2>1, <2>2, <3>1
    <3>2. CASE c \notin Spoken(ms)
      BY <1>1, <2>1, <2>2, <3>2 DEF CommandInv, AcceptedAreKept
    <3> QED
      BY <3>1, <3>2
  <2> QED
    BY <2>3, <2>4 DEF AcceptedAreKept
<1> QED
  BY <1>4, <1>5, <1>6, <1>7 DEF CommandInv

\* A command is accepted, once, and joins the queue.
LEMMA CommandQueued ==
    ASSUME CommandInv, TurnInv', HandsFull', NEW c \in Commands, SteerQueues(c)
    PROVE  CommandInv'
<1> USE DEF driver
<1>1. /\ queue \in Seq(Commands) /\ steer \in [Commands -> {"new", "seen", "accepted"}]
      /\ queue' = Append(queue, c) /\ steer' = [steer EXCEPT ![c] = "accepted"]
      /\ steer[c] = "seen" /\ UNCHANGED <<hand, log, seen, lost>>
  BY DEF CommandInv, TurnInv, TurnLoopTypeOK, SteerQueues
<1>2. c \notin Accepted /\ Accepted' = Accepted \cup {c}
  BY <1>1 DEF Accepted
<1>3. /\ c \notin ToSet(queue) /\ c \notin Spoken(log) /\ c \notin lost
      /\ \A u \in Turns : c \notin ToSet(hand[u]) /\ c \notin Spoken(seen[u])
  <2>1. c \notin lost
    BY <1>1, <1>2 DEF CommandInv, AcceptedAreKept
  <2> QED
    BY <1>2, <2>1 DEF CommandInv, AcceptedAreKept, SeenIsPast
<1>4. ToSet(queue') = ToSet(queue) \cup {c} /\ Distinct(queue')
  BY <1>1, <1>3, AppendDistinct DEF CommandInv, PlacesDistinct
<1>5. PlacesDistinct'
  BY <1>1, <1>4 DEF CommandInv, PlacesDistinct
<1>6. PlacesApart'
  <2>1. ToSet(queue') \cap Spoken(log) = {}
    BY <1>3, <1>4 DEF CommandInv, PlacesApart
  <2>2. \A u \in Turns : ToSet(hand[u]) \cap ToSet(queue') = {}
    BY <1>3, <1>4 DEF CommandInv, PlacesApart
  <2>3. \A u \in Turns : /\ ToSet(hand[u]) \cap Spoken(log) = {}
                         /\ \A v \in Turns \ {u} : ToSet(hand[u]) \cap ToSet(hand[v]) = {}
    BY DEF CommandInv, PlacesApart
  <2>4. Spoken(log') = Spoken(log)
    BY <1>1
  <2> QED
    BY <1>1, <2>1, <2>2, <2>3, <2>4 DEF PlacesApart
<1>7. SeenIsPast'
  <2>1. \A u \in Turns : Spoken(seen[u]) \subseteq Accepted'
    BY <1>2 DEF CommandInv, SeenIsPast
  <2>2. \A u \in Turns : Spoken(seen[u]) \cap ToSet(queue') = {}
    BY <1>3, <1>4 DEF CommandInv, SeenIsPast
  <2>3. \A u, v \in Turns : Spoken(seen[u]) \cap ToSet(hand[v]) = {}
    BY DEF CommandInv, SeenIsPast
  <2>4. \A u \in Turns : Spoken(seen'[u]) = Spoken(seen[u])
    BY <1>1
  <2> QED
    BY <1>1, <2>1, <2>2, <2>3, <2>4 DEF SeenIsPast
<1>8. AcceptedAreKept'
  BY <1>1, <1>2, <1>3, <1>4 DEF CommandInv, AcceptedAreKept
<1> QED
  BY <1>5, <1>6, <1>7, <1>8 DEF CommandInv

\* What is queued is discarded by a cancel.
LEMMA CommandsDiscarded ==
    ASSUME CommandInv, TurnInv', HandsFull', Discard
    PROVE  CommandInv'
<1> USE DEF driver
<1>1. /\ queue' = <<>> /\ ToSet(queue') = {} /\ Distinct(queue')
      /\ lost' = lost \cup ToSet(queue) /\ UNCHANGED <<hand, log, seen, steer>>
  BY EmptySpoken DEF Discard
<1>2. PlacesDistinct'
  BY <1>1 DEF CommandInv, PlacesDistinct
<1>3. PlacesApart'
  BY <1>1 DEF CommandInv, PlacesApart
<1>4. SeenIsPast'
  BY <1>1 DEF CommandInv, SeenIsPast, Accepted
<1>5. AcceptedAreKept'
  <2>1. ToSet(queue) \subseteq Commands
    BY DEF CommandInv, TurnInv, TurnLoopTypeOK, ToSet
  <2> QED
    BY <1>1, <2>1 DEF CommandInv, AcceptedAreKept, Accepted, PlacesApart
<1> QED
  BY <1>2, <1>3, <1>4, <1>5 DEF CommandInv

\* What drivers write besides commands.
LogGrows ==
    \/ UNCHANGED log
    \/ \E m \in Lines \ Words : log' = Append(log, m)
    \/ \E m, n \in Lines \ Words : log' = Append(Append(log, m), n)

\* A driver goes on, with the commands where they are.
Goes(t) ==
    /\ pc[t] \notin {"flush", "inject"}
    /\ pc' = pc \/ \E step \in Steps : Go(t, step)
    /\ LogGrows
    /\ SeenMoves(t)
    /\ UNCHANGED <<queue, hand, steer, lost>>

\* A driver that drains nothing holds what it held.
LEMMA HandsStay ==
    ASSUME CommandInv, NEW t \in Turns, pc[t] \notin {"flush", "inject"},
           pc' = pc \/ \E step \in Steps : Go(t, step), UNCHANGED hand
    PROVE  HandsFull'
  BY DEF CommandInv, TurnInv, TurnLoopTypeOK, HandsFull, Go

\* Its step keeps every command where it is.
LEMMA GoesKeeps ==
    ASSUME CommandInv, TurnInv', NEW t \in Turns, Goes(t)
    PROVE  CommandInv'
<1>1. HandsFull'
  BY HandsStay DEF Goes
<1>2. log' \in Seq(Lines) /\ SpokenOnce(log') /\ Spoken(log') = Spoken(log)
  <2>1. log \in Seq(Lines) /\ SpokenOnce(log)
    BY DEF CommandInv, PlacesDistinct
  <2>2. CASE \E m \in Lines \ Words : log' = Append(log, m)
    BY <2>1, <2>2, AppendOther
  <2>3. CASE \E m, n \in Lines \ Words : log' = Append(Append(log, m), n)
    <3>1. PICK m \in Lines \ Words, n \in Lines \ Words : log' = Append(Append(log, m), n)
      BY <2>3
    <3> DEFINE half == Append(log, m)
    <3>2. half \in Seq(Lines) /\ SpokenOnce(half) /\ Spoken(half) = Spoken(log)
      BY <2>1, AppendOther
    <3>3. log' = Append(half, n)
      BY <3>1
    <3> HIDE DEF half
    <3> QED
      BY <3>2, <3>3, AppendOther
  <2>4. CASE UNCHANGED log
    BY <2>1, <2>4
  <2> QED
    BY <2>2, <2>3, <2>4 DEF Goes, LogGrows
<1> QED
  BY <1>1, <1>2, CommandsStay DEF Goes

\* The steps of a driver that leave the commands where they are.
LEMMA DriverGoes ==
    ASSUME CommandInv, NEW t \in Turns,
           \/ Submit(t) \/ BeginPermissions(t) \/ SetUpFails(t) \/ EndPermissions(t)
           \/ LeaveRegistry(t) \/ HooksDone(t) \/ HooksBlock(t) \/ TopCancelled(t)
           \/ Check(t) \/ Announce(t) \/ CompactFails(t) \/ StreamFails(t)
           \/ IdleCheck(t) \/ RoundCancelled(t) \/ RoundFails(t) \/ ReviewBegins(t)
    PROVE  Goes(t)
<1> USE DEF shared, driver, history
<1>1. CASE Submit(t)
  BY <1>1 DEF Submit, Goes, SeenMoves, LogGrows, Steps
<1>2. CASE BeginPermissions(t)
  BY <1>2 DEF BeginPermissions, Goes, SeenMoves, LogGrows, Steps
<1>3. CASE SetUpFails(t)
  BY <1>3 DEF SetUpFails, Goes, SeenMoves, LogGrows, Steps
<1>4. CASE EndPermissions(t)
  BY <1>4 DEF EndPermissions, Leave, Goes, SeenMoves, LogGrows, Steps
<1>5. CASE LeaveRegistry(t)
  BY <1>5 DEF LeaveRegistry, Leave, Goes, SeenMoves, LogGrows, Steps
<1>6. CASE HooksDone(t)
  BY <1>6 DEF HooksDone, Goes, SeenMoves, LogGrows, Steps
<1>7. CASE HooksBlock(t)
  BY <1>7 DEF HooksBlock, Read, Goes, SeenMoves, LogGrows, Steps
<1>8. CASE TopCancelled(t)
  BY <1>8 DEF TopCancelled, Cancelled, Goes, SeenMoves, LogGrows, Steps
<1>9. CASE Check(t)
  BY <1>9 DEF Check, CompactReads, Read, Goes, SeenMoves, LogGrows, Steps
<1>10. CASE Announce(t)
  BY <1>10 DEF Announce, CompactReads, Read, Goes, SeenMoves, LogGrows, Steps
<1>11. CASE CompactFails(t)
  BY <1>11 DEF CompactFails, Goes, SeenMoves, LogGrows, Steps
<1>12. CASE StreamFails(t)
  BY <1>12 DEF StreamFails, CompactReads, Read, Goes, SeenMoves, LogGrows, Steps
<1>13. CASE IdleCheck(t)
  BY <1>13 DEF IdleCheck, Goes, SeenMoves, LogGrows, Steps
<1>14. CASE RoundCancelled(t)
  BY <1>14 DEF RoundCancelled, Cancelled, Goes, SeenMoves, LogGrows, Steps
<1>15. CASE RoundFails(t)
  BY <1>15 DEF RoundFails, Goes, SeenMoves, LogGrows, Steps
<1>16. CASE ReviewBegins(t)
  BY <1>16 DEF ReviewBegins, Goes, SeenMoves, LogGrows, Steps
<1> QED
  BY <1>1, <1>2, <1>3, <1>4, <1>5, <1>6, <1>7, <1>8, <1>9, <1>10, <1>11, <1>12, <1>13, <1>14, <1>15, <1>16

\* The steps of a driver that write other messages than commands.
LEMMA DriverWrites ==
    ASSUME CommandInv, NEW t \in Turns,
           \/ SetUp(t) \/ StreamCancelled(t) \/ StreamAnswers(t) \/ StreamAsks(t)
           \/ RoundAnswers(t) \/ WriteNotice(t)
    PROVE  Goes(t)
<1> USE DEF shared, driver, history
<1>0. \A k \in 0 .. MaxUses : ToSet(Asks(t, k)) \in SUBSET Uses
  BY TurnLoopAssumption DEF CommandInv, TurnInv, TurnLoopTypeOK, Asks, Uses, ToSet
<1>1. CASE SetUp(t)
  <2>1. Prompt(t) \in Lines \ Words
    BY SaidAlone
  <2> QED
    BY <1>1, <2>1 DEF SetUp, Write, Goes, SeenMoves, LogGrows, Steps
<1>2. CASE StreamCancelled(t)
  <2>1. LogGrows
    <3>1. \A k \in 0 .. MaxUses : Message("assistant", ToSet(Asks(t, k))) \in Lines \ Words
      BY <1>0, SaidAlone
    <3> QED
      BY <1>2, <3>1 DEF StreamCancelled, Write, LogGrows
  <2> QED
    BY <1>2, <2>1 DEF StreamCancelled, Cancelled, Goes, SeenMoves, Steps
<1>3. CASE StreamAnswers(t)
  <2>1. LogGrows
    <3>1. Message("assistant", {}) \in Lines \ Words /\ Message("context", {}) \in Lines \ Words
      BY SaidAlone
    <3>2. log \in Seq(Lines)
      BY DEF CommandInv, PlacesDistinct
    <3>3. \A m, n \in Lines : log \o <<m, n>> = Append(Append(log, m), n)
      BY <3>2
    <3> QED
      BY <1>3, <3>1, <3>3 DEF StreamAnswers, Write, LogGrows
  <2> QED
    BY <1>3, <2>1 DEF StreamAnswers, Goes, SeenMoves, Steps
<1>4. CASE StreamAsks(t)
  <2>1. LogGrows
    <3>1. \A k \in 1 .. MaxUses : Message("assistant", ToSet(Asks(t, k))) \in Lines \ Words
      BY <1>0, SaidAlone
    <3> QED
      BY <1>4, <3>1 DEF StreamAsks, Write, LogGrows
  <2> QED
    BY <1>4, <2>1 DEF StreamAsks, Goes, SeenMoves, Steps
<1>5. CASE RoundAnswers(t)
  <2>1. Message("result", {Head(todo[t])}) \in Lines \ Words
    <3>1. Head(todo[t]) \in Uses
      BY <1>5 DEF CommandInv, TurnInv, TurnLoopTypeOK, RoundAnswers
    <3> QED
      BY <3>1, SaidAlone
  <2> QED
    BY <1>5, <2>1 DEF RoundAnswers, Write, Goes, SeenMoves, LogGrows
<1>6. CASE WriteNotice(t)
  <2>1. Message("notice", {}) \in Lines \ Words
    BY SaidAlone
  <2> QED
    BY <1>6, <2>1 DEF WriteNotice, Write, Goes, SeenMoves, LogGrows, Steps
<1> QED
  BY <1>1, <1>2, <1>3, <1>4, <1>5, <1>6

\* The steps of a driver that move commands.
LEMMA DriverMoves ==
    ASSUME CommandInv, TurnInv', NEW t \in Turns,
           \/ Top(t) \/ RoundContinues(t) \/ WriteCommand(t) \/ WriteCommandFails(t)
           \/ RemovePrompt(t) \/ CompactWrites(t)
    PROVE  CommandInv'
<1> USE DEF shared, history
<1>1. /\ pc \in [Turns -> Steps] /\ hand \in [Turns -> Seq(Commands)]
      /\ seen \in [Turns -> Seq(Lines)] /\ log \in Seq(Lines)
      /\ SpokenOnce(log) /\ \A u \in Turns : SpokenOnce(seen[u])
      /\ \A u \in Turns : hand[u] # <<>> => pc[u] \in {"flush", "inject"}
  BY DEF CommandInv, HandsFull, PlacesDistinct, TurnInv, TurnLoopTypeOK
<1>2. CASE Top(t)
  <2>1. hand[t] = <<>> /\ UNCHANGED <<steer, lost, log, seen>>
    BY <1>1, <1>2 DEF Top
  <2>2. CASE requests[t] > 0
    <3>1. Drain(t) /\ Go(t, IF hand'[t] = <<>> THEN "check" ELSE "flush")
      BY <1>2, <2>2 DEF Top
    <3>2. HandsFull'
      BY <1>1, <3>1 DEF HandsFull, Drain, Go
    <3> QED
      BY <2>1, <3>1, <3>2, CommandsDrained
  <2>3. CASE ~(requests[t] > 0)
    <3>1. Goes(t)
      BY <1>2, <2>1, <2>3 DEF Top, Goes, SeenMoves, LogGrows, Steps
    <3> QED
      BY <3>1, GoesKeeps
  <2> QED
    BY <2>2, <2>3
<1>3. CASE RoundContinues(t)
  <2>1. hand[t] = <<>> /\ UNCHANGED <<steer, lost, log, seen>>
    BY <1>1, <1>3 DEF RoundContinues
  <2>2. CASE Drain(t) /\ Go(t, IF queue = <<>> THEN "top" ELSE "inject")
    <3>1. HandsFull'
      BY <1>1, <2>2 DEF HandsFull, Drain, Go
    <3> QED
      BY <2>1, <2>2, <3>1, CommandsDrained
  <2>3. CASE UNCHANGED <<hand, queue>> /\ Go(t, "ending")
    <3>1. Goes(t)
      BY <1>3, <2>1, <2>3 DEF RoundContinues, Goes, SeenMoves, LogGrows, Steps
    <3> QED
      BY <3>1, GoesKeeps
  <2> QED
    BY <1>3, <2>2, <2>3 DEF RoundContinues
<1>4. CASE WriteCommand(t)
  <2>1. HandsFull'
    BY <1>1, <1>4 DEF WriteCommand, HandsFull, Go
  <2> QED
    BY <1>4, <2>1, CommandWritten DEF WriteCommand, Write
<1>5. CASE WriteCommandFails(t)
  <2>1. HandsFull'
    BY <1>1, <1>5 DEF WriteCommandFails, HandsFull, Go
  <2> QED
    BY <1>5, <2>1, CommandsDropped DEF WriteCommandFails
<1>6. CASE RemovePrompt(t)
  <2> DEFINE ms == IF seen[t] # <<>> /\ Last(seen[t]) = Prompt(t) THEN Front(seen[t]) ELSE log
  <2>1. /\ ms \in Seq(Lines) /\ SpokenOnce(ms)
        /\ Spoken(ms) \subseteq Spoken(seen[t]) \/ Spoken(ms) \subseteq Spoken(log)
    BY <1>1, FrontSpoken
  <2>2. HandsFull'
    BY <1>1, <1>6 DEF RemovePrompt, HandsFull, Go
  <2>3. Rewrite(t, ms) /\ UNCHANGED <<queue, hand, steer>>
    BY <1>6 DEF RemovePrompt
  <2> HIDE DEF ms
  <2> QED
    BY <2>1, <2>2, <2>3, CommandsRewritten
<1>7. CASE CompactWrites(t)
  <2>1. /\ Shortened(t) \in Seq(Lines) /\ SpokenOnce(Shortened(t))
        /\ Spoken(Shortened(t)) \subseteq Spoken(seen[t])
    <3>1. CASE pc[t] = "light"
      BY <1>1, <3>1 DEF Shortened
    <3>2. CASE pc[t] # "light"
      <4>1. Shortened(t) = <<Message("summary", {})>>
                              \o SubSeq(seen[t], PromptAt(t, seen[t]), Len(seen[t]))
        BY <3>2 DEF Shortened
      <4>2. PromptAt(t, seen[t]) \in 1 .. (Len(seen[t]) + 1)
        BY <1>1, PromptPlace
      <4> QED
        BY <1>1, <4>1, <4>2, PartsSpoken
    <3> QED
      BY <3>1, <3>2
  <2>2. HandsFull'
    BY <1>1, <1>7 DEF CompactWrites, HandsFull, Go
  <2>3. Rewrite(t, Shortened(t)) /\ UNCHANGED <<queue, hand, steer>>
    BY <1>7 DEF CompactWrites
  <2> QED
    BY <2>1, <2>2, <2>3, CommandsRewritten
<1> QED
  BY <1>2, <1>3, <1>4, <1>5, <1>6, <1>7

\* The other steps of clients.
LEMMA ClientStays ==
    ASSUME CommandInv, TurnInv',
           \/ \E c \in Commands : SteerLooks(c) \/ SteerFails(c)
           \/ CancelTurn \/ InterruptTurn \/ UNCHANGED vars
    PROVE  CommandInv'
<1> USE DEF shared, driver, history
<1>1. /\ UNCHANGED <<queue, log, hand, seen, lost, pc>>
      /\ steer' = steer \/ \E c \in Commands, s \in {"new", "seen"} :
            steer[c] \in {"new", "seen"} /\ steer' = [steer EXCEPT ![c] = s]
  BY DEF SteerLooks, SteerFails, CancelTurn, InterruptTurn, vars
<1>2. Accepted' = Accepted
  <2>1. steer \in [Commands -> {"new", "seen", "accepted"}]
    BY DEF CommandInv, TurnInv, TurnLoopTypeOK
  <2> QED
    BY <1>1, <2>1 DEF Accepted
<1> QED
  BY <1>1, <1>2 DEF CommandInv, HandsFull, PlacesDistinct, PlacesApart, SeenIsPast,
     AcceptedAreKept

\* Every step keeps the invariant.
LEMMA CommandNext == CommandInv /\ [Next]_vars => CommandInv'
<1> SUFFICES ASSUME CommandInv, [Next]_vars PROVE CommandInv'
  OBVIOUS
<1>1. TurnInv'
  BY TurnNext DEF CommandInv
<1>2. ASSUME NEW t \in Turns, Goes(t) PROVE CommandInv'
  BY <1>1, <1>2, GoesKeeps
<1>3. (\E c \in Commands : SteerQueues(c)) \/ Discard => HandsFull'
  BY DEF SteerQueues, Discard, driver, CommandInv, HandsFull
<1>4. CASE \/ \E c \in Commands : SteerLooks(c) \/ SteerQueues(c) \/ SteerFails(c)
           \/ CancelTurn \/ InterruptTurn \/ Discard \/ UNCHANGED vars
  BY <1>1, <1>3, <1>4, ClientStays, CommandQueued, CommandsDiscarded
<1>5. ASSUME NEW t \in Turns,
             \/ Submit(t) \/ BeginPermissions(t) \/ SetUp(t) \/ SetUpFails(t)
             \/ Drives(t) \/ Compacts(t)
             \/ StreamFails(t) \/ StreamAnswers(t) \/ StreamAsks(t)
             \/ RoundAnswers(t) \/ ReviewBegins(t) \/ RoundFails(t)
      PROVE  CommandInv'
  BY <1>1, <1>2, <1>5, DriverGoes, DriverWrites, DriverMoves DEF Drives, Compacts
<1> QED
  BY <1>4, <1>5 DEF Next

\* No command is anywhere.
LEMMA CommandInit == Init => CommandInv
<1> SUFFICES ASSUME Init PROVE CommandInv
  OBVIOUS
<1>1. TurnInv
  BY TurnInit
<1>2. /\ queue = <<>> /\ log = <<>> /\ lost = {} /\ Accepted = {}
      /\ hand = [t \in Turns |-> <<>>] /\ seen = [t \in Turns |-> <<>>]
  BY DEF Init, Accepted
<1> QED
  BY <1>1, <1>2, EmptySpoken DEF CommandInv, HandsFull, PlacesDistinct, PlacesApart,
     SeenIsPast, AcceptedAreKept

\* For any turns and commands: no command is in two places or twice in one, and an
\* accepted one is somewhere or was discarded (enqueue, drain and discard_queued_user_commands).
THEOREM CommandInvariant == Spec => []CommandInv
  BY CommandInit, CommandNext, PTL DEF Spec

\* Counting the places of a command that is in one place once.
LEMMA CommandsPlaced == CommandInv => CommandsConserved
<1> SUFFICES ASSUME CommandInv, NEW c \in Commands
             PROVE  Cardinality(Places(c))
                       = IF steer[c] = "accepted" /\ c \notin lost THEN 1 ELSE 0
  BY DEF CommandsConserved
<1> DEFINE InQueue == Positions(queue, c)
           InHand(t) == Positions(hand[t], c)
           InLog == Positions(log, Said(c))
<1>1. /\ InQueue = {} <=> c \notin ToSet(queue)
      /\ InLog = {} <=> c \notin Spoken(log)
      /\ \A t \in Turns : InHand(t) = {} <=> c \notin ToSet(hand[t])
  BY DEF ToSet, Spoken, Positions
<1>2. /\ \A p, q \in InQueue : p = q
      /\ \A p, q \in InLog : p = q
      /\ \A t \in Turns : \A p, q \in InHand(t) : p = q
  BY DEF CommandInv, PlacesDistinct, Distinct, SpokenOnce, Positions
<1>3. \A x : x \in Places(c) <=> \/ \E p \in InQueue : x = <<"queue", None, p>>
                                 \/ \E p \in InLog : x = <<"log", None, p>>
                                 \/ \E t \in Turns : \E p \in InHand(t) : x = <<"hand", t, p>>
  <2> DEFINE queued == {<<"queue", None, p>> : p \in InQueue}
             logged == {<<"log", None, p>> : p \in InLog}
             held(t) == {<<"hand", t, p>> : p \in InHand(t)}
             inhand == UNION {held(t) : t \in Turns}
  <2>1. Places(c) = queued \cup inhand \cup logged
    BY DEF Places
  <2> HIDE DEF InQueue, InHand, InLog
  <2>2. \A x : x \in queued <=> \E p \in InQueue : x = <<"queue", None, p>>
    OBVIOUS
  <2>3. \A x : x \in logged <=> \E p \in InLog : x = <<"log", None, p>>
    OBVIOUS
  <2>4. \A t \in Turns : \A x : x \in held(t) <=> \E p \in InHand(t) : x = <<"hand", t, p>>
    OBVIOUS
  <2> HIDE DEF queued, logged, held
  <2>5. \A x : x \in inhand <=> \E t \in Turns : x \in held(t)
    OBVIOUS
  <2> HIDE DEF inhand
  <2>6. \A x : x \in inhand <=> \E t \in Turns : \E p \in InHand(t) : x = <<"hand", t, p>>
    BY <2>4, <2>5
  <2> QED
    BY <2>1, <2>2, <2>3, <2>6, Zenon
<1>4. /\ InQueue # {} => InLog = {} /\ \A t \in Turns : InHand(t) = {}
      /\ InLog # {} => \A t \in Turns : InHand(t) = {}
      /\ \A t, u \in Turns : InHand(t) # {} /\ InHand(u) # {} => t = u
  BY <1>1 DEF CommandInv, PlacesApart
<1>5. (steer[c] = "accepted" /\ c \notin lost)
         <=> InQueue # {} \/ InLog # {} \/ \E t \in Turns : InHand(t) # {}
  BY <1>1 DEF CommandInv, AcceptedAreKept, Accepted
<1> HIDE DEF InQueue, InHand, InLog
<1>6. CASE InQueue # {}
  <2>1. PICK p \in InQueue : TRUE
    BY <1>6
  <2>2. Places(c) = {<<"queue", None, p>>}
    BY <1>2, <1>3, <1>4, <2>1
  <2> QED
    BY <1>5, <1>6, <2>2, FS_Singleton
<1>7. CASE InLog # {}
  <2>1. PICK p \in InLog : TRUE
    BY <1>7
  <2>2. Places(c) = {<<"log", None, p>>}
    BY <1>2, <1>3, <1>4, <2>1
  <2> QED
    BY <1>5, <1>7, <2>2, FS_Singleton
<1>8. CASE \E t \in Turns : InHand(t) # {}
  <2>0. PICK t \in Turns : InHand(t) # {}
    BY <1>8
  <2>1. PICK p \in InHand(t) : TRUE
    BY <2>0
  <2>2. Places(c) = {<<"hand", t, p>>}
    BY <1>2, <1>3, <1>4, <2>1
  <2> QED
    BY <1>5, <1>8, <2>2, FS_Singleton
<1>9. CASE InQueue = {} /\ InLog = {} /\ \A t \in Turns : InHand(t) = {}
  <2>1. Places(c) = {}
    BY <1>3, <1>9
  <2> QED
    BY <1>5, <1>9, <2>1, FS_EmptySet
<1> QED
  BY <1>6, <1>7, <1>8, <1>9

(* Each accepted command is in the queue, in the hands of one driver or in  *)
(* the transcript, and once, unless it was discarded, its write failed or a *)
(* rewrite left it out: whatever turns drain, write, compact and are        *)
(* cancelled beside each other (steer_turn, drain_queued_user_commands,     *)
(* flush_queued_user_commands).                                             *)
THEOREM CommandsAreConserved == Spec => []CommandsConserved
  BY CommandInvariant, CommandsPlaced, PTL
=============================================================================
