--------------------------- MODULE GoalCompaction ---------------------------
(***************************************************************************)
(* The persistent goal of a session whose transcript is being compacted.   *)
(* A compaction loads the session, works on it (a full one waits for the   *)
(* provider's summary) and rewrites the whole file.  It takes the append   *)
(* lock neither for the load nor for the rewrite, so goal operations fall  *)
(* between the two.                                                        *)
(* Source: core/src/session_manager/session_compaction.rs.                 *)
(***************************************************************************)
EXTENDS PersistentGoal

VARIABLE compaction   \* the compaction in progress and the records it holds

cvars == <<snapshot, open, ended, slot, cancelled, queued, lock, turn, outcome,
           minted, spent, compaction>>

Idle == [mode |-> "idle", goal |-> NoGoal, open |-> {}, ended |-> {}]

Compactions == [mode : {"idle", "full", "light"}, goal : GoalRecord,
                open : SUBSET Checkpoint, ended : SUBSET (GoalIds \X Turns)]

CInit == Init /\ compaction = Idle

(* A full compaction keeps the goal the decoder returned and no record of  *)
(* it; a lightweight one keeps the records as they were read.              *)
CompactRead(mode) ==
    /\ compaction = Idle
    /\ compaction' =
         IF mode = "full"
         THEN [mode |-> mode, goal |-> Decoded, open |-> {}, ended |-> {}]
         ELSE [mode |-> mode, goal |-> snapshot, open |-> open, ended |-> ended]
    /\ UNCHANGED vars

(* Mutant: the rewrite adds the usage stored since the load.               *)
CompactWriteMerged ==
    /\ compaction # Idle
    /\ snapshot' = [compaction.goal EXCEPT !.used = @ + snapshot.used]
    /\ open' = compaction.open
    /\ ended' = compaction.ended
    /\ compaction' = Idle
    /\ UNCHANGED <<slot, cancelled, queued, lock, turn, outcome, minted, spent>>

(* persist_full_session                                                    *)
CompactWrite ==
    /\ compaction # Idle
    /\ snapshot' = compaction.goal
    /\ open' = compaction.open
    /\ ended' = compaction.ended
    /\ compaction' = Idle
    /\ UNCHANGED <<slot, cancelled, queued, lock, turn, outcome, minted, spent>>

CompactionFails ==
    /\ compaction # Idle
    /\ compaction' = Idle
    /\ UNCHANGED vars

CompactedCrash == Crash /\ compaction' = Idle

CNext ==
    \/ (Client \/ \E t \in Turns : Supervisor(t)) /\ UNCHANGED compaction
    \/ CompactedCrash
    \/ \E mode \in {"full", "light"} : CompactRead(mode)
    \/ CompactWrite
    \/ CompactionFails

CSpec == CInit /\ [][CNext]_cvars

----------------------------------------------------------------------------
(* Properties                                                              *)

CTypeOK == TypeOK /\ compaction \in Compactions

(* A rewrite may lose the usage of a turn that finished under it; it never *)
(* makes the goal count a turn's tokens twice.                             *)
UsageNeverInflated ==
    snapshot.gid # NoGoalId => snapshot.used <= spent[snapshot.gid]

============================================================================
