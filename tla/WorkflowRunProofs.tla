------------------------- MODULE WorkflowRunProofs -------------------------
(***************************************************************************)
(* A workflow run for any plan, any number of resumes and any number of    *)
(* cancels, failures and crashes: what the journal records is closed, what *)
(* has been told to stop is all that outlives a run, and an agent is only  *)
(* invoked twice by an attempt that read the journal too early.            *)
(***************************************************************************)
EXTENDS WorkflowRun, FiniteSetTheorems, TLAPS

-----------------------------------------------------------------------------
(* The plan.                                                               *)

LEMMA PlanParts ==
    /\ Part \in [Steps -> SUBSET (Steps \ {Root})]
    /\ \A p \in Steps : Kind[p] \in {"agent", "log"} => Part[p] = {}
<1>1. \A p \in Steps : Part[p] \subseteq Steps
  BY WorkflowAssumption DEF Part, ToSet
<1> QED
  BY <1>1, WorkflowAssumption DEF Part

LEMMA PlanOrder ==
    /\ \A n \in Steps : Earlier[n] \subseteq Steps \ {Root}
    /\ Earlier[Root] = {}
    /\ \A p, n, m \in Steps :
          Kind[p] = "serial" /\ n \in Part[p] /\ m \in Part[p] /\ n # m
          => n \in Earlier[m] \/ m \in Earlier[n]
<1>1. \A p \in Steps : Part[p] = {Parts[p][i] : i \in DOMAIN Parts[p]}
  BY WorkflowAssumption DEF Part, ToSet
<1>2. \A p \in Steps : Parts[p] \in Seq(Steps) /\ DOMAIN Parts[p] \subseteq Int
  BY WorkflowAssumption
<1>3. \A n \in Steps : \A m \in Earlier[n] :
          m \in Steps /\ \E p \in Steps : m \in Part[p] /\ n \in Part[p]
  BY <1>1 DEF Earlier
<1>4. \A p \in Steps : Root \notin Part[p]
  BY WorkflowAssumption
<1>5. ASSUME NEW p \in Steps, NEW n \in Part[p], NEW m \in Part[p],
             Kind[p] = "serial", n # m
      PROVE  n \in Earlier[m] \/ m \in Earlier[n]
  <2>1. PICK i \in DOMAIN Parts[p] : Parts[p][i] = n
    BY <1>1, <1>5
  <2>2. PICK j \in DOMAIN Parts[p] : Parts[p][j] = m
    BY <1>1, <1>5
  <2>3. i < j \/ j < i
    BY <2>1, <2>2, <1>2, <1>5
  <2>4. n \in Steps /\ m \in Steps
    BY <1>5, PlanParts
  <2> QED
    BY <2>1, <2>2, <2>3, <2>4, <1>5 DEF Earlier
<1>6. \A n \in Steps : Earlier[n] \subseteq Steps \ {Root}
  BY <1>3, <1>4
<1>7. Earlier[Root] = {}
  BY <1>3, <1>4, WorkflowAssumption
<1> QED
  BY <1>5, <1>6, <1>7, PlanParts

-----------------------------------------------------------------------------
(* The invariant.                                                          *)

Typed ==
    /\ run \in Results \cup {"none"}
    /\ journal \subseteq Steps \ {Root}
    /\ active \in Attempts \cup {None}
    /\ stage \in [Attempts -> Stages]
    /\ known \in [Attempts -> SUBSET Steps]
    /\ flagged \subseteq Attempts
    /\ pc \in [Attempts -> [Steps -> Phases]]
    /\ aborted \in [Attempts -> SUBSET Steps]
    /\ stale \subseteq Attempts
    /\ redone \subseteq Attempts \X Steps
    /\ upsets \in 0 .. MaxUpsets

PermitsKept == \A r \in Attempts : Permits(r) <= MaxConcurrency

OfAgent == {"queued", "agent", "output"}

\* The shape of an attempt: steps begin in the plan's order, only tasks of
\* parallel parts are aborted, and a step that is skipped does no work.
Shape ==
    \A r \in Attempts :
        /\ aborted[r] \subseteq {t \in Steps \ {Root} : Task[t] = t}
        /\ stage[r] \in {"idle", "looked", "read", "setup"} => pc[r] = Unbegun
        /\ \A n \in Steps :
              /\ pc[r][n] # "idle" => \A m \in Earlier[n] : pc[r][m] = "done"
              /\ pc[r][n] = "spawning" => Kind[n] = "parallel"
              /\ pc[r][n] \in OfAgent => Kind[n] = "agent"
              /\ pc[r][n] \in Working => n \notin known[r]

\* What has been seen complete is in the journal.
Recorded ==
    /\ run = "none" => journal = {} /\ \A r \in Attempts : pc[r] = Unbegun
    /\ \A r \in Attempts :
          /\ known[r] \subseteq journal
          /\ pc[r][Root] = "done" => Part[Root] \subseteq journal
          /\ \A n \in Steps :
                /\ pc[r][n] = "done" => n \in journal \cup {Root}
                /\ pc[r][n] = "landing" => n # Root /\ Part[n] \subseteq journal

\* An attempt that is not stale knows of what the journal holds or wrote it.
Informed ==
    \A r \in Attempts \ stale : \A n \in journal :
        \/ stage[r] \in {"idle", "looked"}
        \/ stage[r] \in {"done", "dead"} /\ pc[r] = Unbegun
        \/ n \in known[r]
        \/ pc[r][n] \in {"done", "gone"}

WInv ==
    /\ Typed
    /\ Shape
    /\ Recorded
    /\ JournalClosed
    /\ NothingOutlivesRun
    /\ Informed
    /\ RedoneOnlyIfStale

LEMMA WInit == Init => WInv
  BY WorkflowAssumption, PlanParts
  DEF Init, WInv, Typed, Shape, Recorded, JournalClosed, NothingOutlivesRun, Informed,
      RedoneOnlyIfStale, Unbegun, Results, Stages, Phases, Working, OfAgent

-----------------------------------------------------------------------------
(* What the steps of an attempt have in common: one of its steps goes on.  *)

Moves(r, x, to) ==
    /\ pc' = [pc EXCEPT ![r][x] = to]
    /\ to \in Phases \ {"idle"}
    /\ \E p \in Steps : pc[r][p] # "idle"
    /\ pc[r][x] \notin {"done", "gone"}
    /\ pc[r][x] = "idle" => \A m \in Earlier[x] : pc[r][m] = "done"
    /\ to = "spawning" => Kind[x] = "parallel"
    /\ to \in OfAgent => Kind[x] = "agent"
    /\ to \in Working => x \notin known[r]
    /\ UNCHANGED <<run, active, stage, known>>

\* Work begins in a container at work, and a container does not end before it.
Contained(r, x, to) ==
    /\ to \in Working => pc[r][x] \in Working \/ \E p \in Steps :
                            p # x /\ x \in Part[p] /\ pc[r][p] \in Working
    /\ to \notin Working => \A m \in Part[x] : pc[r][m] \in Working => m \in aborted'[r]

AbortsMore ==
    /\ aborted' \in [Attempts -> SUBSET Steps]
    /\ \A q \in Attempts : aborted[q] \subseteq aborted'[q]
    /\ \A q \in Attempts : aborted'[q] \subseteq {t \in Steps \ {Root} : Task[t] = t}

LEMMA MovesPc ==
    ASSUME WInv, NEW r \in Attempts, NEW x \in Steps, NEW to, Moves(r, x, to)
    PROVE  /\ pc' \in [Attempts -> [Steps -> Phases]]
           /\ pc'[r][x] = to
           /\ \A q \in Attempts, n \in Steps : q # r \/ n # x => pc'[q][n] = pc[q][n]
           /\ \A q \in Attempts : q # r => pc'[q] = pc[q]
           /\ pc[r] # Unbegun
           /\ pc'[r] # Unbegun
           /\ run # "none"
<1>1. /\ pc' \in [Attempts -> [Steps -> Phases]]
      /\ pc'[r][x] = to
      /\ \A q \in Attempts, n \in Steps : q # r \/ n # x => pc'[q][n] = pc[q][n]
      /\ \A q \in Attempts : q # r => pc'[q] = pc[q]
  BY DEF Moves, WInv, Typed
<1>2. pc[r] # Unbegun /\ pc'[r] # Unbegun
  BY <1>1 DEF Moves, Unbegun
<1> QED
  BY <1>1, <1>2 DEF WInv, Recorded

LEMMA ShapeMoves ==
    ASSUME WInv, NEW r \in Attempts, NEW x \in Steps, NEW to, Moves(r, x, to), AbortsMore
    PROVE  Shape'
<1> USE MovesPc
<1>1. ASSUME NEW q \in Attempts PROVE aborted'[q] \subseteq {t \in Steps \ {Root} : Task[t] = t}
  BY DEF AbortsMore
<1>2. ASSUME NEW q \in Attempts, stage'[q] \in {"idle", "looked", "read", "setup"}
      PROVE  pc'[q] = Unbegun
  <2>1. pc[q] = Unbegun
    BY <1>2 DEF WInv, Shape, Moves
  <2>2. q # r
    BY <2>1
  <2> QED
    BY <2>1, <2>2
<1>3. ASSUME NEW q \in Attempts, NEW n \in Steps, pc'[q][n] # "idle", NEW m \in Earlier[n]
      PROVE  pc'[q][m] = "done"
  <2>1. m \in Steps
    BY PlanOrder
  <2>2. pc[q][m] = "done"
    BY <1>3 DEF WInv, Shape, Moves
  <2> QED
    BY <2>1, <2>2 DEF Moves
<1>4. ASSUME NEW q \in Attempts, NEW n \in Steps
      PROVE  /\ pc'[q][n] = "spawning" => Kind[n] = "parallel"
             /\ pc'[q][n] \in OfAgent => Kind[n] = "agent"
             /\ pc'[q][n] \in Working => n \notin known'[q]
  BY DEF WInv, Shape, Moves
<1> QED
  BY <1>1, <1>2, <1>3, <1>4 DEF Shape, Unbegun, OfAgent

LEMMA OutlivesMoves ==
    ASSUME WInv, NEW r \in Attempts, NEW x \in Steps, NEW to, Moves(r, x, to), AbortsMore,
           Contained(r, x, to)
    PROVE  NothingOutlivesRun'
<1> USE MovesPc
<1> SUFFICES ASSUME NEW q \in Attempts, NEW n \in Steps \ {Root}, pc'[q][n] \in Working
             PROVE  (\E p \in Steps : pc'[q][p] \in Working /\ n \in Part[p]) \/ n \in aborted'[q]
  BY DEF NothingOutlivesRun, Chain
<1>1. CASE q = r /\ n = x /\ pc[r][x] \notin Working
  BY <1>1 DEF Contained
<1>2. CASE ~(q = r /\ n = x /\ pc[r][x] \notin Working)
  <2>1. pc[q][n] \in Working
    BY <1>2
  <2>2. CASE n \in aborted[q]
    BY <2>2 DEF AbortsMore
  <2>3. ASSUME NEW p \in Steps, pc[q][p] \in Working, n \in Part[p]
        PROVE  (\E o \in Steps : pc'[q][o] \in Working /\ n \in Part[o]) \/ n \in aborted'[q]
    <3>1. CASE q = r /\ p = x /\ to \notin Working
      BY <3>1, <2>1, <2>3 DEF Contained
    <3>2. CASE ~(q = r /\ p = x /\ to \notin Working)
      BY <3>2, <2>3
    <3> QED
      BY <3>1, <3>2
  <2> QED
    BY <2>1, <2>2, <2>3 DEF WInv, NothingOutlivesRun, Chain
<1> QED
  BY <1>1, <1>2

\* A step that goes on without an append to the journal.
LEMMA SilentStep ==
    ASSUME WInv, NEW r \in Attempts, NEW x \in Steps, NEW to, Moves(r, x, to), AbortsMore,
           Contained(r, x, to), UNCHANGED <<journal, stale>>,
           to = "done" => x \in known[r],
           to # "landing",
           flagged' \subseteq Attempts, upsets' \in 0 .. MaxUpsets,
           redone' \subseteq Attempts \X Steps, RedoneOnlyIfStale'
    PROVE  WInv'
<1> USE MovesPc
<1>1. Typed'
  BY DEF WInv, Typed, Moves, AbortsMore
<1>2. Shape'
  BY ShapeMoves
<1>3. Recorded'
  <2>1. run' # "none" /\ known' = known /\ journal' = journal
    BY DEF Moves
  <2>2. ASSUME NEW q \in Attempts, NEW n \in Steps
        PROVE  /\ pc'[q][n] = "done" => n \in journal \cup {Root}
               /\ pc'[q][n] = "landing" => n # Root /\ Part[n] \subseteq journal
    BY DEF WInv, Recorded
  <2>3. ASSUME NEW q \in Attempts PROVE pc'[q][Root] = "done" => Part[Root] \subseteq journal
    <3>1. Root \in Steps /\ Root \notin known[r]
      BY WorkflowAssumption DEF WInv, Typed, Recorded
    <3>2. pc'[q][Root] = "done" => pc[q][Root] = "done"
      BY <3>1
    <3> QED
      BY <3>2 DEF WInv, Recorded
  <2> QED
    BY <2>1, <2>2, <2>3 DEF WInv, Recorded
<1>4. JournalClosed'
  BY DEF WInv, JournalClosed, Moves
<1>5. NothingOutlivesRun'
  BY OutlivesMoves
<1>6. Informed'
  <2> SUFFICES ASSUME NEW q \in Attempts \ stale, NEW n \in journal
               PROVE  \/ stage'[q] \in {"idle", "looked"}
                      \/ stage'[q] \in {"done", "dead"} /\ pc'[q] = Unbegun
                      \/ n \in known'[q]
                      \/ pc'[q][n] \in {"done", "gone"}
    BY DEF Informed, Unbegun
  <2>1. n \in Steps
    BY DEF WInv, Typed
  <2>2. pc[q] = Unbegun => pc'[q] = pc[q]
    OBVIOUS
  <2>3. pc[q][n] \in {"done", "gone"} => pc'[q][n] = pc[q][n]
    BY <2>1 DEF Moves
  <2> QED
    BY <2>2, <2>3 DEF WInv, Informed, Moves
<1> QED
  BY <1>1, <1>2, <1>3, <1>4, <1>5, <1>6 DEF WInv

LEMMA QuietStep ==
    ASSUME WInv, NEW r \in Attempts, NEW x \in Steps, NEW to, Moves(r, x, to), AbortsMore,
           Contained(r, x, to), UNCHANGED <<journal, past>>,
           to = "done" => x \in known[r],
           to # "landing",
           flagged' \subseteq Attempts, upsets' \in 0 .. MaxUpsets
    PROVE  WInv'
<1>1. UNCHANGED stale /\ redone' \subseteq Attempts \X Steps /\ RedoneOnlyIfStale'
  BY DEF WInv, Typed, RedoneOnlyIfStale, past
<1> QED
  BY <1>1, SilentStep

\* A step whose completion is appended to the journal.
LEMMA AppendStep ==
    ASSUME WInv, NEW r \in Attempts, NEW x \in Steps, NEW to \in {"done", "gone"},
           Moves(r, x, to), Contained(r, x, to), Journaled(r, x),
           Part[x] \subseteq journal, pc[r][x] # "idle",
           UNCHANGED <<flagged, aborted, redone, upsets>>
    PROVE  WInv'
<1> USE MovesPc
<1>1. AbortsMore
  BY DEF AbortsMore, WInv, Typed, Shape
<1>2. Typed'
  BY <1>1 DEF WInv, Typed, Moves, AbortsMore, Journaled
<1>3. Shape'
  BY <1>1, ShapeMoves
<1>4. Recorded'
  <2>1. run' # "none" /\ known' = known /\ journal' = journal \cup ({x} \ {Root})
    BY DEF Moves, Journaled
  <2>2. ASSUME NEW q \in Attempts, NEW n \in Steps
        PROVE  /\ pc'[q][n] = "done" => n \in journal' \cup {Root}
               /\ pc'[q][n] = "landing" => n # Root /\ Part[n] \subseteq journal'
    BY <2>1 DEF WInv, Recorded
  <2>3. ASSUME NEW q \in Attempts PROVE pc'[q][Root] = "done" => Part[Root] \subseteq journal'
    <3>1. Root \in Steps
      BY WorkflowAssumption
    <3>2. pc'[q][Root] = "done" => pc[q][Root] = "done" \/ x = Root
      BY <3>1
    <3> QED
      BY <2>1, <3>2 DEF WInv, Recorded
  <2> QED
    BY <2>1, <2>2, <2>3 DEF WInv, Recorded
<1>5. Earlier[x] \subseteq journal
  BY PlanOrder DEF WInv, Shape, Recorded
<1>6. JournalClosed'
  BY <1>5, PlanParts DEF WInv, JournalClosed, Moves, Journaled
<1>7. NothingOutlivesRun'
  BY <1>1, OutlivesMoves
<1>8. Informed'
  <2> SUFFICES ASSUME NEW q \in Attempts \ stale', NEW n \in journal'
               PROVE  \/ stage'[q] \in {"idle", "looked"}
                      \/ stage'[q] \in {"done", "dead"} /\ pc'[q] = Unbegun
                      \/ n \in known'[q]
                      \/ pc'[q][n] \in {"done", "gone"}
    BY DEF Informed, Unbegun
  <2>1. q \notin stale /\ stage' = stage /\ known' = known
    BY DEF Journaled, Moves
  <2>2. CASE n \in journal
    <3>1. n \in Steps
      BY <2>2 DEF WInv, Typed
    <3>2. pc[q] = Unbegun => pc'[q] = pc[q]
      OBVIOUS
    <3>3. pc[q][n] \in {"done", "gone"} => pc'[q][n] = pc[q][n]
      BY <3>1 DEF Moves
    <3> QED
      BY <2>1, <2>2, <3>2, <3>3 DEF WInv, Informed
  <2>3. CASE n \notin journal
    <3>1. n = x /\ n # Root
      BY <2>3 DEF Journaled
    <3>2. CASE q = r
      BY <3>1, <3>2
    <3>3. CASE q # r
      BY <2>1, <3>1, <3>3 DEF Journaled
    <3> QED
      BY <3>2, <3>3
  <2> QED
    BY <2>2, <2>3
<1>9. RedoneOnlyIfStale'
  BY DEF WInv, RedoneOnlyIfStale, Journaled
<1> QED
  BY <1>2, <1>3, <1>4, <1>6, <1>7, <1>8, <1>9 DEF WInv

-----------------------------------------------------------------------------
(* The actions of a worker's tasks.                                        *)

LEMMA UpsetBounded == ASSUME WInv, Upset PROVE upsets' \in 0 .. MaxUpsets
  BY WorkflowAssumption DEF WInv, Typed, Upset

LEMMA AbortsNone == ASSUME WInv, UNCHANGED aborted PROVE AbortsMore
  BY DEF WInv, Typed, Shape, AbortsMore

\* A step that has begun goes on.
LEMMA GoesOn ==
    ASSUME WInv, NEW r \in Attempts, NEW x \in Steps, NEW to \in Phases,
           pc' = [pc EXCEPT ![r][x] = to],
           pc[r][x] \notin {"idle", "done", "gone"}, to \notin {"idle", "spawning"},
           to \in Working => pc[r][x] \in Working,
           to \in OfAgent => pc[r][x] \in OfAgent,
           UNCHANGED <<run, active, stage, known>>
    PROVE  Moves(r, x, to)
  BY DEF Moves, WInv, Shape

\* The parts of a container that is not at work are not, or were told to stop.
LEMMA PartsStopped ==
    ASSUME WInv, NEW r \in Attempts, NEW x \in Steps, pc[r][x] \notin Working,
           NEW m \in Part[x], pc[r][m] \in Working
    PROVE  m \in aborted[r]
<1>1. m \in Steps \ {Root}
  BY PlanParts
<1>2. \A q \in Steps : q # x => m \notin Part[q]
  BY WorkflowAssumption
<1> QED
  BY <1>1, <1>2 DEF WInv, NothingOutlivesRun, Chain

\* A part that is ready begins, or is passed over.
LEMMA GoesIn ==
    ASSUME WInv, NEW r \in Attempts, NEW p \in Steps, NEW x, NEW to \in Phases,
           Ready(r, p, x), pc' = [pc EXCEPT ![r][x] = to],
           to # "idle", to = "spawning" => Kind[x] = "parallel",
           to \in OfAgent => Kind[x] = "agent",
           to \in Working => x \notin known[r],
           UNCHANGED <<run, active, stage, known, aborted>>
    PROVE  /\ x \in Steps
           /\ Moves(r, x, to)
           /\ Contained(r, x, to)
<1>1. x \in Steps /\ p # x /\ x \in Part[p] /\ pc[r][p] \in Working
  BY PlanParts DEF Ready, Working
<1>2. Moves(r, x, to)
  BY <1>1 DEF Moves, Ready
<1>3. \A m \in Part[x] : pc[r][m] \in Working => m \in aborted[r]
  BY <1>1, PartsStopped DEF Ready, Working
<1>4. Contained(r, x, to)
  BY <1>1, <1>3 DEF Contained
<1> QED
  BY <1>1, <1>2, <1>4

LEMMA BeginSteps ==
    ASSUME WInv, NEW r \in Attempts, NEW p \in Steps, NEW x \in Part[p],
           Skip(r, p, x) \/ Begin(r, p, x) \/ BeginFails(r, p, x)
    PROVE  WInv'
<1> x \in Steps
  BY PlanParts
<1>1. Begun(r, x) \in Phases \ {"idle", "done", "landing"}
  BY WorkflowAssumption DEF Begun, Phases, Working
<1>2. /\ Begun(r, x) = "spawning" => Kind[x] = "parallel"
      /\ Begun(r, x) \in OfAgent => Kind[x] = "agent"
  BY WorkflowAssumption DEF Begun, OfAgent
<1>3. CASE Skip(r, p, x)
  <2>1. Moves(r, x, "done") /\ Contained(r, x, "done")
    BY <1>3, GoesIn DEF Skip, MayRun, Goes, Phases, Working, OfAgent, disk
  <2> QED
    BY <1>3, <2>1, QuietStep, AbortsNone DEF Skip, disk, WInv, Typed
<1>4. CASE Begin(r, p, x)
  <2>1. Moves(r, x, Begun(r, x)) /\ Contained(r, x, Begun(r, x))
    BY <1>1, <1>2, <1>4, GoesIn DEF Begin, MayRun, Goes, disk
  <2> QED
    BY <1>1, <1>4, <2>1, QuietStep, AbortsNone DEF Begin, disk, WInv, Typed
<1>5. CASE BeginFails(r, p, x)
  <2>1. Moves(r, x, "failed") /\ Contained(r, x, "failed")
    BY <1>5, GoesIn DEF BeginFails, MayRun, Goes, Phases, Working, OfAgent
  <2> QED
    BY <1>5, <2>1, QuietStep, AbortsNone, UpsetBounded DEF BeginFails, WInv, Typed
<1> QED
  BY <1>3, <1>4, <1>5

\* A step that can be completed has its parts in the journal.
LEMMA CompletableParts ==
    ASSUME WInv, NEW r \in Attempts, NEW x \in Steps, Completable(r, x)
    PROVE  /\ Part[x] \subseteq journal
           /\ \A m \in Part[x] : pc[r][m] \notin Working
           /\ pc[r][x] \in Working
<1>1. CASE Kind[x] \in {"agent", "log"}
  BY <1>1, PlanParts DEF Completable, Working
<1>2. CASE Kind[x] \notin {"agent", "log"}
  <2>1. pc[r][x] = "begun" /\ AllDone(r, x)
    BY <1>2 DEF Completable
  <2>2. \A m \in Part[x] : m \in Steps \ {Root} /\ pc[r][m] = "done"
    BY <2>1, PlanParts DEF AllDone
  <2> QED
    BY <2>1, <2>2 DEF WInv, Recorded, Working
<1> QED
  BY <1>1, <1>2

LEMMA CompleteSteps ==
    ASSUME WInv, NEW r \in Attempts, NEW x \in Steps,
           Complete(r, x) \/ CompleteFails(r, x)
    PROVE  WInv'
<1>1. /\ Part[x] \subseteq journal
      /\ \A m \in Part[x] : pc[r][m] \notin Working
      /\ pc[r][x] \in Working
  BY CompletableParts DEF Complete, CompleteFails
<1>2. CASE Complete(r, x)
  <2>1. Moves(r, x, "done") /\ pc[r][x] # "idle"
    BY <1>1, <1>2, GoesOn DEF Complete, Goes, Phases, Working, OfAgent
  <2>2. Contained(r, x, "done")
    BY <1>1 DEF Contained, Working
  <2> QED
    BY <1>1, <1>2, <2>1, <2>2, AppendStep DEF Complete
<1>3. CASE CompleteFails(r, x)
  <2>1. Moves(r, x, "failed")
    BY <1>1, <1>3, GoesOn DEF CompleteFails, Goes, Phases, Working, OfAgent
  <2>2. Contained(r, x, "failed")
    BY <1>1 DEF Contained, Working
  <2> QED
    BY <1>3, <2>1, <2>2, QuietStep, AbortsNone, UpsetBounded DEF CompleteFails, WInv, Typed
<1> QED
  BY <1>2, <1>3

LEMMA InvokeSteps ==
    ASSUME WInv, NEW r \in Attempts, NEW x \in Steps, Invoke(r, x)
    PROVE  WInv'
<1>1. pc[r][x] = "queued" /\ Moves(r, x, "agent")
  BY GoesOn DEF Invoke, Goes, Phases, Working, OfAgent, disk
<1>2. Contained(r, x, "agent")
  BY <1>1 DEF Contained, Working
<1>3. x \in journal => r \in stale
  <2>1. pc[r] # Unbegun
    BY <1>1 DEF Unbegun
  <2>2. x \notin known[r]
    BY <1>1 DEF Moves, Working
  <2> QED
    BY <1>1, <2>1, <2>2 DEF WInv, Informed, Shape
<1>4. redone' \subseteq Attempts \X Steps /\ RedoneOnlyIfStale'
  BY <1>3 DEF WInv, Typed, RedoneOnlyIfStale, Invoke
<1> QED
  BY <1>1, <1>2, <1>4, SilentStep, AbortsNone DEF Invoke, disk, WInv, Typed

LEMMA AgentSteps ==
    ASSUME WInv, NEW r \in Attempts, NEW x \in Steps,
           AgentEnds(r, x) \/ AgentCancelled(r, x)
    PROVE  WInv'
<1>1. PICK to \in {"output", "failed", "cancelled"} : Goes(r, x, {"agent"}, to)
  BY DEF AgentEnds, AgentCancelled
<1>2. pc[r][x] = "agent" /\ UNCHANGED <<disk, active, stage, known, flagged, aborted, past>>
  BY <1>1 DEF Goes, AgentEnds, AgentCancelled
<1>3. Moves(r, x, to)
  BY <1>1, <1>2, GoesOn DEF Goes, Phases, Working, OfAgent, disk
<1>4. \A m \in Part[x] : pc[r][m] \in Working => m \in aborted[r]
  BY <1>2, PlanParts DEF WInv, Shape, OfAgent
<1>5. upsets' \in 0 .. MaxUpsets
  BY UpsetBounded DEF AgentEnds, AgentCancelled, WInv, Typed
<1> QED
  BY <1>2, <1>3, <1>4, <1>5, QuietStep, AbortsNone DEF Contained, disk, WInv, Typed, Working

-----------------------------------------------------------------------------
(* The actions of containers.                                              *)

\* The parts of a serial container but the one it is at have ended or not begun.
LEMMA OneAtATime ==
    ASSUME WInv, NEW r \in Attempts, NEW p \in Steps, Kind[p] = "serial",
           NEW n \in Part[p],
           \/ pc[r][n] \in Errors
           \/ Ready(r, p, n)
    PROVE  \A m \in Part[p] : pc[r][m] \notin Working
<1> SUFFICES ASSUME NEW m \in Part[p], pc[r][m] \in Working PROVE FALSE
  OBVIOUS
<1>1. n \in Steps /\ m \in Steps
  BY PlanParts
<1>2. n # m /\ pc[r][n] # "done" /\ pc[r][m] # "idle"
  BY DEF Errors, Ready, Working
<1>3. CASE n \in Earlier[m]
  BY <1>1, <1>2, <1>3 DEF WInv, Shape
<1>4. CASE m \in Earlier[n]
  <2>1. pc[r][m] = "done"
    BY <1>1, <1>4 DEF WInv, Shape, Ready, Errors
  <2> QED
    BY <2>1 DEF Working
<1> QED
  BY <1>1, <1>2, <1>3, <1>4, PlanOrder

LEMMA SerialSteps ==
    ASSUME WInv, NEW r \in Attempts, NEW p \in Steps, SerialEnds(r, p)
    PROVE  WInv'
<1>1. PICK n \in Part[p], to \in Errors :
          /\ pc[r][n] \in Errors \/ Ready(r, p, n)
          /\ Goes(r, p, {"begun"}, to)
  BY DEF SerialEnds, Errors
<1>2. \A m \in Part[p] : pc[r][m] \notin Working
  BY <1>1, OneAtATime DEF SerialEnds
<1>3. UNCHANGED <<disk, active, stage, known, flagged, aborted, past, upsets>>
  BY DEF SerialEnds
<1>4. Moves(r, p, to)
  BY <1>1, <1>3, GoesOn DEF Goes, Phases, Working, OfAgent, disk, Errors
<1>5. Contained(r, p, to)
  BY <1>1, <1>2 DEF Contained, Errors, Working
<1> QED
  BY <1>3, <1>4, <1>5, QuietStep, AbortsNone DEF disk, WInv, Typed, Errors

\* Aborting the parts of a parallel step that are at work.
LEMMA AbortsParts ==
    ASSUME WInv, NEW r \in Attempts, NEW p \in Steps, Kind[p] = "parallel",
           aborted' = [aborted EXCEPT ![r] = @ \cup WorkingParts(r, p)]
    PROVE  AbortsMore /\ WorkingParts(r, p) \subseteq aborted'[r]
<1>1. WorkingParts(r, p) \subseteq {t \in Steps \ {Root} : Task[t] = t}
  BY PlanParts, WorkflowAssumption DEF WorkingParts
<1> QED
  BY <1>1 DEF WInv, Typed, Shape, AbortsMore

LEMMA ParallelSteps ==
    ASSUME WInv, NEW r \in Attempts, NEW p \in Steps,
           Spawned(r, p) \/ SpawnCancelled(r, p) \/ PartFails(r, p) \/ Drained(r, p)
    PROVE  WInv'
<1>1. CASE Spawned(r, p)
  <2>1. Moves(r, p, "begun") /\ Contained(r, p, "begun")
    BY <1>1, GoesOn DEF Spawned, Goes, Phases, Working, OfAgent, disk, Contained
  <2> QED
    BY <1>1, <2>1, QuietStep, AbortsNone DEF Spawned, disk, WInv, Typed
<1>2. CASE SpawnCancelled(r, p)
  <2>1. AbortsMore /\ WorkingParts(r, p) \subseteq aborted'[r]
    BY <1>2, AbortsParts DEF SpawnCancelled, Goes, WInv, Shape
  <2>2. Moves(r, p, "cancelled")
    BY <1>2, GoesOn DEF SpawnCancelled, Goes, Phases, Working, OfAgent, disk
  <2>3. Contained(r, p, "cancelled")
    BY <2>1 DEF Contained, Working, WorkingParts
  <2> QED
    BY <1>2, <2>1, <2>2, <2>3, QuietStep DEF SpawnCancelled, disk, WInv, Typed
<1>3. CASE PartFails(r, p)
  <2>1. AbortsMore
    BY <1>3, AbortsParts DEF PartFails
  <2>2. PICK to \in {"failing", "cancelling"} : Goes(r, p, {"begun"}, to)
    BY <1>3 DEF PartFails
  <2>3. Moves(r, p, to) /\ Contained(r, p, to)
    BY <1>3, <2>2, GoesOn DEF PartFails, Goes, Phases, Working, OfAgent, disk, Contained
  <2> QED
    BY <1>3, <2>1, <2>3, QuietStep DEF PartFails, disk, WInv, Typed
<1>4. CASE Drained(r, p)
  <2>1. PICK to \in Errors : Goes(r, p, {"failing", "cancelling"}, to)
    BY <1>4 DEF Drained, Errors, Goes
  <2>2. Moves(r, p, to)
    BY <1>4, <2>1, GoesOn DEF Drained, Goes, Phases, Working, OfAgent, disk, Errors
  <2>3. Contained(r, p, to)
    BY <1>4 DEF Drained, Contained, Errors, Working, WorkingParts
  <2> QED
    BY <1>4, <2>2, <2>3, QuietStep, AbortsNone DEF Drained, disk, WInv, Typed, Errors
<1> QED
  BY <1>1, <1>2, <1>3, <1>4

-----------------------------------------------------------------------------
(* Aborted tasks.                                                          *)

LEMMA LandsSteps ==
    ASSUME WInv, NEW r \in Attempts, NEW x \in Steps, Lands(r, x)
    PROVE  WInv'
<1>1. pc[r][x] = "landing" /\ pc[r][x] \notin Working
  BY DEF Lands, Working
<1>2. Moves(r, x, "gone")
  BY <1>1, GoesOn DEF Lands, Phases, Working, OfAgent
<1>3. Contained(r, x, "gone")
  BY <1>1, PartsStopped DEF Contained, Working, Lands
<1>4. Part[x] \subseteq journal
  BY <1>1 DEF WInv, Recorded
<1> QED
  BY <1>1, <1>2, <1>3, <1>4, AppendStep DEF Lands

LEMMA DropSteps ==
    ASSUME WInv, NEW r \in Attempts, NEW t \in Steps, Drop(r, t)
    PROVE  WInv'
<1>1. t \in aborted[r] /\ Task[t] = t /\ t # Root
  BY DEF Drop, WInv, Shape
<1>2. /\ pc' \in [Attempts -> [Steps -> Phases]]
      /\ \A q \in Attempts : q # r => pc'[q] = pc[q]
      /\ \A n \in Steps : Task[n] # t \/ pc[r][n] \notin Working => pc'[r][n] = pc[r][n]
      /\ \A n \in Steps : Task[n] = t /\ pc[r][n] \in Working
            => pc'[r][n] \in {"landing", "gone"}
      /\ \A n \in Steps : Task[n] = t /\ pc[r][n] \in Working /\ pc'[r][n] = "landing"
            => Completable(r, n)
  <2>1. PICK land \in BOOLEAN :
          pc' = [pc EXCEPT ![r] = [n \in Steps |->
                   IF Task[n] = t /\ pc[r][n] \in Working
                   THEN IF land /\ Completable(r, n) THEN "landing" ELSE "gone"
                   ELSE pc[r][n]]]
    BY DEF Drop
  <2> QED
    BY <2>1 DEF WInv, Typed, Phases
<1>3. UNCHANGED <<run, journal, active, stage, known, flagged, stale, redone, upsets>>
  BY DEF Drop, disk, past
<1> DEFINE dropped == {q \in Steps : Kind[q] = "parallel" /\ Task[q] = t /\ pc[r][q] \in Working}
           more == UNION {WorkingParts(r, p) : p \in dropped}
<1>4. aborted' = [aborted EXCEPT ![r] = (@ \ {t}) \cup more]
  BY DEF Drop
<1>5. more \subseteq {n \in Steps \ {Root} : Task[n] = n}
  BY PlanParts, WorkflowAssumption DEF WorkingParts
<1>6. /\ aborted' \in [Attempts -> SUBSET Steps]
      /\ aborted'[r] = (aborted[r] \ {t}) \cup more
      /\ \A q \in Attempts : q # r => aborted'[q] = aborted[q]
  BY <1>4, <1>5 DEF WInv, Typed
<1> HIDE DEF more
<1>7. \A q \in Attempts : pc[q] = Unbegun => pc'[q] = Unbegun
  <2>1. pc[r] = Unbegun => pc'[r] = [n \in Steps |-> pc'[r][n]] /\ \A n \in Steps : pc'[r][n] = "idle"
    BY <1>2 DEF Unbegun, Working
  <2> QED
    BY <1>2, <2>1 DEF Unbegun
<1>8. \A q \in Attempts, n \in Steps :
          /\ pc[q][n] \in {"done", "gone"} => pc'[q][n] = pc[q][n]
          /\ pc'[q][n] \notin {"gone", "landing"} => pc'[q][n] = pc[q][n]
          /\ pc'[q][n] # "idle" => pc[q][n] # "idle"
  BY <1>2 DEF Working
<1>9. Typed'
  BY <1>2, <1>3, <1>6 DEF WInv, Typed
<1>10. Shape'
  <2>1. ASSUME NEW q \in Attempts PROVE aborted'[q] \subseteq {n \in Steps \ {Root} : Task[n] = n}
    BY <1>5, <1>6 DEF WInv, Shape
  <2>2. ASSUME NEW q \in Attempts, stage'[q] \in {"idle", "looked", "read", "setup"}
        PROVE  pc'[q] = Unbegun
    BY <1>3, <1>7, <2>2 DEF WInv, Shape
  <2>3. ASSUME NEW q \in Attempts, NEW n \in Steps, pc'[q][n] # "idle", NEW m \in Earlier[n]
        PROVE  pc'[q][m] = "done"
    BY <1>8, <2>3, PlanOrder DEF WInv, Shape
  <2>4. ASSUME NEW q \in Attempts, NEW n \in Steps
        PROVE  /\ pc'[q][n] = "spawning" => Kind[n] = "parallel"
               /\ pc'[q][n] \in OfAgent => Kind[n] = "agent"
               /\ pc'[q][n] \in Working => n \notin known'[q]
    BY <1>3, <1>8 DEF WInv, Shape, OfAgent, Working
  <2> QED
    BY <2>1, <2>2, <2>3, <2>4 DEF Shape, Unbegun, OfAgent
<1>11. Recorded'
  <2>1. run' = "none" => journal' = {} /\ \A q \in Attempts : pc'[q] = Unbegun
    BY <1>3, <1>7 DEF WInv, Recorded
  <2>2. ASSUME NEW q \in Attempts, NEW n \in Steps
        PROVE  /\ pc'[q][n] = "done" => n \in journal' \cup {Root}
               /\ pc'[q][n] = "landing" => n # Root /\ Part[n] \subseteq journal'
    <3>1. pc'[q][n] = "done" => n \in journal' \cup {Root}
      BY <1>3, <1>8 DEF WInv, Recorded
    <3>2. CASE q = r /\ Task[n] = t /\ pc[r][n] \in Working
      <4>1. n # Root
        BY <1>1, <3>2, WorkflowAssumption
      <4> QED
        BY <1>2, <1>3, <3>1, <3>2, <4>1, CompletableParts
    <3>3. CASE ~(q = r /\ Task[n] = t /\ pc[r][n] \in Working)
      BY <1>2, <1>3, <3>1, <3>3 DEF WInv, Recorded
    <3> QED
      BY <3>2, <3>3
  <2>3. ASSUME NEW q \in Attempts PROVE pc'[q][Root] = "done" => Part[Root] \subseteq journal'
    BY <1>3, <1>8, WorkflowAssumption DEF WInv, Recorded
  <2> QED
    BY <1>3, <2>1, <2>2, <2>3 DEF WInv, Recorded, Unbegun
<1>12. JournalClosed'
  BY <1>3 DEF WInv, JournalClosed
<1>13. NothingOutlivesRun'
  <2> SUFFICES ASSUME NEW q \in Attempts, NEW n \in Steps \ {Root}, pc'[q][n] \in Working
               PROVE  (\E p \in Steps : pc'[q][p] \in Working /\ n \in Part[p]) \/ n \in aborted'[q]
    BY DEF NothingOutlivesRun, Chain
  <2>1. pc[q][n] \in Working
    BY <1>8 DEF Working
  <2>2. CASE q # r
    BY <1>2, <1>6, <2>1, <2>2 DEF WInv, NothingOutlivesRun, Chain
  <2>3. CASE q = r
    <3>1. Task[n] # t
      BY <1>2, <2>1, <2>3 DEF Working
    <3>2. CASE n \in aborted[r]
      BY <1>1, <1>6, <2>3, <3>1, <3>2
    <3>3. ASSUME NEW p \in Steps, pc[r][p] \in Working, n \in Part[p]
          PROVE  (\E o \in Steps : pc'[q][o] \in Working /\ n \in Part[o]) \/ n \in aborted'[q]
      <4>1. CASE Task[p] # t
        BY <1>2, <2>3, <3>3, <4>1
      <4>2. CASE Task[p] = t
        <5>1. Kind[p] = "parallel"
          BY <3>1, <3>3, <4>2, WorkflowAssumption
        <5>2. n \in more
          BY <2>1, <2>3, <3>3, <4>2, <5>1 DEF more, WorkingParts
        <5> QED
          BY <1>6, <2>3, <5>2
      <4> QED
        BY <4>1, <4>2
    <3> QED
      BY <2>1, <2>3, <3>2, <3>3 DEF WInv, NothingOutlivesRun, Chain
  <2> QED
    BY <2>2, <2>3
<1>14. Informed'
  <2> SUFFICES ASSUME NEW q \in Attempts \ stale, NEW n \in journal
               PROVE  \/ stage'[q] \in {"idle", "looked"}
                      \/ stage'[q] \in {"done", "dead"} /\ pc'[q] = Unbegun
                      \/ n \in known'[q]
                      \/ pc'[q][n] \in {"done", "gone"}
    BY <1>3 DEF Informed, Unbegun
  <2>1. n \in Steps
    BY DEF WInv, Typed
  <2> QED
    BY <1>3, <1>7, <1>8, <2>1 DEF WInv, Informed
<1>15. RedoneOnlyIfStale'
  BY <1>3 DEF WInv, RedoneOnlyIfStale
<1> QED
  BY <1>9, <1>10, <1>11, <1>12, <1>13, <1>14, <1>15 DEF WInv

-----------------------------------------------------------------------------
(* Attempts.                                                               *)

\* A step that leaves the work of every attempt alone.
LEMMA StageStep ==
    ASSUME WInv, UNCHANGED <<journal, pc, aborted, past>>,
           run' = run \/ run' \in Results,
           run' = "completed" => Part[Root] \subseteq journal,
           active' \in Attempts \cup {None}, stage' \in [Attempts -> Stages],
           known' \in [Attempts -> SUBSET Steps],
           flagged' \subseteq Attempts, upsets' \in 0 .. MaxUpsets,
           \A q \in Attempts :
              /\ known'[q] \subseteq journal
              /\ pc[q] # Unbegun => known'[q] = known[q]
              /\ pc[q] # Unbegun => stage'[q] \notin {"idle", "looked", "read", "setup"}
              /\ stage[q] \in {"idle", "looked"} =>
                    \/ stage'[q] \in {"idle", "looked", "done", "dead"}
                    \/ journal \subseteq known'[q]
              /\ journal \subseteq known[q] => journal \subseteq known'[q]
              /\ stage[q] \notin {"idle", "looked"} => known'[q] = known[q]
              /\ stage[q] \in {"done", "dead"} => stage'[q] \in {"done", "dead"}
    PROVE  WInv'
<1>0. past' = past /\ stale' = stale /\ redone' = redone
  BY DEF past
<1>1. Typed'
  BY <1>0 DEF WInv, Typed
<1>2. Shape'
  <2>1. ASSUME NEW q \in Attempts, NEW n \in Steps, pc[q][n] \in Working
        PROVE  n \notin known'[q]
    <3>1. pc[q] # Unbegun
      BY <2>1 DEF Unbegun, Working
    <3> QED
      BY <2>1, <3>1 DEF WInv, Shape
  <2> QED
    BY <2>1 DEF WInv, Shape, Unbegun, OfAgent
<1>3. Recorded'
  BY DEF WInv, Typed, Recorded, Results, Unbegun
<1>4. JournalClosed'
  BY DEF WInv, JournalClosed
<1>5. NothingOutlivesRun'
  BY DEF WInv, NothingOutlivesRun, Chain
<1>6. Informed'
  <2> SUFFICES ASSUME NEW q \in Attempts \ stale, NEW n \in journal
               PROVE  \/ stage'[q] \in {"idle", "looked"}
                      \/ stage'[q] \in {"done", "dead"} /\ pc[q] = Unbegun
                      \/ n \in known'[q]
                      \/ pc[q][n] \in {"done", "gone"}
    BY <1>0 DEF Informed, Unbegun
  <2>1. CASE stage[q] \in {"idle", "looked"}
    BY <2>1 DEF WInv, Shape
  <2>2. CASE stage[q] \notin {"idle", "looked"}
    BY <2>2 DEF WInv, Informed
  <2> QED
    BY <2>1, <2>2
<1>7. RedoneOnlyIfStale'
  BY <1>0 DEF WInv, RedoneOnlyIfStale
<1> QED
  BY <1>1, <1>2, <1>3, <1>4, <1>5, <1>6, <1>7 DEF WInv

LEMMA OpenSteps ==
    ASSUME WInv, NEW r \in Attempts,
           \/ Start(r) \/ ResumeLooks(r) \/ ResumeReads(r) \/ Reserve(r)
           \/ ResumeRefused(r) \/ SetUpFails(r)
    PROVE  WInv'
<1>1. CASE Start(r)
  BY <1>1, StageStep DEF Start, At, disk, past, WInv, Typed, Shape, Recorded, JournalClosed, Stages, Results
<1>2. CASE ResumeLooks(r)
  BY <1>2, StageStep DEF ResumeLooks, At, disk, past, WInv, Typed, Shape, Recorded, JournalClosed, Stages, Results
<1>3. CASE ResumeReads(r)
  BY <1>3, StageStep DEF ResumeReads, At, disk, past, WInv, Typed, Shape, Recorded, JournalClosed, Stages, Results
<1>4. CASE Reserve(r)
  BY <1>4, StageStep DEF Reserve, At, disk, past, WInv, Typed, Shape, Recorded, JournalClosed, Stages, Results
<1>5. CASE ResumeRefused(r)
  BY <1>5, StageStep DEF ResumeRefused, At, disk, past, WInv, Typed, Shape, Recorded, JournalClosed, Stages, Results
<1>6. CASE SetUpFails(r)
  BY <1>6, StageStep, UpsetBounded DEF SetUpFails, At, disk, past, WInv, Typed, Shape, Recorded, JournalClosed, Stages, Results
<1> QED
  BY <1>1, <1>2, <1>3, <1>4, <1>5, <1>6

LEMMA CloseSteps ==
    ASSUME WInv, NEW r \in Attempts, Finalize(r) \/ Seal(r) \/ CancelRun(r)
    PROVE  WInv'
<1>1. CASE Finalize(r)
  <2>1. run' \in Results /\ (run' = "completed" => pc[r][Root] = "done")
    BY <1>1 DEF Finalize, Result, Results, Errors
  <2> QED
    BY <1>1, <2>1, StageStep DEF Finalize, At, WInv, Typed, Shape, Recorded, Stages
<1>2. CASE Seal(r)
  BY <1>2, StageStep DEF Seal, At, disk, WInv, Typed, Shape, Recorded, JournalClosed, Stages
<1>3. CASE CancelRun(r)
  BY <1>3, StageStep, UpsetBounded DEF CancelRun, disk, WInv, Typed, Shape, Recorded, JournalClosed
<1> QED
  BY <1>1, <1>2, <1>3

\* A step of the worker itself, at its beginning or its end.
LEMMA RootStep ==
    ASSUME WInv, NEW r \in Attempts, NEW to \in {"begun", "gone"},
           pc' = [pc EXCEPT ![r][Root] = to],
           UNCHANGED <<journal, known, flagged, aborted, past>>,
           run' = "running" \/ (run' = run /\ run # "none"),
           active' \in Attempts \cup {None}, upsets' \in 0 .. MaxUpsets,
           \E s \in {"running", "done"} : stage' = [stage EXCEPT ![r] = s],
           stage[r] \notin {"idle", "looked", "done", "dead"},
           to = "gone" => \A m \in Part[Root] : pc[r][m] \in Working => m \in aborted[r]
    PROVE  WInv'
<1>0. stale' = stale /\ redone' = redone /\ Root \in Steps
  BY WorkflowAssumption DEF past
<1>1. /\ pc' \in [Attempts -> [Steps -> Phases]]
      /\ pc'[r][Root] = to
      /\ \A q \in Attempts, n \in Steps : q # r \/ n # Root => pc'[q][n] = pc[q][n]
      /\ \A q \in Attempts : q # r => pc'[q] = pc[q] /\ stage'[q] = stage[q]
      /\ stage' \in [Attempts -> Stages]
      /\ stage'[r] \in {"running", "done"}
  BY <1>0 DEF WInv, Typed, Phases, Working, Stages
<1>2. Typed'
  BY <1>0, <1>1 DEF WInv, Typed, Results
<1>3. Shape'
  <2>1. ASSUME NEW q \in Attempts, stage'[q] \in {"idle", "looked", "read", "setup"}
        PROVE  pc'[q] = Unbegun
    BY <1>1, <2>1 DEF WInv, Shape
  <2>2. ASSUME NEW q \in Attempts, NEW n \in Steps, pc'[q][n] # "idle", NEW m \in Earlier[n]
        PROVE  pc'[q][m] = "done"
    <3>1. m \in Steps \ {Root} /\ n # Root
      BY PlanOrder
    <3> QED
      BY <1>1, <2>2, <3>1 DEF WInv, Shape
  <2>3. ASSUME NEW q \in Attempts, NEW n \in Steps
        PROVE  /\ pc'[q][n] = "spawning" => Kind[n] = "parallel"
               /\ pc'[q][n] \in OfAgent => Kind[n] = "agent"
               /\ pc'[q][n] \in Working => n \notin known'[q]
    <3>1. Root \notin known[q]
      BY DEF WInv, Typed, Recorded
    <3> QED
      BY <1>1, <3>1 DEF WInv, Shape, OfAgent
  <2> QED
    BY <2>1, <2>2, <2>3 DEF WInv, Shape, Unbegun, OfAgent
<1>4. Recorded'
  BY <1>0, <1>1 DEF WInv, Typed, Recorded, Unbegun
<1>5. JournalClosed'
  BY DEF WInv, JournalClosed
<1>6. NothingOutlivesRun'
  <2> SUFFICES ASSUME NEW q \in Attempts, NEW n \in Steps \ {Root}, pc'[q][n] \in Working
               PROVE  (\E p \in Steps : pc'[q][p] \in Working /\ n \in Part[p]) \/ n \in aborted[q]
    BY DEF NothingOutlivesRun, Chain
  <2>1. pc[q][n] \in Working
    BY <1>1
  <2>2. ASSUME NEW p \in Steps, pc[q][p] \in Working, n \in Part[p]
        PROVE  (\E o \in Steps : pc'[q][o] \in Working /\ n \in Part[o]) \/ n \in aborted[q]
    <3>1. CASE q = r /\ p = Root
      <4>1. CASE to = "gone"
        BY <2>1, <2>2, <3>1, <4>1
      <4>2. CASE to = "begun"
        BY <1>0, <1>1, <2>2, <3>1, <4>2 DEF Working
      <4> QED
        BY <4>1, <4>2
    <3>2. CASE ~(q = r /\ p = Root)
      BY <1>1, <2>2, <3>2
    <3> QED
      BY <3>1, <3>2
  <2> QED
    BY <2>1, <2>2 DEF WInv, NothingOutlivesRun, Chain
<1>7. Informed'
  <2> SUFFICES ASSUME NEW q \in Attempts \ stale, NEW n \in journal
               PROVE  \/ stage'[q] \in {"idle", "looked"}
                      \/ stage'[q] \in {"done", "dead"} /\ pc'[q] = Unbegun
                      \/ n \in known[q]
                      \/ pc'[q][n] \in {"done", "gone"}
    BY <1>0 DEF Informed, Unbegun
  <2>1. n \in Steps \ {Root}
    BY DEF WInv, Typed
  <2>2. CASE q = r
    BY <1>1, <2>1, <2>2 DEF WInv, Informed
  <2>3. CASE q # r
    BY <1>1, <2>1, <2>3 DEF WInv, Informed
  <2> QED
    BY <2>2, <2>3
<1>8. RedoneOnlyIfStale'
  BY <1>0 DEF WInv, RedoneOnlyIfStale
<1> QED
  BY <1>2, <1>3, <1>4, <1>5, <1>6, <1>7, <1>8 DEF WInv

LEMMA WorkerSteps ==
    ASSUME WInv, NEW r \in Attempts, SetUp(r) \/ WorkerFails(r)
    PROVE  WInv'
<1>1. CASE SetUp(r)
  BY <1>1, RootStep DEF SetUp, At, WInv, Typed
<1>2. CASE WorkerFails(r)
  <2>1. pc[r] # Unbegun /\ Root \in Steps
    BY <1>2, WorkflowAssumption DEF WorkerFails, Unbegun, Errors
  <2>2. run # "none"
    BY <2>1 DEF WInv, Recorded
  <2>3. \A m \in Part[Root] : pc[r][m] \in Working => m \in aborted[r]
    <3>1. CASE pc[r] = [Unbegun EXCEPT ![Root] = "begun"]
      BY <3>1, PlanParts, <2>1 DEF Unbegun, Working
    <3>2. CASE pc[r][Root] \in Errors \cup {"done"}
      BY <3>2, <2>1, PartsStopped DEF Errors, Working
    <3> QED
      BY <1>2, <3>1, <3>2 DEF WorkerFails
  <2> QED
    BY <1>2, <2>2, <2>3, RootStep, UpsetBounded DEF WorkerFails, At, disk, past
<1> QED
  BY <1>1, <1>2

LEMMA CrashStep == ASSUME WInv, Crash PROVE WInv'
<1>1. /\ \A q \in Attempts : pc'[q] = Unbegun /\ aborted'[q] = {}
      /\ \A q \in Attempts : stage'[q] \in {"idle", "done", "dead"}
      /\ UNCHANGED <<journal, known, flagged, stale, redone>>
      /\ run' = run \/ run' = "running"
  BY DEF Crash, past
<1>2. Typed'
  BY UpsetBounded DEF Crash, WInv, Typed, past, Unbegun, Phases, Stages, Results
<1>3. \A q \in Attempts, n \in Steps : pc'[q][n] = "idle"
  BY <1>1 DEF Unbegun
<1>4. Shape'
  BY <1>1, <1>3 DEF WInv, Shape, Unbegun, OfAgent, Working
<1>5. Recorded'
  BY <1>1, <1>3, WorkflowAssumption DEF WInv, Recorded, Unbegun
<1>6. JournalClosed'
  BY <1>1 DEF WInv, JournalClosed
<1>7. NothingOutlivesRun'
  BY <1>3 DEF NothingOutlivesRun, Working
<1>8. Informed'
  BY <1>1 DEF Informed, Unbegun
<1>9. RedoneOnlyIfStale'
  BY <1>1 DEF WInv, RedoneOnlyIfStale
<1> QED
  BY <1>2, <1>4, <1>5, <1>6, <1>7, <1>8, <1>9 DEF WInv

LEMMA WStep == WInv /\ [Next]_vars => WInv'
<1> SUFFICES ASSUME WInv, [Next]_vars PROVE WInv'
  OBVIOUS
<1>1. CASE UNCHANGED vars
  <2>1. UNCHANGED <<run, journal, active, stage, known, flagged, pc, aborted, stale, redone, upsets>>
    BY <1>1 DEF vars
  <2>2. Typed'
    BY <2>1 DEF WInv, Typed
  <2>3. Shape'
    BY <2>1 DEF WInv, Shape, Unbegun, OfAgent
  <2>4. Recorded' /\ JournalClosed'
    BY <2>1 DEF WInv, Recorded, JournalClosed, Unbegun
  <2>5. NothingOutlivesRun' /\ Informed' /\ RedoneOnlyIfStale'
    BY <2>1 DEF WInv, NothingOutlivesRun, Chain, Informed, RedoneOnlyIfStale, Unbegun
  <2> QED
    BY <2>2, <2>3, <2>4, <2>5 DEF WInv
<1>2. CASE Crash
  BY <1>2, CrashStep
<1>3. ASSUME NEW r \in Attempts, Opens(r) \/ Closes(r) \/ CancelRun(r) PROVE WInv'
  BY <1>3, OpenSteps, CloseSteps, WorkerSteps DEF Opens, Closes
<1>4. ASSUME NEW r \in Attempts, NEW n \in Steps, Advances(r, n) \/ AgentEnds(r, n) PROVE WInv'
  BY <1>4, BeginSteps, CompleteSteps, InvokeSteps, AgentSteps, SerialSteps, ParallelSteps,
     DropSteps, LandsSteps DEF Advances
<1> QED
  BY <1>1, <1>2, <1>3, <1>4 DEF Next

-----------------------------------------------------------------------------
(* Permits.                                                                *)

Agents(r) == {n \in Steps : pc[r][n] = "agent"}

LEMMA OnlyInvokeAdds ==
    ASSUME WInv, [Next]_vars, \A r \in Attempts, n \in Steps : ~Invoke(r, n),
           NEW q \in Attempts
    PROVE  Agents(q)' \subseteq Agents(q)
<1> SUFFICES ASSUME NEW m \in Steps, pc'[q][m] = "agent" PROVE pc[q][m] = "agent"
  BY DEF Agents
<1>0. pc \in [Attempts -> [Steps -> Phases]]
  BY DEF WInv, Typed
<1>1. ASSUME NEW r \in Attempts, NEW x \in Steps, NEW to, to # "agent",
             pc' = [pc EXCEPT ![r][x] = to]
      PROVE  pc[q][m] = "agent"
  BY <1>0, <1>1
<1>2. CASE UNCHANGED vars
  BY <1>2 DEF vars
<1>3. CASE Crash
  BY <1>3 DEF Crash, Unbegun
<1>4. ASSUME NEW r \in Attempts, Opens(r) \/ Closes(r) \/ CancelRun(r)
      PROVE  pc[q][m] = "agent"
  <2>1. CASE SetUp(r) \/ WorkerFails(r)
    <3>1. Root \in Steps /\ \E to : to # "agent" /\ pc' = [pc EXCEPT ![r][Root] = to]
      BY <2>1, WorkflowAssumption DEF SetUp, WorkerFails
    <3> QED
      BY <1>1, <3>1
  <2> QED
    BY <1>4, <2>1 DEF Opens, Closes, Start, ResumeLooks, ResumeReads, Reserve, ResumeRefused,
                      SetUpFails, Finalize, Seal, CancelRun
<1>5. ASSUME NEW r \in Attempts, NEW p \in Steps, NEW x \in Part[p],
             Skip(r, p, x) \/ Begin(r, p, x) \/ BeginFails(r, p, x)
      PROVE  pc[q][m] = "agent"
  <2>1. x \in Steps /\ Begun(r, x) # "agent"
    BY PlanParts, WorkflowAssumption DEF Begun
  <2>2. \E to : to # "agent" /\ pc' = [pc EXCEPT ![r][x] = to]
    BY <1>5, <2>1 DEF Skip, Begin, BeginFails, Goes
  <2> QED
    BY <1>1, <2>1, <2>2
<1>6. ASSUME NEW r \in Attempts, NEW x \in Steps,
             \/ Complete(r, x) \/ CompleteFails(r, x) \/ AgentCancelled(r, x)
             \/ SerialEnds(r, x) \/ Spawned(r, x) \/ SpawnCancelled(r, x) \/ PartFails(r, x)
             \/ Drained(r, x) \/ Lands(r, x) \/ AgentEnds(r, x)
      PROVE  pc[q][m] = "agent"
  <2>1. \E to : to # "agent" /\ pc' = [pc EXCEPT ![r][x] = to]
    BY <1>6 DEF Complete, CompleteFails, AgentCancelled, SerialEnds, Spawned, SpawnCancelled,
                PartFails, Drained, Lands, AgentEnds, Goes, Errors
  <2> QED
    BY <1>1, <2>1
<1>7. ASSUME NEW r \in Attempts, NEW t \in Steps, Drop(r, t)
      PROVE  pc[q][m] = "agent"
  BY <1>0, <1>7 DEF Drop
<1> QED
  BY <1>2, <1>3, <1>4, <1>5, <1>6, <1>7 DEF Next, Advances

LEMMA PermitsInit == Init => PermitsKept
<1> SUFFICES ASSUME Init, NEW r \in Attempts PROVE Permits(r) <= MaxConcurrency
  BY DEF PermitsKept
<1>1. {n \in Steps : pc[r][n] = "agent"} = {}
  BY DEF Init, Unbegun
<1>2. Permits(r) = 0
  BY <1>1, FS_EmptySet DEF Permits
<1>3. MaxConcurrency \in Nat
  BY WorkflowAssumption
<1> QED
  BY <1>2, <1>3

LEMMA PermitsStep == WInv /\ PermitsKept /\ [Next]_vars => PermitsKept'
<1> SUFFICES ASSUME WInv, PermitsKept, [Next]_vars, NEW q \in Attempts
             PROVE  Cardinality(Agents(q)') <= MaxConcurrency
  BY DEF PermitsKept, Permits, Agents
<1>1. IsFiniteSet(Agents(q)) /\ Cardinality(Agents(q)) \in Nat /\ MaxConcurrency \in Nat
  BY FS_Subset, FS_CardinalityType, WorkflowAssumption DEF Agents
<1>2. Cardinality(Agents(q)) <= MaxConcurrency
  BY DEF PermitsKept, Permits, Agents
<1>3. CASE Agents(q)' \subseteq Agents(q)
  <2>1. Cardinality(Agents(q)') <= Cardinality(Agents(q)) /\ Cardinality(Agents(q)') \in Nat
    BY <1>1, <1>3, FS_Subset, FS_CardinalityType
  <2> QED
    BY <1>1, <1>2, <2>1
<1>4. ASSUME NEW r \in Attempts, NEW x \in Steps, Invoke(r, x)
      PROVE  Cardinality(Agents(q)') <= MaxConcurrency
  <2>1. pc' = [pc EXCEPT ![r][x] = "agent"] /\ pc \in [Attempts -> [Steps -> Phases]]
    BY <1>4 DEF Invoke, Goes, WInv, Typed
  <2>2. CASE q # r
    BY <1>3, <2>1, <2>2 DEF Agents
  <2>3. CASE q = r
    <3>1. Agents(q)' = Agents(q) \cup {x}
      BY <2>1, <2>3 DEF Agents
    <3>2. Cardinality(Agents(q)) < MaxConcurrency
      BY <1>4, <2>3 DEF Invoke, Permits, Agents
    <3>3. Cardinality(Agents(q) \cup {x})
              = IF x \in Agents(q) THEN Cardinality(Agents(q)) ELSE Cardinality(Agents(q)) + 1
      BY <1>1, FS_AddElement
    <3> QED
      BY <1>1, <3>1, <3>2, <3>3
  <2> QED
    BY <2>2, <2>3
<1> QED
  BY <1>3, <1>4, OnlyInvokeAdds

-----------------------------------------------------------------------------
(* The theorems.                                                           *)

\* The inductive invariant holds of every behaviour.
THEOREM WorkflowInvariant == Spec => [](WInv /\ PermitsKept)
<1>1. Init => WInv /\ PermitsKept
  BY WInit, PermitsInit
<1>2. WInv /\ PermitsKept /\ [Next]_vars => (WInv /\ PermitsKept)'
  BY WStep, PermitsStep
<1> QED
  BY <1>1, <1>2, PTL DEF Spec

\* Every variable keeps its type, and no attempt has more agents at work than it
\* has permits (the semaphore of run_agent_step).
THEOREM WorkflowTypes == Spec => []WorkflowTypeOK
<1>1. WInv /\ PermitsKept => WorkflowTypeOK
  BY DEF WInv, Typed, PermitsKept, Permits, WorkflowTypeOK
<1> QED
  BY <1>1, WorkflowInvariant, PTL

\* What the journal has complete is complete in all its parts and after all that
\* comes before it, whatever was cancelled, aborted, lost or resumed: load_journal
\* may be trusted for whole containers.
THEOREM JournalTrusted == Spec => []JournalClosed
<1>1. WInv => JournalClosed
  BY DEF WInv
<1> QED
  BY <1>1, WorkflowInvariant, PTL

\* No agent is left at work by its container without having been told to stop
\* (run_parallel_steps).
THEOREM RunsCleanUp == Spec => []NothingOutlivesRun
<1>1. WInv => NothingOutlivesRun
  BY DEF WInv
<1> QED
  BY <1>1, WorkflowInvariant, PTL

\* An agent whose step is complete is only invoked again by an attempt that read
\* the journal before another attempt appended to it (resume_workflow).
THEOREM RedoneByStale == Spec => []RedoneOnlyIfStale
<1>1. WInv => RedoneOnlyIfStale
  BY DEF WInv
<1> QED
  BY <1>1, WorkflowInvariant, PTL

=============================================================================
