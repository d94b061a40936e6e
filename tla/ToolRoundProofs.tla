-------------------------- MODULE ToolRoundProofs --------------------------
(***************************************************************************)
(* What holds of a round of tools whatever the number of tool uses.        *)
(***************************************************************************)
EXTENDS ToolRound, SequenceTheorems, TLAPS

Working == {"collect", "work", "ask", "invoke"}

\* Tasks belong to tool uses that arrived, and end before results are made up.
TaskInv ==
    /\ executions \subseteq 1 .. arrived
    /\ \A i \in Uses : run[i] = "running" => i \in executions
    /\ phase \in {"answer", "close", "over"} => executions = {}

EarlyInv ==
    phase \in {"stream", "respond"} =>
        /\ ending = "none"
        /\ next_index = 0
        /\ committed = 0
        /\ ready = <<>>
        /\ log = <<>>
        /\ hold = 0
        /\ contexts = <<>>

\* The tool uses in hand are those between the committed ones and the scheduler's
\* index, and the transcript has nothing but results.
WorkInv ==
    phase \in Working =>
        /\ ending = "none"
        /\ hold = 1
        /\ committed <= next_index
        /\ next_index <= arrived
        /\ Len(ready) = next_index - committed
        /\ \A k \in 1 .. Len(ready) : ready[k] = committed + k
        /\ phase # "collect" => Len(ready) > 0
        /\ phase \in {"ask", "invoke"} => ready[1] \notin executions
        /\ \A p \in DOMAIN log : log[p].kind = "result"

EndInv ==
    /\ phase \in {"stop", "answer", "close", "over"} => ending # "none"
    /\ phase \in {"answer", "close"} => ending \in {"denied", "cancelled"}
    /\ ending \in {"aborted", "discarded"} => hold = 0 /\ contexts = <<>>
    /\ phase = "over" /\ ending # "failed" => hold = 0 /\ contexts = <<>>
    /\ phase = "over" => ending # "discarded"

\* How far the answers have come: a prefix of the tool uses, which each phase
\* puts in relation to the scheduler's commits.
Reach(m) ==
    /\ phase \in {"stream", "respond"} => m = 0
    /\ phase \in Working => m = committed
    /\ phase = "stop" /\ ending = "continue" => m = arrived
    /\ phase \in {"stop", "answer"} /\ ending = "denied" => m >= committed + 1
    /\ phase \in {"stop", "answer"} /\ ending = "cancelled" => m >= committed
    /\ phase = "close" => m = arrived
    /\ phase = "over" /\ Settled => m = arrived

AnswerInv == \E m \in 0 .. arrived : Answered = 1 .. m /\ Reach(m)

Shape == ToolRoundTypeOK /\ TaskInv /\ EarlyInv /\ WorkInv /\ EndInv

\* The inductive invariant.
RoundInv ==
    /\ Shape
    /\ AnswerInv
    /\ ContextsFollowResults
    /\ ResultsInOrder
-----------------------------------------------------------------------------
(* The transcript.                                                         *)

\* What a step that writes nothing keeps.
LEMMA LogKept ==
    ASSUME log' = log
    PROVE  /\ Answered' = Answered
           /\ ContextsFollowResults' = ContextsFollowResults
           /\ ResultsInOrder' = ResultsInOrder
  BY DEF Answered, ContextsFollowResults, ResultsInOrder

\* The next result in order, a tool's own before anything else was written.
LEMMA LogAnswer ==
    ASSUME log \in Seq(Entries), NEW k \in Results, NEW m \in Nat, m + 1 \in 0 .. N,
           log' = Append(log, Entry(k, m + 1)),
           Answered = 1 .. m, ResultsInOrder, ContextsFollowResults,
           k = "interrupted" \/ \A p \in DOMAIN log : log[p].kind = "result"
    PROVE  /\ log' \in Seq(Entries)
           /\ Answered' = 1 .. m + 1
           /\ ResultsInOrder'
           /\ ContextsFollowResults'
           /\ k = "result" => \A p \in DOMAIN log' : log'[p].kind = "result"
<1> DEFINE e == Entry(k, m + 1)
           L == Len(log)
<1>1. e \in Entries /\ e.kind = k /\ e.use = m + 1
  BY NAssumption DEF Entry, Entries, Results
<1>2. L \in Nat /\ DOMAIN log = 1 .. L /\ log' \in Seq(Entries)
      /\ DOMAIN log' = 1 .. L + 1 /\ log'[L + 1] = e
      /\ \A p \in 1 .. L : log'[p] = log[p]
  BY <1>1
<1> HIDE DEF e, L
<1>3. Answered' = Answered \cup {m + 1}
  <2>1. ASSUME NEW u \in Answered' PROVE u \in Answered \cup {m + 1}
    BY <1>1, <1>2 DEF Answered
  <2>2. Answered \subseteq Answered'
    BY <1>1, <1>2 DEF Answered
  <2>3. m + 1 \in Answered'
    BY <1>1, <1>2 DEF Answered
  <2> QED
    BY <2>1, <2>2, <2>3
<1>4. \A p \in 1 .. L : log[p].kind \in Results => log[p].use < m + 1
  <2>1. \A p \in 1 .. L : log[p].kind \in Results => log[p].use \in Answered
    BY <1>2 DEF Answered
  <2> QED
    BY <2>1
<1>5. ResultsInOrder'
  BY <1>1, <1>2, <1>4 DEF ResultsInOrder
<1>6. ContextsFollowResults'
  BY <1>1, <1>2 DEF ContextsFollowResults, Results
<1> QED
  BY <1>1, <1>2, <1>3, <1>5, <1>6

\* Contexts, commands and notices at the end.
LEMMA LogOther ==
    ASSUME log \in Seq(Entries), NEW s \in Seq(Entries), log' = log \o s,
           \A p \in DOMAIN s : s[p].kind \notin Results,
           ResultsInOrder, ContextsFollowResults
    PROVE  /\ log' \in Seq(Entries)
           /\ Answered' = Answered
           /\ ResultsInOrder'
           /\ ContextsFollowResults'
<1> DEFINE L == Len(log)
           M == Len(s)
<1>1. /\ L \in Nat /\ M \in Nat /\ DOMAIN log = 1 .. L /\ DOMAIN s = 1 .. M
      /\ log' \in Seq(Entries) /\ DOMAIN log' = 1 .. L + M
      /\ \A p \in 1 .. L : log'[p] = log[p]
      /\ \A p \in 1 .. L + M : p > L => log'[p] = s[p - L] /\ p - L \in 1 .. M
  OBVIOUS
<1> HIDE DEF L, M
<1>2. \A p \in 1 .. L + M : p > L => log'[p].kind \notin Results
  BY <1>1
<1>3. Answered' = Answered
  <2>1. ASSUME NEW u \in Answered' PROVE u \in Answered
    BY <1>1, <1>2 DEF Answered
  <2>2. Answered \subseteq Answered'
    BY <1>1 DEF Answered
  <2> QED
    BY <2>1, <2>2
<1>4. ResultsInOrder'
  BY <1>1, <1>2 DEF ResultsInOrder
<1>5. ContextsFollowResults'
  BY <1>1, <1>2 DEF ContextsFollowResults, Results
<1> QED
  BY <1>1, <1>3, <1>4, <1>5

-----------------------------------------------------------------------------
(* The tool uses in hand.                                                  *)

\* The first of them is the next to commit.
LEMMA InHand ==
    ASSUME ToolRoundTypeOK, WorkInv, phase \in {"work", "ask", "invoke"}
    PROVE  /\ Head(ready) = committed + 1
           /\ committed + 1 \in Uses
           /\ committed + 1 <= next_index
           /\ Tail(ready) \in Seq(Uses)
           /\ Len(Tail(ready)) = next_index - (committed + 1)
           /\ \A k \in 1 .. Len(Tail(ready)) : Tail(ready)[k] = committed + 1 + k
<1> DEFINE K == Len(ready)
<1>1. /\ N \in Nat /\ committed \in Nat /\ arrived <= N /\ next_index \in Nat
      /\ committed <= next_index /\ next_index <= arrived /\ arrived \in Nat
      /\ ready \in Seq(Uses) /\ K = next_index - committed /\ K > 0 /\ K \in Nat
      /\ \A k \in 1 .. K : ready[k] = committed + k
  BY NAssumption DEF ToolRoundTypeOK, WorkInv, Working
<1>2. ready # <<>> /\ 1 \in 1 .. K
  BY <1>1
<1>3. Head(ready) = committed + 1
  BY <1>1, <1>2
<1>4. committed + 1 \in Uses
  BY <1>1 DEF Uses
<1>5. /\ Tail(ready) \in Seq(Uses)
      /\ Len(Tail(ready)) = K - 1
      /\ \A k \in 1 .. K - 1 : Tail(ready)[k] = ready[k + 1]
  BY <1>1, <1>2
<1> HIDE DEF K
<1>6. \A k \in 1 .. Len(Tail(ready)) : Tail(ready)[k] = committed + 1 + k
  BY <1>1, <1>5
<1> QED
  BY <1>1, <1>3, <1>4, <1>5, <1>6
-----------------------------------------------------------------------------
(* Steps.                                                                  *)

\* What starting a task, or not, leaves behind.
MayStart(i) ==
    /\ executions' \subseteq executions \cup {i}
    /\ executions \subseteq executions'
    /\ run' \in [Uses -> Runs]
    /\ \A j \in Uses : run'[j] = "running" => j \in executions' \/ run[j] = "running"
    /\ started' \in [Uses -> Nat]
    /\ finished' = finished

LEMMA Starts ==
    ASSUME ToolRoundTypeOK, NEW i \in Uses, StartStreamed(i) \/ NotStreamed
    PROVE  MayStart(i)
<1>1. CASE StartStreamed(i)
  BY <1>1 DEF StartStreamed, MayStart, ToolRoundTypeOK, Bump, Runs
<1>2. CASE NotStreamed
  BY <1>2 DEF NotStreamed, MayStart, ToolRoundTypeOK, tasks, events
<1> QED
  BY <1>1, <1>2

\* The tool uses in hand after one more was handed out.
Handed ==
    /\ ready' \in Seq(Uses)
    /\ Len(ready') = next_index' - committed'
    /\ Len(ready') > 0
    /\ \A k \in 1 .. Len(ready') : ready'[k] = committed' + k

LEMMA Hands ==
    ASSUME ToolRoundTypeOK, WorkInv, Collect, next_index + 1 \in Uses
    PROVE  Handed
<1>1. /\ next_index \in Nat /\ committed \in Nat /\ ready \in Seq(Uses)
      /\ committed <= next_index
      /\ Len(ready) = next_index - committed
      /\ \A k \in 1 .. Len(ready) : ready[k] = committed + k
  <2>1. phase \in Working
    BY DEF Collect, Working
  <2> QED
    BY <2>1, NAssumption DEF ToolRoundTypeOK, WorkInv
<1>2. ready' = Append(ready, next_index + 1) /\ next_index' = next_index + 1
      /\ committed' = committed
  BY DEF Collect
<1> QED
  BY <1>1, <1>2 DEF Handed

\* The response streams in, and tasks end.
LEMMA StreamKeeps ==
    ASSUME RoundInv,
           \/ ToolUseArrives
           \/ StreamCompletes
           \/ StreamFails
           \/ StreamCancelled
           \/ DiscardAttempt
           \/ \E i \in Uses : ExecutionEnds(i)
           \/ CancelTurn
           \/ InterruptTurn
    PROVE  RoundInv'
<1> USE NAssumption DEF RoundInv, Shape, Uses, stream, turn, tasks, round, queue, events
<1>1. CASE ToolUseArrives
  <2>a. arrived + 1 \in Uses /\ (StartStreamed(arrived + 1) \/ NotStreamed)
    BY <1>1 DEF ToolUseArrives, ToolRoundTypeOK
  <2>b. MayStart(arrived + 1)
    BY <2>a, Starts
  <2>1. ToolRoundTypeOK'
    BY <1>1, <2>b DEF ToolUseArrives, ToolRoundTypeOK, EarlyInv, WorkInv,
       Working, Phases, Endings, Runs, MayStart
  <2>2. TaskInv'
    BY <1>1, <2>a, <2>b DEF ToolUseArrives, ToolRoundTypeOK, TaskInv,
       MayStart
  <2>3. EarlyInv'
    BY <1>1 DEF ToolUseArrives, EarlyInv
  <2>4. WorkInv'
    BY <1>1 DEF ToolUseArrives, ToolRoundTypeOK, TaskInv, EarlyInv, WorkInv,
       Working
  <2>5. EndInv'
    BY <1>1 DEF ToolUseArrives, EndInv, EarlyInv, WorkInv, Working
  <2>6. AnswerInv'
    BY <1>1, LogKept DEF ToolUseArrives, AnswerInv, Reach, Settled,
       EarlyInv, WorkInv, Working, ToolRoundTypeOK
  <2> QED
    BY <1>1, <2>1, <2>2, <2>3, <2>4, <2>5, <2>6, LogKept DEF ToolUseArrives
<1>2. CASE StreamCompletes
  <2>1. ToolRoundTypeOK'
    BY <1>2 DEF StreamCompletes, ToolRoundTypeOK, EarlyInv, WorkInv,
       Working, Phases, Endings, Runs
  <2>2. TaskInv'
    BY <1>2 DEF StreamCompletes, ToolRoundTypeOK, TaskInv
  <2>3. EarlyInv'
    BY <1>2 DEF StreamCompletes, EarlyInv
  <2>4. WorkInv'
    BY <1>2 DEF StreamCompletes, ToolRoundTypeOK, TaskInv, EarlyInv,
       WorkInv, Working
  <2>5. EndInv'
    BY <1>2 DEF StreamCompletes, EndInv, EarlyInv, WorkInv, Working
  <2>6. AnswerInv'
    BY <1>2, LogKept DEF StreamCompletes, AnswerInv, Reach, Settled,
       EarlyInv, WorkInv, Working, ToolRoundTypeOK
  <2> QED
    BY <1>2, <2>1, <2>2, <2>3, <2>4, <2>5, <2>6, LogKept DEF StreamCompletes
<1>3. CASE StreamFails
  <2>1. ToolRoundTypeOK'
    BY <1>3 DEF StreamFails, Stop, ToolRoundTypeOK, EarlyInv, WorkInv,
       Working, Phases, Endings, Runs
  <2>2. TaskInv'
    BY <1>3 DEF StreamFails, Stop, ToolRoundTypeOK, TaskInv
  <2>3. EarlyInv'
    BY <1>3 DEF StreamFails, Stop, EarlyInv
  <2>4. WorkInv'
    BY <1>3 DEF StreamFails, Stop, ToolRoundTypeOK, TaskInv, EarlyInv,
       WorkInv, Working
  <2>5. EndInv'
    BY <1>3 DEF StreamFails, Stop, EndInv, EarlyInv, WorkInv, Working
  <2>6. AnswerInv'
    BY <1>3, LogKept DEF StreamFails, Stop, AnswerInv, Reach, Settled,
       EarlyInv, WorkInv, Working, ToolRoundTypeOK
  <2> QED
    BY <1>3, <2>1, <2>2, <2>3, <2>4, <2>5, <2>6, LogKept DEF StreamFails,
       Stop
<1>4. CASE StreamCancelled
  <2>1. ToolRoundTypeOK'
    BY <1>4 DEF StreamCancelled, Stop, ToolRoundTypeOK, EarlyInv, WorkInv,
       Working, Phases, Endings, Runs
  <2>2. TaskInv'
    BY <1>4 DEF StreamCancelled, Stop, ToolRoundTypeOK, TaskInv
  <2>3. EarlyInv'
    BY <1>4 DEF StreamCancelled, Stop, EarlyInv
  <2>4. WorkInv'
    BY <1>4 DEF StreamCancelled, Stop, ToolRoundTypeOK, TaskInv, EarlyInv,
       WorkInv, Working
  <2>5. EndInv'
    BY <1>4 DEF StreamCancelled, Stop, EndInv, EarlyInv, WorkInv, Working
  <2>6. AnswerInv'
    BY <1>4, LogKept DEF StreamCancelled, Stop, AnswerInv, Reach, Settled,
       EarlyInv, WorkInv, Working, ToolRoundTypeOK
  <2> QED
    BY <1>4, <2>1, <2>2, <2>3, <2>4, <2>5, <2>6, LogKept DEF
       StreamCancelled, Stop
<1>5. CASE DiscardAttempt
  <2>a. Answered = 1 .. 0
    BY <1>5 DEF DiscardAttempt, AnswerInv, Reach
  <2>1. ToolRoundTypeOK'
    BY <1>5 DEF DiscardAttempt, Stop, ToolRoundTypeOK, EarlyInv, WorkInv,
       Working, Phases, Endings, Runs
  <2>2. TaskInv'
    BY <1>5 DEF DiscardAttempt, Stop, ToolRoundTypeOK, TaskInv
  <2>3. EarlyInv'
    BY <1>5 DEF DiscardAttempt, Stop, EarlyInv
  <2>4. WorkInv'
    BY <1>5 DEF DiscardAttempt, Stop, ToolRoundTypeOK, TaskInv, EarlyInv,
       WorkInv, Working
  <2>5. EndInv'
    BY <1>5 DEF DiscardAttempt, Stop, EndInv, EarlyInv, WorkInv, Working
  <2>6. AnswerInv'
    <3>1. 0 \in 0 .. arrived' /\ Answered' = 1 .. 0
      BY <1>5, <2>a, LogKept DEF DiscardAttempt, ToolRoundTypeOK
    <3>2. Reach(0)'
      BY <1>5 DEF DiscardAttempt, Stop, Reach, Settled, EarlyInv, Working
    <3> QED
      BY <3>1, <3>2 DEF AnswerInv
  <2> QED
    BY <1>5, <2>1, <2>2, <2>3, <2>4, <2>5, <2>6, LogKept DEF DiscardAttempt,
       Stop
<1>6. ASSUME NEW i \in Uses, ExecutionEnds(i) PROVE RoundInv'
  <2>1. ToolRoundTypeOK'
    <3>1. run' \in [Uses -> Runs]
      BY <1>6 DEF ExecutionEnds, ToolRoundTypeOK, Runs
    <3>2. UNCHANGED <<stream, turn, executions, round, queue, log, events>>
      BY <1>6 DEF ExecutionEnds
    <3> QED
      BY <3>1, <3>2 DEF ToolRoundTypeOK
  <2>2. TaskInv'
    BY <1>6 DEF ExecutionEnds, ToolRoundTypeOK, TaskInv
  <2>3. EarlyInv'
    BY <1>6 DEF ExecutionEnds, EarlyInv
  <2>4. WorkInv'
    BY <1>6 DEF ExecutionEnds, ToolRoundTypeOK, TaskInv, EarlyInv, WorkInv,
       Working
  <2>5. EndInv'
    BY <1>6 DEF ExecutionEnds, EndInv, EarlyInv, WorkInv, Working
  <2>6. AnswerInv'
    BY <1>6, LogKept DEF ExecutionEnds, AnswerInv, Reach, Settled, EarlyInv,
       WorkInv, Working, ToolRoundTypeOK
  <2> QED
    BY <1>6, <2>1, <2>2, <2>3, <2>4, <2>5, <2>6, LogKept DEF ExecutionEnds
<1>7. CASE CancelTurn
  <2>1. ToolRoundTypeOK'
    BY <1>7 DEF CancelTurn, ToolRoundTypeOK, EarlyInv, WorkInv, Working,
       Phases, Endings, Runs
  <2>2. TaskInv'
    BY <1>7 DEF CancelTurn, ToolRoundTypeOK, TaskInv
  <2>3. EarlyInv'
    BY <1>7 DEF CancelTurn, EarlyInv
  <2>4. WorkInv'
    BY <1>7 DEF CancelTurn, ToolRoundTypeOK, TaskInv, EarlyInv, WorkInv,
       Working
  <2>5. EndInv'
    BY <1>7 DEF CancelTurn, EndInv, EarlyInv, WorkInv, Working
  <2>6. AnswerInv'
    BY <1>7, LogKept DEF CancelTurn, AnswerInv, Reach, Settled, EarlyInv,
       WorkInv, Working, ToolRoundTypeOK
  <2> QED
    BY <1>7, <2>1, <2>2, <2>3, <2>4, <2>5, <2>6, LogKept DEF CancelTurn
<1>8. CASE InterruptTurn
  <2>1. ToolRoundTypeOK'
    BY <1>8 DEF InterruptTurn, ToolRoundTypeOK, EarlyInv, WorkInv, Working,
       Phases, Endings, Runs
  <2>2. TaskInv'
    BY <1>8 DEF InterruptTurn, ToolRoundTypeOK, TaskInv
  <2>3. EarlyInv'
    BY <1>8 DEF InterruptTurn, EarlyInv
  <2>4. WorkInv'
    BY <1>8 DEF InterruptTurn, ToolRoundTypeOK, TaskInv, EarlyInv, WorkInv,
       Working
  <2>5. EndInv'
    BY <1>8 DEF InterruptTurn, EndInv, EarlyInv, WorkInv, Working
  <2>6. AnswerInv'
    BY <1>8, LogKept DEF InterruptTurn, AnswerInv, Reach, Settled, EarlyInv,
       WorkInv, Working, ToolRoundTypeOK
  <2> QED
    BY <1>8, <2>1, <2>2, <2>3, <2>4, <2>5, <2>6, LogKept DEF InterruptTurn
<1> QED
  BY <1>1, <1>2, <1>3, <1>4, <1>5, <1>6, <1>7, <1>8

\* The round begins, and hands out tool uses.
LEMMA CollectKeeps ==
    ASSUME RoundInv,
           \/ Respond
           \/ RespondFails
           \/ Collect
           \/ Collected
    PROVE  RoundInv'
<1> USE NAssumption DEF RoundInv, Shape, Uses, stream, turn, tasks, round, queue, events
<1>1. CASE Respond
  <2>1. ToolRoundTypeOK'
    BY <1>1 DEF Respond, ToolRoundTypeOK, EarlyInv, WorkInv, Working,
       Phases, Endings, Runs
  <2>2. TaskInv'
    BY <1>1 DEF Respond, ToolRoundTypeOK, TaskInv
  <2>3. EarlyInv'
    BY <1>1 DEF Respond, EarlyInv
  <2>4. WorkInv'
    BY <1>1 DEF Respond, ToolRoundTypeOK, TaskInv, EarlyInv, WorkInv,
       Working
  <2>5. EndInv'
    BY <1>1 DEF Respond, EndInv, EarlyInv, WorkInv, Working
  <2>6. AnswerInv'
    BY <1>1, LogKept DEF Respond, AnswerInv, Reach, Settled, EarlyInv,
       WorkInv, Working, ToolRoundTypeOK
  <2> QED
    BY <1>1, <2>1, <2>2, <2>3, <2>4, <2>5, <2>6, LogKept DEF Respond
<1>2. CASE RespondFails
  <2>1. ToolRoundTypeOK'
    BY <1>2 DEF RespondFails, Dropped, ToolRoundTypeOK, EarlyInv, WorkInv,
       Working, Phases, Endings, Runs
  <2>2. TaskInv'
    BY <1>2 DEF RespondFails, Dropped, ToolRoundTypeOK, TaskInv
  <2>3. EarlyInv'
    BY <1>2 DEF RespondFails, Dropped, EarlyInv
  <2>4. WorkInv'
    BY <1>2 DEF RespondFails, Dropped, ToolRoundTypeOK, TaskInv, EarlyInv,
       WorkInv, Working
  <2>5. EndInv'
    BY <1>2 DEF RespondFails, Dropped, EndInv, EarlyInv, WorkInv, Working
  <2>6. AnswerInv'
    BY <1>2, LogKept DEF RespondFails, Dropped, AnswerInv, Reach, Settled,
       EarlyInv, WorkInv, Working, ToolRoundTypeOK
  <2> QED
    BY <1>2, <2>1, <2>2, <2>3, <2>4, <2>5, <2>6, LogKept DEF RespondFails,
       Dropped
<1>3. CASE Collect
  <2>a. next_index + 1 \in Uses /\ (StartStreamed(next_index + 1) \/ NotStreamed)
    BY <1>3 DEF Collect, ToolRoundTypeOK
  <2>b. MayStart(next_index + 1)
    BY <2>a, Starts
  <2>c. Handed
    BY <1>3, <2>a, Hands
  <2>1. ToolRoundTypeOK'
    <3>1. next_index' \in 0 .. N /\ phase' \in Phases
      BY <1>3, <2>a DEF Collect, ToolRoundTypeOK, Phases
    <3> QED
      BY <1>3, <2>a, <2>b, <2>c, <3>1 DEF Collect, MayStart, Handed, ToolRoundTypeOK
  <2>2. TaskInv'
    <3>1. /\ phase' \in {"collect", "work"} /\ arrived' = arrived
          /\ next_index + 1 \in 1 .. arrived
      BY <1>3 DEF Collect, ToolRoundTypeOK
    <3> QED
      BY <2>b, <3>1 DEF TaskInv, MayStart
  <2>3. EarlyInv'
    BY <1>3 DEF Collect, EarlyInv
  <2>4. WorkInv'
    <3>1. phase' \in {"collect", "work"} /\ next_index' <= arrived'
          /\ committed' <= next_index'
      BY <1>3 DEF Collect, WorkInv, Working, ToolRoundTypeOK
    <3> QED
      BY <1>3, <2>c, <3>1 DEF Collect, Handed, WorkInv, Working
  <2>5. EndInv'
    BY <1>3 DEF Collect, EndInv, EarlyInv, WorkInv, Working
  <2>6. AnswerInv'
    BY <1>3, LogKept DEF Collect, AnswerInv, Reach, Settled, EarlyInv,
       WorkInv, Working, ToolRoundTypeOK
  <2> QED
    BY <1>3, <2>1, <2>2, <2>3, <2>4, <2>5, <2>6, LogKept DEF Collect
<1>4. CASE Collected
  <2>a. ready = <<>> => committed = arrived
    BY <1>4 DEF Collected, WorkInv, Working, ToolRoundTypeOK
  <2>1. ToolRoundTypeOK'
    BY <1>4 DEF Collected, Stop, ToolRoundTypeOK, EarlyInv, WorkInv,
       Working, Phases, Endings, Runs
  <2>2. TaskInv'
    BY <1>4 DEF Collected, Stop, ToolRoundTypeOK, TaskInv
  <2>3. EarlyInv'
    BY <1>4 DEF Collected, Stop, EarlyInv
  <2>4. WorkInv'
    BY <1>4 DEF Collected, Stop, ToolRoundTypeOK, TaskInv, EarlyInv,
       WorkInv, Working
  <2>5. EndInv'
    BY <1>4 DEF Collected, Stop, EndInv, EarlyInv, WorkInv, Working
  <2>6. AnswerInv'
    BY <1>4, LogKept, <2>a DEF Collected, Stop, AnswerInv, Reach, Settled,
       EarlyInv, WorkInv, Working, ToolRoundTypeOK
  <2> QED
    BY <1>4, <2>1, <2>2, <2>3, <2>4, <2>5, <2>6, LogKept DEF Collected, Stop
<1> QED
  BY <1>1, <1>2, <1>3, <1>4

-----------------------------------------------------------------------------
(* Working on a tool use: what the outcomes have in common.                *)

\* The response and the scheduler's index stay; a task may be taken out of the
\* table once it has ended.
Aside ==
    /\ UNCHANGED <<arrived, attempt, cancel, registered, run, next_index>>
    /\ executions' \subseteq executions
    /\ \A j \in executions : run[j] = "running" => j \in executions'
    /\ started' \in [Uses -> Nat]
    /\ finished' \in [Uses -> Nat]

LEMMA AsideTasks ==
    ASSUME ToolRoundTypeOK, TaskInv, Aside,
           phase' \notin {"answer", "close", "over"}
    PROVE  TaskInv'
  BY DEF ToolRoundTypeOK, TaskInv, Aside

\* Its result is next, and the round goes on.
LEMMA ContinueKeeps ==
    ASSUME RoundInv, phase \in {"work", "ask", "invoke"}, Aside,
           log' = Append(log, Entry("result", committed + 1)),
           Continue(committed + 1), hold' = hold, contexts' \in Seq(Uses)
    PROVE  RoundInv'
<1> USE DEF RoundInv, Shape
<1>1. /\ committed + 1 \in Uses /\ committed + 1 <= next_index
      /\ Tail(ready) \in Seq(Uses)
      /\ Len(Tail(ready)) = next_index - (committed + 1)
      /\ \A k \in 1 .. Len(Tail(ready)) : Tail(ready)[k] = committed + 1 + k
  BY InHand
<1>2. /\ ending = "none" /\ hold = 1 /\ next_index <= arrived
      /\ \A p \in DOMAIN log : log[p].kind = "result"
      /\ phase \in Working
  BY DEF WorkInv, Working
<1>3. committed \in Nat /\ arrived \in Nat /\ next_index \in Nat
      /\ committed + 1 \in 0 .. N
  BY <1>1, NAssumption DEF ToolRoundTypeOK, Uses
<1>4. Answered = 1 .. committed
  BY <1>2 DEF AnswerInv, Reach
<1>5. /\ log' \in Seq(Entries) /\ Answered' = 1 .. committed + 1
      /\ ResultsInOrder' /\ ContextsFollowResults'
      /\ \A p \in DOMAIN log' : log'[p].kind = "result"
  BY <1>2, <1>3, <1>4, LogAnswer DEF ToolRoundTypeOK, Results
<1>6. /\ phase' \in {"collect", "work"} /\ ending' = "none"
      /\ committed' = committed + 1 /\ ready' = Tail(ready)
      /\ phase' # "collect" => ready' # <<>>
  BY <1>2 DEF Continue
<1>7. ToolRoundTypeOK'
  BY <1>1, <1>2, <1>3, <1>5, <1>6 DEF ToolRoundTypeOK, Aside, Phases, Endings
<1>8. TaskInv'
  BY <1>6, AsideTasks
<1>9. WorkInv'
  <2>1. phase' # "collect" => Len(ready') > 0
    BY <1>1, <1>6
  <2> QED
    BY <1>1, <1>2, <1>3, <1>5, <1>6, <2>1 DEF WorkInv, Working, Aside
<1>10. EarlyInv' /\ EndInv'
  BY <1>6 DEF EarlyInv, EndInv
<1>11. AnswerInv'
  <2>1. PICK m \in 0 .. N : m = committed + 1
    BY <1>3
  <2>2. Reach(m)'
    BY <1>6, <2>1 DEF Reach, Working
  <2>3. m \in 0 .. arrived'
    BY <1>1, <1>2, <1>3, <2>1 DEF Aside
  <2> QED
    BY <1>5, <2>1, <2>2, <2>3 DEF AnswerInv
<1> QED
  BY <1>5, <1>7, <1>8, <1>9, <1>10, <1>11

\* Its result is written and the round stops.
LEMMA HaltKeeps ==
    ASSUME RoundInv, phase \in {"work", "ask", "invoke"}, Aside,
           log' = Append(log, Entry("result", committed + 1)),
           NEW e \in {"denied", "cancelled"}, Halt(e),
           hold' = hold, contexts' \in Seq(Uses)
    PROVE  RoundInv'
<1> USE DEF RoundInv, Shape
<1>1. /\ committed + 1 \in Uses /\ committed + 1 <= next_index
      /\ Tail(ready) \in Seq(Uses)
  BY InHand
<1>2. /\ hold = 1 /\ next_index <= arrived /\ phase \in Working
      /\ \A p \in DOMAIN log : log[p].kind = "result"
  BY DEF WorkInv, Working
<1>3. committed \in Nat /\ arrived \in Nat /\ next_index \in Nat
      /\ committed + 1 \in 0 .. N
  BY <1>1, NAssumption DEF ToolRoundTypeOK, Uses
<1>4. Answered = 1 .. committed
  BY <1>2 DEF AnswerInv, Reach
<1>5. /\ log' \in Seq(Entries) /\ Answered' = 1 .. committed + 1
      /\ ResultsInOrder' /\ ContextsFollowResults'
  BY <1>2, <1>3, <1>4, LogAnswer DEF ToolRoundTypeOK, Results
<1>6. /\ phase' = "stop" /\ ending' = e /\ committed' = committed
      /\ ready' = Tail(ready)
  BY DEF Halt, Stop
<1>7. ToolRoundTypeOK'
  BY <1>1, <1>2, <1>5, <1>6 DEF ToolRoundTypeOK, Aside, Phases, Endings
<1>8. TaskInv'
  BY <1>6, AsideTasks
<1>9. WorkInv' /\ EarlyInv' /\ EndInv'
  BY <1>6 DEF WorkInv, EarlyInv, EndInv, Working
<1>10. AnswerInv'
  <2>1. PICK m \in 0 .. N : m = committed + 1
    BY <1>3
  <2>2. Reach(m)'
    BY <1>3, <1>6, <2>1 DEF Reach, Working
  <2>3. m \in 0 .. arrived'
    BY <1>1, <1>2, <1>3, <2>1 DEF Aside
  <2> QED
    BY <1>5, <2>1, <2>2, <2>3 DEF AnswerInv
<1> QED
  BY <1>5, <1>7, <1>8, <1>9, <1>10

\* It is cancelled, or fails, without a result.
LEMMA QuitKeeps ==
    ASSUME RoundInv, phase \in {"work", "ask", "invoke"}, Aside, log' = log,
           NEW e \in {"cancelled", "failed"}, Stop(e), ready' = Tail(ready),
           committed' = committed, hold' \in 0 .. 1, contexts' \in Seq(Uses)
    PROVE  RoundInv'
<1> USE DEF RoundInv, Shape
<1>1. Tail(ready) \in Seq(Uses)
  BY InHand
<1>2. phase \in Working /\ next_index <= arrived /\ committed <= next_index
  BY DEF WorkInv, Working
<1>3. phase' = "stop" /\ ending' = e
  BY DEF Stop
<1>4. ToolRoundTypeOK'
  BY <1>1, <1>3 DEF ToolRoundTypeOK, Aside, Phases, Endings
<1>5. TaskInv'
  BY <1>3, AsideTasks
<1>6. WorkInv' /\ EarlyInv' /\ EndInv'
  BY <1>3 DEF WorkInv, EarlyInv, EndInv, Working
<1>7. AnswerInv'
  <2>1. PICK m \in 0 .. arrived : Answered = 1 .. m /\ m = committed
    BY <1>2 DEF AnswerInv, Reach
  <2>2. Reach(m)'
    BY <1>3, <2>1, NAssumption DEF Reach, Working, ToolRoundTypeOK
  <2> QED
    BY <2>1, <2>2, LogKept DEF AnswerInv, Aside
<1> QED
  BY <1>4, <1>5, <1>6, <1>7, LogKept

LEMMA Says ==
    ASSUME ToolRoundTypeOK, NEW i \in Uses, MaySay(i)
    PROVE  hold' = hold /\ contexts' \in Seq(Uses)
<1>1. contexts \in Seq(Uses) /\ Append(contexts, i) \in Seq(Uses)
  BY DEF ToolRoundTypeOK
<1> QED
  BY <1>1 DEF MaySay

LEMMA WritesResult ==
    ASSUME ToolRoundTypeOK, NEW i \in Uses, WriteResult(i)
    PROVE  /\ log' = Append(log, Entry("result", i))
           /\ started' \in [Uses -> Nat]
           /\ finished' \in [Uses -> Nat]
<1>1. started \in [Uses -> Nat] /\ finished \in [Uses -> Nat]
  BY DEF ToolRoundTypeOK
<1>2. Bump(finished, i) \in [Uses -> Nat]
  BY <1>1 DEF Bump
<1> QED
  BY <1>1, <1>2 DEF WriteResult

LEMMA WorkKeeps ==
    ASSUME RoundInv,
           \/ WorkStreamed \/ WorkStreamedFails \/ WorkCancelled
           \/ WorkUnknownTool \/ WorkDenied \/ WorkAsks \/ AskInterrupted
           \/ Invoke \/ InvokeEnds \/ InvokeInterrupted \/ TrustInterrupted
           \/ WorkFails
    PROVE  RoundInv'
<1> USE DEF stream, turn, tasks, queue, events
<1>1. /\ ToolRoundTypeOK /\ TaskInv /\ EarlyInv /\ WorkInv /\ EndInv
  BY DEF RoundInv, Shape
<1>2. /\ phase \in {"work", "ask", "invoke"}
      /\ Head(ready) = committed + 1 /\ committed + 1 \in Uses
  <2>1. phase \in {"work", "ask", "invoke"}
    BY DEF WorkStreamed, WorkStreamedFails, WorkCancelled, WorkUnknownTool,
       WorkDenied, WorkAsks, AskInterrupted, Invoke, InvokeEnds,
       InvokeInterrupted, TrustInterrupted, WorkFails
  <2> QED
    BY <1>1, <2>1, InHand
<1>3. contexts \in Seq(Uses) /\ hold \in 0 .. 1 /\ committed \in 0 .. N
  BY <1>1 DEF ToolRoundTypeOK
<1>4. CASE WorkStreamed
  <2>1. /\ Aside
        /\ log' = Append(log, Entry("result", committed + 1))
        /\ hold' = hold /\ contexts' \in Seq(Uses)
    <3>1. /\ WriteResult(committed + 1)
          /\ committed + 1 \in executions /\ run[committed + 1] \in {"ok", "stopped"}
          /\ executions' = executions \ {committed + 1}
          /\ UNCHANGED <<stream, turn, run, next_index, queue>>
      BY <1>2, <1>4 DEF WorkStreamed
    <3> QED
      BY <1>1, <1>2, <1>3, <3>1, WritesResult DEF Aside
  <2>2. Continue(committed + 1) \/ Halt("cancelled")
    BY <1>2, <1>4 DEF WorkStreamed
  <2> QED
    BY <1>2, <2>1, <2>2, ContinueKeeps, HaltKeeps
<1>5. CASE WorkStreamedFails
  <2>1. Aside /\ Fail
    BY <1>1, <1>5 DEF WorkStreamedFails, Fail, Aside, ToolRoundTypeOK
  <2> QED
    BY <1>2, <2>1, QuitKeeps DEF Fail
<1>6. CASE WorkCancelled \/ AskInterrupted \/ TrustInterrupted
  <2>1. /\ Aside /\ Halt("cancelled")
        /\ UNCHANGED <<log, hold, contexts>>
    BY <1>1, <1>6 DEF WorkCancelled, AskInterrupted, TrustInterrupted, Aside,
       ToolRoundTypeOK
  <2> QED
    BY <1>2, <1>3, <2>1, QuitKeeps DEF Halt
<1>7. CASE WorkUnknownTool
  <2>1. /\ Aside /\ Continue(committed + 1)
        /\ log' = Append(log, Entry("result", committed + 1))
        /\ hold' = hold /\ contexts' \in Seq(Uses)
    <3>1. /\ WriteResult(committed + 1) /\ Continue(committed + 1)
          /\ UNCHANGED <<stream, turn, tasks, next_index, queue>>
      BY <1>2, <1>7 DEF WorkUnknownTool
    <3> QED
      BY <1>1, <1>2, <1>3, <3>1, WritesResult DEF Aside
  <2> QED
    BY <1>2, <2>1, ContinueKeeps
<1>8. CASE WorkDenied \/ InvokeInterrupted
  <2>1. WriteResult(committed + 1) /\ MaySay(committed + 1)
        /\ UNCHANGED <<stream, turn, tasks, next_index>>
    BY <1>2, <1>8 DEF WorkDenied, InvokeInterrupted
  <2>3. /\ Aside
        /\ log' = Append(log, Entry("result", committed + 1))
    BY <1>1, <1>2, <2>1, WritesResult DEF Aside
  <2>2. Halt("denied") \/ Halt("cancelled")
    BY <1>8 DEF WorkDenied, InvokeInterrupted
  <2> QED
    BY <1>1, <1>2, <2>1, <2>2, <2>3, Says, HaltKeeps
<1>9. CASE InvokeEnds
  <2>1. WriteResult(committed + 1) /\ MaySay(committed + 1)
        /\ Continue(committed + 1)
        /\ UNCHANGED <<stream, turn, tasks, next_index>>
    BY <1>2, <1>9 DEF InvokeEnds
  <2>2. /\ Aside
        /\ log' = Append(log, Entry("result", committed + 1))
    BY <1>1, <1>2, <2>1, WritesResult DEF Aside
  <2> QED
    BY <1>1, <1>2, <2>1, <2>2, Says, ContinueKeeps
<1>10. CASE WorkFails
  <2>1. Aside /\ Fail
    BY <1>1, <1>10 DEF WorkFails, Fail, Aside, ToolRoundTypeOK
  <2> QED
    BY <1>2, <2>1, QuitKeeps DEF Fail
<1>11. CASE WorkAsks \/ Invoke
  <2>1. /\ UNCHANGED <<stream, turn, tasks, ending, next_index, ready, committed,
                         queue, log, finished>>
        /\ phase \in {"work", "ask"} /\ phase' \in {"ask", "invoke"}
        /\ Head(ready) \notin executions
        /\ started' = started \/ started' = Bump(started, committed + 1)
    BY <1>2, <1>11 DEF WorkAsks, Invoke, Inline
  <2>5. started' \in [Uses -> Nat]
    <3>1. started \in [Uses -> Nat] /\ Bump(started, committed + 1) \in [Uses -> Nat]
      BY <1>1, <1>2 DEF Bump, ToolRoundTypeOK
    <3> QED
      BY <2>1, <3>1
  <2>2. ToolRoundTypeOK' /\ TaskInv' /\ EarlyInv' /\ EndInv'
    BY <1>1, <2>1, <2>5 DEF ToolRoundTypeOK, TaskInv, EarlyInv, EndInv, WorkInv,
       Working, Phases
  <2>3. WorkInv'
    BY <1>1, <1>2, <2>1 DEF WorkInv, Working, ToolRoundTypeOK
  <2>4. AnswerInv'
    BY <2>1, LogKept DEF RoundInv, AnswerInv, Reach, Working
  <2> QED
    BY <2>1, <2>2, <2>3, <2>4, LogKept DEF RoundInv, Shape
<1> QED
  BY <1>4, <1>5, <1>6, <1>7, <1>8, <1>9, <1>10, <1>11

-----------------------------------------------------------------------------
(* The end of the round.                                                   *)

LEMMA SaidAreContexts ==
    ASSUME ToolRoundTypeOK
    PROVE  /\ Said \in Seq(Entries)
           /\ Len(Said) = Len(contexts)
           /\ \A p \in DOMAIN Said : Said[p].kind \notin Results
<1>1. contexts \in Seq(Uses) /\ N \in Nat
  BY NAssumption DEF ToolRoundTypeOK
<1>2. \A i \in Uses : Entry("context", i) \in Entries
                      /\ Entry("context", i).kind \notin Results
  BY <1>1 DEF Entry, Entries, Results, Uses
<1>3. DOMAIN contexts = 1 .. Len(contexts) /\ Len(contexts) \in Nat
      /\ \A p \in 1 .. Len(contexts) : contexts[p] \in Uses
  BY <1>1
<1>4. Said = [p \in 1 .. Len(contexts) |-> Entry("context", contexts[p])]
  BY <1>3 DEF Said
<1>5. Said \in [1 .. Len(contexts) -> Entries]
  BY <1>2, <1>3, <1>4
<1> QED
  BY <1>2, <1>3, <1>4, <1>5

\* A flush, whole or in part, then a command or a notice.
LEMMA Flushed ==
    ASSUME ToolRoundTypeOK, ResultsInOrder, ContextsFollowResults,
           NEW rest \in {<<>>, <<Entry("command", 0)>>, <<Entry("notice", 0)>>},
           log' = (log \o Said) \o rest
    PROVE  /\ log' \in Seq(Entries)
           /\ Answered' = Answered
           /\ ResultsInOrder'
           /\ ContextsFollowResults'
<1>1. /\ Said \in Seq(Entries)
      /\ \A p \in 1 .. Len(Said) : Said[p].kind \notin Results
  BY SaidAreContexts
<1>2. log \in Seq(Entries)
  BY DEF ToolRoundTypeOK
<1>3. /\ rest \in Seq(Entries)
      /\ \A p \in 1 .. Len(rest) : rest[p].kind \notin Results
  <2>1. \A e \in {Entry("command", 0), Entry("notice", 0)} :
            e \in Entries /\ e.kind \notin Results
    BY NAssumption DEF Entry, Entries, Results
  <2>2. CASE rest = <<>>
    BY <2>2
  <2>3. CASE rest = <<Entry("command", 0)>>
    BY <2>1, <2>3
  <2>4. CASE rest = <<Entry("notice", 0)>>
    BY <2>1, <2>4
  <2> QED
    BY <2>2, <2>3, <2>4
<1>4. /\ Said \o rest \in Seq(Entries)
      /\ \A p \in DOMAIN (Said \o rest) : (Said \o rest)[p].kind \notin Results
  <2> DEFINE s == Said
  <2>1. s \in Seq(Entries) /\ \A p \in 1 .. Len(s) : s[p].kind \notin Results
    BY <1>1
  <2> HIDE DEF s
  <2>2. /\ s \o rest \in Seq(Entries)
        /\ \A p \in DOMAIN (s \o rest) : (s \o rest)[p].kind \notin Results
    BY <1>3, <2>1
  <2> QED
    BY <2>2 DEF s
<1>5. log' = log \o (Said \o rest)
  <2> DEFINE s == Said
  <2>1. s \in Seq(Entries)
    BY <1>1
  <2> HIDE DEF s
  <2>2. rest \in Seq(Entries)
    BY <1>3
  <2>3. (log \o s) \o rest = log \o (s \o rest)
    BY <1>2, <2>1, <2>2, ConcatAssociative
  <2> QED
    BY <2>3 DEF s
<1> QED
  BY <1>2, <1>4, <1>5, LogOther

\* A task is stopped.
LEMMA StopKeeps ==
    ASSUME RoundInv, NEW i \in Uses, StopExecution(i)
    PROVE  RoundInv'
<1> USE DEF RoundInv, Shape, StopExecution, stream, turn, round, queue
<1>1. finished' \in [Uses -> Nat]
  <2>1. finished \in [Uses -> Nat] /\ Bump(finished, i) \in [Uses -> Nat]
    BY DEF Bump, ToolRoundTypeOK
  <2> QED
    BY <2>1
<1>2. ToolRoundTypeOK'
  BY <1>1 DEF ToolRoundTypeOK, Runs
<1>3. TaskInv'
  BY DEF TaskInv, ToolRoundTypeOK
<1>4. EarlyInv' /\ WorkInv' /\ EndInv'
  BY DEF EarlyInv, WorkInv, Working, EndInv
<1>5. AnswerInv'
  BY LogKept DEF AnswerInv, Reach, Settled, Working
<1> QED
  BY <1>2, <1>3, <1>4, <1>5, LogKept

\* Leaving the round behind, or on to the made-up results.
LEMMA PassKeeps ==
    ASSUME RoundInv, phase \in {"stop", "answer", "close"}, executions = {},
           UNCHANGED <<stream, turn, tasks, next_index, ready, committed, events>>,
           phase' \in {"answer", "close", "over"}, ending' \in Endings,
           hold' \in 0 .. 1, contexts' \in Seq(Uses), log' \in Seq(Entries),
           Answered' = Answered, ResultsInOrder', ContextsFollowResults', EndInv',
           NEW m \in 0 .. arrived, Answered = 1 .. m, Reach(m)'
    PROVE  RoundInv'
<1> USE DEF RoundInv, Shape, stream, turn, tasks, events
<1>1. ToolRoundTypeOK'
  BY DEF ToolRoundTypeOK, Phases
<1>2. TaskInv' /\ EarlyInv' /\ WorkInv'
  BY DEF TaskInv, EarlyInv, WorkInv, Working
<1>3. AnswerInv'
  BY DEF AnswerInv
<1> QED
  BY <1>1, <1>2, <1>3

\* The round ends without a result of its own.
LEMMA EndKeeps ==
    ASSUME RoundInv,
           \/ EndContinue \/ EndDenied \/ EndCancelled \/ EndWithoutRound
           \/ AnswersDone \/ Close \/ EndFails
    PROVE  RoundInv' /\ Answered' = Answered
<1> USE DEF stream, turn, tasks, queue, events
<1>1. /\ ToolRoundTypeOK /\ TaskInv /\ EndInv
      /\ ResultsInOrder /\ ContextsFollowResults
  BY DEF RoundInv, Shape
<1>2. PICK m \in 0 .. arrived : Answered = 1 .. m /\ Reach(m)
  BY DEF RoundInv, AnswerInv
<1>3. /\ contexts \in Seq(Uses) /\ <<>> \in Seq(Uses) /\ hold \in 0 .. 1
      /\ log \in Seq(Entries) /\ ending \in Endings /\ arrived \in 0 .. N
      /\ committed \in 0 .. N /\ N \in Nat
  BY <1>1, NAssumption DEF ToolRoundTypeOK
<1>4. /\ phase \in {"stop", "answer", "close"} /\ executions = {}
  BY <1>1 DEF EndContinue, EndDenied, EndCancelled, EndWithoutRound, AnswersDone,
     Close, EndFails, TaskInv
<1>5. CASE EndContinue
  <2>1. PICK rest \in {<<>>, <<Entry("command", 0)>>} : Flush(rest)
    BY <1>5 DEF EndContinue
  <2>2. /\ log' \in Seq(Entries) /\ Answered' = Answered
        /\ ResultsInOrder' /\ ContextsFollowResults'
    BY <1>1, <1>3, <2>1, Flushed DEF Flush
  <2>3. EndInv' /\ Reach(m)'
    BY <1>2, <1>5, <2>1
       DEF EndContinue, Over, Flush, EndInv, Reach, Settled, Working
  <2> QED
    BY <1>2, <1>3, <1>4, <1>5, <2>1, <2>2, <2>3, PassKeeps
       DEF EndContinue, Over, Flush
<1>6. CASE EndDenied
  <2>1. Flush(<<>>)
    BY <1>6 DEF EndDenied
  <2>2. /\ log' \in Seq(Entries) /\ Answered' = Answered
        /\ ResultsInOrder' /\ ContextsFollowResults'
    BY <1>1, <1>3, <2>1, Flushed DEF Flush
  <2>3. EndInv' /\ Reach(m)'
    BY <1>2, <1>6, <2>1 DEF EndDenied, EndInv, Reach, Settled, Working
  <2> QED
    BY <1>2, <1>3, <1>4, <1>6, <2>1, <2>2, <2>3, PassKeeps DEF EndDenied, Flush
<1>7. CASE EndCancelled
  <2>1. EndInv' /\ Reach(m)'
    BY <1>1, <1>2, <1>7 DEF EndCancelled, EndInv, Reach, Settled, Working
  <2> QED
    BY <1>1, <1>2, <1>3, <1>4, <1>7, <2>1, LogKept, PassKeeps DEF EndCancelled
<1>8. CASE EndWithoutRound
  <2> DEFINE notice == <<Entry("notice", 0)>>
  <2>1. log' = log \/ log' = log \o notice
    <3>1. Entry("notice", 0) \in Entries
      BY <1>3 DEF Entry, Entries
    <3>2. Append(log, Entry("notice", 0)) = log \o notice
      BY <1>3, <3>1, AppendIsConcat
    <3> QED
      BY <1>8, <3>2 DEF EndWithoutRound
  <2>2. /\ log' \in Seq(Entries) /\ Answered' = Answered
        /\ ResultsInOrder' /\ ContextsFollowResults'
    <3>1. CASE log' = log
      BY <1>1, <1>3, <3>1, LogKept
    <3>2. CASE log' = log \o notice
      <4>1. notice \in Seq(Entries) /\ \A p \in DOMAIN notice : notice[p].kind \notin Results
        BY <1>3 DEF Entry, Entries, Results
      <4> QED
        BY <1>1, <1>3, <3>2, <4>1, LogOther
    <3> QED
      BY <2>1, <3>1, <3>2
  <2>3. ending' \in {"failed", "aborted"} /\ EndInv'
    BY <1>1, <1>8 DEF EndWithoutRound, Over, EndInv
  <2>4. Reach(m)'
    BY <1>8, <2>3 DEF EndWithoutRound, Over, Reach, Settled, Working
  <2> QED
    BY <1>2, <1>3, <1>4, <1>8, <2>2, <2>3, <2>4, PassKeeps
       DEF EndWithoutRound, Over, Endings
<1>9. CASE AnswersDone
  <2>1. m = arrived
    BY <1>1, <1>2, <1>3, <1>9
       DEF AnswersDone, Remaining, Reach, EndInv
  <2>2. EndInv' /\ Reach(m)'
    BY <1>1, <1>9, <2>1 DEF AnswersDone, EndInv, Reach, Settled, Working
  <2> QED
    BY <1>1, <1>2, <1>3, <1>4, <1>9, <2>2, LogKept, PassKeeps DEF AnswersDone
<1>10. CASE Close
  <2>1. PICK rest \in {<<>>, <<Entry("notice", 0)>>} : Flush(rest)
    BY <1>10 DEF Close
  <2>2. /\ log' \in Seq(Entries) /\ Answered' = Answered
        /\ ResultsInOrder' /\ ContextsFollowResults'
    BY <1>1, <1>3, <2>1, Flushed DEF Flush
  <2>3. EndInv' /\ Reach(m)'
    BY <1>1, <1>2, <1>10, <2>1
       DEF Close, Over, Flush, EndInv, Reach, Settled, Working
  <2> QED
    BY <1>2, <1>3, <1>4, <1>10, <2>1, <2>2, <2>3, PassKeeps DEF Close, Over, Flush
<1>11. CASE EndFails
  <2>1. /\ log' \in Seq(Entries) /\ Answered' = Answered
        /\ ResultsInOrder' /\ ContextsFollowResults'
    <3>1. CASE log' = log
      BY <1>1, <1>3, <3>1, LogKept
    <3>2. ASSUME NEW k \in 0 .. Len(contexts), log' = log \o SubSeq(Said, 1, k)
          PROVE  /\ log' \in Seq(Entries) /\ Answered' = Answered
                 /\ ResultsInOrder' /\ ContextsFollowResults'
      <4>1. /\ SubSeq(Said, 1, k) \in Seq(Entries)
            /\ \A p \in DOMAIN SubSeq(Said, 1, k) :
                  SubSeq(Said, 1, k)[p].kind \notin Results
        <5>1. /\ Said \in Seq(Entries) /\ k \in 0 .. Len(Said)
              /\ \A p \in 1 .. Len(Said) : Said[p].kind \notin Results
          BY <1>1, SaidAreContexts
        <5> HIDE DEF Said
        <5>2. /\ SubSeq(Said, 1, k) \in Seq(Entries) /\ Len(SubSeq(Said, 1, k)) = k
              /\ \A p \in 1 .. k : SubSeq(Said, 1, k)[p] = Said[p]
          BY <5>1
        <5> QED
          BY <5>1, <5>2
      <4> QED
        BY <1>1, <1>3, <3>2, <4>1, LogOther
    <3> QED
      BY <1>11, <3>1, <3>2 DEF EndFails
  <2>2. /\ phase' = "over" /\ ending' = "failed"
        /\ hold' \in 0 .. 1 /\ contexts' \in Seq(Uses)
    <3>1. \/ hold' = hold /\ contexts' = contexts
          \/ hold' = 0 /\ contexts' = <<>>
      BY <1>11 DEF EndFails
    <3>2. hold' \in 0 .. 1 /\ contexts' \in Seq(Uses)
      <4>1. CASE hold' = hold /\ contexts' = contexts
        BY <1>3, <4>1
      <4>2. CASE hold' = 0 /\ contexts' = <<>>
        BY <1>3, <4>2
      <4> QED
        BY <3>1, <4>1, <4>2
    <3> QED
      BY <1>11, <3>2 DEF EndFails, Over
  <2>3. EndInv' /\ Reach(m)'
    BY <2>2 DEF EndInv, Reach, Settled, Working
  <2> QED
    BY <1>2, <1>3, <1>4, <1>11, <2>1, <2>2, <2>3, PassKeeps
       DEF EndFails, Over, Endings
<1> QED
  BY <1>5, <1>6, <1>7, <1>8, <1>9, <1>10, <1>11

\* Those that are left are those above the answered ones, so the least of them is
\* the next.
LEMMA Unanswered ==
    ASSUME ToolRoundTypeOK, EndInv, phase = "answer",
           NEW m \in 0 .. arrived, Answered = 1 .. m, Reach(m)
    PROVE  /\ Remaining \ Answered = m + 1 .. arrived
           /\ \A i \in Remaining \ Answered :
                 (\A j \in Remaining \ Answered : i <= j)
                 => i = m + 1 /\ m + 1 \in 1 .. arrived
<1>1. arrived \in Nat /\ committed \in Nat /\ m \in Nat /\ m <= arrived
  BY NAssumption DEF ToolRoundTypeOK
<1>2. PICK k \in Nat : Remaining = k .. arrived /\ k <= m + 1 /\ k >= 1
  <2>1. CASE ending = "denied"
    BY <1>1, <2>1 DEF Remaining, Reach
  <2>2. CASE ending = "cancelled"
    BY <1>1, <2>2 DEF Remaining, Reach
  <2> QED
    BY <2>1, <2>2 DEF EndInv
<1>3. Remaining \ Answered = m + 1 .. arrived
  BY <1>1, <1>2
<1>4. ASSUME NEW i \in m + 1 .. arrived, \A j \in m + 1 .. arrived : i <= j
      PROVE  i = m + 1 /\ m + 1 \in 1 .. arrived
  <2>1. i \in Nat /\ m + 1 <= i /\ i <= arrived
    BY <1>1
  <2>2. m + 1 \in m + 1 .. arrived
    BY <1>1, <2>1
  <2> QED
    BY <1>1, <1>4, <2>1, <2>2
<1> QED
  BY <1>3, <1>4

\* A result is made up for the next tool use without one.
LEMMA AnswerKeeps ==
    ASSUME RoundInv, AnswerNext
    PROVE  RoundInv'
<1> USE DEF stream, turn, tasks, round, queue
<1>1. /\ ToolRoundTypeOK /\ TaskInv /\ EndInv
      /\ ResultsInOrder /\ ContextsFollowResults
  BY DEF RoundInv, Shape
<1>2. PICK m \in 0 .. arrived : Answered = 1 .. m /\ Reach(m)
  BY DEF RoundInv, AnswerInv
<1>3. arrived \in 0 .. N /\ committed \in 0 .. N /\ N \in Nat
      /\ log \in Seq(Entries) /\ finished \in [Uses -> Nat]
  BY <1>1, NAssumption DEF ToolRoundTypeOK
<1>4. PICK i \in Remaining \ Answered :
          /\ \A j \in Remaining \ Answered : i <= j
          /\ log' = Append(log, Entry("interrupted", i))
          /\ finished' = Bump(finished, i)
  BY DEF AnswerNext
<1>5. i = m + 1 /\ m + 1 \in 1 .. arrived /\ m + 1 \in Uses
  <2>1. phase = "answer"
    BY DEF AnswerNext
  <2>2. i = m + 1 /\ m + 1 \in 1 .. arrived
    BY <1>1, <1>2, <1>4, <2>1, Unanswered
  <2> QED
    BY <1>3, <2>2 DEF Uses
<1>6. /\ log' \in Seq(Entries) /\ Answered' = 1 .. m + 1
      /\ ResultsInOrder' /\ ContextsFollowResults'
  BY <1>1, <1>2, <1>3, <1>4, <1>5, LogAnswer DEF Results
<1>7. ToolRoundTypeOK'
  BY <1>1, <1>3, <1>4, <1>5, <1>6 DEF AnswerNext, Bump, ToolRoundTypeOK
<1>8. TaskInv' /\ EarlyInv' /\ WorkInv' /\ EndInv'
  BY <1>1 DEF AnswerNext, TaskInv, EarlyInv, WorkInv, Working, EndInv
<1>9. Reach(m + 1)' /\ m + 1 \in 0 .. arrived'
  BY <1>1, <1>2, <1>3, <1>5 DEF AnswerNext, Reach, Settled, Working
<1> QED
  BY <1>6, <1>7, <1>8, <1>9 DEF RoundInv, Shape, AnswerInv

-----------------------------------------------------------------------------
(* Theorems.                                                               *)

LEMMA RoundInit == Init => RoundInv
<1> SUFFICES ASSUME Init PROVE RoundInv
  OBVIOUS
<1>1. log = <<>> /\ Answered = 1 .. 0
  BY DEF Init, Answered
<1>2. ToolRoundTypeOK
  <2>1. /\ run \in [Uses -> Runs] /\ started \in [Uses -> Nat]
        /\ finished \in [Uses -> Nat]
    BY DEF Init, Runs
  <2>2. ready \in Seq(Uses) /\ contexts \in Seq(Uses) /\ log \in Seq(Entries)
    BY DEF Init
  <2>3. cancel \in BOOLEAN /\ registered \in BOOLEAN
    BY DEF Init
  <2>4. /\ arrived \in 0 .. N /\ next_index \in 0 .. N /\ committed \in 0 .. N
        /\ hold \in 0 .. 1 /\ executions \subseteq Uses
        /\ phase \in Phases /\ ending \in Endings
        /\ attempt \in {"primary", "fallback"}
    BY NAssumption DEF Init, Phases, Endings
  <2> QED
    BY <2>1, <2>2, <2>3, <2>4 DEF ToolRoundTypeOK
<1>3. TaskInv /\ EarlyInv /\ WorkInv /\ EndInv
  BY DEF Init, TaskInv, EarlyInv, WorkInv, Working, EndInv
<1>4. AnswerInv
  <2>1. Reach(0) /\ 0 \in 0 .. arrived
    BY DEF Init, Reach, Working, Settled
  <2> QED
    BY <1>1, <2>1 DEF AnswerInv
<1>5. ResultsInOrder /\ ContextsFollowResults
  BY <1>1 DEF ResultsInOrder, ContextsFollowResults
<1> QED
  BY <1>2, <1>3, <1>4, <1>5 DEF RoundInv, Shape

LEMMA RoundNext == RoundInv /\ [Next]_vars => RoundInv'
<1> SUFFICES ASSUME RoundInv, [Next]_vars PROVE RoundInv'
  OBVIOUS
<1>1. CASE UNCHANGED vars
  <2>1. /\ ToolRoundTypeOK' /\ TaskInv' /\ EarlyInv' /\ WorkInv' /\ EndInv'
    BY <1>1 DEF vars, stream, turn, tasks, round, queue, events, RoundInv, Shape,
       ToolRoundTypeOK, TaskInv, EarlyInv, WorkInv, EndInv
  <2>2. AnswerInv'
    BY <1>1, LogKept DEF vars, stream, round, RoundInv, AnswerInv, Reach, Settled
  <2> QED
    BY <1>1, <2>1, <2>2, LogKept DEF vars, RoundInv, Shape
<1>2. CASE Next
  BY <1>2, StreamKeeps, CollectKeeps, WorkKeeps, StopKeeps, EndKeeps, AnswerKeeps
     DEF Next, Driver
<1> QED
  BY <1>1, <1>2

(* Every state of a round satisfies the invariant.                         *)
THEOREM RoundInvariant == Spec => []RoundInv
  BY RoundInit, RoundNext, PTL DEF Spec

(* The table, the scheduler's counters and the context queue keep their    *)
(* types, the depth of the hold included.                                  *)
THEOREM RoundTypes == Spec => []ToolRoundTypeOK
<1>1. RoundInv => ToolRoundTypeOK
  BY DEF RoundInv, Shape
<1> QED
  BY <1>1, RoundInvariant, PTL

(* What a hook says never comes between the results that tools wrote       *)
(* (begin_tool_result_context_queue).                                      *)
THEOREM ContextsWait == Spec => []ContextsFollowResults
<1>1. RoundInv => ContextsFollowResults
  BY DEF RoundInv
<1> QED
  BY <1>1, RoundInvariant, PTL

(* Results come in the provider's order, one for a tool use                *)
(* (ToolRoundScheduler, append_interrupted_tool_results).                  *)
THEOREM ResultsOrdered == Spec => []ResultsInOrder
<1>1. RoundInv => ResultsInOrder
  BY DEF RoundInv
<1> QED
  BY <1>1, RoundInvariant, PTL

(* When a round is over no task of it runs and the context queue is given  *)
(* back (Drop of StreamedToolUseExecution, flush_tool_result_context_queue).*)
THEOREM RoundCleansUp == Spec => []NothingOutlivesRound
<1>1. RoundInv => NothingOutlivesRound
  BY DEF RoundInv, Shape, TaskInv, EndInv, NothingOutlivesRound
<1> QED
  BY <1>1, RoundInvariant, PTL

-----------------------------------------------------------------------------
(* The events.                                                             *)

\* The endings of a round in which every completion comes with a result.
Clean == {"none", "continue", "cancelled"}

\* Completions are counted by the results, except where a response was thrown away:
\* there they are counted by the table of executions.
EventInv ==
    /\ executions \cap Answered = {}
    /\ \A i \in Uses : started[i] > 0 => i <= arrived
    /\ phase \in {"stream", "respond"} \/ ending \in {"aborted", "discarded"} =>
          \A i \in Uses : started[i] > 0 => i \in executions \/ finished[i] > 0
    /\ \A i \in Answered : finished[i] > 0
    /\ ending \in Clean =>
          \A i \in Uses : finished[i] = IF i \in Answered THEN 1 ELSE 0
    /\ ending \in {"aborted", "discarded"} =>
          \A i \in Uses : finished[i] <= 1 /\ (i \in executions => finished[i] = 0)

\* Only tool uses are answered.
LEMMA AnsweredUses == RoundInv => Answered \subseteq Uses
<1> SUFFICES ASSUME RoundInv PROVE Answered \subseteq Uses
  OBVIOUS
<1>1. arrived \in 0 .. N /\ N \in Nat
  BY NAssumption DEF RoundInv, Shape, ToolRoundTypeOK
<1>2. PICK m \in 0 .. arrived : Answered = 1 .. m
  BY DEF RoundInv, AnswerInv
<1> QED
  BY <1>1, <1>2 DEF Uses

\* A step that announces nothing and writes no result.
LEMMA EventsRest ==
    ASSUME RoundInv, EventInv, UNCHANGED <<events, arrived>>, Answered' = Answered,
           executions' \subseteq executions,
           \/ ending' \in {"failed", "denied"} /\ phase' \notin {"stream", "respond"}
           \/ /\ ending \in Clean /\ ending' \in Clean
              /\ phase' \in {"stream", "respond"} =>
                    phase \in {"stream", "respond"} /\ executions' = executions
           \/ /\ phase \in {"stream", "respond"} \/ ending \in {"aborted", "discarded"}
              /\ ending' \in {"aborted", "discarded"} /\ executions' = executions
    PROVE  EventInv'
<1>1. started' = started /\ finished' = finished /\ arrived' = arrived
  BY DEF events
<1>2. CASE ending' \in {"failed", "denied"} /\ phase' \notin {"stream", "respond"}
  BY <1>1, <1>2 DEF EventInv, Clean
<1>3. CASE /\ ending \in Clean /\ ending' \in Clean
           /\ phase' \in {"stream", "respond"} =>
                 phase \in {"stream", "respond"} /\ executions' = executions
  BY <1>1, <1>3 DEF EventInv, Clean
<1>4. CASE /\ phase \in {"stream", "respond"} \/ ending \in {"aborted", "discarded"}
           /\ ending' \in {"aborted", "discarded"} /\ executions' = executions
  <2>1. \A i \in Uses : finished[i] <= 1 /\ (i \in executions => finished[i] = 0)
    <3>1. CASE phase \in {"stream", "respond"}
      <4>1. ending = "none" /\ log = <<>>
        BY <3>1 DEF RoundInv, Shape, EarlyInv
      <4>2. Answered = {}
        BY <4>1 DEF Answered
      <4> QED
        BY <4>1, <4>2 DEF EventInv, Clean
    <3>2. CASE ending \in {"aborted", "discarded"}
      BY <3>2 DEF EventInv
    <3> QED
      BY <1>4, <3>1, <3>2
  <2> QED
    BY <1>1, <1>4, <2>1 DEF EventInv, Clean
<1> QED
  BY <1>2, <1>3, <1>4

\* A tool starts, or may have: in the table if the response still streams.
LEMMA EventsStart ==
    ASSUME RoundInv, EventInv, NEW i \in Uses, Answered' = Answered,
           started' = started \/ started' = Bump(started, i),
           finished' = finished, ending = "none", ending' = "none",
           executions' \subseteq executions \cup {i}, i \notin Answered,
           i <= arrived', arrived <= arrived', arrived' \in Nat,
           phase' \in {"stream", "respond"} =>
              /\ phase \in {"stream", "respond"}
              /\ executions \subseteq executions'
              /\ started' # started => i \in executions'
    PROVE  EventInv'
<1>1. arrived \in Nat /\ started \in [Uses -> Nat] /\ N \in Nat
  BY NAssumption DEF RoundInv, Shape, ToolRoundTypeOK
<1>2. \A j \in Uses : j # i => started'[j] = started[j]
  BY <1>1 DEF Bump
<1>3. \A j \in Uses : started'[j] > 0 => j <= arrived'
  BY <1>1, <1>2 DEF EventInv, Uses
<1>4. phase' \in {"stream", "respond"} =>
         \A j \in Uses : started'[j] > 0 => j \in executions' \/ finished'[j] > 0
  BY <1>2 DEF EventInv
<1> QED
  BY <1>3, <1>4 DEF EventInv, Clean

\* A result, and the event after it.
LEMMA EventsAnswer ==
    ASSUME RoundInv, EventInv, NEW i \in Uses, i \notin Answered,
           Answered' = Answered \cup {i}, Answered \subseteq Uses,
           finished' = Bump(finished, i), UNCHANGED <<started, arrived>>,
           phase' \notin {"stream", "respond"},
           executions' \subseteq executions \ {i},
           \/ ending' = "denied"
           \/ ending \in Clean /\ ending' \in Clean
    PROVE  EventInv'
<1>1. finished \in [Uses -> Nat]
  BY DEF RoundInv, Shape, ToolRoundTypeOK
<1>2. finished'[i] = finished[i] + 1 /\ finished[i] \in Nat
      /\ \A j \in Uses : j # i => finished'[j] = finished[j]
  BY <1>1 DEF Bump
<1>3. \A j \in Answered' : finished'[j] > 0
  BY <1>2 DEF EventInv
<1>4. ending' \in Clean =>
         \A j \in Uses : finished'[j] = IF j \in Answered' THEN 1 ELSE 0
  BY <1>2 DEF EventInv, Clean
<1>5. ending' \notin {"aborted", "discarded"}
  BY DEF Clean
<1> QED
  BY <1>3, <1>4, <1>5 DEF EventInv

\* A task is stopped, and announced unless the round is cancelled.
LEMMA EventsStop ==
    ASSUME RoundInv, EventInv, NEW i \in Uses, StopExecution(i)
    PROVE  EventInv'
<1> USE DEF round, queue, stream
<1>1. finished \in [Uses -> Nat] /\ ending \in Endings
  BY DEF RoundInv, Shape, ToolRoundTypeOK
<1>2. /\ i \in executions /\ executions' = executions \ {i}
      /\ phase = "stop" /\ phase' = "stop" /\ ending' = ending /\ started' = started
      /\ arrived' = arrived /\ Answered' = Answered /\ ending # "none"
  BY LogKept DEF StopExecution, RoundInv, Shape, EndInv
<1>3. CASE ending = "cancelled"
  <2>1. finished' = finished
    BY <1>3 DEF StopExecution
  <2> QED
    BY <1>2, <1>3, <2>1 DEF EventInv, Clean
<1>4. CASE ending # "cancelled"
  <2>1. /\ finished'[i] = finished[i] + 1 /\ finished[i] \in Nat
        /\ \A j \in Uses : j # i => finished'[j] = finished[j]
    BY <1>1, <1>4 DEF StopExecution, Bump
  <2>2. CASE ending = "continue"
    <3>1. i \in 1 .. arrived /\ Answered = 1 .. arrived
      BY <1>2, <2>2 DEF RoundInv, Shape, TaskInv, AnswerInv, Reach
    <3>2. i \notin Answered
      BY <1>2 DEF EventInv
    <3> QED
      BY <3>1, <3>2
  <2>3. CASE ending # "continue"
    <3>1. \A j \in Answered' : finished'[j] > 0
      BY <1>2, <2>1, AnsweredUses DEF EventInv
    <3> QED
      BY <1>2, <1>4, <2>1, <2>3, <3>1 DEF EventInv, Clean
  <2> QED
    BY <2>2, <2>3
<1> QED
  BY <1>3, <1>4

\* A result is written for the tool use in hand, which has none and is not, or no
\* longer, in the table.
LEMMA EventsWork ==
    ASSUME RoundInv, EventInv,
           \/ WorkStreamed \/ WorkUnknownTool \/ WorkDenied \/ InvokeEnds
           \/ InvokeInterrupted
    PROVE  EventInv'
<1> DEFINE i == committed + 1
<1> USE DEF stream, turn, tasks, queue
<1>1. /\ ToolRoundTypeOK /\ WorkInv /\ AnswerInv /\ ResultsInOrder
      /\ ContextsFollowResults
  BY DEF RoundInv, Shape
<1>2. phase \in {"work", "ask", "invoke"}
  BY DEF WorkStreamed, WorkUnknownTool, WorkDenied, InvokeEnds, InvokeInterrupted
<1>3. Head(ready) = i /\ i \in Uses
  BY <1>1, <1>2, InHand
<1>4. ending = "none" /\ phase \in Working
      /\ \A p \in DOMAIN log : log[p].kind = "result"
  BY <1>1, <1>2 DEF WorkInv, Working
<1>5. Answered = 1 .. committed /\ committed \in Nat /\ i \in 0 .. N
      /\ log \in Seq(Entries)
  BY <1>1, <1>3, <1>4, NAssumption DEF AnswerInv, Reach, ToolRoundTypeOK, Uses
<1>6. WriteResult(i) /\ executions' \subseteq executions \ {i} /\ arrived' = arrived
  <2>1. CASE WorkStreamed
    BY <1>3, <2>1 DEF WorkStreamed
  <2>2. CASE WorkUnknownTool \/ WorkDenied
    BY <1>3, <2>2 DEF WorkUnknownTool, WorkDenied, Inline
  <2>3. CASE InvokeEnds \/ InvokeInterrupted
    <3>1. ready[1] \notin executions /\ ready # <<>>
      BY <1>1, <1>4, <2>3 DEF WorkInv, InvokeEnds, InvokeInterrupted
    <3>2. i \notin executions
      BY <1>1, <1>3, <3>1 DEF ToolRoundTypeOK
    <3> QED
      BY <1>3, <2>3, <3>2 DEF InvokeEnds, InvokeInterrupted
  <2> QED
    BY <2>1, <2>2, <2>3
<1>7. phase' \in {"collect", "work", "stop"} /\ ending' \in {"none", "denied", "cancelled"}
  BY <1>4 DEF WorkStreamed, WorkUnknownTool, WorkDenied, InvokeEnds,
     InvokeInterrupted, Continue, Halt, Stop
<1>8. Answered' = 1 .. committed + 1
  BY <1>1, <1>4, <1>5, <1>6, LogAnswer DEF WriteResult, Results
<1>9. i \notin Answered /\ Answered' = Answered \cup {i}
  BY <1>5, <1>8
<1> QED
  BY <1>3, <1>4, <1>6, <1>7, <1>9, AnsweredUses, EventsAnswer DEF WriteResult, Clean

\* The results made up at the end.
LEMMA EventsMadeUp ==
    ASSUME RoundInv, EventInv, AnswerNext
    PROVE  EventInv'
<1> USE DEF stream, turn, tasks, round
<1>1. /\ ToolRoundTypeOK /\ EndInv /\ ResultsInOrder /\ ContextsFollowResults
      /\ executions = {} /\ phase = "answer"
  BY DEF RoundInv, Shape, TaskInv, AnswerNext
<1>2. PICK m \in 0 .. arrived : Answered = 1 .. m /\ Reach(m)
  BY DEF RoundInv, AnswerInv
<1>3. PICK i \in Remaining \ Answered :
          /\ \A j \in Remaining \ Answered : i <= j
          /\ log' = Append(log, Entry("interrupted", i))
          /\ finished' = Bump(finished, i)
  BY DEF AnswerNext
<1>4. arrived \in 0 .. N /\ N \in Nat /\ log \in Seq(Entries)
  BY <1>1, NAssumption DEF ToolRoundTypeOK
<1>5. i = m + 1 /\ m + 1 \in 1 .. arrived
  BY <1>1, <1>2, <1>3, Unanswered
<1>6. i \in Uses /\ m \in Nat /\ m + 1 \in 0 .. N
  BY <1>2, <1>4, <1>5 DEF Uses
<1>7. Answered' = 1 .. m + 1
  BY <1>1, <1>2, <1>3, <1>4, <1>5, <1>6, LogAnswer DEF Results
<1>8. i \notin Answered /\ Answered' = Answered \cup {i}
  BY <1>2, <1>5, <1>6, <1>7
<1>9. /\ UNCHANGED <<started, arrived, ending, executions>>
      /\ phase' = "answer" /\ ending \in {"denied", "cancelled"}
  BY <1>1 DEF AnswerNext, EndInv
<1> QED
  BY <1>1, <1>3, <1>6, <1>8, <1>9, AnsweredUses, EventsAnswer DEF Clean

LEMMA EventsNext ==
    ASSUME RoundInv, EventInv, [Next]_vars
    PROVE  EventInv'
<1> USE DEF stream, turn, tasks, round, queue
<1>1. /\ ToolRoundTypeOK /\ TaskInv /\ EarlyInv /\ WorkInv /\ EndInv /\ AnswerInv
  BY DEF RoundInv, Shape
<1>2. arrived \in 0 .. N /\ N \in Nat /\ committed \in Nat /\ next_index \in Nat
  BY <1>1, NAssumption DEF ToolRoundTypeOK
<1>3. phase \in {"stream", "respond"} => ending = "none" /\ Answered = {}
  BY <1>1 DEF EarlyInv, Answered
<1>4. phase \in Working => ending = "none" /\ Answered = 1 .. committed
  BY <1>1 DEF WorkInv, AnswerInv, Reach
<1>5. CASE UNCHANGED vars \/ (\E i \in Uses : ExecutionEnds(i)) \/ CancelTurn \/ InterruptTurn
  <2>1. /\ UNCHANGED <<events, arrived, executions, phase, ending>>
        /\ Answered' = Answered
    BY <1>5, LogKept DEF vars, ExecutionEnds, CancelTurn, InterruptTurn
  <2> QED
    BY <2>1 DEF EventInv, events
<1>6. CASE ToolUseArrives
  <2> DEFINE i == arrived + 1
  <2>1. i \in Uses /\ arrived' = i /\ i \notin Answered /\ Answered' = Answered
    BY <1>2, <1>3, <1>6, LogKept DEF ToolUseArrives, Uses
  <2>2. /\ executions' \subseteq executions \cup {i} /\ executions \subseteq executions'
        /\ \/ started' = started
           \/ started' = Bump(started, i) /\ i \in executions'
        /\ finished' = finished
    BY <1>6 DEF ToolUseArrives, StartStreamed, NotStreamed, events
  <2>3. phase = "stream" /\ ending = "none" /\ ending' = "none"
    BY <1>3, <1>6 DEF ToolUseArrives
  <2> QED
    BY <1>2, <2>1, <2>2, <2>3, EventsStart
<1>7. CASE DiscardAttempt /\ executions = {}
  <2>1. /\ UNCHANGED <<events, executions, phase, ending>> /\ Answered' = {}
        /\ phase = "stream"
    BY <1>3, <1>7, LogKept DEF DiscardAttempt
  <2>2. \A i \in Uses : finished[i] = 0 /\ ~(started[i] > 0)
    BY <1>3, <1>7, <2>1 DEF EventInv, Clean
  <2> QED
    BY <1>3, <2>1, <2>2 DEF EventInv, events
<1>8. CASE Collect
  <2> DEFINE i == next_index + 1
  <2>1. /\ phase = "collect" /\ ending = "none" /\ ending' = "none"
        /\ Answered = 1 .. committed /\ committed <= next_index
        /\ phase' \in {"collect", "work"}
    BY <1>1, <1>4, <1>8 DEF Collect, WorkInv, Working
  <2>2. i \in Uses /\ i <= arrived /\ arrived' = arrived /\ i \notin Answered
        /\ Answered' = Answered
    BY <1>2, <1>8, <2>1, LogKept DEF Collect, Uses
  <2>3. /\ executions' \subseteq executions \cup {i}
        /\ started' = started \/ started' = Bump(started, i)
        /\ finished' = finished
    BY <1>8 DEF Collect, StartStreamed, NotStreamed, events
  <2> QED
    BY <1>2, <2>1, <2>2, <2>3, EventsStart
<1>9. CASE Invoke
  <2> DEFINE i == committed + 1
  <2>1. /\ phase \in {"work", "ask"} /\ phase \in Working
        /\ phase' = "invoke" /\ ending = "none" /\ ending' = "none"
        /\ Answered = 1 .. committed /\ next_index <= arrived
    BY <1>1, <1>4, <1>9 DEF Invoke, WorkInv, Working
  <2>2. Head(ready) = i /\ i \in Uses /\ i <= next_index
    BY <1>1, <2>1, InHand
  <2>3. i <= arrived /\ arrived' = arrived /\ i \notin Answered /\ Answered' = Answered
    BY <1>2, <1>9, <2>1, <2>2, LogKept DEF Invoke
  <2>4. /\ executions' = executions /\ started' = Bump(started, i)
        /\ finished' = finished
    BY <1>9, <2>2 DEF Invoke
  <2> QED
    BY <1>2, <2>1, <2>2, <2>3, <2>4, EventsStart
<1>10. CASE \/ StreamCompletes \/ StreamFails \/ StreamCancelled
            \/ DiscardAttempt /\ executions # {}
  <2>1. /\ UNCHANGED <<events, arrived, executions>> /\ Answered' = Answered
        /\ phase = "stream"
        /\ \/ phase' = "respond" /\ ending' = ending
           \/ phase' = "stop" /\ ending' \in {"failed", "aborted", "discarded"}
    BY <1>10, LogKept DEF StreamCompletes, StreamFails, StreamCancelled,
       DiscardAttempt, Stop
  <2> QED
    BY <1>3, <2>1, EventsRest DEF Clean
<1>11. CASE Respond \/ RespondFails
  <2>1. /\ UNCHANGED <<events, arrived>> /\ Answered' = Answered
        /\ executions' \subseteq executions /\ phase = "respond"
        /\ \/ phase' = "collect" /\ ending' = ending
           \/ phase' = "over" /\ ending' = "failed"
    BY <1>11, LogKept DEF Respond, RespondFails
  <2> QED
    BY <1>3, <2>1, EventsRest DEF Clean
<1>12. CASE \/ Collected \/ WorkAsks \/ WorkStreamedFails \/ WorkFails
            \/ WorkCancelled \/ AskInterrupted \/ TrustInterrupted
  <2>1. /\ UNCHANGED <<events, arrived>> /\ Answered' = Answered
        /\ executions' \subseteq executions /\ phase \in Working
        /\ phase' \in {"work", "ask", "stop"}
        /\ ending' = ending \/ ending' \in {"continue", "cancelled", "failed"}
    BY <1>12, LogKept DEF Collected, WorkAsks, WorkStreamedFails, WorkFails,
       WorkCancelled, AskInterrupted, TrustInterrupted, Fail, Halt, Stop, Working
  <2> QED
    BY <1>4, <2>1, EventsRest DEF Clean
<1>13. CASE \/ EndContinue \/ EndDenied \/ EndCancelled \/ EndWithoutRound
            \/ AnswersDone \/ Close \/ EndFails
  <2>1. Answered' = Answered
    BY <1>13, EndKeeps
  <2>2. /\ UNCHANGED <<events, arrived, executions>>
        /\ phase' \in {"answer", "close", "over"}
        /\ \/ ending' = ending /\ ending \in {"continue", "denied", "cancelled"}
           \/ ending' = "failed"
           \/ ending' = "aborted" /\ ending \in {"aborted", "discarded"}
    BY <1>1, <1>13 DEF EndContinue, EndDenied, EndCancelled, EndWithoutRound,
       AnswersDone, Close, EndFails, Over, EndInv
  <2> QED
    BY <2>1, <2>2, EventsRest DEF Clean
<1>14. Next \/ UNCHANGED vars
  OBVIOUS
<1> QED
  BY <1>5, <1>6, <1>7, <1>8, <1>9, <1>10, <1>11, <1>12, <1>13, <1>14, EventsWork,
     EventsMadeUp, EventsStop DEF Next, Driver

(* A client that saw a tool start sees it complete when its round is over,  *)
(* and once unless the round was denied: the task, the round and the       *)
(* answers made up at the end never announce the same completion           *)
(* (interrupt_streamed_tool_executions, stop_streamed_tool_executions,     *)
(* append_interrupted_tool_results).                                       *)
THEOREM EventsArePaired == Spec => []EventsPaired
<1>1. Init => EventInv
  BY NAssumption DEF Init, EventInv, Answered, Clean
<1>2. RoundInv /\ EventInv /\ [Next]_vars => EventInv'
  BY EventsNext
<1>3. RoundInv /\ EventInv => EventsPaired
  <2> SUFFICES ASSUME RoundInv, EventInv PROVE EventsPaired
    OBVIOUS
  <2>1. ToolRoundTypeOK /\ TaskInv /\ EndInv /\ AnswerInv
    BY DEF RoundInv, Shape
  <2>2. ending \in {"none", "continue", "cancelled", "aborted"} =>
            \A i \in Uses : finished[i] <= 1
    BY DEF EventInv, Clean
  <2>3. ASSUME phase = "over", ending # "failed", NEW i \in Uses, started[i] > 0
        PROVE  finished[i] > 0
    <3>1. CASE ending = "aborted"
      BY <2>1, <2>3, <3>1 DEF EventInv, TaskInv
    <3>2. CASE ending \in {"continue", "denied", "cancelled"}
      <4>1. Answered = 1 .. arrived /\ i <= arrived
        BY <2>1, <2>3, <3>2 DEF AnswerInv, Reach, Settled, EventInv
      <4>2. i \in 1 .. arrived
        BY <2>1, <4>1, NAssumption DEF Uses, ToolRoundTypeOK
      <4> QED
        BY <4>1, <4>2 DEF EventInv
    <3> QED
      BY <2>1, <2>3, <3>1, <3>2 DEF EndInv, ToolRoundTypeOK, Endings
  <2> QED
    BY <2>2, <2>3 DEF EventsPaired
<1> QED
  BY <1>1, <1>2, <1>3, RoundInvariant, PTL DEF Spec

-----------------------------------------------------------------------------
(* The contract.                                                           *)

Asking == {"stream", "respond"}
Answering == {"collect", "work", "ask", "invoke", "stop", "answer", "close"}

\* The answer of one more tool use, as the contract sees it.
OneMore ==
    /\ phase \in Answering /\ phase' \in Answering
    /\ arrived' = arrived
    /\ \E m \in Nat : /\ m + 1 <= arrived
                      /\ Answered = 1 .. m
                      /\ Answered' = 1 .. m + 1

LEMMA OneMoreAnswers ==
    ASSUME ToolRoundTypeOK, OneMore
    PROVE  Contract!Answer
<1>1. PICK m \in Nat : m + 1 <= arrived /\ Answered = 1 .. m /\ Answered' = 1 .. m + 1
  BY DEF OneMore
<1>2. /\ m + 1 \in (1 .. arrived) \ Answered
      /\ \A j \in 1 .. arrived : j < m + 1 => j \in Answered
      /\ Answered' = Answered \cup {m + 1}
      /\ 1 .. arrived' = 1 .. arrived
  <2>1. arrived \in Nat /\ arrived' = arrived
    BY NAssumption DEF OneMore, ToolRoundTypeOK
  <2>2. m + 1 \in 1 .. arrived /\ m + 1 \notin 1 .. m
    BY <1>1, <2>1
  <2>3. 1 .. m + 1 = (1 .. m) \cup {m + 1}
    BY <1>1
  <2>4. \A j \in 1 .. arrived : j < m + 1 => j \in 1 .. m
    BY <1>1, <2>1
  <2> QED
    BY <1>1, <2>1, <2>2, <2>3, <2>4
<1>3. phase \notin Asking /\ phase # "over" /\ phase' \notin Asking /\ phase' # "over"
  BY DEF OneMore, Asking, Answering
<1> QED
  BY <1>2, <1>3 DEF Contract!Answer, Asking

\* A tool's own result is one more answer.
LEMMA ResultIsOneMore ==
    ASSUME RoundInv, phase \in {"work", "ask", "invoke"}, phase' \in Answering,
           arrived' = arrived, log' = Append(log, Entry("result", committed + 1))
    PROVE  OneMore
<1>1. ToolRoundTypeOK /\ WorkInv /\ AnswerInv /\ ResultsInOrder
      /\ ContextsFollowResults
  BY DEF RoundInv, Shape
<1>2. /\ committed + 1 \in Uses /\ committed + 1 <= next_index
      /\ next_index <= arrived /\ phase \in Working /\ phase \in Answering
      /\ \A p \in DOMAIN log : log[p].kind = "result"
  BY <1>1, InHand DEF WorkInv, Working, Answering
<1>3. committed \in Nat /\ committed + 1 \in 0 .. N /\ committed + 1 <= arrived
      /\ log \in Seq(Entries)
  BY <1>1, <1>2, NAssumption DEF ToolRoundTypeOK, Uses
<1>4. Answered = 1 .. committed
  BY <1>1, <1>2 DEF AnswerInv, Reach
<1>5. Answered' = 1 .. committed + 1
  BY <1>1, <1>2, <1>3, <1>4, LogAnswer DEF Results
<1> QED
  BY <1>2, <1>3, <1>4, <1>5 DEF OneMore

\* Every step of the round is a step of the contract, or none.
LEMMA ContractStep ==
    ASSUME RoundInv, RoundInv', [Next]_vars
    PROVE  [Contract!Next]_(Contract!vars)
<1> DEFINE Quiet == arrived' = arrived /\ Answered' = Answered
<1> USE DEF stream, turn, tasks, round, queue, events
<1>1. /\ ToolRoundTypeOK /\ TaskInv /\ EarlyInv /\ WorkInv /\ EndInv /\ AnswerInv
  BY DEF RoundInv, Shape
<1>2. ToolRoundTypeOK' /\ EndInv' /\ AnswerInv'
  BY DEF RoundInv, Shape
<1>3. ASSUME Quiet, \/ phase \in Asking /\ phase' \in Asking
                    \/ phase \in Answering /\ phase' \in Answering
                    \/ phase' = phase /\ ending' = ending
      PROVE  UNCHANGED Contract!vars
  BY <1>3 DEF Contract!vars, Asking, Answering, Settled
<1>4. ASSUME Quiet, phase \in Asking, phase' \in Answering
      PROVE  Contract!Begin
  BY <1>4 DEF Contract!Begin, Asking, Answering
<1>5. ASSUME Quiet, phase \in Asking \cup Answering, phase' = "over", ~Settled'
      PROVE  Contract!Abandon
  BY <1>5 DEF Contract!Abandon, Asking, Answering
<1>6. ASSUME Quiet, phase \in Answering, phase' = "over", Settled'
      PROVE  Contract!Settle
  <2>1. Answered' = 1 .. arrived'
    BY <1>2, <1>6 DEF AnswerInv, Reach
  <2> QED
    BY <1>6, <2>1 DEF Contract!Settle, Asking, Answering
<1>7. ASSUME phase \in Asking, phase' \in Asking, log' = log
      PROVE  Contract!Ask
  BY <1>2, <1>7, LogKept DEF Contract!Ask, Asking, ToolRoundTypeOK
<1>8. CASE UNCHANGED vars
  BY <1>3, <1>8, LogKept DEF vars
<1>9. CASE ToolUseArrives \/ (DiscardAttempt /\ executions = {})
  <2>1. phase \in Asking /\ phase' \in Asking /\ log' = log
    BY <1>9 DEF ToolUseArrives, DiscardAttempt, Asking
  <2> QED
    BY <1>7, <2>1 DEF Contract!Next
<1>10. CASE \/ StreamCompletes \/ CancelTurn \/ InterruptTurn
            \/ \E i \in Uses : ExecutionEnds(i)
  <2>1. /\ Quiet
        /\ \/ phase' = phase /\ ending' = ending
           \/ phase \in Asking /\ phase' \in Asking
    BY <1>10, LogKept DEF StreamCompletes, CancelTurn, InterruptTurn, ExecutionEnds,
       Asking
  <2> QED
    BY <1>3, <2>1
<1>11. CASE \/ StreamFails \/ StreamCancelled \/ Respond
            \/ DiscardAttempt /\ executions # {}
  <2>1. Quiet /\ phase \in Asking /\ phase' \in Answering
    BY <1>11, LogKept DEF StreamFails, StreamCancelled, Respond, DiscardAttempt,
       Stop, Asking, Answering
  <2> QED
    BY <1>4, <2>1 DEF Contract!Next
<1>12. CASE RespondFails
  <2>1. Quiet /\ phase \in Asking /\ phase' = "over" /\ ~Settled'
    BY <1>12, LogKept DEF RespondFails, Asking, Settled
  <2> QED
    BY <1>5, <2>1 DEF Contract!Next
<1>13. CASE Collect \/ Collected \/ WorkAsks \/ Invoke
  <2>1. Quiet /\ phase \in Answering /\ phase' \in Answering
    BY <1>13, LogKept DEF Collect, Collected, WorkAsks, Invoke, Stop, Answering
  <2> QED
    BY <1>3, <2>1
<1>14. CASE \/ WorkStreamedFails \/ WorkCancelled \/ AskInterrupted
            \/ TrustInterrupted \/ WorkFails
  <2>1. Quiet /\ phase \in Answering /\ phase' \in Answering
    BY <1>14, LogKept DEF WorkStreamedFails, WorkCancelled, AskInterrupted,
       TrustInterrupted, WorkFails, Fail, Halt, Stop, Answering
  <2> QED
    BY <1>3, <2>1
<1>15. CASE \/ WorkStreamed \/ WorkUnknownTool \/ WorkDenied \/ InvokeEnds
            \/ InvokeInterrupted
  <2>1. phase \in {"work", "ask", "invoke"}
    BY <1>15 DEF WorkStreamed, WorkUnknownTool, WorkDenied, InvokeEnds,
       InvokeInterrupted
  <2>2. Head(ready) = committed + 1
    BY <1>1, <2>1, InHand
  <2>3. /\ arrived' = arrived /\ phase' \in Answering
        /\ log' = Append(log, Entry("result", committed + 1))
    BY <1>15, <2>2 DEF WorkStreamed, WorkUnknownTool, WorkDenied, InvokeEnds,
       InvokeInterrupted, WriteResult, Continue, Halt, Stop, Answering
  <2> QED
    BY <1>1, <2>1, <2>3, ResultIsOneMore, OneMoreAnswers DEF Contract!Next
<1>16. CASE AnswerNext
  <2>1. PICK m \in 0 .. arrived : Answered = 1 .. m /\ Reach(m)
    BY <1>1 DEF AnswerInv
  <2>2. PICK i \in Remaining \ Answered :
            /\ \A j \in Remaining \ Answered : i <= j
            /\ log' = Append(log, Entry("interrupted", i))
    BY <1>16 DEF AnswerNext
  <2>3. i = m + 1 /\ m + 1 <= arrived /\ m + 1 \in 0 .. N /\ m \in Nat
    <3>1. phase = "answer"
      BY <1>16 DEF AnswerNext
    <3>2. i = m + 1 /\ m + 1 \in 1 .. arrived
      BY <1>1, <2>1, <2>2, <3>1, Unanswered
    <3>3. arrived \in 0 .. N /\ N \in Nat
      BY <1>1, NAssumption DEF ToolRoundTypeOK
    <3> QED
      BY <2>1, <3>2, <3>3
  <2>4. Answered' = 1 .. m + 1
    BY <1>1, <2>1, <2>2, <2>3, LogAnswer DEF RoundInv, Results, ToolRoundTypeOK
  <2>5. phase \in Answering /\ phase' \in Answering /\ arrived' = arrived
    BY <1>16 DEF AnswerNext, Answering
  <2>6. OneMore
    BY <2>1, <2>3, <2>4, <2>5 DEF OneMore
  <2> QED
    BY <1>1, <2>6, OneMoreAnswers DEF Contract!Next
<1>17. CASE \E i \in Uses : StopExecution(i)
  <2>1. Quiet /\ phase' = phase /\ ending' = ending
    BY <1>17, LogKept DEF StopExecution
  <2> QED
    BY <1>3, <2>1
<1>18. CASE \/ EndContinue \/ EndDenied \/ EndCancelled \/ EndWithoutRound
            \/ AnswersDone \/ Close \/ EndFails
  <2>1. Answered' = Answered
    BY <1>18, EndKeeps
  <2>2. arrived' = arrived /\ phase \in Answering /\ phase' \in Answering \cup {"over"}
    BY <1>18 DEF EndContinue, EndDenied, EndCancelled, EndWithoutRound, AnswersDone,
       Close, EndFails, Over, Answering
  <2> QED
    BY <1>3, <1>5, <1>6, <2>1, <2>2 DEF Contract!Next
<1>19. Next \/ UNCHANGED vars
  OBVIOUS
<1> QED
  BY <1>8, <1>9, <1>10, <1>11, <1>12, <1>13, <1>14, <1>15, <1>16, <1>17, <1>18,
     <1>19 DEF Next, Driver

(* Whatever streams, stops, is denied or is cancelled, a round keeps the    *)
(* contract of AnsweredRound: an ordered prefix, and all of it when the    *)
(* round is settled (execute_tool_round).                                  *)
THEOREM RoundKeepsContract == Spec => KeepsContract
<1>1. Init => Contract!Init
  BY DEF Init, Contract!Init, Answered
<1>2. RoundInv /\ RoundInv' /\ [Next]_vars => [Contract!Next]_(Contract!vars)
  BY ContractStep
<1> QED
  BY <1>1, <1>2, RoundInvariant, PTL DEF Spec, KeepsContract, Contract!Spec
=============================================================================
