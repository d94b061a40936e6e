------------------------ MODULE ServerRequestsProofs ------------------------
(***************************************************************************)
(* Proofs about ServerRequests, for every set of permission requests, of   *)
(* questions and of turns.                                                 *)
(***************************************************************************)
EXTENDS ServerRequests, TLAPS

(* What FirstOutcomeStands asks of a step.                                 *)
Stands ==
    \A r \in Requests :
        /\ reply[r] # "none" => reply'[r] = reply[r]
        /\ tool[r] \in Outcomes => tool'[r] = tool[r]

(* Initially nothing is pending and nothing has been sent.                 *)
LEMMA InitRIInv == Init => RIInv
<1> SUFFICES ASSUME Init PROVE RIInv
  OBVIOUS
<1> USE DEF Init
<1>1. RTypeOK
  <2>1. mail \in [Requests -> Letters]
    BY DEF NoMail, Letters
  <2> QED
    BY <2>1 DEF RTypeOK
<1>2. \A r \in Requests : mail[r].kind = "none"
  BY DEF NoMail
<1>3. BeginInv /\ OutcomeInv
  BY <1>2 DEF BeginInv, OutcomeInv, Decisions, Requests
<1>4. NoOrphans /\ TakenAnswersArrive /\ ApprovedByClient
  BY DEF NoOrphans, TakenAnswersArrive, ApprovedByClient, Requests
<1> QED
  BY <1>1, <1>3, <1>4 DEF RIInv

(* A tool makes a request, or is interrupted.                              *)
LEMMA ToolStep ==
    ASSUME RIInv, NEW r \in Requests, Tool(r)
    PROVE  RIInv' /\ Stands
<1> USE DEF Tool, AskPermission, AskPermissionFails, AskQuestion,
            QuestionToolInterrupted, Keep, bridge, session, history, RIInv
<1>1. RTypeOK'
  BY DEF RTypeOK, Outcomes
<1>2. BeginInv'
  BY DEF RTypeOK, BeginInv
<1>3. OutcomeInv'
  BY DEF RTypeOK, OutcomeInv, BeginInv, Requests
<1>4. NoOrphans'
  BY DEF RTypeOK, NoOrphans, BeginInv
<1>5. TakenAnswersArrive'
  BY RequestsAreDistinct DEF RTypeOK, TakenAnswersArrive, BeginInv, OutcomeInv,
     Requests
<1>6. ApprovedByClient'
  BY RequestsAreDistinct DEF RTypeOK, ApprovedByClient, BeginInv, OutcomeInv,
     Requests
<1>7. Stands
  BY DEF RTypeOK, Stands, BeginInv, Outcomes
<1> QED
  BY <1>1, <1>2, <1>3, <1>4, <1>5, <1>6, <1>7

(* The forwarder announces a question, or fails to.                        *)
LEMMA KeeperStartsStep ==
    ASSUME RIInv, NEW r \in Requests, KeeperStarts(r)
    PROVE  RIInv' /\ Stands
<1> USE DEF KeeperStarts, Forward, ForwardFails, Keep, bridge, session,
            history, RIInv
<1>1. RTypeOK'
  BY DEF RTypeOK, Outcomes
<1>2. BeginInv'
  BY DEF RTypeOK, BeginInv
<1>3. OutcomeInv'
  BY DEF RTypeOK, OutcomeInv, BeginInv, Requests
<1>4. NoOrphans'
  BY DEF RTypeOK, NoOrphans, BeginInv
<1>5. TakenAnswersArrive'
  BY RequestsAreDistinct DEF RTypeOK, TakenAnswersArrive, BeginInv, OutcomeInv,
     Requests
<1>6. ApprovedByClient'
  BY RequestsAreDistinct DEF RTypeOK, ApprovedByClient, BeginInv, OutcomeInv,
     Requests
<1>7. Stands
  BY DEF RTypeOK, Stands, BeginInv, Outcomes
<1> QED
  BY <1>1, <1>2, <1>3, <1>4, <1>5, <1>6, <1>7

(* A keeper is done: each path leaves no entry behind, and hands over what *)
(* it was sent if it was sent anything.                                    *)
LEMMA KeeperEndsStep ==
    ASSUME RIInv, NEW r \in Requests, KeeperEnds(r)
    PROVE  RIInv' /\ Stands
<1> USE DEF KeeperEnds, PermissionDecided, PermissionInterrupted,
            QuestionForwarded, QuestionTimesOut, QuestionDeserted, HandOver,
            Keep, bridge, session, history, RIInv
<1>1. RTypeOK'
  BY DEF RTypeOK, Outcomes
<1>2. BeginInv'
  BY DEF RTypeOK, BeginInv
<1>3. OutcomeInv'
  BY DEF RTypeOK, OutcomeInv, BeginInv, Requests
<1>4. NoOrphans'
  BY DEF RTypeOK, NoOrphans, BeginInv
<1>5. TakenAnswersArrive'
  BY RequestsAreDistinct DEF RTypeOK, TakenAnswersArrive, BeginInv, OutcomeInv,
     Requests
<1>6. ApprovedByClient'
  BY RequestsAreDistinct DEF RTypeOK, ApprovedByClient, BeginInv, OutcomeInv,
     Requests
<1>7. Stands
  BY DEF RTypeOK, Stands, BeginInv, Outcomes
<1> QED
  BY <1>1, <1>2, <1>3, <1>4, <1>5, <1>6, <1>7

(* The pump asks the client and starts a waiter.                            *)
LEMMA PumpTakesStep ==
    ASSUME RIInv, NEW r \in Requests, PumpTakes(r)
    PROVE  RIInv' /\ Stands
<1> USE DEF PumpTakes, core, session, history, RIInv
<1>1. RTypeOK'
  BY DEF RTypeOK, Outcomes
<1>2. BeginInv'
  BY DEF RTypeOK, BeginInv
<1>3. OutcomeInv'
  BY DEF RTypeOK, OutcomeInv, BeginInv, Requests
<1>4. NoOrphans'
  BY DEF RTypeOK, NoOrphans, BeginInv
<1>5. TakenAnswersArrive'
  BY RequestsAreDistinct DEF RTypeOK, TakenAnswersArrive, BeginInv, OutcomeInv,
     Requests
<1>6. ApprovedByClient'
  BY RequestsAreDistinct DEF RTypeOK, ApprovedByClient, BeginInv, OutcomeInv,
     Requests
<1>7. Stands
  BY DEF RTypeOK, Stands, BeginInv, Outcomes
<1> QED
  BY <1>1, <1>2, <1>3, <1>4, <1>5, <1>6, <1>7

----------------------------------------------------------------------------
(* What resolving requests does                                            *)

(* Of the requests, only pending ones are sent an outcome, one of os.      *)
SentOnly(os) ==
    /\ entry' \subseteq entry
    /\ reply' \in [Requests -> {"none"} \union Outcomes]
    /\ \A r \in Requests :
          \/ reply'[r] = reply[r]
          \/ r \in entry /\ reply[r] = "none" /\ reply'[r] \in os
    /\ \A r \in entry' : reply'[r] = "none"

(* Only what is pending is resolved, and it is sent the one outcome.       *)
LEMMA ResolveSends ==
    ASSUME RIInv, NEW rs, NEW outcome \in Outcomes, Resolve(rs, outcome)
    PROVE  SentOnly({outcome})
BY DEF RIInv, RTypeOK, Resolve, NoOrphans, SentOnly

(* Cancelling questions, and any step that moves no request on.            *)
LEMMA Cancellation ==
    ASSUME RIInv, RTypeOK', SentOnly({"cancelled", "interrupted"}),
           stream' \subseteq stream,
           UNCHANGED <<tool, keeper, pending, waiter, mail, history>>
    PROVE  RIInv' /\ Stands
<1> USE DEF RIInv, SentOnly, history
<1>1. BeginInv'
  BY DEF RTypeOK, BeginInv, NoOrphans
<1>2. OutcomeInv'
  BY DEF RTypeOK, OutcomeInv, Requests
<1>3. NoOrphans'
  BY DEF RTypeOK, NoOrphans
<1>4. TakenAnswersArrive' /\ ApprovedByClient'
  BY DEF TakenAnswersArrive, ApprovedByClient
<1>5. Stands
  BY DEF Stands
<1> QED
  BY <1>1, <1>2, <1>3, <1>4, <1>5

(* Nothing is sent.                                                        *)
LEMMA NothingSent ==
    ASSUME NEW os, RIInv, UNCHANGED <<entry, reply>>
    PROVE  SentOnly(os)
BY DEF RIInv, RTypeOK, NoOrphans, SentOnly

(* A response is routed to its waiter.                                     *)
LEMMA RespondStep ==
    ASSUME RIInv, NEW r \in Requests, NEW response \in Responses(r),
           Respond(r, response)
    PROVE  RIInv' /\ Stands
<1> USE DEF Respond, core, session, RIInv
<1>1. /\ response \in Letters /\ response.kind # "none"
      /\ response.kind \in Decisions =>
            r \in Permissions /\ response.names \in Permissions
      /\ response.kind = "answered" => r \in Questions
  BY DEF Responses, Readable, Letters, Decisions, Outcomes, Requests
<1>2. waiter[r] = "waiting"
  BY DEF NoOrphans
<1>3. RTypeOK'
  BY <1>1 DEF RTypeOK, Decisions
<1>4. BeginInv'
  BY <1>2 DEF RTypeOK, BeginInv
<1>5. OutcomeInv'
  BY <1>1 DEF RTypeOK, OutcomeInv, Decisions
<1>6. NoOrphans' /\ TakenAnswersArrive' /\ ApprovedByClient' /\ Stands
  BY DEF RTypeOK, NoOrphans, TakenAnswersArrive, ApprovedByClient, Stands
<1> QED
  BY <1>3, <1>4, <1>5, <1>6

(* A decision comes in a request of its own.                               *)
LEMMA RespondFallbackStep ==
    ASSUME RIInv, NEW r \in Requests, NEW decision \in Decisions,
           RespondFallback(r, decision)
    PROVE  RIInv' /\ Stands
<1> USE DEF RespondFallback, bridge, session, RIInv
<1>1. SentOnly({decision})
  BY ResolveSends DEF Resolved, Decisions, Outcomes
<1>2. reply'[r] = reply[r] \/ reply'[r] = decision
  BY <1>1 DEF SentOnly
<1>3. \A q \in Requests : q # r => reply'[q] = reply[q]
  BY DEF Resolved, Resolve, RTypeOK
<1>4. RTypeOK'
  BY <1>1 DEF RTypeOK, SentOnly
<1>5. BeginInv'
  BY <1>1 DEF RTypeOK, BeginInv, NoOrphans, SentOnly
<1>6. OutcomeInv'
  BY <1>1, <1>2, <1>3, RequestsAreDistinct
     DEF RTypeOK, OutcomeInv, SentOnly, NoOrphans, Requests, Decisions
<1>7. NoOrphans' /\ TakenAnswersArrive' /\ ApprovedByClient' /\ Stands
  BY <1>1 DEF RTypeOK, NoOrphans, TakenAnswersArrive, ApprovedByClient, Stands,
     SentOnly
<1> QED
  BY <1>4, <1>5, <1>6, <1>7

(* A waiter that is done has removed its server request; what it sent, and *)
(* told the client, agree with the letter it took.                         *)
LEMMA WaiterLeaves ==
    ASSUME RIInv, NEW r \in Requests, WaiterDone(r), NEW os \in SUBSET Outcomes,
           SentOnly(os), waiter[r] = "waiting",
           told' \subseteq Questions, \A q \in told' : reply'[q] = "answered",
           \A q \in told' : q \in told \/ q \in entry,
           \A q \in Permissions : reply'[q] = "approved" => q \in approvals
    PROVE  RIInv' /\ Stands
<1> USE DEF RIInv, WaiterDone, session, SentOnly
<1>1. RTypeOK'
  <2>1. mail' \in [Requests -> Letters]
    BY DEF RTypeOK, NoMail, Letters
  <2>2. waiter' \in [Requests -> {"unused", "waiting", "done"}]
    BY DEF RTypeOK
  <2>3. /\ entry' \subseteq Requests
        /\ reply' \in [Requests -> {"none"} \union Outcomes]
        /\ pending' \subseteq Requests /\ told' \subseteq Questions
    BY DEF RTypeOK
  <2> QED
    BY <2>1, <2>2, <2>3 DEF RTypeOK
<1>2. BeginInv'
  BY DEF RTypeOK, BeginInv, NoOrphans, NoMail
<1>3. OutcomeInv'
  BY DEF RTypeOK, OutcomeInv, NoMail, Decisions
<1>4. NoOrphans'
  BY DEF RTypeOK, NoOrphans, NoMail
<1>5. TakenAnswersArrive'
  <2>1. \A q \in entry : tool[q] \in {"waiting", "interrupted"}
    BY DEF RTypeOK, BeginInv, NoOrphans
  <2> QED
    BY <2>1 DEF TakenAnswersArrive
<1>6. ApprovedByClient' /\ Stands
  BY DEF ApprovedByClient, Stands
<1> QED
  BY <1>1, <1>2, <1>3, <1>4, <1>5, <1>6

(* The six ways a waiter goes on.                                          *)
LEMMA WaiterStep ==
    ASSUME RIInv, NEW r \in Requests, Waiter(r)
    PROVE  RIInv' /\ Stands
<1> USE DEF RIInv
<1>1. CASE WaiterDecides(r)
  <2> DEFINE decision == mail[r].kind
             name == mail[r].names
  <2>1. /\ waiter[r] = "waiting" /\ decision \in Decisions /\ told' = told
        /\ Resolve({name}, decision) /\ WaiterDone(r)
    BY <1>1 DEF WaiterDecides, Resolved
  <2>2. name \in Permissions /\ (decision = "approved" => name \in approvals)
    BY <2>1 DEF OutcomeInv
  <2>3. SentOnly({decision})
    BY <2>1, ResolveSends DEF Decisions, Outcomes
  <2>4. \A q \in Requests : q # name => reply'[q] = reply[q]
    BY <2>1 DEF Resolve, RTypeOK
  <2>5. \A q \in told' : reply'[q] = "answered"
    BY <2>1, <2>2, <2>4, RequestsAreDistinct DEF RTypeOK, OutcomeInv, Requests
  <2>6. \A q \in Permissions : reply'[q] = "approved" => q \in approvals
    BY <2>1, <2>2, <2>3, <2>4 DEF OutcomeInv, SentOnly, Requests
  <2>7. told' \subseteq Questions /\ {decision} \in SUBSET Outcomes
    BY <2>1 DEF RTypeOK, Decisions, Outcomes
  <2> HIDE DEF decision, name
  <2> QED
    BY <2>1, <2>3, <2>5, <2>6, <2>7, WaiterLeaves
<1>2. CASE WaiterIsLost(r)
  <2>1. SentOnly({})
    BY <1>2, NothingSent DEF WaiterIsLost
  <2> QED
    BY <1>2, <2>1, WaiterLeaves DEF WaiterIsLost, RTypeOK, OutcomeInv
<1>3. CASE WaiterDenies(r) \/ WaiterGivesUp(r)
  <2>1. /\ waiter[r] = "waiting" /\ WaiterDone(r) /\ told' = told
        /\ Resolve({r}, "denied") \/ Resolve({r}, "cancelled")
    BY <1>3 DEF WaiterDenies, WaiterGivesUp, Resolved
  <2>2. SentOnly({"denied", "cancelled"})
    BY <2>1, ResolveSends DEF SentOnly, Outcomes
  <2>3. /\ \A q \in told' : reply'[q] = "answered"
        /\ \A q \in Permissions : reply'[q] = "approved" => q \in approvals
    BY <2>1, <2>2 DEF RTypeOK, OutcomeInv, SentOnly, Requests
  <2> QED
    BY <2>1, <2>2, <2>3, WaiterLeaves DEF RTypeOK, Outcomes
<1>4. CASE WaiterAnswers(r)
  <2>1. /\ waiter[r] = "waiting" /\ WaiterDone(r) /\ mail[r].kind = "answered"
        /\ Resolve({r}, "answered") /\ told' = told \union ({r} \intersect entry)
    BY <1>4 DEF WaiterAnswers, Resolved
  <2>2. r \in Questions
    BY <2>1 DEF OutcomeInv
  <2>3. SentOnly({"answered"})
    BY <2>1, ResolveSends DEF Outcomes
  <2>4. r \in entry => reply'[r] = "answered"
    BY <2>1 DEF Resolve
  <2>5. told' \subseteq Questions /\ \A q \in told' : q \in told \/ q \in entry
    BY <2>1, <2>2 DEF RTypeOK
  <2>6. \A q \in told' : reply'[q] = "answered"
    BY <2>1, <2>3, <2>4 DEF RTypeOK, OutcomeInv, SentOnly, Requests
  <2>7. \A q \in Permissions : reply'[q] = "approved" => q \in approvals
    BY <2>3 DEF OutcomeInv, SentOnly, Requests
  <2>8. {"answered"} \in SUBSET Outcomes
    BY DEF Outcomes
  <2> QED
    BY <2>1, <2>3, <2>5, <2>6, <2>7, <2>8, WaiterLeaves
<1>5. CASE WaiterRetries(r)
  <2> USE <1>5 DEF WaiterRetries, core, session, history
  <2>1. RTypeOK' /\ BeginInv'
    BY DEF RTypeOK, BeginInv, NoMail, Letters
  <2>2. OutcomeInv' /\ NoOrphans'
    BY DEF RTypeOK, OutcomeInv, NoOrphans, NoMail, Decisions
  <2>3. TakenAnswersArrive' /\ ApprovedByClient' /\ Stands
    BY DEF TakenAnswersArrive, ApprovedByClient, Stands
  <2> QED
    BY <2>1, <2>2, <2>3
<1> QED
  BY <1>1, <1>2, <1>3, <1>4, <1>5 DEF Waiter

(* What a client may send.                                                 *)
LEMMA ClientStep ==
    ASSUME RIInv, NEW r \in Requests, Client(r)
    PROVE  RIInv' /\ Stands
BY RespondStep, RespondFallbackStep DEF Client

----------------------------------------------------------------------------
(* The turns and the connection                                            *)

(* A turn is registered and its pump started.                              *)
LEMMA StartTurnStep ==
    ASSUME RIInv, NEW t \in Turns, StartTurn(t)
    PROVE  RIInv' /\ Stands
<1> USE DEF StartTurn, core, history
<1>1. RTypeOK'
  BY DEF RIInv, RTypeOK
<1>2. SentOnly({"cancelled", "interrupted"})
  BY NothingSent
<1> QED
  BY <1>1, <1>2, Cancellation

(* The pump stops and cancels the questions it has taken.                  *)
LEMMA PumpEndsStep ==
    ASSUME RIInv, NEW t \in Turns, PumpEnds(t)
    PROVE  RIInv' /\ Stands
<1> USE DEF PumpEnds
<1>1. SentOnly({"cancelled"})
  BY ResolveSends DEF Outcomes
<1>2. RTypeOK' /\ stream' \subseteq stream
  BY <1>1 DEF RIInv, RTypeOK, SentOnly, session, history
<1>3. SentOnly({"cancelled", "interrupted"})
  BY <1>1 DEF SentOnly
<1> QED
  BY <1>2, <1>3, Cancellation

(* The driver cancels what is filed under its turn.                        *)
LEMMA EndTurnStep ==
    ASSUME RIInv, NEW t \in Turns, EndTurn(t)
    PROVE  RIInv' /\ Stands
<1> USE DEF EndTurn, bridge
<1>1. SentOnly({"cancelled"})
  BY ResolveSends DEF Outcomes
<1>2. RTypeOK'
  BY <1>1 DEF RIInv, RTypeOK, SentOnly, history
<1>3. SentOnly({"cancelled", "interrupted"})
  BY <1>1 DEF SentOnly
<1> QED
  BY <1>2, <1>3, Cancellation

(* The active turn is flagged, then the questions of the session cancelled.*)
LEMMA CancelStep ==
    ASSUME RIInv, Cancel \/ Sweep
    PROVE  RIInv' /\ Stands
<1> USE DEF bridge
<1>1. CASE Cancel
  <2>1. RTypeOK'
    BY <1>1 DEF Cancel, core, history, RIInv, RTypeOK
  <2>2. SentOnly({"cancelled", "interrupted"})
    BY <1>1, NothingSent DEF Cancel, core
  <2> QED
    BY <1>1, <2>1, <2>2, Cancellation DEF Cancel, core
<1>2. CASE Sweep
  <2>1. SentOnly({"interrupted"})
    BY <1>2, ResolveSends DEF Sweep, Outcomes
  <2>2. RTypeOK'
    BY <1>2, <2>1 DEF Sweep, RIInv, RTypeOK, SentOnly, history
  <2>3. SentOnly({"cancelled", "interrupted"})
    BY <2>1 DEF SentOnly
  <2> QED
    BY <1>2, <2>2, <2>3, Cancellation DEF Sweep
<1> QED
  BY <1>1, <1>2

(* The three steps of a disconnect.                                        *)
LEMMA DisconnectStep ==
    ASSUME RIInv, Disconnect
    PROVE  RIInv' /\ Stands
<1> USE DEF bridge, session
<1>1. CASE DropProcessor \/ CancelOwner
  <2>1. SentOnly({"cancelled"})
    BY <1>1, ResolveSends DEF DropProcessor, CancelOwner, Outcomes
  <2>2. RTypeOK'
    BY <1>1, <2>1 DEF DropProcessor, CancelOwner, RIInv, RTypeOK, SentOnly,
       history
  <2>3. SentOnly({"cancelled", "interrupted"})
    BY <2>1 DEF SentOnly
  <2> QED
    BY <1>1, <2>2, <2>3, Cancellation DEF DropProcessor, CancelOwner
<1>2. CASE FlagOwner
  <2>1. RTypeOK'
    BY <1>2 DEF FlagOwner, core, history, RIInv, RTypeOK
  <2>2. SentOnly({"cancelled", "interrupted"})
    BY <1>2, NothingSent DEF FlagOwner, core
  <2> QED
    BY <1>2, <2>1, <2>2, Cancellation DEF FlagOwner, core
<1> QED
  BY <1>1, <1>2 DEF Disconnect

(* Every step keeps the invariant and lets outcomes stand.                 *)
LEMMA StepKeeps == ASSUME RIInv, [Next]_vars PROVE RIInv' /\ Stands
<1>1. CASE UNCHANGED vars
  BY <1>1 DEF vars, core, bridge, session, history, RIInv, RTypeOK, BeginInv,
     OutcomeInv, NoOrphans, TakenAnswersArrive, ApprovedByClient, Stands
<1>2. ASSUME NEW r \in Requests,
             \/ Tool(r) \/ KeeperStarts(r) \/ KeeperEnds(r)
             \/ PumpTakes(r) \/ Waiter(r) \/ Client(r)
      PROVE  RIInv' /\ Stands
  BY <1>2, ToolStep, KeeperStartsStep, KeeperEndsStep, PumpTakesStep, WaiterStep,
     ClientStep
<1>3. ASSUME NEW t \in Turns, StartTurn(t) \/ PumpEnds(t) \/ EndTurn(t)
      PROVE  RIInv' /\ Stands
  BY <1>3, StartTurnStep, PumpEndsStep, EndTurnStep
<1> QED
  BY <1>1, <1>2, <1>3, CancelStep, DisconnectStep DEF Next

----------------------------------------------------------------------------
(* The theorems                                                            *)

(* The strengthened invariant holds in every reachable state.              *)
THEOREM RequestsInvariant == Spec => []RIInv
<1>1. RIInv /\ [Next]_vars => RIInv'
  BY StepKeeps
<1> QED
  BY <1>1, InitRIInv, PTL DEF Spec

(* Every variable of the bridge keeps its type: a reply is one of the      *)
(* outcomes, and nothing is filed under a turn that does not exist.        *)
THEOREM RequestsTypes == Spec => []RTypeOK
<1>1. RIInv => RTypeOK
  BY DEF RIInv
<1> QED
  BY <1>1, RequestsInvariant, PTL

(* Neither the core nor the processor keeps a request that no task will    *)
(* remove (the exit paths of the waiters and of the keepers).              *)
THEOREM NothingIsOrphaned == Spec => []NoOrphans
<1>1. RIInv => NoOrphans
  BY DEF RIInv
<1> QED
  BY <1>1, RequestsInvariant, PTL

(* A tool gets the answer its client was told was taken                    *)
(* (run_pending_ask_user_request).                                         *)
THEOREM AnswersArrive == Spec => []TakenAnswersArrive
<1>1. RIInv => TakenAnswersArrive
  BY DEF RIInv
<1> QED
  BY <1>1, RequestsInvariant, PTL

(* Only the client's approval of a request approves it                     *)
(* (respond_to_permission_request).                                        *)
THEOREM ApprovalsAreTheClients == Spec => []ApprovedByClient
<1>1. RIInv => ApprovedByClient
  BY DEF RIInv
<1> QED
  BY <1>1, RequestsInvariant, PTL

(* The first outcome of a request is its last (InteractionRuntime::resolve,*)
(* respond_to_permission_request).                                         *)
THEOREM OutcomesStand == Spec => FirstOutcomeStands
<1>1. RIInv /\ [Next]_vars => [Stands]_vars
  BY StepKeeps
<1>2. [Stands]_vars => [\A r \in Requests :
          /\ reply[r] # "none" => reply'[r] = reply[r]
          /\ tool[r] \in Outcomes => tool'[r] = tool[r]]_vars
  BY DEF Stands
<1> QED
  BY <1>1, <1>2, RequestsInvariant, PTL DEF Spec, FirstOutcomeStands
=============================================================================
