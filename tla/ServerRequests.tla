--------------------------- MODULE ServerRequests ---------------------------
(***************************************************************************)
(* The permission requests and interactive questions of one session, from  *)
(* the tool that asks to the client that answers.  Two layers each keep a  *)
(* map of what is pending: the core, by request id, and the connection's   *)
(* message processor, by server-request id.  Between them are the stream   *)
(* of the turn, the pump that reads it, and one waiter per request.        *)
(* Sources: app-server/src/message_processor.rs (the pump and waiters),    *)
(*          core/src/interaction_runtime.rs (pending questions),           *)
(*          core/src/permission_state.rs (pending permissions),            *)
(*          core/src/tool_runtime.rs (the task that keeps a question).     *)
(*                                                                         *)
(* The questions, the answers' contents and the rules a decision adds are  *)
(* payload.  Every timer may fire at any time.                             *)
(***************************************************************************)
EXTENDS Naturals

CONSTANTS
    Permissions, \* the permission requests that may be made
    Questions,   \* the interactive questions that may be asked
    Turns,       \* the turns of the session
    NoTurn,      \* no turn is active
    TurnOf       \* the turn whose tool makes a request

Requests == Permissions \union Questions

ASSUME RequestsAreDistinct == Permissions \intersect Questions = {}
ASSUME RequestsHaveTurns == TurnOf \in [Requests -> Turns]
ASSUME NoTurnIsFresh == NoTurn \notin Turns

VARIABLES
    active,      \* core: the turn registered in the session
    stage,       \* core: what the driver of a turn has reached
    cancelled,   \* core: the turns whose cancel flag is set
    sweeping,    \* core: a cancel has yet to cancel the session's questions
    tool,        \* core: what the tool is doing, or the outcome it got
    keeper,      \* core: the task that looks after the pending entry
    filed,       \* core: the turn a question is filed under
    entry,       \* core: the pending permissions and questions
    reply,       \* core: what has been sent to the keeper
    stream,      \* requests announced in the stream of their turn
    pump,        \* processor: the pump of a turn's stream
    pending,     \* processor: server requests that await a response
    waiter,      \* processor: the task that awaits the response
    mail,        \* processor: the response routed to the waiter
    connection,  \* the connection of the client
    told,        \* history: questions announced as resolved by an answer
    approvals    \* history: permissions the client has named in an approval

core == <<tool, keeper, filed, entry, reply>>
bridge == <<stream, pump, pending, waiter, mail>>
session == <<active, stage, cancelled, sweeping>>
history == <<told, approvals>>
vars == <<core, bridge, session, connection, history>>

----------------------------------------------------------------------------
(* Types                                                                   *)

Outcomes == {"approved", "denied", "answered", "cancelled", "interrupted"}

Decisions == {"approved", "denied"}

(* A response that carries an answer, one that cannot be read, and an      *)
(* error or empty one.  A permission response names the request it is for. *)
Readable(r) == IF r \in Permissions
               THEN [kind : Decisions, names : Permissions]
               ELSE [kind : {"answered"}, names : {r}]

Responses(r) == Readable(r) \union [kind : {"garbled", "failure"}, names : {r}]

NoMail(r) == [kind |-> "none", names |-> r]

Letters == [kind : Outcomes \union {"garbled", "failure", "none"}, names : Requests]

(* Every variable keeps its type.                                          *)
RTypeOK ==
    /\ active \in Turns \union {NoTurn}
    /\ stage \in [Turns -> {"unused", "running", "over"}]
    /\ cancelled \subseteq Turns
    /\ sweeping \in BOOLEAN
    /\ tool \in [Requests -> {"idle", "waiting"} \union Outcomes]
    /\ keeper \in [Requests -> {"idle", "queued", "running", "done"}]
    /\ filed \in [Requests -> Turns \union {NoTurn}]
    /\ entry \subseteq Requests
    /\ reply \in [Requests -> {"none"} \union Outcomes]
    /\ stream \subseteq Requests
    /\ pump \in [Turns -> {"unused", "running", "gone"}]
    /\ pending \subseteq Requests
    /\ waiter \in [Requests -> {"unused", "waiting", "done"}]
    /\ mail \in [Requests -> Letters]
    /\ connection \in {"open", "dropped", "flagged", "gone"}
    /\ told \subseteq Questions
    /\ approvals \subseteq Permissions

Init ==
    /\ active = NoTurn
    /\ stage = [t \in Turns |-> "unused"]
    /\ cancelled = {}
    /\ sweeping = FALSE
    /\ tool = [r \in Requests |-> "idle"]
    /\ keeper = [r \in Requests |-> "idle"]
    /\ filed = [r \in Requests |-> NoTurn]
    /\ entry = {}
    /\ reply = [r \in Requests |-> "none"]
    /\ stream = {}
    /\ pump = [t \in Turns |-> "unused"]
    /\ pending = {}
    /\ waiter = [r \in Requests |-> "unused"]
    /\ mail = [r \in Requests |-> NoMail(r)]
    /\ connection = "open"
    /\ told = {}
    /\ approvals = {}

----------------------------------------------------------------------------
(* The pending entries of the core                                         *)

(* Mutant: a decision is sent without looking the request up.              *)
ResolveAnyway(rs, outcome) ==
    /\ entry' = entry \ rs
    /\ reply' = [r \in Requests |-> IF r \in rs THEN outcome ELSE reply[r]]

(* respond_to_permission_request, resolve, cancel_requests, cancel_session,*)
(* cancel_turn and cancel_owner: the entry is removed under the map's lock *)
(* and only who removes it sends to the keeper.                            *)
Resolve(rs, outcome) ==
    /\ entry' = entry \ rs
    /\ reply' = [r \in Requests |->
                    IF r \in rs \intersect entry THEN outcome ELSE reply[r]]

Resolved(r, outcome) == Resolve({r}, outcome)

Keep(r, state) == keeper' = [keeper EXCEPT ![r] = state]

(* The keeper is done and hands the outcome to its tool, if it still waits.*)
HandOver(r, outcome) ==
    /\ Keep(r, "done")
    /\ tool' = [tool EXCEPT ![r] = IF @ = "waiting" THEN outcome ELSE @]
    /\ UNCHANGED filed

----------------------------------------------------------------------------
(* The tool and the keeper of its request                                  *)

(* await_permission_decision: the tool itself keeps the entry, which it    *)
(* makes before it announces the request in the stream of its turn.        *)
AskPermission(r) ==
    /\ r \in Permissions
    /\ keeper[r] = "idle"
    /\ stage[TurnOf[r]] = "running"
    /\ pump[TurnOf[r]] = "running"
    /\ entry' = entry \union {r}
    /\ stream' = stream \union {r}
    /\ Keep(r, "running")
    /\ tool' = [tool EXCEPT ![r] = "waiting"]
    /\ UNCHANGED <<filed, reply, pump, pending, waiter, mail, session,
                   connection, history>>

(* No one reads the stream any more.                                       *)
AskPermissionFails(r) ==
    /\ r \in Permissions
    /\ keeper[r] = "idle"
    /\ stage[TurnOf[r]] = "running"
    /\ pump[TurnOf[r]] = "gone"
    /\ Keep(r, "done")
    /\ tool' = [tool EXCEPT ![r] = "interrupted"]
    /\ UNCHANGED <<filed, entry, reply, bridge, session, connection, history>>

(* The question is filed under the turn that is active in the session when *)
(* its channel is attached, then handed to the forwarder.                  *)
AskQuestion(r) ==
    /\ r \in Questions
    /\ keeper[r] = "idle"
    /\ stage[TurnOf[r]] = "running"
    /\ active # NoTurn
    /\ filed' = [filed EXCEPT ![r] = active]
    /\ Keep(r, "queued")
    /\ tool' = [tool EXCEPT ![r] = "waiting"]
    /\ UNCHANGED <<entry, reply, bridge, session, connection, history>>

(* The forwarder makes the entry and announces the question.  A cancel     *)
(* that comes between the two does what one does just after.               *)
Forward(r) ==
    /\ keeper[r] = "queued"
    /\ pump[TurnOf[r]] = "running"
    /\ entry' = entry \union {r}
    /\ stream' = stream \union {r}
    /\ Keep(r, "running")
    /\ UNCHANGED <<tool, filed, reply, pump, pending, waiter, mail, session,
                   connection, history>>

(* No one reads the stream: the entry is removed again as not delivered.   *)
ForwardFails(r) ==
    /\ keeper[r] = "queued"
    /\ pump[TurnOf[r]] = "gone"
    /\ reply' = [reply EXCEPT ![r] = "cancelled"]
    /\ Keep(r, "running")
    /\ UNCHANGED <<tool, filed, entry, bridge, session, connection, history>>

PermissionDecided(r) ==
    /\ r \in Permissions
    /\ keeper[r] = "running"
    /\ reply[r] # "none"
    /\ entry' = entry \ {r}
    /\ HandOver(r, reply[r])
    /\ UNCHANGED <<reply, bridge, session, connection, history>>

(* Mutant: the poll of the flag returns without removing the entry.        *)
PermissionAbandoned(r) ==
    /\ r \in Permissions
    /\ keeper[r] = "running"
    /\ TurnOf[r] \in cancelled
    /\ HandOver(r, "interrupted")
    /\ UNCHANGED <<entry, reply, bridge, session, connection, history>>

(* Mutant: a turn that was detached is no longer looked at.                *)
PermissionInterruptedIfActive(r) ==
    /\ r \in Permissions
    /\ keeper[r] = "running"
    /\ TurnOf[r] \in cancelled /\ TurnOf[r] = active
    /\ entry' = entry \ {r}
    /\ HandOver(r, "interrupted")
    /\ UNCHANGED <<reply, bridge, session, connection, history>>

(* The cancel flag is polled ahead of the reply.                           *)
PermissionInterrupted(r) ==
    /\ r \in Permissions
    /\ keeper[r] = "running"
    /\ TurnOf[r] \in cancelled
    /\ entry' = entry \ {r}
    /\ HandOver(r, "interrupted")
    /\ UNCHANGED <<reply, bridge, session, connection, history>>

(* run_pending_ask_user_request                                            *)
QuestionForwarded(r) ==
    /\ r \in Questions
    /\ keeper[r] = "running"
    /\ reply[r] # "none"
    /\ HandOver(r, reply[r])
    /\ UNCHANGED <<entry, reply, bridge, session, connection, history>>

(* Mutant: the timer reports a timeout whatever was sent before it.        *)
QuestionCutOff(r) ==
    /\ r \in Questions
    /\ keeper[r] = "running"
    /\ entry' = entry \ {r}
    /\ HandOver(r, "cancelled")
    /\ UNCHANGED <<reply, bridge, session, connection, history>>

(* Mutant: the timer removes the entry and tells no one.                   *)
QuestionDropped(r) ==
    /\ r \in Questions
    /\ keeper[r] = "running"
    /\ reply[r] = "none"
    /\ entry' = entry \ {r}
    /\ Keep(r, "done")
    /\ UNCHANGED <<tool, filed, reply, bridge, session, connection, history>>

(* The keeper's timer.  An outcome sent before the cancel is taken in its  *)
(* place, as QuestionForwarded does.                                       *)
QuestionTimesOut(r) ==
    /\ r \in Questions
    /\ keeper[r] = "running"
    /\ reply[r] = "none"
    /\ entry' = entry \ {r}
    /\ HandOver(r, "cancelled")
    /\ UNCHANGED <<reply, bridge, session, connection, history>>

(* The tool has dropped its receiver.                                      *)
QuestionDeserted(r) ==
    /\ r \in Questions
    /\ keeper[r] = "running"
    /\ tool[r] # "waiting"
    /\ entry' = entry \ {r}
    /\ Keep(r, "done")
    /\ UNCHANGED <<tool, filed, reply, bridge, session, connection, history>>

(* ask_user_question stops waiting when its turn is cancelled.             *)
QuestionToolInterrupted(r) ==
    /\ r \in Questions
    /\ tool[r] = "waiting"
    /\ TurnOf[r] \in cancelled
    /\ tool' = [tool EXCEPT ![r] = "interrupted"]
    /\ UNCHANGED <<keeper, filed, entry, reply, bridge, session, connection,
                   history>>

----------------------------------------------------------------------------
(* The pump and the waiters                                                *)

OfTurn(t) == {r \in Requests : TurnOf[r] = t}

(* The client is asked and a waiter started.                               *)
PumpTakes(r) ==
    /\ r \in stream
    /\ pump[TurnOf[r]] = "running"
    /\ connection = "open"
    /\ stream' = stream \ {r}
    /\ pending' = pending \union {r}
    /\ waiter' = [waiter EXCEPT ![r] = "waiting"]
    /\ UNCHANGED <<core, pump, mail, session, connection, history>>

(* The driver and the keepers of its turn hold the ends of the stream.     *)
StreamOver(t) ==
    /\ stage[t] = "over"
    /\ \A r \in OfTurn(t) : keeper[r] \in {"idle", "done"} /\ r \notin stream

(* The stream is over, the sink was seen closed, or the pump is aborted.   *)
(* Its guard cancels the questions it has taken.                           *)
PumpEnds(t) ==
    /\ pump[t] = "running"
    /\ connection # "open" \/ StreamOver(t)
    /\ pump' = [pump EXCEPT ![t] = "gone"]
    /\ stream' = stream \ OfTurn(t)
    /\ Resolve({r \in Questions \intersect OfTurn(t) : waiter[r] # "unused"},
               "cancelled")
    /\ UNCHANGED <<tool, keeper, filed, pending, waiter, mail, session,
                   connection, history>>

(* resolve_server_request: the first response goes to the waiter, later    *)
(* ones find no sender and are dropped.                                    *)
Respond(r, response) ==
    /\ connection = "open"
    /\ r \in pending
    /\ pending' = pending \ {r}
    /\ mail' = [mail EXCEPT ![r] = response]
    /\ approvals' = IF response.kind = "approved"
                    THEN approvals \union {response.names} ELSE approvals
    /\ UNCHANGED <<core, stream, pump, waiter, session, connection, told>>

(* permission/respond, sent as a request of its own.                       *)
RespondFallback(r, decision) ==
    /\ connection = "open"
    /\ r \in Permissions
    /\ waiter[r] # "unused"
    /\ Resolved(r, decision)
    /\ approvals' = IF decision = "approved"
                    THEN approvals \union {r} ELSE approvals
    /\ UNCHANGED <<tool, keeper, filed, bridge, session, connection, told>>

(* The waiter is done and its entry is removed, whatever the path.         *)
WaiterDone(r) ==
    /\ waiter' = [waiter EXCEPT ![r] = "done"]
    /\ pending' = pending \ {r}
    /\ mail' = [mail EXCEPT ![r] = NoMail(r)]
    /\ UNCHANGED <<tool, keeper, filed, stream, pump, session, connection,
                   approvals>>

(* Mutant: the decision is applied to the request the waiter was made for. *)
WaiterDecidesOwn(r) ==
    /\ waiter[r] = "waiting"
    /\ mail[r].kind \in Decisions
    /\ Resolved(r, mail[r].kind)
    /\ WaiterDone(r)
    /\ UNCHANGED told

(* A decision goes to the request the response names.                      *)
WaiterDecides(r) ==
    /\ waiter[r] = "waiting"
    /\ mail[r].kind \in Decisions
    /\ Resolved(mail[r].names, mail[r].kind)
    /\ WaiterDone(r)
    /\ UNCHANGED told

(* A permission response that cannot be read: no one is told.              *)
WaiterIsLost(r) ==
    /\ r \in Permissions
    /\ waiter[r] = "waiting"
    /\ mail[r].kind = "garbled"
    /\ WaiterDone(r)
    /\ UNCHANGED <<entry, reply, told>>

(* A failure response, or no response in time.                             *)
WaiterDenies(r) ==
    /\ r \in Permissions
    /\ waiter[r] = "waiting"
    /\ mail[r].kind \in {"failure", "none"}
    /\ Resolved(r, "denied")
    /\ WaiterDone(r)
    /\ UNCHANGED told

(* A valid answer is sent to the tool, and to the client if it was in time.*)
WaiterAnswers(r) ==
    /\ waiter[r] = "waiting"
    /\ mail[r].kind = "answered"
    /\ Resolved(r, "answered")
    /\ told' = told \union ({r} \intersect entry)
    /\ WaiterDone(r)

(* An answer that is not valid: the client is asked again, under the same  *)
(* server-request id.  A response that comes between the two is dropped.   *)
WaiterRetries(r) ==
    /\ r \in Questions
    /\ waiter[r] = "waiting"
    /\ mail[r].kind = "garbled"
    /\ mail' = [mail EXCEPT ![r] = NoMail(r)]
    /\ pending' = pending \union {r}
    /\ UNCHANGED <<core, stream, pump, waiter, session, connection, history>>

(* A failure response, the deadline (a response that has arrived may be    *)
(* passed over for it) or a closed sink.                                   *)
WaiterGivesUp(r) ==
    /\ r \in Questions
    /\ waiter[r] = "waiting"
    /\ Resolved(r, "cancelled")
    /\ WaiterDone(r)
    /\ UNCHANGED told

----------------------------------------------------------------------------
(* The session and the connection                                          *)

StartTurn(t) ==
    /\ connection = "open"
    /\ active = NoTurn
    /\ stage[t] = "unused"
    /\ active' = t
    /\ stage' = [stage EXCEPT ![t] = "running"]
    /\ pump' = [pump EXCEPT ![t] = "running"]
    /\ UNCHANGED <<core, stream, pending, waiter, mail, cancelled, sweeping,
                   connection, history>>

(* Mutant: the registry is not asked whether a turn is active.             *)
CancelUnguarded ==
    /\ cancelled' = cancelled \union {active}
    /\ sweeping' = TRUE
    /\ active' \in {active, NoTurn}
    /\ UNCHANGED <<core, bridge, stage, connection, history>>

(* cancel_turn and interrupt_turn set the flag; an interrupt also frees    *)
(* the session.  The questions follow once the registry is unlocked.       *)
Cancel ==
    /\ active # NoTurn
    /\ cancelled' = cancelled \union {active}
    /\ sweeping' = TRUE
    /\ active' \in {active, NoTurn}
    /\ UNCHANGED <<core, bridge, stage, connection, history>>

(* cancel_session: every question of the session, whichever its turn.      *)
Sweep ==
    /\ sweeping
    /\ sweeping' = FALSE
    /\ Resolve(Questions, "interrupted")
    /\ UNCHANGED <<tool, keeper, filed, bridge, active, stage, cancelled,
                   connection, history>>

(* The driver returns when its tools have, cancels what is still filed     *)
(* under its turn and clears the registry.                                 *)
EndTurn(t) ==
    /\ stage[t] = "running"
    /\ \A r \in OfTurn(t) : tool[r] # "waiting"
    /\ stage' = [stage EXCEPT ![t] = "over"]
    /\ Resolve({r \in Questions : filed[r] = t}, "cancelled")
    /\ active' = IF active = t THEN NoTurn ELSE active
    /\ UNCHANGED <<tool, keeper, filed, bridge, cancelled, sweeping, connection,
                   history>>

(* The client is gone and its processor dropped: the sink is closed, the   *)
(* pumps are aborted, the owner's questions cancelled, and the disconnect  *)
(* of the owner is spawned.                                                *)
DropProcessor ==
    /\ connection = "open"
    /\ connection' = "dropped"
    /\ Resolve(Questions, "cancelled")
    /\ UNCHANGED <<tool, keeper, filed, bridge, session, history>>

(* disconnect_interaction_owner: the owner's turn, then its questions.     *)
FlagOwner ==
    /\ connection = "dropped"
    /\ connection' = "flagged"
    /\ cancelled' = cancelled \union ({active} \ {NoTurn})
    /\ UNCHANGED <<core, bridge, active, stage, sweeping, history>>

CancelOwner ==
    /\ connection = "flagged"
    /\ connection' = "gone"
    /\ Resolve(Questions, "cancelled")
    /\ UNCHANGED <<tool, keeper, filed, bridge, session, history>>

----------------------------------------------------------------------------
Tool(r) == AskPermission(r) \/ AskPermissionFails(r) \/ AskQuestion(r)
           \/ QuestionToolInterrupted(r)

KeeperStarts(r) == Forward(r) \/ ForwardFails(r)

KeeperEnds(r) == PermissionDecided(r) \/ PermissionInterrupted(r)
                 \/ QuestionForwarded(r) \/ QuestionTimesOut(r)
                 \/ QuestionDeserted(r)

Waiter(r) == WaiterDecides(r) \/ WaiterIsLost(r) \/ WaiterDenies(r)
             \/ WaiterAnswers(r) \/ WaiterRetries(r) \/ WaiterGivesUp(r)

Client(r) == \/ \E response \in Responses(r) : Respond(r, response)
             \/ \E decision \in Decisions : RespondFallback(r, decision)

Disconnect == DropProcessor \/ FlagOwner \/ CancelOwner

Next ==
    \/ \E r \in Requests : Tool(r) \/ KeeperStarts(r) \/ KeeperEnds(r)
                           \/ PumpTakes(r) \/ Waiter(r) \/ Client(r)
    \/ \E t \in Turns : StartTurn(t) \/ PumpEnds(t) \/ EndTurn(t)
    \/ Cancel \/ Sweep \/ Disconnect

Spec == Init /\ [][Next]_vars

(* Tasks that can go on do, and timers fire; nothing is asked of clients,  *)
(* of those who cancel, or of a driver.                                    *)
Fairness ==
    /\ \A r \in Requests :
          /\ WF_vars(KeeperStarts(r))
          /\ WF_vars(KeeperEnds(r))
          /\ WF_vars(QuestionToolInterrupted(r))
          /\ WF_vars(PumpTakes(r))
          /\ WF_vars(WaiterDecides(r) \/ WaiterIsLost(r) \/ WaiterDenies(r))
          /\ WF_vars(WaiterGivesUp(r))
    /\ \A t \in Turns : WF_vars(PumpEnds(t))
    /\ WF_vars(FlagOwner)

FairSpec == Spec /\ Fairness

----------------------------------------------------------------------------
(* Properties                                                              *)

(* No request is left in either map: what is pending in the core has a     *)
(* task that removes it, what is pending in the processor a waiter that    *)
(* has no response yet (message_processor.rs:760: the entry is cleaned up  *)
(* in all exit paths).                                                     *)
NoOrphans ==
    /\ \A r \in entry : keeper[r] = "running" /\ reply[r] = "none"
    /\ \A r \in pending : waiter[r] = "waiting" /\ mail[r].kind = "none"

(* An answer the client is told was taken is the one the tool gets, unless *)
(* the tool was interrupted: no timeout, cancellation or disconnect that   *)
(* races with it is reported in its place.                                 *)
TakenAnswersArrive ==
    \A r \in told : tool[r] \in {"waiting", "answered", "interrupted"}

(* A tool runs only on an approval the client gave for that very request,  *)
(* whichever server request its response came in.                          *)
ApprovedByClient ==
    \A r \in Permissions : tool[r] = "approved" => r \in approvals

(* The first outcome sent for a request stands: late and duplicate         *)
(* responses, timeouts and cancellations change nothing, and a tool that   *)
(* has its outcome keeps it.                                               *)
FirstOutcomeStands ==
    [][\A r \in Requests :
          /\ reply[r] # "none" => reply'[r] = reply[r]
          /\ tool[r] \in Outcomes => tool'[r] = tool[r]]_vars

(* A question is settled however the client, the stream and the turn       *)
(* behave, and leaves nothing pending in the core.                         *)
QuestionsSettle ==
    \A r \in Questions :
        keeper[r] # "idle" ~> tool[r] # "waiting" /\ r \notin entry

(* A permission request of a cancelled turn, and after a disconnect any    *)
(* permission request, no longer blocks its tool.                          *)
CancelUnblocks ==
    \A r \in Permissions :
        tool[r] = "waiting" /\ (TurnOf[r] \in cancelled \/ connection = "dropped")
        ~> tool[r] # "waiting"

(* message_processor.rs:28 says of a permission request that it is denied  *)
(* when the client does not respond in time, so the turn can make progress.*)
(* A response that cannot be read ends the waiter with no decision         *)
(* (message_processor.rs:778): the tool waits on with no timer left.       *)
PermissionsSettle ==
    \A r \in Permissions : waiter[r] = "waiting" ~> tool[r] # "waiting"

----------------------------------------------------------------------------
(* The inductive invariant                                                 *)

(* A request that no one has announced is in no map, no stream and no      *)
(* waiter's hands; it is announced once.  A tool has no outcome before its *)
(* keeper is done, unless it was interrupted.                              *)
BeginInv ==
    /\ \A r \in Requests :
          /\ keeper[r] = "idle" => tool[r] = "idle"
          /\ keeper[r] \in {"queued", "running"} =>
                tool[r] \in {"waiting", "interrupted"}
          /\ keeper[r] \in {"idle", "queued"} =>
                reply[r] = "none" /\ r \notin stream /\ waiter[r] = "unused"
    /\ \A r \in stream : waiter[r] = "unused"
    /\ \A r \in Requests : waiter[r] # "waiting" => mail[r].kind = "none"

(* Decisions come in responses to permission requests and name one; an     *)
(* approval on its way has been counted; an answer the client was told of  *)
(* has been sent to the keeper.                                            *)
OutcomeInv ==
    /\ \A r \in Requests :
          /\ mail[r].kind \in Decisions => mail[r].names \in Permissions
          /\ mail[r].kind = "answered" => r \in Questions
          /\ mail[r].kind = "approved" => mail[r].names \in approvals
    /\ \A r \in Permissions : reply[r] = "approved" => r \in approvals
    /\ \A r \in told : reply[r] = "answered"

(* Inductive: what has been sent for a request is decided by who removes   *)
(* its entry, once.                                                        *)
RIInv ==
    /\ RTypeOK
    /\ BeginInv
    /\ OutcomeInv
    /\ NoOrphans
    /\ TakenAnswersArrive
    /\ ApprovedByClient
============================================================================
