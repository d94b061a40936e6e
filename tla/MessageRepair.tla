--------------------------- MODULE MessageRepair ---------------------------
(***************************************************************************)
(* The repair of a transcript before it is sent to a provider.  Turns that *)
(* were cancelled, interrupted or lost leave tool uses without results and *)
(* results far from the message that asked for them; providers refuse      *)
(* both.  Results nobody asked for are stripped, results that are missing  *)
(* are made up.                                                            *)
(*                                                                         *)
(* A message is a record whose kind is "assistant" (uses are the tool uses *)
(* it asks for), "result" (uses are the tool uses it answers) or another,  *)
(* with no uses.                                                           *)
(***************************************************************************)
EXTENDS Integers, Sequences, FiniteSets, SequencesExt, FiniteSetsExt

Assistants(ms) == {p \in DOMAIN ms : ms[p].kind = "assistant"}

\* The last assistant message before p, 0 if there is none.
Asker(ms, p) == Max({q \in Assistants(ms) : q < p} \cup {0})

\* Mutant: a result may answer any message before it.
AskedEver(ms, p) == UNION {ms[q].uses : q \in {r \in Assistants(ms) : r < p}}

\* active_tool_use_ids: what results at p may answer.
Asked(ms, p) == IF Asker(ms, p) = 0 THEN {} ELSE ms[Asker(ms, p)].uses

\* A message loses the results nobody asked for, and goes if it has no other.
StripOrphanedToolResultBlocks(ms, p) ==
    LET kept == ms[p].uses \cap Asked(ms, p)
    IN  IF kept = {} THEN <<>> ELSE <<[ms[p] EXCEPT !.uses = kept]>>

StripOrphanedToolResults(ms) ==
    FlattenSeq([p \in DOMAIN ms |-> IF ms[p].kind = "result"
                                    THEN StripOrphanedToolResultBlocks(ms, p)
                                    ELSE <<ms[p]>>])

\* Results between an assistant message and the next.
Answers(ms, p) == {q \in DOMAIN ms : ms[q].kind = "result" /\ Asker(ms, q) = p}

MissingToolResultsAfterAssistant(ms, p) ==
    IF ms[p].kind = "assistant"
    THEN ms[p].uses \ UNION {ms[q].uses : q \in Answers(ms, p)} ELSE {}


RepairMissingToolResults(ms) ==
    LET s == StripOrphanedToolResults(ms)
    IN  FlattenSeq([p \in DOMAIN s |->
            IF MissingToolResultsAfterAssistant(s, p) = {} THEN <<s[p]>>
            ELSE <<s[p], [kind |-> "result",
                          uses |-> MissingToolResultsAfterAssistant(s, p)]>>])

\* Each tool use is answered once before the assistant speaks again, and nothing
\* else is answered.
AnsweredBeforeNext(ms) ==
    /\ \A p \in Assistants(ms) : \A u \in ms[p].uses :
          Cardinality({q \in Answers(ms, p) : u \in ms[q].uses}) = 1
    /\ \A q \in DOMAIN ms : ms[q].kind = "result" =>
          Asker(ms, q) # 0 /\ ms[q].uses \subseteq ms[Asker(ms, q)].uses

\* Messages in the role of the user, results apart.
UserWords == {"prompt", "command", "context", "notice"}

\* What a provider accepts: the answers come before anything the user says.
Acceptable(ms) ==
    /\ AnsweredBeforeNext(ms)
    /\ \A q \in DOMAIN ms : ms[q].kind = "result" =>
          \A p \in Asker(ms, q) .. q : ms[p].kind \notin UserWords
=============================================================================
