--------------------------- MODULE Conversations ---------------------------
(***************************************************************************)
(* Chats with the assistant, as src/modules/ai-conversations keeps them: a *)
(* question is stored, the history is read back, the model streams its     *)
(* answer, and the answer, or what there is of it with the error, is       *)
(* stored.  The stream is drained by a promise that nobody waits for: it   *)
(* goes on when the client is gone, and when the insert of the error       *)
(* message fails the rejection is nobody's and ends the process.           *)
(***************************************************************************)
EXTENDS Integers, Sequences, FiniteSets

CONSTANTS
  Users,          \* who asks
  Conversations,  \* ids of ai_conversations rows
  Requests,       \* messages that can be on their way together
  Window,         \* how many messages of the history are read: 50
  MaxTurns,       \* highest number of questions of a conversation: a bound
  Null            \* no value

(* What the module asks of its constants. *)
ConstantsAssumption ==
  /\ Window \in Nat \ {0} /\ MaxTurns \in Nat
  /\ Null \notin Users \cup Conversations \cup Int

VARIABLES
  talk,  \* table ai_conversations, with the rows of ai_messages in order
  pc, arg,
  lost   \* <<c, n>>: question n of conversation c, which no request answers

vars == <<talk, pc, arg, lost>>

(* A message belongs to a turn, which its question begins. *)
Message == [role : {"USER", "ASSISTANT"}, turn : 1..MaxTurns, isError : BOOLEAN]

FreeTalk == [owner |-> Null, vehicle |-> FALSE, messages |-> <<>>]
NoArgs == [conv |-> Null, turn |-> Null, vehicle |-> FALSE, history |-> <<>>]
Steps == {"idle", "question", "prompt", "history", "stream", "answer", "apologise"}

Questions(c) == {i \in DOMAIN talk[c].messages : talk[c].messages[i].role = "USER"}
Answers(c, n) ==
  {i \in DOMAIN talk[c].messages :
     talk[c].messages[i].role = "ASSISTANT" /\ talk[c].messages[i].turn = n}

TypeOK ==
  /\ \A c \in Conversations :
       /\ talk[c].owner \in Users \cup {Null}
       /\ talk[c].vehicle \in BOOLEAN
       /\ talk[c].messages \in Seq(Message)
  /\ pc \in [Requests -> Steps]
  /\ \A r \in Requests : /\ arg[r].conv \in Conversations \cup {Null}
                         /\ arg[r].turn \in 1..MaxTurns \cup {Null}
                         /\ Len(arg[r].history) <= Window
  /\ lost \subseteq Conversations \X (1..MaxTurns)

Init ==
  /\ talk = [c \in Conversations |-> FreeTalk]
  /\ pc = [r \in Requests |-> "idle"] /\ arg = [r \in Requests |-> NoArgs]
  /\ lost = {}

Goto(r, step, a) ==
  /\ pc' = [pc EXCEPT ![r] = step]
  /\ arg' = [arg EXCEPT ![r] = a]

Grown(c, role, n, isError) ==
  talk' = [talk EXCEPT ![c].messages =
            Append(@, [role |-> role, turn |-> n, isError |-> isError])]

-----------------------------------------------------------------------------
(* POST /ai/conversations, about a vehicle or about nothing. *)
CreateConversation(u, c, about) ==
  /\ talk[c].owner = Null
  /\ talk' = [talk EXCEPT ![c] = [FreeTalk EXCEPT !.owner = u, !.vehicle = about]]
  /\ UNCHANGED <<pc, arg, lost>>

(* The vehicle is deleted: the column is set to null. *)
VehicleGone(c) ==
  /\ talk[c].vehicle
  /\ talk' = [talk EXCEPT ![c].vehicle = FALSE]
  /\ UNCHANGED <<pc, arg, lost>>

(* addMessage: the conversation is found, and is the user's own. *)
OpenMessage(r, u, c) ==
  /\ pc[r] = "idle"
  /\ talk[c].owner = u
  /\ Goto(r, "question", [NoArgs EXCEPT !.conv = c, !.vehicle = talk[c].vehicle])
  /\ UNCHANGED <<talk, lost>>

SaveQuestion(r) ==
  LET c == arg[r].conv  n == Cardinality(Questions(c)) + 1 IN
  /\ pc[r] = "question" /\ n <= MaxTurns
  /\ Grown(c, "USER", n, FALSE)
  /\ Goto(r, "prompt", [arg[r] EXCEPT !.turn = n])
  /\ UNCHANGED lost

(* buildContextualSystemPrompt: an error on the way is logged, and the     *)
(* prompt goes without the vehicle.                                        *)
Prompt(r, found) ==
  /\ pc[r] = "prompt"
  /\ Goto(r, "history", [arg[r] EXCEPT !.vehicle = @ /\ found])
  /\ UNCHANGED <<talk, lost>>

(* It orders by creation, oldest first, and takes Window. *)
findByIdWithMessages(c) ==
  LET messages == talk[c].messages IN
  SubSeq(messages, 1, IF Len(messages) < Window THEN Len(messages) ELSE Window)

(* The messages that are sent to the model. *)
ReadHistory(r) ==
  /\ pc[r] = "history"
  /\ Goto(r, "stream", [arg[r] EXCEPT !.history = findByIdWithMessages(arg[r].conv)])
  /\ UNCHANGED <<talk, lost>>

(* The model answers to the end, or its stream breaks. *)
Stream(r, complete) ==
  /\ pc[r] = "stream"
  /\ Goto(r, IF complete THEN "answer" ELSE "apologise", [arg[r] EXCEPT !.history = <<>>])
  /\ UNCHANGED <<talk, lost>>

SaveAnswer(r) ==
  /\ pc[r] = "answer"
  /\ Grown(arg[r].conv, "ASSISTANT", arg[r].turn, FALSE)
  /\ Goto(r, "idle", NoArgs)
  /\ UNCHANGED lost

(* The insert throws inside the try: its catch stores an error message. *)
SaveAnswerFails(r) ==
  /\ pc[r] = "answer"
  /\ Goto(r, "apologise", arg[r])
  /\ UNCHANGED <<talk, lost>>

SaveErrorNot(r) ==  \* mutant: the error goes to the client and nowhere else
  /\ pc[r] = "apologise"
  /\ Goto(r, "idle", NoArgs)
  /\ UNCHANGED <<talk, lost>>

SaveError(r) ==
  /\ pc[r] = "apologise"
  /\ Grown(arg[r].conv, "ASSISTANT", arg[r].turn, TRUE)
  /\ Goto(r, "idle", NoArgs)
  /\ UNCHANGED lost

(* An await of addMessage throws: the question stays without an answer. *)
Fail(r) ==
  /\ pc[r] \in {"question", "history"}
  /\ lost' = IF arg[r].turn = Null THEN lost ELSE lost \cup {<<arg[r].conv, arg[r].turn>>}
  /\ Goto(r, "idle", NoArgs)
  /\ UNCHANGED talk

(* The process ends, with all that is in flight: by itself when SaveError  *)
(* throws, or because it is stopped.                                       *)
Crash ==
  /\ lost' = lost \cup {<<arg[r].conv, arg[r].turn>> : r \in {q \in Requests : arg[q].turn # Null}}
  /\ pc' = [r \in Requests |-> "idle"] /\ arg' = [r \in Requests |-> NoArgs]
  /\ UNCHANGED talk

(* The commands of the controller *)
Commands(u, c) ==
  \/ \E about \in BOOLEAN : CreateConversation(u, c, about)
  \/ \E r \in Requests : OpenMessage(r, u, c)

Next ==
  \/ \E c \in Conversations : VehicleGone(c) \/ \E u \in Users : Commands(u, c)
  \/ \E r \in Requests :
       \/ SaveQuestion(r) \/ ReadHistory(r) \/ SaveAnswer(r) \/ SaveAnswerFails(r)
       \/ SaveError(r) \/ Fail(r)
       \/ \E ok \in BOOLEAN : Prompt(r, ok) \/ Stream(r, ok)
  \/ Crash

Spec == Init /\ [][Next]_vars

-----------------------------------------------------------------------------
(* Every question that was stored is answered exactly once, by an answer   *)
(* or by an error message, as soon as its request is done, whatever other  *)
(* requests do to the same conversation; only what a crash or a failing    *)
(* read cut short stays open.                                              *)
EveryTurnAnswered ==
  \A c \in Conversations : \A i \in Questions(c) :
    LET n == talk[c].messages[i].turn
        pending == \E r \in Requests : arg[r].conv = c /\ arg[r].turn = n
    IN Cardinality(Answers(c, n)) = IF pending \/ <<c, n>> \in lost THEN 0 ELSE 1

(* The comment of addMessage: the history that the model gets is the last  *)
(* Window messages.                                                        *)
Last(s, n) == SubSeq(s, IF Len(s) > n THEN Len(s) - n + 1 ELSE 1, Len(s))

HistoryIsRecent ==
  [][\A r \in Requests :
       pc[r] = "history" /\ pc'[r] = "stream"
         => arg'[r].history = Last(talk[arg[r].conv].messages, Window)]_vars

=============================================================================
