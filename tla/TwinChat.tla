------------------------------ MODULE TwinChat ------------------------------
(***************************************************************************)
(* Questions to the twin, from the moment they are put to their answer:    *)
(* those of the owner, each on a pipeline of its own (ask_twin), and the   *)
(* chat events that the one pipeline of the relay handles inward, one      *)
(* after the other.  An inward question runs in a session of the Claude    *)
(* SDK: a client per session, whose answers come in the order of its       *)
(* queries; or it is an instruction to write to somebody in a direct room. *)
(***************************************************************************)
EXTENDS Routing, FiniteSets

CONSTANTS
    Chat,       \* questions put on the dashboard or by Telegram
    Relayed,    \* chat events of the relay
    Relay,      \* the runner of the relay's pipeline
    SessionOf,  \* SessionOf[q]: the session q is asked in
    EventOf,    \* EventOf[q]: what the routing reads of q
    Answers,    \* what the router's model may answer
    Failing,    \* questions whose calls to the SDK, the model or Matrix fail or hang
    NoClient,   \* no client
    Rooms,      \* the rooms of the account
    Scores,     \* how well a direct room may fit a name, 0: it is no such room
    NoRoom,     \* no room
    MaxTurns    \* turns of the chat history that are kept

Questions == Chat \cup Relayed
Runners   == Chat \cup {Relay}
Sessions  == {SessionOf[q] : q \in Questions}

ASSUME TwinChatAssumption ==
    /\ Chat \cap Relayed = {} /\ Relay \notin Questions
    /\ NoClient \notin Questions /\ NoRoom \notin Rooms
    /\ Failing \subseteq Questions
    /\ Scores \subseteq Nat /\ 0 \in Scores
    /\ \A q, p \in Relayed : SessionOf[q] = SessionOf[p]
    /\ MaxTurns \in Nat \ {0}

VARIABLES
    pc,         \* where a question stands
    outcome,    \* how it ended
    sessions,   \* sessions[r][s]: the client of s in r, named by the question that made it
    open,       \* clients that are connected
    idle,       \* clients not used for longer than the time to live
    pipe,       \* pipe[c]: queries sent to c whose answers were not read
    last,       \* last[c]: the query whose answer the entry of c holds
    client,     \* client[q]: the client q is asked on
    answers,    \* <<q, p>>: q was answered with the answer to p
    expired,    \* clients on which a query timed out
    todo,       \* rooms whose members the lookup of q has yet to ask for
    read,       \* read[q][r]: how well r fitted when they were asked for
    best,       \* best[q]: the best room so far
    context,    \* context[q]: the room whose messages the prompt of q holds
    first,      \* first[q]: what the lookup for the prompt read
    history     \* history[s]: the turns shown for s

ask  == <<pc, outcome>>
sdk  == <<sessions, open, idle, pipe, last, client, answers, expired>>
look == <<todo, read, best>>
send == <<todo, read, best, context, first>>
vars == <<pc, outcome, sessions, open, idle, pipe, last, client, answers, expired,
          todo, read, best, context, first, history>>

Stages == {"new", "connect", "route", "enrich", "compose", "deliver",
           "run", "opening", "query", "read", "collect", "direct", "close", "done"}
Outcomes == {"none", "answer", "timeout", "direct", "sent", "not_sent", "empty",
             "skipped", "outward", "error"}

TypeOK ==
    /\ pc \in [Questions -> Stages] /\ outcome \in [Questions -> Outcomes]
    /\ sessions \in [Runners -> [Sessions -> Questions \cup {NoClient}]]
    /\ open \subseteq Questions /\ idle \subseteq Questions
    /\ pipe \in [Questions -> Seq(Questions)]
    /\ last \in [Questions -> Questions \cup {NoClient}]
    /\ client \in [Questions -> Questions \cup {NoClient}]
    /\ answers \subseteq Questions \X Questions
    /\ expired \subseteq Questions
    /\ todo \in [Questions -> SUBSET Rooms]
    /\ read \in [Questions -> [Rooms -> Scores]] /\ first \in [Questions -> [Rooms -> Scores]]
    /\ best \in [Questions -> Rooms \cup {NoRoom}]
    /\ context \in [Questions -> Rooms \cup {NoRoom}]
    /\ history \in [Sessions -> Seq(Chat)]
    /\ \A s \in Sessions : Len(history[s]) <= MaxTurns
    /\ \A r \in Runners, s \in Sessions : sessions[r][s] \in open \cup {NoClient}

NoneFits == [r \in Rooms |-> 0]

Init ==
    /\ pc = [q \in Questions |-> "new"] /\ outcome = [q \in Questions |-> "none"]
    /\ sessions = [r \in Runners |-> [s \in Sessions |-> NoClient]]
    /\ open = {} /\ idle = {} /\ expired = {}
    /\ pipe = [c \in Questions |-> <<>>]
    /\ last = [c \in Questions |-> NoClient]
    /\ client = [q \in Questions |-> NoClient]
    /\ answers = {}
    /\ todo = [q \in Questions |-> Rooms] /\ best = [q \in Questions |-> NoRoom]
    /\ read = [q \in Questions |-> NoneFits] /\ first = [q \in Questions |-> NoneFits]
    /\ context = [q \in Questions |-> NoRoom]
    /\ history = [s \in Sessions |-> <<>>]

-----------------------------------------------------------------------------
(* The runner the inward skill of q's pipeline was built with: ask_twin    *)
(* exchanges the pipeline's reference to it only after the skill has its.  *)
RunnerOf(q) == IF q \in Chat THEN q ELSE Relay

(* What process_event does next, and how it ends.                          *)
Move(q, from, to) == pc[q] = from /\ pc' = [pc EXCEPT ![q] = to]

End(q, from, result) ==
    /\ Move(q, from, "close")
    /\ outcome' = [outcome EXCEPT ![q] = result]

(* The route of the dashboard or the handler of the bot; the relay takes   *)
(* the next event when it is done with the last.                           *)
Ask(q) ==
    /\ q \in Relayed => \A p \in Relayed : pc[p] \in {"new", "done"}
    /\ Move(q, "new", IF q \in Chat THEN "connect" ELSE "route")
    /\ UNCHANGED <<outcome, sdk, send, history>>

(* from_env and connect: an error is the answer.                           *)
Connect(q) ==
    /\ \/ Move(q, "connect", "route") /\ UNCHANGED outcome
       \/ q \in Failing /\ End(q, "connect", "error")
    /\ UNCHANGED <<sdk, send, history>>

(* The decision and the skill for it.  What is fetched before the skill    *)
(* runs only changes the prompt, and a fetch that fails is empty.          *)
Route(q) ==
    /\ \E a \in Answers :
          LET d     == Decision(EventOf[q], a)
              skill == SkillFor(EventOf[q], d.mode) IN
          \/ ~d.respond /\ End(q, "route", "skipped")
          \/ /\ d.respond /\ skill = "send_as_owner"
             /\ Move(q, "route", "enrich") /\ UNCHANGED outcome
          \/ /\ d.respond /\ skill = "inward_query"
             /\ Move(q, "route", "run") /\ UNCHANGED outcome
          \/ /\ d.respond /\ skill \notin {"send_as_owner", "inward_query"}
             /\ End(q, "route", "outward")
    /\ UNCHANGED <<sdk, send, history>>

-----------------------------------------------------------------------------
(* InwardQuerySkill and SDKAgentRunner.                                    *)

InUse(c) == \E q \in Questions : client[q] = c /\ pc[q] \in {"query", "read", "collect"}

(* Half an hour passes without a query.                                    *)
Idle(c) ==
    /\ c \notin idle /\ ~InUse(c)
    /\ \E r \in Runners, s \in Sessions : sessions[r][s] = c
    /\ idle' = idle \cup {c}
    /\ UNCHANGED <<ask, sessions, open, pipe, last, client, answers, expired, send, history>>

(* _cleanup_stale_sessions; then the session of q, if there is one, or the *)
(* connection of a client for it.                                          *)
Stale(r) == idle \cap {sessions[r][s] : s \in Sessions}

Kept(r) == [s \in Sessions |-> IF sessions[r][s] \in idle THEN NoClient ELSE sessions[r][s]]

Session(q) ==
    LET r == RunnerOf(q)
        c == Kept(r)[SessionOf[q]] IN
    /\ sessions' = [sessions EXCEPT ![r] = Kept(r)]
    /\ open' = open \ Stale(r)
    /\ IF c # NoClient
       THEN Move(q, "run", "query") /\ client' = [client EXCEPT ![q] = c]
       ELSE Move(q, "run", "opening") /\ UNCHANGED client
    /\ UNCHANGED <<outcome, idle, pipe, last, answers, expired, send, history>>

Connected(q) ==
    /\ Move(q, "opening", "query")
    /\ sessions' = [sessions EXCEPT ![RunnerOf(q)][SessionOf[q]] = q]
    /\ open' = open \cup {q}
    /\ client' = [client EXCEPT ![q] = q]
    /\ UNCHANGED <<outcome, idle, pipe, last, answers, expired, send, history>>

(* client.query.                                                           *)
Query(q) ==
    LET c == client[q] IN
    /\ Move(q, "query", "read")
    /\ pipe' = [pipe EXCEPT ![c] = Append(@, q)]
    /\ UNCHANGED <<outcome, sessions, open, idle, last, client, answers, expired, send, history>>

(* receive_response ends with the first result that is there to be read.   *)
Read(q) ==
    LET c == client[q] IN
    /\ Move(q, "read", "collect")
    /\ pipe[c] # <<>>
    /\ last' = [last EXCEPT ![c] = Head(pipe[c])]
    /\ pipe' = [pipe EXCEPT ![c] = Tail(@)]
    /\ UNCHANGED <<outcome, sessions, open, idle, client, answers, expired, send, history>>

Collect(q) ==
    /\ End(q, "collect", "answer")
    /\ answers' = answers \cup {<<q, last[client[q]]>>}
    /\ UNCHANGED <<sessions, open, idle, pipe, last, client, expired, send, history>>

(* wait_for gives up after two minutes: the answer stays to be read.       *)
TimeOut(q) ==
    /\ q \in Failing
    /\ End(q, "read", "timeout")
    /\ expired' = expired \cup {client[q]}
    /\ UNCHANGED <<sessions, open, idle, pipe, last, client, answers, send, history>>

(* Mutation: the session of a failed query is kept.                        *)
Break_Kept(q) ==
    /\ q \in Failing
    /\ \E stage \in {"opening", "query", "read"} : Move(q, stage, "direct")
    /\ UNCHANGED <<outcome, sessions, open, idle, pipe, last, client, answers, expired, send, history>>

(* An error of the SDK removes the session; the client stays connected.    *)
Break(q) ==
    /\ q \in Failing
    /\ \E stage \in {"opening", "query", "read"} : Move(q, stage, "direct")
    /\ sessions' = [sessions EXCEPT ![RunnerOf(q)][SessionOf[q]] = NoClient]
    /\ UNCHANGED <<outcome, open, idle, pipe, last, client, answers, expired, send, history>>

(* _fallback_direct: a search and one call of the model.                   *)
DirectAnswer(q) ==
    /\ \/ End(q, "direct", "direct")
       \/ q \in Failing /\ End(q, "direct", "error")
    /\ UNCHANGED <<sdk, send, history>>

-----------------------------------------------------------------------------
(* SendAsOwnerSkill.                                                       *)

(* find_room_by_person, before the prompt is built and again before the    *)
(* message goes out: the members of one joined room after the other are    *)
(* asked for, and a direct room that fits the name better than those so    *)
(* far is kept.  The rooms come in any order, and between two requests     *)
(* anybody may join, leave or change a name; a room without an answer,     *)
(* and a failed list of the rooms, fit nobody.                             *)
LookingUp(q) == pc[q] \in {"enrich", "deliver"}

Beats(q, score) == score > (IF best[q] = NoRoom THEN 0 ELSE read[q][best[q]])

(* Mutation: the last room that fits is taken for the best.                *)
LookUp_Last(q, room) ==
    /\ LookingUp(q) /\ room \in todo[q]
    /\ todo' = [todo EXCEPT ![q] = @ \ {room}]
    /\ \E score \in Scores :
          /\ read' = [read EXCEPT ![q][room] = score]
          /\ best' = IF score > 0 THEN [best EXCEPT ![q] = room] ELSE best
    /\ UNCHANGED <<ask, sdk, context, first, history>>

LookUp(q, room) ==
    /\ LookingUp(q) /\ room \in todo[q]
    /\ todo' = [todo EXCEPT ![q] = @ \ {room}]
    /\ \E score \in Scores :
          /\ read' = [read EXCEPT ![q][room] = score]
          /\ best' = IF Beats(q, score) THEN [best EXCEPT ![q] = room] ELSE best
    /\ UNCHANGED <<ask, sdk, context, first, history>>

LookedUp(q) == todo[q] = {}

NewLookUp(q) ==
    /\ todo' = [todo EXCEPT ![q] = Rooms]
    /\ read' = [read EXCEPT ![q] = NoneFits]
    /\ best' = [best EXCEPT ![q] = NoRoom]

(* _enrich_with_context: the messages of the room go into the prompt, or,  *)
(* if there is none or they cannot be read, the bare instruction.          *)
Enrich(q) ==
    /\ LookedUp(q) /\ Move(q, "enrich", "compose")
    /\ \E room \in {best[q]} \cup (IF q \in Failing THEN {NoRoom} ELSE {}) :
          context' = [context EXCEPT ![q] = room]
    /\ first' = [first EXCEPT ![q] = read[q]]
    /\ NewLookUp(q)
    /\ UNCHANGED <<outcome, sdk, history>>

Forget(q) ==
    /\ context' = [context EXCEPT ![q] = NoRoom]
    /\ first' = [first EXCEPT ![q] = NoneFits]

Compose(q) ==
    /\ \/ Move(q, "compose", "deliver") /\ UNCHANGED <<outcome, context, first>>
       \/ /\ q \in Failing
          /\ \E result \in {"empty", "error"} : End(q, "compose", result)
          /\ Forget(q)
    /\ UNCHANGED <<sdk, look, history>>

(* _execute_send: to the room that the second lookup found.                *)
Deliver(q) ==
    /\ LookedUp(q)
    /\ \/ best[q] # NoRoom /\ End(q, "deliver", "sent")
       \/ (best[q] = NoRoom \/ q \in Failing) /\ End(q, "deliver", "not_sent")
    /\ Forget(q) /\ NewLookUp(q)
    /\ UNCHANGED <<sdk, history>>

-----------------------------------------------------------------------------
(* The reply goes to the asker and, if there is one, into the history.     *)
(* The pipeline of a question is closed, and its runner gone; the clients  *)
(* of the runner stay connected.                                           *)
Replied == {"answer", "timeout", "direct", "sent", "not_sent", "outward"}

Latest(turns) ==
    IF Len(turns) > MaxTurns
    THEN SubSeq(turns, Len(turns) - MaxTurns + 1, Len(turns)) ELSE turns

Close(q) ==
    /\ Move(q, "close", "done")
    /\ IF q \in Chat /\ outcome[q] \in Replied
       THEN history' = [history EXCEPT ![SessionOf[q]] = Latest(Append(@, q))]
       ELSE UNCHANGED history
    /\ sessions' = IF q \in Chat THEN [sessions EXCEPT ![q] = [s \in Sessions |-> NoClient]]
                   ELSE sessions
    /\ UNCHANGED <<outcome, open, idle, pipe, last, client, answers, expired, send>>

Step(q) ==
    \/ Connect(q) \/ Route(q)
    \/ Session(q) \/ Connected(q) \/ Query(q) \/ Collect(q)
    \/ TimeOut(q) \/ Break(q) \/ DirectAnswer(q)
    \/ Enrich(q) \/ Compose(q) \/ Deliver(q) \/ Close(q)
    \/ \E room \in Rooms : LookUp(q, room)

Next ==
    \/ \E q \in Questions : Ask(q) \/ Step(q) \/ Read(q)
    \/ \E c \in Questions : Idle(c)

Spec == Init /\ [][Next]_vars

-----------------------------------------------------------------------------
(* The answer to a question is the answer to that question, or, after a    *)
(* query that timed out in the session, to an earlier one of the same      *)
(* client: no error, fallback or idle session in between brings an answer  *)
(* into another session or keeps one for a new client.                     *)
AnswersOwn ==
    \A q, p \in Questions : <<q, p>> \in answers =>
        q = p \/ (client[q] \in expired /\ client[p] = client[q])

(* A message that was written from the talk of one room goes to no other,  *)
(* although the room is looked up twice, over many requests, while rooms   *)
(* and names change: unless one of the two rooms itself was another to the *)
(* second lookup than to the first, or both fit the name equally well.     *)
SentWhereRead ==
    \A q \in Questions :
        LET c == context[q]
            r == best[q]
        IN  pc[q] = "deliver" /\ LookedUp(q) /\ c # NoRoom /\ r # NoRoom
            => \/ r = c
               \/ read[q][c] # first[q][c] \/ read[q][r] # first[q][r]
               \/ read[q][c] = read[q][r]
=============================================================================
