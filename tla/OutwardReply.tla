---------------------------- MODULE OutwardReply ----------------------------
(***************************************************************************)
(* From a batch of chat messages to a reply: the relay handles one batch   *)
(* at a time (_process_event), AgentPipeline routes it, OutwardReplySkill  *)
(* composes a reply and scores it, and MatrixSender sends it within its    *)
(* rate limit, or DraftQueue keeps it for review.  Each stretch of that    *)
(* call between two awaits is one action; beside it run the clock, the     *)
(* owner's autoreply switch and the process itself.  What becomes of a     *)
(* draft is DraftReview's.                                                 *)
(***************************************************************************)
EXTENDS ReplyEvidence, Inbound, FiniteSets

CONSTANTS
    Batches,        \* the batches, numbered as the relay hands them over
    Rooms,          \* Matrix rooms
    RoomOf,         \* RoomOf[b]: the room of batch b
    Message,        \* Message[b]: what is read of batch b (its texts joined)
    Files,          \* which of the files with the owner's name could be read
    Titled,         \* batches whose sender's id carries a title (Lead, Head, ...)
    Confidences,    \* what the model may report as the confidence of its reply,
                    \* in hundredths: any number; a NaN counts as a large one,
                    \* since score clips it to 1.0
    Threshold,      \* Threshold[r]: default_threshold or the room's own
    MaxReplies,     \* MAX_AUTO_REPLIES_PER_MINUTE
    Minute,         \* the 60 seconds of the rate limit, in ticks
    MaxLives,       \* bound: starts of the process
    MaxTime         \* bound: the clock

ASSUME ReplyAssumption ==
    /\ IsFiniteSet(Batches) /\ Batches \subseteq Nat
    /\ RoomOf \in [Batches -> Rooms]
    /\ Message \in [Batches -> ChatMessages] /\ Files \subseteq Settings
    /\ Titled \subseteq Batches /\ "none" \notin Rooms
    /\ Confidences \subseteq Int
    /\ Threshold \in [Rooms -> (StrangerMax + 1)..100]
    /\ MaxReplies \in Nat \ {0} /\ Minute \in Nat \ {0}
    /\ MaxLives \in Nat \ {0} /\ MaxTime \in Nat \ {0}

VARIABLES
    clock,      \* time.monotonic()
    life,       \* which start of the process this is
    autoreply,  \* _autoreply_enabled
    stage,      \* stage[b]: where the handling of b stands
    outcome,    \* outcome[b]: AgentResult.action
    familiar,   \* has_history_in_room, a local of the call under way
    errand,     \* errand[b]: the room send_as_owner was told to write to, or "none"
    excessive,  \* batches whose reply was to be sent to a room without history
                \* at a reported confidence above 1.0
    sent,       \* sent[b]: when and in which life the room received the message
    recorded,   \* recorded[b]: the time _record_send noted, 0 if none (in memory)
    draft,      \* draft[b]: the status of the draft row of b when it is inserted
    logged,     \* batches with an event of source 'agent' in the events table
    salvaged    \* is the reply under way made of an answer that was not in the asked form,
                \* where router and regular expressions agreed on the intent?

vars == <<clock, life, autoreply, stage, outcome, familiar, errand, excessive,
          sent, recorded, draft, logged, salvaged>>
world == <<clock, life, autoreply>>
kind  == <<errand, excessive>>

(* The room a message sent for batch b goes to.                            *)
Target(b) == IF errand[b] = "none" THEN RoomOf[b] ELSE errand[b]

Groups   == {b \in Batches : IsGroup(Message[b])}
Mentions == {b \in Batches : IsMentioned(Message[b], Files)}

Running  == {"route", "lookup", "compose", "errand", "put", "answer", "queue", "log"}

(* inward_sent is an inward_response whose send succeeded.                 *)
Outcomes == {"none", "skipped", "inward", "inward_sent", "auto_sent", "drafted", "error"}

TypeOK ==
    /\ clock \in Nat \ {0} /\ life \in Nat \ {0} /\ autoreply \in BOOLEAN
    /\ stage \in [Batches -> Running \cup {"waiting", "handled", "lost"}]
    /\ outcome \in [Batches -> Outcomes]
    /\ familiar \in BOOLEAN
    /\ errand \in [Batches -> Rooms \cup {"none"}] /\ excessive \subseteq Batches
    /\ sent \in [Batches -> [at : Nat, life : Nat]]
    /\ recorded \in [Batches -> Nat]
    /\ draft \in [Batches -> {"none", "pending"}]
    /\ logged \in SUBSET Batches /\ salvaged \in BOOLEAN

Init ==
    /\ clock = 1 /\ life = 1 /\ autoreply = FALSE
    /\ stage = [b \in Batches |-> "waiting"]
    /\ outcome = [b \in Batches |-> "none"]
    /\ familiar = FALSE
    /\ errand = [b \in Batches |-> "none"] /\ excessive = {}
    /\ sent = [b \in Batches |-> [at |-> 0, life |-> 0]]
    /\ recorded = [b \in Batches |-> 0]
    /\ draft = [b \in Batches |-> "none"]
    /\ logged = {} /\ salvaged = FALSE

-----------------------------------------------------------------------------
MoveTo(b, s) == stage' = [stage EXCEPT ![b] = s]

Ends(b, o, s) == outcome' = [outcome EXCEPT ![b] = o] /\ MoveTo(b, s)

(* _process_event, one batch after the other: a group message that does    *)
(* not mention the owner is dropped before the pipeline.                   *)
Begin(b) ==
    /\ stage[b] = "waiting"
    /\ \A c \in Batches : stage[c] \notin Running /\ (c < b => stage[c] # "waiting")
    /\ IF b \in Groups \ Mentions
       THEN Ends(b, "skipped", "handled")
       ELSE MoveTo(b, "route") /\ UNCHANGED outcome
    /\ UNCHANGED <<world, kind, familiar, sent, recorded, draft, logged, salvaged>>

(* process_event: the router's verdict, or the skill's own on small talk   *)
(* when the router gave none.  Only what a skill returned is logged.       *)
Route(b) ==
    /\ stage[b] = "route"
    /\ \/ Ends(b, "skipped", "handled")
       \/ LegacySkip(Message[b], Files) /\ Ends(b, "skipped", "log")
       \/ Ends(b, "inward", "log")
       \/ MoveTo(b, "errand") /\ UNCHANGED outcome
       \/ MoveTo(b, "lookup") /\ UNCHANGED outcome
    /\ UNCHANGED <<world, kind, familiar, sent, recorded, draft, logged, salvaged>>

(* Mutation: a failed lookup counts as history.                            *)
Lookup_FailOpen(b) ==
    /\ stage[b] = "lookup"
    /\ familiar' \in {TRUE, \E c \in logged : RoomOf[c] = RoomOf[b]}
    /\ MoveTo(b, "compose")
    /\ UNCHANGED <<world, kind, outcome, sent, recorded, draft, logged, salvaged>>

(* has_room_history: any event of the agent in the room; FALSE on failure. *)
Lookup(b) ==
    /\ stage[b] = "lookup"
    /\ familiar' \in {FALSE, \E c \in logged : RoomOf[c] = RoomOf[b]}
    /\ MoveTo(b, "compose")
    /\ UNCHANGED <<world, kind, outcome, sent, recorded, draft, logged, salvaged>>

(* Sends to room r that the limit counts at time t.                        *)
Recent(r, t) == {c \in Batches : Target(c) = r /\ recorded[c] > 0
                                               /\ t - recorded[c] < Minute}

LimitReached(r) == Cardinality(Recent(r, clock)) >= MaxReplies

(* SendAsOwnerSkill finds the room of the person it is told to write to    *)
(* and sends by the same sender, whatever the autoreply switch says, as    *)
(* does a query that approves a draft by manage_draft; or there is no text *)
(* or room, or the limit of the room is reached.                           *)
Errand(b) ==
    /\ stage[b] = "errand"
    /\ \/ Ends(b, "inward", "log") /\ UNCHANGED errand
       \/ \E r \in Rooms :
            /\ ~LimitReached(r)
            /\ errand' = [errand EXCEPT ![b] = r]
            /\ MoveTo(b, "put") /\ UNCHANGED outcome
    /\ UNCHANGED <<world, excessive, familiar, sent, recorded, draft, logged, salvaged>>

(* score and should_auto_send, of every reply that may be composed: what   *)
(* the memory and the model gave for it, and what the scorer sees besides. *)
Seen(evidence, rest) ==
    [manyMemories |-> evidence.many, deadlineRisk |-> rest.deadlineRisk,
     senderKnown |-> evidence.known, social |-> evidence.small,
     foreign |-> rest.foreign, priority |-> evidence.priority,
     group |-> rest.group, titled |-> rest.titled, history |-> rest.history]

Rest == [deadlineRisk : BOOLEAN, foreign : BOOLEAN, group : BOOLEAN,
         titled : BOOLEAN, history : BOOLEAN]

Replies ==
    {[room |-> r, group |-> rest.group, titled |-> rest.titled, history |-> rest.history,
      text |-> IF text.form = "garbled" /\ evidence.agreed THEN "garbled" ELSE "other",
      excessive |-> Parsed(text) > 100,
      verdict |-> IF Score(Parsed(text), Seen(evidence, rest)) >= Threshold[r]
                  THEN "sure" ELSE "unsure"] :
        r \in Rooms, text \in Texts(Confidences), evidence \in Evidence, rest \in Rest}

(* The model answers; score, threshold, switch and rate limit decide with  *)
(* no await between them.                                                  *)
Compose(b) ==
    /\ stage[b] = "compose"
    /\ \E reply \in Replies :
          /\ reply.room = RoomOf[b] /\ reply.history = familiar
          /\ reply.group = (b \in Groups) /\ reply.titled = (b \in Titled)
          /\ salvaged' = (reply.text = "garbled")
          /\ \/ /\ reply.verdict = "sure" /\ autoreply /\ ~LimitReached(RoomOf[b])
                /\ MoveTo(b, "put")
                /\ excessive' = excessive \cup {c \in {b} : reply.excessive /\ ~familiar}
             \/ /\ ~(reply.verdict = "sure" /\ autoreply /\ ~LimitReached(RoomOf[b]))
                /\ MoveTo(b, "queue") /\ UNCHANGED excessive
    /\ familiar' = FALSE
    /\ UNCHANGED <<world, errand, outcome, sent, recorded, draft, logged>>

(* The PUT reaches the server or not ...                                   *)
Put(b) ==
    /\ stage[b] = "put"
    /\ sent' \in {sent, [sent EXCEPT ![b] = [at |-> clock, life |-> life]]}
    /\ MoveTo(b, "answer")
    /\ UNCHANGED <<world, kind, outcome, familiar, recorded, draft, logged, salvaged>>

(* The server's answer: the message is in the room.                        *)
Delivered(b) ==
    /\ sent[b].at > 0
    /\ Ends(b, IF errand[b] = "none" THEN "auto_sent" ELSE "inward_sent", "log")
    /\ salvaged' = FALSE

(* No answer, or an error: a reply becomes a draft.                        *)
NotDelivered(b) ==
    \/ errand[b] = "none" /\ MoveTo(b, "queue") /\ UNCHANGED <<outcome, salvaged>>
    \/ errand[b] # "none" /\ Ends(b, "inward", "log") /\ UNCHANGED salvaged

(* Mutation: a failed send is tried again.                                 *)
Answer_Retry(b) ==
    /\ stage[b] = "answer"
    /\ \/ Delivered(b) /\ recorded' = [recorded EXCEPT ![b] = clock]
       \/ MoveTo(b, "put") /\ UNCHANGED <<outcome, recorded, salvaged>>
    /\ UNCHANGED <<world, kind, familiar, sent, draft, logged>>

(* Mutation: the send is not recorded.                                     *)
Answer_NotRecorded(b) ==
    /\ stage[b] = "answer"
    /\ Delivered(b) \/ NotDelivered(b)
    /\ UNCHANGED <<world, kind, familiar, sent, recorded, draft, logged>>

(* ... and answers or not; without an answer the send is not recorded,     *)
(* even if the room received the message.                                  *)
Answer(b) ==
    /\ stage[b] = "answer"
    /\ \/ Delivered(b) /\ recorded' = [recorded EXCEPT ![b] = clock]
       \/ NotDelivered(b) /\ UNCHANGED recorded
    /\ UNCHANGED <<world, kind, familiar, sent, draft, logged>>

(* Mutation: the row is stored with the name of the outcome as its status. *)
Queue_OutcomeAsStatus(b) ==
    /\ stage[b] = "queue"
    /\ draft' = [draft EXCEPT ![b] = "drafted"]
    /\ Ends(b, "drafted", "log") /\ salvaged' = FALSE
    /\ UNCHANGED <<world, kind, familiar, sent, recorded, logged>>

(* Mutation: a failed INSERT is reported as a draft.                       *)
Queue_Unchecked(b) ==
    /\ stage[b] = "queue"
    /\ draft' \in {draft, [draft EXCEPT ![b] = "pending"]}
    /\ Ends(b, "drafted", "log") /\ salvaged' = FALSE
    /\ UNCHANGED <<world, kind, familiar, sent, recorded, logged>>

Queue(b) ==
    /\ stage[b] = "queue"
    /\ draft' = [draft EXCEPT ![b] = "pending"]
    /\ Ends(b, "drafted", "log") /\ salvaged' = FALSE
    /\ UNCHANGED <<world, kind, familiar, sent, recorded, logged>>

(* _log_event, whose failure is only logged; the outcome of a reply is     *)
(* then published.                                                         *)
Log(b) ==
    /\ stage[b] = "log"
    /\ logged' \in {logged, logged \cup {b}}
    /\ MoveTo(b, "handled")
    /\ UNCHANGED <<world, kind, outcome, familiar, sent, recorded, draft, salvaged>>

(* The router, a skill, the model or add_draft raises: the pipeline        *)
(* returns an error, which nobody is told of.                              *)
Fail(b) ==
    /\ stage[b] \in {"route", "compose", "errand", "queue"}
    /\ Ends(b, "error", "handled")
    /\ familiar' = FALSE /\ salvaged' = FALSE
    /\ UNCHANGED <<world, kind, sent, recorded, draft, logged>>

-----------------------------------------------------------------------------
(* What happens beside the call.                                           *)

Tick ==
    /\ clock < MaxTime
    /\ clock' = clock + 1
    /\ UNCHANGED <<life, autoreply, kind, stage, outcome, familiar, sent, recorded,
                   draft, logged, salvaged>>

(* The dashboard's button or /ok_autoreply.                                *)
Toggle ==
    /\ autoreply' = ~autoreply
    /\ UNCHANGED <<clock, life, kind, stage, outcome, familiar, sent, recorded,
                   draft, logged, salvaged>>

(* The process stops and starts: the batch under way is gone, with the     *)
(* times of the sends and the switch.                                      *)
Restart ==
    /\ life < MaxLives
    /\ life' = life + 1
    /\ autoreply' = FALSE
    /\ recorded' = [b \in Batches |-> 0]
    /\ familiar' = FALSE /\ salvaged' = FALSE
    /\ stage' = [b \in Batches |-> IF stage[b] \in Running THEN "lost" ELSE stage[b]]
    /\ UNCHANGED <<clock, kind, outcome, sent, draft, logged>>

-----------------------------------------------------------------------------
Handle(b) == \/ Route(b) \/ Lookup(b) \/ Compose(b) \/ Errand(b) \/ Put(b)
             \/ Answer(b) \/ Queue(b) \/ Log(b) \/ Fail(b)

Next ==
    \/ \E b \in Batches : Begin(b) \/ Handle(b)
    \/ Tick
    \/ Toggle
    \/ Restart

Spec == Init /\ [][Next]_vars

(* Every await of the call ends, by an answer, an error or a timeout (the  *)
(* router's, httpx's and urlopen's).  Nothing else has to happen.          *)
FairSpec == Spec /\ \A b \in Batches : WF_vars(Handle(b))

-----------------------------------------------------------------------------
Confirmed == {b \in Batches : outcome[b] \in {"auto_sent", "inward_sent"}}

(* The messages that room and sender agree on, within a minute up to that  *)
(* of batch b, in one life of the process.                                 *)
Burst(b) ==
    {c \in Confirmed :
        /\ Target(c) = Target(b)
        /\ sent[c].life = sent[b].life
        /\ sent[b].at - Minute < sent[c].at /\ sent[c].at <= sent[b].at}

(* "max outward auto-replies per minute per room": although the limit is   *)
(* checked before the PUT and the send recorded after it, by another time, *)
(* and send_as_owner sends by the same sender, no minute sees more         *)
(* confirmed messages in a room than allowed.  One whose answer was lost   *)
(* is not counted by the code, nor here, and a restart starts a new count. *)
RateLimited ==
    \A b \in Confirmed : Cardinality(Burst(b)) <= MaxReplies

(* "default safe: draft if unknown": a room only gets a reply by itself if *)
(* the agent handled another batch of that room before (an event of that   *)
(* is all that has_room_history looks for, though it says "sent a reply"), *)
(* whatever bonuses the score adds, and when the lookup of the history     *)
(* fails.  The exception is the model that reports a confidence above 1.0, *)
(* which nothing clips before the penalty of -0.90 is subtracted.          *)
StrangersDrafted ==
    \A b \in Batches : sent[b].at > 0 /\ errand[b] = "none" =>
        \/ \E c \in logged \ {b} : RoomOf[c] = RoomOf[b]
        \/ b \in excessive

(* What a batch's outcome tells (the audit event, the notification) is     *)
(* true: "drafted" has its row, and what is told as sent reached the room  *)
(* and left no draft that could be approved on top of it.  So a room gets  *)
(* two replies to one batch only if the answer to the first send was lost. *)
OutcomeIsTrue ==
    \A b \in Batches :
        /\ b \in Confirmed => sent[b].at > 0 /\ draft[b] = "none"
        /\ outcome[b] = "drafted" <=> draft[b] # "none"

(* The handling of a batch ends: no failure of the model, the room or the  *)
(* database makes the relay wait for ever or try again and again.          *)
BatchEnds ==
    \A b \in Batches : (stage[b] \in Running) ~> (stage[b] \in {"handled", "lost"})

(* What is salvaged from an answer that is not in the asked form is never  *)
(* sent without review, whatever the scorer adds, as long as router and    *)
(* expressions read the message alike: small talk has its bonus, but no    *)
(* context is fetched for it that would add another.  A room with a        *)
(* threshold of up to GarbledMax is not safe from it.                      *)
SalvagedDrafted ==
    \A b \in Batches :
        stage[b] = "put" /\ salvaged => Threshold[RoomOf[b]] <= GarbledMax
=============================================================================
