--------------------------- MODULE ReplyEvidence ---------------------------
(***************************************************************************)
(* What a reply to a chat message is scored on: the intents that the       *)
(* router's model and the regular expressions find in the message, the     *)
(* context that is fetched for the first of them, and the confidence that  *)
(* LLMClient reads in the model's answer.                                  *)
(***************************************************************************)
EXTENDS Routing, Confidence

(* The intents the regular expressions give a chat message.                *)
ChatIntents == {IntentOf([social |-> s, marks |-> m], "outward") :
                    s \in BOOLEAN, m \in SUBSET {"fyi", "question", "request"}}

Unrouted == "none"

(* A message as ContextStrategy meets it: said is its intent by the        *)
(* expressions, routed by the router; found is how many memories a search  *)
(* of the agent's own, of the owner's and of the code would return.        *)
Searches == {"own", "inward", "code"}
Messages ==
    [said : ChatIntents, routed : Intents \cup {Unrouted},
     priority : {"high", "normal", "low"},
     failing : SUBSET {"rag", "code", "sender"}, known : BOOLEAN,
     found : [Searches -> {0, 2, 5}]]

(* A greeting gets its decision without the router's model, of priority    *)
(* low; without the router's decision the priority is normal.              *)
Routed(m) ==
    /\ m.said = "social" => m.routed \in {"social", Unrouted}
    /\ m.said = "social" /\ m.routed = "social" => m.priority = "low"
    /\ m.routed = Unrouted => m.priority = "normal"

Intent(m) == IF m.routed = Unrouted THEN m.said ELSE m.routed

-----------------------------------------------------------------------------
(* CONTEXT_STRATEGIES.                                                     *)
Strategy(intent) ==
    CASE intent = "social"      -> {}
      [] intent = "fyi"         -> {"sender"}
      [] intent = "question"    -> {"rag", "code", "sender", "room"}
      [] intent = "request"     -> {"rag", "sender", "room", "thread"}
      [] intent = "instruction" -> {"rag", "sender"}
      [] intent = "query"       -> {"rag", "code"}

(* resolve: a fetch that fails leaves its part of the bundle empty.        *)
Fetched(m) == Strategy(Intent(m)) \ m.failing

(* _fetch_rag: the owner's memories, too, where the reply is about work.   *)
FromRag(m) ==
    m.found["own"] + (IF Intent(m) \in {"question", "request"} THEN m.found["inward"] ELSE 0)

Memories(m) ==
    (IF "rag" \in Fetched(m) THEN FromRag(m) ELSE 0)
    + (IF "code" \in Fetched(m) THEN m.found["code"] ELSE 0)

(* What the skill tells the scorer of it; agreed says that the context was *)
(* fetched for the intent the score is for.                                *)
Evidence ==
    {[many     |-> Memories(m) >= 3,
      known    |-> "sender" \in Fetched(m) /\ m.known,
      small    |-> m.said \in {"social", "fyi"},
      priority |-> m.priority,
      agreed   |-> Intent(m) = m.said] : m \in {x \in Messages : Routed(x)}}

-----------------------------------------------------------------------------
(* What generate returns, if it does not raise an error: an object with    *)
(* the model's confidence, which may be any number, or without, or a text  *)
(* that is none, or with a confidence that is no number.                   *)
Texts(confidences) ==
    [form : {"object", "silent", "garbled"}, confidence : confidences]

(* Mutation: a text that cannot be read has the neutral confidence, too.   *)
Parsed_Neutral(t) == IF t.form = "object" THEN t.confidence ELSE 50

(* _parse_response, which leaves the number as it is.                      *)
Parsed(t) ==
    IF t.form = "object" THEN t.confidence
    ELSE IF t.form = "silent" THEN 50 ELSE 30

(* The most a text that cannot be read scores where the intents agree: 30  *)
(* + 25 + 15 for small talk, 30 + 10 + 15 for work.                        *)
GarbledMax == 70
=============================================================================
