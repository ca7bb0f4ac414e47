------------------------------ MODULE Routing -------------------------------
(***************************************************************************)
(* Which skill handles an event: the LLM router, the regular expressions   *)
(* that stand in for it, and the registry of skills.  An event is a record *)
(* of what the decisions read: its source, whether its text is a greeting, *)
(* an instruction to send a message or has the marks of an intent, and the *)
(* room it was said in.                                                    *)
(***************************************************************************)
EXTENDS Naturals, Sequences

OutwardSources == {"matrix", "chat", "gchat", "google_chat"}
InwardSources  == {"dashboard", "cli", "terminal", "api", "cron"}

Modes   == {"outward", "inward"}
Intents == {"question", "request", "fyi", "social", "instruction", "query"}

(* What the router's model may answer: no answer within two seconds or an  *)
(* error, something that is no valid classification, or one.               *)
Classifications == [mode : Modes, intent : Intents, respond : BOOLEAN]
NoDecision == [mode |-> "none", intent |-> "none", respond |-> FALSE]

-----------------------------------------------------------------------------
(* Classifier.classify_mode.                                               *)
ModeOf(e) ==
    IF e.source \in OutwardSources THEN "outward"
    ELSE IF e.source \in InwardSources THEN "inward"
    ELSE IF e.room = "matrix" THEN "outward" ELSE "inward"

(* Classifier.classify_intent: the first mark that is there decides.       *)
InwardMarks == <<"instruction", "query", "fyi", "question", "request">>

IntentOf(e, mode) ==
    LET marks == SelectSeq(InwardMarks, LAMBDA m :
                     m \in e.marks /\ (m \in {"instruction", "query"} => mode = "inward"))
    IN  IF e.social THEN "social"
        ELSE IF marks # <<>> THEN Head(marks)
        ELSE IF mode = "outward" THEN "fyi" ELSE "query"

(* LLMRouter.route for a greeting: no model is asked, and a group hears    *)
(* nothing back unless it named the owner.                                 *)
Greeting(e) ==
    [mode    |-> IF e.source \in OutwardSources THEN "outward" ELSE "inward",
     intent  |-> "social",
     respond |-> ~e.group \/ e.mentioned]

(* The decision of process_event; the expressions never hold a reply back. *)
Decision(e, answer) ==
    IF e.social THEN Greeting(e)
    ELSE IF answer \in Classifications THEN answer
    ELSE [mode    |-> ModeOf(e),
          intent  |-> IntentOf(e, ModeOf(e)),
          respond |-> TRUE]

(* SkillRegistry.match over the skills in the order of their registration. *)
SkillFor(e, mode) ==
    IF mode = "inward" /\ e.wish THEN "send_as_owner"
    ELSE IF mode = "outward" THEN "outward_reply"
    ELSE "inward_query"
=============================================================================
