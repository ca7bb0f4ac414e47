------------------------- MODULE OutwardReplyProofs -------------------------
(* Proofs that the properties of OutwardReply hold for every set of batches *)
(* and rooms, every threshold above StrangerMax, every rate limit, and any  *)
(* number of restarts.                                                      *)
EXTENDS OutwardReply, TLAPS, FiniteSetTheorems

(* The scorer's modifiers are bounded: unless the model reports more than  *)
(* 1.0, a score without history stays below every threshold.               *)
LEMMA ScoreOfStranger ==
    ASSUME NEW base \in Int, base <= 100, NEW s \in Signals, ~s.history
    PROVE  Score(base, s) \in 0..StrangerMax
<1>1. ~s.history /\ s.priority \in {"high", "normal", "low"}
  BY DEF Signals
<1> DEFINE x == base + Modifier(s.manyMemories, 10)
                     + Modifier(s.deadlineRisk, -20)
                     + Modifier(~s.senderKnown, -15)
                     + Modifier(s.social, IF s.group THEN -90 ELSE 25)
                     + Modifier(~s.history, -90)
                     + Modifier(s.titled, -30)
                     + Modifier(s.foreign, -10)
                     + Modifier(s.priority = "high", 15)
                     + Modifier(s.priority = "low", -10)
<1>2. /\ Modifier(s.manyMemories, 10) \in {0, 10}
      /\ Modifier(s.deadlineRisk, -20) \in {0, -20}
      /\ Modifier(~s.senderKnown, -15) \in {0, -15}
      /\ Modifier(s.social, IF s.group THEN -90 ELSE 25) \in {0, -90, 25}
      /\ Modifier(~s.history, -90) = -90
      /\ Modifier(s.titled, -30) \in {0, -30}
      /\ Modifier(s.foreign, -10) \in {0, -10}
      /\ Modifier(s.priority = "high", 15) \in {0, 15}
      /\ Modifier(s.priority = "low", -10) \in {0, -10}
  BY <1>1 DEF Modifier
<1>3. x \in Int /\ x <= 60
  BY <1>2
<1>4. Score(base, s) = Clipped(x)
  BY DEF Score
<1>5. QED
  BY <1>3, <1>4 DEF Clipped, StrangerMax

(* What a reply is scored on is what the scorer looks at.                  *)
LEMMA EvidenceType ==
    ASSUME NEW e \in Evidence, NEW rest \in Rest
    PROVE  /\ Seen(e, rest) \in Signals
           /\ Seen(e, rest).history = rest.history
<1>1. PICK m \in Messages :
          e = [many |-> Memories(m) >= 3, known |-> "sender" \in Fetched(m) /\ m.known,
               small |-> m.said \in {"social", "fyi"}, priority |-> m.priority,
               agreed |-> Intent(m) = m.said]
  BY DEF Evidence
<1>2. m.priority \in {"high", "normal", "low"}
  BY DEF Messages
<1>3. /\ (Memories(m) >= 3) \in BOOLEAN /\ (m.said \in {"social", "fyi"}) \in BOOLEAN
      /\ ("sender" \in Fetched(m) /\ m.known) \in BOOLEAN
  OBVIOUS
<1>4. /\ e.many \in BOOLEAN /\ e.known \in BOOLEAN /\ e.small \in BOOLEAN
      /\ e.priority \in {"high", "normal", "low"}
  BY <1>1, <1>2, <1>3, Zenon
<1>5. /\ rest.deadlineRisk \in BOOLEAN /\ rest.foreign \in BOOLEAN
      /\ rest.group \in BOOLEAN /\ rest.titled \in BOOLEAN /\ rest.history \in BOOLEAN
  BY DEF Rest
<1>6. QED
  BY <1>4, <1>5 DEF Seen, Signals

LEMMA TextScore ==
    ASSUME NEW text \in Texts(Confidences)
    PROVE  Parsed(text) \in Int
<1>1. text.confidence \in Int
  BY ReplyAssumption DEF Texts
<1>2. QED
  BY <1>1 DEF Parsed

(* should_auto_send is only true of a room without history if the model    *)
(* reported more than 1.0.                                                 *)
LEMMA NeverSureOfStranger ==
    ASSUME NEW reply \in Replies, ~reply.history, ~reply.excessive
    PROVE  reply.verdict = "unsure"
<1>1. PICK r \in Rooms, text \in Texts(Confidences), e \in Evidence, rest \in Rest :
          reply = [room |-> r, group |-> rest.group, titled |-> rest.titled,
                   history |-> rest.history,
                   text |-> IF text.form = "garbled" /\ e.agreed
                            THEN "garbled" ELSE "other",
                   excessive |-> Parsed(text) > 100,
                   verdict |-> IF Score(Parsed(text), Seen(e, rest)) >= Threshold[r]
                               THEN "sure" ELSE "unsure"]
  BY DEF Replies
<1>6. /\ Parsed(text) \in Int /\ reply.excessive = (Parsed(text) > 100)
      /\ reply.history = rest.history
  BY <1>1, TextScore
<1>8. ~(Parsed(text) > 100) /\ ~rest.history
  BY <1>6, Zenon
<1>7. Parsed(text) <= 100
  BY <1>6, <1>8
<1>2. Score(Parsed(text), Seen(e, rest)) \in 0..StrangerMax
  BY <1>6, <1>7, <1>8, ScoreOfStranger, EvidenceType
<1>3. Threshold[r] \in (StrangerMax + 1)..100
  BY ReplyAssumption
<1>4. ~(Score(Parsed(text), Seen(e, rest)) >= Threshold[r])
  BY <1>2, <1>3 DEF StrangerMax
<1>5. QED
  BY <1>1, <1>4

(* Where the intents agree, small talk comes without memories: a message   *)
(* gets the bonus of the one or of the other.                              *)
LEMMA EvidenceAgreed ==
    ASSUME NEW e \in Evidence, e.agreed
    PROVE  ~(e.many /\ e.small)
<1>1. PICK m \in Messages :
          e = [many |-> Memories(m) >= 3, known |-> "sender" \in Fetched(m) /\ m.known,
               small |-> m.said \in {"social", "fyi"}, priority |-> m.priority,
               agreed |-> Intent(m) = m.said]
  BY DEF Evidence
<1>2. /\ e.agreed = (Intent(m) = m.said) /\ e.many = (Memories(m) >= 3)
      /\ e.small = (m.said \in {"social", "fyi"})
  BY <1>1, Zenon
<1>3. SUFFICES ASSUME m.said \in {"social", "fyi"} PROVE ~(Memories(m) >= 3)
  BY <1>2
<1>4. Intent(m) \in {"social", "fyi"}
  BY <1>2, <1>3
<1>5. Strategy(Intent(m)) \subseteq {"sender"}
  BY <1>4 DEF Strategy
<1>6. "rag" \notin Fetched(m) /\ "code" \notin Fetched(m)
  BY <1>5 DEF Fetched
<1>7. QED
  BY <1>6 DEF Memories

LEMMA ScoreOfSalvaged ==
    ASSUME NEW s \in Signals, ~(s.manyMemories /\ s.social)
    PROVE  Score(30, s) \in 0..GarbledMax
<1>1. s.priority \in {"high", "normal", "low"}
  BY DEF Signals
<1> DEFINE x == 30 + Modifier(s.manyMemories, 10)
                   + Modifier(s.deadlineRisk, -20)
                   + Modifier(~s.senderKnown, -15)
                   + Modifier(s.social, IF s.group THEN -90 ELSE 25)
                   + Modifier(~s.history, -90)
                   + Modifier(s.titled, -30)
                   + Modifier(s.foreign, -10)
                   + Modifier(s.priority = "high", 15)
                   + Modifier(s.priority = "low", -10)
<1>2. /\ Modifier(s.manyMemories, 10) \in {0, 10}
      /\ Modifier(s.deadlineRisk, -20) \in {0, -20}
      /\ Modifier(~s.senderKnown, -15) \in {0, -15}
      /\ Modifier(s.social, IF s.group THEN -90 ELSE 25) \in {0, -90, 25}
      /\ Modifier(~s.history, -90) \in {0, -90}
      /\ Modifier(s.titled, -30) \in {0, -30}
      /\ Modifier(s.foreign, -10) \in {0, -10}
      /\ Modifier(s.priority = "high", 15) \in {0, 15}
      /\ Modifier(s.priority = "low", -10) \in {0, -10}
  BY DEF Modifier
<1>3. \/ Modifier(s.manyMemories, 10) = 0
      \/ Modifier(s.social, IF s.group THEN -90 ELSE 25) = 0
  BY DEF Modifier
<1>4. x \in Int /\ x <= 70
  BY <1>2, <1>3
<1>5. Score(30, s) = Clipped(x)
  BY DEF Score
<1>6. QED
  BY <1>4, <1>5 DEF Clipped, GarbledMax

(* What is salvaged is only sure where the threshold is that low.          *)
LEMMA SalvagedUnsure ==
    ASSUME NEW reply \in Replies, reply.text = "garbled", reply.verdict = "sure"
    PROVE  Threshold[reply.room] <= GarbledMax
<1>1. PICK r \in Rooms, text \in Texts(Confidences), e \in Evidence, rest \in Rest :
          reply = [room |-> r, group |-> rest.group, titled |-> rest.titled,
                   history |-> rest.history,
                   text |-> IF text.form = "garbled" /\ e.agreed
                            THEN "garbled" ELSE "other",
                   excessive |-> Parsed(text) > 100,
                   verdict |-> IF Score(Parsed(text), Seen(e, rest)) >= Threshold[r]
                               THEN "sure" ELSE "unsure"]
  BY DEF Replies
<1>2. /\ text.form = "garbled" /\ e.agreed
      /\ Score(Parsed(text), Seen(e, rest)) >= Threshold[r]
      /\ reply.room = r
  BY <1>1
<1>3. Parsed(text) = 30
  BY <1>2 DEF Parsed
<1>4. /\ Seen(e, rest).manyMemories = e.many /\ Seen(e, rest).social = e.small
  BY Zenon DEF Seen
<1>5. Score(30, Seen(e, rest)) \in 0..GarbledMax
  BY <1>2, <1>4, EvidenceAgreed, EvidenceType, ScoreOfSalvaged
<1>6. Threshold[r] \in (StrangerMax + 1)..100
  BY ReplyAssumption
<1>7. QED
  BY <1>2, <1>3, <1>5, <1>6 DEF StrangerMax, GarbledMax

-----------------------------------------------------------------------------
(* What Compose and Lookup do, without the set of replies.                 *)
LEMMA ComposeFacts ==
    ASSUME TypeOK, NEW b \in Batches, Compose(b)
    PROVE  /\ stage[b] = "compose" /\ MoveTo(b, stage'[b])
           /\ stage'[b] \in {"put", "queue"}
           /\ stage'[b] = "put" => /\ familiar \/ b \in excessive'
                                   /\ ~LimitReached(RoomOf[b])
           /\ excessive \subseteq excessive' /\ excessive' \subseteq excessive \cup {b}
           /\ familiar' = FALSE /\ salvaged' \in BOOLEAN
           /\ stage'[b] = "put" /\ salvaged' => Threshold[RoomOf[b]] <= GarbledMax
           /\ UNCHANGED <<world, errand, outcome, sent, recorded, draft, logged>>
<1> DEFINE Sure(reply) == /\ reply.verdict = "sure" /\ autoreply
                          /\ ~LimitReached(RoomOf[b])
<1>1. PICK reply \in Replies :
          /\ reply.room = RoomOf[b] /\ reply.history = familiar
          /\ salvaged' = (reply.text = "garbled")
          /\ \/ /\ Sure(reply) /\ MoveTo(b, "put")
                /\ excessive' = excessive \cup {c \in {b} : reply.excessive /\ ~familiar}
             \/ /\ ~Sure(reply) /\ MoveTo(b, "queue") /\ UNCHANGED excessive
  BY DEF Compose
<1>2. reply.verdict = "sure" => familiar \/ (reply.excessive /\ ~familiar)
  BY <1>1, NeverSureOfStranger
<1>6. salvaged' \in BOOLEAN /\ (salvaged' => reply.text = "garbled")
  BY <1>1, Zenon
<1>7. reply.verdict = "sure" /\ salvaged' => Threshold[RoomOf[b]] <= GarbledMax
  BY <1>1, <1>6, SalvagedUnsure
<1>8. /\ stage[b] = "compose" /\ familiar' = FALSE
      /\ UNCHANGED <<world, errand, outcome, sent, recorded, draft, logged>>
  BY DEF Compose
<1>3. CASE Sure(reply)
  <2>1. /\ MoveTo(b, "put")
        /\ excessive' = excessive \cup {c \in {b} : reply.excessive /\ ~familiar}
    BY <1>1, <1>3
  <2>2. stage'[b] = "put" /\ MoveTo(b, stage'[b])
    BY <2>1 DEF MoveTo, TypeOK
  <2>3. familiar \/ b \in excessive'
    BY <1>2, <1>3, <2>1
  <2>4. QED
    BY <1>3, <1>6, <1>7, <1>8, <2>1, <2>2, <2>3
<1>4. CASE ~Sure(reply)
  <2>1. MoveTo(b, "queue") /\ UNCHANGED excessive
    BY <1>1, <1>4
  <2>2. stage'[b] = "queue" /\ MoveTo(b, stage'[b])
    BY <2>1 DEF MoveTo, TypeOK
  <2>3. QED
    BY <1>6, <1>8, <2>1, <2>2
<1>5. QED
  BY <1>3, <1>4

(* ... the part of it that the frame needs.                                *)
LEMMA ComposeFrame ==
    ASSUME TypeOK, NEW b \in Batches, Compose(b)
    PROVE  /\ stage[b] = "compose"
           /\ \A c \in Batches \ {b} : stage'[c] = stage[c]
           /\ excessive \subseteq excessive'
           /\ UNCHANGED <<world, errand, outcome, sent, recorded, draft, logged>>
<1>1. /\ stage[b] = "compose" /\ MoveTo(b, stage'[b])
      /\ excessive \subseteq excessive'
      /\ UNCHANGED <<world, errand, outcome, sent, recorded, draft, logged>>
  BY ComposeFacts
<1>2. \A c \in Batches \ {b} : stage'[c] = stage[c]
  BY <1>1 DEF MoveTo, TypeOK
<1>3. QED
  BY <1>1, <1>2

LEMMA LookupFacts ==
    ASSUME NEW b \in Batches, Lookup(b)
    PROVE  /\ stage[b] = "lookup" /\ MoveTo(b, "compose")
           /\ familiar' \in BOOLEAN
           /\ familiar' => \E c \in logged : RoomOf[c] = RoomOf[b]
           /\ UNCHANGED <<world, kind, outcome, sent, recorded, draft, logged, salvaged>>
  BY Zenon DEF Lookup

-----------------------------------------------------------------------------
LEMMA TypeInit == Init => TypeOK
<1> SUFFICES ASSUME Init PROVE TypeOK
  OBVIOUS
<1>1. [at |-> 0, life |-> 0] \in [at : Nat, life : Nat]
  OBVIOUS
<1>2. sent \in [Batches -> [at : Nat, life : Nat]]
  BY <1>1 DEF Init
<1>3. /\ clock \in Nat \ {0} /\ life \in Nat \ {0}
      /\ recorded \in [Batches -> Nat]
  BY DEF Init
<1>4. /\ autoreply \in BOOLEAN /\ familiar \in BOOLEAN
      /\ stage \in [Batches -> Running \cup {"waiting", "handled", "lost"}]
      /\ outcome \in [Batches -> Outcomes]
      /\ draft \in [Batches -> {"none", "pending"}]
      /\ logged \in SUBSET Batches /\ salvaged \in BOOLEAN
      /\ errand \in [Batches -> Rooms \cup {"none"}] /\ excessive \subseteq Batches
  BY DEF Init, Outcomes
<1>5. QED
  BY <1>2, <1>3, <1>4 DEF TypeOK

LEMMA TypeStep == TypeOK /\ [Next]_vars => TypeOK'
<1> SUFFICES ASSUME TypeOK, [Next]_vars PROVE TypeOK'
  OBVIOUS
<1> USE DEF TypeOK, Running, Outcomes, Ends, MoveTo, world, kind
<1>1. CASE UNCHANGED vars
  BY <1>1 DEF vars
<1>2. ASSUME NEW b \in Batches, Begin(b) PROVE TypeOK'
  BY <1>2 DEF Begin
<1>3. ASSUME NEW b \in Batches, Handle(b) PROVE TypeOK'
  <2>1. CASE Route(b)
    BY <2>1 DEF Route
  <2>2. CASE Lookup(b)
    BY <2>2, LookupFacts
  <2>3. CASE Compose(b)
    <3>1. /\ stage' = [stage EXCEPT ![b] = stage'[b]] /\ stage'[b] \in {"put", "queue"}
          /\ excessive' \subseteq excessive \cup {b} /\ familiar' = FALSE
          /\ salvaged' \in BOOLEAN
          /\ UNCHANGED <<clock, life, autoreply, errand, outcome, sent, recorded,
                         draft, logged>>
      BY <2>3, ComposeFacts
    <3>2. excessive' \subseteq Batches
      BY <3>1
    <3>3. stage' \in [Batches -> Running \cup {"waiting", "handled", "lost"}]
      BY <3>1
    <3>4. QED
      BY <3>1, <3>2, <3>3, Zenon
  <2>4. CASE Put(b)
    BY <2>4 DEF Put
  <2>5. CASE Answer(b)
    BY <2>5 DEF Answer, Delivered, NotDelivered
  <2>9. CASE Errand(b)
    <3>1. errand' \in [Batches -> Rooms \cup {"none"}]
      BY <2>9 DEF Errand
    <3>2. /\ stage' \in [Batches -> Running \cup {"waiting", "handled", "lost"}]
          /\ outcome' \in [Batches -> Outcomes]
      BY <2>9 DEF Errand
    <3>3. UNCHANGED <<clock, life, autoreply, excessive, familiar, sent, recorded,
                      draft, logged, salvaged>>
      BY <2>9 DEF Errand
    <3>4. QED
      BY <3>1, <3>2, <3>3
  <2>6. CASE Queue(b) \/ Log(b)
    BY <2>6 DEF Queue, Log
  <2>7. CASE Fail(b)
    BY <2>7 DEF Fail
  <2>8. QED
    BY <1>3, <2>1, <2>2, <2>3, <2>4, <2>5, <2>6, <2>7, <2>9 DEF Handle
<1>5. CASE Tick
  BY <1>5 DEF Tick
<1>6. CASE Toggle
  <2>1. autoreply' \in BOOLEAN
    BY <1>6, Zenon DEF Toggle
  <2>2. QED
    BY <1>6, <2>1 DEF Toggle
<1>7. CASE Restart
  <2>1. autoreply' = FALSE /\ familiar' = FALSE /\ salvaged' = FALSE
    BY <1>7 DEF Restart
  <2>2. stage' \in [Batches -> Running \cup {"waiting", "handled", "lost"}]
    BY <1>7 DEF Restart
  <2>3. /\ life' \in Nat \ {0} /\ recorded' \in [Batches -> Nat]
        /\ UNCHANGED <<clock, errand, excessive, outcome, sent, draft, logged>>
    BY <1>7 DEF Restart
  <2>4. QED
    BY <2>1, <2>2, <2>3
<1>8. QED
  BY <1>1, <1>2, <1>3, <1>5, <1>6, <1>7 DEF Next

(* Every reachable state is well typed.                                    *)
THEOREM Typing == Spec => []TypeOK
  BY TypeInit, TypeStep, PTL DEF Spec

-----------------------------------------------------------------------------
(* The invariant behind the first two properties: one batch is under way   *)
(* at a time; what a batch has not come to yet, it has not left a trace    *)
(* of; and only what the agent knows of the room lets a reply out.         *)
Undecided  == {"waiting", "route", "lookup", "compose", "errand"}
Unanswered == Undecided \cup {"put", "answer", "queue"}

Known(b) == \E c \in logged \ {b} : RoomOf[c] = RoomOf[b]

OneAtATime ==
    \A b, c \in Batches : stage[b] \in Running /\ stage[c] \in Running => b = c

Untraced ==
    \A b \in Batches :
        /\ stage[b] \in Unanswered =>
              outcome[b] = "none" /\ draft[b] = "none" /\ recorded[b] = 0
        /\ stage[b] \in Undecided \cup {"put"} => sent[b].at = 0
        /\ stage[b] \in Undecided \cup {"queue"} => errand[b] = "none"
        /\ b \in logged => stage[b] = "handled"

KnownBefore ==
    \A b \in Batches :
        /\ stage[b] = "compose" /\ familiar => Known(b)
        /\ stage[b] = "put" \/ sent[b].at > 0 =>
              Known(b) \/ b \in excessive \/ errand[b] # "none"

ReplyInv == OneAtATime /\ Untraced /\ KnownBefore /\ OutcomeIsTrue

LEMMA ReplyInvInit == Init => ReplyInv
  BY DEF Init, ReplyInv, OneAtATime, Untraced, KnownBefore, OutcomeIsTrue,
     Unanswered, Undecided, Running, Confirmed

(* A step of the handling of b leaves the other batches alone.             *)
LEMMA HandleFrame ==
    ASSUME TypeOK, NEW b \in Batches, Handle(b)
    PROVE  /\ stage[b] \in Running
           /\ \A c \in Batches \ {b} :
                 /\ stage'[c] = stage[c] /\ outcome'[c] = outcome[c]
                 /\ sent'[c] = sent[c] /\ recorded'[c] = recorded[c]
                 /\ draft'[c] = draft[c] /\ (c \in logged' <=> c \in logged)
                 /\ errand'[c] = errand[c]
           /\ logged \subseteq logged' /\ excessive \subseteq excessive'
           /\ UNCHANGED world
<1> USE DEF TypeOK, Running, Ends, MoveTo, world, kind
<1>1. CASE Route(b)
  BY <1>1 DEF Route
<1>2. CASE Lookup(b)
  BY <1>2, LookupFacts
<1>3. CASE Compose(b)
  BY <1>3, ComposeFrame
<1>4. CASE Put(b)
  BY <1>4 DEF Put
<1>5. CASE Answer(b)
  BY <1>5 DEF Answer, Delivered, NotDelivered
<1>10. CASE Errand(b)
  BY <1>10 DEF Errand
<1>6. CASE Queue(b)
  BY <1>6 DEF Queue
<1>7. CASE Log(b)
  BY <1>7 DEF Log
<1>8. CASE Fail(b)
  BY <1>8 DEF Fail
<1>9. QED
  BY <1>1, <1>2, <1>3, <1>4, <1>5, <1>6, <1>7, <1>8, <1>10 DEF Handle

(* ... and does this to b itself.                                          *)
LEMMA HandleShape ==
    ASSUME TypeOK, NEW b \in Batches, Handle(b)
    PROVE
      \/ /\ stage[b] = "route" /\ stage'[b] \in {"handled", "log", "lookup", "errand"}
         /\ outcome'[b] \in {"skipped", "inward", outcome[b]}
         /\ stage'[b] \in {"lookup", "errand"} => outcome'[b] = outcome[b]
         /\ UNCHANGED <<kind, familiar, sent, recorded, draft, logged>>
      \/ /\ stage[b] = "lookup" /\ stage'[b] = "compose"
         /\ familiar' => \E c \in logged : RoomOf[c] = RoomOf[b]
         /\ UNCHANGED <<kind, outcome, sent, recorded, draft, logged>>
      \/ /\ stage[b] = "compose" /\ stage'[b] \in {"put", "queue"}
         /\ stage'[b] = "put" => /\ familiar \/ b \in excessive'
                                 /\ ~LimitReached(RoomOf[b])
         /\ UNCHANGED <<errand, outcome, sent, recorded, draft, logged>>
      \/ /\ stage[b] = "errand" /\ stage'[b] = "log" /\ outcome'[b] = "inward"
         /\ UNCHANGED <<kind, sent, recorded, draft, logged>>
      \/ /\ stage[b] = "errand" /\ stage'[b] = "put"
         /\ errand'[b] \in Rooms /\ ~LimitReached(errand'[b])
         /\ UNCHANGED <<excessive, outcome, sent, recorded, draft, logged>>
      \/ /\ stage[b] = "put" /\ stage'[b] = "answer"
         /\ sent'[b] \in {sent[b], [at |-> clock, life |-> life]}
         /\ UNCHANGED <<kind, outcome, recorded, draft, logged>>
      \/ /\ stage[b] = "answer" /\ stage'[b] = "log" /\ sent[b].at > 0
         /\ outcome'[b] \in {"auto_sent", "inward_sent"} /\ recorded'[b] = clock
         /\ UNCHANGED <<kind, sent, draft, logged>>
      \/ /\ stage[b] = "answer" /\ stage'[b] = "queue" /\ errand[b] = "none"
         /\ UNCHANGED <<kind, outcome, sent, recorded, draft, logged>>
      \/ /\ stage[b] = "answer" /\ stage'[b] = "log" /\ outcome'[b] = "inward"
         /\ UNCHANGED <<kind, sent, recorded, draft, logged>>
      \/ /\ stage[b] = "queue" /\ stage'[b] = "log"
         /\ outcome'[b] = "drafted" /\ draft'[b] = "pending"
         /\ UNCHANGED <<kind, sent, recorded, logged>>
      \/ /\ stage[b] = "log" /\ stage'[b] = "handled"
         /\ UNCHANGED <<kind, outcome, sent, recorded, draft>>
      \/ /\ stage[b] \in {"route", "compose", "errand", "queue"} /\ stage'[b] = "handled"
         /\ outcome'[b] = "error"
         /\ UNCHANGED <<kind, sent, recorded, draft, logged>>
<1> USE DEF TypeOK, Running, Ends, MoveTo, kind
<1>1. CASE Route(b)
  BY <1>1 DEF Route
<1>2. CASE Lookup(b)
  BY <1>2, LookupFacts
<1>3. CASE Compose(b)
  BY <1>3, ComposeFacts
<1>4. CASE Put(b)
  BY <1>4 DEF Put
<1>5. CASE Answer(b)
  BY <1>5 DEF Answer, Delivered, NotDelivered
<1>10. CASE Errand(b)
  BY <1>10 DEF Errand
<1>6. CASE Queue(b)
  BY <1>6 DEF Queue
<1>7. CASE Log(b)
  BY <1>7 DEF Log
<1>8. CASE Fail(b)
  BY <1>8 DEF Fail
<1>9. QED
  BY <1>1, <1>2, <1>3, <1>4, <1>5, <1>6, <1>7, <1>8, <1>10 DEF Handle

LEMMA ReplyInvStep == TypeOK /\ ReplyInv /\ [Next]_vars => ReplyInv'
<1> SUFFICES ASSUME TypeOK, ReplyInv, [Next]_vars PROVE ReplyInv'
  OBVIOUS
<1> USE ReplyAssumption
<1> USE DEF TypeOK, ReplyInv, OneAtATime, Untraced, KnownBefore, OutcomeIsTrue,
            Known, Unanswered, Undecided, Running, Confirmed
<1>1. CASE UNCHANGED vars
  BY <1>1 DEF vars
<1>2. ASSUME NEW b \in Batches, Begin(b) PROVE ReplyInv'
  BY <1>2 DEF Begin, Ends, MoveTo, world, kind
<1>3. ASSUME NEW b \in Batches, Handle(b) PROVE ReplyInv'
  <2>1. OneAtATime'
    BY <1>3, HandleFrame
  <2>2. \A c \in Batches \ {b} :
           stage[c] \notin Running /\ stage'[c] = stage[c] /\ sent'[c] = sent[c]
    BY <1>3, HandleFrame
  <2>3. Untraced'
    <3>1. \A c \in Batches \ {b} :
             /\ stage'[c] \in Unanswered =>
                   outcome'[c] = "none" /\ draft'[c] = "none" /\ recorded'[c] = 0
             /\ stage'[c] \in Undecided \cup {"put"} => sent'[c].at = 0
             /\ stage'[c] \in Undecided \cup {"queue"} => errand'[c] = "none"
             /\ c \in logged' => stage'[c] = "handled"
      BY <1>3, HandleFrame
    <3>2. /\ stage'[b] \in Unanswered =>
                outcome'[b] = "none" /\ draft'[b] = "none" /\ recorded'[b] = 0
          /\ stage'[b] \in Undecided \cup {"put"} => sent'[b].at = 0
          /\ stage'[b] \in Undecided \cup {"queue"} => errand'[b] = "none"
          /\ b \in logged' => stage'[b] = "handled"
      BY <1>3, HandleShape DEF kind
    <3>3. QED
      BY <3>1, <3>2
  <2>4. KnownBefore'
    <3>1. ASSUME NEW c \in Batches, Known(c) PROVE Known(c)'
      BY <1>3, <3>1, HandleFrame
    <3>2. \A c \in Batches \ {b} :
             /\ stage'[c] \notin {"compose", "put"}
             /\ sent'[c].at > 0 => Known(c) \/ c \in excessive' \/ errand'[c] # "none"
      BY <1>3, <2>2, HandleFrame
    <3>3. ASSUME stage'[b] = "compose", familiar' PROVE Known(b)
      <4>1. stage[b] = "lookup"
        BY <1>3, <3>3, HandleShape
      <4>2. Lookup(b)
        BY <1>3, <4>1 DEF Handle, Route, Compose, Errand, Put, Answer, Queue, Log, Fail
      <4>3. PICK c \in logged : RoomOf[c] = RoomOf[b]
        BY <3>3, <4>2, LookupFacts
      <4>4. QED
        BY <4>1, <4>3
    <3>4. stage'[b] = "put" \/ sent'[b].at > 0 =>
             Known(b) \/ b \in excessive' \/ errand'[b] # "none"
      <4>1. excessive \subseteq excessive' /\ "none" \notin Rooms
        BY <1>3, HandleFrame, ReplyAssumption
      <4>2. QED
        BY <1>3, <4>1, HandleShape DEF kind
    <3>5. QED
      BY <3>1, <3>2, <3>3, <3>4
  <2>5. OutcomeIsTrue'
    <3>1. /\ outcome'[b] \in {"auto_sent", "inward_sent"} => sent'[b].at > 0 /\ draft'[b] = "none"
          /\ outcome'[b] = "drafted" <=> draft'[b] # "none"
      BY <1>3, HandleShape
    <3>2. QED
      BY <1>3, <3>1, HandleFrame
  <2>6. QED
    BY <2>1, <2>3, <2>4, <2>5
<1>5. CASE Tick \/ Toggle
  BY <1>5 DEF Tick, Toggle, kind
<1>6. CASE Restart
  BY <1>6 DEF Restart, kind
<1>7. QED
  BY <1>1, <1>2, <1>3, <1>5, <1>6 DEF Next

(* The room only ever hears from the agent by itself after the agent       *)
(* handled another batch there, for every threshold above StrangerMax and  *)
(* whatever numbers the model reports: only one above 1.0 is excepted.     *)
THEOREM StrangersDraftedHolds == Spec => []StrangersDrafted
<1>1. ReplyInv => StrangersDrafted
  BY DEF ReplyInv, KnownBefore, Known, StrangersDrafted
<1>2. QED
  BY <1>1, ReplyInvInit, ReplyInvStep, Typing, PTL DEF Spec

(* The outcome of a batch agrees with the room and the table of drafts.    *)
THEOREM OutcomeIsTrueHolds == Spec => []OutcomeIsTrue
<1>1. ReplyInv => OutcomeIsTrue
  BY DEF ReplyInv
<1>2. QED
  BY <1>1, ReplyInvInit, ReplyInvStep, Typing, PTL DEF Spec

(* Between Compose and the end of the sending, the reply of an answer that *)
(* could not be read is the reply under way: no errand is sent meanwhile.  *)
SalvagedUnderWay ==
    salvaged => \E b \in Batches : /\ stage[b] \in {"put", "answer", "queue"}
                                   /\ errand[b] = "none"

SalvagedInv == SalvagedUnderWay /\ SalvagedDrafted

LEMMA SalvagedInvHandle ==
    ASSUME TypeOK, ReplyInv, SalvagedInv, NEW b \in Batches, Handle(b)
    PROVE  SalvagedInv'
<1> USE DEF TypeOK, Running, Ends, MoveTo, kind
<1>1. \A c \in Batches \ {b} : stage[c] \notin Running /\ stage'[c] = stage[c]
  BY HandleFrame DEF ReplyInv, OneAtATime
<1>2. salvaged => stage[b] \in {"put", "answer", "queue"} /\ errand[b] = "none"
  BY <1>1 DEF SalvagedInv, SalvagedUnderWay
<1>3. /\ \A c \in Batches : stage'[c] = "put" => c = b
      /\ stage'[b] = "put" /\ salvaged' => Threshold[RoomOf[b]] <= GarbledMax
      /\ salvaged' => stage'[b] \in {"put", "answer", "queue"} /\ errand'[b] = "none"
  <2>1. CASE Compose(b)
    <3>1. errand[b] = "none"
      BY <2>1, ComposeFacts DEF ReplyInv, Untraced, Undecided
    <3>2. /\ stage'[b] = "put" /\ salvaged' => Threshold[RoomOf[b]] <= GarbledMax
          /\ stage'[b] \in {"put", "queue"} /\ UNCHANGED errand
      BY <2>1, ComposeFacts
    <3>3. \A c \in Batches : stage'[c] = "put" => c = b
      BY <1>1
    <3>4. QED
      BY <3>1, <3>2, <3>3
  <2>2. CASE Route(b) \/ Lookup(b)
    BY <1>1, <1>2, <2>2, LookupFacts DEF Route
  <2>3. CASE Errand(b)
    BY <1>1, <1>2, <2>3 DEF Errand
  <2>4. CASE Put(b)
    BY <1>1, <1>2, <2>4 DEF Put
  <2>5. CASE Answer(b)
    BY <1>1, <1>2, <2>5 DEF Answer, Delivered, NotDelivered
  <2>6. CASE Queue(b) \/ Log(b)
    BY <1>1, <1>2, <2>6 DEF Queue, Log
  <2>7. CASE Fail(b)
    BY <1>1, <2>7 DEF Fail
  <2>8. QED
    BY <2>1, <2>2, <2>3, <2>4, <2>5, <2>6, <2>7 DEF Handle
<1>4. QED
  BY <1>3 DEF SalvagedInv, SalvagedUnderWay, SalvagedDrafted

(* No answer that could not be read is sent to a room with a threshold     *)
(* above GarbledMax, for every set of confidences the model may report: it *)
(* is decided in Compose, and no other batch is under way until the PUT.   *)
THEOREM SalvagedDraftedHolds == Spec => []SalvagedDrafted
<1>1. Init => SalvagedInv
  BY DEF Init, SalvagedInv, SalvagedUnderWay, SalvagedDrafted
<1>2. TypeOK /\ ReplyInv /\ SalvagedInv /\ [Next]_vars => SalvagedInv'
  <2> SUFFICES ASSUME TypeOK, ReplyInv, SalvagedInv, [Next]_vars PROVE SalvagedInv'
    OBVIOUS
  <2> USE DEF SalvagedInv, SalvagedUnderWay, SalvagedDrafted
  <2>1. CASE UNCHANGED vars
    BY <2>1 DEF vars
  <2>2. ASSUME NEW b \in Batches, Begin(b) PROVE SalvagedInv'
    <3>1. \A c \in Batches : stage[c] \notin Running
      BY <2>2 DEF Begin
    <3>2. ~salvaged
      BY <3>1 DEF Running
    <3>3. QED
      BY <2>2, <3>2 DEF Begin
  <2>3. ASSUME NEW b \in Batches, Handle(b) PROVE SalvagedInv'
    BY <2>3, SalvagedInvHandle
  <2>4. CASE Tick \/ Toggle
    BY <2>4 DEF Tick, Toggle, kind
  <2>5. CASE Restart
    BY <2>5 DEF Restart
  <2>6. QED
    BY <2>1, <2>2, <2>3, <2>4, <2>5 DEF Next
<1>3. SalvagedInv => SalvagedDrafted
  BY DEF SalvagedInv
<1>4. QED
  BY <1>1, <1>2, <1>3, ReplyInvInit, ReplyInvStep, Typing, PTL DEF Spec

-----------------------------------------------------------------------------
(* The invariant behind the rate limit.  The time that counts is that of   *)
(* the PUT: the limit was checked before it, the send is recorded after    *)
(* it, and no other reply is under way in between.                         *)
Clocked ==
    \A b \in Batches : sent[b].at <= clock /\ sent[b].life <= life

RecordedAfterwards ==
    \A b \in Confirmed : sent[b].life = life =>
        sent[b].at <= recorded[b]

RoomBeforePut ==
    \A b \in Batches : stage[b] = "put" =>
        Cardinality(Recent(Target(b), clock)) < MaxReplies

RoomAtPut ==
    \A b \in Batches : stage[b] = "answer" /\ sent[b].at > 0 =>
        /\ sent[b].life = life
        /\ Cardinality(Recent(Target(b), sent[b].at)) < MaxReplies
        /\ \A c \in Batches : sent[c].life = life => sent[c].at <= sent[b].at

RateInv == Clocked /\ RecordedAfterwards /\ RoomBeforePut /\ RoomAtPut /\ RateLimited

LEMMA RecentFinite ==
    ASSUME NEW r, NEW t
    PROVE  IsFiniteSet(Recent(r, t)) /\ Cardinality(Recent(r, t)) \in Nat
  BY ReplyAssumption, FS_Subset, FS_CardinalityType DEF Recent

(* What the limit counts, and a burst, depends on the sends it has         *)
(* recorded, or that are confirmed, alone.                                 *)
LEMMA RecentKept ==
    ASSUME UNCHANGED recorded, NEW r, NEW t,
           \A c \in Batches : recorded[c] > 0 => errand'[c] = errand[c]
    PROVE  Recent(r, t)' = Recent(r, t)
  BY DEF Recent, Target

LEMMA BurstKept ==
    ASSUME Confirmed' = Confirmed,
           \A c \in Confirmed : sent'[c] = sent[c] /\ errand'[c] = errand[c],
           NEW b \in Confirmed
    PROVE  Burst(b)' = Burst(b)
  BY DEF Burst, Target

(* When the answer to a PUT arrives, the burst it completes is the reply   *)
(* itself and what the limit counted.                                      *)
LEMMA BurstOfAnswered ==
    ASSUME TypeOK, ReplyInv, RateInv, NEW b \in Batches,
           stage[b] = "answer", sent[b].at > 0,
           Confirmed' = Confirmed \cup {b}, UNCHANGED <<sent, errand>>
    PROVE  Cardinality(Burst(b)') <= MaxReplies
<1> DEFINE Counted == Recent(Target(b), sent[b].at)
<1>1. /\ sent[b].life = life /\ Cardinality(Counted) < MaxReplies
      /\ IsFiniteSet(Counted) /\ Cardinality(Counted) \in Nat
  BY RecentFinite DEF RateInv, RoomAtPut
<1>2. ASSUME NEW c \in Batches, c \in Burst(b)', c # b PROVE c \in Counted
  <2>1. /\ Target(c) = Target(b) /\ c \in Confirmed
        /\ sent[c].life = life /\ sent[b].at - Minute < sent[c].at
    BY <1>1, <1>2 DEF Burst, Target
  <2>6. c \in Batches
    BY <2>1 DEF Confirmed
  <2>2. sent[c].at <= recorded[c] /\ sent[c].at > 0
    BY <2>1, <2>6 DEF RateInv, RecordedAfterwards, ReplyInv, OutcomeIsTrue
  <2>3. /\ sent[b].at \in Nat /\ sent[c].at \in Nat /\ recorded[c] \in Nat
        /\ Minute \in Nat
    BY <2>6, ReplyAssumption DEF TypeOK
  <2>4. recorded[c] > 0 /\ sent[b].at - recorded[c] < Minute
    BY <2>1, <2>2, <2>3
  <2>5. QED
    BY <2>1, <2>4, <2>6 DEF Recent
<1>8. Burst(b)' \subseteq Batches
  BY DEF Burst, Confirmed
<1> HIDE DEF Counted
<1>3. Burst(b)' \subseteq Counted \cup {b}
  BY <1>2, <1>8
<1> USE DEF Counted
<1>4. /\ IsFiniteSet(Counted \cup {b})
      /\ Cardinality(Counted \cup {b}) <= Cardinality(Counted) + 1
  <2>1. Cardinality(Counted \cup {b}) = IF b \in Counted THEN Cardinality(Counted)
                                        ELSE Cardinality(Counted) + 1
    BY <1>1, FS_AddElement
  <2>2. IsFiniteSet(Counted \cup {b})
    BY <1>1, FS_AddElement
  <2>3. Cardinality(Counted) \in Nat
    BY <1>1
  <2> HIDE DEF Counted
  <2>4. QED
    BY <2>1, <2>2, <2>3
<1>5. /\ Cardinality(Burst(b)') <= Cardinality(Counted \cup {b})
      /\ Cardinality(Burst(b)') \in Nat /\ Cardinality(Counted \cup {b}) \in Nat
  BY <1>3, <1>4, FS_Subset, FS_CardinalityType
<1>6. MaxReplies \in Nat
  BY ReplyAssumption
<1>7. QED
  BY <1>1, <1>4, <1>5, <1>6

LEMMA RateInvInit == Init => RateInv
  BY DEF Init, RateInv, Clocked, RecordedAfterwards, RoomBeforePut, RoomAtPut,
     RateLimited, Confirmed

LEMMA RateInvHandle ==
    ASSUME TypeOK, ReplyInv, RateInv, NEW b \in Batches, Handle(b)
    PROVE  RateInv'
<1> USE ReplyAssumption
<1>1. UNCHANGED <<clock, life>>
  BY HandleFrame DEF world
<1>2. \A c \in Batches \ {b} : stage[c] \notin Running /\ stage'[c] = stage[c]
  BY HandleFrame DEF ReplyInv, OneAtATime
<1>8. \A c \in Batches \ {b} :
         /\ sent'[c] = sent[c] /\ recorded'[c] = recorded[c] /\ errand'[c] = errand[c]
         /\ c \in Confirmed' <=> c \in Confirmed
  BY HandleFrame DEF Confirmed
<1>9. stage[b] \in Unanswered => b \notin Confirmed /\ recorded[b] = 0
  BY DEF ReplyInv, Untraced, Confirmed
<1>10. \A c \in Batches : recorded[c] > 0 \/ c \in Confirmed => errand'[c] = errand[c]
  BY <1>8, <1>9, HandleShape DEF Unanswered, Undecided, kind
<1>3. Clocked' /\ RecordedAfterwards'
  <2>2. sent'[b].at <= clock /\ sent'[b].life <= life
    BY HandleShape DEF RateInv, Clocked, TypeOK
  <2>3. b \in Confirmed' /\ sent'[b].life = life => sent'[b].at <= recorded'[b]
    <3>1. CASE b \in Confirmed
      BY <1>9, <3>1, HandleShape DEF RateInv, RecordedAfterwards, Unanswered, Undecided
    <3>2. CASE b \in Confirmed' /\ b \notin Confirmed
      BY <3>2, HandleShape DEF RateInv, Clocked, Confirmed, TypeOK
    <3>3. QED
      BY <3>1, <3>2
  <2>4. Confirmed' \subseteq Batches
    BY DEF Confirmed
  <2>5. QED
    BY <1>1, <1>8, <2>2, <2>3, <2>4 DEF RateInv, Clocked, RecordedAfterwards
<1>4. RoomBeforePut'
  <2>1. SUFFICES ASSUME stage'[b] = "put"
                 PROVE  Cardinality(Recent(Target(b), clock)') < MaxReplies
    BY <1>2 DEF RoomBeforePut, Running
  <2>2. ~LimitReached(Target(b)') /\ UNCHANGED recorded
    <3>1. CASE stage[b] = "compose"
      <4>1. ~LimitReached(RoomOf[b]) /\ UNCHANGED <<errand, recorded>>
        BY <2>1, <3>1, HandleShape
      <4>2. errand[b] = "none"
        BY <3>1 DEF ReplyInv, Untraced, Undecided
      <4>3. Target(b)' = RoomOf[b]
        BY <4>1, <4>2 DEF Target
      <4>4. QED
        BY <4>1, <4>3
    <3>2. CASE stage[b] = "errand"
      <4>1. errand'[b] \in Rooms /\ ~LimitReached(errand'[b]) /\ UNCHANGED recorded
        BY <2>1, <3>2, HandleShape
      <4>2. Target(b)' = errand'[b]
        BY <4>1 DEF Target
      <4>3. QED
        BY <4>1, <4>2
    <3>3. QED
      BY <2>1, <3>1, <3>2, HandleShape
  <2>3. Recent(Target(b), clock)' = Recent(Target(b)', clock)
    BY <1>1, <1>10, <2>2 DEF Recent, Target
  <2>4. QED
    BY <2>2, <2>3, RecentFinite DEF LimitReached
<1>5. RoomAtPut'
  <2>1. SUFFICES ASSUME stage'[b] = "answer", sent'[b].at > 0
        PROVE  /\ sent'[b].life = life
               /\ Cardinality(Recent(Target(b), sent[b].at)') < MaxReplies
               /\ \A c \in Batches : sent'[c].life = life => sent'[c].at <= sent'[b].at
    BY <1>1, <1>2 DEF RoomAtPut, Running
  <2>2. /\ stage[b] = "put" /\ sent[b].at = 0 /\ UNCHANGED <<errand, recorded>>
        /\ sent'[b] = [at |-> clock, life |-> life]
    BY <2>1, HandleShape DEF ReplyInv, Untraced, Undecided, kind
  <2>3. Recent(Target(b), sent[b].at)' = Recent(Target(b), clock)
    BY <2>2 DEF Recent, Target
  <2>4. \A c \in Batches : sent'[c].at <= clock
    BY <1>8, <2>2 DEF RateInv, Clocked, TypeOK
  <2>5. QED
    BY <2>2, <2>3, <2>4 DEF RateInv, RoomBeforePut
<1>6. RateLimited'
  <2>1. CASE b \in Confirmed' /\ b \notin Confirmed
    <3>1. stage[b] = "answer" /\ sent[b].at > 0 /\ UNCHANGED <<sent, errand>>
      BY <2>1, HandleShape DEF Confirmed, kind
    <3>2. Confirmed' = Confirmed \cup {b}
      <4>1. Confirmed \subseteq Batches /\ Confirmed' \subseteq Batches
        BY DEF Confirmed
      <4>2. QED
        BY <1>8, <2>1, <4>1
    <3>3. Cardinality(Burst(b)') <= MaxReplies
      BY <3>1, <3>2, BurstOfAnswered
    <3>4. ASSUME NEW c \in Confirmed
          PROVE  Burst(c)' = Burst(c) \/ Burst(c)' = Burst(b)'
      <4>1. CASE Target(c) = Target(b) /\ sent[c].life = sent[b].life
                 /\ sent[c].at = sent[b].at
        BY <3>1, <4>1 DEF Burst, Target
      <4>2. CASE ~(/\ Target(c) = Target(b) /\ sent[c].life = sent[b].life
                   /\ sent[c].at = sent[b].at)
        <5>1. sent[b].life = life
              /\ \A e \in Batches : sent[e].life = life => sent[e].at <= sent[b].at
          BY <3>1 DEF RateInv, RoomAtPut
        <5>2. sent[b].at \in Nat /\ sent[c].at \in Nat /\ c \in Batches
          BY DEF TypeOK, Confirmed
        <5>3. ~(/\ Target(b) = Target(c) /\ sent[b].life = sent[c].life
                /\ sent[b].at <= sent[c].at)
          <6> SUFFICES ASSUME Target(b) = Target(c), sent[b].life = sent[c].life,
                              sent[b].at <= sent[c].at
                       PROVE  FALSE
            OBVIOUS
          <6>1. sent[c].at <= sent[b].at
            BY <5>1, <5>2
          <6>2. sent[c].at = sent[b].at
            BY <5>2, <6>1
          <6>3. QED
            BY <4>2, <6>2
        <5>4. \A e \in Batches : Target(e)' = Target(e)
          BY <3>1 DEF Target
        <5>5. Confirmed \subseteq Batches
          BY DEF Confirmed
        <5>6. QED
          BY <3>1, <3>2, <5>2, <5>3, <5>4, <5>5 DEF Burst
      <4>3. QED
        BY <4>1, <4>2
    <3>5. QED
      BY <3>2, <3>3, <3>4 DEF RateInv, RateLimited
  <2>2. CASE ~(b \in Confirmed' /\ b \notin Confirmed)
    <3>1. b \in Confirmed => b \in Confirmed' /\ sent'[b] = sent[b]
      BY <1>9, HandleShape DEF Unanswered, Undecided, Confirmed
    <3>2. Confirmed' = Confirmed
      <4>1. Confirmed \subseteq Batches /\ Confirmed' \subseteq Batches
        BY DEF Confirmed
      <4>2. \A c \in Batches : c \in Confirmed' <=> c \in Confirmed
        BY <1>8, <2>2, <3>1
      <4>3. QED
        BY <4>1, <4>2
    <3>3. \A c \in Confirmed : sent'[c] = sent[c] /\ errand'[c] = errand[c]
      BY <1>8, <1>10, <3>1 DEF Confirmed
    <3>4. QED
      BY <3>2, <3>3, BurstKept DEF RateInv, RateLimited
  <2>3. QED
    BY <2>1, <2>2
<1>7. QED
  BY <1>3, <1>4, <1>5, <1>6 DEF RateInv

LEMMA RateInvStep == TypeOK /\ ReplyInv /\ RateInv /\ [Next]_vars => RateInv'
<1> SUFFICES ASSUME TypeOK, ReplyInv, RateInv, [Next]_vars PROVE RateInv'
  OBVIOUS
<1> USE ReplyAssumption
<1>1. ASSUME UNCHANGED <<clock, life, errand, outcome, sent, recorded>>,
             \A c \in Batches : stage'[c] \in {"put", "answer"} => stage'[c] = stage[c]
      PROVE  RateInv'
  <2>1. Clocked' /\ RecordedAfterwards'
    BY <1>1 DEF RateInv, Clocked, RecordedAfterwards, Confirmed
  <2>2. RoomBeforePut' /\ RoomAtPut'
    BY <1>1 DEF RateInv, RoomBeforePut, RoomAtPut, Recent, Target
  <2>3. RateLimited'
    BY <1>1, BurstKept DEF RateInv, RateLimited, Confirmed
  <2>4. QED
    BY <2>1, <2>2, <2>3 DEF RateInv
<1>2. CASE UNCHANGED vars
  BY <1>1, <1>2 DEF vars
<1>3. ASSUME NEW b \in Batches, Begin(b) PROVE RateInv'
  <2>1. /\ UNCHANGED <<clock, life, errand, sent, recorded>>
        /\ stage[b] = "waiting" /\ stage'[b] \in {"handled", "route"}
        /\ outcome[b] = "none" /\ outcome'[b] \notin {"auto_sent", "inward_sent"}
        /\ \A c \in Batches \ {b} : stage'[c] = stage[c] /\ outcome'[c] = outcome[c]
    BY <1>3 DEF Begin, Ends, MoveTo, world, kind, TypeOK, ReplyInv, Untraced,
       Unanswered, Undecided
  <2>6. Confirmed' = Confirmed
    BY <2>1 DEF Confirmed
  <2>7. Confirmed \subseteq Batches
    BY DEF Confirmed
  <2>2. Clocked' /\ RecordedAfterwards'
    BY <2>1, <2>6 DEF RateInv, Clocked, RecordedAfterwards
  <2>3. RoomBeforePut' /\ RoomAtPut'
    BY <2>1 DEF RateInv, RoomBeforePut, RoomAtPut, Recent, Target
  <2>4. RateLimited'
    BY <2>1, <2>6, <2>7, BurstKept DEF RateInv, RateLimited
  <2>5. QED
    BY <2>2, <2>3, <2>4 DEF RateInv
<1>4. ASSUME NEW b \in Batches, Handle(b) PROVE RateInv'
  BY <1>4, RateInvHandle
<1>6. CASE Toggle
  BY <1>1, <1>6 DEF Toggle, kind
<1>7. CASE Tick
  <2>1. /\ clock \in Nat /\ clock' = clock + 1
        /\ UNCHANGED <<life, errand, stage, outcome, sent, recorded>>
    BY <1>7 DEF Tick, TypeOK, kind
  <2>7. Confirmed' = Confirmed /\ Confirmed \subseteq Batches
    BY <2>1 DEF Confirmed
  <2>2. Clocked' /\ RecordedAfterwards'
    BY <2>1, <2>7 DEF RateInv, Clocked, RecordedAfterwards, TypeOK
  <2>3. RoomBeforePut'
    <3>1. ASSUME NEW b \in Batches, stage[b] = "put"
          PROVE  Cardinality(Recent(Target(b), clock)') < MaxReplies
      <4>1. Recent(Target(b), clock)' \subseteq Recent(Target(b), clock)
        <5>1. \A c \in Batches :
                 clock' - recorded[c] < Minute => clock - recorded[c] < Minute
          BY <2>1, ReplyAssumption DEF TypeOK
        <5>2. Target(b)' = Target(b) /\ \A c \in Batches : Target(c)' = Target(c)
          BY <2>1 DEF Target
        <5>3. UNCHANGED recorded
          BY <2>1
        <5>4. QED
          BY <5>1, <5>2, <5>3 DEF Recent
      <4>2. IsFiniteSet(Recent(Target(b), clock)')
            /\ Cardinality(Recent(Target(b), clock)') <= Cardinality(Recent(Target(b), clock))
        BY <4>1, RecentFinite, FS_Subset
      <4>3. Cardinality(Recent(Target(b), clock)) < MaxReplies
        BY <3>1 DEF RateInv, RoomBeforePut
      <4>4. /\ Cardinality(Recent(Target(b), clock)') \in Nat
            /\ Cardinality(Recent(Target(b), clock)) \in Nat
        BY <4>2, RecentFinite, FS_CardinalityType
      <4>5. QED
        BY <4>2, <4>3, <4>4
    <3>2. QED
      BY <2>1, <3>1 DEF RoomBeforePut
  <2>4. RoomAtPut'
    BY <2>1 DEF RateInv, RoomAtPut, Recent, Target
  <2>5. RateLimited'
    BY <2>1, <2>7, BurstKept DEF RateInv, RateLimited
  <2>6. QED
    BY <2>2, <2>3, <2>4, <2>5 DEF RateInv
<1>8. CASE Restart
  <2>1. /\ life \in Nat /\ life' = life + 1 /\ UNCHANGED <<clock, errand, outcome, sent>>
        /\ \A c \in Batches : stage'[c] \notin Running
    BY <1>8 DEF Restart, TypeOK, Running, kind
  <2>7. Confirmed' = Confirmed /\ Confirmed \subseteq Batches
    BY <2>1 DEF Confirmed
  <2>2. \A c \in Batches : sent[c].life \in Nat /\ sent[c].life <= life
    BY DEF RateInv, Clocked, TypeOK
  <2>3. Clocked' /\ RecordedAfterwards'
    BY <2>1, <2>2, <2>7 DEF RateInv, Clocked, RecordedAfterwards, TypeOK
  <2>4. RoomBeforePut' /\ RoomAtPut'
    BY <2>1 DEF RoomBeforePut, RoomAtPut, Running
  <2>5. RateLimited'
    BY <2>1, <2>7, BurstKept DEF RateInv, RateLimited
  <2>6. QED
    BY <2>3, <2>4, <2>5 DEF RateInv
<1>9. QED
  BY <1>2, <1>3, <1>4, <1>6, <1>7, <1>8 DEF Next

(* No minute sees more confirmed automatic replies in a room than          *)
(* MaxReplies, whatever the length of a minute and of the sends.           *)
THEOREM RateLimitedHolds == Spec => []RateLimited
<1>1. RateInv => RateLimited
  BY DEF RateInv
<1>2. QED
  BY <1>1, ReplyInvInit, ReplyInvStep, RateInvInit, RateInvStep, Typing, PTL DEF Spec
=============================================================================
