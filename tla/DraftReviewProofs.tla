------------------------- MODULE DraftReviewProofs -------------------------
(***************************************************************************)
(* Proofs about DraftReview, for every set of drafts, calls and texts.     *)
(*                                                                         *)
(* Typing, NothingBeforeVerdict and SentMeansDelivered hold for every      *)
(* choice of channels.                                                     *)
(* OneSender, DeliveredIsReviewed and the refinement of DraftLifecycle are *)
(* proved for the channels whose UPDATE asks for status = 'pending'; the   *)
(* invariant behind them says that at most one call per draft ever holds   *)
(* the right to send, and that what it holds is what the table says.       *)
(***************************************************************************)
EXTENDS DraftReview, TLAPS

Verdicts == {"approved", "rejected", "edited"}
TelegramPcs == {"tgSelect", "tgUpdate", "tgReject", "editRead", "editUpdate"}

-----------------------------------------------------------------------------
(* How a call may begin.  It opens without touching the table, or it gives *)
(* the verdict s on a pending draft in the same step.                      *)

Opens(r, ch, d, t, pc) ==
    /\ req[r].pc = "idle"
    /\ ch \in Channels
    /\ req' = Begun(r, ch, d, t, pc)
    /\ pc \in TelegramPcs => ch = "telegram"
    /\ pc = "update" => IsPending(d) /\ t = row[d].text
    /\ editing' \in Drafts \cup {NoDraft}
    /\ UNCHANGED <<row, room>>

Rules(r, ch, d, s, t, pc) ==
    /\ req[r].pc = "idle"
    /\ ch \in Channels \ {"telegram"}
    /\ IsPending(d)
    /\ row' = Written(d, s, t)
    /\ req' = Begun(r, ch, d, t, pc)
    /\ pc = "send" => s \in {"approved", "edited"}
    /\ s # "edited" => t = row[d].text
    /\ UNCHANGED <<editing, room>>

OpenPcs == TelegramPcs \cup {"update", "done"}
RulePcs == {"send", "done"}

(* Every first step of a handler has one of the two shapes.                *)
LEMMA BeginShape ==
    ASSUME TypeOK, NEW r \in Requests, Begin(r)
    PROVE  \E ch \in Channels, d \in Drafts, t \in Texts :
              \/ \E pc \in OpenPcs : Opens(r, ch, d, t, pc)
              \/ \E s \in Verdicts, pc \in RulePcs : Rules(r, ch, d, s, t, pc)
<1> USE ReviewAssumption DEF Opens, Rules, OpenPcs, RulePcs, TelegramPcs, Verdicts, MayBegin
<1> DEFINE Shape(ch, d, t) ==
       \/ \E pc \in OpenPcs : Opens(r, ch, d, t, pc)
       \/ \E s \in Verdicts, pc \in RulePcs : Rules(r, ch, d, s, t, pc)
<1>1. \A d \in Drafts : row[d].text \in Texts
  BY DEF TypeOK, Row
<1>2. ASSUME NEW ch \in Channels \ {"telegram"}, NEW d \in Drafts, NEW t \in Texts,
             NEW s \in Verdicts, NEW pc \in RulePcs, Transition(r, ch, d, s, t, pc),
             s # "edited" => t = row[d].text,
             pc = "send" => s \in {"approved", "edited"}
      PROVE  Shape(ch, d, t)
  <2>1. CASE IsPending(d)
    <3>1. Rules(r, ch, d, s, t, pc)
      BY <1>2, <2>1 DEF Transition
    <3>2. QED
      BY <3>1
  <2>2. CASE ~IsPending(d)
    <3>1. Opens(r, ch, d, t, "done")
      BY <1>2, <2>2 DEF Transition, TypeOK
    <3>2. QED
      BY <3>1
  <2>3. QED
    BY <2>1, <2>2
<1>3. ASSUME NEW d \in Drafts, NEW pc \in TelegramPcs, TelegramResolve(r, d, pc)
      PROVE  "telegram" \in Channels /\ Shape("telegram", d, NoText)
  <2>1. Opens(r, "telegram", d, NoText, pc) \/ Opens(r, "telegram", d, NoText, "done")
    BY <1>3 DEF TelegramResolve, TypeOK
  <2>2. QED
    BY <2>1
<1>4. ASSUME TelegramCancel(r)
      PROVE  /\ "telegram" \in Channels /\ editing \in Drafts
             /\ Shape("telegram", editing, NoText)
  <2>1. Opens(r, "telegram", editing, NoText, "done") /\ editing \in Drafts
    BY <1>4 DEF TelegramCancel, TypeOK
  <2>2. QED
    BY <2>1, <1>4 DEF TelegramCancel
<1>5. ASSUME NEW t \in Texts, TelegramText(r, t)
      PROVE  \E ch \in Channels, d \in Drafts : Shape(ch, d, t)
  <2>1. /\ editing \in Drafts
        /\ \/ Opens(r, "telegram", editing, t, "done")
           \/ Opens(r, "telegram", editing, t, "editRead")
    BY <1>5 DEF TelegramText, TypeOK
  <2>2. QED
    BY <2>1
<1>6. ASSUME NEW d \in Drafts, DashboardReject(r, d)
      PROVE  "dashboard" \in Channels /\ Shape("dashboard", d, row[d].text)
  BY <1>1, <1>2, <1>6 DEF DashboardReject, Transition
<1>7. ASSUME NEW d \in Drafts, DashboardApprove(r, d)
      PROVE  "dashboard" \in Channels /\ Shape("dashboard", d, row[d].text)
  <2>1. \/ Opens(r, "dashboard", d, row[d].text, "update")
        \/ Opens(r, "dashboard", d, row[d].text, "done")
    BY <1>7 DEF DashboardApprove, TypeOK
  <2>2. QED
    BY <2>1
<1>8. ASSUME NEW d \in Drafts, ToolReject(r, d)
      PROVE  "tool" \in Channels /\ Shape("tool", d, row[d].text)
  BY <1>1, <1>2, <1>8 DEF ToolReject, Transition
<1>9. ASSUME NEW d \in Drafts, ToolApprove(r, d)
      PROVE  "tool" \in Channels /\ Shape("tool", d, row[d].text)
  BY <1>1, <1>2, <1>9 DEF ToolApprove, Transition
<1>10. ASSUME NEW d \in Drafts, TelegramApprove(r, d) \/ TelegramReject(r, d)
       PROVE  "telegram" \in Channels /\ Shape("telegram", d, NoText)
  BY <1>3, <1>10 DEF TelegramApprove, TelegramReject
<1>11. ASSUME NEW d \in Drafts, TelegramEdit(r, d)
       PROVE  "telegram" \in Channels /\ Shape("telegram", d, NoText)
  <2>1. Opens(r, "telegram", d, NoText, "done")
    BY <1>11 DEF TelegramEdit, TypeOK
  <2>2. QED
    BY <2>1, <1>11 DEF TelegramEdit
<1>12. ASSUME NEW d \in Drafts, NEW t \in Texts, DashboardEdit(r, d, t)
       PROVE  "dashboard" \in Channels /\ Shape("dashboard", d, t)
  BY <1>2, <1>12 DEF DashboardEdit, Transition
<1>13. ASSUME NEW d \in Drafts, NEW t \in Texts, ToolEdit(r, d, t)
       PROVE  "tool" \in Channels /\ Shape("tool", d, t)
  BY <1>2, <1>13 DEF ToolEdit, Transition
<1>14. \E ch \in Channels, d \in Drafts, t \in Texts : Shape(ch, d, t)
  <2> HIDE DEF Shape
  <2>1. QED
    BY <1>1, <1>4, <1>5, <1>6, <1>7, <1>8, <1>9, <1>10, <1>11, <1>12, <1>13 DEF Begin
<1>15. QED
  BY <1>14

-----------------------------------------------------------------------------
(* Type correctness of the table, the calls, the edit mode and the room,   *)
(* and that a call under way is about a draft.                             *)
THEOREM Typing == Spec => []TypeOK
<1> USE ReviewAssumption
<1> USE DEF TypeOK, Row, Call, Message, Statuses, Running, Ended
<1>1. Init => TypeOK
  BY DEF Init, Idle
<1>2. TypeOK /\ [Next]_vars => TypeOK'
  <2> SUFFICES ASSUME TypeOK, [Next]_vars PROVE TypeOK'
    OBVIOUS
  <2>1. CASE UNCHANGED vars
    BY <2>1 DEF vars
  <2>2. ASSUME NEW d \in Drafts, NEW t \in Texts, AddDraft(d, t) PROVE TypeOK'
    BY <2>2 DEF AddDraft, Written
  <2>3. ASSUME NEW r \in Requests, Begin(r) PROVE TypeOK'
    <3>1. PICK ch \in Channels, d \in Drafts, t \in Texts :
            \/ \E pc \in OpenPcs : Opens(r, ch, d, t, pc)
            \/ \E s \in Verdicts, pc \in RulePcs : Rules(r, ch, d, s, t, pc)
      BY <2>3, BeginShape
    <3>2. ASSUME NEW pc \in OpenPcs, Opens(r, ch, d, t, pc) PROVE TypeOK'
      BY <3>2 DEF Opens, OpenPcs, TelegramPcs, Begun
    <3>3. ASSUME NEW s \in Verdicts, NEW pc \in RulePcs, Rules(r, ch, d, s, t, pc)
          PROVE  TypeOK'
      BY <3>3 DEF Rules, RulePcs, Verdicts, Begun, Written
    <3>4. QED
      BY <3>1, <3>2, <3>3
  <2>4. ASSUME NEW r \in Requests, Proceed(r) PROVE TypeOK'
    <3>1. ASSUME SendPart(r) PROVE TypeOK'
      BY <3>1 DEF SendPart
    <3>2. ASSUME DashboardApproveUpdate(r) PROVE TypeOK'
      BY <3>2 DEF DashboardApproveUpdate, Written
    <3>3. ASSUME TelegramApproveSelect(r) PROVE TypeOK'
      <4>1. row[req[r].draft].text \in Texts /\ req[r] \in Call
        BY <3>3 DEF TelegramApproveSelect
      <4>2. CASE IsPending(req[r].draft)
        BY <3>3, <4>1, <4>2 DEF TelegramApproveSelect
      <4>3. CASE ~IsPending(req[r].draft)
        BY <3>3, <4>1, <4>3 DEF TelegramApproveSelect
      <4>4. QED
        BY <4>2, <4>3
    <3>4. ASSUME TelegramApproveUpdate(r) \/ TelegramRejectUpdate(r) PROVE TypeOK'
      <4>1. /\ req[r] \in Call /\ req[r].draft \in Drafts
            /\ row[req[r].draft].text \in Texts
        BY <3>4 DEF TelegramApproveUpdate, TelegramRejectUpdate
      <4>2. row' \in [Drafts -> Row]
        BY <3>4, <4>1 DEF TelegramApproveUpdate, TelegramRejectUpdate, Written
      <4>3. /\ req' \in [Requests -> Call]
            /\ \A q \in Requests : req'[q].pc \in Running => req'[q].draft \in Drafts
        BY <3>4, <4>1 DEF TelegramApproveUpdate, TelegramRejectUpdate
      <4>4. QED
        BY <3>4, <4>2, <4>3 DEF TelegramApproveUpdate, TelegramRejectUpdate
    <3>5. ASSUME TelegramEditRead(r) \/ TelegramEditUpdate(r) PROVE TypeOK'
      BY <3>5 DEF TelegramEditRead, TelegramEditUpdate, Written
    <3>6. QED
      BY <2>4, <3>1, <3>2, <3>3, <3>4, <3>5 DEF Proceed
  <2>5. ASSUME NEW r \in Requests, DatabaseError(r) PROVE TypeOK'
    BY <2>5 DEF DatabaseError
  <2>6. CASE Restart
    BY <2>6 DEF Restart
  <2>7. QED
    BY <2>1, <2>2, <2>3, <2>4, <2>5, <2>6 DEF Next
<1>3. QED
  BY <1>1, <1>2, PTL DEF Spec

-----------------------------------------------------------------------------
(* NothingBeforeVerdict is not inductive: that SendPart keeps it rests on  *)
(* what a call that stands at "send" knows of its row.                     *)
Ruled(d) == row[d].status \notin {"absent", "pending"}

SendersRuled ==
    /\ NothingBeforeVerdict
    /\ \A r \in Requests : req[r].pc = "send" => Ruled(req[r].draft)

(* The room receives nothing for a draft nobody has decided, on whichever  *)
(* channels the reviewers work.                                            *)
THEOREM NothingBefore == Spec => []NothingBeforeVerdict
<1> USE ReviewAssumption
<1>1. Init => SendersRuled
  BY DEF Init, Idle, SendersRuled, NothingBeforeVerdict, Running
<1>2. TypeOK /\ SendersRuled /\ [Next]_vars => SendersRuled'
  <2> SUFFICES ASSUME TypeOK, SendersRuled, [Next]_vars PROVE SendersRuled'
    OBVIOUS
  <2> USE DEF SendersRuled, NothingBeforeVerdict, Ruled, TypeOK, Row, Call, Message,
              Statuses, Running, Ended, IsPending
  <2>1. CASE UNCHANGED vars
    BY <2>1 DEF vars
  <2>2. ASSUME NEW d \in Drafts, NEW t \in Texts, AddDraft(d, t) PROVE SendersRuled'
    BY <2>2 DEF AddDraft, Written
  <2>3. ASSUME NEW r \in Requests, Begin(r) PROVE SendersRuled'
    <3>1. PICK ch \in Channels, d \in Drafts, t \in Texts :
            \/ \E pc \in OpenPcs : Opens(r, ch, d, t, pc)
            \/ \E s \in Verdicts, pc \in RulePcs : Rules(r, ch, d, s, t, pc)
      BY <2>3, BeginShape
    <3>2. ASSUME NEW pc \in OpenPcs, Opens(r, ch, d, t, pc) PROVE SendersRuled'
      BY <3>2 DEF Opens, OpenPcs, TelegramPcs, Begun
    <3>3. ASSUME NEW s \in Verdicts, NEW pc \in RulePcs, Rules(r, ch, d, s, t, pc)
          PROVE  SendersRuled'
      BY <3>3 DEF Rules, RulePcs, Verdicts, Begun, Written
    <3>4. QED
      BY <3>1, <3>2, <3>3
  <2>4. ASSUME NEW r \in Requests, Proceed(r) PROVE SendersRuled'
    <3>1. ASSUME SendPart(r) PROVE SendersRuled'
      BY <3>1 DEF SendPart
    <3>2. ASSUME DashboardApproveUpdate(r) PROVE SendersRuled'
      BY <3>2 DEF DashboardApproveUpdate, Written
    <3>3. ASSUME TelegramApproveSelect(r) \/ TelegramEditRead(r) PROVE SendersRuled'
      BY <3>3 DEF TelegramApproveSelect, TelegramEditRead
    <3>4. CASE TelegramApproveUpdate(r) \/ TelegramRejectUpdate(r) \/ TelegramEditUpdate(r)
      <4>1. req[r].draft \in Drafts /\ room' = room
        BY <3>4 DEF TelegramApproveUpdate, TelegramRejectUpdate, TelegramEditUpdate
      <4>2. /\ \A d \in Drafts : d # req[r].draft => row'[d] = row[d]
            /\ row'[req[r].draft].status \in Verdicts
        BY <3>4, <4>1 DEF TelegramApproveUpdate, TelegramRejectUpdate,
           TelegramEditUpdate, Written, Verdicts
      <4>3. \A q \in Requests : /\ req'[q].draft = req[q].draft
                                /\ req'[q].pc = "send" => q = r \/ req[q].pc = "send"
        BY <3>4 DEF TelegramApproveUpdate, TelegramRejectUpdate,
           TelegramEditUpdate, Written
      <4>5. QED
        BY <4>1, <4>2, <4>3 DEF Verdicts
    <3>5. QED
      BY <2>4, <3>1, <3>2, <3>3, <3>4 DEF Proceed
  <2>5. ASSUME NEW r \in Requests, DatabaseError(r) PROVE SendersRuled'
    BY <2>5 DEF DatabaseError
  <2>6. CASE Restart
    BY <2>6 DEF Restart
  <2>7. QED
    BY <2>1, <2>2, <2>3, <2>4, <2>5, <2>6 DEF Next
<1>3. SendersRuled => NothingBeforeVerdict
  BY DEF SendersRuled
<1>4. QED
  BY <1>1, <1>2, <1>3, Typing, PTL DEF Spec


-----------------------------------------------------------------------------
(* SentMeansDelivered is not inductive: what a finished call reports rests *)
(* on what it remembered part by part.  A call that has not come to its    *)
(* first part has no failure to remember; one under way that remembers no  *)
(* failure has delivered every part before the next.                       *)
Piece(r, p) == [by |-> r, draft |-> req[r].draft, text |-> req[r].text, part |-> p]

DeliveredTo(r, n) == \A p \in 1..n : Piece(r, p) \in room

DeliveryAt(r) ==
    /\ req[r].pc \in Running \ {"send"} => req[r].part = 1 /\ req[r].ok
    /\ req[r].pc = "send" =>
          req[r].part <= PartCount(r) /\ (req[r].ok => DeliveredTo(r, req[r].part - 1))
    /\ req[r].pc = "sent" => DeliveredTo(r, PartCount(r))

Delivery == \A r \in Requests : DeliveryAt(r)

LEMMA PartCountTyped ==
    ASSUME TypeOK, NEW r \in Requests
    PROVE  PartCount(r) \in Nat \ {0}
  BY ReviewAssumption DEF PartCount, TypeOK, Call

(* A step that leaves call q as it is takes nothing back from it.          *)
LEMMA DeliveryKept ==
    ASSUME NEW q \in Requests, DeliveryAt(q), req'[q] = req[q], room \subseteq room'
    PROVE  DeliveryAt(q)'
  BY DEF DeliveryAt, DeliveredTo, Piece, PartCount

(* A call that stands before its first part, or ends without sending.      *)
LEMMA DeliveryFresh ==
    ASSUME TypeOK', NEW q \in Requests, req'[q].pc \notin {"sent"},
           req'[q].pc \in Running => req'[q].part = 1 /\ req'[q].ok
    PROVE  DeliveryAt(q)'
<1>1. PartCount(q)' \in Nat \ {0}
  BY ReviewAssumption DEF PartCount, TypeOK, Call
<1>2. DeliveredTo(q, 0)'
  BY DEF DeliveredTo
<1>3. req'[q].pc = "send" => req'[q].part = 1 /\ "send" \in Running
  BY DEF Running
<1>4. QED
  BY <1>1, <1>2, <1>3 DEF DeliveryAt

(* One part goes out: the call remembers whether every part so far did.    *)
LEMMA DeliverySent ==
    ASSUME TypeOK, NEW r \in Requests, DeliveryAt(r), SendPart(r)
    PROVE  DeliveryAt(r)'
<1> DEFINE k == req[r].part
           n == PartCount(r)
<1>1. /\ req[r] \in Call /\ k \in Nat \ {0} /\ n \in Nat \ {0} /\ req[r].pc = "send" /\ k <= n
      /\ req[r].ok => DeliveredTo(r, k - 1)
  BY PartCountTyped DEF TypeOK, Call, SendPart, DeliveryAt
<1>2. PICK received \in BOOLEAN, ok \in BOOLEAN :
        /\ ok => received
        /\ received => room' = room \cup {Piece(r, k)}
        /\ room \subseteq room'
        /\ req' = [req EXCEPT
             ![r].ok = req[r].ok /\ ok,
             ![r].part = IF k < n THEN k + 1 ELSE k,
             ![r].pc = IF k < n THEN "send"
                       ELSE IF req[r].ok /\ ok THEN "sent" ELSE "failed"]
  BY DEF SendPart, Piece
<1>3. /\ req'[r].draft = req[r].draft /\ req'[r].text = req[r].text /\ req'[r].ch = req[r].ch
      /\ req'[r].ok = (req[r].ok /\ ok) /\ req'[r].part = (IF k < n THEN k + 1 ELSE k)
      /\ req'[r].pc = (IF k < n THEN "send"
                       ELSE IF req[r].ok /\ ok THEN "sent" ELSE "failed")
  BY <1>1, <1>2 DEF TypeOK, Call
<1>4. n' = n /\ \A p : Piece(r, p)' = Piece(r, p)
  BY <1>3 DEF PartCount, Piece
<1>5. ASSUME req[r].ok, ok, NEW p \in 1..k PROVE Piece(r, p) \in room'
  <2>1. CASE p = k
    BY <1>2, <1>5, <2>1
  <2>2. CASE p # k
    <3>1. p \in 1..(k - 1)
      BY <1>1, <2>2
    <3>2. QED
      BY <1>1, <1>2, <1>5, <3>1 DEF DeliveredTo
  <2>3. QED
    BY <2>1, <2>2
<1>6. CASE k < n
  <2>1. /\ req'[r].pc = "send" /\ req'[r].part = k + 1 /\ req'[r].ok = (req[r].ok /\ ok)
        /\ req'[r].part <= n /\ req'[r].part - 1 = k
    BY <1>1, <1>3, <1>6
  <2>2. QED
    BY <1>4, <1>5, <2>1 DEF DeliveryAt, DeliveredTo
<1>7. CASE ~(k < n)
  <2>1. k = n /\ req'[r].pc \in {"sent", "failed"} /\ (req'[r].pc = "sent" => req[r].ok /\ ok)
    BY <1>1, <1>3, <1>7
  <2>2. QED
    BY <1>4, <1>5, <2>1 DEF DeliveryAt, DeliveredTo, Running
<1>8. QED
  BY <1>6, <1>7

LEMMA DeliveryStep ==
    ASSUME TypeOK, TypeOK', Delivery, [Next]_vars
    PROVE  Delivery'
<1> SUFFICES ASSUME NEW q \in Requests PROVE DeliveryAt(q)'
  BY DEF Delivery
<1>1. DeliveryAt(q) /\ req[q] \in Call
  BY DEF Delivery, TypeOK
<1>2. ASSUME NEW r \in Requests, r # q, room \subseteq room',
             \A p \in Requests : p # r => req'[p] = req[p]
      PROVE  DeliveryAt(q)'
  BY <1>1, <1>2, DeliveryKept
<1>3. CASE UNCHANGED vars \/ \E d \in Drafts, t \in Texts : AddDraft(d, t)
  BY <1>1, <1>3, DeliveryKept DEF vars, AddDraft
<1>4. ASSUME NEW r \in Requests, Begin(r) PROVE DeliveryAt(q)'
  <2>1. PICK ch \in Channels, d \in Drafts, t \in Texts, pc \in OpenPcs \cup RulePcs :
          req' = Begun(r, ch, d, t, pc) /\ room' = room
    BY <1>4, BeginShape DEF Opens, Rules
  <2>2. CASE r = q
    <3>1. req'[q].pc = pc /\ req'[q].part = 1 /\ req'[q].ok /\ pc # "sent"
      BY <2>1, <2>2 DEF Begun, TypeOK, OpenPcs, RulePcs, TelegramPcs
    <3>2. QED
      BY <3>1, DeliveryFresh
  <2>3. CASE r # q
    BY <1>2, <2>1, <2>3 DEF Begun, TypeOK
  <2>4. QED
    BY <2>2, <2>3
<1>5. ASSUME NEW r \in Requests, Proceed(r) PROVE DeliveryAt(q)'
  <2>1. CASE SendPart(r)
    <3>1. CASE r = q
      BY <1>1, <2>1, <3>1, DeliverySent
    <3>2. CASE r # q
      BY <1>2, <2>1, <3>2 DEF SendPart, TypeOK
    <3>3. QED
      BY <3>1, <3>2
  <2>2. CASE ~SendPart(r)
    <3>1. \/ DashboardApproveUpdate(r) \/ TelegramApproveSelect(r) \/ TelegramApproveUpdate(r)
          \/ TelegramRejectUpdate(r) \/ TelegramEditRead(r) \/ TelegramEditUpdate(r)
      BY <1>5, <2>2 DEF Proceed
    <3>2. /\ req[r].pc \in Running \ {"send"} /\ room' = room
          /\ \A p \in Requests : p # r => req'[p] = req[p]
          /\ req'[r].part = req[r].part /\ req'[r].ok = req[r].ok /\ req'[r].pc # "sent"
      BY <3>1 DEF DashboardApproveUpdate, TelegramApproveSelect, TelegramApproveUpdate,
         TelegramRejectUpdate, TelegramEditRead, TelegramEditUpdate, TypeOK, Call, Running
    <3>3. CASE r = q
      BY <1>1, <3>2, <3>3, DeliveryFresh DEF DeliveryAt
    <3>4. QED
      BY <1>2, <3>2, <3>3
  <2>3. QED
    BY <2>1, <2>2
<1>6. ASSUME NEW r \in Requests, DatabaseError(r) PROVE DeliveryAt(q)'
  <2>1. CASE r = q
    <3>1. req'[q].pc = "done"
      BY <1>6, <2>1 DEF DatabaseError, TypeOK, Call
    <3>2. QED
      BY <3>1, DeliveryFresh DEF Running
  <2>2. CASE r # q
    BY <1>2, <1>6, <2>2 DEF DatabaseError, TypeOK
  <2>3. QED
    BY <2>1, <2>2
<1>7. CASE Restart
  <2>1. CASE req[q].pc \in Running
    <3>1. req'[q].pc = "dead"
      BY <1>1, <1>7, <2>1 DEF Restart, Call
    <3>2. QED
      BY <3>1, DeliveryFresh DEF Running
  <2>2. CASE req[q].pc \notin Running
    BY <1>1, <1>7, <2>2, DeliveryKept DEF Restart
  <2>3. QED
    BY <2>1, <2>2
<1>8. QED
  BY <1>3, <1>4, <1>5, <1>6, <1>7 DEF Next

(* "Sent" is only reported when the room received every part of the reply, *)
(* on whichever channel, in however many parts, whatever fails between.    *)
THEOREM SentMeansDeliveredHolds == Spec => []SentMeansDelivered
<1>1. Init => Delivery
  BY DEF Init, Idle, Delivery, DeliveryAt, Running
<1>2. TypeOK /\ TypeOK' /\ Delivery /\ [Next]_vars => Delivery'
  BY DeliveryStep
<1>3. Delivery => SentMeansDelivered
  BY DEF Delivery, DeliveryAt, DeliveredTo, Piece, SentMeansDelivered
<1>4. QED
  BY <1>1, <1>2, <1>3, Typing, PTL DEF Spec

-----------------------------------------------------------------------------
(* The invariant of the channels whose UPDATE asks for the status.  A call *)
(* is Accepted from the step that moves the row to the end of its send: it *)
(* alone may send for its draft.                                           *)
Accepted(r) == req[r].pc \in {"send", "sent", "failed"}

ReviewInv ==
    /\ \A r \in Requests : req[r].pc \notin TelegramPcs /\ req[r].ch # "telegram"
    /\ \A r \in Requests : req[r].pc = "update" =>
          /\ row[req[r].draft].status # "absent"
          /\ IsPending(req[r].draft) => req[r].text = row[req[r].draft].text
    /\ \A r \in Requests : Accepted(r) =>
          /\ req[r].draft \in Drafts
          /\ row[req[r].draft].status \in {"approved", "edited"}
          /\ req[r].text = row[req[r].draft].text
    /\ \A q, r \in Requests :
          Accepted(q) /\ Accepted(r) /\ req[q].draft = req[r].draft => q = r
    /\ \A m \in room : /\ req[m.by].pc \in {"sent", "failed"}
                       /\ m.draft = req[m.by].draft
                       /\ m.text = req[m.by].text

LEMMA ReviewInvInit == Init => ReviewInv
  BY DEF Init, Idle, ReviewInv, Accepted, IsPending, TelegramPcs

(* Without Telegram every step keeps ReviewInv.                            *)
LEMMA ReviewInvStep ==
    ASSUME "telegram" \notin Channels, TypeOK, ReviewInv, [Next]_vars
    PROVE  ReviewInv'
<1> USE ReviewAssumption
<1> USE DEF ReviewInv, Accepted, IsPending, TypeOK, Row, Call, Message, Statuses,
            Running, Ended
<1>1. CASE UNCHANGED vars
  BY <1>1 DEF vars
<1>2. ASSUME NEW d \in Drafts, NEW t \in Texts, AddDraft(d, t) PROVE ReviewInv'
  <2>1. row' = Written(d, "pending", t) /\ req' = req /\ room' = room
    BY <1>2 DEF AddDraft
  <2>2. QED
    BY <1>2, <2>1 DEF AddDraft, Written
<1>3. ASSUME NEW r \in Requests, Begin(r) PROVE ReviewInv'
  <2>1. PICK ch \in Channels, d \in Drafts, t \in Texts :
          \/ \E pc \in OpenPcs : Opens(r, ch, d, t, pc)
          \/ \E s \in Verdicts, pc \in RulePcs : Rules(r, ch, d, s, t, pc)
    BY <1>3, BeginShape
  <2>2. ASSUME NEW pc \in OpenPcs, Opens(r, ch, d, t, pc) PROVE ReviewInv'
    BY <2>2 DEF Opens, OpenPcs, TelegramPcs, Begun
  <2>3. ASSUME NEW s \in Verdicts, NEW pc \in RulePcs, Rules(r, ch, d, s, t, pc)
        PROVE  ReviewInv'
    <3>1. /\ req[r].pc = "idle" /\ row[d].status = "pending"
          /\ row' = [row EXCEPT ![d] = [status |-> s, text |-> t]]
          /\ room' = room /\ ch \in {"dashboard", "tool"}
          /\ pc = "send" => s \in {"approved", "edited"}
      BY <2>3 DEF Rules, Written
    <3>2. /\ req'[r].pc = pc /\ req'[r].draft = d /\ req'[r].text = t /\ req'[r].ch = ch
          /\ \A q \in Requests : q # r => req'[q] = req[q]
      BY <2>3 DEF Rules, Begun
    <3>3. \A q \in Requests : Accepted(q) => req[q].draft # d
      BY <3>1
    <3>4. \A m \in room : m.by \in Requests /\ m.by # r
      BY <3>1
    <3>5. /\ row'[d].status = s /\ row'[d].text = t
          /\ \A e \in Drafts : e # d => row'[e] = row[e]
      BY <3>1
    <3>6. s # "pending" /\ pc \in {"send", "done"}
      BY DEF RulePcs, Verdicts
    <3>7. \A q \in Requests : req'[q].pc \notin TelegramPcs /\ req'[q].ch # "telegram"
      BY <3>1, <3>2, <3>6 DEF TelegramPcs
    <3>8. \A q \in Requests : req'[q].pc = "update" =>
              /\ row'[req'[q].draft].status # "absent"
              /\ row'[req'[q].draft].status = "pending"
                    => req'[q].text = row'[req'[q].draft].text
      BY <3>2, <3>5, <3>6 DEF Verdicts
    <3>9. \A q \in Requests : Accepted(q)' =>
              /\ req'[q].draft \in Drafts
              /\ row'[req'[q].draft].status \in {"approved", "edited"}
              /\ req'[q].text = row'[req'[q].draft].text
      BY <3>1, <3>2, <3>3, <3>5, <3>6
    <3>10. \A p, q \in Requests :
              Accepted(p)' /\ Accepted(q)' /\ req'[p].draft = req'[q].draft => p = q
      BY <3>2, <3>3
    <3>11. \A m \in room' : /\ req'[m.by].pc \in {"sent", "failed"}
                            /\ m.draft = req'[m.by].draft
                            /\ m.text = req'[m.by].text
      BY <3>1, <3>2, <3>4
    <3>12. QED
      BY <3>7, <3>8, <3>9, <3>10, <3>11
  <2>4. QED
    BY <2>1, <2>2, <2>3
<1>4. ASSUME NEW r \in Requests, Proceed(r) PROVE ReviewInv'
  <2>1. ASSUME SendPart(r) PROVE ReviewInv'
    <3>1. /\ req[r].pc = "send" /\ row' = row
          /\ req'[r].draft = req[r].draft /\ req'[r].text = req[r].text
          /\ req'[r].ch = req[r].ch
      BY <2>1 DEF SendPart
    <3>2. \A q \in Requests : q # r => req'[q] = req[q]
      BY <2>1 DEF SendPart
    <3>3. PartCount(r) = 1 /\ req[r].part \in Nat \ {0}
      BY DEF PartCount
    <3>4. req'[r].pc \in {"sent", "failed"}
      BY <2>1, <3>3 DEF SendPart
    <3>5. \A m \in room' : m \in room \/ (m.by = r /\ m.draft = req[r].draft
                                                 /\ m.text = req[r].text)
      BY <2>1 DEF SendPart
    <3>6. \A m \in room : m.by \in Requests /\ m.by # r
      BY <3>1
    <3>7. \A q \in Requests : /\ Accepted(q)' <=> Accepted(q)
                              /\ req'[q].draft = req[q].draft
                              /\ req'[q].text = req[q].text /\ req'[q].ch = req[q].ch
                              /\ req'[q].pc = "update" => req[q].pc = "update"
      BY <3>1, <3>2, <3>4
    <3>8. \A q \in Requests : req'[q].pc \notin TelegramPcs /\ req'[q].ch # "telegram"
      BY <3>2, <3>4, <3>7 DEF TelegramPcs
    <3>9. \A q \in Requests : req'[q].pc = "update" =>
              /\ row'[req'[q].draft].status # "absent"
              /\ row'[req'[q].draft].status = "pending"
                    => req'[q].text = row'[req'[q].draft].text
      BY <3>1, <3>7
    <3>10. \A q \in Requests : Accepted(q)' =>
              /\ req'[q].draft \in Drafts
              /\ row'[req'[q].draft].status \in {"approved", "edited"}
              /\ req'[q].text = row'[req'[q].draft].text
      <4>1. ASSUME NEW q \in Requests, Accepted(q)
            PROVE  /\ req[q].draft \in Drafts
                   /\ row[req[q].draft].status \in {"approved", "edited"}
                   /\ req[q].text = row[req[q].draft].text
        BY <4>1
      <4>2. QED
        BY <3>1, <3>7, <4>1
    <3>11. \A p, q \in Requests :
              Accepted(p)' /\ Accepted(q)' /\ req'[p].draft = req'[q].draft => p = q
      BY <3>7
    <3>12. \A m \in room' : /\ req'[m.by].pc \in {"sent", "failed"}
                            /\ m.draft = req'[m.by].draft
                            /\ m.text = req'[m.by].text
      BY <3>1, <3>2, <3>4, <3>5, <3>6
    <3>13. QED
      BY <3>8, <3>9, <3>10, <3>11, <3>12
  <2>2. ASSUME DashboardApproveUpdate(r) PROVE ReviewInv'
    <3>1. CASE ~IsPending(req[r].draft)
      <4>1. /\ req[r].pc = "update" /\ UNCHANGED <<row, room>>
            /\ req' = [req EXCEPT ![r].pc = "done"]
        BY <2>2, <3>1 DEF DashboardApproveUpdate
      <4>2. /\ \A q \in Requests : /\ req'[q].draft = req[q].draft
                                   /\ req'[q].text = req[q].text /\ req'[q].ch = req[q].ch
            /\ \A q \in Requests : q # r => req'[q].pc = req[q].pc
            /\ req'[r].pc = "done"
        BY <4>1
      <4>3. \A m \in room : m.by \in Requests /\ m.by # r
        BY <4>1
      <4>4. QED
        BY <4>1, <4>2, <4>3 DEF TelegramPcs
    <3>2. CASE IsPending(req[r].draft)
      <4> DEFINE d == req[r].draft
      <4>1. /\ req[r].pc = "update" /\ d \in Drafts /\ row[d].status = "pending"
            /\ row' = [row EXCEPT ![d] = [status |-> "approved", text |-> row[d].text]]
            /\ req' = [req EXCEPT ![r].pc = "send"] /\ room' = room
        BY <2>2, <3>2 DEF DashboardApproveUpdate, Written
      <4>2. \A q \in Requests : Accepted(q) => req[q].draft # d
        BY <4>1
      <4>3. /\ \A e \in Drafts : row'[e].text = row[e].text
            /\ \A e \in Drafts : e # d => row'[e] = row[e]
            /\ row'[d].status = "approved"
        BY <4>1
      <4>4. /\ \A q \in Requests : /\ req'[q].draft = req[q].draft
                                   /\ req'[q].text = req[q].text /\ req'[q].ch = req[q].ch
            /\ \A q \in Requests : q # r => req'[q].pc = req[q].pc
            /\ req'[r].pc = "send"
        BY <4>1
      <4>5. \A q \in Requests : Accepted(q)' <=> q = r \/ Accepted(q)
        BY <4>4, <4>1
      <4>6. \A m \in room : m.by \in Requests /\ m.by # r
        BY <4>1
      <4>7. QED
        BY <4>1, <4>2, <4>3, <4>4, <4>5, <4>6 DEF TelegramPcs
    <3>3. QED
      BY <3>1, <3>2
  <2>3. QED
    BY <1>4, <2>1, <2>2 DEF Proceed, TelegramPcs, TelegramApproveSelect,
       TelegramApproveUpdate, TelegramRejectUpdate, TelegramEditRead, TelegramEditUpdate
<1>5. ASSUME NEW r \in Requests, DatabaseError(r) PROVE ReviewInv'
  BY <1>5 DEF DatabaseError, TelegramPcs
<1>6. CASE Restart
  BY <1>6 DEF Restart, TelegramPcs
<1>7. QED
  BY <1>1, <1>2, <1>3, <1>4, <1>5, <1>6 DEF Next

(* Among reviewers whose UPDATE asks for status = 'pending', the verdicts  *)
(* on a draft race and one call sends it.                                  *)
THEOREM OneSenderHolds ==
    ASSUME "telegram" \notin Channels
    PROVE  Spec => []OneSender
<1>1. TypeOK /\ ReviewInv => OneSender
  BY DEF ReviewInv, OneSender, TypeOK, Message, Accepted
<1>2. QED
  BY <1>1, Typing, ReviewInvInit, ReviewInvStep, PTL DEF Spec

(* What the room received is approved or edited, in the row's own words.   *)
THEOREM DeliveredIsReviewedHolds ==
    ASSUME "telegram" \notin Channels
    PROVE  Spec => []DeliveredIsReviewed
<1>1. TypeOK /\ ReviewInv => DeliveredIsReviewed
  BY DEF ReviewInv, DeliveredIsReviewed, TypeOK, Message, Accepted
<1>2. QED
  BY <1>1, Typing, ReviewInvInit, ReviewInvStep, PTL DEF Spec

-----------------------------------------------------------------------------
Outbox == [d \in Drafts |-> {[by |-> m.by, text |-> m.text] :
                               m \in {n \in room : n.draft = d}}]

(* These reviewers implement DraftLifecycle: a verdict is its Decide, a    *)
(* received message its Deliver, everything else leaves it as it is.       *)
THEOREM Refinement ==
    ASSUME "telegram" \notin Channels
    PROVE  Spec => ImplementsLifecycle
<1> USE ReviewAssumption
<1>1. Init => Abs!Init
  BY DEF Init, Abs!Init
<1>2. TypeOK /\ ReviewInv /\ [Next]_vars => [Abs!Next]_(Abs!vars)
  <2> SUFFICES ASSUME TypeOK, ReviewInv, [Next]_vars PROVE [Abs!Next]_(Abs!vars)
    OBVIOUS
  <2>1. ASSUME UNCHANGED <<row, room>> PROVE [Abs!Next]_(Abs!vars)
    BY <2>1 DEF Abs!vars
  <2>2. ASSUME room' = room PROVE Outbox' = Outbox
    BY <2>2 DEF Outbox
  <2>3. ASSUME NEW d \in Drafts, NEW t \in Texts, AddDraft(d, t) PROVE Abs!Next
    <3>1. Abs!Propose(d, t)
      BY <2>2, <2>3 DEF AddDraft, Written, Abs!Propose, Outbox
    <3>2. QED
      BY <3>1 DEF Abs!Next
  <2>4. ASSUME NEW r \in Requests, Begin(r) PROVE [Abs!Next]_(Abs!vars)
    <3>1. PICK ch \in Channels, d \in Drafts, t \in Texts :
            \/ \E pc \in OpenPcs : Opens(r, ch, d, t, pc)
            \/ \E s \in Verdicts, pc \in RulePcs : Rules(r, ch, d, s, t, pc)
      BY <2>4, BeginShape
    <3>2. ASSUME NEW pc \in OpenPcs, Opens(r, ch, d, t, pc) PROVE UNCHANGED <<row, room>>
      BY <3>2 DEF Opens
    <3>3. ASSUME NEW s \in Verdicts, NEW pc \in RulePcs, Rules(r, ch, d, s, t, pc)
          PROVE  Abs!Next
      <4>1. Abs!Decide(d, s, t)
        BY <3>3, <2>2 DEF Rules, Written, IsPending, Abs!Decide, Outbox
      <4>2. QED
        BY <4>1 DEF Abs!Next, Verdicts
    <3>4. QED
      BY <3>1, <3>2, <3>3, <2>1
  <2>5. ASSUME NEW r \in Requests, DashboardApproveUpdate(r) PROVE [Abs!Next]_(Abs!vars)
    <3>1. CASE ~IsPending(req[r].draft)
      BY <2>1, <2>5, <3>1 DEF DashboardApproveUpdate
    <3>2. CASE IsPending(req[r].draft)
      <4>1. PICK d \in Drafts, t \in Texts : d = req[r].draft /\ t = row[d].text
        BY <2>5 DEF DashboardApproveUpdate, TypeOK, Row, Running
      <4>2. Abs!Decide(d, "approved", t)
        BY <2>2, <2>5, <3>2, <4>1 DEF DashboardApproveUpdate, Written, IsPending,
           Abs!Decide, Outbox
      <4>3. QED
        BY <4>1, <4>2 DEF Abs!Next
    <3>3. QED
      BY <3>1, <3>2
  <2>6. ASSUME NEW r \in Requests, SendPart(r) PROVE [Abs!Next]_(Abs!vars)
    <3>0. PICK d \in Drafts : d = req[r].draft
      BY <2>6 DEF SendPart, TypeOK, Running
    <3> DEFINE new == [by |-> r, draft |-> d, text |-> req[r].text, part |-> req[r].part]
    <3>1. row' = row /\ (room' = room \/ room' = room \cup {new})
      BY <2>6, <3>0 DEF SendPart
    <3>2. /\ req[r].draft = d /\ req[r].text = row[d].text
          /\ row[d].status \in {"approved", "edited"} /\ req[r].pc = "send"
      BY <2>6, <3>0 DEF SendPart, ReviewInv, Accepted
    <3>3. \A m \in room : m.draft # d
      BY <2>6, <3>2 DEF ReviewInv, Accepted, TypeOK, Message
    <3>4. ASSUME room' = room \cup {new} PROVE Abs!Deliver(d, r)
      <4>1. Outbox[d] = {}
        BY <3>2, <3>3 DEF Outbox
      <4>2. {n \in room' : n.draft = d} = {new}
        BY <3>3, <3>4
      <4>3. Outbox'[d] = {[by |-> r, text |-> row[d].text]}
        <5>1. Outbox'[d] = {[by |-> m.by, text |-> m.text] : m \in {n \in room' : n.draft = d}}
          BY <3>2 DEF Outbox
        <5>2. Outbox'[d] = {[by |-> new.by, text |-> new.text]}
          BY <4>2, <5>1
        <5>3. QED
          BY <3>2, <5>2
      <4>4. ASSUME NEW e \in Drafts, e # d PROVE Outbox'[e] = Outbox[e]
        <5>1. {n \in room' : n.draft = e} = {n \in room : n.draft = e}
          BY <3>4, <4>4
        <5>2. QED
          BY <5>1 DEF Outbox
      <4>5. Outbox' = [Outbox EXCEPT ![d] = {[by |-> r, text |-> row[d].text]}]
        BY <3>2, <4>3, <4>4 DEF Outbox
      <4>6. QED
        BY <3>1, <3>2, <4>1, <4>5 DEF Abs!Deliver, Outbox
    <3>5. Abs!Deliver(d, r) => Abs!Next
      BY <2>6 DEF Abs!Next
    <3>6. QED
      BY <2>1, <3>1, <3>4, <3>5
  <2>7. ASSUME NEW r \in Requests, Proceed(r) PROVE [Abs!Next]_(Abs!vars)
    BY <2>5, <2>6, <2>7 DEF Proceed, ReviewInv, TelegramPcs, TelegramApproveSelect,
       TelegramApproveUpdate, TelegramRejectUpdate, TelegramEditRead, TelegramEditUpdate
  <2>8. ASSUME NEW r \in Requests, DatabaseError(r) PROVE UNCHANGED <<row, room>>
    BY <2>8 DEF DatabaseError
  <2>9. ASSUME Restart \/ UNCHANGED vars PROVE UNCHANGED <<row, room>>
    BY <2>9 DEF Restart, vars
  <2>10. QED
    BY <2>1, <2>3, <2>4, <2>7, <2>8, <2>9 DEF Next
<1>3. QED
  BY <1>1, <1>2, Typing, ReviewInvInit, ReviewInvStep, PTL DEF Spec, ImplementsLifecycle, Abs!Spec

=============================================================================
