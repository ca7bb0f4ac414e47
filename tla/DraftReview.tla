---------------------------- MODULE DraftReview ----------------------------
(***************************************************************************)
(* Review of drafted replies: rows of draft_replies, and the handlers that *)
(* approve, reject or edit them and send the outcome to the Matrix room.   *)
(* Three channels run these handlers at the same time in one event loop:   *)
(*   "dashboard"  DashboardServices (HTTP routes),                         *)
(*   "tool"       manage_draft, called by the language model,              *)
(*   "telegram"   the inline-keyboard callbacks and the edit mode.         *)
(* Every await of a handler (a statement of the database, an HTTP call) is *)
(* a point where other handlers run, so each stretch between two awaits is *)
(* one action.  A request is one call of a handler.                        *)
(***************************************************************************)
EXTENDS Naturals

CONSTANTS
    Drafts,     \* rows of draft_replies that may come to exist
    Requests,   \* calls of a review handler
    Texts,      \* reply texts
    NoText,     \* the empty text
    NoDraft,    \* "the chat is not in edit mode"
    Channels,   \* the channels in use
    Parts       \* Parts[t]: messages _split_text makes of t

ASSUME ReviewAssumption ==
    /\ NoText \in Texts
    /\ NoDraft \notin Drafts
    /\ Channels \subseteq {"dashboard", "tool", "telegram"}
    /\ Parts \in [Texts -> Nat \ {0}]

VARIABLES
    row,        \* the table: row[d] is its status and its draft_text
    req,        \* req[r]: where call r stands and what it remembers
    editing,    \* _pending_edits of the one Telegram chat: a draft or NoDraft
    room        \* the messages the Matrix room has received

vars == <<row, req, editing, room>>

Statuses == {"absent", "pending", "approved", "rejected", "edited"}

(* A call ends in one of Ended: "done" without having sent anything,       *)
(* "sent" or "failed" as its send reports, "dead" when the process stopped.*)
Ended   == {"done", "sent", "failed", "dead"}
Running == {"update", "tgSelect", "tgUpdate", "tgReject",
            "editRead", "editUpdate", "send"}

Row     == [status : Statuses, text : Texts]
Call    == [pc : {"idle"} \cup Running \cup Ended,
            ch : {"dashboard", "tool", "telegram"},
            draft : Drafts \cup {NoDraft}, text : Texts,
            part : Nat \ {0}, ok : BOOLEAN]
Message == [by : Requests, draft : Drafts, text : Texts, part : Nat \ {0}]

TypeOK ==
    /\ row \in [Drafts -> Row]
    /\ req \in [Requests -> Call]
    /\ \A r \in Requests : req[r].pc \in Running => req[r].draft \in Drafts
    /\ editing \in Drafts \cup {NoDraft}
    /\ room \in SUBSET Message

-----------------------------------------------------------------------------
Idle == [pc |-> "idle", ch |-> "dashboard", draft |-> NoDraft,
         text |-> NoText, part |-> 1, ok |-> TRUE]

Init ==
    /\ row = [d \in Drafts |-> [status |-> "absent", text |-> NoText]]
    /\ req = [r \in Requests |-> Idle]
    /\ editing = NoDraft
    /\ room = {}

IsPending(d) == row[d].status = "pending"

Written(d, s, t) == [row EXCEPT ![d] = [status |-> s, text |-> t]]

(* Call r starts on channel ch for draft d and stands at pc.               *)
Begun(r, ch, d, t, pc) ==
    [req EXCEPT ![r] = [pc |-> pc, ch |-> ch, draft |-> d, text |-> t,
                        part |-> 1, ok |-> TRUE]]

MayBegin(r, ch) == req[r].pc = "idle" /\ ch \in Channels

(* Mutation: the row is inserted with a status the queue does not know.    *)
AddDraft_UnknownStatus(d, t) ==
    /\ row[d].status = "absent"
    /\ row' = Written(d, "new", t)
    /\ UNCHANGED <<req, editing, room>>

(* DraftQueue.add_draft: a new pending row.                                *)
AddDraft(d, t) ==
    /\ row[d].status = "absent"
    /\ row' = Written(d, "pending", t)
    /\ UNCHANGED <<req, editing, room>>

(* Mutation: the UPDATE does not ask for status = 'pending'.               *)
Transition_AnyStatus(r, ch, d, s, t, pc) ==
    /\ MayBegin(r, ch)
    /\ row[d].status # "absent"
    /\ row' = Written(d, s, t)
    /\ req' = Begun(r, ch, d, t, pc)
    /\ UNCHANGED <<editing, room>>

-----------------------------------------------------------------------------
(* UPDATE ... WHERE id = $1 AND status = 'pending': the row changes and    *)
(* the call goes on at pc, or no row matched and the call ends.            *)
Transition(r, ch, d, s, t, pc) ==
    /\ MayBegin(r, ch)
    /\ row[d].status # "absent"
    /\ IF IsPending(d)
       THEN row' = Written(d, s, t) /\ req' = Begun(r, ch, d, t, pc)
       ELSE row' = row /\ req' = Begun(r, ch, d, t, "done")
    /\ UNCHANGED <<editing, room>>

DashboardReject(r, d) ==
    Transition(r, "dashboard", d, "rejected", row[d].text, "done")

(* edit_draft.  The SELECT between its UPDATE and the sending reads only    *)
(* the room of the row, which nothing changes, so it is no step of its     *)
(* own: if it fails, nothing is sent, as when the first part fails.        *)
DashboardEdit(r, d, t) ==
    Transition(r, "dashboard", d, "edited", t, "send")

(* approve_draft reads room and text of the pending row first ...          *)
DashboardApprove(r, d) ==
    /\ MayBegin(r, "dashboard")
    /\ row[d].status # "absent"
    /\ req' = Begun(r, "dashboard", d, row[d].text,
                    IF IsPending(d) THEN "update" ELSE "done")
    /\ UNCHANGED <<row, editing, room>>

(* Mutation: the UPDATE relies on the status that was read before it.      *)
DashboardApproveUpdate_AnyStatus(r) ==
    /\ req[r].pc = "update"
    /\ row' = Written(req[r].draft, "approved", row[req[r].draft].text)
    /\ req' = [req EXCEPT ![r].pc = "send"]
    /\ UNCHANGED <<editing, room>>

(* ... then moves the row, and sends the text it read before.              *)
DashboardApproveUpdate(r) ==
    LET d == req[r].draft IN
    /\ req[r].pc = "update"
    /\ IF IsPending(d)
       THEN /\ row' = Written(d, "approved", row[d].text)
            /\ req' = [req EXCEPT ![r].pc = "send"]
       ELSE /\ row' = row
            /\ req' = [req EXCEPT ![r].pc = "done"]
    /\ UNCHANGED <<editing, room>>

ToolReject(r, d) ==
    Transition(r, "tool", d, "rejected", row[d].text, "done")

(* manage_draft sends what UPDATE ... RETURNING gave, unless it is empty.  *)
ToolApprove(r, d) ==
    Transition(r, "tool", d, "approved", row[d].text,
               IF row[d].text = NoText THEN "done" ELSE "send")

ToolEdit(r, d, t) ==
    /\ t # NoText
    /\ Transition(r, "tool", d, "edited", t, "send")

-----------------------------------------------------------------------------
(* _resolve_draft_id: a button of Telegram names a draft that is pending   *)
(* when the callback starts; the call then goes on at pc.                  *)
TelegramResolve(r, d, pc) ==
    /\ MayBegin(r, "telegram")
    /\ row[d].status # "absent"
    /\ req' = Begun(r, "telegram", d, NoText, IF IsPending(d) THEN pc ELSE "done")
    /\ UNCHANGED <<row, editing, room>>

TelegramApprove(r, d) == TelegramResolve(r, d, "tgSelect")

TelegramReject(r, d) == TelegramResolve(r, d, "tgReject")

(* Mutation: the reply is sent before the row is moved.                    *)
TelegramApproveSelect_SendFirst(r) ==
    LET d == req[r].draft IN
    /\ req[r].pc = "tgSelect"
    /\ req' = IF IsPending(d)
              THEN [req EXCEPT ![r].pc = "send", ![r].text = row[d].text]
              ELSE [req EXCEPT ![r].pc = "done"]
    /\ UNCHANGED <<row, editing, room>>

(* cb_approve: SELECT ... AND status = 'pending'.                          *)
TelegramApproveSelect(r) ==
    LET d == req[r].draft IN
    /\ req[r].pc = "tgSelect"
    /\ req' = IF IsPending(d)
              THEN [req EXCEPT ![r].pc = "tgUpdate", ![r].text = row[d].text]
              ELSE [req EXCEPT ![r].pc = "done"]
    /\ UNCHANGED <<row, editing, room>>

(* cb_approve: UPDATE ... WHERE id = $1, whatever the status is by now.    *)
TelegramApproveUpdate(r) ==
    /\ req[r].pc = "tgUpdate"
    /\ row' = Written(req[r].draft, "approved", row[req[r].draft].text)
    /\ req' = [req EXCEPT ![r].pc = "send"]
    /\ UNCHANGED <<editing, room>>

(* cb_reject: UPDATE ... WHERE id = $1, whatever the status is by now.     *)
TelegramRejectUpdate(r) ==
    /\ req[r].pc = "tgReject"
    /\ row' = Written(req[r].draft, "rejected", row[req[r].draft].text)
    /\ req' = [req EXCEPT ![r].pc = "done"]
    /\ UNCHANGED <<editing, room>>

(* cb_edit: the next text of the chat will be the reply to draft d.        *)
TelegramEdit(r, d) ==
    /\ MayBegin(r, "telegram")
    /\ row[d].status # "absent"
    /\ editing' = IF IsPending(d) THEN d ELSE editing
    /\ req' = Begun(r, "telegram", d, NoText, "done")
    /\ UNCHANGED <<row, room>>

(* inward_chat in edit mode: the mode ends, then the text is handled.      *)
TelegramText(r, t) ==
    /\ MayBegin(r, "telegram")
    /\ editing # NoDraft
    /\ editing' = NoDraft
    /\ req' = Begun(r, "telegram", editing, t,
                    IF t = NoText THEN "done" ELSE "editRead")
    /\ UNCHANGED <<row, room>>

TelegramCancel(r) ==
    /\ MayBegin(r, "telegram")
    /\ editing # NoDraft
    /\ editing' = NoDraft
    /\ req' = Begun(r, "telegram", editing, NoText, "done")
    /\ UNCHANGED <<row, room>>

(* handle_edit_text: SELECT status, then an UPDATE that does not ask again.*)
TelegramEditRead(r) ==
    /\ req[r].pc = "editRead"
    /\ req' = [req EXCEPT ![r].pc =
                 IF IsPending(req[r].draft) THEN "editUpdate" ELSE "done"]
    /\ UNCHANGED <<row, editing, room>>

TelegramEditUpdate(r) ==
    /\ req[r].pc = "editUpdate"
    /\ row' = Written(req[r].draft, "edited", req[r].text)
    /\ req' = [req EXCEPT ![r].pc = "send"]
    /\ UNCHANGED <<editing, room>>

-----------------------------------------------------------------------------
(* Telegram splits a long text; the other channels send it whole.          *)
PartCount(r) == IF req[r].ch = "telegram" THEN Parts[req[r].text] ELSE 1

(* Mutation: only the last part decides what is reported.                  *)
SendPart_LastPartDecides(r) ==
    LET c == req[r] IN
    /\ c.pc = "send"
    /\ \E ok \in BOOLEAN :
        /\ room' = IF ok THEN room \cup {[by |-> r, draft |-> c.draft,
                                          text |-> c.text, part |-> c.part]}
                   ELSE room
        /\ req' = [req EXCEPT
             ![r].part = IF c.part < PartCount(r) THEN c.part + 1 ELSE c.part,
             ![r].pc = IF c.part < PartCount(r) THEN "send"
                       ELSE IF ok THEN "sent" ELSE "failed"]
    /\ UNCHANGED <<row, editing>>

(* Mutation: a failed part is sent again until it succeeds.                *)
SendPart_RetryForEver(r) ==
    LET c == req[r] IN
    /\ c.pc = "send"
    /\ req' \in {[req EXCEPT ![r].pc = "sent"], [req EXCEPT ![r].ok = ~@]}
    /\ UNCHANGED <<row, editing, room>>

(* One HTTP PUT.  It may fail, and it may fail after the room received the *)
(* message (a timeout on the answer).  A failed part does not stop the     *)
(* parts after it; the send succeeded if every part did.                   *)
SendPart(r) ==
    LET c == req[r] IN
    /\ c.pc = "send"
    /\ \E received \in BOOLEAN, ok \in BOOLEAN :
        /\ ok => received
        /\ room' = IF received
                   THEN room \cup {[by |-> r, draft |-> c.draft,
                                    text |-> c.text, part |-> c.part]}
                   ELSE room
        /\ req' = [req EXCEPT
             ![r].ok = c.ok /\ ok,
             ![r].part = IF c.part < PartCount(r) THEN c.part + 1 ELSE c.part,
             ![r].pc = IF c.part < PartCount(r) THEN "send"
                       ELSE IF c.ok /\ ok THEN "sent" ELSE "failed"]
    /\ UNCHANGED <<row, editing>>

(* A statement of the database raises: the call ends.                      *)
DatabaseError(r) ==
    /\ req[r].pc \in Running \ {"send"}
    /\ req' = [req EXCEPT ![r].pc = "done"]
    /\ UNCHANGED <<row, editing, room>>

(* The process stops and is started again: calls under way and the edit    *)
(* mode are gone, the table is not.                                        *)
Restart ==
    /\ \E r \in Requests : req[r].pc \in Running
    /\ req' = [r \in Requests |-> IF req[r].pc \in Running
                                  THEN [req[r] EXCEPT !.pc = "dead"] ELSE req[r]]
    /\ editing' = NoDraft
    /\ UNCHANGED <<row, room>>

-----------------------------------------------------------------------------
(* What call r does next once it has begun.                                *)
Proceed(r) ==
    \/ DashboardApproveUpdate(r)
    \/ TelegramApproveSelect(r)
    \/ TelegramApproveUpdate(r)
    \/ TelegramRejectUpdate(r)
    \/ TelegramEditRead(r)
    \/ TelegramEditUpdate(r)
    \/ SendPart(r)

Begin(r) ==
    \/ TelegramCancel(r)
    \/ \E t \in Texts : TelegramText(r, t)
    \/ \E d \in Drafts :
        \/ DashboardReject(r, d)
        \/ DashboardApprove(r, d)
        \/ ToolReject(r, d)
        \/ ToolApprove(r, d)
        \/ TelegramApprove(r, d)
        \/ TelegramReject(r, d)
        \/ TelegramEdit(r, d)
        \/ \E t \in Texts : DashboardEdit(r, d, t) \/ ToolEdit(r, d, t)

Next ==
    \/ \E d \in Drafts, t \in Texts : AddDraft(d, t)
    \/ \E r \in Requests : Begin(r) \/ Proceed(r) \/ DatabaseError(r)
    \/ Restart

Spec == Init /\ [][Next]_vars

(* Every await of a handler ends: the driver answers or raises, and the    *)
(* HTTP calls have a timeout of ten seconds.  Nothing makes anyone begin.  *)
FairSpec == Spec /\ \A r \in Requests : WF_vars(Proceed(r))

-----------------------------------------------------------------------------
(* Properties that hold whatever the channels are.                         *)

(* "sent" is only reported (APPROVED & SENT, action sent) when the room    *)
(* received every part of the text: one failed part of a split reply is    *)
(* remembered over the parts after it (_send_approved_to_matrix, all_ok).  *)
SentMeansDelivered ==
    \A r \in Requests : req[r].pc = "sent" =>
        \A p \in 1..PartCount(r) :
            [by |-> r, draft |-> req[r].draft, text |-> req[r].text, part |-> p] \in room

(* Nothing reaches the room before a verdict has been written: every       *)
(* handler moves the row before it sends, and no row becomes pending again.*)
NothingBeforeVerdict ==
    \A m \in room : row[m.draft].status \notin {"absent", "pending"}

(* A call that began ends: no handler is left waiting for ever, whichever  *)
(* handlers run beside it and however its statements fail.                 *)
CallsEnd ==
    \A r \in Requests : (req[r].pc \in Running) ~> (req[r].pc \in Ended)

-----------------------------------------------------------------------------
(* Properties of the channels whose UPDATE asks for status = 'pending'.    *)

(* The verdicts on one draft race, one wins: all messages the room has     *)
(* received for a draft were sent by the same call.                        *)
OneSender ==
    \A m, n \in room : m.draft = n.draft => m.by = n.by

(* What the room received is what the table says was reviewed: the draft   *)
(* is approved or edited, never rejected, and the text is the row's text,  *)
(* although approve_draft sends a text it read before its UPDATE.          *)
DeliveredIsReviewed ==
    \A m \in room : /\ row[m.draft].status \in {"approved", "edited"}
                    /\ m.text = row[m.draft].text

(* The reviewers carry out the life of a draft as DraftLifecycle has it.   *)
Abs == INSTANCE DraftLifecycle
    WITH Senders <- Requests,
         outbox <- [d \in Drafts |-> {[by |-> m.by, text |-> m.text] :
                                        m \in {n \in room : n.draft = d}}]

ImplementsLifecycle == Abs!Spec

-----------------------------------------------------------------------------
(* draft_queue.py: "Mark a draft as rejected (discarded, not sent)".  With *)
(* the callbacks of Telegram, whose UPDATEs do not ask for the status, a   *)
(* row may end rejected although its text went out.                        *)
RejectedNotSent ==
    \A m \in room : row[m.draft].status # "rejected"
=============================================================================
