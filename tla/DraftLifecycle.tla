-------------------------- MODULE DraftLifecycle --------------------------
(***************************************************************************)
(* What the draft queue promises, apart from how a review is carried out:  *)
(* a reply is drafted once, one verdict is given to it and stands, and a   *)
(* reply whose verdict was to send it goes out at most once, with the text *)
(* the verdict was given to.                                               *)
(***************************************************************************)

CONSTANTS
    Drafts,     \* identities of rows of draft_replies
    Senders,    \* whoever may carry a reply to the room
    Texts       \* reply texts

VARIABLES
    row,        \* row[d]: status and text of draft d
    outbox      \* outbox[d]: the messages the room received for draft d

vars == <<row, outbox>>

Init ==
    /\ row \in [Drafts -> [status : {"absent"}, text : Texts]]
    /\ outbox = [d \in Drafts |-> {}]

(* A reply is drafted.                                                     *)
Propose(d, t) ==
    /\ row[d].status = "absent"
    /\ row' = [row EXCEPT ![d] = [status |-> "pending", text |-> t]]
    /\ UNCHANGED outbox

(* The one verdict on a pending draft; only an edit may change its text.   *)
Decide(d, s, t) ==
    /\ row[d].status = "pending"
    /\ s # "edited" => t = row[d].text
    /\ row' = [row EXCEPT ![d] = [status |-> s, text |-> t]]
    /\ UNCHANGED outbox

(* The room receives the reviewed text, once.                              *)
Deliver(d, q) ==
    /\ row[d].status \in {"approved", "edited"}
    /\ outbox[d] = {}
    /\ outbox' = [outbox EXCEPT ![d] = {[by |-> q, text |-> row[d].text]}]
    /\ UNCHANGED row

Next ==
    \E d \in Drafts :
        \/ \E t \in Texts : Propose(d, t)
        \/ \E s \in {"approved", "rejected", "edited"}, t \in Texts : Decide(d, s, t)
        \/ \E q \in Senders : Deliver(d, q)

Spec == Init /\ [][Next]_vars
=============================================================================
