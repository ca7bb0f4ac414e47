----------------------------- MODULE MCWorkflow -----------------------------
(* A small instance of Workflow: chat-to-jira.yaml as shipped, and a       *)
(* release that tries again and again to find what to release, comes to a  *)
(* gate of tier 3 with more behind it, and names a state and a type of     *)
(* action that do not exist.                                               *)
EXTENDS Workflow

CONSTANTS ticket, release, a1, a2

MCStates == {"classify", "create_ticket", "wait_approval", "notify", "draft_response",
             "prepare", "gate", "announce", "nowhere", "completed"}

(* What _process_event passes on is always a chat message.                 *)
MCEvents == [type : {"chat_message"}, intent : {"request", "question"}, status : {""},
             words : {{}, {"bug", "down"}}]

MCTrigger == [i \in Instances |->
    [event |-> "chat_message",
     conditions |-> IF i = ticket
        THEN <<[intent |-> "request"],
               [body_contains_any |-> {"bug", "broken", "down", "crash"}]>>
        ELSE <<[intent |-> "request", status |-> "failed"]>>]]

MCFirst == [i \in Instances |-> IF i = ticket THEN "classify" ELSE "prepare"]

To(condition, next) == [condition |-> condition, next |-> next]

MCActions == [i \in Instances |->
    IF i = ticket THEN
        [classify |-> <<"query_memory">>, create_ticket |-> <<"create_jira">>,
         wait_approval |-> <<>>, notify |-> <<"send_chat_draft">>,
         draft_response |-> <<"send_chat_draft">>, completed |-> <<>>]
    ELSE [prepare |-> <<"query_memory">>, gate |-> <<"sign_off", "deploy", "update_jira">>,
          announce |-> <<"send_chat">>, completed |-> <<>>]]

MCRules == [i \in Instances |->
    IF i = ticket THEN
        [classify |-> <<To("memories_found", "create_ticket"), To("always", "draft_response")>>,
         create_ticket |-> <<To("action_success", "notify"),
                             To("action_needs_approval", "wait_approval")>>,
         wait_approval |-> <<To("approved", "create_ticket"), To("rejected", "completed")>>,
         notify |-> <<To("always", "completed")>>,
         draft_response |-> <<To("always", "completed")>>, completed |-> <<>>]
    ELSE [prepare |-> <<To("memories_found", "gate"), To("action_success", "prepare"),
                        To("always", "nowhere")>>,
          gate |-> <<To("approved", "announce")>>,
          announce |-> <<To("always", "completed")>>, completed |-> <<>>]]

(* The definition of chat-to-jira as shipped is one NoticeAfterTicket is   *)
(* meant for.                                                              *)
ASSUME ShippedNotice == TicketBeforeNotice
=============================================================================
