----------------------------- MODULE MCChatFeed -----------------------------
(* A small instance of ChatFeed: two messages, each of a thread of its own. *)
EXTENDS ChatFeed

CONSTANTS m1, m2, topic, aside

MCThreadOf == [m \in Msgs |-> IF m = m2 THEN aside ELSE topic]
=============================================================================
