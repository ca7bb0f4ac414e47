----------------------------- MODULE MCTwinChat -----------------------------
(* A small instance of TwinChat: a question of the owner beside events of  *)
(* the relay that the router's model may take for questions, or for an     *)
(* instruction to write to somebody.                                       *)
EXTENDS TwinChat

CONSTANTS t1, wish, r1, r2, default, duong, dung

(* t1 comes from Telegram, which shares the session of the relay's events. *)
MCSessionOf == [q \in Questions |-> default]

Plain(source) ==
    [source |-> source, room |-> "none", social |-> FALSE, wish |-> FALSE,
     marks |-> {"question"}, group |-> FALSE, mentioned |-> FALSE]

MCEventOf ==
    [q \in Questions |->
        [Plain(IF q \in Relayed THEN "matrix" ELSE "dashboard") EXCEPT
            !.room = IF q \in Relayed THEN "matrix" ELSE "none",
            !.wish = (q = wish)]]

MCAnswers ==
    {NoDecision} \cup
    {[mode |-> m, intent |-> "query", respond |-> b] : m \in Modes, b \in BOOLEAN}
=============================================================================
