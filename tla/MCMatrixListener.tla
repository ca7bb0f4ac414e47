-------------------------- MODULE MCMatrixListener --------------------------
(* A small instance of MatrixListener: a team room, a direct room, one the *)
(* listener is invited to, and rooms that are filtered.                    *)
EXTENDS MatrixListener

Message(room, sender) ==
    [kind |-> "message", room |-> room, sender |-> sender, mention |-> FALSE]

MCEventOf ==
    << Message("team", "colleague"),
       [Message("new", "bridge") EXCEPT !.kind = "invite"],
       Message("team", "colleague"),
       Message("team", "puppet"),
       Message("new", "colleague"),
       [Message("quiet", "colleague") EXCEPT !.mention = TRUE],
       Message("team", "colleague") >>
=============================================================================
