------------------------------ MODULE Inbound -------------------------------
(***************************************************************************)
(* What MatrixChannelAdapter and OutwardReplySkill read of a chat message  *)
(* before anything answers it: was it said in a group, and does it name    *)
(* the owner?  A message is a record of the number of members its payload  *)
(* or metadata gives (0: none), of whether its room has a name, and of the *)
(* marks in its text that may stand for the owner.                         *)
(***************************************************************************)
EXTENDS Naturals

(* Marks, all compared without diacritics: @all, @ and the whole name, @   *)
(* and a part of it of four letters or more, @ and a shorter part, the     *)
(* link to the owner's puppet, the name without @.                         *)
Marks == {"all", "name", "part", "short", "puppet", "bare"}

ChatMessages == [members : Nat, named : BOOLEAN, marks : SUBSET Marks]

(* The files that the patterns are read from, once, when the first message *)
(* comes: the state file of the listener and persona.yaml.                 *)
Settings == {"state", "persona"}

(* get_mention_patterns: a file that cannot be read adds no pattern.       *)
Patterns(files) ==
    {"all"} \cup (IF "state" \in files THEN {"puppet"} ELSE {})
            \cup (IF "persona" \in files THEN {"name", "part"} ELSE {})

(* detect_mention.                                                         *)
IsMentioned(m, files) == m.marks \cap Patterns(files) # {}

(* normalize_inbound: without a number of members, a room that has a name  *)
(* at all is a group; _detect_group_chat says so of every name.            *)
IsGroup(m) == IF m.members > 0 THEN m.members > 2 ELSE m.named

(* The skill, when the router gave no verdict: here a name makes a group   *)
(* of a direct room, too.  Small talk in it is not for the owner then.     *)
LegacySkip(m, files) ==
    /\ IsGroup(m) \/ m.named
    /\ ~IsMentioned(m, files)
=============================================================================
