--------------------------- MODULE MCDraftReview ---------------------------
(* Small instances of DraftReview: one long text, one short, the empty one.*)
EXTENDS DraftReview, TLC

CONSTANTS short, long

MCParts == [t \in Texts |-> IF t = long THEN 2 ELSE 1]

AllChannels == {"dashboard", "tool", "telegram"}
AtomicChannels == {"dashboard", "tool"}

Sym == Permutations(Requests) \cup Permutations(Drafts)
=============================================================================
