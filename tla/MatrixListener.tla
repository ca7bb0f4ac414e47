--------------------------- MODULE MatrixListener ---------------------------
(***************************************************************************)
(* The listener between Matrix and the inbox file.  It long-polls /sync    *)
(* from a token that it also keeps in a file, appends the messages that    *)
(* pass its filters to the inbox, and joins the rooms it is invited to.    *)
(* What happens on Matrix is numbered in the order in which /sync tells    *)
(* it, so that a token is the number of the last event it covers.          *)
(***************************************************************************)
EXTENDS Integers, Sequences, FiniteSets, Functions

CONSTANTS
    MaxSaid,        \* bound on what happens on Matrix
    EventOf,        \* EventOf[n]: kind, room, sender and mention of event n
    Member,         \* rooms the listener's user is in from the start
    Blacklisted,    \* rooms that are not listened to
    MentionOnly,    \* rooms in which only messages that name the owner count
    Limit,          \* messages per room in one answer of /sync
    MaxLives        \* bound on the starts of the listener

Events  == 1..MaxSaid
NoToken == -1
RoomOf(n) == EventOf[n].room

ASSUME MatrixListenerAssumption ==
    /\ MaxSaid \in Nat /\ MaxLives \in Nat /\ Limit \in Nat \ {0}
    /\ \A n \in Events : EventOf[n].kind \in {"message", "invite", "other"}

VARIABLES
    said,       \* number of the last event on Matrix
    joined,     \* rooms the listener's user is in
    token,      \* contents of gchat-sync-token.txt
    lpc,        \* where the listener stands
    since,      \* its token
    hand,       \* messages of the last answer, not yet in the inbox
    invites,    \* invitations of the last answer, not yet followed
    inbox,      \* lines of gchat-inbox.jsonl
    passed,     \* messages and invitations that were let go of: the losses of the code
    lives       \* starts of the listener

file == <<token, inbox>>
vars == <<said, joined, token, lpc, since, hand, invites, inbox, passed, lives>>

TypeOK ==
    /\ said \in 0..MaxSaid /\ token \in {NoToken} \cup 0..said
    /\ lpc \in {"down", "initial", "poll", "token", "append", "join"}
    /\ since \in 0..said /\ lives \in 0..MaxLives
    /\ hand \in Seq(Events) /\ inbox \in Seq(Events)
    /\ invites \subseteq Events /\ passed \subseteq Events
    /\ (lpc \in {"poll", "append", "join"} => token \in {NoToken, since})

Init ==
    /\ said = 0 /\ joined = Member /\ token = NoToken
    /\ lpc = "down" /\ since = 0 /\ hand = <<>> /\ invites = {}
    /\ inbox = <<>> /\ passed = {} /\ lives = 0

-----------------------------------------------------------------------------
(* The tests of sync_loop on a room and an event.                          *)
Wanted(n) ==
    LET e == EventOf[n] IN
    /\ e.kind = "message" /\ e.room \notin Blacklisted
    /\ e.sender \notin {"puppet", "claude", "bot"}
    /\ e.room \in MentionOnly => e.mention

Counts(n) == Wanted(n) \/ EventOf[n].kind = "invite"

(* Something happens on Matrix, in a room the user is in or is invited to. *)
Say ==
    /\ said < MaxSaid
    /\ EventOf[said + 1].kind # "invite" => RoomOf(said + 1) \in joined
    /\ said' = said + 1
    /\ UNCHANGED <<joined, file, lpc, since, hand, invites, passed, lives>>

(* A message in a room the user did not join never reaches it.             *)
Missed ==
    /\ said < MaxSaid
    /\ EventOf[said + 1].kind # "invite" /\ RoomOf(said + 1) \notin joined
    /\ said' = said + 1
    /\ passed' = passed \cup {said + 1}
    /\ UNCHANGED <<joined, file, lpc, since, hand, invites, lives>>

(* Mutation: the listener starts at the live end.                          *)
Start_AtEnd ==
    /\ lpc = "down" /\ lives < MaxLives
    /\ lives' = lives + 1
    /\ lpc' = IF token = NoToken THEN "initial" ELSE "poll"
    /\ since' = IF token = NoToken THEN 0 ELSE said
    /\ UNCHANGED <<said, joined, file, hand, invites, passed>>

(* python3 matrix-listener.py: the token of the file, if there is one.     *)
Start ==
    /\ lpc = "down" /\ lives < MaxLives
    /\ lives' = lives + 1
    /\ lpc' = IF token = NoToken THEN "initial" ELSE "poll"
    /\ since' = IF token = NoToken THEN 0 ELSE token
    /\ UNCHANGED <<said, joined, file, hand, invites, passed>>

(* The initial sync reads no messages: what was said before is let go of.  *)
(* The token is in the file before the rooms of the answer are looked at,  *)
(* and an error there ends the listener (own_puppet is not defined in      *)
(* sync_loop: it is met as soon as a room has a member of the bridge).     *)
InitialSync ==
    /\ lpc = "initial"
    /\ since' = said /\ token' = said
    /\ passed' = passed \cup ({n \in 1..said : Counts(n)} \ Range(inbox))
    /\ lpc' \in {"poll", "down"}
    /\ UNCHANGED <<said, joined, hand, invites, inbox, lives>>

InitialSyncFails ==
    /\ lpc = "initial" /\ lpc' = "down"
    /\ UNCHANGED <<said, joined, file, since, hand, invites, passed, lives>>

-----------------------------------------------------------------------------
(* What an answer of /sync tells of the events after the token: of each    *)
(* room its last ones.                                                     *)
New == (since + 1)..said

Told(n) ==
    /\ n \in New /\ n \notin passed
    /\ EventOf[n].kind = "invite"
       \/ Cardinality({m \in New : m > n /\ RoomOf(m) = RoomOf(n)
                                  /\ EventOf[m].kind # "invite"}) < Limit

(* m may stand before n: of one room, in the order of Matrix.              *)
Before(m, n) == m # n /\ (RoomOf(m) = RoomOf(n) => m < n)

(* The elements of S as they are collected: the rooms of the answer one    *)
(* after the other, in any order, and the events of each in turn.          *)
RoomByRoom(S) ==
    {s \in [1..Cardinality(S) -> S] :
        /\ Range(s) = S
        /\ \A i, j \in DOMAIN s : i < j =>
              /\ Before(s[i], s[j])
              /\ RoomOf(s[i]) = RoomOf(s[j]) =>
                    \A k \in i..j : RoomOf(s[k]) = RoomOf(s[i])}

(* Mutation: the token is kept back until the messages are in the inbox.   *)
Sync_TokenLater ==
    /\ lpc = "poll" /\ said > since
    /\ since' = said
    /\ hand' \in RoomByRoom({n \in New : Wanted(n) /\ Told(n)})
    /\ invites' = {n \in New : EventOf[n].kind = "invite" /\ Told(n)}
    /\ passed' = passed \cup {n \in New : Counts(n) /\ ~Told(n)}
    /\ lpc' = "append"
    /\ UNCHANGED <<said, joined, token, inbox, lives>>

(* Mutation: one new event is not enough.                                  *)
Sync_Pairs ==
    /\ lpc = "poll" /\ said > since + 1
    /\ since' = said /\ token' = NoToken
    /\ hand' \in RoomByRoom({n \in New : Wanted(n) /\ Told(n)})
    /\ invites' = {n \in New : EventOf[n].kind = "invite" /\ Told(n)}
    /\ passed' = passed \cup {n \in New : Counts(n) /\ ~Told(n)}
    /\ lpc' = "token"
    /\ UNCHANGED <<said, joined, inbox, lives>>

(* The answer; the token file is emptied to be written anew.               *)
Sync ==
    /\ lpc = "poll" /\ said > since
    /\ since' = said /\ token' = NoToken
    /\ hand' \in RoomByRoom({n \in New : Wanted(n) /\ Told(n)})
    /\ invites' = {n \in New : EventOf[n].kind = "invite" /\ Told(n)}
    /\ passed' = passed \cup {n \in New : Counts(n) /\ ~Told(n)}
    /\ lpc' = "token"
    /\ UNCHANGED <<said, joined, inbox, lives>>

SaveToken ==
    /\ lpc = "token" /\ lpc' = "append"
    /\ token' = since
    /\ UNCHANGED <<said, joined, since, hand, invites, inbox, passed, lives>>

(* append_to_inbox.                                                        *)
AppendToInbox ==
    /\ lpc = "append" /\ lpc' = "join"
    /\ inbox' = inbox \o hand /\ hand' = <<>>
    /\ UNCHANGED <<said, joined, token, since, invites, passed, lives>>

(* The rooms are joined one by one; one that fails is not tried again.     *)
AutoJoin ==
    /\ lpc = "join" /\ lpc' = "poll"
    /\ \E refused \in SUBSET invites :
          /\ joined' = joined \cup {RoomOf(n) : n \in invites \ refused}
          /\ passed' = passed \cup refused
    /\ invites' = {}
    /\ UNCHANGED <<said, file, since, hand, lives>>

(* The answer is let go of, but for the lines that were written.           *)
LetGo(next) ==
    /\ lpc' = next /\ hand' = <<>> /\ invites' = {}
    /\ \E k \in IF lpc = "append" THEN 0..Len(hand) ELSE {0} :
          /\ inbox' = inbox \o SubSeq(hand, 1, k)
          /\ passed' = passed \cup Range(SubSeq(hand, k + 1, Len(hand))) \cup invites
    /\ UNCHANGED <<said, joined, token, since, lives>>

(* An error while the token or the messages are written: the loop goes on  *)
(* in five seconds, with the new token.                                    *)
SyncError == lpc \in {"token", "append"} /\ LetGo("poll")

(* --stop, or a crash.                                                     *)
Stop == lpc # "down" /\ LetGo("down")

-----------------------------------------------------------------------------
Listen == InitialSync \/ Sync \/ SaveToken \/ AppendToInbox \/ AutoJoin

Next == Say \/ Missed \/ Start \/ InitialSyncFails \/ Listen \/ SyncError \/ Stop

Spec == Init /\ [][Next]_vars

(* Matrix answers, in the end.                                             *)
FairSpec == Spec /\ WF_vars(Listen)

-----------------------------------------------------------------------------
(* The inbox has the messages of a room in the order of Matrix, and none   *)
(* twice, after a crash at any point and a start from whatever token is in *)
(* the file.  Rooms are mixed: an answer is written room by room.          *)
InOrderOnce == \A i, j \in DOMAIN inbox : i < j => Before(inbox[i], inbox[j])

(* Of what lies before the token, in the file or in use, every message     *)
(* that passes the filters is in the inbox or on its way there, and every  *)
(* invitation followed, unless it was let go of in one of the ways that    *)
(* are named above: an error or a stop between the token and the inbox, an *)
(* answer that left it out, an initial sync, a room that was not joined.   *)
NothingSkipped ==
    \A n \in 1..(IF lpc = "down" THEN token ELSE since) :
        Counts(n) =>
            \/ n \in Range(inbox) \cup Range(hand) \cup invites \cup passed
            \/ EventOf[n].kind = "invite" /\ RoomOf(n) \in joined

(* While the listener runs, a message gets into the inbox or is let go of. *)
EventuallyCollected ==
    \A n \in Events :
        (said >= n /\ Wanted(n)) ~> (n \in Range(inbox) \cup passed \/ lpc = "down")
=============================================================================
