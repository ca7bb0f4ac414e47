---------------------------- MODULE InboxProofs ----------------------------
(* Proofs about the inbox file, from both of its ends, for every number of *)
(* messages, rooms, lines and starts.  Of the listener that writes it      *)
(* (MatrixListener): the inbox is in order and without repetition, and     *)
(* what lies before the token is accounted for.  Of the dashboard's two    *)
(* readers (ChatFeed): between them no message of the file is forgotten,   *)
(* but for the losses the properties name.                                 *)
EXTENDS MatrixListener, ChatFeed, TLAPS, FiniteSetTheorems

(* An arrangement of some of the events is a sequence of them.             *)
LEMMA RoomByRoomSeq ==
    ASSUME NEW S \in SUBSET Events, NEW s \in RoomByRoom(S)
    PROVE  /\ s \in Seq(Events) /\ Range(s) = S
           /\ \A i, j \in DOMAIN s : i < j => Before(s[i], s[j])
<1>1. IsFiniteSet(Events)
  BY FS_Interval, MatrixListenerAssumption DEF Events
<1>2. Cardinality(S) \in Nat
  BY <1>1, FS_Subset, FS_CardinalityType
<1>3. s \in [1..Cardinality(S) -> S] /\ Range(s) = S
      /\ \A i, j \in DOMAIN s : i < j => Before(s[i], s[j])
  BY DEF RoomByRoom
<1>4. s \in Seq(S)
  BY <1>2, <1>3
<1>5. QED
  BY <1>3, <1>4

LEMMA Elements ==
    ASSUME NEW s \in Seq(Events)
    PROVE  /\ \A i \in DOMAIN s : s[i] \in Events /\ s[i] \in Nat
           /\ Range(s) \subseteq Events
<1>1. \A i \in DOMAIN s : s[i] \in Events
  OBVIOUS
<1>2. Events \subseteq Nat
  BY MatrixListenerAssumption DEF Events
<1>3. QED
  BY <1>1, <1>2 DEF Range

LEMMA RangeOfJoined ==
    ASSUME NEW s \in Seq(Events), NEW t \in Seq(Events)
    PROVE  Range(s \o t) = Range(s) \cup Range(t)
<1>1. ASSUME NEW i \in DOMAIN (s \o t) PROVE (s \o t)[i] \in Range(s) \cup Range(t)
  <2>1. CASE i \in DOMAIN s
    BY <2>1 DEF Range
  <2>2. CASE i \notin DOMAIN s
    <3>1. i - Len(s) \in DOMAIN t /\ (s \o t)[i] = t[i - Len(s)]
      BY <1>1, <2>2
    <3>2. QED
      BY <3>1 DEF Range
  <2>3. QED
    BY <2>1, <2>2
<1>2. ASSUME NEW i \in DOMAIN s PROVE s[i] \in Range(s \o t)
  <2>1. i \in DOMAIN (s \o t) /\ (s \o t)[i] = s[i]
    OBVIOUS
  <2>2. QED
    BY <2>1 DEF Range
<1>3. ASSUME NEW i \in DOMAIN t PROVE t[i] \in Range(s \o t)
  <2>1. Len(s) + i \in DOMAIN (s \o t) /\ (s \o t)[Len(s) + i] = t[i]
    OBVIOUS
  <2>2. QED
    BY <2>1 DEF Range
<1>4. QED
  BY <1>1, <1>2, <1>3 DEF Range

(* How the inbox, the messages in hand and the token hang together.        *)
Upper == IF lpc = "down" THEN (IF token = NoToken THEN said ELSE token)
         ELSE IF lpc = "initial" THEN said ELSE since

Handling ==
    /\ lpc \notin {"token", "append"} => hand = <<>>
    /\ lpc \notin {"token", "append", "join"} => invites = {}
    /\ lpc = "initial" => token = NoToken
    /\ lpc = "token" => token = NoToken
    /\ token <= said
    /\ \A m \in invites : EventOf[m].kind = "invite"

Placed ==
    /\ \A i \in DOMAIN inbox : inbox[i] <= Upper
    /\ \A i \in DOMAIN hand : hand[i] <= since
    /\ \A i \in DOMAIN inbox, j \in DOMAIN hand : inbox[i] < hand[j]
    /\ \A i, j \in DOMAIN hand : i < j => Before(hand[i], hand[j])

IInv == TypeOK /\ Handling /\ Placed /\ InOrderOnce

LEMMA InHandAfter ==
    ASSUME IInv
    PROVE  \A i \in DOMAIN inbox, j \in DOMAIN hand : Before(inbox[i], hand[j])
<1>1. /\ \A i \in DOMAIN inbox : inbox[i] \in Nat
      /\ \A i \in DOMAIN hand : hand[i] \in Nat
  BY Elements DEF IInv, TypeOK
<1>2. QED
  BY <1>1 DEF IInv, Placed, Before

LEMMA InitHolds == Init => IInv /\ NothingSkipped
<1> SUFFICES ASSUME Init PROVE IInv /\ NothingSkipped
  OBVIOUS
<1>1. TypeOK /\ Handling
  BY MatrixListenerAssumption DEF Init, TypeOK, Handling, NoToken, Events
<1>2. Placed /\ InOrderOnce
  BY DEF Init, Placed, InOrderOnce, Upper
<1>3. NothingSkipped
  BY DEF Init, NothingSkipped, NoToken
<1>4. QED
  BY <1>1, <1>2, <1>3 DEF IInv

-----------------------------------------------------------------------------
(* What each step does to the parts of the invariant.                      *)

LEMMA SyncKeeps ==
    ASSUME IInv, Sync
    PROVE  IInv'
<1> DEFINE S == {n \in New : Wanted(n) /\ Told(n)}
<1>1. New \subseteq Events /\ New = (since + 1)..said
  BY MatrixListenerAssumption DEF IInv, TypeOK, New, Events
<1>2. /\ hand' \in Seq(Events) /\ Range(hand') = S
      /\ \A i, j \in DOMAIN hand' : i < j => Before(hand'[i], hand'[j])
  <2>1. S \in SUBSET Events
    BY <1>1
  <2>2. hand' \in RoomByRoom(S)
    BY DEF Sync
  <2> HIDE DEF S
  <2>3. QED
    BY <2>1, <2>2, RoomByRoomSeq
<1>3. \A i \in DOMAIN hand' : hand'[i] \in (since + 1)..said
  BY <1>1, <1>2 DEF Range
<1>4. invites' \subseteq Events /\ passed' \subseteq Events
  BY <1>1 DEF Sync, IInv, TypeOK
<1>5. /\ since' = said /\ token' = NoToken /\ lpc' = "token" /\ lpc = "poll"
      /\ UNCHANGED <<said, joined, inbox, lives>>
  BY DEF Sync
<1>6. TypeOK'
  BY <1>2, <1>4, <1>5 DEF IInv, TypeOK, NoToken
<1>7. Handling'
  <2>1. \A m \in invites' : EventOf[m].kind = "invite"
    BY DEF Sync
  <2>2. QED
    BY <1>5, <2>1 DEF IInv, TypeOK, Handling, NoToken
<1>8. Placed'
  <2>1. \A i \in DOMAIN inbox : inbox[i] \in Nat /\ inbox[i] <= since
    BY <1>5, Elements DEF IInv, Placed, Upper, TypeOK
  <2>2. since \in Nat /\ said \in Nat /\ since <= said
    BY DEF IInv, TypeOK
  <2>3. Upper' = said
    BY <1>5 DEF Upper
  <2>4. \A i \in DOMAIN inbox' : inbox'[i] <= Upper'
    BY <1>5, <2>1, <2>2, <2>3
  <2>5. \A i \in DOMAIN hand' : hand'[i] <= since'
    BY <1>3, <1>5
  <2>6. \A i \in DOMAIN inbox', j \in DOMAIN hand' : inbox'[i] < hand'[j]
    BY <1>3, <1>5, <2>1, <2>2
  <2>7. QED
    BY <1>2, <2>4, <2>5, <2>6 DEF Placed
<1>9. QED
  BY <1>5, <1>6, <1>7, <1>8 DEF IInv, InOrderOnce

LEMMA AppendKeeps ==
    ASSUME IInv, AppendToInbox
    PROVE  IInv'
<1>1. /\ lpc = "append" /\ lpc' = "join" /\ inbox' = inbox \o hand /\ hand' = <<>>
      /\ UNCHANGED <<said, joined, token, since, invites, passed, lives>>
  BY DEF AppendToInbox
<1>2. TypeOK'
  BY <1>1 DEF IInv, TypeOK, Events
<1>3. Handling'
  BY <1>1 DEF IInv, Handling
<1>4. Placed'
  BY <1>1 DEF IInv, TypeOK, Placed, Upper, Events
<1>5. InOrderOnce'
  BY <1>1, InHandAfter DEF IInv, TypeOK, Placed, InOrderOnce
<1>6. QED
  BY <1>2, <1>3, <1>4, <1>5 DEF IInv

(* LetGo writes a part of what is in hand: a prefix of it.                 *)
LEMMA LetGoKeeps ==
    ASSUME IInv, NEW next \in {"poll", "down"}, LetGo(next),
           lpc # "down", next = "poll" => lpc \in {"token", "append"}
    PROVE  IInv'
<1>1. PICK k \in IF lpc = "append" THEN 0..Len(hand) ELSE {0} :
          /\ inbox' = inbox \o SubSeq(hand, 1, k)
          /\ passed' = passed \cup Range(SubSeq(hand, k + 1, Len(hand))) \cup invites
  BY DEF LetGo
<1>2. /\ lpc' = next /\ hand' = <<>> /\ invites' = {}
      /\ UNCHANGED <<said, joined, token, since, lives>>
  BY DEF LetGo
<1>3. hand \in Seq(Events) /\ k \in 0..Len(hand) /\ inbox \in Seq(Events)
  BY DEF IInv, TypeOK
<1> DEFINE part == SubSeq(hand, 1, k)
           rest == SubSeq(hand, k + 1, Len(hand))
<1>4. /\ part \in Seq(Events) /\ Len(part) = k
      /\ \A i \in 1..k : part[i] = hand[i]
  BY <1>3
<1>5. rest \in Seq(Events)
  BY <1>3
<1>6. Range(rest) \subseteq Events
  BY <1>5, Elements
<1>7. k = 0 \/ lpc = "append"
  BY <1>1
<1> HIDE DEF part, rest
<1>8. inbox' = inbox \o part
  BY <1>1 DEF part
<1>9. TypeOK'
  <2>1. inbox' \in Seq(Events)
    BY <1>3, <1>4, <1>8
  <2>2. passed' \subseteq Events
    BY <1>1, <1>6 DEF IInv, TypeOK, rest
  <2>3. lpc' \in {"poll", "append", "join"} => token' \in {NoToken, since'}
    BY <1>2 DEF IInv, TypeOK, Handling
  <2>4. QED
    BY <1>2, <2>1, <2>2, <2>3 DEF IInv, TypeOK
<1>10. Handling'
  BY <1>2 DEF IInv, Handling
<1>11. \A i \in DOMAIN inbox' :
          \/ i \in DOMAIN inbox /\ inbox'[i] = inbox[i]
          \/ /\ i - Len(inbox) \in 1..k /\ lpc = "append"
             /\ inbox'[i] = hand[i - Len(inbox)]
  BY <1>3, <1>4, <1>7, <1>8
<1>12. Placed'
  <2>1. Upper' = IF next = "down" THEN (IF token = NoToken THEN said ELSE token) ELSE since
    BY <1>2 DEF Upper
  <2>2. /\ since \in Nat /\ said \in Nat /\ token \in Int /\ since <= said
        /\ lpc \in {"poll", "append", "join"} => token \in {NoToken, since}
        /\ lpc \in {"initial", "token"} => token = NoToken
    BY DEF IInv, TypeOK, NoToken, Handling
  <2>3. /\ \A i \in DOMAIN inbox : inbox[i] \in Nat /\ inbox[i] <= Upper
        /\ \A i \in DOMAIN hand : hand[i] \in Nat /\ hand[i] <= since
    BY <1>3, Elements DEF IInv, Placed
  <2>4. Upper <= Upper' /\ Upper \in Int /\ Upper' \in Int
        /\ (lpc = "append" => since <= Upper')
    BY <2>1, <2>2 DEF Upper, IInv, TypeOK, NoToken
  <2>5. /\ \A i \in DOMAIN inbox : inbox[i] <= Upper'
        /\ \A i \in DOMAIN hand : lpc = "append" => hand[i] <= Upper'
    BY <2>2, <2>3, <2>4
  <2>6. \A i \in DOMAIN inbox' : inbox'[i] <= Upper'
    BY <1>3, <1>11, <2>5
  <2>7. QED
    BY <1>2, <2>6 DEF Placed
<1>13. InOrderOnce'
  <2>1. /\ \A i, j \in DOMAIN inbox : i < j => Before(inbox[i], inbox[j])
        /\ \A i \in DOMAIN inbox, j \in DOMAIN hand : Before(inbox[i], hand[j])
        /\ \A i, j \in DOMAIN hand : i < j => Before(hand[i], hand[j])
    BY InHandAfter DEF IInv, Placed, InOrderOnce
  <2>2. ASSUME NEW i \in DOMAIN inbox', NEW j \in DOMAIN inbox', i < j
        PROVE  Before(inbox'[i], inbox'[j])
    <3>1. DOMAIN inbox = 1..Len(inbox) /\ DOMAIN hand = 1..Len(hand)
          /\ Len(inbox) \in Nat /\ Len(hand) \in Nat
      BY <1>3
    <3>2. DOMAIN inbox' \subseteq Nat \ {0}
      BY <1>3, <1>4, <1>8
    <3>3. CASE j \in DOMAIN inbox
      <4>1. i \in DOMAIN inbox
        BY <2>2, <3>1, <3>2, <3>3
      <4>2. inbox'[i] = inbox[i] /\ inbox'[j] = inbox[j]
        BY <1>11, <3>1, <3>3, <4>1
      <4>3. QED
        BY <2>1, <2>2, <3>3, <4>1, <4>2
    <3>4. CASE j \notin DOMAIN inbox
      <4>1. /\ j - Len(inbox) \in DOMAIN hand /\ inbox'[j] = hand[j - Len(inbox)]
        BY <1>3, <1>11, <3>1, <3>4
      <4>2. CASE i \in DOMAIN inbox /\ inbox'[i] = inbox[i]
        BY <2>1, <4>1, <4>2
      <4>3. CASE i - Len(inbox) \in 1..k /\ inbox'[i] = hand[i - Len(inbox)]
        <5>1. /\ i - Len(inbox) \in DOMAIN hand
              /\ i - Len(inbox) < j - Len(inbox)
          BY <1>3, <2>2, <3>1, <3>2, <4>3
        <5>2. QED
          BY <2>1, <4>1, <4>3, <5>1
      <4>4. QED
        BY <1>11, <4>2, <4>3
    <3>5. QED
      BY <3>3, <3>4
  <2>3. QED
    BY <2>2 DEF InOrderOnce
<1>14. QED
  BY <1>9, <1>10, <1>12, <1>13 DEF IInv

(* The steps that leave the inbox and what is in hand alone.               *)
LEMMA OthersKeep ==
    ASSUME IInv,
           Say \/ Missed \/ Start \/ InitialSync \/ InitialSyncFails \/ SaveToken \/ AutoJoin
    PROVE  IInv'
<1>1. /\ hand' = hand /\ inbox' = inbox
      /\ InOrderOnce'
  BY DEF IInv, Say, Missed, Start, InitialSync, InitialSyncFails, SaveToken, AutoJoin,
         file, InOrderOnce
<1>2. /\ \A i \in DOMAIN inbox : inbox[i] \in Nat
      /\ \A i \in DOMAIN hand : hand[i] \in Nat
  BY Elements DEF IInv, TypeOK
<1>3. TypeOK'
  BY MatrixListenerAssumption
     DEF IInv, TypeOK, Handling, NoToken, Events, Say, Missed, Start, InitialSync,
         InitialSyncFails, SaveToken, AutoJoin, file
<1>4. Handling'
  BY DEF IInv, TypeOK, Handling, NoToken, Say, Missed, Start, InitialSync,
         InitialSyncFails, SaveToken, AutoJoin, file
<1>5. Upper \in Int /\ Upper' \in Int /\ Upper <= Upper'
  BY DEF IInv, TypeOK, Handling, NoToken, Upper, Say, Missed, Start, InitialSync,
         InitialSyncFails, SaveToken, AutoJoin, file
<1>6. hand = <<>> \/ since' = since
  BY DEF IInv, Handling, Say, Missed, Start, InitialSync, InitialSyncFails, SaveToken,
         AutoJoin, file
<1>7. Placed'
  <2>1. \A i \in DOMAIN inbox' : inbox'[i] <= Upper'
    BY <1>1, <1>2, <1>5 DEF IInv, Placed
  <2>2. \A i \in DOMAIN hand' : hand'[i] <= since'
    BY <1>1, <1>6 DEF IInv, Placed
  <2>3. QED
    BY <1>1, <2>1, <2>2 DEF IInv, Placed
<1>8. QED
  BY <1>1, <1>3, <1>4, <1>7 DEF IInv

LEMMA NextKeeps == IInv /\ [Next]_vars => IInv'
<1> SUFFICES ASSUME IInv, [Next]_vars PROVE IInv'
  OBVIOUS
<1>1. CASE Sync
  BY <1>1, SyncKeeps
<1>2. CASE AppendToInbox
  BY <1>2, AppendKeeps
<1>3. CASE SyncError
  BY <1>3, LetGoKeeps DEF SyncError
<1>4. CASE Stop
  BY <1>4, LetGoKeeps DEF Stop
<1>5. CASE Say \/ Missed \/ Start \/ InitialSync \/ InitialSyncFails \/ SaveToken \/ AutoJoin
  BY <1>5, OthersKeep
<1>6. CASE UNCHANGED vars
  BY <1>6 DEF vars, file, IInv, TypeOK, Handling, Placed, Upper, InOrderOnce
<1>7. QED
  BY <1>1, <1>2, <1>3, <1>4, <1>5, <1>6 DEF Next, Listen

(* The types, with the token of the file behind or equal to the one in use.*)
THEOREM Typing == Spec => []TypeOK
<1>1. Init => IInv
  BY InitHolds
<1>2. IInv => TypeOK
  BY DEF IInv
<1>3. QED
  BY <1>1, <1>2, NextKeeps, PTL DEF Spec

(* "since token": no crash, error or new start puts a message into the     *)
(* inbox a second time, or behind a later one of its room.                 *)
THEOREM InOrderOnceHolds == Spec => []InOrderOnce
<1>1. Init => IInv
  BY InitHolds
<1>2. IInv => InOrderOnce
  BY DEF IInv
<1>3. QED
  BY <1>1, <1>2, NextKeeps, PTL DEF Spec

-----------------------------------------------------------------------------
(* NothingSkipped.                                                         *)

(* What is accounted for: collected, on its way, or let go of.             *)
Kept(n) ==
    \/ n \in Range(inbox) \cup Range(hand) \cup invites \cup passed
    \/ EventOf[n].kind = "invite" /\ RoomOf(n) \in joined

Covered == IF lpc = "down" THEN token ELSE since

LEMMA SkippedDef ==
    /\ NothingSkipped <=> \A n \in 1..Covered : Counts(n) => Kept(n)
    /\ NothingSkipped' <=> \A n \in 1..Covered' : Counts(n) => Kept(n)'
  BY DEF NothingSkipped, Kept, Covered

LEMMA SyncSkipsNothing ==
    ASSUME IInv, NothingSkipped, Sync
    PROVE  NothingSkipped'
<1> DEFINE S == {n \in New : Wanted(n) /\ Told(n)}
<1>1. /\ lpc = "poll" /\ lpc' = "token" /\ since' = said /\ inbox' = inbox
      /\ joined' = joined /\ hand = <<>> /\ invites = {}
      /\ invites' = {n \in New : EventOf[n].kind = "invite" /\ Told(n)}
      /\ passed' = passed \cup {n \in New : Counts(n) /\ ~Told(n)}
  BY DEF Sync, IInv, Handling
<1>2. Range(hand') = S
  <2>1. hand' \in RoomByRoom(S)
    BY DEF Sync
  <2> HIDE DEF S
  <2>2. QED
    BY <2>1 DEF RoomByRoom
<1>3. since \in Nat /\ said \in Nat /\ New = (since + 1)..said
  BY DEF IInv, TypeOK, New
<1>4. Covered' = said /\ Covered = since
  BY <1>1 DEF Covered
<1>5. ASSUME NEW n \in 1..said, Counts(n) PROVE Kept(n)'
  <2>1. CASE n <= since
    <3>1. Kept(n)
      BY <1>3, <1>4, <1>5, <2>1, SkippedDef
    <3>2. Range(hand) = {}
      BY <1>1 DEF Range
    <3>3. QED
      BY <1>1, <3>1, <3>2 DEF Kept
  <2>2. CASE n \in New
    <3>1. CASE ~Told(n)
      BY <1>1, <1>5, <2>2, <3>1 DEF Kept
    <3>2. CASE Told(n) /\ Wanted(n)
      BY <1>2, <2>2, <3>2 DEF Kept
    <3>3. CASE Told(n) /\ EventOf[n].kind = "invite"
      BY <1>1, <2>2, <3>3 DEF Kept
    <3>4. QED
      BY <1>5, <3>1, <3>2, <3>3 DEF Counts
  <2>3. QED
    BY <1>3, <2>1, <2>2
<1>6. QED
  BY <1>4, <1>5, SkippedDef

(* An event that is accounted for stays so, in every step but a Sync.      *)
LEMMA KeptStays ==
    ASSUME IInv, [Next]_vars, ~Sync, NEW n, Kept(n)
    PROVE  Kept(n)'
<1>0. hand \in Seq(Events) /\ inbox \in Seq(Events)
  BY DEF IInv, TypeOK
<1>1. CASE AppendToInbox
  <2>1. Range(inbox') = Range(inbox) \cup Range(hand)
    BY <1>0, <1>1, RangeOfJoined DEF AppendToInbox
  <2>2. QED
    BY <1>1, <2>1 DEF AppendToInbox, Kept
<1>2. CASE \E next \in {"poll", "down"} : LetGo(next)
  <2>0. PICK k \in IF lpc = "append" THEN 0..Len(hand) ELSE {0} :
            /\ inbox' = inbox \o SubSeq(hand, 1, k)
            /\ passed' = passed \cup Range(SubSeq(hand, k + 1, Len(hand))) \cup invites
    BY <1>2 DEF LetGo
  <2>1. /\ k \in 0..Len(hand)
        /\ inbox' = inbox \o SubSeq(hand, 1, k)
        /\ passed' = passed \cup Range(SubSeq(hand, k + 1, Len(hand))) \cup invites
    BY <1>0, <2>0
  <2>2. joined' = joined
    BY <1>2 DEF LetGo
  <2>3. Range(inbox) \subseteq Range(inbox')
    BY <1>0, <2>1 DEF Range
  <2>4. Range(hand) \subseteq Range(inbox') \cup Range(SubSeq(hand, k + 1, Len(hand)))
    <3>1. ASSUME NEW i \in DOMAIN hand
          PROVE  hand[i] \in Range(inbox') \cup Range(SubSeq(hand, k + 1, Len(hand)))
      <4>1. CASE i <= k
        <5>1. /\ Len(inbox) + i \in DOMAIN inbox'
              /\ inbox'[Len(inbox) + i] = hand[i]
          BY <1>0, <2>1, <4>1
        <5>2. QED
          BY <5>1 DEF Range
      <4>2. CASE i > k
        <5>1. /\ i - k \in DOMAIN SubSeq(hand, k + 1, Len(hand))
              /\ SubSeq(hand, k + 1, Len(hand))[i - k] = hand[i]
          BY <1>0, <2>1, <4>2
        <5>2. QED
          BY <5>1 DEF Range
      <4>3. QED
        BY <1>0, <2>1, <4>1, <4>2
    <3>2. QED
      BY <3>1 DEF Range
  <2>5. QED
    BY <2>1, <2>2, <2>3, <2>4 DEF Kept
<1>3. CASE AutoJoin
  <2>1. PICK failing \in SUBSET invites :
            /\ joined' = joined \cup {RoomOf(m) : m \in invites \ failing}
            /\ passed' = passed \cup failing
    BY <1>3 DEF AutoJoin
  <2>2. inbox' = inbox /\ hand' = hand
    BY <1>3 DEF AutoJoin, file
  <2>3. \A m \in invites : EventOf[m].kind = "invite"
    BY DEF IInv, Handling
  <2>4. QED
    BY <2>1, <2>2, <2>3 DEF Kept
<1>4. CASE Say \/ Missed \/ Start \/ InitialSync \/ InitialSyncFails \/ SaveToken
           \/ UNCHANGED vars
  BY <1>4 DEF Kept, Say, Missed, Start, InitialSync, InitialSyncFails, SaveToken, vars, file
<1>5. QED
  BY <1>1, <1>2, <1>3, <1>4 DEF Next, Listen, SyncError, Stop

LEMMA NextSkipsNothing ==
    ASSUME IInv, NothingSkipped, [Next]_vars
    PROVE  NothingSkipped'
<1>1. CASE Sync
  BY <1>1, SyncSkipsNothing
<1>2. CASE ~Sync /\ (Covered' <= Covered \/ Covered' <= 0)
  <2>1. Covered \in Int /\ Covered' \in Int
    BY NextKeeps DEF Covered, IInv, TypeOK, NoToken
  <2>2. ASSUME NEW n \in 1..Covered', Counts(n) PROVE Kept(n)'
    <3>1. n \in 1..Covered
      BY <1>2, <2>1
    <3>2. Kept(n)
      BY <2>2, <3>1, SkippedDef
    <3>3. QED
      BY <1>2, <3>2, KeptStays
  <2>3. QED
    BY <2>2, SkippedDef
<1>3. CASE InitialSync
  <2>1. /\ Covered' = said
        /\ passed' = passed \cup ({n \in 1..said : Counts(n)} \ Range(inbox))
        /\ inbox' = inbox
    BY <1>3 DEF InitialSync, Covered
  <2>2. \A n \in 1..Covered' : Counts(n) => Kept(n)'
    BY <2>1 DEF Kept
  <2>3. QED
    BY <2>2, SkippedDef
<1>4. CASE ~Sync /\ ~InitialSync
  <2>1. Covered' <= Covered \/ Covered' <= 0
    BY <1>4 DEF Covered, IInv, TypeOK, Handling, NoToken, Next, Listen, Say, Missed, Start,
       InitialSyncFails, SaveToken, AppendToInbox, AutoJoin, SyncError, Stop, LetGo, vars, file
  <2>2. QED
    BY <1>2, <1>4, <2>1
<1>5. QED
  BY <1>1, <1>3, <1>4

(* What the listener no longer asks for has been dealt with: no event      *)
(* before its token, in memory or in the file, is forgotten, but for the   *)
(* losses that the actions name.                                           *)
THEOREM NothingSkippedHolds == Spec => []NothingSkipped
<1>1. Init => IInv /\ NothingSkipped
  BY InitHolds
<1>2. IInv /\ NothingSkipped /\ [Next]_vars => IInv' /\ NothingSkipped'
  BY NextKeeps, NextSkipsNothing
<1>3. QED
  BY <1>1, <1>2, PTL DEF Spec

-----------------------------------------------------------------------------
(* The readers of the inbox file.  A line is a message that was sent, or   *)
(* broken; the last one is a message as long as it is written in part.     *)
LinesSent ==
    /\ \A i \in DOMAIN lines : lines[i] # Broken => ts[lines[i]] # 0
    /\ half => lines[Len(lines)] \in Msgs

(* Where the run of the ingestor holds the cursor, and threads it stored.  *)
RunHolds ==
    /\ ipc \in {"raw", "log", "read", "store"} => from = cursor
    /\ ipc \in {"idle", "save"} => from = 0
    /\ ipc # "store" => ~good

FeedTyped == FeedTypeOK /\ LinesSent /\ RunHolds

LEMMA MessagesTyped ==
    ASSUME lines \in Seq(Msgs \cup {Broken}), NEW P \in SUBSET DOMAIN lines
    PROVE  MessagesAt(P) \subseteq Msgs
BY DEF MessagesAt

LEMMA InboxTyped ==
    ASSUME FeedTypeOK
    PROVE  /\ LastWhole \in 0..Len(lines) /\ tpos <= LastWhole
           /\ (half => LastWhole = Len(lines) - 1) /\ (~half => LastWhole = Len(lines))
           /\ DOMAIN lines = 1..Len(lines) /\ Len(lines) \in Nat
           /\ Inbox \subseteq Msgs
<1>1. Len(lines) \in Nat /\ DOMAIN lines = 1..Len(lines)
  BY DEF FeedTypeOK
<1>2. LastWhole \in 0..Len(lines) /\ tpos <= LastWhole
  BY DEF FeedTypeOK, LastWhole
<1>3. (half => LastWhole = Len(lines) - 1) /\ (~half => LastWhole = Len(lines))
  BY DEF LastWhole
<1>4. 1..LastWhole \subseteq DOMAIN lines
  BY <1>1, <1>2
<1>5. Inbox \subseteq Msgs
  BY <1>4, MessagesTyped DEF FeedTypeOK, Inbox
<1>6. QED
  BY <1>1, <1>2, <1>3, <1>5

LEMMA NextInboxTyped ==
    ASSUME FeedTypeOK'
    PROVE  Inbox' \subseteq Msgs
<1>1. lines' \in Seq(Msgs \cup {Broken}) /\ half' \in BOOLEAN
  BY DEF FeedTypeOK
<1>2. LastWhole' \in {Len(lines'), Len(lines') - 1} /\ Len(lines') \in Nat
  BY <1>1 DEF LastWhole
<1>3. \A i \in 1..LastWhole' : lines'[i] \in Msgs \cup {Broken}
  BY <1>1, <1>2
<1>4. QED
  BY <1>3 DEF Inbox, MessagesAt

LEMMA ZeroIsEarly ==
    ASSUME FeedTypeOK
    PROVE  0 \in 0..cursor /\ 0 \in 0..now /\ now \in 0..now
BY ChatFeedAssumption DEF FeedTypeOK, Times

LEMMA FeedInitHolds == FeedInit => FeedTyped
<1>1. <<>> \in Seq(Msgs \cup {Broken}) /\ Len(<<>>) = 0 /\ DOMAIN <<>> = {}
  OBVIOUS
<1>2. ASSUME FeedInit PROVE FeedTypeOK
  <2>1. 1 \in Times /\ 0 \in Times /\ 0 \in 0..MaxStarts
    BY ChatFeedAssumption DEF Times
  <2>2. ts \in [Msgs -> Times]
    BY <1>2, <2>1 DEF FeedInit
  <2>3. lines \in Seq(Msgs \cup {Broken}) /\ Len(lines) = 0
    BY <1>1, <1>2 DEF FeedInit
  <2>4. /\ tpos \in 0..Len(lines) /\ from \in 0..cursor /\ cursor \in 0..now /\ stamp \in 0..now
        /\ triggers \in Nat
    BY <1>2, <2>3 DEF FeedInit
  <2>5. half = FALSE /\ half \in BOOLEAN /\ good \in BOOLEAN
    BY <1>2, Zenon DEF FeedInit
  <2>6. QED
    BY <1>2, <2>1, <2>2, <2>3, <2>4, <2>5 DEF FeedInit, FeedTypeOK
<1>3. ASSUME FeedInit PROVE LinesSent /\ RunHolds
  BY <1>1, <1>3 DEF FeedInit, LinesSent, RunHolds
<1>4. QED
  BY <1>2, <1>3 DEF FeedTyped

LEMMA MissesTyped ==
    ASSUME NEW m \in Msgs
    PROVE  {m} \X Misses(m) \subseteq Msgs \X {"event", "memory"}
BY DEF Misses

(* The actions on the file, with the clock and the tail.                   *)
LEMMA FileKeepsTyping ==
    ASSUME FeedTyped,
           Tick \/ AppendRest \/ \E m \in Msgs : Send(m) \/ AppendLine(m) \/ AppendBehind(m)
    PROVE  FeedTyped'
<1>1. CASE Tick
  BY <1>1, ChatFeedAssumption DEF FeedTyped, FeedTypeOK, LinesSent, RunHolds, Tick, Times, content,
     tail, redis, run, store
<1>2. ASSUME NEW m \in Msgs, Send(m) PROVE FeedTyped'
  BY <1>2 DEF FeedTyped, FeedTypeOK, LinesSent, RunHolds, Send, content, tail, redis, run, store,
     Times
<1>3. ASSUME NEW m \in Msgs, AppendLine(m) PROVE FeedTyped'
  <2>1. /\ lines' \in Seq(Msgs \cup {Broken}) /\ Len(lines') = Len(lines) + 1
        /\ lines'[Len(lines')] = m /\ \A i \in DOMAIN lines : lines'[i] = lines[i]
        /\ DOMAIN lines' = 1..(Len(lines) + 1) /\ DOMAIN lines = 1..Len(lines)
    BY <1>3 DEF AppendLine, FeedTyped, FeedTypeOK
  <2>2. late' \in {late, late \cup ({m} \X Misses(m))}
    BY <1>3 DEF AppendLine, Complete
  <2>3. late' \subseteq Msgs \X {"event", "memory"}
    BY <2>2, MissesTyped DEF FeedTyped, FeedTypeOK
  <2>4. triggers' \in Nat
    BY <1>3 DEF AppendLine, Publish, FeedTyped, FeedTypeOK
  <2>5. half' \in BOOLEAN
    BY <1>3 DEF AppendLine
  <2>6. LinesSent'
    BY <1>3, <2>1 DEF AppendLine, LinesSent, FeedTyped, clock
  <2>7. QED
    BY <1>3, <2>1, <2>3, <2>4, <2>5, <2>6 DEF AppendLine, FeedTyped, FeedTypeOK, RunHolds, clock, tail, run,
       store
<1>4. CASE AppendRest
  <2>1. late' \subseteq Msgs \X {"event", "memory"} /\ triggers' \in Nat
    BY <1>4, MissesTyped DEF AppendRest, Complete, Publish, FeedTyped, FeedTypeOK, LinesSent
  <2>2. QED
    BY <1>4, <2>1 DEF AppendRest, FeedTyped, FeedTypeOK, RunHolds, LinesSent, clock, tail, run,
       store
<1>5. ASSUME NEW m \in Msgs, AppendBehind(m) PROVE FeedTyped'
  <2>1. /\ lines' \in Seq(Msgs \cup {Broken}) /\ Len(lines') = Len(lines)
        /\ \A i \in DOMAIN lines : lines'[i] \in {lines[i], Broken}
        /\ DOMAIN lines' = DOMAIN lines
    BY <1>5 DEF AppendBehind, FeedTyped, FeedTypeOK
  <2>2. torn' \subseteq Msgs /\ triggers' \in Nat
    BY <1>5 DEF AppendBehind, Publish, FeedTyped, FeedTypeOK, LinesSent
  <2>3. LinesSent'
    BY <1>5, <2>1 DEF AppendBehind, LinesSent, FeedTyped, clock
  <2>4. QED
    BY <1>5, <2>1, <2>2, <2>3 DEF AppendBehind, FeedTyped, FeedTypeOK, RunHolds, clock, run, store
<1>6. QED
  BY <1>1, <1>2, <1>3, <1>4, <1>5

LEMMA TailKeepsTyping ==
    ASSUME FeedTyped,
           StartFeed \/ StopFeed \/ TailPart \/ TailLine \/ Subscribe \/ Disconnect
    PROVE  FeedTyped'
<1>1. CASE StartFeed
  <2>1. MessagesAt({Len(lines)}) \subseteq Msgs \/ ~half
    BY MessagesTyped, InboxTyped DEF FeedTyped, FeedTypeOK
  <2>2. MessagesAt(tpos + 1..LastWhole) \subseteq Msgs
    <3>1. tpos + 1..LastWhole \subseteq DOMAIN lines
      BY InboxTyped DEF FeedTyped, FeedTypeOK
    <3>2. QED
      BY <3>1, MessagesTyped DEF FeedTyped, FeedTypeOK
  <2>3. torn' \subseteq Msgs /\ skipped' \subseteq Msgs
    BY <1>1, <2>1, <2>2 DEF StartFeed, FeedTyped, FeedTypeOK
  <2>4. starts' \in 0..MaxStarts
    BY <1>1, ChatFeedAssumption DEF StartFeed, FeedTyped, FeedTypeOK
  <2>5. tpos' \in 0..Len(lines) /\ (half => tpos' < Len(lines)) /\ tpart' \in {"none", "part"}
    BY <1>1, InboxTyped DEF StartFeed, FeedTyped
  <2>6. QED
    BY <1>1, <2>3, <2>4, <2>5 DEF StartFeed, FeedTyped, FeedTypeOK, LinesSent, RunHolds, clock, content,
       redis, run, store
<1>2. CASE StopFeed
  BY <1>2, ZeroIsEarly DEF StopFeed, FeedTyped, FeedTypeOK, LinesSent, RunHolds, clock, content,
     tail, store
<1>3. CASE TailPart
  <2>1. MessagesAt({Len(lines)}) \subseteq Msgs
    BY <1>3, MessagesTyped, InboxTyped DEF TailPart, FeedTyped, FeedTypeOK
  <2>2. QED
    BY <1>3, <2>1 DEF TailPart, FeedTyped, FeedTypeOK, LinesSent, RunHolds, clock, content, redis,
       run, store
<1>4. CASE TailLine
  <2>1. /\ tpos' \in 0..Len(lines) /\ (half => tpos' < Len(lines)) /\ tpos + 1 \in DOMAIN lines
        /\ tpart' = "none"
    BY <1>4, InboxTyped DEF TailLine, FeedTyped, FeedTypeOK
  <2>2. lines[tpos + 1] \in Msgs \/ lines[tpos + 1] = Broken
    BY <2>1 DEF FeedTyped, FeedTypeOK
  <2>3. events' \subseteq Msgs /\ failed' \subseteq Msgs
    BY <1>4, <2>2 DEF TailLine, FeedTyped, FeedTypeOK
  <2>4. QED
    BY <1>4, <2>1, <2>3 DEF TailLine, FeedTyped, FeedTypeOK, LinesSent, RunHolds, clock, content,
       redis, run
<1>5. CASE Subscribe \/ Disconnect
  BY <1>5 DEF Subscribe, Disconnect, FeedTyped, FeedTypeOK, LinesSent, RunHolds, clock, content,
     tail, run, store
<1>6. QED
  BY <1>1, <1>2, <1>3, <1>4, <1>5

LEMMA RunKeepsTyping ==
    ASSUME FeedTyped, Run
    PROVE  FeedTyped'
<1>1. \A t : After(t) \subseteq Inbox
  BY DEF After, Inbox
<1>2. Inbox \subseteq Msgs
  BY InboxTyped DEF FeedTyped
<1>3. CASE Trigger
  BY <1>3 DEF Trigger, FeedTyped, FeedTypeOK, LinesSent, RunHolds, clock, content, tail, store
<1>4. CASE ReadRaw
  BY <1>1, <1>2, <1>4 DEF ReadRaw, FeedTyped, FeedTypeOK, LinesSent, RunHolds, clock, content,
     tail, redis, store
<1>5. CASE LogRaw
  <2>1. events' \subseteq Msgs /\ failed' \subseteq Msgs
    BY <1>5 DEF LogRaw, FeedTyped, FeedTypeOK
  <2>2. QED
    BY <1>5, <2>1 DEF LogRaw, FeedTyped, FeedTypeOK, LinesSent, RunHolds, clock, content, tail,
       redis
<1>6. CASE ReadDocs
  <2>1. docs' \subseteq Msgs \ Blank
    BY <1>1, <1>2, <1>6 DEF ReadDocs
  <2>2. QED
    BY <1>6, <2>1 DEF ReadDocs, FeedTyped, FeedTypeOK, LinesSent, RunHolds, clock, content, tail,
       redis, store
<1>7. CASE StoreThread
  <2>1. /\ docs' \subseteq Msgs \ Blank /\ mem' \subseteq Msgs \ Blank /\ refused' \subseteq Msgs
        /\ swallowed' \subseteq Msgs /\ good' \in BOOLEAN
    BY <1>7 DEF StoreThread, FeedTyped, FeedTypeOK
  <2>2. QED
    BY <1>7, <2>1 DEF StoreThread, FeedTyped, FeedTypeOK, LinesSent, RunHolds, clock, content,
       tail, redis
<1>8. CASE Ingested
  <2>1. ipc' \in {"save", "idle"} /\ stamp' \in 0..now
    BY <1>8, ZeroIsEarly DEF Ingested, FeedTyped
  <2>2. QED
    BY <1>8, <2>1, ZeroIsEarly DEF Ingested, FeedTyped, FeedTypeOK, LinesSent, RunHolds, clock,
       content, tail, redis, store
<1>9. CASE SaveCursor
  BY <1>9 DEF SaveCursor, FeedTyped, FeedTypeOK, LinesSent, RunHolds, clock, content, tail, redis,
     Times
<1>10. QED
  BY <1>3, <1>4, <1>5, <1>6, <1>7, <1>8, <1>9 DEF Run

LEMMA FeedNextKeepsTyping == FeedTyped /\ [FeedNext]_feedVars => FeedTyped'
<1>1. ASSUME FeedTyped, FeedNext PROVE FeedTyped'
  BY <1>1, FileKeepsTyping, TailKeepsTyping, RunKeepsTyping DEF FeedNext, Task
<1>2. ASSUME FeedTyped, UNCHANGED feedVars PROVE FeedTyped'
  BY <1>2 DEF feedVars, FeedTyped, FeedTypeOK, LinesSent, RunHolds
<1>3. QED
  BY <1>1, <1>2

(* The readers keep to their types: the tail never reads beyond the file,  *)
(* nor past a line that is not whole, and the cursor is never ahead of the *)
(* clock, for every number of messages, lines and starts.                  *)
THEOREM FeedTyping == FeedSpec => []FeedTypeOK
<1>1. QED
  BY FeedInitHolds, FeedNextKeepsTyping, PTL DEF FeedSpec, FeedTyped

-----------------------------------------------------------------------------
(* What the tail is through with: a message in front of its position has   *)
(* its row, or is without one for a reason; a line it read in part is torn. *)
TailSeen ==
    /\ \A i \in 1..tpos :
          lines[i] # Broken =>
              lines[i] \in events \cup failed \cup torn \cup Blank \cup skipped
    /\ tpart = "part" => tpos < Len(lines) /\ MessagesAt({tpos + 1}) \subseteq torn

(* What the ingestor is through with, of the messages of the file that did *)
(* not come too late for it: up to the cursor, and in the run as it is.    *)
Logged(m) == m \in events \cup failed
LoggedAt(m) ==
    /\ ts[m] <= cursor => Logged(m)
    /\ ipc = "log" => Logged(m) \/ m \in raw
    /\ ipc \in {"read", "store", "save"} => Logged(m)
LoggedSoFar == \A m \in Inbox \ LateFor("event") : LoggedAt(m)

Stored(m) == m \in mem \cup refused \cup swallowed
StoredAt(m) ==
    /\ ts[m] <= cursor => Stored(m)
    /\ ipc = "store" /\ (good \/ docs # {}) => Stored(m) \/ m \in docs
    /\ ipc = "save" => Stored(m)
StoredSoFar == \A m \in Inbox \ (Blank \cup LateFor("memory")) : StoredAt(m)

(* The file in a step: the line that is completed, if one is, came too     *)
(* late for what Misses names, and everything else stays in it.            *)
FileUnchanged == UNCHANGED <<ts, lines, half, late>>

LEMMA OthersLeaveFile ==
    ASSUME FeedNext, ~AppendRest,
           \A m \in Msgs : ~Send(m) /\ ~AppendLine(m) /\ ~AppendBehind(m)
    PROVE  FileUnchanged
<1>1. CASE Tick \/ StartFeed \/ StopFeed \/ Subscribe \/ Disconnect
  BY <1>1 DEF Tick, StartFeed, StopFeed, Subscribe, Disconnect, FileUnchanged, clock, content
<1>2. CASE Task
  BY <1>2 DEF Task, TailPart, TailLine, FileUnchanged, clock, content
<1>3. CASE Run
  BY <1>3 DEF Run, Trigger, ReadRaw, LogRaw, ReadDocs, StoreThread, Ingested, SaveCursor,
     FileUnchanged, clock, content
<1>4. QED
  BY <1>1, <1>2, <1>3 DEF FeedNext

Entering(m) ==
    /\ {m} \X Misses(m) \subseteq late'
    /\ ts' = ts /\ cursor' = cursor /\ ipc' = ipc

LEMMA FileStep ==
    ASSUME FeedTyped, [FeedNext]_feedVars
    PROVE  /\ late \subseteq late'
           /\ \A m \in Inbox : ts'[m] = ts[m]
           /\ \A m \in Inbox' \ Inbox : Entering(m)
<1>1. /\ lines \in Seq(Msgs \cup {Broken}) /\ half \in BOOLEAN /\ ts \in [Msgs -> Times]
      /\ Inbox \subseteq Msgs
  BY InboxTyped DEF FeedTyped, FeedTypeOK
<1>len. Len(lines) \in Nat
  BY <1>1
<1>whole. (half => LastWhole = Len(lines) - 1) /\ (~half => LastWhole = Len(lines))
  BY DEF LastWhole
<1>2. \A m \in Inbox : \E i \in 1..LastWhole : m = lines[i] /\ m # Broken
  BY DEF Inbox, MessagesAt
<1>3. CASE FileUnchanged
  <2>1. Inbox' = Inbox
    BY <1>3 DEF FileUnchanged, Inbox, MessagesAt, LastWhole
  <2>2. QED
    BY <1>3, <2>1 DEF FileUnchanged
<1>4. ASSUME NEW x \in Msgs, Send(x)
      PROVE  late' = late /\ Inbox' = Inbox /\ \A m \in Inbox : ts'[m] = ts[m]
  <2>1. UNCHANGED <<lines, half, late>> /\ ts' = [ts EXCEPT ![x] = now] /\ ts[x] = 0
    BY <1>4 DEF Send, content
  <2>2. ASSUME x \in Inbox PROVE FALSE
    <3>1. PICK i \in 1..LastWhole : x = lines[i] /\ x # Broken
      BY <1>2, <2>2
    <3>2. i \in DOMAIN lines
      BY InboxTyped DEF FeedTyped
    <3>3. QED
      BY <2>1, <3>1, <3>2 DEF FeedTyped, LinesSent
  <2>3. Inbox' = Inbox
    BY <2>1 DEF Inbox, MessagesAt, LastWhole
  <2>4. QED
    BY <1>1, <2>1, <2>2, <2>3
<1>5. ASSUME NEW x \in Msgs, AppendLine(x)
      PROVE  /\ late \subseteq late' /\ ts' = ts
             /\ \A m \in Inbox' \ Inbox : Entering(m)
  <2>1. /\ ~half /\ lines' = lines \o <<x>> /\ ts' = ts /\ cursor' = cursor /\ ipc' = ipc
        /\ \/ half' = FALSE /\ late' = late \cup ({x} \X Misses(x))
           \/ half' = TRUE /\ late' = late
    BY <1>5 DEF AppendLine, Complete, clock, run, store
  <2>2. /\ Len(lines') = Len(lines) + 1 /\ lines'[Len(lines) + 1] = x
        /\ \A i \in 1..Len(lines) : lines'[i] = lines[i]
    BY <1>1, <2>1
  <2>3. LastWhole = Len(lines)
    BY <1>whole, <2>1
  <2>4. CASE half' = FALSE
    <3>1. LastWhole' = Len(lines) + 1 /\ late' = late \cup ({x} \X Misses(x))
      BY <2>1, <2>2, <2>4 DEF LastWhole
    <3>2. ASSUME NEW m \in Inbox' \ Inbox PROVE m = x
      <4>1. PICK i \in 1..(Len(lines) + 1) : m = lines'[i] /\ m # Broken
        BY <3>1 DEF Inbox, MessagesAt
      <4>2. CASE i \in 1..Len(lines)
        BY <2>2, <2>3, <4>1, <4>2 DEF Inbox, MessagesAt
      <4>3. CASE i = Len(lines) + 1
        BY <2>2, <4>1, <4>3
      <4>4. QED
        BY <1>len, <4>2, <4>3
    <3>3. QED
      BY <2>1, <3>1, <3>2 DEF Entering
  <2>5. CASE half' = TRUE
    <3>1. LastWhole' = Len(lines) /\ late' = late
      BY <1>len, <2>1, <2>2, <2>5 DEF LastWhole
    <3>2. Inbox' \subseteq Inbox
      BY <2>2, <2>3, <3>1 DEF Inbox, MessagesAt
    <3>3. QED
      BY <2>1, <3>1, <3>2
  <2>6. QED
    BY <2>1, <2>4, <2>5
<1>6. CASE AppendRest
  <2>1. /\ half /\ lines' = lines /\ ts' = ts /\ cursor' = cursor /\ ipc' = ipc
        /\ half' = FALSE /\ late' = late \cup ({lines[Len(lines)]} \X Misses(lines[Len(lines)]))
    BY <1>6 DEF AppendRest, Complete, clock, run, store
  <2>2. LastWhole = Len(lines) - 1 /\ LastWhole' = Len(lines)
    BY <2>1 DEF LastWhole
  <2>3. ASSUME NEW m \in Inbox' \ Inbox PROVE m = lines[Len(lines)]
    <3>1. PICK i \in 1..Len(lines) : m = lines[i] /\ m # Broken
      BY <2>1, <2>2 DEF Inbox, MessagesAt
    <3>2. i \notin 1..(Len(lines) - 1)
      BY <2>2, <3>1 DEF Inbox, MessagesAt
    <3>3. i = Len(lines)
      BY <1>len, <3>1, <3>2
    <3>4. QED
      BY <3>1, <3>3
  <2>4. QED
    BY <2>1, <2>3 DEF Entering
<1>7. ASSUME NEW x \in Msgs, AppendBehind(x)
      PROVE  late' = late /\ ts' = ts /\ Inbox' \subseteq Inbox
  <2>1. /\ half /\ ts' = ts /\ half' = FALSE /\ late' = late
        /\ lines' = [lines EXCEPT ![Len(lines)] = Broken]
    BY <1>7 DEF AppendBehind, clock
  <2>2. LastWhole = Len(lines) - 1 /\ Len(lines') = Len(lines)
    BY <1>1, <1>whole, <2>1
  <2>3. LastWhole' = Len(lines)
    BY <2>1, <2>2 DEF LastWhole
  <2>4. ASSUME NEW m \in Inbox' PROVE m \in Inbox
    <3>1. PICK i \in 1..Len(lines) : m = lines'[i] /\ m # Broken
      BY <2>3 DEF Inbox, MessagesAt
    <3>2. i # Len(lines) /\ m = lines[i]
      BY <1>1, <1>len, <2>1, <3>1
    <3>3. i \in 1..LastWhole
      BY <1>len, <3>1, <2>2, <3>2
    <3>4. QED
      BY <3>1, <3>2, <3>3 DEF Inbox, MessagesAt
  <2>5. QED
    BY <2>1, <2>4
<1>8. CASE UNCHANGED feedVars
  BY <1>3, <1>8 DEF feedVars, FileUnchanged
<1>9. QED
  BY <1>3, <1>4, <1>5, <1>6, <1>7, <1>8, OthersLeaveFile

(* What a run of the ingestor does to the messages it accounts for.        *)
LEMMA RunLogs ==
    ASSUME FeedTyped, Run, NEW m \in Inbox, LoggedAt(m)
    PROVE  LoggedAt(m)'
<1>1. m \in After(from) \/ ts[m] <= from
  <2>1. ts[m] \in Nat /\ from \in Nat
    BY InboxTyped, ChatFeedAssumption DEF FeedTyped, FeedTypeOK, Times
  <2>2. QED
    BY <2>1 DEF After, Inbox
<1>2. CASE Trigger
  BY <1>2 DEF Trigger, LoggedAt, Logged, clock, store
<1>3. CASE ReadRaw
  BY <1>1, <1>3 DEF ReadRaw, LoggedAt, Logged, FeedTyped, RunHolds, clock, store
<1>4. CASE LogRaw
  <2>1. PICK lost \in SUBSET raw :
            events' = events \cup (raw \ lost) /\ failed' = failed \cup lost
    BY <1>4 DEF LogRaw
  <2>2. Logged(m)'
    BY <1>4, <2>1 DEF LogRaw, LoggedAt, Logged
  <2>3. QED
    BY <1>4, <2>2 DEF LogRaw, LoggedAt
<1>5. CASE ReadDocs
  BY <1>5 DEF ReadDocs, LoggedAt, Logged, clock, store
<1>6. CASE StoreThread
  BY <1>6 DEF StoreThread, LoggedAt, Logged, clock
<1>7. CASE Ingested
  BY <1>7 DEF Ingested, LoggedAt, Logged, clock, store
<1>8. CASE SaveCursor
  BY <1>8 DEF SaveCursor, LoggedAt, Logged, clock
<1>9. QED
  BY <1>2, <1>3, <1>4, <1>5, <1>6, <1>7, <1>8 DEF Run

LEMMA RunStores ==
    ASSUME FeedTyped, Run, NEW m \in Inbox \ Blank, StoredAt(m)
    PROVE  StoredAt(m)'
<1>1. m \in After(from) \/ ts[m] <= from
  <2>1. ts[m] \in Nat /\ from \in Nat
    BY InboxTyped, ChatFeedAssumption DEF FeedTyped, FeedTypeOK, Times
  <2>2. QED
    BY <2>1 DEF After, Inbox
<1>2. CASE Trigger
  BY <1>2 DEF Trigger, StoredAt, Stored, clock, store
<1>3. CASE ReadRaw
  BY <1>3 DEF ReadRaw, StoredAt, Stored, clock, store
<1>4. CASE LogRaw
  BY <1>4 DEF LogRaw, StoredAt, Stored, clock
<1>5. CASE ReadDocs
  <2>1. good' = good /\ ~good
    BY <1>5 DEF ReadDocs, FeedTyped, RunHolds
  <2>2. QED
    BY <1>1, <1>5, <2>1 DEF ReadDocs, StoredAt, Stored, FeedTyped, RunHolds, clock, store
<1>6. CASE StoreThread
  <2>1. PICK first \in docs :
          LET thread == {x \in docs : ThreadOf[x] = ThreadOf[first]} IN
          /\ docs' = docs \ thread
          /\ \/ mem' = mem \cup thread /\ good' = TRUE /\ UNCHANGED <<refused, swallowed>>
             \/ swallowed' = swallowed \cup thread /\ good' = TRUE /\ UNCHANGED <<mem, refused>>
             \/ refused' = refused \cup thread /\ UNCHANGED <<mem, good, swallowed>>
    BY <1>6 DEF StoreThread
  <2>2. Stored(m) \/ m \in docs
    BY <1>6, <2>1 DEF StoreThread, StoredAt
  <2>3. (Stored(m) \/ m \in docs)' /\ (Stored(m) => Stored(m)')
    BY <2>1, <2>2 DEF Stored
  <2>4. QED
    BY <1>6, <2>3 DEF StoreThread, StoredAt, clock
<1>7. CASE Ingested
  BY <1>7 DEF Ingested, StoredAt, Stored, clock, store
<1>8. CASE SaveCursor
  BY <1>8 DEF SaveCursor, StoredAt, Stored, clock
<1>9. QED
  BY <1>2, <1>3, <1>4, <1>5, <1>6, <1>7, <1>8 DEF Run

(* The other actions leave a run as it is or end it, and take nothing from *)
(* the events or the memory.                                               *)
LEMMA OthersLeaveRun ==
    ASSUME [FeedNext]_feedVars, ~Run
    PROVE  /\ ipc' = "idle" \/ UNCHANGED <<ipc, raw, docs, good>>
           /\ cursor' = cursor /\ mem' = mem /\ refused' = refused
           /\ swallowed' = swallowed
           /\ events \subseteq events' /\ failed \subseteq failed'
<1>1. CASE Tick \/ AppendRest \/ StartFeed \/ Subscribe \/ Disconnect
  BY <1>1 DEF Tick, AppendRest, StartFeed, Subscribe, Disconnect, run, store
<1>2. CASE StopFeed
  BY <1>2 DEF StopFeed, store
<1>3. ASSUME NEW m \in Msgs, Send(m) \/ AppendLine(m) \/ AppendBehind(m)
      PROVE  UNCHANGED <<run, store>>
  BY <1>3 DEF Send, AppendLine, AppendBehind
<1>4. CASE Task
  BY <1>4 DEF Task, TailPart, TailLine, run, store
<1>5. CASE UNCHANGED feedVars
  BY <1>5 DEF feedVars
<1>6. QED
  BY <1>1, <1>2, <1>3, <1>4, <1>5 DEF FeedNext, run, store

LEMMA LoggedSoFarKept ==
    FeedTyped /\ LoggedSoFar /\ [FeedNext]_feedVars => LoggedSoFar'
<1>1. SUFFICES ASSUME FeedTyped, LoggedSoFar, [FeedNext]_feedVars,
                      NEW m \in Inbox', m \notin LateFor("event")'
               PROVE  LoggedAt(m)'
  BY DEF LoggedSoFar
<1>2. m \in Msgs
  BY <1>1, FeedNextKeepsTyping, NextInboxTyped DEF FeedTyped
<1>3. <<m, "event">> \notin late'
  BY <1>1, <1>2 DEF LateFor
<1>4. CASE m \in Inbox
  <2>1. LoggedAt(m) /\ ts'[m] = ts[m]
    BY <1>1, <1>3, <1>4, FileStep DEF LoggedSoFar, LateFor
  <2>2. CASE Run
    BY <1>1, <1>4, <2>1, <2>2, RunLogs
  <2>3. CASE ~Run
    BY <1>1, <2>1, <2>3, OthersLeaveRun DEF LoggedAt, Logged
  <2>4. QED
    BY <2>2, <2>3
<1>5. CASE m \notin Inbox
  <2>1. Entering(m)
    BY <1>1, <1>5, FileStep
  <2>2. "event" \notin Misses(m)
    BY <1>3, <2>1 DEF Entering
  <2>3. QED
    BY <2>1, <2>2 DEF Entering, Misses, LoggedAt
<1>6. QED
  BY <1>4, <1>5

LEMMA StoredSoFarKept ==
    FeedTyped /\ StoredSoFar /\ [FeedNext]_feedVars => StoredSoFar'
<1>1. SUFFICES ASSUME FeedTyped, StoredSoFar, [FeedNext]_feedVars,
                      NEW m \in Inbox', m \notin Blank, m \notin LateFor("memory")'
               PROVE  StoredAt(m)'
  BY DEF StoredSoFar
<1>2. m \in Msgs
  BY <1>1, FeedNextKeepsTyping, NextInboxTyped DEF FeedTyped
<1>3. <<m, "memory">> \notin late'
  BY <1>1, <1>2 DEF LateFor
<1>4. CASE m \in Inbox
  <2>1. StoredAt(m) /\ ts'[m] = ts[m]
    BY <1>1, <1>3, <1>4, FileStep DEF StoredSoFar, LateFor
  <2>2. CASE Run
    BY <1>1, <1>4, <2>1, <2>2, RunStores
  <2>3. CASE ~Run
    BY <1>1, <2>1, <2>3, OthersLeaveRun DEF StoredAt, Stored
  <2>4. QED
    BY <2>2, <2>3
<1>5. CASE m \notin Inbox
  <2>1. Entering(m)
    BY <1>1, <1>5, FileStep
  <2>2. "memory" \notin Misses(m)
    BY <1>3, <2>1 DEF Entering
  <2>3. QED
    BY <2>1, <2>2 DEF Entering, Misses, StoredAt
<1>6. QED
  BY <1>4, <1>5

(* A message in the inbox is in the memory, or after the cursor, where the *)
(* next run of the ingestor will find it, but for the refused threads and  *)
(* for what comes into the file while a run is under way: for every number *)
(* of messages, threads, lines and starts.                                 *)
THEOREM MemoryOrPendingHolds == FeedSpec => []MemoryOrPending
<1>1. FeedInit => StoredSoFar
  <2>1. FeedInit => Inbox = {}
    BY DEF FeedInit, Inbox, MessagesAt, LastWhole
  <2>2. QED
    BY <2>1 DEF StoredSoFar
<1>2. FeedTyped /\ StoredSoFar => MemoryOrPending
  <2>1. SUFFICES ASSUME FeedTyped, StoredSoFar, NEW m \in Inbox \ Blank,
                        m \notin LateFor("memory")
                 PROVE  Stored(m) \/ ts[m] > cursor
    BY DEF MemoryOrPending, Stored
  <2>2. ts[m] \in Nat /\ cursor \in Nat
    BY <2>1, InboxTyped, ChatFeedAssumption DEF FeedTyped, FeedTypeOK, Times
  <2>3. QED
    BY <2>1, <2>2 DEF StoredSoFar, StoredAt
<1>3. QED
  BY <1>1, <1>2, FeedInitHolds, FeedNextKeepsTyping, StoredSoFarKept, PTL DEF FeedSpec

-----------------------------------------------------------------------------
(* The lines the tail is through with stay as they are, and the one it     *)
(* read a part of becomes no other message.                                *)
LEMMA SeenLinesStay ==
    ASSUME FeedTyped, [FeedNext]_feedVars
    PROVE  /\ \A i \in 1..tpos : lines'[i] = lines[i]
           /\ tpos < Len(lines) => lines'[tpos + 1] \in {lines[tpos + 1], Broken}
           /\ Len(lines) <= Len(lines')
<1>1. lines \in Seq(Msgs \cup {Broken}) /\ tpos \in 0..Len(lines) /\ (half => tpos < Len(lines))
  BY DEF FeedTyped, FeedTypeOK
<1>2. CASE lines' = lines
  BY <1>1, <1>2
<1>3. ASSUME NEW m \in Msgs, AppendLine(m) PROVE lines' = lines \o <<m>>
  BY <1>3 DEF AppendLine
<1>4. CASE \E m \in Msgs : lines' = lines \o <<m>>
  BY <1>1, <1>4
<1>5. ASSUME NEW m \in Msgs, AppendBehind(m)
      PROVE  half /\ lines' = [lines EXCEPT ![Len(lines)] = Broken]
  BY <1>5 DEF AppendBehind
<1>6. CASE half /\ lines' = [lines EXCEPT ![Len(lines)] = Broken]
  <2>1. Len(lines') = Len(lines) /\ tpos < Len(lines)
    BY <1>1, <1>6
  <2>2. \A i \in 1..tpos : i \in DOMAIN lines /\ i # Len(lines)
    BY <1>1, <2>1
  <2>3. \A i \in DOMAIN lines : lines'[i] \in {lines[i], Broken}
    BY <1>1, <1>6
  <2>4. \A i \in 1..tpos : lines'[i] = lines[i]
    BY <1>1, <1>6, <2>2
  <2>5. tpos + 1 \in DOMAIN lines
    BY <1>1, <2>1
  <2>6. QED
    BY <1>1, <2>1, <2>3, <2>4, <2>5
<1>7. CASE UNCHANGED feedVars \/ \E m \in Msgs : Send(m)
  BY <1>2, <1>7 DEF Send, feedVars, content
<1>8. CASE AppendRest
  BY <1>2, <1>8 DEF AppendRest
<1>9. QED
  BY <1>2, <1>3, <1>4, <1>5, <1>6, <1>7, <1>8, OthersLeaveFile DEF FileUnchanged

(* Nothing is taken back of what the tail accounts for.                    *)
LEMMA AccountGrows ==
    ASSUME [FeedNext]_feedVars
    PROVE  /\ events \subseteq events' /\ failed \subseteq failed'
           /\ torn \subseteq torn' /\ skipped \subseteq skipped'
<1>1. CASE Run
  <2>1. torn' = torn /\ skipped' = skipped
    BY <1>1 DEF Run, Trigger, ReadRaw, LogRaw, ReadDocs, StoreThread, Ingested, SaveCursor, tail
  <2>2. events \subseteq events' /\ failed \subseteq failed'
    BY <1>1 DEF Run, Trigger, ReadRaw, LogRaw, ReadDocs, StoreThread, Ingested, SaveCursor, store
  <2>3. QED
    BY <2>1, <2>2
<1>2. CASE ~Run
  <2>1. torn \subseteq torn' /\ skipped \subseteq skipped'
    BY <1>2 DEF FeedNext, Tick, Send, AppendLine, AppendRest, AppendBehind, StartFeed, StopFeed,
       Task, TailPart, TailLine, Subscribe, Disconnect, tail, feedVars
  <2>2. QED
    BY <1>2, <2>1, OthersLeaveRun
<1>3. QED
  BY <1>1, <1>2

(* The tail where it moves, and all the other actions where it does not.   *)
LEMMA TailLineSeen ==
    ASSUME FeedTyped, TailSeen, TailLine
    PROVE  TailSeen'
<1>1. /\ tpos \in Nat /\ tpos' = tpos + 1 /\ tpart' = "none" /\ UNCHANGED <<lines, torn, skipped>>
  BY DEF TailLine, FeedTyped, FeedTypeOK, content
<1>2. tpos + 1 \in 1..Len(lines)
  BY InboxTyped, <1>1 DEF TailLine, FeedTyped
<1>3. lines[tpos + 1] # Broken =>
          lines[tpos + 1] \in events' \cup failed' \cup torn \cup Blank \cup skipped
  <2>1. CASE tpart = "part"
    BY <1>2, <2>1 DEF TailSeen, MessagesAt
  <2>2. CASE tpart # "part"
    BY <2>2 DEF TailLine
  <2>3. QED
    BY <2>1, <2>2
<1>4. events \subseteq events' /\ failed \subseteq failed'
  BY DEF TailLine
<1>5. \A i \in 1..tpos' : i \in 1..tpos \/ i = tpos + 1
  BY <1>1
<1>6. QED
  BY <1>1, <1>3, <1>4, <1>5 DEF TailSeen

LEMMA StartFeedSeen ==
    ASSUME FeedTyped, TailSeen, StartFeed
    PROVE  TailSeen'
<1>1. /\ lines' = lines /\ events' = events /\ failed' = failed /\ tpos' = LastWhole
      /\ torn \subseteq torn' /\ skipped' = skipped \cup MessagesAt(tpos + 1..LastWhole)
      /\ tpart' = IF half THEN "part" ELSE "none"
      /\ half => torn' = torn \cup MessagesAt({Len(lines)})
  BY DEF StartFeed, content, store
<1>2. /\ tpos \in Nat /\ LastWhole \in Nat /\ LastWhole <= Len(lines) /\ Len(lines) \in Nat
      /\ half => LastWhole = Len(lines) - 1
  BY InboxTyped DEF FeedTyped, FeedTypeOK
<1>3. ASSUME NEW i \in 1..LastWhole, lines[i] # Broken
      PROVE  lines[i] \in events \cup failed \cup torn' \cup Blank \cup skipped'
  <2>1. i \in 1..tpos \/ i \in tpos + 1..LastWhole
    BY <1>2
  <2>2. QED
    BY <1>1, <1>3, <2>1 DEF TailSeen, MessagesAt
<1>4. ASSUME tpart' = "part"
      PROVE  LastWhole < Len(lines) /\ MessagesAt({LastWhole + 1}) \subseteq torn'
  <2>1. half
    BY <1>1, <1>4
  <2>2. LastWhole + 1 = Len(lines) /\ LastWhole < Len(lines)
    BY <1>2, <2>1
  <2>3. torn' = torn \cup MessagesAt({Len(lines)})
    BY <1>1, <2>1
  <2>4. QED
    BY <2>2, <2>3
<1>5. MessagesAt({tpos + 1})' = MessagesAt({LastWhole + 1})
  BY <1>1 DEF MessagesAt
<1>6. QED
  BY <1>1, <1>3, <1>4, <1>5 DEF TailSeen

LEMMA TailPartSeen ==
    ASSUME FeedTyped, TailSeen, TailPart
    PROVE  TailSeen'
<1>1. /\ tpos' = tpos /\ lines' = lines /\ events' = events /\ failed' = failed
      /\ skipped' = skipped /\ torn' = torn \cup MessagesAt({tpos + 1}) /\ tpos + 1 = Len(lines)
  BY DEF TailPart, content, store
<1>2. tpos < Len(lines)
  BY <1>1 DEF FeedTyped, FeedTypeOK
<1>3. MessagesAt({tpos + 1})' = MessagesAt({tpos + 1})
  BY <1>1 DEF MessagesAt
<1>4. QED
  BY <1>1, <1>2, <1>3 DEF TailSeen

LEMMA OthersLeaveTail ==
    ASSUME [FeedNext]_feedVars, ~TailLine, ~TailPart, ~StartFeed
    PROVE  tpos' = tpos /\ tpart' = tpart
<1>1. CASE Run
  BY <1>1 DEF Run, Trigger, ReadRaw, LogRaw, ReadDocs, StoreThread, Ingested, SaveCursor, tail
<1>2. CASE ~Run
  BY <1>2 DEF FeedNext, Tick, Send, AppendLine, AppendRest, AppendBehind, StopFeed, Task,
     Subscribe, Disconnect, tail, feedVars
<1>3. QED
  BY <1>1, <1>2

LEMMA TailSeenKept == FeedTyped /\ TailSeen /\ [FeedNext]_feedVars => TailSeen'
<1>1. SUFFICES ASSUME FeedTyped, TailSeen, [FeedNext]_feedVars, ~TailLine, ~TailPart, ~StartFeed
               PROVE  TailSeen'
  BY TailLineSeen, TailPartSeen, StartFeedSeen
<1>2. tpos' = tpos /\ tpart' = tpart
  BY <1>1, OthersLeaveTail
<1>3. /\ events \subseteq events' /\ failed \subseteq failed'
      /\ torn \subseteq torn' /\ skipped \subseteq skipped'
  BY <1>1, AccountGrows
<1>4. \A i \in 1..tpos : lines'[i] = lines[i]
  BY <1>1, SeenLinesStay
<1>5. ASSUME tpart = "part"
      PROVE  tpos < Len(lines') /\ MessagesAt({tpos + 1})' \subseteq torn'
  <2>1. tpos < Len(lines) /\ lines'[tpos + 1] \in {lines[tpos + 1], Broken}
    BY <1>1, <1>5, SeenLinesStay DEF TailSeen
  <2>2. tpos < Len(lines')
    <3>1. tpos \in Nat /\ Len(lines) \in Nat /\ Len(lines') \in Nat
      BY <1>1, FeedNextKeepsTyping DEF FeedTyped, FeedTypeOK
    <3>2. QED
      BY <1>1, <2>1, <3>1, SeenLinesStay
  <2>3. QED
    BY <1>1, <1>2, <1>3, <1>5, <2>1, <2>2 DEF TailSeen, MessagesAt
<1>6. QED
  BY <1>1, <1>2, <1>3, <1>4, <1>5 DEF TailSeen

(* Between its two readers no message of the inbox is forgotten: it has    *)
(* its row in events, or the tail or the next run of the ingestor will     *)
(* come to it, or it is one of the losses EventOrPending names, for every  *)
(* number of messages, lines and starts of the dashboard.                  *)
THEOREM EventOrPendingHolds == FeedSpec => []EventOrPending
<1>1. FeedInit => TailSeen /\ LoggedSoFar
  <2>1. FeedInit => Inbox = {}
    BY DEF FeedInit, Inbox, MessagesAt, LastWhole
  <2>2. QED
    BY <2>1 DEF FeedInit, LoggedSoFar, TailSeen
<1>2. FeedTyped /\ TailSeen /\ LoggedSoFar => EventOrPending
  <2>1. SUFFICES ASSUME FeedTyped, TailSeen, LoggedSoFar, NEW m \in Inbox \ Blank,
                        m \notin events \cup failed, m \notin torn, m \notin Ahead,
                        ~(ts[m] > cursor)
                 PROVE  m \in Overlooked /\ m \in LateFor("event")
    BY DEF EventOrPending
  <2>2. m \in LateFor("event")
    <3>1. ts[m] \in Nat /\ cursor \in Nat
      BY <2>1, InboxTyped, ChatFeedAssumption DEF FeedTyped, FeedTypeOK, Times
    <3>2. QED
      BY <2>1, <3>1 DEF LoggedSoFar, LoggedAt, Logged
  <2>3. PICK i \in 1..LastWhole : m = lines[i] /\ m # Broken
    BY <2>1 DEF Inbox, MessagesAt
  <2>4. i \in 1..tpos \/ i \in tpos + 1..LastWhole
    BY <2>1, <2>3, InboxTyped DEF FeedTyped, FeedTypeOK
  <2>5. CASE i \in 1..tpos
    BY <2>1, <2>2, <2>3, <2>5 DEF TailSeen, Overlooked
  <2>6. CASE i \in tpos + 1..LastWhole
    BY <2>1, <2>2, <2>3, <2>6 DEF MessagesAt, Ahead, Overlooked
  <2>7. QED
    BY <2>4, <2>5, <2>6
<1>3. QED
  BY <1>1, <1>2, FeedInitHolds, FeedNextKeepsTyping, TailSeenKept, LoggedSoFarKept, PTL
     DEF FeedSpec
=============================================================================
