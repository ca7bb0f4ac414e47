--------------------------- MODULE TwinChatProofs ---------------------------
(* Proofs that an answer of the twin and a message it writes belong to the *)
(* question they are for, for any questions, sessions and rooms, and       *)
(* any failures, with the questions of the owner running side by side.     *)
EXTENDS TwinChat, TLAPS

(* Before a question has a client, while it uses it, and after that.       *)
Early == {"new", "connect", "route", "enrich", "compose", "deliver", "run", "opening"}
Busy  == {"query", "read", "collect"}
Late  == {"direct", "close", "done"}

(* A client is used by one runner and in one session, those of the         *)
(* question that made it.                                                  *)
Fits(c, r, s) == RunnerOf(c) = r /\ SessionOf[c] = s /\ pc[c] \notin Early

Homes ==
    /\ \A r \in Runners, s \in Sessions :
          sessions[r][s] # NoClient => Fits(sessions[r][s], r, s)
    /\ \A q \in Questions :
          /\ client[q] # NoClient =>
                Fits(client[q], RunnerOf(q), SessionOf[q]) /\ pc[q] \notin Early
          /\ pc[q] \in Busy => client[q] # NoClient

OneByOne ==
    \A p, q \in Relayed : p # q => pc[p] \in {"new", "done"} \/ pc[q] \in {"new", "done"}

(* What a client was asked, it was asked by questions it is the client of. *)
Asked ==
    \A c \in Questions :
        /\ \A i \in DOMAIN pipe[c] : client[pipe[c][i]] = c
        /\ last[c] # NoClient => client[last[c]] = c
        /\ pc[c] = "collect" => last[client[c]] # NoClient

(* On a client without a timeout there is no answer but the one that is    *)
(* being waited for.                                                       *)
Pending ==
    \A q \in Questions : client[q] \notin expired =>
        /\ pc[q] = "query" => pipe[client[q]] = <<>>
        /\ pc[q] = "read" => pipe[client[q]] = <<q>>
        /\ pc[q] = "collect" => pipe[client[q]] = <<>> /\ last[client[q]] = q

Awaited ==
    \A r \in Runners, s \in Sessions :
        LET c == sessions[r][s] IN
        c # NoClient /\ c \notin expired /\ pipe[c] # <<>>
            => \E q \in Questions : pc[q] = "read" /\ client[q] = c

Answered ==
    \A q, p \in Questions : <<q, p>> \in answers =>
        /\ pc[q] \in Late
        /\ q # p => client[p] = client[q] /\ client[q] \in expired

(* What a lookup has found so far, and what the one for the prompt found.  *)
BestOf(b, scores, S) ==
    IF b = NoRoom THEN \A r \in S : scores[r] = 0
    ELSE b \in S /\ \A r \in S : scores[r] <= scores[b]

Looked == \A q \in Questions : BestOf(best[q], read[q], Rooms \ todo[q])

Remembered ==
    \A q \in Questions :
        pc[q] \in {"compose", "deliver"} /\ context[q] # NoRoom
            => BestOf(context[q], first[q], Rooms)

Written == Looked /\ Remembered

IInv == TypeOK /\ Homes /\ OneByOne /\ Asked /\ Pending /\ Awaited /\ Answered /\ Written

LEMMA InitHolds == Init => IInv
<1> SUFFICES ASSUME Init PROVE IInv
  OBVIOUS
<1>1. TypeOK
  <2>1. NoneFits \in [Rooms -> Scores]
    BY TwinChatAssumption DEF NoneFits
  <2>2. QED
    BY <2>1, TwinChatAssumption DEF Init, TypeOK, Stages, Outcomes
<1>2. Homes /\ OneByOne /\ Asked
  BY TwinChatAssumption DEF Init, Homes, OneByOne, Asked, Busy, Questions
<1>3. Pending /\ Awaited
  BY DEF Init, Pending, Awaited, Runners, Questions
<1>4. Answered
  BY DEF Init, Answered
<1>5. Written
  BY DEF Init, Written, Looked, Remembered, BestOf, NoneFits
<1>6. QED
  BY <1>1, <1>2, <1>3, <1>4, <1>5 DEF IInv

-----------------------------------------------------------------------------
(* At most one question at a time uses a client.                           *)
LEMMA Alone ==
    ASSUME IInv, NEW q \in Questions, NEW p \in Questions,
           pc[q] \in Busy, pc[p] \in Busy, client[p] = client[q]
    PROVE  p = q
<1>1. RunnerOf(p) = RunnerOf(q)
  BY DEF IInv, Homes, Fits
<1>2. p \in Chat <=> q \in Chat
  BY <1>1, TwinChatAssumption DEF RunnerOf, Questions
<1>3. CASE p \in Chat
  BY <1>1, <1>2, <1>3 DEF RunnerOf
<1>4. CASE p \notin Chat
  <2>1. p \in Relayed /\ q \in Relayed
    BY <1>2, <1>4 DEF Questions
  <2>2. QED
    BY <2>1 DEF IInv, OneByOne, Busy
<1>5. QED
  BY <1>3, <1>4

(* The client of a question is one, made by a question of its runner.      *)
LEMMA Owned ==
    ASSUME IInv, NEW q \in Questions, client[q] # NoClient
    PROVE  /\ client[q] \in Questions /\ RunnerOf(client[q]) = RunnerOf(q)
           /\ SessionOf[client[q]] = SessionOf[q] /\ pc[q] \notin Early
  BY DEF IInv, TypeOK, Homes, Fits

LEMMA SessionsOfQuestions ==
    ASSUME NEW q \in Questions
    PROVE  RunnerOf(q) \in Runners /\ SessionOf[q] \in Sessions
  BY DEF RunnerOf, Runners, Sessions

(* A step that takes a question to a stage before or after the use of its  *)
(* client, and at most empties sessions, disturbs no client.               *)
LEMMA ClientsKept ==
    ASSUME IInv, NEW q \in Questions, NEW to \in Stages \ Busy,
           pc' = [pc EXCEPT ![q] = to], pc[q] \notin Busy,
           pc[q] \in Early \/ to \notin Early,
           \A r \in Runners, s \in Sessions :
               sessions'[r][s] = sessions[r][s] \/ sessions'[r][s] = NoClient,
           UNCHANGED <<pipe, last, client, expired>>
    PROVE  Homes' /\ Asked' /\ Pending' /\ Awaited'
<1>1. \A p \in Questions : pc'[p] = IF p = q THEN to ELSE pc[p]
  BY DEF IInv, TypeOK
<1>2. \A p \in Questions : pc[p] \notin Early => pc'[p] \notin Early
  BY <1>1
<1>3. \A p \in Questions : pc'[p] \in Busy => p # q /\ pc'[p] = pc[p]
  BY <1>1
<1>4. Homes'
  <2>1. ASSUME NEW r \in Runners, NEW s \in Sessions, sessions'[r][s] # NoClient
        PROVE  Fits(sessions[r][s], r, s)' /\ sessions'[r][s] = sessions[r][s]
    <3>1. sessions'[r][s] = sessions[r][s] /\ sessions[r][s] \in Questions
      BY <2>1 DEF IInv, TypeOK
    <3>2. QED
      BY <1>2, <2>1, <3>1 DEF IInv, Homes, Fits, RunnerOf
  <2>2. ASSUME NEW p \in Questions, client'[p] # NoClient
        PROVE  Fits(client[p], RunnerOf(p), SessionOf[p])' /\ pc'[p] \notin Early
    BY <1>2, <2>2 DEF IInv, TypeOK, Homes, Fits, RunnerOf
  <2>3. ASSUME NEW p \in Questions, pc'[p] \in Busy PROVE client'[p] # NoClient
    BY <1>3, <2>3 DEF IInv, Homes
  <2>4. QED
    BY <2>1, <2>2, <2>3 DEF Homes, Fits, RunnerOf
<1>5. Asked'
  BY <1>3 DEF IInv, Asked, Busy
<1>6. Pending'
  BY <1>3 DEF IInv, Pending, Busy
<1>7. Awaited'
  <2>1. \A p \in Questions : pc[p] = "read" => pc'[p] = "read"
    BY <1>1 DEF Busy
  <2>2. QED
    BY <2>1 DEF IInv, Awaited
<1>8. QED
  BY <1>4, <1>5, <1>6, <1>7

(* A step of a question disturbs none of the others.                       *)
LEMMA OthersKept ==
    ASSUME IInv, NEW q \in Questions, NEW to \in Stages,
           pc' = [pc EXCEPT ![q] = to], pc[q] \notin {"new", "done"},
           pc[q] \in Late => to \in Late
    PROVE  /\ OneByOne'
           /\ /\ UNCHANGED answers /\ expired \subseteq expired'
              /\ \A p \in Questions : client[p] # NoClient => client'[p] = client[p]
              => Answered'
           /\ UNCHANGED send /\ to \notin {"compose", "deliver"} => Written'
<1>1. \A p \in Questions : pc'[p] = IF p = q THEN to ELSE pc[p]
  BY DEF IInv, TypeOK
<1>2. OneByOne'
  BY <1>1 DEF IInv, OneByOne, Questions
<1>3. ASSUME UNCHANGED answers, expired \subseteq expired',
             \A p \in Questions : client[p] # NoClient => client'[p] = client[p]
      PROVE  Answered'
  <2> SUFFICES ASSUME NEW a \in Questions, NEW b \in Questions, <<a, b>> \in answers
               PROVE  /\ pc'[a] \in Late
                      /\ a # b => client'[b] = client'[a] /\ client'[a] \in expired'
    BY <1>3 DEF Answered
  <2>1. pc[a] \in Late /\ (a # b => client[b] = client[a] /\ client[a] \in expired)
    BY DEF IInv, Answered
  <2>2. NoClient \notin expired
    BY TwinChatAssumption DEF IInv, TypeOK
  <2>3. QED
    BY <1>1, <1>3, <2>1, <2>2
<1>4. ASSUME UNCHANGED send, to \notin {"compose", "deliver"} PROVE Written'
  BY <1>1, <1>4 DEF IInv, Written, send, Looked, Remembered, BestOf
<1>5. QED
  BY <1>2, <1>3, <1>4

-----------------------------------------------------------------------------
(* The steps outside the sessions of the SDK.                              *)

LEMMA AskKeeps ==
    ASSUME IInv, NEW q \in Questions, Ask(q)
    PROVE  IInv'
<1> DEFINE to == IF q \in Chat THEN "connect" ELSE "route"
<1>1. /\ pc[q] = "new" /\ pc' = [pc EXCEPT ![q] = to]
      /\ UNCHANGED <<outcome, sdk, send, history>>
      /\ q \in Relayed => \A p \in Relayed : pc[p] \in {"new", "done"}
  BY DEF Ask, Move
<1>2. to \in Stages \ Busy /\ to \notin Late /\ to \notin {"compose", "deliver"}
  BY DEF Stages, Busy, Late
<1> HIDE DEF to
<1>3. TypeOK'
  BY <1>1, <1>2 DEF IInv, TypeOK, sdk, send
<1>4. Homes' /\ Asked' /\ Pending' /\ Awaited'
  BY <1>1, <1>2, ClientsKept DEF sdk, Busy, Early
<1>5. \A p \in Questions : pc'[p] = IF p = q THEN to ELSE pc[p]
  BY <1>1 DEF IInv, TypeOK
<1>6. OneByOne'
  BY <1>1, <1>5 DEF IInv, OneByOne, Questions
<1>7. Answered' /\ Written'
  BY <1>1, <1>2, <1>5 DEF IInv, Answered, Written, sdk, send, Late, Looked, Remembered, BestOf
<1>8. QED
  BY <1>3, <1>4, <1>6, <1>7 DEF IInv

(* Connect, Route, DirectAnswer and the end of a message not composed.     *)
LEMMA Passing ==
    ASSUME IInv, NEW q \in Questions, NEW to \in Stages \ Busy,
           pc' = [pc EXCEPT ![q] = to], outcome' \in [Questions -> Outcomes],
           pc[q] \notin Busy \cup {"new", "done", "close"},
           pc[q] \in Early \/ to \notin Early, pc[q] \in Late => to \in Late,
           to \notin {"compose", "deliver"}, UNCHANGED <<sdk, send, history>>
    PROVE  IInv'
<1>1. TypeOK'
  BY DEF IInv, TypeOK, sdk, send
<1>2. Homes' /\ Asked' /\ Pending' /\ Awaited'
  BY ClientsKept DEF sdk
<1>3. OneByOne' /\ Answered' /\ Written'
  BY OthersKept DEF sdk
<1>4. QED
  BY <1>1, <1>2, <1>3 DEF IInv

LEMMA ConnectKeeps ==
    ASSUME IInv, NEW q \in Questions, Connect(q)
    PROVE  IInv'
<1>1. /\ pc[q] = "connect" /\ UNCHANGED <<sdk, send, history>>
      /\ outcome' \in [Questions -> Outcomes]
      /\ \E to \in {"route", "close"} : pc' = [pc EXCEPT ![q] = to]
  BY DEF Connect, Move, End, IInv, TypeOK, Outcomes
<1>2. QED
  BY <1>1, Passing DEF Stages, Busy, Early, Late

LEMMA RouteKeeps ==
    ASSUME IInv, NEW q \in Questions, Route(q)
    PROVE  IInv'
<1>1. \/ End(q, "route", "skipped") \/ End(q, "route", "outward")
      \/ UNCHANGED outcome /\ (Move(q, "route", "enrich") \/ Move(q, "route", "run"))
  BY DEF Route
<1>2. /\ pc[q] = "route" /\ outcome' \in [Questions -> Outcomes]
      /\ \E to \in {"enrich", "run", "close"} : pc' = [pc EXCEPT ![q] = to]
  BY <1>1 DEF Move, End, IInv, TypeOK, Outcomes
<1>3. UNCHANGED <<sdk, send, history>>
  BY DEF Route
<1>4. QED
  BY <1>2, <1>3, Passing DEF Stages, Busy, Early, Late

LEMMA DirectAnswerKeeps ==
    ASSUME IInv, NEW q \in Questions, DirectAnswer(q)
    PROVE  IInv'
<1>1. /\ pc[q] = "direct" /\ UNCHANGED <<sdk, send, history>>
      /\ outcome' \in [Questions -> Outcomes] /\ pc' = [pc EXCEPT ![q] = "close"]
  BY DEF DirectAnswer, Move, End, IInv, TypeOK, Outcomes
<1>2. QED
  BY <1>1, Passing DEF Stages, Busy, Early, Late

(* The history holds as many turns as it may.                              *)
LEMMA LatestTyped ==
    ASSUME NEW turns \in Seq(Chat)
    PROVE  Latest(turns) \in Seq(Chat) /\ Len(Latest(turns)) <= MaxTurns
  BY TwinChatAssumption DEF Latest

LEMMA CloseKeeps ==
    ASSUME IInv, NEW q \in Questions, Close(q)
    PROVE  IInv'
<1>1. /\ pc[q] = "close" /\ pc' = [pc EXCEPT ![q] = "done"]
      /\ UNCHANGED <<outcome, open, idle, pipe, last, client, answers, expired, send>>
  BY DEF Close, Move
<1>2. /\ history' \in [Sessions -> Seq(Chat)]
      /\ \A s \in Sessions : Len(history'[s]) <= MaxTurns
  <2>1. CASE q \in Chat /\ outcome[q] \in Replied
    <3>1. history' = [history EXCEPT ![SessionOf[q]] = Latest(Append(history[SessionOf[q]], q))]
      BY <2>1 DEF Close
    <3>2. SessionOf[q] \in Sessions /\ Append(history[SessionOf[q]], q) \in Seq(Chat)
      BY <2>1, SessionsOfQuestions DEF IInv, TypeOK
    <3>3. QED
      BY <3>1, <3>2, LatestTyped DEF IInv, TypeOK
  <2>2. CASE ~(q \in Chat /\ outcome[q] \in Replied)
    BY <2>2 DEF Close, IInv, TypeOK
  <2>3. QED
    BY <2>1, <2>2
<1>3. /\ sessions' \in [Runners -> [Sessions -> Questions \cup {NoClient}]]
      /\ \A r \in Runners, s \in Sessions :
             sessions'[r][s] = sessions[r][s] \/ sessions'[r][s] = NoClient
  BY DEF Close, IInv, TypeOK, Runners
<1>4. TypeOK'
  BY <1>1, <1>2, <1>3 DEF IInv, TypeOK, Stages, send
<1>5. Homes' /\ Asked' /\ Pending' /\ Awaited'
  BY <1>1, <1>3, ClientsKept DEF Stages, Busy, Early
<1>6. OneByOne' /\ Answered' /\ Written'
  BY <1>1, OthersKept DEF Stages, Late
<1>7. QED
  BY <1>4, <1>5, <1>6 DEF IInv

LEMMA IdleKeeps ==
    ASSUME IInv, NEW c \in Questions, Idle(c)
    PROVE  IInv'
<1>1. UNCHANGED <<pc, outcome, sessions, open, pipe, last, client, answers, expired, send, history>>
      /\ idle' = idle \cup {c}
  BY DEF Idle, ask
<1>2. TypeOK'
  BY <1>1 DEF IInv, TypeOK, send
<1>3. Homes' /\ OneByOne' /\ Asked'
  BY <1>1 DEF IInv, Homes, Fits, RunnerOf, OneByOne, Asked
<1>4. Pending' /\ Awaited' /\ Answered'
  BY <1>1 DEF IInv, Pending, Awaited, Answered
<1>5. Written'
  BY <1>1 DEF IInv, Written, send, Looked, Remembered, BestOf
<1>6. QED
  BY <1>2, <1>3, <1>4, <1>5 DEF IInv

-----------------------------------------------------------------------------
(* SendAsOwnerSkill.                                                       *)

LEMMA LookUpKeeps ==
    ASSUME IInv, NEW q \in Questions, NEW room \in Rooms, LookUp(q, room)
    PROVE  IInv'
<1>1. PICK score \in Scores :
          /\ read' = [read EXCEPT ![q][room] = score]
          /\ best' = IF Beats(q, score) THEN [best EXCEPT ![q] = room] ELSE best
  BY DEF LookUp
<1>2. /\ room \in todo[q] /\ todo' = [todo EXCEPT ![q] = todo[q] \ {room}]
      /\ UNCHANGED <<pc, outcome, sessions, open, idle, pipe, last, client, answers, expired,
                     context, first, history>>
  BY DEF LookUp, ask, sdk
<1>3. TypeOK'
  BY <1>1, <1>2 DEF IInv, TypeOK
<1>4. Homes' /\ OneByOne' /\ Asked'
  BY <1>2 DEF IInv, Homes, Fits, RunnerOf, OneByOne, Asked
<1>5. Pending' /\ Awaited' /\ Answered'
  BY <1>2 DEF IInv, Pending, Awaited, Answered
<1>6. Remembered'
  BY <1>2 DEF IInv, Written, Remembered, BestOf
<1>7. ASSUME NEW p \in Questions, p # q PROVE BestOf(best[p], read[p], Rooms \ todo[p])'
  <2>1. best'[p] = best[p] /\ read'[p] = read[p] /\ todo'[p] = todo[p]
    BY <1>1, <1>2, <1>7 DEF IInv, TypeOK
  <2>2. BestOf(best[p], read[p], Rooms \ todo[p])
    BY DEF IInv, Written, Looked
  <2>3. QED
    BY <2>1, <2>2 DEF BestOf
<1>8. BestOf(best[q], read[q], Rooms \ todo[q])'
  <2> DEFINE S == Rooms \ todo[q]
  <2>1. /\ read'[q] = [read[q] EXCEPT ![room] = score] /\ read[q] \in [Rooms -> Scores]
        /\ Rooms \ todo'[q] = S \cup {room} /\ room \notin S /\ S \subseteq Rooms
        /\ best'[q] = IF Beats(q, score) THEN room ELSE best[q]
    BY <1>1, <1>2 DEF IInv, TypeOK
  <2>2. \A x \in S : read'[q][x] = read[q][x]
    BY <2>1
  <2>3. read'[q][room] = score /\ score \in Nat /\ \A x \in Rooms : read[q][x] \in Nat
    BY <2>1, TwinChatAssumption
  <2>4. BestOf(best[q], read[q], S)
    BY DEF IInv, Written, Looked
  <2>5. room # NoRoom
    BY TwinChatAssumption
  <2> HIDE DEF S
  <2>6. CASE best[q] = NoRoom
    BY <2>1, <2>2, <2>3, <2>4, <2>5, <2>6 DEF BestOf, Beats
  <2>7. CASE best[q] # NoRoom
    <3>1. best[q] \in S /\ \A x \in S : read[q][x] <= read[q][best[q]]
      BY <2>4, <2>7 DEF BestOf
    <3>2. read[q][best[q]] \in Nat /\ \A x \in S : read[q][x] \in Nat
      BY <2>1, <2>3, <3>1
    <3>3. CASE score > read[q][best[q]]
      BY <2>1, <2>2, <2>3, <2>5, <2>7, <3>1, <3>2, <3>3 DEF BestOf, Beats
    <3>4. CASE ~(score > read[q][best[q]])
      BY <2>1, <2>2, <2>3, <2>5, <2>7, <3>1, <3>2, <3>4 DEF BestOf, Beats
    <3>5. QED
      BY <3>3, <3>4
  <2>8. QED
    BY <2>6, <2>7
<1>9. Looked'
  BY <1>7, <1>8 DEF Looked
<1>10. QED
  BY <1>3, <1>4, <1>5, <1>6, <1>9 DEF IInv, Written

(* A new lookup has found no room yet.                                     *)
LEMMA NewLookUpIs ==
    ASSUME IInv, NEW q \in Questions, NewLookUp(q)
    PROVE  /\ todo' \in [Questions -> SUBSET Rooms]
           /\ read' \in [Questions -> [Rooms -> Scores]]
           /\ best' \in [Questions -> Rooms \cup {NoRoom}]
           /\ Looked'
<1>1. NoneFits \in [Rooms -> Scores]
  BY TwinChatAssumption DEF NoneFits
<1>2. /\ todo' = [todo EXCEPT ![q] = Rooms] /\ read' = [read EXCEPT ![q] = NoneFits]
      /\ best' = [best EXCEPT ![q] = NoRoom]
  BY DEF NewLookUp
<1>3. ASSUME NEW p \in Questions PROVE BestOf(best[p], read[p], Rooms \ todo[p])'
  <2>1. CASE p = q
    BY <1>2, <2>1 DEF BestOf, IInv, TypeOK
  <2>2. CASE p # q
    <3>1. best'[p] = best[p] /\ read'[p] = read[p] /\ todo'[p] = todo[p]
      BY <1>2, <2>2 DEF IInv, TypeOK
    <3>2. BestOf(best[p], read[p], Rooms \ todo[p])
      BY DEF IInv, Written, Looked
    <3>3. QED
      BY <3>1, <3>2 DEF BestOf
  <2>3. QED
    BY <2>1, <2>2
<1>4. QED
  BY <1>1, <1>2, <1>3 DEF IInv, TypeOK, Looked

LEMMA EnrichKeeps ==
    ASSUME IInv, NEW q \in Questions, Enrich(q)
    PROVE  IInv'
<1>1. PICK room \in {best[q], NoRoom} : context' = [context EXCEPT ![q] = room]
  BY DEF Enrich
<1>2. /\ pc[q] = "enrich" /\ pc' = [pc EXCEPT ![q] = "compose"] /\ todo[q] = {}
      /\ first' = [first EXCEPT ![q] = read[q]]
      /\ UNCHANGED <<outcome, sdk, history>>
  BY DEF Enrich, Move, LookedUp
<1>3. NewLookUp(q)
  BY DEF Enrich
<1>4. TypeOK'
  BY <1>1, <1>2, <1>3, NewLookUpIs DEF IInv, TypeOK, Stages, sdk
<1>5. Homes' /\ Asked' /\ Pending' /\ Awaited'
  BY <1>2, ClientsKept DEF Stages, Busy, Early, sdk
<1>6. OneByOne' /\ Answered'
  BY <1>2, OthersKept DEF Stages, Late, sdk
<1>7. Remembered'
  <2>1. \A p \in Questions : p # q =>
            pc'[p] = pc[p] /\ context'[p] = context[p] /\ first'[p] = first[p]
    BY <1>1, <1>2 DEF IInv, TypeOK
  <2>2. context'[q] = room /\ first'[q] = read[q] /\ Rooms \ todo[q] = Rooms
    BY <1>1, <1>2 DEF IInv, TypeOK
  <2>3. context'[q] # NoRoom => BestOf(context[q], first[q], Rooms)'
    BY <2>2 DEF IInv, Written, Looked, BestOf
  <2>4. ASSUME NEW p \in Questions, pc'[p] \in {"compose", "deliver"}, context'[p] # NoRoom
        PROVE  BestOf(context[p], first[p], Rooms)'
    BY <2>1, <2>3, <2>4 DEF IInv, Written, Remembered, BestOf
  <2>5. QED
    BY <2>4 DEF Remembered
<1>8. QED
  BY <1>3, <1>4, <1>5, <1>6, <1>7, NewLookUpIs DEF IInv, Written

(* What q has been told of rooms is forgotten when it is through with them. *)
LEMMA ForgetIs ==
    ASSUME IInv, NEW q \in Questions, Forget(q), pc' = [pc EXCEPT ![q] = "close"]
    PROVE  /\ context' \in [Questions -> Rooms \cup {NoRoom}]
           /\ first' \in [Questions -> [Rooms -> Scores]]
           /\ Remembered'
<1>1. NoneFits \in [Rooms -> Scores]
  BY TwinChatAssumption DEF NoneFits
<1>2. \A p \in Questions : p # q =>
          pc'[p] = pc[p] /\ context'[p] = context[p] /\ first'[p] = first[p]
  BY DEF IInv, TypeOK, Forget
<1>3. pc'[q] = "close"
  BY DEF IInv, TypeOK
<1>4. Remembered'
  BY <1>2, <1>3 DEF IInv, Written, Remembered, BestOf
<1>5. QED
  BY <1>1, <1>4 DEF IInv, TypeOK, Forget

LEMMA ComposeKeeps ==
    ASSUME IInv, NEW q \in Questions, Compose(q)
    PROVE  IInv'
<1>1. UNCHANGED <<sdk, look, history>> /\ pc[q] = "compose"
  BY DEF Compose, Move, End
<1>2. CASE Move(q, "compose", "deliver") /\ UNCHANGED <<outcome, context, first>>
  <2>1. pc' = [pc EXCEPT ![q] = "deliver"] /\ UNCHANGED <<outcome, context, first>>
    BY <1>2 DEF Move
  <2>2. TypeOK'
    BY <1>1, <2>1 DEF IInv, TypeOK, Stages, sdk, look
  <2>3. Homes' /\ Asked' /\ Pending' /\ Awaited'
    BY <1>1, <2>1, ClientsKept DEF Stages, Busy, Early, sdk
  <2>4. OneByOne' /\ Answered'
    BY <1>1, <2>1, OthersKept DEF Stages, Late, sdk
  <2>5. Written'
    <3>1. \A p \in Questions : pc'[p] = IF p = q THEN "deliver" ELSE pc[p]
      BY <2>1 DEF IInv, TypeOK
    <3>2. Remembered'
      BY <1>1, <2>1, <3>1 DEF IInv, Written, Remembered, BestOf
    <3>3. Looked'
      BY <1>1 DEF IInv, Written, Looked, BestOf, look
    <3>4. QED
      BY <3>2, <3>3 DEF Written
  <2>6. QED
    BY <2>2, <2>3, <2>4, <2>5 DEF IInv
<1>3. CASE (\E result \in {"empty", "error"} : End(q, "compose", result)) /\ Forget(q)
  <2>1. pc' = [pc EXCEPT ![q] = "close"] /\ outcome' \in [Questions -> Outcomes]
    BY <1>3 DEF End, Move, IInv, TypeOK, Outcomes
  <2>2. TypeOK'
    BY <1>1, <1>3, <2>1, ForgetIs DEF IInv, TypeOK, Stages, sdk, look
  <2>3. Homes' /\ Asked' /\ Pending' /\ Awaited'
    BY <1>1, <2>1, ClientsKept DEF Stages, Busy, Early, sdk
  <2>4. OneByOne' /\ Answered'
    BY <1>1, <2>1, OthersKept DEF Stages, Late, sdk
  <2>5. Looked'
    BY <1>1 DEF IInv, Written, Looked, BestOf, look
  <2>6. QED
    BY <1>3, <2>1, <2>2, <2>3, <2>4, <2>5, ForgetIs DEF IInv, Written
<1>4. QED
  BY <1>2, <1>3 DEF Compose

LEMMA DeliverKeeps ==
    ASSUME IInv, NEW q \in Questions, Deliver(q)
    PROVE  IInv'
<1>1. \E result \in {"sent", "not_sent"} : End(q, "deliver", result)
  BY DEF Deliver
<1>2. /\ pc[q] = "deliver" /\ pc' = [pc EXCEPT ![q] = "close"]
      /\ outcome' \in [Questions -> Outcomes]
  BY <1>1 DEF End, Move, IInv, TypeOK, Outcomes
<1>3. UNCHANGED <<sdk, history>> /\ Forget(q) /\ NewLookUp(q)
  BY DEF Deliver
<1>4. TypeOK'
  BY <1>2, <1>3, ForgetIs, NewLookUpIs DEF IInv, TypeOK, Stages, sdk
<1>5. Homes' /\ Asked' /\ Pending' /\ Awaited'
  BY <1>2, <1>3, ClientsKept DEF Stages, Busy, Early, sdk
<1>6. OneByOne' /\ Answered'
  BY <1>2, <1>3, OthersKept DEF Stages, Late, sdk
<1>7. QED
  BY <1>2, <1>3, <1>4, <1>5, <1>6, ForgetIs, NewLookUpIs DEF IInv, Written

-----------------------------------------------------------------------------
(* InwardQuerySkill and SDKAgentRunner.                                    *)

(* What Session and Connected have in common: q comes to use the client c, *)
(* which has no answer to be read unless a query timed out on it.          *)
LEMMA Takes ==
    ASSUME IInv, NEW q \in Questions, NEW c \in Questions,
           pc[q] \in {"run", "opening"}, pc' = [pc EXCEPT ![q] = "query"],
           client' = [client EXCEPT ![q] = c],
           Fits(c, RunnerOf(q), SessionOf[q]) \/ c = q,
           c \notin expired => pipe[c] = <<>>,
           \A r \in Runners, s \in Sessions : \/ sessions'[r][s] = sessions[r][s]
                                              \/ sessions'[r][s] = NoClient
                                              \/ /\ sessions'[r][s] = q /\ c = q
                                                 /\ r = RunnerOf(q) /\ s = SessionOf[q],
           UNCHANGED <<pipe, last, answers, expired, send>>
    PROVE  /\ Homes' /\ OneByOne' /\ Asked' /\ Pending' /\ Awaited'
           /\ Answered' /\ Written'
<1>0. \A p \in Questions : pc'[p] = IF p = q THEN "query" ELSE pc[p]
  BY DEF IInv, TypeOK
<1>1. \A p \in Questions : client'[p] = IF p = q THEN c ELSE client[p]
  BY DEF IInv, TypeOK
<1>2. client[q] = NoClient /\ c # NoClient /\ NoClient \notin Questions
  BY TwinChatAssumption DEF IInv, Homes, Early
<1>3. \A p \in Questions : pc[p] \notin Early => pc'[p] \notin Early
  BY <1>0, <1>1 DEF Early
<1>4. Fits(c, RunnerOf(q), SessionOf[q])'
  BY <1>0, <1>1, <1>3 DEF Fits, RunnerOf, Early
<1>5. Homes'
  <2>1. ASSUME NEW r \in Runners, NEW s \in Sessions, sessions'[r][s] # NoClient
        PROVE  Fits(sessions[r][s], r, s)'
    <3>1. CASE sessions'[r][s] = sessions[r][s]
      <4>1. sessions[r][s] \in Questions /\ Fits(sessions[r][s], r, s)
        BY <2>1, <3>1 DEF IInv, TypeOK, Homes
      <4>2. QED
        BY <1>3, <3>1, <4>1 DEF Fits, RunnerOf
    <3>2. CASE sessions'[r][s] = q /\ c = q /\ r = RunnerOf(q) /\ s = SessionOf[q]
      BY <1>4, <3>2 DEF Fits, RunnerOf
    <3>3. QED
      BY <2>1, <3>1, <3>2
  <2>2. ASSUME NEW p \in Questions, client'[p] # NoClient
        PROVE  Fits(client[p], RunnerOf(p), SessionOf[p])' /\ pc'[p] \notin Early
    <3>1. CASE p = q
      BY <1>0, <1>1, <1>4, <3>1 DEF Fits, RunnerOf, Early
    <3>2. CASE p # q
      <4>1. client'[p] = client[p] /\ client[p] \in Questions /\ pc[p] \notin Early
            /\ Fits(client[p], RunnerOf(p), SessionOf[p])
        BY <1>0, <1>1, <2>2, <3>2 DEF IInv, TypeOK, Homes
      <4>2. QED
        BY <1>3, <4>1 DEF Fits, RunnerOf
    <3>3. QED
      BY <3>1, <3>2
  <2>3. ASSUME NEW p \in Questions, pc'[p] \in Busy PROVE client'[p] # NoClient
    BY <1>0, <1>1, <1>2, <2>3 DEF IInv, Homes
  <2>4. QED
    BY <2>1, <2>2, <2>3 DEF Homes, Fits, RunnerOf
<1>6. OneByOne' /\ Answered' /\ Written'
  <2>1. \A p \in Questions : client[p] # NoClient => client'[p] = client[p]
    BY <1>0, <1>1, <1>2
  <2>2. QED
    BY <2>1, OthersKept DEF Stages, Late
<1>7. Asked'
  <2>1. ASSUME NEW d \in Questions, NEW i \in DOMAIN pipe[d]
        PROVE  client'[pipe[d][i]] = d
    <3>1. pipe[d][i] \in Questions /\ client[pipe[d][i]] = d
      BY DEF IInv, TypeOK, Asked
    <3>2. QED
      BY <1>0, <1>1, <1>2, <3>1
  <2>2. ASSUME NEW d \in Questions, last[d] # NoClient PROVE client'[last[d]] = d
    <3>1. last[d] \in Questions /\ client[last[d]] = d
      BY <2>2 DEF IInv, TypeOK, Asked
    <3>2. QED
      BY <1>0, <1>1, <1>2, <3>1
  <2>3. ASSUME NEW d \in Questions, pc'[d] = "collect" PROVE last[client'[d]] # NoClient
    BY <1>0, <1>1, <2>3 DEF IInv, Asked
  <2>4. QED
    BY <2>1, <2>2, <2>3 DEF Asked
<1>8. Pending'
  BY <1>0, <1>1 DEF IInv, Pending
<1>9. Awaited'
  <2> SUFFICES ASSUME NEW r \in Runners, NEW s \in Sessions, sessions'[r][s] # NoClient,
                      sessions'[r][s] \notin expired, pipe[sessions'[r][s]] # <<>>
               PROVE  \E p \in Questions : pc'[p] = "read" /\ client'[p] = sessions'[r][s]
    BY DEF Awaited
  <2>1. sessions'[r][s] = sessions[r][s]
    OBVIOUS
  <2>2. PICK p \in Questions : pc[p] = "read" /\ client[p] = sessions[r][s]
    BY <2>1 DEF IInv, Awaited
  <2>3. QED
    BY <1>0, <1>1, <2>1, <2>2
<1>10. QED
  BY <1>5, <1>6, <1>7, <1>8, <1>9

LEMMA SessionKeeps ==
    ASSUME IInv, NEW q \in Questions, Session(q)
    PROVE  IInv'
<1> DEFINE r == RunnerOf(q)
           c == Kept(r)[SessionOf[q]]
<1>1. r \in Runners /\ SessionOf[q] \in Sessions
  BY SessionsOfQuestions
<1>2. /\ sessions' = [sessions EXCEPT ![r] = Kept(r)] /\ open' = open \ Stale(r)
      /\ UNCHANGED <<outcome, idle, pipe, last, answers, expired, send, history>>
      /\ pc[q] = "run"
  BY DEF Session, Move
<1>3. Kept(r) \in [Sessions -> Questions \cup {NoClient}]
  BY <1>1 DEF Kept, IInv, TypeOK
<1>4. \A x \in Runners, s \in Sessions :
         /\ sessions'[x][s] = sessions[x][s] \/ sessions'[x][s] = NoClient
         /\ sessions'[x][s] \in open' \cup {NoClient}
  <2>1. ASSUME NEW x \in Runners, NEW s \in Sessions
        PROVE  /\ sessions'[x][s] = sessions[x][s] \/ sessions'[x][s] = NoClient
               /\ sessions'[x][s] \in open' \cup {NoClient}
    <3>1. sessions[x][s] \in open \cup {NoClient} /\ sessions[x][s] \in Questions \cup {NoClient}
      BY DEF IInv, TypeOK
    <3>2. CASE x = r
      <4>1. sessions'[x][s] = IF sessions[r][s] \in idle THEN NoClient ELSE sessions[r][s]
        BY <1>1, <1>2, <1>3, <3>2 DEF Kept, IInv, TypeOK
      <4>2. sessions[r][s] \notin idle => sessions[r][s] \notin Stale(r)
        BY DEF Stale
      <4>3. QED
        BY <1>2, <3>1, <3>2, <4>1, <4>2
    <3>3. CASE x # r
      <4>1. sessions'[x][s] = sessions[x][s]
        BY <1>1, <1>2, <3>3 DEF IInv, TypeOK
      <4>2. ASSUME sessions[x][s] \in Stale(r) PROVE sessions[x][s] = NoClient
        <5>1. PICK t \in Sessions : sessions[x][s] = sessions[r][t]
          BY <4>2 DEF Stale
        <5>2. QED
          BY <1>1, <3>3, <5>1 DEF IInv, Homes, Fits
      <4>3. QED
        BY <1>2, <3>1, <4>1, <4>2
    <3>4. QED
      BY <3>2, <3>3
  <2>2. QED
    BY <2>1
<1>5. sessions' \in [Runners -> [Sessions -> Questions \cup {NoClient}]]
      /\ open' \subseteq Questions
  BY <1>1, <1>2, <1>3 DEF IInv, TypeOK
<1>6. CASE c # NoClient
  <2>1. pc' = [pc EXCEPT ![q] = "query"] /\ client' = [client EXCEPT ![q] = c]
    BY <1>6 DEF Session, Move
  <2>2. c = sessions[r][SessionOf[q]] /\ c \in Questions
    BY <1>1, <1>3, <1>6 DEF Kept
  <2>3. Fits(c, r, SessionOf[q])
    BY <1>1, <1>6, <2>2 DEF IInv, Homes
  <2>4. ASSUME c \notin expired, pipe[c] # <<>> PROVE FALSE
    <3>1. PICK p \in Questions : pc[p] = "read" /\ client[p] = c
      BY <1>1, <1>6, <2>2, <2>4 DEF IInv, Awaited
    <3>2. RunnerOf(p) = r /\ p # q
      BY <1>2, <1>6, <2>3, <3>1, Owned DEF Fits
    <3>3. p \in Relayed /\ q \in Relayed
      BY <3>2, TwinChatAssumption DEF RunnerOf, Questions
    <3>4. QED
      BY <1>2, <3>1, <3>2, <3>3 DEF IInv, OneByOne
  <2>5. TypeOK'
    BY <1>2, <1>4, <1>5, <2>1, <2>2 DEF IInv, TypeOK, Stages, send
  <2> HIDE DEF c
  <2>6. /\ Homes' /\ OneByOne' /\ Asked' /\ Pending' /\ Awaited'
        /\ Answered' /\ Written'
    <3>1. c \in Questions /\ pc[q] \in {"run", "opening"}
      BY <1>2, <2>2
    <3>2. c \notin expired => pipe[c] = <<>>
      BY <2>4
    <3>3. \A x \in Runners, s \in Sessions :
             \/ sessions'[x][s] = sessions[x][s]
             \/ sessions'[x][s] = NoClient
             \/ sessions'[x][s] = q /\ c = q /\ x = RunnerOf(q) /\ s = SessionOf[q]
      BY <1>4
    <3>4. UNCHANGED <<pipe, last, answers, expired, send>>
      BY <1>2
    <3>5. Fits(c, RunnerOf(q), SessionOf[q]) \/ c = q
      BY <2>3
    <3>6. QED
      BY <2>1, <3>1, <3>2, <3>3, <3>4, <3>5, Takes
  <2>7. QED
    BY <2>5, <2>6 DEF IInv
<1>7. CASE c = NoClient
  <2>1. pc' = [pc EXCEPT ![q] = "opening"] /\ UNCHANGED client
    BY <1>7 DEF Session, Move
  <2>2. TypeOK'
    BY <1>2, <1>4, <1>5, <2>1 DEF IInv, TypeOK, Stages, send
  <2>3. Homes' /\ Asked' /\ Pending' /\ Awaited'
    BY <1>2, <1>4, <2>1, ClientsKept DEF Stages, Busy, Early
  <2>4. OneByOne' /\ Answered' /\ Written'
    BY <1>2, <2>1, OthersKept DEF Stages, Late
  <2>5. QED
    BY <2>2, <2>3, <2>4 DEF IInv
<1>8. QED
  BY <1>6, <1>7

LEMMA ConnectedKeeps ==
    ASSUME IInv, NEW q \in Questions, Connected(q)
    PROVE  IInv'
<1>1. /\ pc[q] = "opening" /\ pc' = [pc EXCEPT ![q] = "query"]
      /\ sessions' = [sessions EXCEPT ![RunnerOf(q)][SessionOf[q]] = q]
      /\ open' = open \cup {q} /\ client' = [client EXCEPT ![q] = q]
      /\ UNCHANGED <<outcome, idle, pipe, last, answers, expired, send, history>>
  BY DEF Connected, Move
<1>2. RunnerOf(q) \in Runners /\ SessionOf[q] \in Sessions
  BY SessionsOfQuestions
<1>3. \A x \in Runners, s \in Sessions :
         sessions'[x][s] = IF x = RunnerOf(q) /\ s = SessionOf[q] THEN q ELSE sessions[x][s]
  BY <1>1, <1>2 DEF IInv, TypeOK
<1>4. TypeOK'
  <2>1. sessions' \in [Runners -> [Sessions -> Questions \cup {NoClient}]]
    BY <1>1, <1>2 DEF IInv, TypeOK
  <2>2. \A x \in Runners, s \in Sessions : sessions'[x][s] \in open' \cup {NoClient}
    BY <1>1, <1>3 DEF IInv, TypeOK
  <2>3. QED
    BY <1>1, <2>1, <2>2 DEF IInv, TypeOK, Stages, send
<1>5. pipe[q] = <<>>
  <2>1. SUFFICES ASSUME pipe[q] # <<>> PROVE FALSE
    OBVIOUS
  <2>2. pipe[q][1] \in Questions /\ client[pipe[q][1]] = q
    BY <2>1 DEF IInv, TypeOK, Asked
  <2>3. pc[q] \notin Early
    BY <2>2, TwinChatAssumption DEF IInv, Homes, Fits
  <2>4. QED
    BY <1>1, <2>3 DEF Early
<1>6. /\ Homes' /\ OneByOne' /\ Asked' /\ Pending' /\ Awaited'
      /\ Answered' /\ Written'
  <2>1. pc[q] \in {"run", "opening"} /\ (q \notin expired => pipe[q] = <<>>)
    BY <1>1, <1>5
  <2>2. \A x \in Runners, s \in Sessions :
           \/ sessions'[x][s] = sessions[x][s]
           \/ sessions'[x][s] = NoClient
           \/ sessions'[x][s] = q /\ q = q /\ x = RunnerOf(q) /\ s = SessionOf[q]
    BY <1>3
  <2>3. UNCHANGED <<pipe, last, answers, expired, send>>
    BY <1>1
  <2>4. Fits(q, RunnerOf(q), SessionOf[q]) \/ q = q
    OBVIOUS
  <2>5. QED
    BY <1>1, <2>1, <2>2, <2>3, <2>4, Takes
<1>7. QED
  BY <1>4, <1>6 DEF IInv

(* A step of a question that has its client leaves every client with its   *)
(* runner and its session.                                                 *)
LEMMA HomesKept ==
    ASSUME IInv, NEW q \in Questions, NEW to \in Stages \ Early,
           pc' = [pc EXCEPT ![q] = to], pc[q] \in Busy, UNCHANGED client,
           \A r \in Runners, s \in Sessions :
               sessions'[r][s] = sessions[r][s] \/ sessions'[r][s] = NoClient
    PROVE  Homes'
<1>1. \A p \in Questions : pc'[p] = IF p = q THEN to ELSE pc[p]
  BY DEF IInv, TypeOK
<1>2. \A p \in Questions : pc[p] \notin Early => pc'[p] \notin Early
  BY <1>1
<1>3. ASSUME NEW r \in Runners, NEW s \in Sessions, sessions'[r][s] # NoClient
      PROVE  Fits(sessions[r][s], r, s)'
  <2>1. /\ sessions'[r][s] = sessions[r][s] /\ sessions[r][s] \in Questions
        /\ Fits(sessions[r][s], r, s)
    BY <1>3 DEF IInv, TypeOK, Homes
  <2>2. QED
    BY <1>2, <2>1 DEF Fits, RunnerOf
<1>4. ASSUME NEW p \in Questions, client'[p] # NoClient
      PROVE  Fits(client[p], RunnerOf(p), SessionOf[p])' /\ pc'[p] \notin Early
  BY <1>2, <1>4 DEF IInv, TypeOK, Homes, Fits, RunnerOf
<1>5. ASSUME NEW p \in Questions, pc'[p] \in Busy PROVE client'[p] # NoClient
  BY <1>1, <1>5 DEF IInv, Homes
<1>6. QED
  BY <1>3, <1>4, <1>5 DEF Homes, Fits, RunnerOf

LEMMA QueryKeeps ==
    ASSUME IInv, NEW q \in Questions, Query(q)
    PROVE  IInv'
<1> DEFINE c == client[q]
<1>1. /\ pc[q] = "query" /\ pc' = [pc EXCEPT ![q] = "read"]
      /\ pipe' = [pipe EXCEPT ![c] = Append(pipe[c], q)]
      /\ UNCHANGED <<outcome, sessions, open, idle, last, client, answers, expired, send, history>>
  BY DEF Query, Move
<1>2. c \in Questions /\ c # NoClient /\ RunnerOf(c) = RunnerOf(q)
  BY <1>1, Owned DEF IInv, Homes, Busy
<1>3. \A p \in Questions : pc'[p] = IF p = q THEN "read" ELSE pc[p]
  BY <1>1 DEF IInv, TypeOK
<1>4. \A d \in Questions : pipe'[d] = IF d = c THEN Append(pipe[c], q) ELSE pipe[d]
  BY <1>1, <1>2 DEF IInv, TypeOK
<1>5. pipe[c] \in Seq(Questions)
  BY <1>2 DEF IInv, TypeOK
<1>6. TypeOK'
  <2>1. pipe' \in [Questions -> Seq(Questions)]
    BY <1>1, <1>2, <1>5 DEF IInv, TypeOK
  <2>2. QED
    BY <1>1, <2>1 DEF IInv, TypeOK, Stages, send
<1>7. Homes'
  BY <1>1, HomesKept DEF Stages, Early, Busy
<1>8. OneByOne' /\ Answered' /\ Written'
  BY <1>1, OthersKept DEF Stages, Late
<1>9. Asked'
  <2>1. ASSUME NEW d \in Questions, NEW i \in DOMAIN pipe'[d]
        PROVE  client'[pipe'[d][i]] = d
    <3>1. CASE d # c
      BY <1>1, <1>4, <2>1, <3>1 DEF IInv, Asked
    <3>2. CASE d = c
      <4>1. pipe'[d] = Append(pipe[c], q)
        BY <1>2, <1>4, <3>2
      <4>2. (i \in DOMAIN pipe[c] /\ pipe'[d][i] = pipe[c][i]) \/ pipe'[d][i] = q
        BY <1>5, <2>1, <4>1
      <4>3. QED
        BY <1>1, <1>2, <3>2, <4>2 DEF IInv, Asked
    <3>3. QED
      BY <3>1, <3>2
  <2>2. ASSUME NEW d \in Questions, last'[d] # NoClient PROVE client'[last'[d]] = d
    BY <1>1, <2>2 DEF IInv, Asked
  <2>3. ASSUME NEW d \in Questions, pc'[d] = "collect" PROVE last'[client'[d]] # NoClient
    BY <1>1, <1>3, <2>3 DEF IInv, Asked
  <2>4. QED
    BY <2>1, <2>2, <2>3 DEF Asked
<1>10. Pending'
  <2> SUFFICES ASSUME NEW p \in Questions, client[p] \notin expired
               PROVE  /\ pc'[p] = "query" => pipe'[client[p]] = <<>>
                      /\ pc'[p] = "read" => pipe'[client[p]] = <<p>>
                      /\ pc'[p] = "collect" => pipe'[client[p]] = <<>> /\ last[client[p]] = p
    BY <1>1 DEF Pending
  <2>1. CASE p = q
    <3>1. pipe[c] = <<>>
      BY <1>1, <2>1 DEF IInv, Pending
    <3>2. pipe'[c] = <<q>>
      BY <1>2, <1>4, <3>1
    <3>3. QED
      BY <1>3, <2>1, <3>2
  <2>2. CASE p # q /\ pc[p] \in Busy
    <3>1. client[p] \in Questions /\ client[p] # c
      BY <1>1, <2>2, Alone, Owned DEF Busy, IInv, Homes
    <3>2. pipe'[client[p]] = pipe[client[p]] /\ pc'[p] = pc[p]
      BY <1>3, <1>4, <2>2, <3>1
    <3>3. QED
      BY <3>2 DEF IInv, Pending
  <2>3. CASE p # q /\ pc[p] \notin Busy
    BY <1>3, <2>3 DEF Busy
  <2>4. QED
    BY <2>1, <2>2, <2>3
<1>11. Awaited'
  <2> SUFFICES ASSUME NEW r \in Runners, NEW s \in Sessions, sessions[r][s] # NoClient,
                      sessions[r][s] \notin expired, pipe'[sessions[r][s]] # <<>>
               PROVE  \E p \in Questions : pc'[p] = "read" /\ client[p] = sessions[r][s]
    BY <1>1 DEF Awaited
  <2>1. CASE sessions[r][s] = c
    BY <1>3, <2>1
  <2>2. CASE sessions[r][s] # c
    <3>1. sessions[r][s] \in Questions /\ pipe[sessions[r][s]] # <<>>
      BY <1>4, <2>2 DEF IInv, TypeOK
    <3>2. PICK p \in Questions : pc[p] = "read" /\ client[p] = sessions[r][s]
      BY <3>1 DEF IInv, Awaited
    <3>3. QED
      BY <1>3, <3>2
  <2>3. QED
    BY <2>1, <2>2
<1>12. QED
  BY <1>6, <1>7, <1>8, <1>9, <1>10, <1>11 DEF IInv

LEMMA TailOf ==
    ASSUME NEW s \in Seq(Questions), s # <<>>
    PROVE  \A i \in DOMAIN Tail(s) : i + 1 \in DOMAIN s /\ Tail(s)[i] = s[i + 1]
<1>1. /\ Len(s) \in Nat \ {0} /\ DOMAIN s = 1..Len(s)
      /\ Len(Tail(s)) = Len(s) - 1 /\ DOMAIN Tail(s) = 1..(Len(s) - 1)
  OBVIOUS
<1>2. ASSUME NEW i \in 1..(Len(s) - 1) PROVE i + 1 \in 1..Len(s) /\ Tail(s)[i] = s[i + 1]
  BY <1>1
<1>3. QED
  BY <1>1, <1>2

LEMMA TailOfOne ==
    ASSUME NEW q \in Questions
    PROVE  Tail(<<q>>) = <<>> /\ <<q>>[1] = q
<1>1. <<q>> \in Seq(Questions) /\ Len(<<q>>) = 1 /\ <<q>>[1] = q
  OBVIOUS
<1>2. Tail(<<q>>) \in Seq(Questions) /\ Len(Tail(<<q>>)) = 0
  BY <1>1
<1>3. QED
  BY <1>1, <1>2

LEMMA ReadKeeps ==
    ASSUME IInv, NEW q \in Questions, Read(q)
    PROVE  IInv'
<1> DEFINE c == client[q]
<1>1. /\ pc[q] = "read" /\ pc' = [pc EXCEPT ![q] = "collect"] /\ pipe[c] # <<>>
      /\ last' = [last EXCEPT ![c] = Head(pipe[c])]
      /\ pipe' = [pipe EXCEPT ![c] = Tail(pipe[c])]
      /\ UNCHANGED <<outcome, sessions, open, idle, client, answers, expired, send, history>>
  BY DEF Read, Move
<1>2. c \in Questions /\ c # NoClient
  BY <1>1, Owned DEF IInv, Homes, Busy
<1>3. \A p \in Questions : pc'[p] = IF p = q THEN "collect" ELSE pc[p]
  BY <1>1 DEF IInv, TypeOK
<1>4. \A d \in Questions : pipe'[d] = IF d = c THEN Tail(pipe[c]) ELSE pipe[d]
  BY <1>1, <1>2 DEF IInv, TypeOK
<1>5. \A d \in Questions : last'[d] = IF d = c THEN pipe[c][1] ELSE last[d]
  BY <1>1, <1>2 DEF IInv, TypeOK
<1>6. pipe[c] \in Seq(Questions) /\ pipe[c][1] \in Questions /\ client[pipe[c][1]] = c
  BY <1>1, <1>2 DEF IInv, TypeOK, Asked
<1>7. TypeOK'
  <2>1. pipe' \in [Questions -> Seq(Questions)]
    BY <1>1, <1>2, <1>6 DEF IInv, TypeOK
  <2>2. last' \in [Questions -> Questions \cup {NoClient}]
    BY <1>1, <1>2, <1>6 DEF IInv, TypeOK
  <2>3. QED
    BY <1>1, <2>1, <2>2 DEF IInv, TypeOK, Stages, send
<1>8. Homes'
  BY <1>1, HomesKept DEF Stages, Early, Busy
<1>9. OneByOne' /\ Answered' /\ Written'
  BY <1>1, OthersKept DEF Stages, Late
<1>10. Asked'
  <2>1. ASSUME NEW d \in Questions, NEW i \in DOMAIN pipe'[d]
        PROVE  client'[pipe'[d][i]] = d
    <3>1. CASE d # c
      BY <1>1, <1>4, <2>1, <3>1 DEF IInv, Asked
    <3>2. CASE d = c
      <4>1. pipe'[d] = Tail(pipe[c])
        BY <1>2, <1>4, <3>2
      <4>2. i + 1 \in DOMAIN pipe[c] /\ pipe'[d][i] = pipe[c][i + 1]
        BY <1>1, <1>6, <2>1, <4>1, TailOf
      <4>3. QED
        BY <1>1, <1>2, <3>2, <4>2 DEF IInv, Asked
    <3>3. QED
      BY <3>1, <3>2
  <2>2. ASSUME NEW d \in Questions, last'[d] # NoClient PROVE client'[last'[d]] = d
    BY <1>1, <1>5, <1>6, <2>2 DEF IInv, Asked
  <2>3. ASSUME NEW d \in Questions, pc'[d] = "collect" PROVE last'[client'[d]] # NoClient
    <3>1. NoClient \notin Questions
      BY TwinChatAssumption
    <3>2. CASE client[d] = c
      BY <1>1, <1>2, <1>5, <1>6, <3>1, <3>2
    <3>3. CASE client[d] # c
      <4>1. pc[d] = "collect"
        BY <1>3, <2>3, <3>3
      <4>2. client[d] \in Questions
        BY <4>1, Owned DEF IInv, Homes, Busy
      <4>3. QED
        BY <1>1, <1>5, <3>3, <4>1, <4>2 DEF IInv, Asked
    <3>4. QED
      BY <3>2, <3>3
  <2>4. QED
    BY <2>1, <2>2, <2>3 DEF Asked
<1>11. ASSUME c \notin expired PROVE pipe'[c] = <<>> /\ last'[c] = q
  <2>1. pipe[c] = <<q>>
    BY <1>1, <1>11 DEF IInv, Pending
  <2>2. pipe'[c] = Tail(<<q>>)
    BY <1>2, <1>4, <2>1
  <2>3. last'[c] = <<q>>[1]
    BY <1>2, <1>5, <2>1
  <2>4. QED
    BY <2>2, <2>3, TailOfOne
<1>12. Pending'
  <2> SUFFICES ASSUME NEW p \in Questions, client[p] \notin expired
               PROVE  /\ pc'[p] = "query" => pipe'[client[p]] = <<>>
                      /\ pc'[p] = "read" => pipe'[client[p]] = <<p>>
                      /\ pc'[p] = "collect" => pipe'[client[p]] = <<>> /\ last'[client[p]] = p
    BY <1>1 DEF Pending
  <2>1. CASE p = q
    BY <1>3, <1>11, <2>1
  <2>2. CASE p # q /\ pc[p] \in Busy
    <3>1. client[p] \in Questions /\ client[p] # c
      BY <1>1, <2>2, Alone, Owned DEF Busy, IInv, Homes
    <3>2. pipe'[client[p]] = pipe[client[p]] /\ pc'[p] = pc[p] /\ last'[client[p]] = last[client[p]]
      BY <1>3, <1>4, <1>5, <2>2, <3>1
    <3>3. QED
      BY <3>2 DEF IInv, Pending
  <2>3. CASE p # q /\ pc[p] \notin Busy
    BY <1>3, <2>3 DEF Busy
  <2>4. QED
    BY <2>1, <2>2, <2>3
<1>13. Awaited'
  <2> SUFFICES ASSUME NEW r \in Runners, NEW s \in Sessions, sessions[r][s] # NoClient,
                      sessions[r][s] \notin expired, pipe'[sessions[r][s]] # <<>>
               PROVE  \E p \in Questions : pc'[p] = "read" /\ client[p] = sessions[r][s]
    BY <1>1 DEF Awaited
  <2>1. sessions[r][s] # c
    BY <1>11
  <2>2. sessions[r][s] \in Questions /\ pipe[sessions[r][s]] # <<>>
    BY <1>4, <2>1 DEF IInv, TypeOK
  <2>3. PICK p \in Questions : pc[p] = "read" /\ client[p] = sessions[r][s]
    BY <2>2 DEF IInv, Awaited
  <2>4. QED
    BY <1>3, <2>1, <2>3
<1>14. QED
  BY <1>7, <1>8, <1>9, <1>10, <1>12, <1>13 DEF IInv

(* A question that stops using its client: its answer was read, or will    *)
(* not be.                                                                 *)
LEMMA Leaves ==
    ASSUME IInv, NEW q \in Questions, NEW to \in Late,
           pc' = [pc EXCEPT ![q] = to], pc[q] \in Busy,
           \A r \in Runners, s \in Sessions :
               sessions'[r][s] = sessions[r][s] \/ sessions'[r][s] = NoClient,
           UNCHANGED <<pipe, last, client>>, expired \subseteq expired',
           pc[q] = "read" => \/ client[q] \in expired'
                             \/ \A r \in Runners, s \in Sessions : sessions'[r][s] # client[q]
    PROVE  Homes' /\ Asked' /\ Pending' /\ Awaited'
<1>1. \A p \in Questions : pc'[p] = IF p = q THEN to ELSE pc[p]
  BY DEF IInv, TypeOK
<1>2. \A p \in Questions : pc'[p] \in Busy => p # q /\ pc'[p] = pc[p]
  BY <1>1 DEF Busy, Late
<1>3. Homes'
  BY HomesKept DEF Stages, Early, Late
<1>4. Asked'
  BY <1>2 DEF IInv, Asked, Busy
<1>5. Pending'
  <2> SUFFICES ASSUME NEW p \in Questions, client[p] \notin expired'
               PROVE  /\ pc'[p] = "query" => pipe[client[p]] = <<>>
                      /\ pc'[p] = "read" => pipe[client[p]] = <<p>>
                      /\ pc'[p] = "collect" => pipe[client[p]] = <<>> /\ last[client[p]] = p
    BY DEF Pending
  <2>1. client[p] \notin expired
    OBVIOUS
  <2>2. QED
    BY <1>2, <2>1 DEF IInv, Pending, Busy
<1>6. Awaited'
  <2> SUFFICES ASSUME NEW r \in Runners, NEW s \in Sessions, sessions'[r][s] # NoClient,
                      sessions'[r][s] \notin expired', pipe[sessions'[r][s]] # <<>>
               PROVE  \E p \in Questions : pc'[p] = "read" /\ client[p] = sessions'[r][s]
    BY DEF Awaited
  <2>1. sessions'[r][s] = sessions[r][s] /\ sessions[r][s] \notin expired
    OBVIOUS
  <2>2. PICK p \in Questions : pc[p] = "read" /\ client[p] = sessions[r][s]
    BY <2>1 DEF IInv, Awaited
  <2>3. p # q
    BY <2>1, <2>2
  <2>4. QED
    BY <1>1, <2>1, <2>2, <2>3
<1>7. QED
  BY <1>3, <1>4, <1>5, <1>6

LEMMA CollectKeeps ==
    ASSUME IInv, NEW q \in Questions, Collect(q)
    PROVE  IInv'
<1> DEFINE p == last[client[q]]
<1>1. /\ pc[q] = "collect" /\ pc' = [pc EXCEPT ![q] = "close"]
      /\ outcome' = [outcome EXCEPT ![q] = "answer"]
      /\ answers' = answers \cup {<<q, p>>}
      /\ UNCHANGED <<sessions, open, idle, pipe, last, client, expired, send, history>>
  BY DEF Collect, End, Move
<1>2. client[q] \in Questions
  BY <1>1, Owned DEF IInv, Homes, Busy
<1>3. p \in Questions /\ client[p] = client[q]
  BY <1>1, <1>2 DEF IInv, TypeOK, Asked
<1>4. p # q => client[q] \in expired
  BY <1>1 DEF IInv, Pending
<1> HIDE DEF p
<1>5. TypeOK'
  BY <1>1, <1>3 DEF IInv, TypeOK, Stages, Outcomes, send
<1>6. Homes' /\ Asked' /\ Pending' /\ Awaited'
  BY <1>1, Leaves DEF Late, Busy
<1>7. OneByOne' /\ Written'
  BY <1>1, OthersKept DEF Stages, Late
<1>8. Answered'
  <2> SUFFICES ASSUME NEW a \in Questions, NEW b \in Questions, <<a, b>> \in answers'
               PROVE  /\ pc'[a] \in Late
                      /\ a # b => client[b] = client[a] /\ client[a] \in expired
    BY <1>1 DEF Answered
  <2>1. \A x \in Questions : pc'[x] = IF x = q THEN "close" ELSE pc[x]
    BY <1>1 DEF IInv, TypeOK
  <2>2. CASE <<a, b>> \in answers
    BY <2>1, <2>2 DEF IInv, Answered, Late
  <2>3. CASE a = q /\ b = p
    BY <1>3, <1>4, <2>1, <2>3 DEF Late
  <2>4. QED
    BY <1>1, <2>2, <2>3
<1>9. QED
  BY <1>5, <1>6, <1>7, <1>8 DEF IInv

LEMMA TimeOutKeeps ==
    ASSUME IInv, NEW q \in Questions, TimeOut(q)
    PROVE  IInv'
<1>1. /\ pc[q] = "read" /\ pc' = [pc EXCEPT ![q] = "close"]
      /\ outcome' = [outcome EXCEPT ![q] = "timeout"] /\ expired' = expired \cup {client[q]}
      /\ UNCHANGED <<sessions, open, idle, pipe, last, client, answers, send, history>>
  BY DEF TimeOut, End, Move
<1>2. client[q] \in Questions
  BY <1>1, Owned DEF IInv, Homes, Busy
<1>3. TypeOK'
  BY <1>1, <1>2 DEF IInv, TypeOK, Stages, Outcomes, send
<1>4. Homes' /\ Asked' /\ Pending' /\ Awaited'
  BY <1>1, Leaves DEF Late, Busy
<1>5. OneByOne' /\ Answered' /\ Written'
  BY <1>1, OthersKept DEF Stages, Late
<1>6. QED
  BY <1>3, <1>4, <1>5 DEF IInv

LEMMA BreakKeeps ==
    ASSUME IInv, NEW q \in Questions, Break(q)
    PROVE  IInv'
<1>1. /\ pc[q] \in {"opening", "query", "read"} /\ pc' = [pc EXCEPT ![q] = "direct"]
      /\ sessions' = [sessions EXCEPT ![RunnerOf(q)][SessionOf[q]] = NoClient]
      /\ UNCHANGED <<outcome, open, idle, pipe, last, client, answers, expired, send, history>>
  BY DEF Break, Move
<1>2. RunnerOf(q) \in Runners /\ SessionOf[q] \in Sessions
  BY SessionsOfQuestions
<1>3. \A r \in Runners, s \in Sessions :
         sessions'[r][s] = IF r = RunnerOf(q) /\ s = SessionOf[q] THEN NoClient ELSE sessions[r][s]
  BY <1>1, <1>2 DEF IInv, TypeOK
<1>4. \A r \in Runners, s \in Sessions :
         sessions'[r][s] = sessions[r][s] \/ sessions'[r][s] = NoClient
  BY <1>3
<1>5. TypeOK'
  <2>1. sessions' \in [Runners -> [Sessions -> Questions \cup {NoClient}]]
    BY <1>1, <1>2 DEF IInv, TypeOK
  <2>2. \A r \in Runners, s \in Sessions : sessions'[r][s] \in open \cup {NoClient}
    BY <1>4 DEF IInv, TypeOK
  <2>3. QED
    BY <1>1, <2>1, <2>2 DEF IInv, TypeOK, Stages, send
<1>6. OneByOne' /\ Answered' /\ Written'
  BY <1>1, OthersKept DEF Stages, Late
<1>7. CASE pc[q] = "opening"
  <2>1. Homes' /\ Asked' /\ Pending' /\ Awaited'
    BY <1>1, <1>4, <1>7, ClientsKept DEF Stages, Busy, Early
  <2>2. QED
    BY <1>5, <1>6, <2>1 DEF IInv
<1>8. CASE pc[q] \in {"query", "read"}
  <2>1. client[q] # NoClient /\ RunnerOf(client[q]) = RunnerOf(q)
        /\ SessionOf[client[q]] = SessionOf[q]
    BY <1>8, Owned DEF IInv, Homes, Busy
  <2>2. ASSUME NEW r \in Runners, NEW s \in Sessions PROVE sessions'[r][s] # client[q]
    <3>1. CASE r = RunnerOf(q) /\ s = SessionOf[q]
      BY <1>3, <2>1, <3>1
    <3>2. CASE ~(r = RunnerOf(q) /\ s = SessionOf[q])
      <4>1. sessions'[r][s] = sessions[r][s]
        BY <1>3, <3>2
      <4>2. ASSUME sessions[r][s] = client[q] PROVE FALSE
        <5>1. Fits(client[q], r, s)
          BY <2>1, <4>2 DEF IInv, Homes
        <5>2. QED
          BY <2>1, <3>2, <5>1 DEF Fits
      <4>3. QED
        BY <4>1, <4>2
    <3>3. QED
      BY <3>1, <3>2
  <2>3. Homes' /\ Asked' /\ Pending' /\ Awaited'
    BY <1>1, <1>4, <1>8, <2>2, Leaves DEF Late, Busy
  <2>4. QED
    BY <1>5, <1>6, <2>3 DEF IInv
<1>9. QED
  BY <1>1, <1>7, <1>8

-----------------------------------------------------------------------------
LEMMA StepKeeps == IInv /\ [Next]_vars => IInv'
<1> SUFFICES ASSUME IInv, [Next]_vars PROVE IInv'
  OBVIOUS
<1>1. CASE UNCHANGED vars
  <2>1. UNCHANGED <<pc, outcome, sessions, open, idle, pipe, last, client, answers,
                    expired, todo, read, best, context, first, history>>
    BY <1>1 DEF vars
  <2>2. TypeOK' /\ Homes' /\ OneByOne' /\ Asked'
    BY <2>1 DEF IInv, TypeOK, Homes, Fits, RunnerOf, OneByOne, Asked
  <2>3. Pending' /\ Awaited' /\ Answered' /\ Written'
    BY <2>1 DEF IInv, Pending, Awaited, Answered, Written, Looked, Remembered, BestOf
  <2>4. QED
    BY <2>2, <2>3 DEF IInv
<1>2. ASSUME NEW q \in Questions, Ask(q) PROVE IInv'
  BY <1>2, AskKeeps
<1>3. ASSUME NEW q \in Questions, Read(q) PROVE IInv'
  BY <1>3, ReadKeeps
<1>4. ASSUME NEW q \in Questions, Step(q) PROVE IInv'
  <2>1. CASE Connect(q) \/ Route(q) \/ DirectAnswer(q) \/ Close(q)
    BY <2>1, ConnectKeeps, RouteKeeps, DirectAnswerKeeps, CloseKeeps
  <2>2. CASE Session(q) \/ Connected(q) \/ Query(q) \/ Collect(q)
    BY <2>2, SessionKeeps, ConnectedKeeps, QueryKeeps, CollectKeeps
  <2>3. CASE TimeOut(q) \/ Break(q)
    BY <2>3, TimeOutKeeps, BreakKeeps
  <2>4. CASE Enrich(q) \/ Compose(q) \/ Deliver(q)
    BY <2>4, EnrichKeeps, ComposeKeeps, DeliverKeeps
  <2>5. CASE \E room \in Rooms : LookUp(q, room)
    BY <2>5, LookUpKeeps
  <2>6. QED
    BY <1>4, <2>1, <2>2, <2>3, <2>4, <2>5 DEF Step
<1>5. ASSUME NEW c \in Questions, Idle(c) PROVE IInv'
  BY <1>5, IdleKeeps
<1>6. QED
  BY <1>1, <1>2, <1>3, <1>4, <1>5 DEF Next

LEMMA Invariance == Spec => []IInv
<1>1. Init => IInv
  BY InitHolds
<1>2. IInv /\ [Next]_vars => IInv'
  BY StepKeeps
<1>3. QED
  BY <1>1, <1>2, PTL DEF Spec

(* Every reachable state is well typed, for any questions, sessions and    *)
(* rooms: no session holds a client that was disconnected.                 *)
THEOREM Typing == Spec => []TypeOK
<1>1. IInv => TypeOK
  BY DEF IInv
<1>2. QED
  BY <1>1, Invariance, PTL

(* A question gets the answer to itself, or, after a query that timed out  *)
(* on its client, to another query of that client, whatever fails and      *)
(* however questions of the owner and of the relay overlap.                *)
THEOREM AnswersOwnHolds == Spec => []AnswersOwn
<1>1. IInv => AnswersOwn
  BY DEF IInv, Answered, AnswersOwn
<1>2. QED
  BY <1>1, Invariance, PTL

(* A message written from the talk of one room goes to no other, unless    *)
(* one of the two was another room to the second lookup than to the first, *)
(* or both fit the name equally well: for any rooms, in any order of the   *)
(* requests, and whatever changes or fails between them.                   *)
THEOREM SentWhereReadHolds == Spec => []SentWhereRead
<1>1. IInv => SentWhereRead
  <2> SUFFICES ASSUME IInv, NEW q \in Questions, pc[q] = "deliver", LookedUp(q),
                      context[q] # NoRoom, best[q] # NoRoom,
                      read[q][context[q]] = first[q][context[q]],
                      read[q][best[q]] = first[q][best[q]]
               PROVE  read[q][context[q]] = read[q][best[q]]
    BY DEF SentWhereRead
  <2>1. context[q] \in Rooms /\ \A r \in Rooms : first[q][r] <= first[q][context[q]]
    BY DEF IInv, Written, Remembered, BestOf
  <2>2. best[q] \in Rooms /\ \A r \in Rooms : read[q][r] <= read[q][best[q]]
    BY DEF IInv, Written, Looked, BestOf, LookedUp
  <2>3. read[q] \in [Rooms -> Scores]
    BY DEF IInv, TypeOK
  <2>4. read[q][context[q]] \in Nat /\ read[q][best[q]] \in Nat
    BY <2>1, <2>2, <2>3, TwinChatAssumption
  <2>5. QED
    BY <2>1, <2>2, <2>4
<1>2. QED
  BY <1>1, Invariance, PTL
=============================================================================
