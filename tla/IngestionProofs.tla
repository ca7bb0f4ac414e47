-------------------------- MODULE IngestionProofs ---------------------------
(* Type correctness of Ingestion, and that nothing before the cursor is    *)
(* lost, for any items, runs by hand, restarts, and rounding of times.     *)
EXTENDS Ingestion, TLAPS

(***************************************************************************)
(* Typing.                                                                 *)
(***************************************************************************)

LEMMA InitTyped == Init => TypeOK
  BY IngestionAssumption DEF Init, TypeOK, Times, Runs, Existing

(* Whatever answers a fetch, of the items it holds those that changed      *)
(* since the cursor are found.                                             *)
LEMMA FetchTakes ==
    ASSUME NEW r \in Runs, Fetch(r)
    PROVE  \E answer \in SUBSET Existing, found \in SUBSET Existing :
               /\ New(r, answer) \subseteq found
               /\ Take(r, answer, found)
<1>1. CASE Listed(r)
  <2>1. PICK page \in SUBSET Existing : Take(r, page, New(r, page))
    BY <1>1 DEF Listed
  <2>2. New(r, page) \in SUBSET Existing
    BY DEF New
  <2> QED
    BY <2>1, <2>2
<1>2. CASE FellBack(r)
  <2>1. PICK page \in SUBSET Existing : Take(r, page, page)
    BY <1>2 DEF FellBack
  <2>2. New(r, page) \subseteq page
    BY DEF New
  <2> QED
    BY <2>1, <2>2
<1>3. CASE Take(r, {}, {})
  <2>1. New(r, {}) \subseteq {} /\ {} \in SUBSET Existing
    BY DEF New
  <2> QED
    BY <1>3, <2>1
<1> QED
  BY <1>1, <1>2, <1>3 DEF Fetch, Answered

(* Every step keeps the types, the cursor and the stamps not ahead of the  *)
(* clock, and only existing items stored or refused.                       *)
LEMMA NextTyped == TypeOK /\ [Next]_vars => TypeOK'
<1> SUFFICES ASSUME TypeOK, [Next]_vars PROVE TypeOK'
  OBVIOUS
<1> USE IngestionAssumption DEF Times, Existing
<1>1. CASE Tick
  <2>1. /\ now \in Nat /\ now' \in 0..MaxTime /\ now <= now'
        /\ \A x \in Items : changed[x] \in Nat /\ changed[x] <= now
        /\ \A r \in Runs : /\ since[r] \in Nat /\ since[r] <= now
                           /\ stamp[r] \in Nat /\ stamp[r] <= now
        /\ cursor \in Nat /\ cursor <= now
    BY <1>1 DEF TypeOK, Tick
  <2>2. UNCHANGED <<source, changed, stored, refused, passed, cursor, pc, since, docs, total, stamp, lives>>
    BY <1>1 DEF Tick, run, mem
  <2>3. /\ \A x \in Items : changed[x] <= now'
        /\ \A r \in Runs : since[r] <= now' /\ stamp[r] <= now'
        /\ cursor <= now'
    BY <2>1
  <2>4. Existing' = Existing
    BY <2>2
  <2>5. /\ source' \in Sources /\ changed' \in [Items -> 0..MaxTime]
        /\ stored' \subseteq Existing' /\ refused' \subseteq Existing'
        /\ docs' \in [Runs -> SUBSET (Items \X ((0..MaxTime) \ {0}))]
    BY <2>2, <2>4 DEF TypeOK
  <2>6. /\ passed' \subseteq Items /\ cursor' \in 0..MaxTime
        /\ pc' \in [Runs -> {"idle", "fetch", "store", "save", "done"}]
        /\ since' \in [Runs -> 0..MaxTime] /\ total' \in [Runs -> {"none", "some"}]
        /\ stamp' \in [Runs -> 0..MaxTime] /\ lives' \in Nat
    BY <2>2 DEF TypeOK
  <2>7. /\ \A x \in Items : changed'[x] <= now'
        /\ \A r \in Runs : since'[r] <= now' /\ stamp'[r] <= now'
        /\ cursor' <= now' /\ now' \in 0..MaxTime
    BY <2>1, <2>2, <2>3
  <2> QED
    BY <2>5, <2>6, <2>7 DEF TypeOK
<1>2. ASSUME NEW x \in Items, Change(x) PROVE TypeOK'
  <2>1. /\ changed' = [changed EXCEPT ![x] = now] /\ now \in Nat /\ now # 0
        /\ stored' = stored \ {x} /\ refused' = refused \ {x}
        /\ passed' \subseteq Items
    BY <1>2 DEF TypeOK, Change
  <2>2. /\ changed' \in [Items -> 0..MaxTime]
        /\ \A y \in Items : changed'[y] = IF y = x THEN now ELSE changed[y]
    BY <2>1 DEF TypeOK
  <2>3. \A y \in Items : changed'[y] <= now
    BY <2>1, <2>2 DEF TypeOK
  <2>4. Existing \subseteq Existing'
    BY <2>1, <2>2
  <2>5. stored' \subseteq Existing' /\ refused' \subseteq Existing'
    BY <2>1, <2>4 DEF TypeOK
  <2> QED
    BY <1>2, <2>1, <2>2, <2>3, <2>5 DEF TypeOK, Change, run
<1>3. ASSUME NEW r \in Runs, Begin(r) PROVE TypeOK'
  BY <1>3 DEF TypeOK, Begin, mem
<1>4. ASSUME NEW r \in Runs, Fetch(r) PROVE TypeOK'
  <2>1. PICK answer \in SUBSET Existing, found \in SUBSET Existing : Take(r, answer, found)
    BY <1>4, FetchTakes
  <2>2. found \subseteq Existing /\ answer \subseteq Items
    OBVIOUS
  <2>3. {<<x, changed[x]>> : x \in found} \subseteq Items \X ((0..MaxTime) \ {0})
    BY <2>2 DEF TypeOK
  <2>4. docs' \in [Runs -> SUBSET (Items \X ((0..MaxTime) \ {0}))]
    BY <2>1, <2>3 DEF TypeOK, Take
  <2>5. total' \in [Runs -> {"none", "some"}]
    BY <2>1 DEF TypeOK, Take
  <2>6. since' \in [Runs -> 0..MaxTime] /\ \A q \in Runs : since'[q] <= now
    BY <2>1 DEF TypeOK, Take
  <2>7. /\ UNCHANGED <<source, now, changed, stored, refused, cursor, stamp, lives>>
        /\ passed' \subseteq Items
        /\ pc' \in [Runs -> {"idle", "fetch", "store", "save", "done"}]
    BY <2>1 DEF TypeOK, Take, mem, Unstored
  <2> QED
    BY <2>4, <2>5, <2>6, <2>7 DEF TypeOK
<1>5. ASSUME NEW r \in Runs, Store(r) PROVE TypeOK'
  <2>1. PICK d \in docs[r] :
          LET present == IF changed[d[1]] = d[2] THEN {d[1]} ELSE {} IN
          /\ docs' = [docs EXCEPT ![r] = @ \ {d}]
          /\ \/ stored' = stored \cup present /\ UNCHANGED refused
             \/ refused' = refused \cup present /\ UNCHANGED stored
    BY <1>5 DEF Store
  <2>2. d \in Items \X ((0..MaxTime) \ {0})
    BY DEF TypeOK
  <2>3. UNCHANGED <<source, now, changed, passed, cursor, pc, since, total, stamp, lives>>
    BY <1>5 DEF Store
  <2>4. docs' \in [Runs -> SUBSET (Items \X ((0..MaxTime) \ {0}))]
    BY <2>1 DEF TypeOK
  <2>5. d[1] \in Items /\ d[2] \in 0..MaxTime /\ d[2] # 0
    BY <2>2
  <2>6. stored' \subseteq Existing /\ refused' \subseteq Existing
    <3>1. CASE changed[d[1]] = d[2]
      <4>1. changed[d[1]] # 0
        BY <2>5, <3>1
      <4> QED
        BY <2>1, <2>5, <3>1 DEF TypeOK
    <3>2. CASE changed[d[1]] # d[2]
      BY <2>1, <3>2 DEF TypeOK
    <3> QED
      BY <3>1, <3>2
  <2> QED
    BY <2>3, <2>4, <2>6 DEF TypeOK
<1>6. ASSUME NEW r \in Runs, Ingested(r) PROVE TypeOK'
  <2>1. /\ UNCHANGED <<source, now, changed, stored, refused, passed, cursor, since, docs, lives>>
        /\ pc' \in [Runs -> {"idle", "fetch", "store", "save", "done"}]
        /\ total' \in [Runs -> {"none", "some"}]
    BY <1>6 DEF TypeOK, Ingested, After, mem
  <2>2. /\ stamp' \in [Runs -> 0..MaxTime]
        /\ \A q \in Runs : stamp'[q] <= now
    BY <1>6 DEF TypeOK, Ingested
  <2> QED
    BY <2>1, <2>2 DEF TypeOK
<1>7. ASSUME NEW r \in Runs, Save(r) PROVE TypeOK'
  <2>1. /\ UNCHANGED <<source, now, changed, stored, refused, passed, since, docs, total, lives>>
        /\ pc' \in [Runs -> {"idle", "fetch", "store", "save", "done"}]
        /\ cursor' \in 0..MaxTime /\ cursor' <= now
    BY <1>7 DEF TypeOK, Save, After, mem
  <2>2. /\ stamp' \in [Runs -> 0..MaxTime]
        /\ \A q \in Runs : stamp'[q] <= now
    BY <1>7 DEF TypeOK, Save
  <2> QED
    BY <2>1, <2>2 DEF TypeOK
<1>8. CASE Restart
  BY <1>8 DEF TypeOK, Restart, mem
<1>9. CASE UNCHANGED vars
  BY <1>9 DEF TypeOK, vars
<1> QED
  BY <1>1, <1>2, <1>3, <1>4, <1>5, <1>6, <1>7, <1>8, <1>9 DEF Next, Work

(* The cursor and the stamps are never ahead of the clock, and everything  *)
(* else has its type, however many items, runs and restarts there are.     *)
THEOREM Typing == Spec => []TypeOK
<1>1. Init => TypeOK
  BY InitTyped
<1>2. TypeOK /\ [Next]_vars => TypeOK'
  BY NextTyped
<1> QED
  BY <1>1, <1>2, PTL DEF Spec

(***************************************************************************)
(* Nothing is lost.                                                        *)
(***************************************************************************)

(* What is missing and may not be passed.                                  *)
Missing == Unstored \ passed

(* A cursor that was read is no further than what is missing.              *)
ReadSafe ==
    \A r \in Runs : pc[r] = "fetch" => \A x \in Missing : changed[x] >= Cut(since[r])

(* A run whose cursor will move has fetched everything that is missing.    *)
Fetched ==
    \A r \in Runs : pc[r] = "store" /\ Moves(r) =>
        \A x \in Missing : <<x, changed[x]>> \in docs[r]

(* At the time of a save nothing is missing.                               *)
Complete == \A r \in Runs : pc[r] = "save" => Missing = {}

LossInv == TypeOK /\ NothingLost /\ ReadSafe /\ Fetched /\ Complete

(* The conjuncts of LossInv look only at source, changed, stored, refused, *)
(* passed, cursor, pc, since, docs and total.                              *)
LEMMA LossFrame ==
    ASSUME LossInv, TypeOK',
           UNCHANGED <<source, changed, stored, refused, passed, cursor, pc, since, docs, total>>
    PROVE  LossInv'
  BY DEF LossInv, NothingLost, ReadSafe, Fetched, Complete, Missing, Unstored, Existing, Moves, Cut

(* A change is later than every cursor; if a run is past its fetch the     *)
(* item may be passed.                                                     *)
LEMMA LossChange ==
    ASSUME LossInv, TypeOK', NEW x \in Items, Change(x)
    PROVE  LossInv'
<1>1. /\ changed' = [changed EXCEPT ![x] = now]
      /\ Unstored' \subseteq Unstored \cup {x}
      /\ UNCHANGED <<source, now, cursor, pc, since, docs, total>>
  BY DEF Change, Unstored, Existing, LossInv, TypeOK, run
<1>2. passed' = IF \E r \in Runs : pc[r] \in {"store", "save"}
                THEN passed \cup {x} ELSE passed \ {x}
  BY DEF Change
<1>3. \A t \in Times : t <= now => now >= Cut(t) /\ now \in Nat
  BY IngestionAssumption DEF LossInv, TypeOK, Times, Cut
<1>4. changed'[x] = now /\ \A y \in Items \ {x} : changed'[y] = changed[y]
  BY <1>1 DEF LossInv, TypeOK
<1>5. Missing' \subseteq Missing \cup {x} /\ Missing \subseteq Items
  BY <1>1, <1>2 DEF Missing, Unstored, Existing
<1>6. (\E r \in Runs : pc[r] \in {"store", "save"}) => x \notin Missing'
  BY <1>1, <1>2 DEF Missing
<1>7. \A t : Cut(t)' = Cut(t)
  BY <1>1 DEF Cut
<1>8. NothingLost'
  <2> SUFFICES ASSUME NEW y \in Missing' PROVE changed'[y] >= Cut(cursor)'
    BY DEF NothingLost, Missing
  <2>1. CASE y = x
    BY <1>1, <1>3, <1>4, <1>7, <2>1 DEF LossInv, TypeOK
  <2>2. CASE y # x
    BY <1>1, <1>4, <1>5, <1>7, <2>2 DEF LossInv, NothingLost, Missing
  <2> QED
    BY <2>1, <2>2
<1>9. ReadSafe'
  <2> SUFFICES ASSUME NEW r \in Runs, pc[r] = "fetch", NEW y \in Missing'
               PROVE  changed'[y] >= Cut(since[r])'
    BY <1>1 DEF ReadSafe
  <2>1. CASE y = x
    BY <1>1, <1>3, <1>4, <1>7, <2>1 DEF LossInv, TypeOK
  <2>2. CASE y # x
    BY <1>1, <1>4, <1>5, <1>7, <2>2 DEF LossInv, ReadSafe
  <2> QED
    BY <2>1, <2>2
<1>10. Fetched' /\ Complete'
  BY <1>1, <1>4, <1>5, <1>6 DEF LossInv, Fetched, Complete, Moves
<1> QED
  BY <1>8, <1>9, <1>10 DEF LossInv

LEMMA LossBegin ==
    ASSUME LossInv, TypeOK', NEW r \in Runs, Begin(r)
    PROVE  LossInv'
<1>1. /\ pc' = [pc EXCEPT ![r] = "fetch"] /\ since' = [since EXCEPT ![r] = cursor]
      /\ UNCHANGED <<source, changed, stored, refused, passed, cursor, docs, total>>
  BY DEF Begin, mem
<1>2. Missing' = Missing /\ (\A t : Cut(t)' = Cut(t)) /\ Cut(cursor)' = Cut(cursor)
  BY <1>1 DEF Missing, Unstored, Existing, Cut
<1>3. NothingLost' /\ ReadSafe'
  <2>1. NothingLost'
    BY <1>1, <1>2 DEF LossInv, NothingLost, Missing
  <2>2. ASSUME NEW q \in Runs, pc'[q] = "fetch", NEW x \in Missing
        PROVE  changed[x] >= Cut(since'[q])
    BY <1>1, <2>2 DEF LossInv, TypeOK, NothingLost, ReadSafe, Missing
  <2>3. ReadSafe'
    BY <1>1, <1>2, <2>2 DEF ReadSafe, Cut
  <2> QED
    BY <2>1, <2>3
<1>4. Fetched' /\ Complete'
  BY <1>1, <1>2 DEF LossInv, TypeOK, Fetched, Complete, Moves
<1> QED
  BY <1>3, <1>4 DEF LossInv

(* Every answer that lets the cursor move brings all that is missing and   *)
(* not passed by taking it.                                                *)
LEMMA LossFetch ==
    ASSUME LossInv, TypeOK', NEW r \in Runs, Fetch(r)
    PROVE  LossInv'
<1>1. PICK answer \in SUBSET Existing, found \in SUBSET Existing :
          New(r, answer) \subseteq found /\ Take(r, answer, found)
  BY FetchTakes
<1>2. /\ pc[r] = "fetch" /\ pc' = [pc EXCEPT ![r] = "store"]
      /\ docs' = [docs EXCEPT ![r] = {<<x, changed[x]>> : x \in found}]
      /\ total' = [total EXCEPT ![r] = IF found = {} THEN "none" ELSE "some"]
      /\ since' = [since EXCEPT ![r] = 0]
      /\ passed' = IF r = Loop /\ found = {} THEN passed
                   ELSE passed \cup {x \in Unstored \ answer : changed[x] >= Cut(since[r])}
      /\ UNCHANGED <<source, changed, stored, refused, cursor>>
  BY <1>1 DEF Take, Fetch, mem
<1>3. /\ Missing' \subseteq Missing /\ Missing' \subseteq Existing
      /\ \A t : Cut(t)' = Cut(t)
  BY <1>2 DEF Missing, Unstored, Existing, Cut
<1>4. \A x \in Missing' : x \in Unstored /\ changed[x] >= Cut(since[r])
  BY <1>2, <1>3 DEF LossInv, ReadSafe, Missing
<1>5. ~(r = Loop /\ found = {}) => Missing' \subseteq New(r, answer)
  <2> SUFFICES ASSUME ~(r = Loop /\ found = {}), NEW x \in Missing'
               PROVE  x \in New(r, answer)
    OBVIOUS
  <2>1. x \notin passed'
    BY DEF Missing
  <2>2. x \in answer
    BY <1>2, <1>4, <2>1
  <2> QED
    BY <1>4, <2>2 DEF New
<1>6. r \in Onces \/ found # {} => Missing' \subseteq found
  BY <1>1, <1>5, IngestionAssumption DEF Runs
<1>7. Fetched'
  <2> SUFFICES ASSUME NEW q \in Runs, pc'[q] = "store", Moves(q)', NEW x \in Missing'
               PROVE  <<x, changed[x]>> \in docs'[q]
    BY <1>2 DEF Fetched
  <2>1. CASE q = r
    <3>1. docs'[r] = {<<y, changed[y]>> : y \in found}
      BY <1>2 DEF LossInv, TypeOK
    <3>2. x \in found
      BY <1>2, <1>6, <2>1 DEF Moves, LossInv, TypeOK
    <3> QED
      BY <2>1, <3>1, <3>2
  <2>2. CASE q # r
    BY <1>2, <1>3, <2>2 DEF LossInv, TypeOK, Fetched, Moves
  <2> QED
    BY <2>1, <2>2
<1>8. NothingLost' /\ Complete'
  BY <1>2, <1>3 DEF LossInv, TypeOK, NothingLost, Complete, Missing, Cut
<1>9. ReadSafe'
  <2>1. ASSUME NEW q \in Runs, pc'[q] = "fetch", NEW x \in Missing'
        PROVE  changed'[x] >= Cut(since'[q])
    BY <1>2, <1>3, <2>1 DEF LossInv, TypeOK, ReadSafe
  <2> QED
    BY <1>2, <2>1 DEF ReadSafe, Cut
<1> QED
  BY <1>7, <1>8, <1>9 DEF LossInv

(* A document leaves the rest when its item is no longer missing.          *)
LEMMA LossStore ==
    ASSUME LossInv, TypeOK', NEW r \in Runs, Store(r)
    PROVE  LossInv'
<1>1. PICK d \in docs[r] :
          LET present == IF changed[d[1]] = d[2] THEN {d[1]} ELSE {} IN
          /\ docs' = [docs EXCEPT ![r] = @ \ {d}]
          /\ \/ stored' = stored \cup present /\ UNCHANGED refused
             \/ refused' = refused \cup present /\ UNCHANGED stored
  BY DEF Store
<1>2. pc[r] = "store" /\ UNCHANGED <<source, changed, passed, cursor, pc, since, total>>
  BY DEF Store
<1>3. Missing' \subseteq Missing
  BY <1>1, <1>2 DEF Missing, Unstored, Existing
<1>4. \A x \in Missing' : <<x, changed[x]>> # d
  BY <1>1, <1>2 DEF Missing, Unstored, Existing
<1>5. Fetched'
  BY <1>1, <1>2, <1>3, <1>4 DEF LossInv, TypeOK, Fetched, Moves
<1>6. NothingLost' /\ ReadSafe' /\ Complete'
  BY <1>2, <1>3 DEF LossInv, NothingLost, ReadSafe, Complete, Missing, Cut
<1> QED
  BY <1>5, <1>6 DEF LossInv

LEMMA LossIngested ==
    ASSUME LossInv, TypeOK', NEW r \in Runs, Ingested(r)
    PROVE  LossInv'
<1>1. /\ pc[r] = "store" /\ docs[r] = {}
      /\ pc' = [pc EXCEPT ![r] = IF Moves(r) THEN "save" ELSE After(r)]
      /\ total' = [total EXCEPT ![r] = "none"]
      /\ UNCHANGED <<source, changed, stored, refused, passed, cursor, since, docs>>
  BY DEF Ingested, mem
<1>2. Missing' = Missing
  BY <1>1 DEF Missing, Unstored, Existing
<1>3. Moves(r) => Missing = {}
  BY <1>1 DEF LossInv, Fetched
<1>4. Complete'
  BY <1>1, <1>2, <1>3 DEF LossInv, TypeOK, Complete, After
<1>5. Fetched'
  BY <1>1, <1>2 DEF LossInv, TypeOK, Fetched, Moves, After
<1>6. NothingLost' /\ ReadSafe'
  BY <1>1, <1>2 DEF LossInv, TypeOK, NothingLost, ReadSafe, After, Missing, Cut
<1> QED
  BY <1>4, <1>5, <1>6 DEF LossInv

LEMMA LossSave ==
    ASSUME LossInv, TypeOK', NEW r \in Runs, Save(r)
    PROVE  LossInv'
<1>1. /\ pc[r] = "save" /\ pc' = [pc EXCEPT ![r] = After(r)]
      /\ UNCHANGED <<changed, stored, refused, passed, since, docs, total>>
  BY DEF Save, mem
<1>2. Missing' = {} /\ Missing = {}
  BY <1>1 DEF LossInv, Complete, Missing, Unstored, Existing
<1> QED
  BY <1>2 DEF LossInv, NothingLost, ReadSafe, Fetched, Complete, Missing

LEMMA LossRestart ==
    ASSUME LossInv, TypeOK', Restart
    PROVE  LossInv'
<1>1. /\ UNCHANGED <<source, changed, stored, refused, passed, cursor>>
      /\ \A r \in Runs : pc'[r] \in {"idle", "done"}
  BY DEF Restart, mem
<1> QED
  BY <1>1 DEF LossInv, NothingLost, ReadSafe, Fetched, Complete, Missing, Unstored, Existing, Cut

(* Whatever lies before the cursor is in the memory or was refused, unless *)
(* it changed between a fetch and its save or was not in an answer that    *)
(* moves the cursor: for any items, runs by hand, failures, limits of the  *)
(* answers, reach of the fallback, rounding of times, and restarts.        *)
THEOREM NothingLostHolds == Spec => []NothingLost
<1>1. Init => LossInv
  <2> SUFFICES ASSUME Init PROVE LossInv
    OBVIOUS
  <2>1. Missing = {}
    BY DEF Init, Missing, Unstored, Existing
  <2> QED
    BY <2>1, InitTyped DEF Init, LossInv, NothingLost, ReadSafe, Fetched, Complete, Missing
<1>2. LossInv /\ [Next]_vars => LossInv'
  <2> SUFFICES ASSUME LossInv, [Next]_vars PROVE LossInv'
    OBVIOUS
  <2>1. TypeOK'
    BY NextTyped DEF LossInv
  <2>2. CASE Tick
    BY <2>1, <2>2, LossFrame DEF Tick, mem, run
  <2>3. CASE UNCHANGED vars
    BY <2>1, <2>3, LossFrame DEF vars
  <2>4. ASSUME NEW r \in Runs, Work(r) PROVE LossInv'
    BY <2>1, <2>4, LossBegin, LossFetch, LossStore, LossIngested, LossSave DEF Work
  <2> QED
    BY <2>1, <2>2, <2>3, <2>4, LossChange, LossRestart DEF Next
<1>3. LossInv => NothingLost
  BY DEF LossInv
<1> QED
  BY <1>1, <1>2, <1>3, PTL DEF Spec
=============================================================================
