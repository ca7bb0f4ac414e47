-------------------------- MODULE AgentRelayProofs --------------------------
(***************************************************************************)
(* Theorems about AgentRelay, for every table, every interleaving of the   *)
(* writers with the loop, and every number of restarts.                    *)
(***************************************************************************)
EXTENDS AgentRelay, FiniteSetTheorems, TLAPS

USE RelayAssumption

-----------------------------------------------------------------------------
(* Sequences: what Append, Tail and \o do to occurrence, order and         *)
(* injectivity, the last but for the elements of a set X.                  *)

Injective(s, X) == \A i, j \in DOMAIN s : i # j /\ s[i] = s[j] => s[i] \in X
Sorted(s, st)   == \A i, j \in DOMAIN s : i < j => st[s[i]] <= st[s[j]]

LEMMA AppendFacts ==
    ASSUME NEW S, NEW s \in Seq(S), NEW e \in S
    PROVE  /\ Append(s, e) \in Seq(S)
           /\ Append(s, e) # <<>>
           /\ \A x : Occurs(x, Append(s, e)) <=> (Occurs(x, s) \/ x = e)
           /\ \A X : Injective(s, X) /\ (Occurs(e, s) => e \in X)
                     => Injective(Append(s, e), X)
<1> DEFINE t == Append(s, e)
<1>1. t \in Seq(S) /\ Len(t) = Len(s) + 1 /\ t[Len(s) + 1] = e
      /\ (\A i \in 1..Len(s) : t[i] = s[i]) /\ DOMAIN t = 1..(Len(s) + 1)
      /\ DOMAIN s = 1..Len(s) /\ Len(s) \in Nat
  OBVIOUS
<1> HIDE DEF t
<1>2. t # <<>>
  BY <1>1
<1>3. \A x : Occurs(x, t) <=> (Occurs(x, s) \/ x = e)
  <2> TAKE x
  <2>1. ASSUME Occurs(x, t) PROVE Occurs(x, s) \/ x = e
    BY <1>1, <2>1 DEF Occurs
  <2>2. ASSUME Occurs(x, s) PROVE Occurs(x, t)
    <3>1. PICK i \in 1..Len(s) : s[i] = x
      BY <1>1, <2>2 DEF Occurs
    <3>2. i \in DOMAIN t /\ t[i] = x
      BY <1>1, <3>1
    <3> QED BY <3>2 DEF Occurs
  <2>3. ASSUME x = e PROVE Occurs(x, t)
    BY <1>1, <2>3 DEF Occurs
  <2> QED BY <2>1, <2>2, <2>3
<1>4. \A X : Injective(s, X) /\ (Occurs(e, s) => e \in X) => Injective(t, X)
  BY <1>1 DEF Injective, Occurs
<1> QED BY <1>1, <1>2, <1>3, <1>4 DEF t

LEMMA AppendSorted ==
    ASSUME NEW S, NEW s \in Seq(S), NEW e \in S, NEW st \in [S -> Nat],
           Sorted(s, st), \A i \in DOMAIN s : st[s[i]] <= st[e]
    PROVE  Sorted(Append(s, e), st)
<1> DEFINE t == Append(s, e)
<1>1. t[Len(s) + 1] = e /\ (\A i \in 1..Len(s) : t[i] = s[i])
      /\ DOMAIN t = 1..(Len(s) + 1) /\ DOMAIN s = 1..Len(s) /\ Len(s) \in Nat
      /\ (\A i \in 1..Len(s) : s[i] \in S)
  OBVIOUS
<1> HIDE DEF t
<1>2. ASSUME NEW i \in DOMAIN t, NEW j \in DOMAIN t, i < j
      PROVE  st[t[i]] <= st[t[j]]
  <2>1. CASE j = Len(s) + 1
    BY <1>1, <1>2, <2>1
  <2>2. CASE j \in 1..Len(s)
    BY <1>1, <1>2, <2>2 DEF Sorted
  <2> QED BY <1>1, <2>1, <2>2
<1> QED BY <1>2 DEF Sorted, t

LEMMA ConcatFacts ==
    ASSUME NEW S, NEW s \in Seq(S), NEW t \in Seq(S)
    PROVE  /\ s \o t \in Seq(S)
           /\ \A x : Occurs(x, s \o t) <=> (Occurs(x, s) \/ Occurs(x, t))
           /\ \A X : Injective(s, X) /\ Injective(t, X)
                     /\ (\A x : Occurs(x, s) /\ Occurs(x, t) => x \in X)
                     => Injective(s \o t, X)
<1> DEFINE u == s \o t
<1>1. u \in Seq(S) /\ DOMAIN u = 1..(Len(s) + Len(t))
      /\ (\A i \in 1..Len(s) : u[i] = s[i])
      /\ (\A i \in 1..Len(t) : u[Len(s) + i] = t[i])
      /\ DOMAIN s = 1..Len(s) /\ Len(s) \in Nat
      /\ DOMAIN t = 1..Len(t) /\ Len(t) \in Nat
  OBVIOUS
<1> HIDE DEF u
<1>2. \A i \in DOMAIN u : \/ i \in DOMAIN s /\ u[i] = s[i]
                          \/ /\ i > Len(s) /\ i - Len(s) \in DOMAIN t
                             /\ u[i] = t[i - Len(s)]
  <2> TAKE i \in DOMAIN u
  <2>1. CASE i <= Len(s)
    BY <1>1, <2>1
  <2>2. CASE i > Len(s)
    <3>1. i - Len(s) \in 1..Len(t) /\ Len(s) + (i - Len(s)) = i
      BY <1>1, <2>2
    <3> QED BY <1>1, <2>2, <3>1
  <2> QED BY <1>1, <2>1, <2>2
<1>3. \A x : Occurs(x, u) <=> (Occurs(x, s) \/ Occurs(x, t))
  <2> TAKE x
  <2>1. ASSUME Occurs(x, u) PROVE Occurs(x, s) \/ Occurs(x, t)
    BY <1>2, <2>1 DEF Occurs
  <2>2. ASSUME Occurs(x, s) PROVE Occurs(x, u)
    <3>1. PICK i \in 1..Len(s) : s[i] = x
      BY <1>1, <2>2 DEF Occurs
    <3>2. i \in DOMAIN u /\ u[i] = x
      BY <1>1, <3>1
    <3> QED BY <3>2 DEF Occurs
  <2>3. ASSUME Occurs(x, t) PROVE Occurs(x, u)
    <3>1. PICK i \in 1..Len(t) : t[i] = x
      BY <1>1, <2>3 DEF Occurs
    <3>2. Len(s) + i \in DOMAIN u /\ u[Len(s) + i] = x
      BY <1>1, <3>1
    <3> QED BY <3>2 DEF Occurs
  <2> QED BY <2>1, <2>2, <2>3
<1>4. ASSUME NEW X, Injective(s, X), Injective(t, X),
             \A x : Occurs(x, s) /\ Occurs(x, t) => x \in X,
             NEW i \in DOMAIN u, NEW j \in DOMAIN u, i # j, u[i] = u[j]
      PROVE  u[i] \in X
  <2>1. CASE i \in DOMAIN s /\ u[i] = s[i] /\ j \in DOMAIN s /\ u[j] = s[j]
    BY <1>4, <2>1 DEF Injective
  <2>2. CASE /\ i > Len(s) /\ i - Len(s) \in DOMAIN t /\ u[i] = t[i - Len(s)]
             /\ j > Len(s) /\ j - Len(s) \in DOMAIN t /\ u[j] = t[j - Len(s)]
    <3>1. i - Len(s) # j - Len(s)
      BY <1>1, <1>4
    <3> QED BY <1>4, <2>2, <3>1 DEF Injective
  <2>3. CASE i \in DOMAIN s /\ u[i] = s[i] /\ j - Len(s) \in DOMAIN t /\ u[j] = t[j - Len(s)]
    BY <1>4, <2>3 DEF Occurs
  <2>4. CASE j \in DOMAIN s /\ u[j] = s[j] /\ i - Len(s) \in DOMAIN t /\ u[i] = t[i - Len(s)]
    BY <1>4, <2>4 DEF Occurs
  <2> QED BY <1>2, <2>1, <2>2, <2>3, <2>4
<1> QED BY <1>1, <1>3, <1>4 DEF Injective, u

LEMMA ConcatSorted ==
    ASSUME NEW S, NEW s \in Seq(S), NEW t \in Seq(S), NEW st \in [S -> Nat],
           Sorted(s, st), Sorted(t, st),
           \A i \in DOMAIN s, j \in DOMAIN t : st[s[i]] <= st[t[j]]
    PROVE  Sorted(s \o t, st)
<1> DEFINE u == s \o t
<1>1. DOMAIN u = 1..(Len(s) + Len(t))
      /\ (\A i \in 1..Len(s) : u[i] = s[i])
      /\ (\A i \in 1..Len(t) : u[Len(s) + i] = t[i])
      /\ DOMAIN s = 1..Len(s) /\ Len(s) \in Nat
      /\ DOMAIN t = 1..Len(t) /\ Len(t) \in Nat
  OBVIOUS
<1> HIDE DEF u
<1>2. ASSUME NEW i \in DOMAIN u, NEW j \in DOMAIN u, i < j
      PROVE  st[u[i]] <= st[u[j]]
  <2>1. CASE j <= Len(s)
    <3>1. i \in 1..Len(s) /\ j \in 1..Len(s)
      BY <1>1, <1>2, <2>1
    <3>2. u[i] = s[i] /\ u[j] = s[j] /\ i \in DOMAIN s /\ j \in DOMAIN s
      BY <1>1, <3>1
    <3> QED BY <1>2, <3>2 DEF Sorted
  <2>2. CASE i <= Len(s) /\ j > Len(s)
    <3>1. j - Len(s) \in 1..Len(t) /\ Len(s) + (j - Len(s)) = j /\ i \in 1..Len(s)
      BY <1>1, <2>2
    <3>2. u[j] = t[j - Len(s)] /\ u[i] = s[i]
      BY <1>1, <3>1
    <3> QED BY <1>1, <3>1, <3>2
  <2>3. CASE i > Len(s)
    <3>0. i \in Nat /\ j \in Nat /\ j <= Len(s) + Len(t) /\ j > Len(s)
      BY <1>1, <1>2, <2>3
    <3>1. /\ j - Len(s) \in 1..Len(t) /\ Len(s) + (j - Len(s)) = j
          /\ i - Len(s) \in 1..Len(t) /\ Len(s) + (i - Len(s)) = i
          /\ i - Len(s) < j - Len(s)
      BY <1>1, <1>2, <2>3, <3>0
    <3>2. u[j] = t[j - Len(s)] /\ u[i] = t[i - Len(s)]
      BY <1>1, <3>1
    <3> QED BY <1>1, <3>1, <3>2 DEF Sorted
  <2> QED BY <1>1, <2>1, <2>2, <2>3
<1> QED BY <1>2 DEF Sorted, u

LEMMA HeadTail ==
    ASSUME NEW S, NEW s \in Seq(S), s # <<>>
    PROVE  /\ Head(s) \in S
           /\ Tail(s) \in Seq(S)
           /\ \A x : Occurs(x, s) <=> (x = Head(s) \/ Occurs(x, Tail(s)))
<1>1. Len(s) \in Nat \ {0} /\ DOMAIN s = 1..Len(s) /\ Head(s) = s[1]
      /\ Tail(s) \in Seq(S) /\ DOMAIN Tail(s) = 1..(Len(s) - 1)
      /\ (\A i \in 1..(Len(s) - 1) : Tail(s)[i] = s[i + 1])
      /\ s[1] \in S
  OBVIOUS
<1>2. \A x : Occurs(x, s) <=> (x = Head(s) \/ Occurs(x, Tail(s)))
  <2> TAKE x
  <2>1. ASSUME Occurs(x, s) PROVE x = Head(s) \/ Occurs(x, Tail(s))
    <3>1. PICK i \in 1..Len(s) : s[i] = x
      BY <1>1, <2>1 DEF Occurs
    <3>2. CASE i = 1
      BY <1>1, <3>1, <3>2
    <3>3. CASE i > 1
      <4>1. i - 1 \in 1..(Len(s) - 1) /\ (i - 1) + 1 = i
        BY <1>1, <3>3
      <4>2. Tail(s)[i - 1] = x
        BY <1>1, <3>1, <4>1
      <4> QED BY <1>1, <4>1, <4>2 DEF Occurs
    <3> QED BY <3>2, <3>3
  <2>2. ASSUME x = Head(s) PROVE Occurs(x, s)
    BY <1>1, <2>2 DEF Occurs
  <2>3. ASSUME Occurs(x, Tail(s)) PROVE Occurs(x, s)
    <3>1. PICK i \in 1..(Len(s) - 1) : Tail(s)[i] = x
      BY <1>1, <2>3 DEF Occurs
    <3>2. i + 1 \in DOMAIN s /\ s[i + 1] = x
      BY <1>1, <3>1
    <3> QED BY <3>2 DEF Occurs
  <2> QED BY <2>1, <2>2, <2>3
<1> QED BY <1>1, <1>2

LEMMA TailSorted ==
    ASSUME NEW S, NEW s \in Seq(S), NEW st \in [S -> Nat], s # <<>>, Sorted(s, st)
    PROVE  /\ Sorted(Tail(s), st)
           /\ \A i \in DOMAIN Tail(s) : st[Head(s)] <= st[Tail(s)[i]]
<1>1. Len(s) \in Nat \ {0} /\ DOMAIN s = 1..Len(s) /\ Head(s) = s[1]
      /\ DOMAIN Tail(s) = 1..(Len(s) - 1)
      /\ (\A i \in 1..(Len(s) - 1) : Tail(s)[i] = s[i + 1])
  OBVIOUS
<1>2. \A i \in DOMAIN Tail(s) : st[Head(s)] <= st[Tail(s)[i]]
  <2> TAKE i \in DOMAIN Tail(s)
  <2>1. i + 1 \in DOMAIN s /\ 1 \in DOMAIN s /\ 1 < i + 1 /\ Tail(s)[i] = s[i + 1]
    BY <1>1
  <2> QED BY <1>1, <2>1 DEF Sorted
<1>3. Sorted(Tail(s), st)
  <2>1. ASSUME NEW i \in DOMAIN Tail(s), NEW j \in DOMAIN Tail(s), i < j
        PROVE  st[Tail(s)[i]] <= st[Tail(s)[j]]
    <3>1. /\ i + 1 \in DOMAIN s /\ j + 1 \in DOMAIN s /\ i + 1 < j + 1
          /\ Tail(s)[i] = s[i + 1] /\ Tail(s)[j] = s[j + 1]
      BY <1>1, <2>1
    <3> QED BY <3>1 DEF Sorted
  <2> QED BY <2>1 DEF Sorted
<1> QED BY <1>2, <1>3

-----------------------------------------------------------------------------
(* The variables keep their types: the ticks left never leave 0..Debounce, *)
(* what is fetched, held and handed over are rows of the table.            *)
LEMMA TypingInit == Init => TypeOK
<1> SUFFICES ASSUME Init PROVE TypeOK
  OBVIOUS
<1>1. <<>> \in Seq(Events)
  OBVIOUS
<1> QED BY <1>1 DEF Init, TypeOK

LEMMA TypingStep == TypeOK /\ [Next]_vars => TypeOK'
<1> SUFFICES ASSUME TypeOK, [Next]_vars PROVE TypeOK'
  OBVIOUS
<1> USE DEF TypeOK, table, ids, debounce
<1>0. <<>> \in Seq(Events)
  OBVIOUS
<1>1. ASSUME NEW e \in Events, Insert(e) PROVE TypeOK'
  BY <1>1 DEF Insert
<1>2. ASSUME NEW e \in Events, Commit(e) PROVE TypeOK'
  BY <1>2 DEF Commit
<1>3. CASE Tick
  <2>1. timer' \in [Keys -> 0..Debounce]
    BY <1>3 DEF Tick
  <2> QED BY <1>3, <2>1 DEF Tick
<1>4. CASE Start
  BY <1>4 DEF Start
<1>5. CASE Stop
  BY <1>0, <1>5 DEF Stop
<1>6. CASE Fetch
  <2>1. PICK n \in 0..Limit : \E s \in [1..n -> Due] : Ordered(s) /\ rows' = s
    BY <1>6 DEF Fetch
  <2>2. PICK s \in [1..n -> Due] : rows' = s
    BY <2>1
  <2>3. s \in [1..n -> Events] /\ n \in Nat
    BY <2>2 DEF Due
  <2>4. rows' \in Seq(Events)
    BY <2>2, <2>3
  <2> QED BY <1>6, <2>4 DEF Fetch
<1>7. CASE Collect
  <2> DEFINE e == Head(rows)
             k == KeyOf[Head(rows)]
  <2>1. e \in Events /\ Tail(rows) \in Seq(Events) /\ k \in Keys
    BY <1>7, HeadTail DEF Collect
  <2>2. cursor' \in Nat /\ rows' \in Seq(Events)
    BY <1>7, <2>1 DEF Collect
  <2>4. seen' \in SUBSET Events /\ forgotten' \in SUBSET Events
    <3>1. seen \cup {e} \in SUBSET Events
      BY <2>1
    <3>2. CASE Cardinality(seen \cup {e}) > MaxIds
      BY <1>7, <3>1, <3>2 DEF Collect
    <3>3. CASE ~(Cardinality(seen \cup {e}) > MaxIds)
      BY <1>7, <3>1, <3>3 DEF Collect
    <3> QED BY <3>2, <3>3
  <2>3. buffer' \in [Keys -> Seq(Events)] /\ timer' \in [Keys -> 0..Debounce]
    <3>1. CASE e \in seen \/ e \in Ignored
      BY <1>7, <3>1 DEF Collect
    <3>2. CASE ~(e \in seen \/ e \in Ignored)
      <4>1. /\ buffer' = [buffer EXCEPT ![k] = Append(buffer[k], e)]
            /\ timer' = [timer EXCEPT ![k] = Debounce]
        BY <1>7, <3>2 DEF Collect
      <4>2. Append(buffer[k], e) \in Seq(Events) /\ Debounce \in 0..Debounce
        BY <2>1
      <4> QED BY <4>1, <4>2
    <3> QED BY <3>1, <3>2
  <2> QED BY <1>7, <2>2, <2>3, <2>4 DEF Collect
<1>8. CASE SelectReady
  BY <1>8 DEF SelectReady
<1>9. ASSUME NEW k \in Keys, Take(k) PROVE TypeOK'
  <2>1. handed[k] \o buffer[k] \in Seq(Events)
    BY ConcatFacts
  <2>2. handed' = [handed EXCEPT ![k] = handed[k] \o buffer[k]]
    BY <1>9 DEF Take
  <2> QED BY <1>0, <1>9, <2>1, <2>2 DEF Take
<1>10. CASE Finish
  BY <1>10 DEF Finish
<1>11. CASE Raise
  BY <1>11 DEF Raise
<1>12. CASE EndPoll
  BY <1>12 DEF EndPoll
<1>13. CASE UNCHANGED vars
  BY <1>13 DEF vars
<1> QED BY <1>1, <1>2, <1>3, <1>4, <1>5, <1>6, <1>7, <1>8, <1>9, <1>10, <1>11,
           <1>12, <1>13 DEF Next, Loop

(* The state of the relay has its type at all times (TypeOK), whatever the *)
(* writers, the clocks and the restarts do.                                *)
THEOREM Typing == Spec => []TypeOK
<1> QED BY TypingInit, TypingStep, PTL DEF Spec

-----------------------------------------------------------------------------
(* The invariant behind InOrder: where the loop stands decides what it     *)
(* holds, the cursor separates what was collected from what is to come,    *)
(* and what was handed over is not younger than what is held.              *)
Quiet ==
    /\ pc = "down" => /\ seen = {}
                      /\ \A k \in Keys : buffer[k] = <<>>
    /\ pc # "collect" => rows = <<>>
    /\ pc \notin {"work", "process"} => ready = {}

Clocked ==
    /\ clock <= MaxTime
    /\ \A e \in Events : stamp[e] <= clock /\ stamp[e] < MaxTime
    /\ \A e \in visible : stamp[e] > 0
    /\ pc # "down" => started <= cursor /\ cursor <= clock

Placed ==
    /\ \A e \in Events : Occurs(e, rows) => e \in visible /\ cursor <= stamp[e]
    /\ \A k \in Keys, e \in Events :
        /\ Occurs(e, buffer[k]) => /\ e \in visible /\ KeyOf[e] = k
                                   /\ started <= stamp[e] /\ stamp[e] <= cursor
        /\ Occurs(e, handed[k]) => /\ e \in visible /\ KeyOf[e] = k
                                   /\ pc # "down" => stamp[e] <= cursor

Order ==
    /\ Sorted(rows, stamp)
    /\ \A k \in Keys :
        /\ Sorted(handed[k], stamp) /\ Sorted(buffer[k], stamp)
        /\ \A i \in DOMAIN handed[k], j \in DOMAIN buffer[k] :
              stamp[handed[k][i]] <= stamp[buffer[k][j]]

OrderInv == TypeOK /\ Quiet /\ Clocked /\ Placed /\ Order

(* HandedOnce: what is held or was handed over, in this life or an earlier *)
(* one, is before the cursor, unless it is remembered, or was forgotten.   *)
Silent ==
    /\ \A k \in ready : timer[k] = 0
    /\ \A k \in Keys, e \in Events :
        /\ Occurs(e, buffer[k]) => stamp[e] < clock \/ timer[k] > 0
        /\ Occurs(e, handed[k]) => stamp[e] < clock

Remembered ==
    pc # "down" => \A k \in Keys, e \in Events :
        Occurs(e, buffer[k]) \/ Occurs(e, handed[k]) =>
            e \in seen \cup forgotten \/ stamp[e] < cursor

Apart ==
    \A k \in Keys :
        /\ Injective(buffer[k], forgotten) /\ Injective(handed[k], forgotten)
        /\ \A e \in Events :
              Occurs(e, buffer[k]) /\ Occurs(e, handed[k]) => e \in forgotten

OnceInv == OrderInv /\ Silent /\ Remembered /\ Apart

(* NonePassedOver: the cursor is the time of a row, and a row that the     *)
(* loop has not got yet is in its hands or not before its cursor, if no    *)
(* later row was visible before it.                                        *)
Got(e) == Held(e) \/ Handed(e)

AtRow == pc # "down" => cursor = started \/ \E f \in visible : cursor = stamp[f]

SeenGot == \A e \in seen \ Ignored : Got(e)

ToCome ==
    pc # "down" => \A e \in visible \ (Ignored \cup overtaken) :
        stamp[e] >= started =>
            \/ Got(e)
            \/ Occurs(e, rows)
            \/ /\ stamp[e] >= cursor
               /\ \A i \in DOMAIN rows : stamp[rows[i]] <= stamp[e]

PassInv == OrderInv /\ AtRow /\ SeenGot /\ ToCome

-----------------------------------------------------------------------------
LEMMA EmptySeq ==
    /\ \A e : ~Occurs(e, <<>>)
    /\ \A st : Sorted(<<>>, st)
    /\ \A X : Injective(<<>>, X)
BY DEF Occurs, Sorted, Injective

LEMMA OrderInvInit == Init => OrderInv
<1> SUFFICES ASSUME Init PROVE OrderInv
  OBVIOUS
<1>1. TypeOK
  BY TypingInit
<1>2. Quiet /\ Clocked
  BY DEF Init, Quiet, Clocked
<1>3. Placed
  BY EmptySeq DEF Init, Placed
<1>4. Order
  BY EmptySeq DEF Init, Order
<1> QED BY <1>1, <1>2, <1>3, <1>4 DEF OrderInv

(* What an Insert does: only the stamp of a row nobody knows yet changes.  *)
LEMMA InsertKeeps ==
    ASSUME OrderInv, NEW e \in Events, Insert(e)
    PROVE  /\ \A f \in visible : f \in Events /\ stamp'[f] = stamp[f]
           /\ \A k \in Keys : \A i \in DOMAIN buffer[k] : buffer[k][i] \in visible
           /\ \A k \in Keys : \A i \in DOMAIN handed[k] : handed[k][i] \in visible
           /\ \A i \in DOMAIN rows : rows[i] \in visible
           /\ \A f \in Events : stamp'[f] = IF f = e THEN clock ELSE stamp[f]
           /\ UNCHANGED <<clock, visible, overtaken, pc, started, cursor, rows, seen,
                          forgotten, buffer, timer, ready, handed>>
           /\ e \notin visible
<1> USE DEF OrderInv
<1>1. e \notin visible /\ visible \subseteq Events
  BY DEF Insert, Clocked, TypeOK
<1>2. \A f \in Events : stamp'[f] = IF f = e THEN clock ELSE stamp[f]
  BY DEF Insert, TypeOK
<1>3. \A k \in Keys : \A i \in DOMAIN buffer[k] : buffer[k][i] \in visible
  <2> TAKE k \in Keys
  <2> TAKE i \in DOMAIN buffer[k]
  <2>1. buffer[k][i] \in Events /\ Occurs(buffer[k][i], buffer[k])
    BY DEF TypeOK, Occurs
  <2> QED BY <2>1 DEF Placed
<1>4. \A k \in Keys : \A i \in DOMAIN handed[k] : handed[k][i] \in visible
  <2> TAKE k \in Keys
  <2> TAKE i \in DOMAIN handed[k]
  <2>1. handed[k][i] \in Events /\ Occurs(handed[k][i], handed[k])
    BY DEF TypeOK, Occurs
  <2> QED BY <2>1 DEF Placed
<1>5. \A i \in DOMAIN rows : rows[i] \in visible
  <2> TAKE i \in DOMAIN rows
  <2>1. rows[i] \in Events /\ Occurs(rows[i], rows)
    BY DEF TypeOK, Occurs
  <2> QED BY <2>1 DEF Placed
<1> QED BY <1>1, <1>2, <1>3, <1>4, <1>5 DEF Insert, ids, debounce

(* What a Collect that keeps the row does: one event joins one buffer.     *)
LEMMA CollectKeeps ==
    ASSUME OrderInv, Collect,
           NEW e, e = Head(rows), e \notin seen, e \notin Ignored
    PROVE  /\ e \in Events /\ KeyOf[e] \in Keys
           /\ buffer'[KeyOf[e]] = Append(buffer[KeyOf[e]], e)
           /\ timer'[KeyOf[e]] = Debounce
           /\ \A k \in Keys : k # KeyOf[e] => buffer'[k] = buffer[k] /\ timer'[k] = timer[k]
<1>1. e \in Events /\ KeyOf[e] \in Keys
  BY HeadTail DEF OrderInv, TypeOK, Collect
<1>2. /\ buffer' = [buffer EXCEPT ![KeyOf[e]] = Append(@, e)]
      /\ timer' = [timer EXCEPT ![KeyOf[e]] = Debounce]
  BY DEF Collect
<1> QED BY <1>1, <1>2 DEF OrderInv, TypeOK

(* What Head and Tail of the fetched rows are.                             *)
LEMMA RowsFacts ==
    ASSUME OrderInv, rows # <<>>
    PROVE  /\ Head(rows) \in visible /\ Head(rows) \in Events
           /\ cursor <= stamp[Head(rows)]
           /\ \A e \in Events : Occurs(e, rows) <=> (e = Head(rows) \/ Occurs(e, Tail(rows)))
           /\ \A e \in Events : Occurs(e, Tail(rows)) =>
                 /\ e \in visible /\ stamp[Head(rows)] <= stamp[e]
           /\ Sorted(Tail(rows), stamp)
           /\ stamp[Head(rows)] \in Nat
<1>1. rows \in Seq(Events) /\ stamp \in [Events -> Nat]
  BY DEF OrderInv, TypeOK
<1>2. Head(rows) \in Events /\ \A x : Occurs(x, rows) <=> (x = Head(rows) \/ Occurs(x, Tail(rows)))
  BY <1>1, HeadTail
<1>3. Head(rows) \in visible /\ cursor <= stamp[Head(rows)]
  BY <1>2 DEF OrderInv, Placed
<1>4. Sorted(rows, stamp)
  BY DEF OrderInv, Order
<1>5. /\ Sorted(Tail(rows), stamp)
      /\ \A i \in DOMAIN Tail(rows) : stamp[Head(rows)] <= stamp[Tail(rows)[i]]
  BY <1>1, <1>4, TailSorted
<1>6. \A e \in Events : Occurs(e, Tail(rows)) =>
                 /\ e \in visible /\ stamp[Head(rows)] <= stamp[e]
  BY <1>2, <1>5 DEF OrderInv, Placed, Occurs
<1> QED BY <1>1, <1>2, <1>3, <1>5, <1>6

LEMMA FetchFacts ==
    ASSUME OrderInv, Fetch
    PROVE  /\ \A e : Occurs(e, rows') => e \in Due
           /\ Sorted(rows', stamp)
           /\ \A e \in Due : ~Occurs(e, rows') => \A i \in DOMAIN rows' : stamp[rows'[i]] <= stamp[e]
           /\ UNCHANGED <<clock, stamp, visible, overtaken, started, cursor, seen,
                          forgotten, buffer, timer, ready, handed>>
           /\ pc = "sleep" /\ pc' = "collect"
<1>1. PICK n \in 0..Limit : \E s \in [1..n -> Due] : Ordered(s) /\ rows' = s
  BY DEF Fetch
<1>2. PICK s \in [1..n -> Due] : Ordered(s) /\ rows' = s
  BY <1>1
<1>3. \A e : Occurs(e, rows') => e \in Due
  BY <1>2 DEF Occurs
<1>4. Sorted(rows', stamp)
  BY <1>2 DEF Ordered, Sorted
<1>5. \A e \in Due : ~Occurs(e, rows') => \A i \in DOMAIN rows' : stamp[rows'[i]] <= stamp[e]
  BY <1>2 DEF Ordered, Occurs
<1> QED BY <1>3, <1>4, <1>5 DEF Fetch, table, ids, debounce

LEMMA TakeFacts ==
    ASSUME OrderInv, NEW k \in Keys, Take(k)
    PROVE  /\ buffer'[k] = <<>> /\ handed'[k] = handed[k] \o buffer[k]
           /\ \A e : ~Occurs(e, buffer'[k])
           /\ \A e : Occurs(e, handed'[k]) <=> (Occurs(e, handed[k]) \/ Occurs(e, buffer[k]))
           /\ \A l \in Keys : l # k => buffer'[l] = buffer[l] /\ handed'[l] = handed[l]
           /\ UNCHANGED <<clock, stamp, visible, overtaken, started, cursor, rows, seen,
                          forgotten, timer>>
           /\ pc = "work" /\ pc' = "process" /\ k \in ready /\ ready' = ready \ {k}
<1>1. handed[k] \in Seq(Events) /\ buffer[k] \in Seq(Events)
  BY DEF OrderInv, TypeOK
<1>2. buffer'[k] = <<>> /\ handed'[k] = handed[k] \o buffer[k]
  BY DEF Take, OrderInv, TypeOK
<1>3. \A e : Occurs(e, handed'[k]) <=> (Occurs(e, handed[k]) \/ Occurs(e, buffer[k]))
  BY <1>1, <1>2, ConcatFacts
<1>4. \A l \in Keys : l # k => buffer'[l] = buffer[l] /\ handed'[l] = handed[l]
  BY DEF Take, OrderInv, TypeOK
<1> QED BY <1>2, <1>3, <1>4, EmptySeq DEF Take, table, ids

LEMMA OrderInvStep == OrderInv /\ [Next]_vars => OrderInv'
<1> SUFFICES ASSUME OrderInv, [Next]_vars PROVE OrderInv'
  OBVIOUS
<1>0. TypeOK /\ TypeOK'
  BY TypingStep DEF OrderInv
<1>1. ASSUME NEW e \in Events, Insert(e) PROVE OrderInv'
  <2>1. Quiet'
    BY <1>1, InsertKeeps DEF OrderInv, Quiet
  <2>2. Clocked'
    <3>1. /\ clock \in Nat /\ MaxTime \in Nat /\ clock < MaxTime
          /\ UNCHANGED <<clock, visible, pc, started, cursor>>
      BY <1>0, <1>1, RelayAssumption DEF Insert, TypeOK
    <3>2. \A f \in Events : stamp'[f] = IF f = e THEN clock ELSE stamp[f]
      BY <1>1, InsertKeeps
    <3>3. \A f \in visible : f \in Events /\ stamp'[f] = stamp[f]
      BY <1>1, InsertKeeps
    <3> QED BY <3>1, <3>2, <3>3 DEF OrderInv, Clocked
  <2>3. Placed'
    BY <1>1, InsertKeeps DEF OrderInv, Placed
  <2>4. Order'
    <3>1. Sorted(rows, stamp)'
      BY <1>1, InsertKeeps DEF OrderInv, Order, Sorted
    <3>2. ASSUME NEW k \in Keys
          PROVE  /\ Sorted(handed[k], stamp)' /\ Sorted(buffer[k], stamp)'
                 /\ \A i \in DOMAIN handed'[k], j \in DOMAIN buffer'[k] :
                       stamp'[handed'[k][i]] <= stamp'[buffer'[k][j]]
      BY <1>1, InsertKeeps DEF OrderInv, Order, Sorted
    <3> QED BY <3>1, <3>2 DEF Order
  <2> QED BY <1>0, <2>1, <2>2, <2>3, <2>4 DEF OrderInv
<1>2. ASSUME NEW e \in Events, Commit(e) PROVE OrderInv'
  <2>1. Quiet' /\ Clocked'
    BY <1>0, <1>2 DEF OrderInv, Quiet, Clocked, Commit, InFlight, ids, debounce, TypeOK
  <2>2. Placed'
    BY <1>2 DEF OrderInv, Placed, Commit, debounce
  <2>3. Order'
    BY <1>2 DEF OrderInv, Order, Commit, debounce
  <2> QED BY <1>0, <2>1, <2>2, <2>3 DEF OrderInv
<1>3. CASE Tick
  <2>1. Quiet' /\ Clocked'
    BY <1>0, <1>3 DEF OrderInv, Quiet, Clocked, Tick, ids, TypeOK
  <2>2. Placed' /\ Order'
    BY <1>3 DEF OrderInv, Placed, Order, Tick
  <2> QED BY <1>0, <2>1, <2>2 DEF OrderInv
<1>4. CASE Start
  <2>1. Quiet' /\ Clocked'
    BY <1>0, <1>4 DEF OrderInv, Quiet, Clocked, Start, table, ids, debounce, TypeOK
  <2>2. Placed'
    <3>1. rows = <<>> /\ \A k \in Keys : buffer[k] = <<>>
      BY <1>4 DEF Start, OrderInv, Quiet
    <3>2. /\ UNCHANGED <<stamp, visible, rows, buffer, handed>>
          /\ cursor' = clock
      BY <1>4 DEF Start, table, ids, debounce
    <3> QED BY <3>1, <3>2, EmptySeq DEF OrderInv, Placed, Clocked
  <2>3. Order'
    BY <1>4 DEF OrderInv, Order, Start, table, ids, debounce
  <2> QED BY <1>0, <2>1, <2>2, <2>3 DEF OrderInv
<1>5. CASE Stop
  <2>1. /\ rows' = <<>> /\ pc' = "down" /\ seen' = {} /\ ready' = {}
        /\ \A k \in Keys : buffer'[k] = <<>>
        /\ UNCHANGED <<clock, stamp, visible, started, cursor, handed>>
    BY <1>5 DEF Stop, table
  <2>2. Quiet' /\ Clocked'
    BY <2>1 DEF OrderInv, Quiet, Clocked
  <2>3. Placed'
    BY <2>1, EmptySeq DEF OrderInv, Placed
  <2>4. Order'
    BY <2>1, EmptySeq DEF OrderInv, Order
  <2> QED BY <1>0, <2>2, <2>3, <2>4 DEF OrderInv
<1>6. CASE Fetch
  <2>1. Quiet' /\ Clocked'
    BY <1>6, FetchFacts DEF OrderInv, Quiet, Clocked
  <2>2. Placed'
    BY <1>6, FetchFacts DEF OrderInv, Placed, Due
  <2>3. Order'
    BY <1>6, FetchFacts DEF OrderInv, Order
  <2> QED BY <1>0, <2>1, <2>2, <2>3 DEF OrderInv
<1>7. CASE Collect
  <2> DEFINE e == Head(rows)
             k == KeyOf[e]
  <2>1. /\ pc = "collect" /\ rows # <<>> /\ cursor' = stamp[e] /\ rows' = Tail(rows)
        /\ UNCHANGED <<clock, stamp, visible, pc, started, ready, handed>>
    BY <1>7 DEF Collect, table
  <2>2. /\ e \in visible /\ e \in Events /\ cursor <= stamp[e] /\ stamp[e] \in Nat
        /\ \A f \in Events : Occurs(f, Tail(rows)) => f \in visible /\ stamp[e] <= stamp[f]
        /\ Sorted(Tail(rows), stamp)
        /\ cursor \in Nat /\ started \in Nat /\ clock \in Nat /\ started <= cursor
        /\ \A f \in Events : stamp[f] \in Nat /\ stamp[f] <= clock
    BY <1>0, <2>1, RowsFacts DEF OrderInv, Clocked, TypeOK
  <2>3. Quiet' /\ Clocked'
    BY <2>1, <2>2 DEF OrderInv, Quiet, Clocked
  <2>4. CASE e \in seen \/ e \in Ignored
    <3>1. UNCHANGED buffer
      BY <1>7, <2>4 DEF Collect
    <3>2. Placed'
      BY <2>1, <2>2, <3>1 DEF OrderInv, Placed
    <3>3. Order'
      BY <2>1, <2>2, <3>1 DEF OrderInv, Order
    <3> QED BY <1>0, <2>3, <3>2, <3>3 DEF OrderInv
  <2>5. CASE e \notin seen /\ e \notin Ignored
    <3>1. /\ k \in Keys /\ buffer'[k] = Append(buffer[k], e)
          /\ \A l \in Keys : l # k => buffer'[l] = buffer[l]
      BY <1>7, <2>5, CollectKeeps
    <3>2. buffer[k] \in Seq(Events) /\ handed[k] \in Seq(Events) /\ stamp \in [Events -> Nat]
      BY <1>0, <3>1 DEF TypeOK
    <3>3. \A f : Occurs(f, buffer'[k]) <=> (Occurs(f, buffer[k]) \/ f = e)
      BY <2>2, <3>1, <3>2, AppendFacts
    <3>4. Placed'
      <4>1. \A f \in Events : Occurs(f, rows') => f \in visible' /\ cursor' <= stamp'[f]
        BY <2>1, <2>2
      <4>2. ASSUME NEW l \in Keys, NEW f \in Events, Occurs(f, buffer'[l])
            PROVE  /\ f \in visible' /\ KeyOf[f] = l
                   /\ started' <= stamp'[f] /\ stamp'[f] <= cursor'
        <5>1. CASE Occurs(f, buffer[l])
          <6>1. f \in visible /\ KeyOf[f] = l /\ started <= stamp[f] /\ stamp[f] <= cursor
            BY <5>1 DEF OrderInv, Placed
          <6> QED BY <2>1, <2>2, <6>1
        <5>2. CASE ~Occurs(f, buffer[l])
          <6>1. l = k /\ f = e
            BY <3>1, <3>3, <4>2, <5>2
          <6> QED BY <2>1, <2>2, <6>1
        <5> QED BY <5>1, <5>2
      <4>3. ASSUME NEW l \in Keys, NEW f \in Events, Occurs(f, handed'[l])
            PROVE  f \in visible' /\ KeyOf[f] = l /\ stamp'[f] <= cursor'
        <5>1. f \in visible /\ KeyOf[f] = l /\ stamp[f] <= cursor
          BY <2>1, <4>3 DEF OrderInv, Placed
        <5> QED BY <2>1, <2>2, <5>1
      <4> QED BY <4>1, <4>2, <4>3 DEF Placed
    <3>5. Order'
      <4>1. \A i \in DOMAIN buffer[k] : stamp[buffer[k][i]] <= stamp[e]
        <5> TAKE i \in DOMAIN buffer[k]
        <5>1. Occurs(buffer[k][i], buffer[k]) /\ buffer[k][i] \in Events
          BY <3>2 DEF Occurs
        <5>2. stamp[buffer[k][i]] <= cursor
          BY <3>1, <5>1 DEF OrderInv, Placed
        <5> QED BY <2>2, <5>1, <5>2
      <4>2. \A i \in DOMAIN handed[k] : stamp[handed[k][i]] <= stamp[e]
        <5> TAKE i \in DOMAIN handed[k]
        <5>1. Occurs(handed[k][i], handed[k]) /\ handed[k][i] \in Events
          BY <3>2 DEF Occurs
        <5>2. stamp[handed[k][i]] <= cursor
          BY <2>1, <3>1, <5>1 DEF OrderInv, Placed
        <5> QED BY <2>2, <5>1, <5>2
      <4>3. Sorted(buffer[k], stamp)
        BY <3>1 DEF OrderInv, Order
      <4>4. Sorted(buffer'[k], stamp)
        <5>1. Sorted(Append(buffer[k], e), stamp)
          <6> HIDE DEF e, k
          <6> QED BY <2>2, <3>2, <4>1, <4>3, AppendSorted
        <5> QED BY <3>1, <5>1
      <4>5. \A i \in DOMAIN handed[k], j \in DOMAIN buffer'[k] :
                stamp[handed[k][i]] <= stamp[buffer'[k][j]]
        <5> TAKE i \in DOMAIN handed[k], j \in DOMAIN buffer'[k]
        <5>1. Occurs(buffer'[k][j], buffer'[k])
          BY DEF Occurs
        <5>2. CASE buffer'[k][j] = e
          BY <4>2, <5>2
        <5>3. CASE Occurs(buffer'[k][j], buffer[k])
          BY <3>1, <5>3 DEF OrderInv, Order, Occurs
        <5> QED BY <3>3, <5>1, <5>2, <5>3
      <4>6. Sorted(rows', stamp')
        BY <2>1, <2>2
      <4>7. ASSUME NEW l \in Keys
            PROVE  /\ Sorted(handed'[l], stamp') /\ Sorted(buffer'[l], stamp')
                   /\ \A i \in DOMAIN handed'[l], j \in DOMAIN buffer'[l] :
                         stamp'[handed'[l][i]] <= stamp'[buffer'[l][j]]
        <5>1. CASE l = k
          BY <2>1, <4>4, <4>5, <5>1 DEF OrderInv, Order
        <5>2. CASE l # k
          BY <2>1, <3>1, <5>2 DEF OrderInv, Order
        <5> QED BY <5>1, <5>2
      <4> QED BY <4>6, <4>7 DEF Order
    <3> QED BY <1>0, <2>3, <3>4, <3>5 DEF OrderInv
  <2> QED BY <2>4, <2>5
<1>8. CASE SelectReady
  <2>1. Quiet' /\ Clocked'
    BY <1>8 DEF OrderInv, Quiet, Clocked, SelectReady, table, ids
  <2>2. Placed' /\ Order'
    BY <1>8 DEF OrderInv, Placed, Order, SelectReady, table, ids
  <2> QED BY <1>0, <2>1, <2>2 DEF OrderInv
<1>9. ASSUME NEW k \in Keys, Take(k) PROVE OrderInv'
  <2>0. handed[k] \in Seq(Events) /\ buffer[k] \in Seq(Events) /\ stamp \in [Events -> Nat]
    BY <1>0 DEF TypeOK
  <2>1. Quiet' /\ Clocked'
    BY <1>9, TakeFacts DEF OrderInv, Quiet, Clocked
  <2>2. Placed'
    <3>1. \A e \in Events : Occurs(e, rows') => e \in visible' /\ cursor' <= stamp'[e]
      <4>1. rows' = rows /\ visible' = visible /\ cursor' = cursor /\ stamp' = stamp
        BY <1>9, TakeFacts
      <4> QED BY <4>1 DEF OrderInv, Placed
    <3>2. ASSUME NEW l \in Keys, NEW e \in Events
          PROVE  /\ Occurs(e, buffer'[l]) => Occurs(e, buffer[l])
                 /\ Occurs(e, handed'[l]) => Occurs(e, handed[l]) \/ Occurs(e, buffer[l])
      BY <1>9, TakeFacts
    <3>3. pc # "down" /\ UNCHANGED <<stamp, visible, started, cursor>>
      BY <1>9, TakeFacts
    <3>4. ASSUME NEW l \in Keys, NEW e \in Events
          PROVE  /\ Occurs(e, buffer'[l]) => /\ e \in visible' /\ KeyOf[e] = l
                                             /\ started' <= stamp'[e] /\ stamp'[e] <= cursor'
                 /\ Occurs(e, handed'[l]) => /\ e \in visible' /\ KeyOf[e] = l
                                             /\ stamp'[e] <= cursor'
      BY <3>2, <3>3 DEF OrderInv, Placed
    <3> QED BY <3>1, <3>4 DEF Placed
  <2>3. Sorted(handed'[k], stamp)
    <3>1. /\ Sorted(handed[k], stamp) /\ Sorted(buffer[k], stamp)
          /\ \A i \in DOMAIN handed[k], j \in DOMAIN buffer[k] :
                stamp[handed[k][i]] <= stamp[buffer[k][j]]
      BY DEF OrderInv, Order
    <3>2. Sorted(handed[k] \o buffer[k], stamp)
      BY <2>0, <3>1, ConcatSorted
    <3> QED BY <1>9, <3>2, TakeFacts
  <2>4. Order'
    <3>1. Sorted(rows', stamp')
      BY <1>9, TakeFacts DEF OrderInv, Order
    <3>2. ASSUME NEW l \in Keys
          PROVE  /\ Sorted(handed'[l], stamp') /\ Sorted(buffer'[l], stamp')
                 /\ \A i \in DOMAIN handed'[l], j \in DOMAIN buffer'[l] :
                       stamp'[handed'[l][i]] <= stamp'[buffer'[l][j]]
      <4>1. CASE l = k
        <5>1. buffer'[l] = <<>> /\ stamp' = stamp
          BY <1>9, <4>1, TakeFacts
        <5>2. DOMAIN buffer'[l] = {}
          BY <5>1
        <5> QED BY <2>3, <4>1, <5>1, <5>2, EmptySeq
      <4>2. CASE l # k
        BY <1>9, <4>2, TakeFacts DEF OrderInv, Order
      <4> QED BY <4>1, <4>2
    <3> QED BY <3>1, <3>2 DEF Order
  <2> QED BY <1>0, <2>1, <2>2, <2>4 DEF OrderInv
<1>10. CASE Finish \/ Raise \/ EndPoll
  <2>1. /\ UNCHANGED <<clock, stamp, visible, started, cursor, rows, seen, buffer, handed>>
        /\ pc' \in {"work", "sleep"} /\ pc \in {"process", "work"}
        /\ pc' = "sleep" => ready' = {}
    BY <1>10 DEF Finish, Raise, EndPoll, table, ids, debounce
  <2>2. Quiet' /\ Clocked'
    BY <2>1 DEF OrderInv, Quiet, Clocked
  <2>3. Placed' /\ Order'
    BY <2>1 DEF OrderInv, Placed, Order
  <2> QED BY <1>0, <2>2, <2>3 DEF OrderInv
<1>11. CASE UNCHANGED vars
  BY <1>0, <1>11 DEF OrderInv, Quiet, Clocked, Placed, Order, vars
<1> QED BY <1>1, <1>2, <1>3, <1>4, <1>5, <1>6, <1>7, <1>8, <1>9, <1>10, <1>11 DEF Next, Loop

(* InOrder: what the agent was given of one key is in the order of the     *)
(* table, for every number of writers, polls and restarts, and even when   *)
(* _processed_event_ids was cleared.                                       *)
THEOREM InOrderHolds == Spec => []InOrder
<1>1. OrderInv => InOrder
  BY DEF OrderInv, Order, Sorted, InOrder
<1> QED BY <1>1, OrderInvInit, OrderInvStep, PTL DEF Spec

-----------------------------------------------------------------------------
LEMMA OnceInvInit == Init => OnceInv
<1> SUFFICES ASSUME Init PROVE OnceInv
  OBVIOUS
<1>1. OrderInv
  BY OrderInvInit
<1>2. Silent /\ Remembered /\ Apart
  BY EmptySeq DEF Init, Silent, Remembered, Apart
<1> QED BY <1>1, <1>2 DEF OnceInv

(* Collect puts the row among the ids, or forgets with them what has its   *)
(* time; nothing else is forgotten.                                        *)
LEMMA CollectRemembers ==
    ASSUME OnceInv, Collect
    PROVE  /\ cursor' = stamp[Head(rows)] /\ forgotten \subseteq forgotten'
           /\ Head(rows) \in seen' \cup forgotten'
           /\ \A f \in Events :
                 (f \in seen \cup forgotten \/ stamp[f] < cursor) /\ stamp[f] <= cursor'
                    => f \in seen' \cup forgotten' \/ stamp[f] < cursor'
<1> DEFINE e == Head(rows)
<1>1. /\ e \in Events /\ cursor' = stamp[e] /\ cursor <= stamp[e]
      /\ cursor \in Nat /\ stamp \in [Events -> Nat]
  BY RowsFacts DEF OnceInv, OrderInv, TypeOK, Collect
<1>2. CASE Cardinality(seen \cup {e}) > MaxIds
  <2>1. forgotten' = forgotten \cup {f \in seen \cup {e} : stamp[f] = stamp[e]}
    BY <1>2 DEF Collect
  <2> QED BY <1>1, <2>1
<1>3. CASE ~(Cardinality(seen \cup {e}) > MaxIds)
  <2>1. seen' = seen \cup {e} /\ forgotten' = forgotten
    BY <1>3 DEF Collect
  <2> QED BY <1>1, <2>1
<1> QED BY <1>2, <1>3

LEMMA OnceInvStep == OnceInv /\ [Next]_vars => OnceInv'
<1> SUFFICES ASSUME OnceInv, [Next]_vars PROVE OnceInv'
  OBVIOUS
<1>0. OrderInv /\ OrderInv' /\ TypeOK /\ TypeOK'
  BY OrderInvStep DEF OnceInv, OrderInv
<1>1. ASSUME NEW e \in Events, Insert(e) PROVE OnceInv'
  <2>1. Silent'
    <3>1. \A k \in Keys, f \in Events :
            Occurs(f, buffer[k]) \/ Occurs(f, handed[k]) => stamp'[f] = stamp[f]
      BY <1>0, <1>1, InsertKeeps DEF Occurs
    <3> QED BY <1>0, <1>1, <3>1, InsertKeeps DEF OnceInv, Silent
  <2>2. Remembered'
    <3>1. \A k \in Keys, f \in Events :
            Occurs(f, buffer[k]) \/ Occurs(f, handed[k]) => stamp'[f] = stamp[f]
      BY <1>0, <1>1, InsertKeeps DEF Occurs
    <3> QED BY <1>0, <1>1, <3>1, InsertKeeps DEF OnceInv, Remembered
  <2>3. Apart'
    BY <1>0, <1>1, InsertKeeps DEF OnceInv, Apart
  <2> QED BY <1>0, <2>1, <2>2, <2>3 DEF OnceInv
<1>2. ASSUME NEW e \in Events, Commit(e) PROVE OnceInv'
  BY <1>0, <1>2 DEF OnceInv, Silent, Remembered, Apart, Commit, ids, debounce
<1>3. CASE Tick
  <2>1. /\ UNCHANGED <<stamp, visible, pc, started, cursor, rows, seen, forgotten,
                       buffer, ready, handed>>
        /\ \A k \in Keys : timer'[k] = IF timer[k] = 0 THEN 0 ELSE timer[k] - 1
        /\ \A k \in Keys : timer[k] \in Nat
        /\ clock' = IF clock < MaxTime THEN clock + 1 ELSE clock
        /\ clock \in Nat /\ MaxTime \in Nat /\ clock <= MaxTime
        /\ \A e \in Events : stamp[e] \in Nat /\ stamp[e] < MaxTime /\ stamp[e] <= clock
    BY <1>0, <1>3 DEF Tick, ids, TypeOK, OrderInv, Clocked
  <2>2. \A e \in Events : stamp[e] < clock'
    BY <2>1
  <2>3. Silent'
    <3>1. \A k \in ready' : timer'[k] = 0
      BY <1>0, <2>1 DEF OnceInv, Silent, TypeOK
    <3>2. ASSUME NEW k \in Keys, NEW e \in Events
          PROVE  /\ Occurs(e, buffer'[k]) => stamp'[e] < clock' \/ timer'[k] > 0
                 /\ Occurs(e, handed'[k]) => stamp'[e] < clock'
      BY <2>1, <2>2
    <3> QED BY <3>1, <3>2 DEF Silent
  <2>4. Remembered' /\ Apart'
    BY <2>1 DEF OnceInv, Remembered, Apart
  <2> QED BY <1>0, <2>3, <2>4 DEF OnceInv
<1>4. CASE Start
  <2>1. /\ UNCHANGED <<clock, stamp, visible, rows, seen, forgotten, buffer, timer, ready, handed>>
        /\ cursor' = clock /\ \A k \in Keys : buffer[k] = <<>>
    BY <1>0, <1>4 DEF Start, table, ids, debounce, OrderInv, Quiet
  <2>2. Silent' /\ Apart'
    BY <2>1 DEF OnceInv, Silent, Apart
  <2>3. Remembered'
    BY <2>1, EmptySeq DEF OnceInv, Silent, Remembered
  <2> QED BY <1>0, <2>2, <2>3 DEF OnceInv
<1>5. CASE Stop
  <2>1. /\ pc' = "down" /\ ready' = {}
        /\ \A k \in Keys : buffer'[k] = <<>>
        /\ UNCHANGED <<clock, stamp, visible, started, cursor, forgotten, handed>>
    BY <1>5 DEF Stop, table
  <2>2. Silent' /\ Remembered' /\ Apart'
    BY <2>1, EmptySeq DEF OnceInv, Silent, Remembered, Apart
  <2> QED BY <1>0, <2>2 DEF OnceInv
<1>6. CASE Fetch
  <2>1. /\ UNCHANGED <<clock, stamp, cursor, seen, forgotten, buffer, timer, ready, handed>>
        /\ pc # "down"
    BY <1>0, <1>6, FetchFacts
  <2> QED BY <1>0, <2>1 DEF OnceInv, Silent, Remembered, Apart
<1>7. CASE Collect
  <2> DEFINE e == Head(rows)
             k == KeyOf[e]
  <2>1. /\ pc = "collect" /\ rows # <<>>
        /\ UNCHANGED <<clock, stamp, visible, pc, started, ready, handed>>
    BY <1>7 DEF Collect, table
  <2>2. e \in Events /\ cursor <= stamp[e] /\ e \in visible
    BY <1>0, <2>1, RowsFacts
  <2>3. ready = {}
    BY <1>0, <2>1 DEF OrderInv, Quiet
  <2>4. /\ cursor' = stamp[e] /\ forgotten \subseteq forgotten'
        /\ e \in seen' \cup forgotten'
        /\ \A f \in Events :
              (f \in seen \cup forgotten \/ stamp[f] < cursor) /\ stamp[f] <= cursor'
                 => f \in seen' \cup forgotten' \/ stamp[f] < cursor'
    BY <1>7, CollectRemembers
  <2>10. ASSUME NEW l \in Keys, NEW f \in Events,
                Occurs(f, buffer[l]) \/ Occurs(f, handed[l])
         PROVE  f \in seen' \cup forgotten' \/ stamp'[f] < cursor'
    <3>1. f \in seen \cup forgotten \/ stamp[f] < cursor
      BY <2>1, <2>10 DEF OnceInv, Remembered
    <3>2. stamp[f] <= cursor
      BY <1>0, <2>1, <2>10 DEF OrderInv, Placed
    <3>3. stamp[f] <= cursor'
      <4>1. stamp[f] \in Nat /\ cursor \in Nat /\ cursor' \in Nat /\ cursor <= cursor'
        BY <1>0, <2>2, <2>4 DEF TypeOK
      <4> QED BY <3>2, <4>1
    <3> QED BY <2>1, <2>4, <3>1, <3>3
  <2>5. CASE e \in seen \/ e \in Ignored
    <3>1. UNCHANGED <<buffer, timer>>
      BY <1>7, <2>5 DEF Collect
    <3>2. Silent' /\ Apart'
      BY <2>1, <2>4, <3>1 DEF OnceInv, Silent, Apart, Injective
    <3>3. Remembered'
      BY <2>1, <2>10, <3>1 DEF Remembered
    <3> QED BY <1>0, <3>2, <3>3 DEF OnceInv
  <2>6. CASE e \notin seen /\ e \notin Ignored
    <3>1. /\ k \in Keys /\ buffer'[k] = Append(buffer[k], e) /\ timer'[k] = Debounce
          /\ \A l \in Keys : l # k => buffer'[l] = buffer[l] /\ timer'[l] = timer[l]
      BY <1>0, <1>7, <2>6, CollectKeeps
    <3>2. buffer[k] \in Seq(Events)
      BY <1>0, <3>1 DEF TypeOK
    <3>3. \A f : Occurs(f, buffer'[k]) <=> (Occurs(f, buffer[k]) \/ f = e)
      BY <2>2, <3>1, <3>2, AppendFacts
    <3>4. Occurs(e, buffer[k]) \/ Occurs(e, handed[k]) => e \in forgotten
      <4>1. ~(stamp[e] < cursor)
        BY <1>0, <2>2 DEF TypeOK
      <4> QED BY <2>1, <2>2, <2>6, <3>1, <4>1 DEF OnceInv, Remembered
    <3>5. Injective(buffer'[k], forgotten')
      <4>1. Injective(buffer[k], forgotten)
        BY <3>1 DEF OnceInv, Apart
      <4>2. Injective(Append(buffer[k], e), forgotten)
        <5> HIDE DEF e, k
        <5> QED BY <2>2, <3>2, <3>4, <4>1, AppendFacts
      <4> QED BY <2>4, <3>1, <4>2 DEF Injective
    <3>6. Silent'
      <4>1. ASSUME NEW l \in Keys, NEW f \in Events, Occurs(f, buffer'[l])
            PROVE  stamp'[f] < clock' \/ timer'[l] > 0
        <5>1. CASE l = k
          BY <3>1, <5>1
        <5>2. CASE l # k
          BY <2>1, <3>1, <4>1, <5>2 DEF OnceInv, Silent
        <5> QED BY <5>1, <5>2
      <4> QED BY <2>1, <2>3, <4>1 DEF OnceInv, Silent
    <3>7. Remembered'
      <4>1. ASSUME NEW l \in Keys, NEW f \in Events, Occurs(f, buffer'[l]) \/ Occurs(f, handed'[l])
            PROVE  f \in seen' \cup forgotten' \/ stamp'[f] < cursor'
        <5>1. CASE f = e
          BY <2>4, <5>1
        <5>2. CASE f # e
          <6>1. Occurs(f, buffer[l]) \/ Occurs(f, handed[l])
            BY <2>1, <3>1, <3>3, <4>1, <5>2
          <6> QED BY <2>10, <6>1
        <5> QED BY <5>1, <5>2
      <4> QED BY <4>1 DEF Remembered
    <3>8. Apart'
      <4>1. ASSUME NEW l \in Keys
            PROVE  /\ Injective(buffer'[l], forgotten') /\ Injective(handed'[l], forgotten')
                   /\ \A f \in Events :
                         Occurs(f, buffer'[l]) /\ Occurs(f, handed'[l]) => f \in forgotten'
        <5>0. /\ Injective(buffer[l], forgotten) /\ Injective(handed[l], forgotten)
              /\ \A f \in Events : Occurs(f, buffer[l]) /\ Occurs(f, handed[l]) => f \in forgotten
              /\ forgotten \subseteq forgotten' /\ handed' = handed
          BY <2>1, <2>4 DEF OnceInv, Apart
        <5>1. CASE l = k
          <6>1. Injective(handed'[l], forgotten')
            BY <5>0 DEF Injective
          <6> QED BY <3>3, <3>4, <3>5, <5>0, <5>1, <6>1
        <5>2. CASE l # k
          <6>1. buffer'[l] = buffer[l]
            BY <3>1, <5>2
          <6> QED BY <5>0, <6>1 DEF Injective
        <5> QED BY <5>1, <5>2
      <4> QED BY <4>1 DEF Apart
    <3> QED BY <1>0, <3>6, <3>7, <3>8 DEF OnceInv
  <2> QED BY <2>5, <2>6
<1>8. CASE SelectReady
  <2>1. /\ UNCHANGED <<clock, stamp, cursor, seen, forgotten, buffer, timer, handed>>
        /\ pc # "down" /\ \A k \in ready' : timer[k] = 0
    BY <1>8 DEF SelectReady, table, ids
  <2> QED BY <1>0, <2>1 DEF OnceInv, Silent, Remembered, Apart
<1>9. ASSUME NEW k \in Keys, Take(k) PROVE OnceInv'
  <2>1. /\ \A e : ~Occurs(e, buffer'[k])
        /\ \A e : Occurs(e, handed'[k]) <=> (Occurs(e, handed[k]) \/ Occurs(e, buffer[k]))
        /\ \A l \in Keys : l # k => buffer'[l] = buffer[l] /\ handed'[l] = handed[l]
        /\ UNCHANGED <<clock, stamp, visible, started, cursor, rows, seen, forgotten, timer>>
        /\ pc # "down" /\ k \in ready /\ ready' \subseteq ready
        /\ buffer'[k] = <<>> /\ handed'[k] = handed[k] \o buffer[k]
    BY <1>0, <1>9, TakeFacts
  <2>2. Silent'
    <3>1. timer[k] = 0
      BY <2>1 DEF OnceInv, Silent
    <3>2. ASSUME NEW l \in Keys, NEW e \in Events
          PROVE  /\ Occurs(e, buffer'[l]) => stamp'[e] < clock' \/ timer'[l] > 0
                 /\ Occurs(e, handed'[l]) => stamp'[e] < clock'
      <4>0. /\ Occurs(e, buffer[l]) => stamp[e] < clock \/ timer[l] > 0
            /\ Occurs(e, handed[l]) => stamp[e] < clock
            /\ stamp' = stamp /\ clock' = clock /\ timer' = timer
        BY <2>1 DEF OnceInv, Silent
      <4>1. CASE l = k
        <5>1. /\ ~Occurs(e, buffer'[l]) /\ timer[l] = 0
              /\ Occurs(e, handed'[l]) => Occurs(e, handed[l]) \/ Occurs(e, buffer[l])
          BY <2>1, <3>1, <4>1
        <5>2. ~(timer[l] > 0)
          BY <5>1
        <5> QED BY <4>0, <5>1, <5>2
      <4>2. CASE l # k
        BY <2>1, <4>0, <4>2
      <4> QED BY <4>1, <4>2
    <3>3. \A l \in ready' : timer'[l] = 0
      BY <2>1 DEF OnceInv, Silent
    <3> QED BY <3>2, <3>3 DEF Silent
  <2>3. Remembered'
    <3>1. ASSUME NEW l \in Keys, NEW e \in Events, Occurs(e, buffer'[l]) \/ Occurs(e, handed'[l])
          PROVE  Occurs(e, buffer[l]) \/ Occurs(e, handed[l])
      <4>1. CASE l = k
        BY <2>1, <3>1, <4>1
      <4>2. CASE l # k
        BY <2>1, <3>1, <4>2
      <4> QED BY <4>1, <4>2
    <3> QED BY <2>1, <3>1 DEF OnceInv, Remembered
  <2>4. Apart'
    <3>1. handed[k] \in Seq(Events) /\ buffer[k] \in Seq(Events)
      BY <1>0 DEF TypeOK
    <3>2. /\ Injective(handed[k], forgotten) /\ Injective(buffer[k], forgotten)
          /\ \A x \in Events : Occurs(x, handed[k]) /\ Occurs(x, buffer[k]) => x \in forgotten
      BY DEF OnceInv, Apart
    <3>3. \A x : Occurs(x, handed[k]) /\ Occurs(x, buffer[k]) => x \in forgotten
      <4>1. \A x : Occurs(x, buffer[k]) => x \in Events
        BY <3>1 DEF Occurs
      <4> QED BY <3>2, <4>1
    <3>4. Injective(handed[k] \o buffer[k], forgotten)
      BY <3>1, <3>2, <3>3, ConcatFacts
    <3>5. ASSUME NEW l \in Keys
          PROVE  /\ Injective(buffer'[l], forgotten) /\ Injective(handed'[l], forgotten)
                 /\ \A x \in Events :
                       Occurs(x, buffer'[l]) /\ Occurs(x, handed'[l]) => x \in forgotten
      <4>1. CASE l = k
        BY <2>1, <3>4, <4>1, EmptySeq
      <4>2. CASE l # k
        BY <2>1, <4>2 DEF OnceInv, Apart
      <4> QED BY <4>1, <4>2
    <3> QED BY <2>1, <3>5 DEF Apart
  <2> QED BY <1>0, <2>2, <2>3, <2>4 DEF OnceInv
<1>10. CASE Finish \/ Raise \/ EndPoll
  <2>1. /\ UNCHANGED <<clock, stamp, cursor, seen, forgotten, buffer, timer, handed>>
        /\ pc # "down" /\ ready' \subseteq ready
    BY <1>10 DEF Finish, Raise, EndPoll, table, ids, debounce
  <2> QED BY <1>0, <2>1 DEF OnceInv, Silent, Remembered, Apart
<1>11. CASE UNCHANGED vars
  BY <1>0, <1>11 DEF OnceInv, Silent, Remembered, Apart, vars
<1> QED BY <1>1, <1>2, <1>3, <1>4, <1>5, <1>6, <1>7, <1>8, <1>9, <1>10, <1>11 DEF Next, Loop

(* HandedOnce: no message is given to the agent twice, in one life of the  *)
(* process or over many, but for rows with the time of the cursor at the   *)
(* moment when the ids are cleared; for every bound on the ids.            *)
THEOREM HandedOnceHolds == Spec => []HandedOnce
<1>1. OnceInv => HandedOnce
  BY DEF OnceInv, Apart, Injective, HandedOnce
<1> QED BY <1>1, OnceInvInit, OnceInvStep, PTL DEF Spec

-----------------------------------------------------------------------------
LEMMA PassInvInit == Init => PassInv
<1> SUFFICES ASSUME Init PROVE PassInv
  OBVIOUS
<1>1. OrderInv
  BY OrderInvInit
<1>2. AtRow /\ SeenGot /\ ToCome
  BY DEF Init, AtRow, SeenGot, ToCome
<1> QED BY <1>1, <1>2 DEF PassInv

LEMMA PassInvStep == PassInv /\ [Next]_vars => PassInv'
<1> SUFFICES ASSUME PassInv, [Next]_vars PROVE PassInv'
  OBVIOUS
<1>0. OrderInv /\ OrderInv' /\ TypeOK /\ TypeOK'
  BY OrderInvStep DEF PassInv, OrderInv
<1>1. ASSUME NEW e \in Events, Insert(e) PROVE PassInv'
  <2>1. /\ \A f \in visible : f \in Events /\ stamp'[f] = stamp[f]
        /\ \A i \in DOMAIN rows : rows[i] \in visible
        /\ \A f \in Events : stamp'[f] = IF f = e THEN clock ELSE stamp[f]
        /\ UNCHANGED <<clock, visible, overtaken, pc, started, cursor, rows, seen,
                       buffer, timer, ready, handed>>
        /\ e \notin visible
    BY <1>0, <1>1, InsertKeeps
  <2>3. AtRow'
    BY <2>1 DEF PassInv, AtRow
  <2>4. SeenGot' /\ ToCome'
    BY <2>1 DEF PassInv, SeenGot, ToCome, Got, Held, Handed
  <2> QED BY <1>0, <2>3, <2>4 DEF PassInv
<1>2. ASSUME NEW e \in Events, Commit(e) PROVE PassInv'
  <2>1. /\ e \in InFlight /\ visible' = visible \cup {e}
        /\ overtaken \subseteq overtaken'
        /\ e \notin overtaken' => \A f \in visible : ~(stamp[e] < stamp[f])
        /\ UNCHANGED <<clock, stamp, pc, started, cursor, rows, seen, buffer, handed>>
    BY <1>2 DEF Commit, ids, debounce
  <2>3. AtRow'
    BY <2>1 DEF PassInv, AtRow
  <2>4. SeenGot'
    BY <2>1 DEF PassInv, SeenGot, Got, Held, Handed
  <2>5. ToCome'
    <3>1. SUFFICES ASSUME pc # "down", stamp[e] >= started, e \notin overtaken'
                   PROVE  /\ stamp[e] >= cursor
                          /\ \A i \in DOMAIN rows : stamp[rows[i]] <= stamp[e]
      BY <2>1 DEF PassInv, ToCome, Got, Held, Handed
    <3>2. \A f \in visible : stamp[f] <= stamp[e]
      BY <1>0, <2>1, <3>1 DEF TypeOK
    <3>3. \A i \in DOMAIN rows : rows[i] \in visible
      BY <1>0 DEF OrderInv, Placed, Occurs, TypeOK
    <3>4. cursor = started \/ \E f \in visible : cursor = stamp[f]
      BY <3>1 DEF PassInv, AtRow
    <3> QED BY <3>1, <3>2, <3>3, <3>4
  <2> QED BY <1>0, <2>3, <2>4, <2>5 DEF PassInv
<1>3. CASE Tick
  <2>1. UNCHANGED <<stamp, visible, overtaken, pc, started, cursor, rows, seen, buffer, handed>>
    BY <1>3 DEF Tick, ids
  <2> QED BY <1>0, <2>1 DEF PassInv, AtRow, SeenGot, ToCome, Got, Held, Handed
<1>4. CASE Start
  <2>1. /\ UNCHANGED <<stamp, visible, overtaken, rows, seen, buffer, handed>>
        /\ started' = clock /\ cursor' = clock /\ rows = <<>>
    BY <1>0, <1>4 DEF Start, table, ids, debounce, OrderInv, Quiet
  <2>2. AtRow'
    BY <2>1 DEF PassInv, AtRow
  <2>3. SeenGot'
    BY <2>1 DEF PassInv, SeenGot, Got, Held, Handed
  <2>4. ToCome'
    <3>1. DOMAIN rows' = {}
      BY <2>1
    <3> QED BY <2>1, <3>1 DEF ToCome
  <2> QED BY <1>0, <2>2, <2>3, <2>4 DEF PassInv
<1>5. CASE Stop
  <2>1. pc' = "down" /\ seen' = {} /\ UNCHANGED <<stamp, visible, overtaken>>
    BY <1>5 DEF Stop, table, ids
  <2> QED BY <1>0, <2>1 DEF PassInv, AtRow, SeenGot, ToCome
<1>6. CASE Fetch
  <2>1. /\ UNCHANGED <<stamp, visible, overtaken, started, cursor, seen, buffer, handed>>
        /\ \A e \in Due : ~Occurs(e, rows') => \A i \in DOMAIN rows' : stamp[rows'[i]] <= stamp[e]
        /\ pc = "sleep"
    BY <1>0, <1>6, FetchFacts
  <2>2. AtRow' /\ SeenGot'
    BY <2>1 DEF PassInv, AtRow, SeenGot, Got, Held, Handed
  <2>3. ToCome'
    <3>1. SUFFICES ASSUME NEW e \in visible \ (Ignored \cup overtaken), stamp[e] >= started, ~Got(e)
                   PROVE  \/ Occurs(e, rows')
                          \/ /\ stamp[e] >= cursor
                             /\ \A i \in DOMAIN rows' : stamp[rows'[i]] <= stamp[e]
      BY <2>1 DEF ToCome, Got, Held, Handed
    <3>2. ~Occurs(e, rows)
      BY <1>0, <2>1, EmptySeq DEF OrderInv, Quiet
    <3>3. stamp[e] >= cursor
      BY <2>1, <3>1, <3>2 DEF PassInv, ToCome
    <3>4. e \in Due
      BY <3>3 DEF Due
    <3> QED BY <2>1, <3>3, <3>4
  <2> QED BY <1>0, <2>2, <2>3 DEF PassInv
<1>7. CASE Collect
  <2>0. PICK e \in Events : e = Head(rows)
    BY <1>0, <1>7, RowsFacts DEF Collect
  <2> DEFINE k == KeyOf[e]
  <2>1. /\ pc = "collect" /\ rows # <<>> /\ cursor' = stamp[e] /\ rows' = Tail(rows)
        /\ UNCHANGED <<clock, stamp, visible, overtaken, pc, started, ready, handed>>
        /\ seen' \subseteq seen \cup {e}
    BY <1>7, <2>0 DEF Collect, table, ids
  <2>2. /\ e \in visible /\ e \in Events /\ stamp[e] \in Nat
        /\ \A f \in Events : Occurs(f, rows) <=> (f = e \/ Occurs(f, Tail(rows)))
        /\ \A f \in Events : Occurs(f, Tail(rows)) => stamp[e] <= stamp[f]
        /\ rows \in Seq(Events) /\ visible \subseteq Events
        /\ Tail(rows) \in Seq(Events)
    BY <1>0, <2>0, <2>1, RowsFacts, HeadTail DEF TypeOK
  <2>3. \A f \in Events : Got(f) => Got(f)'
    <3>1. CASE e \in seen \/ e \in Ignored
      <4>1. UNCHANGED buffer
        BY <1>7, <2>0, <3>1 DEF Collect
      <4> QED BY <2>1, <4>1 DEF Got, Held, Handed
    <3>2. CASE e \notin seen /\ e \notin Ignored
      <4>1. /\ k \in Keys /\ buffer'[k] = Append(buffer[k], e)
            /\ \A l \in Keys : l # k => buffer'[l] = buffer[l]
        BY <1>0, <1>7, <2>0, <3>2, CollectKeeps
      <4>2. buffer[k] \in Seq(Events)
        BY <1>0, <4>1 DEF TypeOK
      <4>3. \A f : Occurs(f, buffer[k]) => Occurs(f, buffer'[k])
        BY <2>2, <4>1, <4>2, AppendFacts
      <4>4. \A f \in Events : KeyOf[f] \in Keys
        OBVIOUS
      <4> QED BY <2>1, <4>1, <4>3, <4>4 DEF Got, Held, Handed
    <3> QED BY <3>1, <3>2
  <2>4. e \in Ignored \/ Got(e)'
    <3>1. CASE e \in seen
      BY <2>2, <2>3, <3>1 DEF PassInv, SeenGot
    <3>2. CASE e \notin seen /\ e \notin Ignored
      <4>1. k \in Keys /\ buffer'[k] = Append(buffer[k], e)
        BY <1>0, <1>7, <2>0, <3>2, CollectKeeps
      <4>2. buffer[k] \in Seq(Events)
        BY <1>0, <4>1 DEF TypeOK
      <4>3. Occurs(e, buffer'[k])
        BY <2>2, <4>1, <4>2, AppendFacts
      <4> QED BY <4>3 DEF Got, Held
    <3> QED BY <3>1, <3>2
  <2>5. AtRow'
    BY <2>1, <2>2 DEF PassInv, AtRow
  <2>6. SeenGot'
    <3>1. seen \subseteq Events
      BY <1>0 DEF TypeOK
    <3> QED BY <2>1, <2>2, <2>3, <2>4, <3>1 DEF PassInv, SeenGot
  <2>7. ToCome'
    <3>1. SUFFICES ASSUME NEW f \in visible \ (Ignored \cup overtaken), stamp[f] >= started, ~Got(f)'
                   PROVE  \/ Occurs(f, Tail(rows))
                          \/ /\ stamp[f] >= stamp[e]
                             /\ \A i \in DOMAIN Tail(rows) : stamp[Tail(rows)[i]] <= stamp[f]
      BY <2>1 DEF ToCome
    <3>2. f \in Events /\ f # e /\ ~Got(f)
      BY <2>2, <2>3, <2>4, <3>1
    <3>3. CASE Occurs(f, rows)
      BY <2>2, <3>2, <3>3
    <3>4. CASE ~Occurs(f, rows)
      <4>1. \A i \in DOMAIN rows : stamp[rows[i]] <= stamp[f]
        BY <2>1, <3>1, <3>2, <3>4 DEF PassInv, ToCome
      <4>2. \A g \in Events : Occurs(g, rows) => stamp[g] <= stamp[f]
        BY <4>1 DEF Occurs
      <4>3. stamp[e] <= stamp[f]
        BY <2>2, <4>2
      <4>4. \A i \in DOMAIN Tail(rows) : /\ Tail(rows)[i] \in Events
                                         /\ Occurs(Tail(rows)[i], Tail(rows))
        BY <2>2 DEF Occurs
      <4>5. \A i \in DOMAIN Tail(rows) : stamp[Tail(rows)[i]] <= stamp[f]
        BY <2>2, <4>2, <4>4
      <4> QED BY <1>0, <4>3, <4>5 DEF TypeOK
    <3> QED BY <3>3, <3>4
  <2> QED BY <1>0, <2>5, <2>6, <2>7 DEF PassInv
<1>8. CASE SelectReady \/ Finish \/ Raise \/ EndPoll
  <2>1. /\ UNCHANGED <<stamp, visible, overtaken, started, cursor, rows, seen, buffer, handed>>
        /\ pc # "down" /\ pc' # "down"
    BY <1>8 DEF SelectReady, Finish, Raise, EndPoll, table, ids, debounce
  <2> QED BY <1>0, <2>1 DEF PassInv, AtRow, SeenGot, ToCome, Got, Held, Handed
<1>9. ASSUME NEW k \in Keys, Take(k) PROVE PassInv'
  <2>1. /\ \A e : Occurs(e, handed'[k]) <=> (Occurs(e, handed[k]) \/ Occurs(e, buffer[k]))
        /\ \A l \in Keys : l # k => buffer'[l] = buffer[l] /\ handed'[l] = handed[l]
        /\ stamp' = stamp /\ visible' = visible /\ overtaken' = overtaken /\ started' = started
        /\ cursor' = cursor /\ rows' = rows /\ seen' = seen
        /\ pc # "down"
    BY <1>0, <1>9, TakeFacts
  <2>2. \A f \in Events : Got(f) => Got(f)'
    <3> TAKE f \in Events
    <3>1. CASE KeyOf[f] = k
      BY <2>1, <3>1 DEF Got, Held, Handed
    <3>2. CASE KeyOf[f] # k
      BY <2>1, <3>2 DEF Got, Held, Handed
    <3> QED BY <3>1, <3>2
  <2>3. visible \subseteq Events /\ seen \subseteq Events
    BY <1>0 DEF TypeOK
  <2>4. AtRow' /\ SeenGot'
    BY <2>1, <2>2, <2>3 DEF PassInv, AtRow, SeenGot
  <2>5. ToCome'
    BY <2>1, <2>2, <2>3 DEF PassInv, ToCome
  <2> QED BY <1>0, <2>4, <2>5 DEF PassInv
<1>10. CASE UNCHANGED vars
  BY <1>0, <1>10 DEF PassInv, AtRow, SeenGot, ToCome, Got, Held, Handed, vars
<1> QED BY <1>1, <1>2, <1>3, <1>4, <1>5, <1>6, <1>7, <1>8, <1>9, <1>10 DEF Next, Loop

(* NonePassedOver: the cursor passes no message over that was not overtaken*)
(* by a later one of another writer; for any number of writers.            *)
THEOREM NonePassedOverHolds == Spec => []NonePassedOver
<1>1. PassInv => NonePassedOver
  <2> SUFFICES ASSUME PassInv, pc # "down", NEW e \in visible \ (Ignored \cup overtaken),
                      started <= stamp[e], stamp[e] < cursor
               PROVE  Got(e)
    BY DEF NonePassedOver, Got
  <2>1. e \in Events /\ stamp[e] \in Nat /\ cursor \in Nat /\ started \in Nat
    BY DEF PassInv, OrderInv, TypeOK
  <2>2. ~Occurs(e, rows)
    BY <2>1 DEF PassInv, OrderInv, Placed
  <2> QED BY <2>1, <2>2 DEF PassInv, ToCome
<1> QED BY <1>1, PassInvInit, PassInvStep, PTL DEF Spec
=============================================================================
