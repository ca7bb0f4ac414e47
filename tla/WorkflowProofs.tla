--------------------------- MODULE WorkflowProofs ---------------------------
(* Proofs that a drive that has come to an action of tier 3 goes no        *)
(* further before its instance is resumed, for any definitions, events,    *)
(* results and number of resumes, overlapping or not, with failing         *)
(* statements and restarts; and, if no two drives of one instance overlap, *)
(* that what has ended stays so, and that no notice goes out without a     *)
(* ticket, if the definition leads to it as the shipped one.               *)
EXTENDS Workflow, TLAPS

(* A drive has its instance and its object.                                *)
Holding ==
    /\ \A c \in Calls : call[c].pc \in Running =>
          /\ call[c].inst \in Instances /\ call[c].obj \in Calls
          /\ object[call[c].obj] \in Instance
    /\ \A i \in Instances : cache[i] # Nothing => object[cache[i]] \in Instance

TInv == TypeOK /\ Holding

(* Drives of one instance do not overlap, and share no object with others. *)
Apart ==
    /\ ~Concurrent
    /\ \A c, d \in Calls :
          call[c].pc \in Running /\ call[d].pc \in Running /\ call[c].inst = call[d].inst => c = d
    /\ \A c \in Calls : call[c].pc \in Running =>
          \/ call[c].obj = c
          \/ call[call[c].obj].pc = "done" /\ call[call[c].obj].inst = call[c].inst
    /\ \A i \in Instances : cache[i] # Nothing =>
          call[cache[i]].pc = "done" /\ call[cache[i]].inst = i
    /\ \A o \in Calls : object[o] # Nothing =>
          call[o].inst \in Instances /\ call[o].pc \in Running \cup {"done"}

(* Before its event, nothing is there of an instance.                      *)
Untouched ==
    \A i \in Instances : call[i].pc = "idle" =>
        /\ row[i] = Nothing /\ cache[i] = Nothing /\ log[i] = <<>>
        /\ \A c \in Calls : call[c].pc \in Running => call[c].inst # i

(* A drive that is not paused has passed no action of tier 3 in its state. *)
Passed(c) == \A m \in 1..(call[c].action - 1) : m \in DOMAIN Recipe(c) => Tier(Recipe(c)[m]) # 3

DrivingAt(c) ==
    /\ call[c].pc \in {"act", "audit"} => Mine(c).state = call[c].state
    /\ call[c].pc = "act" =>
          IF Mine(c).status = "paused" THEN call[c].action \notin DOMAIN Recipe(c) ELSE Passed(c)
    /\ call[c].pc = "audit" =>
          /\ Passed(c) /\ call[c].action \in DOMAIN Recipe(c)
          /\ (Mine(c).status = "paused") <=> (Tier(Current(c)) = 3)

Driving == \A c \in Calls : DrivingAt(c)

(* Who is paused is paused where the log has an action of tier 3.          *)
Gates(i) == {p \in DOMAIN log[i] : Tier(log[i][p].action) = 3}
GateAt(i, s) == \E p \in Gates(i) : log[i][p].state = s

Defined ==
    \A i \in Instances : \A p \in DOMAIN log[i] :
        /\ log[i][p].state \in DOMAIN Actions[i]
        /\ \E n \in DOMAIN Actions[i][log[i][p].state] :
              Actions[i][log[i][p].state][n] = log[i][p].action

Gated ==
    /\ \A c \in Calls : call[c].pc \in {"act", "audit"} =>
          \A p \in Gates(call[c].inst) : log[call[c].inst][p].state = call[c].state
    /\ \A o \in Calls : object[o] # Nothing =>
          (object[o].status = "paused" => GateAt(call[o].inst, object[o].state))
    /\ \A i \in Instances : row[i] # Nothing =>
          (row[i].status = "paused" => GateAt(i, row[i].state))

(* All an instance does after an action of tier 3 is what comes before it  *)
(* in the same state, and that action again.                               *)
StaysAtGate ==
    \A i \in Instances : \A p, q \in DOMAIN log[i] :
        p < q /\ Tier(log[i][p].action) = 3 =>
            /\ log[i][q].state = log[i][p].state
            /\ \E n \in DOMAIN Actions[i][log[i][q].state] :
                  /\ Actions[i][log[i][q].state][n] = log[i][q].action
                  /\ \A m \in 1..(n - 1) : Tier(Actions[i][log[i][q].state][m]) # 3

IInv == TInv /\ Apart /\ Untouched /\ Driving /\ Defined /\ Gated /\ StaysAtGate

-----------------------------------------------------------------------------
(* Typing, which does not need the drives to be apart.                     *)
Call == [pc : {"idle", "done", "dead"} \cup Running,
         inst : Instances \cup {Nothing}, obj : Calls \cup {Nothing},
         state : States, action : Nat \ {0}, turn : 1..MaxTransitions]
Entry == [state : States, action : STRING, ok : BOOLEAN]

LEMMA Types ==
    TypeOK <=> /\ call \in [Calls -> Call]
               /\ object \in [Calls -> Instance \cup {Nothing}]
               /\ cache \in [Instances -> Calls \cup {Nothing}]
               /\ row \in [Instances -> Instance \cup {Nothing}]
               /\ log \in [Instances -> Seq(Entry)]
               /\ held \subseteq Calls /\ crossed \subseteq Instances
  BY DEF TypeOK, Call, Entry

LEMMA ElementOf ==
    ASSUME NEW S, NEW s \in Seq(S), NEW n \in DOMAIN s
    PROVE  s[n] \in S
  OBVIOUS

(* A step that changes one call and one object.                            *)
LEMMA TypesKept ==
    ASSUME TypeOK, NEW c \in Calls, NEW record \in Call, NEW o \in Calls, NEW new \in Instance,
           call' = [call EXCEPT ![c] = record], object' = [object EXCEPT ![o] = new],
           cache' \in [Instances -> Calls \cup {Nothing}],
           row' \in [Instances -> Instance \cup {Nothing}],
           log' \in [Instances -> Seq(Entry)],
           held' \subseteq Calls, crossed' \subseteq Instances
    PROVE  TypeOK'
<1>1. call' \in [Calls -> Call]
  BY Types
<1>2. object' \in [Calls -> Instance \cup {Nothing}]
  BY Types
<1>3. QED
  BY <1>1, <1>2 DEF TypeOK, Call, Entry

LEMMA GhostsTyped ==
    ASSUME TypeOK, [Next]_vars
    PROVE  held' \subseteq Calls /\ crossed' \subseteq Instances
<1>1. held \subseteq Calls /\ crossed \subseteq Instances
  BY DEF TypeOK
<1>2. CASE UNCHANGED <<held, crossed>>
  BY <1>1, <1>2
<1>3. ASSUME NEW c \in Approvals, NEW i \in Instances, Resume(c, i)
      PROVE  held' \subseteq Calls /\ crossed' \subseteq Instances
  BY <1>1, <1>3 DEF Resume, Approve
<1>4. ASSUME NEW c \in Calls, Execute(c)
      PROVE  held' \subseteq Calls /\ crossed' \subseteq Instances
  <2>1. crossed' = crossed /\ (held' = held \/ held' = held \cup {c})
    BY <1>4 DEF Execute
  <2>2. QED
    BY <1>1, <2>1
<1>5. ASSUME Restart
      PROVE  held' \subseteq Calls /\ crossed' \subseteq Instances
  BY <1>1, <1>5 DEF Restart
<1>6. QED
  BY <1>2, <1>3, <1>4, <1>5 DEF Next, Drive, Handle, Audit, Turn, TurnUpTo, Save, vars

LEMMA InitTyped == Init => TInv
<1> SUFFICES ASSUME Init PROVE TInv
  OBVIOUS
<1>1. NoCall \in Call
  BY WorkflowAssumption DEF NoCall, Call
<1>2. TypeOK
  BY <1>1, Types DEF Init
<1>3. Holding
  BY DEF Init, Holding, NoCall, Running
<1>4. QED
  BY <1>2, <1>3 DEF TInv

LEMMA BegunTyped ==
    ASSUME NEW i \in Instances, NEW o \in Calls, NEW s \in States
    PROVE  /\ Begun(i, o, s) \in Call
           /\ Begun(i, o, s).pc = "act" /\ Begun(i, o, s).inst = i /\ Begun(i, o, s).obj = o
           /\ Begun(i, o, s).state = s /\ Begun(i, o, s).action = 1
  BY WorkflowAssumption DEF Begun, NoCall, Call, Running

LEMMA ResumedTyped ==
    ASSUME NEW o \in Instance
    PROVE  /\ Resumed(o) \in Instance /\ Resumed(o).state = o.state
           /\ Resumed(o).status = "active"
  BY DEF Resumed, Instance

LEMMA RecipeTyped ==
    ASSUME NEW c \in Calls, call[c].inst \in Instances
    PROVE  Recipe(c) \in Seq(STRING)
<1>1. CASE call[c].state \in DOMAIN Actions[call[c].inst]
  <2>1. Actions[call[c].inst][call[c].state] \in Seq(STRING)
    BY <1>1, WorkflowAssumption
  <2>2. QED
    BY <1>1, <2>1 DEF Recipe
<1>2. CASE call[c].state \notin DOMAIN Actions[call[c].inst]
  BY <1>2 DEF Recipe
<1>3. QED
  BY <1>1, <1>2

LEMMA NextStatesTyped ==
    ASSUME NEW i \in Instances, NEW o \in Instance
    PROVE  NextStates(i, o) \subseteq States
<1> SUFFICES ASSUME NEW t \in Firing(i, o) PROVE Rules[i][o.state][t].next \in States
  BY DEF NextStates
<1>1. o.state \in DOMAIN Rules[i] /\ t \in DOMAIN Rules[i][o.state]
  BY DEF Firing
<1>2. Rules[i][o.state] \in Seq([condition : STRING, next : States])
  BY <1>1, WorkflowAssumption
<1>3. Rules[i][o.state][t] \in [condition : STRING, next : States]
  BY <1>1, <1>2, ElementOf
<1>4. QED
  BY <1>3

LEMMA HandleTyped ==
    ASSUME TInv, NEW i \in Instances, Handle(i)
    PROVE  TInv'
<1>0. held' \subseteq Calls /\ crossed' \subseteq Instances
  BY GhostsTyped DEF TInv, Next, Drive
<1> DEFINE new == [state |-> First[i], status |-> "active", approved |-> FALSE,
                   needsApproval |-> FALSE, success |-> FALSE, found |-> FALSE]
<1>1. /\ call' = [call EXCEPT ![i] = Begun(i, i, First[i])]
      /\ object' = [object EXCEPT ![i] = new] /\ UNCHANGED <<cache, row, log>>
  BY DEF Handle
<1>2. i \in Calls /\ First[i] \in States
  BY WorkflowAssumption DEF Calls
<1>3. new \in Instance
  BY <1>2 DEF Instance
<1> HIDE DEF new
<1>4. Begun(i, i, First[i]) \in Call /\ Begun(i, i, First[i]).inst = i /\ Begun(i, i, First[i]).obj = i
  BY <1>2, BegunTyped
<1>5. TypeOK'
  BY <1>0, <1>1, <1>2, <1>3, <1>4, TypesKept, Types DEF TInv
<1>6. Holding'
  BY <1>1, <1>2, <1>3, <1>4, Types DEF TInv, Holding
<1>7. QED
  BY <1>5, <1>6 DEF TInv

LEMMA ResumeTyped ==
    ASSUME TInv, NEW c \in Approvals, NEW i \in Instances, Resume(c, i)
    PROVE  TInv'
<1>0. held' \subseteq Calls /\ crossed' \subseteq Instances
  BY GhostsTyped DEF TInv, Next, Drive
<1> c \in Calls
  BY DEF Calls
<1>1. PICK o \in Calls, from \in Instance :
          /\ call' = [call EXCEPT ![c] = Begun(i, o, from.state)]
          /\ object' = [object EXCEPT ![o] = Resumed(from)]
  <2>1. CASE /\ row[i] # Nothing
             /\ call' = [call EXCEPT ![c] = Begun(i, c, row[i].state)]
             /\ object' = [object EXCEPT ![c] = Resumed(row[i])]
    BY <2>1 DEF TInv, TypeOK
  <2>2. CASE /\ cache[i] # Nothing
             /\ call' = [call EXCEPT ![c] = Begun(i, cache[i], object[cache[i]].state)]
             /\ object' = [object EXCEPT ![cache[i]] = Resumed(object[cache[i]])]
    BY <2>2 DEF TInv, TypeOK, Holding
  <2>3. QED
    BY <2>1, <2>2 DEF Resume
<1>2. UNCHANGED <<cache, row, log>>
  BY DEF Resume
<1>3. from.state \in States
  BY DEF Instance
<1>4. Begun(i, o, from.state) \in Call /\ Begun(i, o, from.state).inst = i
      /\ Begun(i, o, from.state).obj = o
  BY <1>3, BegunTyped
<1>5. Resumed(from) \in Instance
  BY ResumedTyped
<1>6. TypeOK'
  BY <1>0, <1>1, <1>2, <1>4, <1>5, TypesKept, Types DEF TInv
<1>7. Holding'
  BY <1>1, <1>2, <1>4, <1>5, Types DEF TInv, Holding
<1>8. QED
  BY <1>6, <1>7 DEF TInv

(* What the steps of a drive have in common.                               *)
LEMMA DriveTyped ==
    ASSUME TInv, NEW c \in Calls, call[c].pc \in Running
    PROVE  /\ call[c] \in Call /\ Mine(c) \in Instance
           /\ call[c].inst \in Instances /\ call[c].obj \in Calls
  BY Types DEF TInv, Holding, Mine

(* A step of the drive c that goes on with its instance and its object.    *)
LEMMA DriveKept ==
    ASSUME TInv, NEW c \in Calls, call[c].pc \in Running, NEW record \in Call, NEW new \in Instance,
           record.inst = call[c].inst, record.obj = call[c].obj,
           call' = [call EXCEPT ![c] = record], object' = [object EXCEPT ![call[c].obj] = new],
           log' \in [Instances -> Seq(Entry)], UNCHANGED <<cache, row>>,
           held' \subseteq Calls, crossed' \subseteq Instances
    PROVE  TInv'
<1>1. call[c].obj \in Calls
  BY DriveTyped
<1>2. TypeOK'
  BY <1>1, TypesKept, Types DEF TInv
<1>3. Holding'
  BY <1>1, Types DEF TInv, Holding
<1>4. QED
  BY <1>2, <1>3 DEF TInv

(* A call that goes on.                                                    *)
LEMMA Onward ==
    ASSUME NEW r \in Call, NEW to \in Running \cup {"done"}
    PROVE  LET new == [r EXCEPT !.pc = to] IN
           /\ new \in Call /\ new.pc = to /\ new.inst = r.inst /\ new.obj = r.obj
           /\ new.state = r.state /\ new.action = r.action
  BY Zenon DEF Call

(* Execute, as far as the proofs look at it.                               *)
LEMMA Executed ==
    ASSUME TInv, NEW c \in Calls, Execute(c)
    PROVE  /\ call[c].pc = "act" /\ call[c].action \in DOMAIN Recipe(c) /\ UNCHANGED <<cache, row>>
           /\ \E record \in Call, new \in Instance, ok \in BOOLEAN :
                /\ record.pc = "audit" /\ record.inst = call[c].inst /\ record.obj = call[c].obj
                /\ record.state = call[c].state /\ record.action = call[c].action
                /\ new.state = Mine(c).state
                /\ new.status = (IF Tier(Current(c)) = 3 THEN "paused" ELSE Mine(c).status)
                /\ call' = [call EXCEPT ![c] = record]
                /\ object' = [object EXCEPT ![call[c].obj] = new]
                /\ log' = [log EXCEPT ![call[c].inst] =
                      Logged(log[call[c].inst],
                             [state |-> call[c].state, action |-> Current(c), ok |-> ok])]
<1> DEFINE a      == Current(c)
           record == [call[c] EXCEPT !.pc = "audit"]
<1>1. PICK ok \in Results(a), found \in BOOLEAN :
          /\ object' = [object EXCEPT ![call[c].obj] = Outcome(Mine(c), a, ok, found)]
          /\ log' = [log EXCEPT ![call[c].inst] =
                Logged(log[call[c].inst], [state |-> call[c].state, action |-> a, ok |-> ok])]
  BY DEF Execute
<1>2. /\ call[c].pc = "act" /\ call[c].action \in DOMAIN Recipe(c) /\ UNCHANGED <<cache, row>>
      /\ call' = [call EXCEPT ![c] = record]
  BY Zenon DEF Execute
<1>3. ok \in BOOLEAN
  BY DEF Results
<1> DEFINE new == Outcome(Mine(c), a, ok, found)
<1>4. call[c].pc \in Running /\ "audit" \in Running \cup {"done"}
  BY <1>2 DEF Running
<1>5. call[c] \in Call /\ Mine(c) \in Instance
  BY <1>4, DriveTyped
<1>6. /\ record \in Call /\ record.pc = "audit" /\ record.inst = call[c].inst
      /\ record.obj = call[c].obj /\ record.state = call[c].state /\ record.action = call[c].action
  BY <1>4, <1>5, Onward, Zenon
<1>7. new \in Instance
  BY <1>3, <1>5 DEF Instance, Outcome
<1>8. new.state = Mine(c).state
      /\ new.status = (IF Tier(Current(c)) = 3 THEN "paused" ELSE Mine(c).status)
  BY DEF Outcome
<1> HIDE DEF new, record
<1>9. QED
  BY <1>1, <1>2, <1>3, <1>6, <1>7, <1>8 DEF new

LEMMA LogTyped ==
    ASSUME TInv, NEW c \in Calls, call[c].inst \in Instances, call[c].action \in DOMAIN Recipe(c),
           NEW ok \in BOOLEAN
    PROVE  LET e == [state |-> call[c].state, action |-> Current(c), ok |-> ok] IN
           /\ e \in Entry
           /\ [log EXCEPT ![call[c].inst] = Logged(log[call[c].inst], e)] \in [Instances -> Seq(Entry)]
<1> DEFINE e == [state |-> call[c].state, action |-> Current(c), ok |-> ok]
<1>1. Recipe(c) \in Seq(STRING)
  BY RecipeTyped
<1>2. Current(c) \in STRING
  BY <1>1, ElementOf DEF Current
<1>3. call[c].state \in States
  BY Types DEF TInv, Call
<1>4. e \in Entry
  BY <1>2, <1>3 DEF Entry
<1>5. log[call[c].inst] \in Seq(Entry)
  BY Types DEF TInv
<1> HIDE DEF e
<1>6. Logged(log[call[c].inst], e) \in Seq(Entry)
  BY <1>4, <1>5 DEF Logged
<1>7. QED
  BY <1>4, <1>6, Types DEF TInv, e

LEMMA ExecuteTyped ==
    ASSUME TInv, NEW c \in Calls, Execute(c)
    PROVE  TInv'
<1>0. held' \subseteq Calls /\ crossed' \subseteq Instances
  BY GhostsTyped DEF TInv, Next, Drive
<1>1. /\ call[c].pc = "act" /\ call[c].action \in DOMAIN Recipe(c) /\ UNCHANGED <<cache, row>>
  BY Executed
<1>2. PICK record \in Call, new \in Instance, ok \in BOOLEAN :
          /\ record.inst = call[c].inst /\ record.obj = call[c].obj
          /\ call' = [call EXCEPT ![c] = record]
          /\ object' = [object EXCEPT ![call[c].obj] = new]
          /\ log' = [log EXCEPT ![call[c].inst] =
                Logged(log[call[c].inst],
                       [state |-> call[c].state, action |-> Current(c), ok |-> ok])]
  BY Executed
<1>3. call[c].pc \in Running /\ call[c].inst \in Instances
  BY <1>1, DriveTyped DEF Running
<1>4. log' \in [Instances -> Seq(Entry)]
  BY <1>1, <1>2, <1>3, LogTyped
<1>5. QED
  BY <1>0, <1>1, <1>2, <1>3, <1>4, DriveKept

(* Audit, as far as the proofs look at it.                                 *)
LEMMA Audited ==
    ASSUME TInv, NEW c \in Calls, Audit(c)
    PROVE  /\ call[c].pc = "audit" /\ UNCHANGED <<object, cache, row, log>>
           /\ object' = [object EXCEPT ![call[c].obj] = Mine(c)]
           /\ \E record \in Call :
                /\ call' = [call EXCEPT ![c] = record]
                /\ record.pc = "act" /\ record.inst = call[c].inst /\ record.obj = call[c].obj
                /\ record.state = call[c].state
                /\ record.action = (IF Tier(Current(c)) = 3 THEN Len(Recipe(c)) + 1
                                    ELSE call[c].action + 1)
<1> DEFINE n      == IF Tier(Current(c)) = 3 THEN Len(Recipe(c)) + 1 ELSE call[c].action + 1
           record == [call[c] EXCEPT !.pc = "act", !.action = n]
<1>1. /\ call[c].pc = "audit" /\ call' = [call EXCEPT ![c] = record]
      /\ UNCHANGED <<object, cache, row, log>>
  BY Zenon DEF Audit
<1>2. /\ call[c].pc \in Running /\ call[c] \in Call /\ call[c].inst \in Instances
      /\ call[c].obj \in Calls
  BY <1>1, DriveTyped DEF Running
<1>3. n \in Nat \ {0}
  <2>1. Recipe(c) \in Seq(STRING) /\ call[c].action \in Nat \ {0}
    BY <1>2, RecipeTyped DEF Call
  <2>2. QED
    BY <2>1
<1>4. object' = [object EXCEPT ![call[c].obj] = Mine(c)]
  BY <1>1, <1>2, Types DEF TInv, Mine
<1>5. n = (IF Tier(Current(c)) = 3 THEN Len(Recipe(c)) + 1 ELSE call[c].action + 1)
  OBVIOUS
<1> HIDE DEF n
<1>6. /\ record \in Call /\ record.pc = "act" /\ record.inst = call[c].inst
      /\ record.obj = call[c].obj /\ record.state = call[c].state /\ record.action = n
  <2>1. "act" \in Running
    BY DEF Running
  <2>2. QED
    BY <1>2, <1>3, <2>1, Zenon DEF Call
<1> HIDE DEF record
<1>7. QED
  BY <1>1, <1>4, <1>5, <1>6

LEMMA AuditTyped ==
    ASSUME TInv, NEW c \in Calls, Audit(c)
    PROVE  TInv'
<1>0. held' \subseteq Calls /\ crossed' \subseteq Instances
  BY GhostsTyped DEF TInv, Next, Drive
<1>1. PICK record \in Call :
          /\ call' = [call EXCEPT ![c] = record]
          /\ record.inst = call[c].inst /\ record.obj = call[c].obj
  BY Audited
<1>2. /\ call[c].pc \in Running /\ UNCHANGED <<cache, row, log>>
      /\ object' = [object EXCEPT ![call[c].obj] = Mine(c)]
  BY Audited DEF Running
<1>3. Mine(c) \in Instance
  BY <1>2, DriveTyped
<1>4. log' \in [Instances -> Seq(Entry)]
  BY <1>2, Types DEF TInv
<1>5. QED
  BY <1>0, <1>1, <1>2, <1>3, <1>4, DriveKept

(* A call that enters a state, and an instance that does.                  *)
LEMMA MovedTyped ==
    ASSUME NEW o \in Instance, NEW next \in States,
           NEW status \in {"active", "paused", "completed", "failed"}
    PROVE  /\ Moved(o, next, status) \in Instance
           /\ Moved(o, next, status).state = next /\ Moved(o, next, status).status = status
  BY DEF Moved, Instance

(* Turn, as far as the proofs look at it: the drive comes to its save with *)
(* the state it has, or goes on with another.                              *)
LEMMA Turned ==
    ASSUME TInv, NEW c \in Calls, Turn(c)
    PROVE  /\ call[c].pc = "act" /\ call[c].action \notin DOMAIN Recipe(c)
           /\ UNCHANGED <<cache, row, log>>
           /\ \E record \in Call, new \in Instance :
                /\ call' = [call EXCEPT ![c] = record]
                /\ object' = [object EXCEPT ![call[c].obj] = new]
                /\ record.inst = call[c].inst /\ record.obj = call[c].obj
                /\ \/ /\ record.pc = "save" /\ new.state = Mine(c).state
                      /\ new.status = "paused" <=> Mine(c).status = "paused"
                   \/ /\ record.pc \in {"act", "save"} /\ Mine(c).status # "paused"
                      /\ new.status # "paused" /\ record.state = new.state /\ record.action = 1
                      /\ new.state \in NextStates(call[c].inst, Mine(c))
<1>1. /\ call[c].pc = "act" /\ call[c].action \notin DOMAIN Recipe(c)
      /\ UNCHANGED <<cache, row, log>>
  BY DEF Turn, TurnUpTo
<1>2. /\ call[c].pc \in Running /\ call[c] \in Call /\ call[c].inst \in Instances
      /\ call[c].obj \in Calls /\ Mine(c) \in Instance
  BY <1>1, DriveTyped DEF Running
<1>3. CASE \E status \in {"paused", "failed", "completed"} :
             Ends(c, status) /\ (status = "paused" <=> Mine(c).status = "paused")
  <2>1. PICK status \in {"paused", "failed", "completed"} :
             Ends(c, status) /\ (status = "paused" <=> Mine(c).status = "paused")
    BY <1>3
  <2> DEFINE record == [call[c] EXCEPT !.pc = "save"]
             new    == Moved(Mine(c), Mine(c).state, status)
  <2>2. call' = [call EXCEPT ![c] = record] /\ object' = [object EXCEPT ![call[c].obj] = new]
    BY <2>1, Zenon DEF Ends
  <2>3. record \in Call /\ record.pc = "save" /\ record.inst = call[c].inst
        /\ record.obj = call[c].obj
    <3>1. "save" \in Running \cup {"done"} /\ call[c] \in Call
      BY <1>2 DEF Running
    <3>2. QED
      BY <3>1, Onward, Zenon
  <2>4. Mine(c).state \in States
    BY <1>2 DEF Instance
  <2>5. new \in Instance /\ new.state = Mine(c).state /\ new.status = status
    <3>1. status \in {"active", "paused", "completed", "failed"} /\ Mine(c) \in Instance
      BY <1>2
    <3>2. QED
      BY <2>4, <3>1, MovedTyped, Zenon
  <2> HIDE DEF record, new
  <2>6. QED
    BY <1>1, <2>1, <2>2, <2>3, <2>5
<1>4. CASE Mine(c).status # "paused"
           /\ \E next \in NextStates(call[c].inst, Mine(c)) :
                 Enters(c, next, call[c].turn <= MaxTransitions - 1)
  <2>1. PICK next \in NextStates(call[c].inst, Mine(c)) :
                 Enters(c, next, call[c].turn <= MaxTransitions - 1)
    BY <1>4
  <2>2. next \in States
    BY <1>2, NextStatesTyped
  <2> DEFINE more   == call[c].turn <= MaxTransitions - 1
             goesOn == more /\ next \in DOMAIN Rules[call[c].inst]
             status == IF next = "completed" THEN "completed"
                       ELSE IF goesOn THEN Mine(c).status ELSE "failed"
             pc     == IF next # "completed" /\ goesOn THEN "act" ELSE "save"
             turn   == IF more THEN call[c].turn + 1 ELSE call[c].turn
             record == [pc |-> pc, inst |-> call[c].inst, obj |-> call[c].obj, state |-> next,
                        action |-> 1, turn |-> turn]
             new    == Moved(Mine(c), next, status)
  <2>3. call' = [call EXCEPT ![c] = record] /\ object' = [object EXCEPT ![call[c].obj] = new]
    BY <2>1, Zenon DEF Enters
  <2>4. turn \in 1..MaxTransitions
    BY <1>2, WorkflowAssumption DEF Call
  <2>5. pc \in {"act", "save"} /\ pc \in Running
    BY DEF Running
  <2>6. status \in {"active", "paused", "completed", "failed"} /\ status # "paused"
    BY <1>2, <1>4 DEF Instance
  <2> HIDE DEF turn, pc, status
  <2>7. record \in Call /\ record.pc = pc /\ record.inst = call[c].inst /\ record.obj = call[c].obj
        /\ record.state = next /\ record.action = 1
    BY <1>2, <2>2, <2>4, <2>5 DEF Call
  <2>8. new \in Instance /\ new.state = next /\ new.status = status
    BY <1>2, <2>2, <2>6, MovedTyped
  <2> HIDE DEF record, new
  <2>9. QED
    BY <1>1, <1>4, <2>3, <2>5, <2>6, <2>7, <2>8
<1>5. QED
  <2>1. CASE Mine(c).status \in {"paused", "failed"} /\ Ends(c, Mine(c).status)
    BY <1>3, <2>1
  <2>2. CASE Mine(c).status \notin {"paused", "failed"} /\ Ends(c, "completed")
    BY <1>3, <2>2
  <2>3. QED
    BY <1>4, <2>1, <2>2 DEF Turn, TurnUpTo

LEMMA TurnTyped ==
    ASSUME TInv, NEW c \in Calls, Turn(c)
    PROVE  TInv'
<1>0. held' \subseteq Calls /\ crossed' \subseteq Instances
  BY GhostsTyped DEF TInv, Next, Drive
<1>1. PICK record \in Call, new \in Instance :
          /\ call' = [call EXCEPT ![c] = record]
          /\ object' = [object EXCEPT ![call[c].obj] = new]
          /\ record.inst = call[c].inst /\ record.obj = call[c].obj
  BY Turned
<1>2. call[c].pc \in Running /\ UNCHANGED <<cache, row, log>>
  BY Turned DEF Running
<1>3. log' \in [Instances -> Seq(Entry)]
  BY <1>2, Types DEF TInv
<1>4. QED
  BY <1>0, <1>1, <1>2, <1>3, DriveKept

(* Save, as far as the proofs look at it.                                  *)
LEMMA Saved ==
    ASSUME TInv, NEW c \in Calls, Save(c)
    PROVE  /\ call[c].pc = "save" /\ UNCHANGED <<object, log>>
           /\ cache' = [cache EXCEPT ![call[c].inst] = call[c].obj]
           /\ row' = row \/ row' = [row EXCEPT ![call[c].inst] = Mine(c)]
           /\ \E record \in Call :
                /\ call' = [call EXCEPT ![c] = record]
                /\ record.pc = "done" /\ record.inst = call[c].inst /\ record.obj = call[c].obj
<1> DEFINE record == [call[c] EXCEPT !.pc = "done"]
<1>1. /\ call[c].pc = "save" /\ UNCHANGED <<object, log>>
      /\ cache' = [cache EXCEPT ![call[c].inst] = call[c].obj]
      /\ row' = row \/ row' = [row EXCEPT ![call[c].inst] = Mine(c)]
      /\ call' = [call EXCEPT ![c] = record]
  BY Zenon DEF Save
<1>2. call[c].pc \in Running
  BY <1>1 DEF Running
<1>3. call[c] \in Call /\ "done" \in Running \cup {"done"}
  BY <1>2, DriveTyped
<1>4. record \in Call /\ record.pc = "done" /\ record.inst = call[c].inst
      /\ record.obj = call[c].obj
  BY <1>3, Onward, Zenon
<1> HIDE DEF record
<1>5. QED
  BY <1>1, <1>4

LEMMA SaveTyped ==
    ASSUME TInv, NEW c \in Calls, Save(c)
    PROVE  TInv'
<1>0. held' \subseteq Calls /\ crossed' \subseteq Instances
  BY GhostsTyped DEF TInv, Next, Drive
<1>1. PICK record \in Call :
          /\ call' = [call EXCEPT ![c] = record]
          /\ record.pc = "done" /\ record.inst = call[c].inst /\ record.obj = call[c].obj
  BY Saved
<1>2. /\ call[c].pc = "save" /\ UNCHANGED <<object, log>>
      /\ cache' = [cache EXCEPT ![call[c].inst] = call[c].obj]
      /\ row' = row \/ row' = [row EXCEPT ![call[c].inst] = Mine(c)]
  BY Saved
<1>3. call[c].pc \in Running
  BY <1>2 DEF Running
<1>4. /\ Mine(c) \in Instance /\ call[c].inst \in Instances /\ call[c].obj \in Calls
  BY <1>3, DriveTyped
<1>5. TypeOK'
  <2>1. call' \in [Calls -> Call] /\ object' \in [Calls -> Instance \cup {Nothing}]
        /\ log' \in [Instances -> Seq(Entry)]
    BY <1>1, <1>2, Types DEF TInv
  <2>2. cache' \in [Instances -> Calls \cup {Nothing}] /\ row' \in [Instances -> Instance \cup {Nothing}]
    BY <1>2, <1>4, Types DEF TInv
  <2>3. QED
    BY <1>0, <2>1, <2>2 DEF TypeOK, Call, Entry
<1>6. object[call[c].obj] \in Instance
  BY <1>4 DEF Mine
<1>7. Holding'
  <2>1. \A d \in Calls : call[d]'.pc \in Running => call[d]' = call[d]
    BY <1>1, Types DEF TInv, Running
  <2>2. \A i \in Instances : cache[i]' # cache[i] => cache[i]' = call[c].obj
    BY <1>2, Types DEF TInv
  <2>3. QED
    BY <1>2, <1>6, <2>1, <2>2 DEF TInv, Holding
<1>8. QED
  BY <1>5, <1>7 DEF TInv

LEMMA Restarted ==
    ASSUME TInv, Restart
    PROVE  /\ UNCHANGED <<row, log>> /\ object' = [c \in Calls |-> Nothing]
           /\ cache' = [i \in Instances |-> Nothing]
           /\ call' \in [Calls -> Call]
           /\ \A c \in Calls : call[c]' = call[c] \/ call[c]'.pc = "dead"
           /\ \A c \in Calls : call[c]'.pc \notin Running
<1> DEFINE record == [NoCall EXCEPT !.pc = "dead"]
<1>1. /\ UNCHANGED <<row, log>> /\ object' = [c \in Calls |-> Nothing]
      /\ cache' = [i \in Instances |-> Nothing]
      /\ call' = [c \in Calls |-> IF call[c].pc \in Running THEN record ELSE call[c]]
  BY Zenon DEF Restart
<1>2. record \in Call /\ record.pc = "dead"
  BY WorkflowAssumption DEF NoCall, Call
<1> HIDE DEF record
<1>3. "dead" \notin Running
  BY DEF Running
<1>4. call' \in [Calls -> Call]
  BY <1>1, <1>2, Types DEF TInv
<1>5. \A c \in Calls : call[c]' = IF call[c].pc \in Running THEN record ELSE call[c]
  BY <1>1
<1>6. QED
  BY <1>1, <1>2, <1>3, <1>4, <1>5

LEMMA RestartTyped ==
    ASSUME TInv, Restart
    PROVE  TInv'
<1>0. held' \subseteq Calls /\ crossed' \subseteq Instances
  BY GhostsTyped DEF TInv, Next, Drive
<1>1. TypeOK'
  BY <1>0, Restarted, Types DEF TInv, TypeOK, Call, Entry
<1>2. Holding'
  BY Restarted DEF Holding
<1>3. QED
  BY <1>1, <1>2 DEF TInv

LEMMA StepTyped == TInv /\ [Next]_vars => TInv'
<1> SUFFICES ASSUME TInv, [Next]_vars PROVE TInv'
  OBVIOUS
<1>1. CASE \E i \in Instances : Handle(i)
  BY <1>1, HandleTyped
<1>2. CASE \E c \in Approvals, i \in Instances : Resume(c, i)
  BY <1>2, ResumeTyped DEF Calls
<1>3. CASE \E c \in Calls : Drive(c)
  BY <1>3, ExecuteTyped, AuditTyped, TurnTyped, SaveTyped DEF Drive
<1>4. CASE Restart
  BY <1>4, RestartTyped
<1>5. CASE UNCHANGED vars
  BY <1>5 DEF vars, TInv, TypeOK, Holding
<1>6. QED
  BY <1>1, <1>2, <1>3, <1>4, <1>5 DEF Next

(* Drives, resumes and restarts keep every variable of the engine in its   *)
(* type, whether or not drives overlap.                                    *)
THEOREM Typing == Spec => []TypeOK
<1>1. Init => TInv
  BY InitTyped
<1>2. TInv /\ [Next]_vars => TInv'
  BY StepTyped
<1>3. TInv => TypeOK
  BY DEF TInv
<1>4. QED
  BY <1>1, <1>2, <1>3, PTL DEF Spec

-----------------------------------------------------------------------------
(* The drives of the engine, one for an instance at a time.                *)

LEMMA InitHeld == ~Concurrent /\ Init => IInv
<1> SUFFICES ASSUME ~Concurrent, Init PROVE IInv
  OBVIOUS
<1>1. TInv
  BY InitTyped
<1>2. \A c \in Calls : call[c].pc = "idle"
  BY DEF Init, NoCall
<1>3. Apart
  BY <1>2 DEF Init, Apart, Running
<1>4. Untouched
  BY <1>2 DEF Init, Untouched, Running, Calls
<1>5. Driving
  BY <1>2 DEF Driving, DrivingAt
<1>6. Defined /\ Gated /\ StaysAtGate
  BY <1>2 DEF Init, Defined, Gated, StaysAtGate
<1>7. QED
  BY <1>1, <1>3, <1>4, <1>5, <1>6 DEF IInv

(* Two drives under way use two objects.                                   *)
LEMMA ObjectsApart ==
    ASSUME Apart, NEW c \in Calls, NEW d \in Calls, c # d,
           call[c].pc \in Running, call[d].pc \in Running
    PROVE  call[c].obj # call[d].obj
  BY DEF Apart, Running

(* All gates of an instance are in one state.                              *)
LEMMA OneGate ==
    ASSUME TInv, StaysAtGate, NEW i \in Instances, NEW s, GateAt(i, s), NEW p \in Gates(i)
    PROVE  log[i][p].state = s
<1>1. PICK q \in Gates(i) : log[i][q].state = s
  BY DEF GateAt
<1>2. p \in DOMAIN log[i] /\ q \in DOMAIN log[i] /\ Tier(log[i][p].action) = 3
      /\ Tier(log[i][q].action) = 3
  BY DEF Gates
<1>3. p \in Nat /\ q \in Nat
  BY <1>2 DEF TInv, TypeOK
<1>4. p = q \/ p < q \/ q < p
  BY <1>3
<1>5. QED
  BY <1>1, <1>2, <1>4 DEF StaysAtGate

LEMMA HandleHeld ==
    ASSUME IInv, NEW i \in Instances, Handle(i)
    PROVE  IInv'
<1> DEFINE new == [state |-> First[i], status |-> "active", approved |-> FALSE,
                   needsApproval |-> FALSE, success |-> FALSE, found |-> FALSE]
<1>1. /\ call[i].pc = "idle" /\ call' = [call EXCEPT ![i] = Begun(i, i, First[i])]
      /\ object' = [object EXCEPT ![i] = new] /\ UNCHANGED <<cache, row, log>>
  BY DEF Handle
<1>2. i \in Calls /\ First[i] \in States
  BY WorkflowAssumption DEF Calls
<1>3. new.state = First[i] /\ new.status = "active" /\ new # Nothing
  <2>1. new \in Instance
    BY <1>2 DEF Instance
  <2>2. QED
    BY <2>1, WorkflowAssumption
<1> HIDE DEF new
<1>4. /\ Begun(i, i, First[i]).pc = "act" /\ Begun(i, i, First[i]).inst = i
      /\ Begun(i, i, First[i]).obj = i /\ Begun(i, i, First[i]).state = First[i]
      /\ Begun(i, i, First[i]).action = 1
  BY <1>2, BegunTyped
<1>5. TInv'
  BY HandleTyped DEF IInv
<1>6. /\ call[i]'.pc = "act" /\ call[i]'.inst = i /\ call[i]'.obj = i
      /\ call[i]'.state = First[i] /\ call[i]'.action = 1 /\ object[i]' = new
      /\ \A c \in Calls \ {i} : call[c]' = call[c] /\ object[c]' = object[c]
  BY <1>1, <1>2, <1>4, Types DEF IInv, TInv
<1>7. \A c \in Calls : call[c].pc \in Running => c # i /\ call[c].inst # i /\ call[c].obj # i
  BY <1>1, <1>2 DEF IInv, Untouched, Apart, Running
<1>8. Apart'
  BY <1>1, <1>2, <1>6, <1>7 DEF IInv, Apart, Running
<1>9. Untouched'
  BY <1>1, <1>2, <1>6, <1>7 DEF IInv, Untouched, Running, Calls
<1>10. \A c \in Calls : call[c].pc \in Running => call[c]' = call[c] /\ Mine(c)' = Mine(c)
                                               /\ Recipe(c)' = Recipe(c)
  <2>1. \A c \in Calls : call[c].pc \in Running => call[c].obj \in Calls
    BY Types DEF IInv, TInv, Holding
  <2>2. QED
    BY <1>6, <1>7, <2>1 DEF Mine, Recipe
<1>11. Mine(i)' = new
  BY <1>6 DEF Mine
<1>12. Driving'
  <2>1. \A c \in Calls \ {i} : call[c]'.pc \in Running => call[c].pc \in Running
    BY <1>6
  <2>2. Passed(i)'
    BY <1>6 DEF Passed
  <2>3. QED
    BY <1>2, <1>3, <1>6, <1>10, <1>11, <2>1, <2>2 DEF IInv, Driving, DrivingAt, Passed, Current, Running
<1>13. Defined' /\ StaysAtGate'
  BY <1>1 DEF IInv, Defined, StaysAtGate
<1>14. Gated'
  <2>1. Gates(i)' = {} /\ \A j \in Instances : Gates(j)' = Gates(j)
    BY <1>1 DEF IInv, Untouched, Gates
  <2>2. \A j, s : GateAt(j, s)' <=> GateAt(j, s)
    BY <1>1 DEF GateAt, Gates
  <2>3. \A c \in Calls : call[c]'.pc \in {"act", "audit"} =>
          \A p \in Gates(call[c].inst)' : log[call[c].inst]'[p].state = call[c]'.state
    BY <1>1, <1>6, <2>1 DEF IInv, Gated, Gates
  <2>4. \A o \in Calls : object[o]' # Nothing =>
          (object[o]'.status = "paused" => GateAt(call[o].inst, object[o].state)')
    BY <1>3, <1>6, <2>2 DEF IInv, Gated
  <2>5. QED
    BY <1>1, <2>2, <2>3, <2>4 DEF IInv, Gated
<1>15. QED
  BY <1>5, <1>8, <1>9, <1>12, <1>13, <1>14 DEF IInv

LEMMA ResumeHeld ==
    ASSUME IInv, NEW c \in Approvals, NEW i \in Instances, Resume(c, i)
    PROVE  IInv'
<1>1. c \in Calls /\ c \notin Instances /\ call[c].pc = "idle" /\ UNCHANGED <<cache, row, log>>
  BY WorkflowAssumption DEF Calls, Resume
<1>2. \A d \in Calls : call[d].pc \in Running => call[d].inst # i
  BY DEF Resume, Busy, IInv, Apart
<1>3. PICK o \in Calls, from \in Instance :
          /\ call' = [call EXCEPT ![c] = Begun(i, o, from.state)]
          /\ object' = [object EXCEPT ![o] = Resumed(from)]
          /\ o = c \/ (call[o].pc = "done" /\ call[o].inst = i)
          /\ row[i] # Nothing \/ cache[i] # Nothing
          /\ GateAt(i, from.state)
  <2>1. CASE /\ row[i] # Nothing /\ row[i].status = "paused"
             /\ call' = [call EXCEPT ![c] = Begun(i, c, row[i].state)]
             /\ object' = [object EXCEPT ![c] = Resumed(row[i])]
    <3>1. row[i] \in Instance /\ GateAt(i, row[i].state)
      BY <2>1 DEF IInv, TInv, TypeOK, Gated
    <3>2. QED
      BY <1>1, <2>1, <3>1
  <2>2. CASE /\ cache[i] # Nothing /\ object[cache[i]].status = "paused"
             /\ call' = [call EXCEPT ![c] = Begun(i, cache[i], object[cache[i]].state)]
             /\ object' = [object EXCEPT ![cache[i]] = Resumed(object[cache[i]])]
    <3>1. cache[i] \in Calls /\ object[cache[i]] \in Instance
          /\ call[cache[i]].pc = "done" /\ call[cache[i]].inst = i
      BY <2>2 DEF IInv, TInv, TypeOK, Holding, Apart
    <3>2. object[cache[i]] # Nothing
      BY <3>1, WorkflowAssumption
    <3>3. GateAt(i, object[cache[i]].state)
      BY <2>2, <3>1, <3>2 DEF IInv, Gated
    <3>4. QED
      BY <2>2, <3>1, <3>3
  <2>3. \/ /\ row[i] # Nothing /\ row[i].status = "paused"
           /\ call' = [call EXCEPT ![c] = Begun(i, c, row[i].state)]
           /\ object' = [object EXCEPT ![c] = Resumed(row[i])]
        \/ /\ cache[i] # Nothing /\ object[cache[i]].status = "paused"
           /\ call' = [call EXCEPT ![c] = Begun(i, cache[i], object[cache[i]].state)]
           /\ object' = [object EXCEPT ![cache[i]] = Resumed(object[cache[i]])]
    BY DEF Resume
  <2>4. QED
    BY <2>1, <2>2, <2>3
<1>4. /\ Begun(i, o, from.state).pc = "act" /\ Begun(i, o, from.state).inst = i
      /\ Begun(i, o, from.state).obj = o /\ Begun(i, o, from.state).state = from.state
      /\ Begun(i, o, from.state).action = 1
  <2>1. from.state \in States
    BY DEF Instance
  <2>2. QED
    BY <2>1, BegunTyped
<1>5. Resumed(from).state = from.state /\ Resumed(from).status = "active"
  BY ResumedTyped
<1>6. TInv'
  BY <1>1, ResumeTyped DEF IInv
<1>7. /\ call[c]'.pc = "act" /\ call[c]'.inst = i /\ call[c]'.obj = o
      /\ call[c]'.state = from.state /\ call[c]'.action = 1 /\ object[o]' = Resumed(from)
      /\ \A d \in Calls \ {c} : call[d]' = call[d]
      /\ \A d \in Calls \ {o} : object[d]' = object[d]
  BY <1>1, <1>3, <1>4, Types DEF IInv, TInv
<1>8. \A d \in Calls : call[d].pc \in Running => d # c /\ call[d].obj # o /\ call[d].obj # c
  BY <1>1, <1>2, <1>3 DEF IInv, Apart, Running
<1>9. Apart'
  <2>1. \A a, d \in Calls :
          call[a]'.pc \in Running /\ call[d]'.pc \in Running /\ call[a]'.inst = call[d]'.inst => a = d
    BY <1>2, <1>7 DEF IInv, Apart
  <2>2. \A d \in Calls : call[d]'.pc \in Running =>
          \/ call[d]'.obj = d
          \/ call[call[d].obj]'.pc = "done" /\ call[call[d].obj]'.inst = call[d]'.inst
    <3>1. \A d \in Calls : call[d].pc \in Running => call[d].obj \in Calls
      BY Types DEF IInv, TInv, Holding
    <3>2. \/ call[c]'.obj = c
          \/ call[call[c].obj]'.pc = "done" /\ call[call[c].obj]'.inst = call[c]'.inst
      BY <1>1, <1>3, <1>7
    <3>3. QED
      BY <1>7, <1>8, <3>1, <3>2 DEF IInv, Apart
  <2>3. \A j \in Instances : cache[j]' # Nothing =>
          call[cache[j]]'.pc = "done" /\ call[cache[j]]'.inst = j
    <3>1. \A j \in Instances : cache[j] # Nothing => cache[j] \in Calls
      BY DEF IInv, TInv, TypeOK
    <3>2. QED
      BY <1>1, <1>7, <3>1 DEF IInv, Apart
  <2>4. \A d \in Calls : object[d]' # Nothing =>
          call[d]'.inst \in Instances /\ call[d]'.pc \in Running \cup {"done"}
    BY <1>3, <1>7 DEF IInv, Apart, Running
  <2>5. QED
    BY <2>1, <2>2, <2>3, <2>4 DEF IInv, Apart
<1>10. Untouched'
  BY <1>1, <1>3, <1>7 DEF IInv, Untouched, Running, Calls
<1>11. Driving'
  <2>1. \A d \in Calls : call[d].pc \in Running => call[d].obj \in Calls
    BY Types DEF IInv, TInv, Holding
  <2>2. \A d \in Calls \ {c} : call[d]'.pc \in Running =>
          call[d].pc \in Running /\ Mine(d)' = Mine(d) /\ Recipe(d)' = Recipe(d)
    BY <1>7, <1>8, <2>1 DEF Mine, Recipe
  <2>3. Mine(c)' = Resumed(from) /\ Passed(c)'
    BY <1>7 DEF Mine, Passed
  <2>4. QED
    BY <1>1, <1>5, <1>7, <2>2, <2>3 DEF IInv, Driving, DrivingAt, Passed, Current, Running
<1>12. Defined' /\ StaysAtGate'
  BY <1>1 DEF IInv, Defined, StaysAtGate
<1>13. Gated'
  <2>1. \A j \in Instances : Gates(j)' = Gates(j)
    BY <1>1 DEF Gates
  <2>2. \A j, s : GateAt(j, s)' <=> GateAt(j, s)
    BY <1>1 DEF GateAt, Gates
  <2>3. \A p \in Gates(i) : log[i][p].state = from.state
    BY <1>3, OneGate DEF IInv
  <2>4. \A d \in Calls : call[d].pc \in Running => call[d].inst \in Instances
    BY DEF IInv, TInv, Holding
  <2>5. \A d \in Calls : call[d]'.pc \in {"act", "audit"} =>
          \A p \in Gates(call[d].inst)' : log[call[d].inst]'[p].state = call[d]'.state
    BY <1>1, <1>7, <2>1, <2>3, <2>4 DEF IInv, Gated, Running
  <2>6. \A a \in Calls : object[a]' # Nothing =>
          (object[a]'.status = "paused" => GateAt(call[a].inst, object[a].state)')
    BY <1>1, <1>5, <1>7, <2>2 DEF IInv, Gated, Apart, Running
  <2>7. QED
    BY <1>1, <2>2, <2>5, <2>6 DEF IInv, Gated
<1>14. QED
  BY <1>6, <1>9, <1>10, <1>11, <1>12, <1>13 DEF IInv

(* What a step of the drive c that goes on with record and new leaves.     *)
Others(c, record, new) ==
    /\ Apart' /\ Untouched'
    /\ call[c]' = record /\ Mine(c)' = new /\ object[call[c].obj]' = new
    /\ \A d \in Calls \ {c} : call[d]' = call[d] /\ Recipe(d)' = Recipe(d)
    /\ \A d \in Calls \ {c} : call[d].pc \in Running =>
          Mine(d)' = Mine(d) /\ call[d].inst # call[c].inst
    /\ \A o \in Calls : call[o].inst' = call[o].inst
    /\ \A o \in Calls \ {call[c].obj} : object[o]' = object[o]
    /\ call[c].inst \in Instances /\ call[c].obj \in Calls
    /\ call[call[c].obj].inst = call[c].inst /\ object[call[c].obj] = Mine(c)
    /\ object[call[c].obj] # Nothing

(* A step of the drive c disturbs no other drive, and none that has not    *)
(* begun.                                                                  *)
LEMMA OthersKept ==
    ASSUME IInv, NEW c \in Calls, call[c].pc \in Running, NEW record \in Call, NEW new \in Instance,
           record.pc \in Running, record.inst = call[c].inst, record.obj = call[c].obj,
           call' = [call EXCEPT ![c] = record], object' = [object EXCEPT ![call[c].obj] = new],
           UNCHANGED <<cache, row>>,
           \A i \in Instances : i # call[c].inst => log'[i] = log[i]
    PROVE  Others(c, record, new)
<1>1. call[c].inst \in Instances /\ call[c].obj \in Calls /\ Mine(c) \in Instance
  BY DriveTyped DEF IInv
<1>2. /\ call[c]' = record /\ object[call[c].obj]' = new
      /\ \A d \in Calls \ {c} : call[d]' = call[d]
      /\ \A o \in Calls \ {call[c].obj} : object[o]' = object[o]
  BY <1>1, Types DEF IInv, TInv
<1>3. \A d \in Calls : call[d].pc \in Running => call[d].obj \in Calls
  BY DEF IInv, TInv, Holding
<1>4. \A d \in Calls \ {c} : call[d].pc \in Running =>
          call[d].obj # call[c].obj /\ call[d].inst # call[c].inst
  BY ObjectsApart DEF IInv, Apart
<1>5. \A o \in Calls : call[o].inst' = call[o].inst /\ (call[o].pc = "done" => call[o]' = call[o])
  BY <1>2 DEF Running
<1>6. \A d \in Calls \ {c} : Recipe(d)' = Recipe(d)
  BY <1>2 DEF Recipe
<1>7. \A d \in Calls \ {c} : call[d].pc \in Running => Mine(d)' = Mine(d)
  BY <1>2, <1>3, <1>4 DEF Mine
<1>8. Mine(c)' = new
  BY <1>2 DEF Mine
<1>9. call[call[c].obj].inst = call[c].inst /\ object[call[c].obj] = Mine(c)
      /\ object[call[c].obj] # Nothing
  BY <1>1, WorkflowAssumption DEF IInv, Apart, Mine
<1>10. \A d \in Calls : call[d]'.pc \in Running => call[d].pc \in Running
  BY <1>2
<1>11. Apart'
  <2>1. \A a, d \in Calls :
          call[a]'.pc \in Running /\ call[d]'.pc \in Running /\ call[a]'.inst = call[d]'.inst => a = d
    BY <1>5, <1>10 DEF IInv, Apart
  <2>2. \A d \in Calls : call[d]'.pc \in Running =>
          \/ call[d]'.obj = d
          \/ call[call[d].obj]'.pc = "done" /\ call[call[d].obj]'.inst = call[d]'.inst
    <3>1. \A d \in Calls : call[d]'.obj = call[d].obj
      BY <1>2
    <3>2. QED
      BY <1>3, <1>5, <1>10, <3>1 DEF IInv, Apart
  <2>3. \A j \in Instances : cache[j]' # Nothing =>
          call[cache[j]]'.pc = "done" /\ call[cache[j]]'.inst = j
    <3>1. \A j \in Instances : cache[j] # Nothing => cache[j] \in Calls
      BY DEF IInv, TInv, TypeOK
    <3>2. QED
      BY <1>5, <3>1 DEF IInv, Apart
  <2>4. \A o \in Calls : object[o]' # Nothing =>
          call[o]'.inst \in Instances /\ call[o]'.pc \in Running \cup {"done"}
    BY <1>2, <1>5, <1>9 DEF IInv, Apart
  <2>5. QED
    BY <2>1, <2>2, <2>3, <2>4 DEF IInv, Apart
<1>12. Untouched'
  <2>1. \A i \in Instances : call[i]'.pc = "idle" => call[i].pc = "idle"
    BY <1>2 DEF Running
  <2>2. \A i \in Instances : call[i].pc = "idle" => i # call[c].inst
    BY DEF IInv, Untouched
  <2>3. QED
    BY <1>5, <1>10, <2>1, <2>2 DEF IInv, Untouched
<1>13. QED
  BY <1>1, <1>2, <1>4, <1>5, <1>6, <1>7, <1>8, <1>9, <1>11, <1>12 DEF Others

LEMMA DrivingKept ==
    ASSUME IInv, NEW c \in Calls, DrivingAt(c)',
           \A d \in Calls \ {c} : call[d]' = call[d] /\ Recipe(d)' = Recipe(d),
           \A d \in Calls \ {c} : call[d].pc \in Running => Mine(d)' = Mine(d)
    PROVE  Driving'
<1>1. \A d \in Calls \ {c} : DrivingAt(d) => DrivingAt(d)'
  BY DEF DrivingAt, Passed, Current, Running
<1>2. \A d \in Calls : DrivingAt(d)
  BY DEF IInv, Driving, DrivingAt
<1>3. \A d \in Calls : DrivingAt(d)'
  BY <1>1, <1>2
<1>4. QED
  BY <1>3 DEF Driving, DrivingAt

LEMMA AuditHeld ==
    ASSUME IInv, NEW c \in Calls, Audit(c)
    PROVE  IInv'
<1>1. /\ call[c].pc = "audit" /\ UNCHANGED <<object, cache, row, log>>
      /\ object' = [object EXCEPT ![call[c].obj] = Mine(c)]
  BY Audited DEF IInv
<1>2. PICK record \in Call :
          /\ call' = [call EXCEPT ![c] = record]
          /\ record.pc = "act" /\ record.inst = call[c].inst /\ record.obj = call[c].obj
          /\ record.state = call[c].state
          /\ record.action = (IF Tier(Current(c)) = 3 THEN Len(Recipe(c)) + 1
                              ELSE call[c].action + 1)
  BY Audited DEF IInv
<1>3. call[c].pc \in Running /\ record.pc \in Running
  BY <1>1, <1>2 DEF Running
<1>4. Mine(c) \in Instance /\ call[c].inst \in Instances /\ call[c] \in Call
  BY <1>3, DriveTyped DEF IInv
<1>5. \A i \in Instances : i # call[c].inst => log'[i] = log[i]
  BY <1>1
<1>6. /\ Apart' /\ Untouched'
      /\ call[c]' = record /\ Mine(c)' = Mine(c)
      /\ \A d \in Calls \ {c} : call[d]' = call[d] /\ Recipe(d)' = Recipe(d)
      /\ \A d \in Calls \ {c} : call[d].pc \in Running => Mine(d)' = Mine(d)
      /\ \A o \in Calls : call[o].inst' = call[o].inst
  <2>1. PICK new \in Instance : new = Mine(c)
    BY <1>4
  <2>2. object' = [object EXCEPT ![call[c].obj] = new] /\ UNCHANGED <<cache, row>>
    BY <1>1, <2>1
  <2>3. Others(c, record, new)
    BY <1>2, <1>3, <1>5, <2>2, OthersKept
  <2>4. QED
    BY <2>1, <2>3 DEF Others
<1>7. TInv'
  BY AuditTyped DEF IInv
<1>8. Recipe(c)' = Recipe(c) /\ Recipe(c) \in Seq(STRING) /\ call[c].action \in Nat \ {0}
  BY <1>2, <1>4, <1>6, RecipeTyped DEF Recipe, Call
<1>9. /\ Mine(c).state = call[c].state /\ Passed(c) /\ call[c].action \in DOMAIN Recipe(c)
      /\ (Mine(c).status = "paused") <=> (Tier(Current(c)) = 3)
  BY <1>1 DEF IInv, Driving, DrivingAt
<1>10. DrivingAt(c)'
  <2>1. CASE Tier(Current(c)) = 3
    <3>1. call[c]'.action \notin DOMAIN Recipe(c)
      BY <1>2, <1>6, <1>8, <2>1
    <3>2. QED
      BY <1>2, <1>6, <1>8, <1>9, <2>1, <3>1 DEF DrivingAt
  <2>2. CASE Tier(Current(c)) # 3
    <3>1. call[c]'.action = call[c].action + 1
      BY <1>2, <1>6, <2>2
    <3>2. Passed(c)'
      BY <1>8, <1>9, <2>2, <3>1 DEF Passed, Current
    <3>3. QED
      BY <1>2, <1>6, <1>9, <2>2, <3>2 DEF DrivingAt
  <2>3. QED
    BY <2>1, <2>2
<1>11. Driving'
  BY <1>6, <1>10, DrivingKept
<1>12. Defined' /\ StaysAtGate'
  BY <1>1 DEF IInv, Defined, StaysAtGate
<1>13. Gated'
  <2>1. \A j, s : (GateAt(j, s)' <=> GateAt(j, s)) /\ Gates(j)' = Gates(j)
    BY <1>1 DEF GateAt, Gates
  <2>2. \A d \in Calls : call[d]'.pc \in {"act", "audit"} =>
          call[d].pc \in {"act", "audit"} /\ call[d]'.state = call[d].state
    BY <1>1, <1>2, <1>6
  <2>3. \A d \in Calls : call[d]'.pc \in {"act", "audit"} =>
          \A p \in Gates(call[d].inst)' : log[call[d].inst]'[p].state = call[d]'.state
    BY <1>1, <1>6, <2>1, <2>2 DEF IInv, Gated
  <2>4. \A o \in Calls : object[o]' # Nothing =>
          (object[o]'.status = "paused" => GateAt(call[o].inst, object[o].state)')
    BY <1>1, <1>6, <2>1 DEF IInv, Gated
  <2>5. QED
    BY <1>1, <2>1, <2>3, <2>4 DEF IInv, Gated
<1>14. QED
  BY <1>6, <1>7, <1>11, <1>12, <1>13 DEF IInv

(* An entry is appended, unless it repeats the last.                       *)
LEMMA LoggedEntries ==
    ASSUME NEW s \in Seq(Entry), NEW e \in Entry
    PROVE  LET t == Logged(s, e) IN
           /\ DOMAIN s \subseteq DOMAIN t /\ \A p \in DOMAIN s : t[p] = s[p]
           /\ Len(t) \in DOMAIN t /\ t[Len(t)] = e
           /\ \A p \in DOMAIN t : p \in DOMAIN s \/ p = Len(t)
  BY DEF Logged

LEMMA ExecuteHeld ==
    ASSUME IInv, NEW c \in Calls, Execute(c)
    PROVE  IInv'
<1>1. call[c].pc = "act" /\ call[c].action \in DOMAIN Recipe(c) /\ UNCHANGED <<cache, row>>
  BY Executed DEF IInv
<1>2. PICK record \in Call, new \in Instance, ok \in BOOLEAN :
          /\ record.pc = "audit" /\ record.inst = call[c].inst /\ record.obj = call[c].obj
          /\ record.state = call[c].state /\ record.action = call[c].action
          /\ new.state = Mine(c).state
          /\ new.status = (IF Tier(Current(c)) = 3 THEN "paused" ELSE Mine(c).status)
          /\ call' = [call EXCEPT ![c] = record]
          /\ object' = [object EXCEPT ![call[c].obj] = new]
          /\ log' = [log EXCEPT ![call[c].inst] =
                Logged(log[call[c].inst],
                       [state |-> call[c].state, action |-> Current(c), ok |-> ok])]
  BY Executed DEF IInv
<1>3. call[c].pc \in Running /\ record.pc \in Running
  BY <1>1, <1>2 DEF Running
<1>0. PICK i \in Instances : i = call[c].inst
  BY <1>3, DriveTyped DEF IInv
<1>4. Mine(c) \in Instance /\ call[c] \in Call /\ i = call[c].inst
  BY <1>0, <1>3, DriveTyped DEF IInv
<1> DEFINE e == [state |-> call[c].state, action |-> Current(c), ok |-> ok]
<1>5. TInv'
  BY ExecuteTyped DEF IInv
<1>6. e \in Entry /\ e.state = call[c].state /\ e.action = Current(c)
  BY <1>1, <1>4, LogTyped DEF IInv
<1>7. log[i] \in Seq(Entry) /\ log' = [log EXCEPT ![i] = Logged(log[i], e)]
  BY <1>2, <1>4, Types DEF IInv, TInv
<1> HIDE DEF e
<1>8. /\ \A j \in Instances : j # i => log'[j] = log[j]
      /\ log'[i] = Logged(log[i], e)
  BY <1>4, <1>7, Types DEF IInv, TInv
<1>9. /\ DOMAIN log[i] \subseteq DOMAIN log'[i]
      /\ \A p \in DOMAIN log[i] : log'[i][p] = log[i][p]
      /\ Len(log'[i]) \in DOMAIN log'[i] /\ log'[i][Len(log'[i])] = e
      /\ \A p \in DOMAIN log'[i] : p \in DOMAIN log[i] \/ p = Len(log'[i])
  BY <1>6, <1>7, <1>8, LoggedEntries
<1>10. Others(c, record, new)
  <2>1. \A j \in Instances : j # call[c].inst => log'[j] = log[j]
    BY <1>8, <1>4
  <2>2. QED
    BY <1>1, <1>2, <1>3, <2>1, OthersKept
<1>11. /\ Mine(c).state = call[c].state /\ Passed(c) /\ Mine(c).status # "paused"
  BY <1>1 DEF IInv, Driving, DrivingAt
<1>12. Recipe(c)' = Recipe(c)
  BY <1>2, <1>10 DEF Recipe, Others
<1>13. Driving'
  <2>1. Passed(c)' /\ Current(c)' = Current(c)
    BY <1>2, <1>10, <1>11, <1>12 DEF Passed, Current, Others
  <2>2. (new.status = "paused") <=> (Tier(Current(c)) = 3)
    BY <1>2, <1>11
  <2>3. DrivingAt(c)'
    BY <1>1, <1>2, <1>10, <1>11, <1>12, <2>1, <2>2 DEF DrivingAt, Others
  <2>4. QED
    BY <1>10, <2>3, DrivingKept DEF Others
<1>14. call[c].state \in DOMAIN Actions[i] /\ Recipe(c) = Actions[i][call[c].state]
  BY <1>1, <1>4 DEF Recipe
<1>15. Defined'
  <2> SUFFICES ASSUME NEW j \in Instances, NEW p \in DOMAIN log'[j]
               PROVE  /\ log'[j][p].state \in DOMAIN Actions[j]
                      /\ \E n \in DOMAIN Actions[j][log'[j][p].state] :
                            Actions[j][log'[j][p].state][n] = log'[j][p].action
    BY DEF Defined
  <2>1. CASE j # i \/ p \in DOMAIN log[i]
    BY <1>8, <1>9, <2>1 DEF IInv, Defined
  <2>2. CASE j = i /\ p = Len(log'[i])
    BY <1>1, <1>6, <1>9, <1>14, <2>2 DEF Current
  <2>3. QED
    BY <1>9, <2>1, <2>2
<1>16. \A p \in DOMAIN log[i] : Tier(log[i][p].action) = 3 => log[i][p].state = call[c].state
  BY <1>1, <1>4 DEF IInv, Gated, Gates
<1>17. StaysAtGate'
  <2> SUFFICES ASSUME NEW j \in Instances, NEW p \in DOMAIN log'[j], NEW q \in DOMAIN log'[j],
                      p < q, Tier(log'[j][p].action) = 3
               PROVE  /\ log'[j][q].state = log'[j][p].state
                      /\ \E n \in DOMAIN Actions[j][log'[j][q].state] :
                            /\ Actions[j][log'[j][q].state][n] = log'[j][q].action
                            /\ \A m \in 1..(n - 1) : Tier(Actions[j][log'[j][q].state][m]) # 3
    BY DEF StaysAtGate
  <2>1. CASE j # i
    BY <1>8, <2>1 DEF IInv, StaysAtGate
  <2>2. CASE j = i /\ p \in DOMAIN log[i] /\ q \in DOMAIN log[i]
    BY <1>9, <2>2 DEF IInv, StaysAtGate
  <2>3. CASE j = i /\ p \in DOMAIN log[i] /\ q = Len(log'[i])
    <3>1. log'[i][q].state = call[c].state /\ log'[i][p].state = call[c].state
          /\ log'[i][q].action = Recipe(c)[call[c].action]
      BY <1>6, <1>9, <1>16, <2>3 DEF Current
    <3>2. \A m \in 1..(call[c].action - 1) : Tier(Recipe(c)[m]) # 3
      <4>1. Recipe(c) \in Seq(STRING)
        BY <1>4, RecipeTyped
      <4>2. QED
        BY <1>1, <1>11, <4>1 DEF Passed
    <3>3. QED
      BY <1>1, <1>14, <2>3, <3>1, <3>2
  <2>4. CASE j = i /\ p \notin DOMAIN log[i]
    <3>1. p = Len(log'[i]) /\ log'[i] \in Seq(Entry)
      BY <1>4, <1>5, <1>9, <2>4, Types DEF TInv, TypeOK, Entry
    <3>2. QED
      BY <2>4, <3>1
  <2>5. QED
    BY <1>9, <2>1, <2>2, <2>3, <2>4
<1>18. Gated'
  <2>1. \A j \in Instances : \A s : GateAt(j, s) => GateAt(j, s)'
    BY <1>8, <1>9 DEF GateAt, Gates
  <2>2. \A p \in Gates(i)' : log'[i][p].state = call[c].state
    BY <1>6, <1>9, <1>16 DEF Gates
  <2>3. \A j \in Instances : j # i => Gates(j)' = Gates(j)
    BY <1>8 DEF Gates
  <2>4. \A d \in Calls : call'[d].pc \in {"act", "audit"} =>
          \A p \in Gates(call[d].inst)' : log'[call'[d].inst][p].state = call'[d].state
    <3>1. \A d \in Calls : call[d].pc \in Running => call[d].inst \in Instances
      BY DEF IInv, TInv, Holding
    <3>2. SUFFICES ASSUME NEW d \in Calls, call'[d].pc \in {"act", "audit"}
                   PROVE  \A p \in Gates(call[d].inst)' :
                             log'[call'[d].inst][p].state = call'[d].state
      OBVIOUS
    <3>3. CASE d = c
      BY <1>2, <1>10, <2>2, <3>3, <1>4 DEF Others
    <3>4. CASE d # c
      BY <1>8, <1>10, <2>3, <3>1, <3>2, <3>4, <1>4 DEF Others, IInv, Gated, Running
    <3>5. QED
      BY <3>3, <3>4
  <2>5. \A o \in Calls : object'[o] # Nothing =>
          (object'[o].status = "paused" => GateAt(call[o].inst, object[o].state)')
    <3> SUFFICES ASSUME NEW o \in Calls, object'[o] # Nothing, object'[o].status = "paused"
                 PROVE  GateAt(call[o].inst, object[o].state)'
      OBVIOUS
    <3>1. CASE o = call[c].obj
      <4>1. object'[o] = new /\ Tier(Current(c)) = 3
        BY <1>2, <1>10, <1>11, <3>1 DEF Others
      <4>2. \E p \in DOMAIN log'[i] : Tier(log'[i][p].action) = 3 /\ log'[i][p].state = call[c].state
        BY <1>6, <1>9, <4>1
      <4>3. call'[o].inst = i /\ object'[o].state = call[c].state
        BY <1>2, <1>4, <1>10, <1>11, <3>1, <4>1 DEF Others
      <4>4. QED
        BY <4>2, <4>3 DEF GateAt, Gates
    <3>2. CASE o # call[c].obj
      <4>1. call[o].inst' = call[o].inst /\ object[o]' = object[o]
        BY <1>10, <3>2 DEF Others
      <4>2. call[o].inst \in Instances /\ GateAt(call[o].inst, object[o].state)
        BY <4>1 DEF IInv, Apart, Gated
      <4>3. QED
        BY <1>8, <1>9, <4>1, <4>2 DEF GateAt, Gates
    <3>3. QED
      BY <3>1, <3>2
  <2>6. \A j \in Instances : row'[j] # Nothing =>
          (row'[j].status = "paused" => GateAt(j, row[j].state)')
    BY <1>1, <2>1 DEF IInv, Gated
  <2>7. QED
    BY <2>4, <2>5, <2>6 DEF Gated
<1>19. QED
  BY <1>5, <1>10, <1>13, <1>15, <1>17, <1>18 DEF IInv, Others

LEMMA TurnHeld ==
    ASSUME IInv, NEW c \in Calls, Turn(c)
    PROVE  IInv'
<1>1. /\ call[c].pc = "act" /\ call[c].action \notin DOMAIN Recipe(c)
      /\ UNCHANGED <<cache, row, log>>
  BY Turned DEF IInv
<1>2. PICK record \in Call, new \in Instance :
          /\ call' = [call EXCEPT ![c] = record]
          /\ object' = [object EXCEPT ![call[c].obj] = new]
          /\ record.inst = call[c].inst /\ record.obj = call[c].obj
          /\ \/ /\ record.pc = "save" /\ new.state = Mine(c).state
                /\ new.status = "paused" => Mine(c).status = "paused"
             \/ /\ record.pc \in {"act", "save"} /\ Mine(c).status # "paused"
                /\ new.status # "paused" /\ record.state = new.state /\ record.action = 1
  BY Turned DEF IInv
<1>3. call[c].pc \in Running /\ record.pc \in Running
  BY <1>1, <1>2 DEF Running
<1>4. PICK i \in Instances : i = call[c].inst
  BY <1>3, DriveTyped DEF IInv
<1>5. TInv'
  BY TurnTyped DEF IInv
<1>6. Others(c, record, new)
  <2>1. \A j \in Instances : j # call[c].inst => log'[j] = log[j]
    BY <1>1
  <2>2. QED
    BY <1>1, <1>2, <1>3, <2>1, OthersKept
<1>7. Mine(c).state = call[c].state /\ (Mine(c).status # "paused" => Passed(c))
  BY <1>1 DEF IInv, Driving, DrivingAt
<1>8. Mine(c).status # "paused" => Gates(i) = {}
  <2> SUFFICES ASSUME Mine(c).status # "paused", NEW p \in Gates(i) PROVE FALSE
    OBVIOUS
  <2>1. p \in DOMAIN log[i] /\ Tier(log[i][p].action) = 3 /\ log[i][p].state = call[c].state
    BY <1>1, <1>4 DEF IInv, Gated, Gates
  <2>2. PICK n \in DOMAIN Actions[i][call[c].state] :
           Actions[i][call[c].state][n] = log[i][p].action /\ call[c].state \in DOMAIN Actions[i]
    BY <2>1 DEF IInv, Defined
  <2>3. n \in DOMAIN Recipe(c) /\ Tier(Recipe(c)[n]) = 3
    BY <1>4, <2>1, <2>2 DEF Recipe
  <2>4. Recipe(c) \in Seq(STRING) /\ call[c].action \in Nat \ {0}
    BY <1>4, RecipeTyped, Types DEF IInv, TInv, Call
  <2>5. n \in 1..(call[c].action - 1)
    BY <1>1, <2>3, <2>4
  <2>6. QED
    BY <1>7, <2>3, <2>5 DEF Passed
<1>9. Driving'
  <2>1. DrivingAt(c)'
    <3>1. CASE record.pc = "save"
      BY <1>6, <3>1 DEF DrivingAt, Others
    <3>2. CASE record.pc = "act"
      <4>1. record.state = new.state /\ record.action = 1 /\ new.status # "paused"
        BY <1>2, <3>2
      <4>2. Passed(c)'
        BY <1>6, <4>1 DEF Passed, Others
      <4>3. QED
        BY <1>6, <3>2, <4>1, <4>2 DEF DrivingAt, Others
    <3>3. QED
      BY <1>2, <3>1, <3>2
  <2>2. QED
    BY <1>6, <2>1, DrivingKept DEF Others
<1>10. Defined' /\ StaysAtGate'
  BY <1>1 DEF IInv, Defined, StaysAtGate
<1>11. Gated'
  <2>1. \A j : Gates(j)' = Gates(j)
    BY <1>1 DEF Gates
  <2>2. \A d \in Calls : call'[d].pc \in {"act", "audit"} =>
          \A p \in Gates(call[d].inst)' : log'[call'[d].inst][p].state = call'[d].state
    <3> SUFFICES ASSUME NEW d \in Calls, call'[d].pc \in {"act", "audit"}
                 PROVE  \A p \in Gates(call[d].inst)' :
                           log'[call'[d].inst][p].state = call'[d].state
      OBVIOUS
    <3>1. CASE d = c
      <4>1. Gates(i) = {}
        BY <1>2, <1>6, <1>8, <3>1 DEF Others
      <4>2. Gates(call[d].inst)' = {}
        BY <1>1, <1>4, <1>6, <3>1, <4>1 DEF Gates, Others
      <4>3. QED
        BY <4>2
    <3>2. CASE d # c
      BY <1>1, <1>6, <3>2 DEF Others, IInv, Gated, Gates
    <3>3. QED
      BY <3>1, <3>2
  <2>3. \A o \in Calls : object'[o] # Nothing =>
          (object'[o].status = "paused" => GateAt(call[o].inst, object[o].state)')
    <3> SUFFICES ASSUME NEW o \in Calls, object'[o] # Nothing, object'[o].status = "paused"
                 PROVE  GateAt(call[o].inst, object[o].state)'
      OBVIOUS
    <3>1. object[o] # Nothing /\ object[o].status = "paused" /\ object'[o].state = object[o].state
      <4>1. CASE o = call[c].obj
        <5>1. object'[o] = new /\ object[o] = Mine(c)
          BY <1>2, <1>6, <4>1 DEF Others
        <5>2. QED
          BY <1>2, <1>6, <4>1, <5>1 DEF Others
      <4>2. CASE o # call[c].obj
        BY <1>6, <4>2 DEF Others
      <4>3. QED
        BY <4>1, <4>2
    <3>2. GateAt(call[o].inst, object[o].state) /\ call'[o].inst = call[o].inst
      BY <1>6, <3>1 DEF IInv, Gated, Others
    <3>3. QED
      BY <1>1, <3>1, <3>2 DEF GateAt, Gates
  <2>4. \A j \in Instances : row'[j] # Nothing =>
          (row'[j].status = "paused" => GateAt(j, row[j].state)')
    BY <1>1 DEF IInv, Gated, GateAt, Gates
  <2>5. QED
    BY <2>2, <2>3, <2>4 DEF Gated
<1>12. QED
  BY <1>5, <1>6, <1>9, <1>10, <1>11 DEF IInv, Others

LEMMA SaveHeld ==
    ASSUME IInv, NEW c \in Calls, Save(c)
    PROVE  IInv'
<1>1. /\ call[c].pc = "save" /\ UNCHANGED <<object, log>>
      /\ cache' = [cache EXCEPT ![call[c].inst] = call[c].obj]
      /\ row' = row \/ row' = [row EXCEPT ![call[c].inst] = Mine(c)]
  BY Saved DEF IInv
<1>2. PICK record \in Call :
          /\ call' = [call EXCEPT ![c] = record]
          /\ record.pc = "done" /\ record.inst = call[c].inst /\ record.obj = call[c].obj
  BY Saved DEF IInv
<1>3. call[c].pc \in Running /\ record.pc \notin Running
  BY <1>1, <1>2 DEF Running
<1>4. PICK i \in Instances : i = call[c].inst
  BY <1>3, DriveTyped DEF IInv
<1>5. call[c].obj \in Calls /\ Mine(c) \in Instance
  BY <1>3, DriveTyped DEF IInv
<1>6. TInv'
  BY SaveTyped DEF IInv
<1>7. /\ call'[c] = record /\ \A d \in Calls \ {c} : call'[d] = call[d]
      /\ cache'[i] = call[c].obj /\ \A j \in Instances \ {i} : cache'[j] = cache[j] /\ row'[j] = row[j]
      /\ row'[i] = row[i] \/ row'[i] = Mine(c)
  BY <1>1, <1>2, <1>4, Types DEF IInv, TInv
<1>8. /\ \A d \in Calls : call'[d].pc \in Running => d # c /\ call[d].pc \in Running /\ call'[d] = call[d]
      /\ \A d \in Calls : call'[d].inst = call[d].inst
      /\ \A d \in Calls : call[d].pc = "done" => call'[d].pc = "done"
  BY <1>2, <1>3, <1>7
<1>9. Apart'
  <2>1. \A a, d \in Calls :
          call'[a].pc \in Running /\ call'[d].pc \in Running /\ call'[a].inst = call'[d].inst => a = d
    BY <1>8 DEF IInv, Apart
  <2>2. \A d \in Calls : call'[d].pc \in Running =>
          \/ call'[d].obj = d
          \/ call'[call'[d].obj].pc = "done" /\ call'[call'[d].obj].inst = call'[d].inst
    <3>1. \A d \in Calls : call[d].pc \in Running => call[d].obj \in Calls
      BY DEF IInv, TInv, Holding
    <3>2. QED
      BY <1>8, <3>1 DEF IInv, Apart
  <2>3. \A j \in Instances : cache'[j] # Nothing =>
          call'[cache'[j]].pc = "done" /\ call'[cache'[j]].inst = j
    <3>1. \A j \in Instances : cache[j] # Nothing => cache[j] \in Calls
      BY DEF IInv, TInv, TypeOK
    <3>2. call'[call[c].obj].pc = "done" /\ call'[call[c].obj].inst = i
      BY <1>2, <1>3, <1>4, <1>5, <1>7, <1>8 DEF IInv, Apart
    <3>3. QED
      BY <1>7, <1>8, <3>1, <3>2 DEF IInv, Apart
  <2>4. \A o \in Calls : object'[o] # Nothing =>
          call'[o].inst \in Instances /\ call'[o].pc \in Running \cup {"done"}
    BY <1>1, <1>2, <1>7, <1>8 DEF IInv, Apart
  <2>5. QED
    BY <2>1, <2>2, <2>3, <2>4 DEF IInv, Apart
<1>10. Untouched'
  <2>1. \A j \in Instances : call'[j].pc = "idle" => call[j].pc = "idle"
    BY <1>2, <1>7 DEF Calls
  <2>2. \A j \in Instances : call[j].pc = "idle" => j # i
    BY <1>3, <1>4 DEF IInv, Untouched
  <2>3. QED
    BY <1>1, <1>7, <1>8, <2>1, <2>2 DEF IInv, Untouched
<1>11. Driving'
  <2>1. DrivingAt(c)'
    BY <1>2, <1>7 DEF DrivingAt
  <2>2. \A d \in Calls \ {c} : call[d]' = call[d] /\ Recipe(d)' = Recipe(d)
    BY <1>7 DEF Recipe
  <2>3. \A d \in Calls \ {c} : call[d].pc \in Running => Mine(d)' = Mine(d)
    BY <1>1, <1>7 DEF Mine
  <2>4. QED
    BY <2>1, <2>2, <2>3, DrivingKept
<1>12. Defined' /\ StaysAtGate'
  BY <1>1 DEF IInv, Defined, StaysAtGate
<1>13. Gated'
  <2>1. \A d \in Calls : call'[d].pc \in {"act", "audit"} =>
          \A p \in Gates(call[d].inst)' : log'[call'[d].inst][p].state = call'[d].state
    BY <1>1, <1>8 DEF IInv, Gated, Gates, Running
  <2>2. \A o \in Calls : object'[o] # Nothing =>
          (object'[o].status = "paused" => GateAt(call[o].inst, object[o].state)')
    BY <1>1, <1>8 DEF IInv, Gated, GateAt, Gates
  <2>3. \A j \in Instances : row'[j] # Nothing =>
          (row'[j].status = "paused" => GateAt(j, row[j].state)')
    <3> SUFFICES ASSUME NEW j \in Instances, row'[j] # Nothing, row'[j].status = "paused"
                 PROVE  GateAt(j, row[j].state)'
      OBVIOUS
    <3>1. GateAt(j, row'[j].state)
      <4>1. CASE row'[j] = row[j]
        BY <4>1 DEF IInv, Gated
      <4>2. CASE j = i /\ row'[j] = Mine(c)
        <5>1. object[call[c].obj] = Mine(c) /\ object[call[c].obj] # Nothing
          BY <1>5, WorkflowAssumption DEF Mine
        <5>2. call[call[c].obj].inst = i
          BY <1>3, <1>4, <1>5 DEF IInv, Apart
        <5>3. QED
          BY <1>5, <4>2, <5>1, <5>2 DEF IInv, Gated
      <4>3. QED
        BY <1>7, <4>1, <4>2
    <3>2. QED
      BY <1>1, <3>1 DEF GateAt, Gates
  <2>4. QED
    BY <2>1, <2>2, <2>3 DEF Gated
<1>14. QED
  BY <1>6, <1>9, <1>10, <1>11, <1>12, <1>13 DEF IInv

LEMMA RestartHeld ==
    ASSUME IInv, Restart
    PROVE  IInv'
<1>1. /\ UNCHANGED <<row, log>> /\ object' = [c \in Calls |-> Nothing]
      /\ cache' = [i \in Instances |-> Nothing]
      /\ \A c \in Calls : call'[c] = call[c] \/ call'[c].pc = "dead"
      /\ \A c \in Calls : call'[c].pc \notin Running
  BY Restarted DEF IInv
<1>2. TInv'
  BY RestartTyped DEF IInv
<1>3. Apart'
  BY <1>1 DEF IInv, Apart
<1>4. Untouched'
  BY <1>1 DEF IInv, Untouched, Calls
<1>5. Driving'
  BY <1>1 DEF Driving, DrivingAt, Running
<1>6. Defined' /\ StaysAtGate'
  BY <1>1 DEF IInv, Defined, StaysAtGate
<1>7. Gated'
  BY <1>1 DEF IInv, Gated, GateAt, Gates, Running
<1>8. QED
  BY <1>2, <1>3, <1>4, <1>5, <1>6, <1>7 DEF IInv

LEMMA StepHeld == IInv /\ [Next]_vars => IInv'
<1> SUFFICES ASSUME IInv, [Next]_vars PROVE IInv'
  OBVIOUS
<1>1. CASE \E i \in Instances : Handle(i)
  BY <1>1, HandleHeld
<1>2. CASE \E c \in Approvals, i \in Instances : Resume(c, i)
  BY <1>2, ResumeHeld
<1>3. CASE \E c \in Calls : Drive(c)
  BY <1>3, ExecuteHeld, AuditHeld, TurnHeld, SaveHeld DEF Drive
<1>4. CASE Restart
  BY <1>4, RestartHeld
<1>5. CASE UNCHANGED vars
  <2>1. UNCHANGED <<call, object, cache, row, log>>
    BY <1>5 DEF vars
  <2>2. TInv'
    BY StepTyped DEF IInv
  <2>3. Apart' /\ Untouched'
    BY <2>1 DEF IInv, Apart, Untouched
  <2>4. Defined' /\ StaysAtGate'
    BY <2>1 DEF IInv, Defined, StaysAtGate
  <2>5. Driving'
    BY <2>1 DEF IInv, Driving, DrivingAt, Mine, Recipe, Passed, Current
  <2>6. Gated'
    BY <2>1 DEF IInv, Gated, GateAt, Gates
  <2>7. QED
    BY <2>2, <2>3, <2>4, <2>5, <2>6 DEF IInv
<1>6. QED
  BY <1>1, <1>2, <1>3, <1>4, <1>5 DEF Next

(* A drive that has come to an action of tier 3 and whose instance nobody  *)
(* has resumed since stands behind the actions of its state or before the  *)
(* audit of that very action, with its instance paused: only resume makes  *)
(* a paused instance active, whichever drives share its object.            *)
RecipeOf(r) == IF r.state \in DOMAIN Actions[r.inst] THEN Actions[r.inst][r.state] ELSE <<>>

AtGate(r, o) ==
    /\ o.status = "paused"
    /\ r.pc = "act" => r.action \notin DOMAIN RecipeOf(r)
    /\ r.pc = "audit" => Tier(RecipeOf(r)[r.action]) = 3

HeldAt(c) == call[c].pc \in Running => AtGate(call[c], object[call[c].obj])

HeldInv ==
    /\ TInv
    /\ \A c \in Calls : call[c].pc = "idle" => c \notin held /\ call[c].inst = Nothing
    /\ \A c \in held : HeldAt(c)
    /\ \A c \in Calls : call[c].pc \in Running => call[call[c].obj].inst = call[c].inst
    /\ \A i \in Instances : cache[i] # Nothing => call[cache[i]].inst = i

(* What a step of the call c that leaves record and new does, as far as    *)
(* HeldInv looks at it.                                                    *)
HeldStep(c, record, o, new) ==
    /\ call' = [call EXCEPT ![c] = record] /\ object' = [object EXCEPT ![o] = new]
    /\ record.pc # "idle" /\ record.inst \in Instances /\ record.obj = o
    /\ o = c \/ call[o].inst = record.inst
    /\ call[c].pc = "idle" \/ call[c].inst = record.inst
    /\ held' \subseteq held \cup {c} /\ (c \in held' => AtGate(record, new))
    /\ \A d \in held' \ {c} : call[d].pc \in Running /\ call[d].obj = o => new.status = "paused"
    /\ \A i \in Instances : cache'[i] = cache[i] \/ (cache'[i] = o /\ i = record.inst)

LEMMA HeldKept ==
    ASSUME HeldInv, TInv', NEW c \in Calls, NEW record \in Call, NEW o \in Calls, NEW new \in Instance,
           HeldStep(c, record, o, new)
    PROVE  HeldInv'
<1> USE DEF HeldStep
<1>1. /\ call'[c] = record /\ object'[o] = new
      /\ \A d \in Calls \ {c} : call'[d] = call[d]
      /\ \A d \in Calls \ {o} : object'[d] = object[d]
  BY Types DEF HeldInv, TInv
<1>2. \A d \in Calls : call[d].pc \in Running => call[d].obj \in Calls /\ call[d].inst \in Instances
  BY DEF HeldInv, TInv, Holding
<1>3. call'[o].inst = record.inst
  BY <1>1
<1>4. \A d \in Calls : call[d].inst \in Instances => call'[d].inst = call[d].inst
  BY <1>1, WorkflowAssumption DEF HeldInv, Calls
<1>5. \A d \in Calls : call'[d].pc = "idle" => d \notin held' /\ call'[d].inst = Nothing
  BY <1>1 DEF HeldInv
<1>6. ASSUME NEW d \in held' PROVE HeldAt(d)'
  <2>1. CASE d = c
    BY <1>1, <2>1 DEF HeldAt
  <2>2. CASE d # c
    <3>1. d \in Calls /\ HeldAt(d) /\ call'[d] = call[d]
      BY <1>1, <2>2 DEF HeldInv, TInv, TypeOK
    <3>2. call[d].pc \in Running => object'[call[d].obj] \in {object[call[d].obj], new}
      BY <1>1, <1>2, <3>1
    <3>3. call[d].pc \in Running /\ object'[call[d].obj] # object[call[d].obj]
             => new.status = "paused"
      BY <1>1, <1>2, <2>2, <3>1, <3>2
    <3>4. QED
      BY <3>1, <3>2, <3>3 DEF HeldAt, AtGate
  <2>3. QED
    BY <2>1, <2>2
<1>7. \A d \in Calls : call'[d].pc \in Running => call'[call'[d].obj].inst = call'[d].inst
  BY <1>1, <1>2, <1>3, <1>4 DEF HeldInv
<1>8. \A i \in Instances : cache'[i] # Nothing => call'[cache'[i]].inst = i
  <2>1. \A i \in Instances : cache[i] # Nothing => cache[i] \in Calls
    BY DEF HeldInv, TInv, TypeOK
  <2>2. QED
    BY <1>3, <1>4, <2>1 DEF HeldInv
<1>9. QED
  BY <1>5, <1>6, <1>7, <1>8 DEF HeldInv

LEMMA HeldHandle ==
    ASSUME HeldInv, NEW i \in Instances, Handle(i)
    PROVE  HeldInv'
<1> DEFINE new == [state |-> First[i], status |-> "active", approved |-> FALSE,
                   needsApproval |-> FALSE, success |-> FALSE, found |-> FALSE]
<1>1. /\ call[i].pc = "idle" /\ call' = [call EXCEPT ![i] = Begun(i, i, First[i])]
      /\ object' = [object EXCEPT ![i] = new] /\ UNCHANGED <<cache, held>>
  BY DEF Handle
<1>2. i \in Calls /\ First[i] \in States
  BY WorkflowAssumption DEF Calls
<1>3. new \in Instance
  BY <1>2 DEF Instance
<1> HIDE DEF new
<1>4. /\ Begun(i, i, First[i]) \in Call /\ Begun(i, i, First[i]).inst = i
      /\ Begun(i, i, First[i]).obj = i /\ Begun(i, i, First[i]).pc # "idle"
  BY <1>2, BegunTyped
<1>5. TInv'
  BY HandleTyped DEF HeldInv
<1>6. i \notin held' /\ \A d \in held' : call[d].pc \in Running => call[d].obj # i
  <2>1. \A d \in Calls : call[d].pc \in Running => call[d].inst \in Instances
    BY DEF HeldInv, TInv, Holding
  <2>2. call[i].inst = Nothing /\ Nothing \notin Instances /\ held \subseteq Calls
    BY <1>1, <1>2, WorkflowAssumption DEF HeldInv, TInv, TypeOK, Calls
  <2>3. QED
    BY <1>1, <1>2, <2>1, <2>2 DEF HeldInv
<1>7. HeldStep(i, Begun(i, i, First[i]), i, new)
  BY <1>1, <1>2, <1>3, <1>4, <1>5, <1>6 DEF HeldStep
<1>8. QED
  BY <1>1, <1>2, <1>3, <1>4, <1>5, <1>6, <1>7, HeldKept

LEMMA HeldResume ==
    ASSUME HeldInv, NEW c \in Approvals, NEW i \in Instances, Resume(c, i)
    PROVE  HeldInv'
<1>1. /\ c \in Calls /\ call[c].pc = "idle" /\ UNCHANGED cache
      /\ held' = {d \in held : call[d].inst # i}
  BY DEF Calls, Resume, Approve
<1>2. PICK o \in Calls, from \in Instance :
          /\ call' = [call EXCEPT ![c] = Begun(i, o, from.state)]
          /\ object' = [object EXCEPT ![o] = Resumed(from)]
          /\ o = c \/ call[o].inst = i
  <2>1. CASE /\ row[i] # Nothing
             /\ call' = [call EXCEPT ![c] = Begun(i, c, row[i].state)]
             /\ object' = [object EXCEPT ![c] = Resumed(row[i])]
    <3>1. row[i] \in Instance
      BY <2>1 DEF HeldInv, TInv, TypeOK
    <3>2. QED
      BY <1>1, <2>1, <3>1
  <2>2. CASE /\ cache[i] # Nothing
             /\ call' = [call EXCEPT ![c] = Begun(i, cache[i], object[cache[i]].state)]
             /\ object' = [object EXCEPT ![cache[i]] = Resumed(object[cache[i]])]
    <3>1. cache[i] \in Calls /\ object[cache[i]] \in Instance /\ call[cache[i]].inst = i
      BY <2>2 DEF HeldInv, TInv, TypeOK, Holding
    <3>2. QED
      BY <2>2, <3>1
  <2>3. QED
    BY <2>1, <2>2 DEF Resume
<1>3. from.state \in States
  BY DEF Instance
<1>4. /\ Begun(i, o, from.state) \in Call /\ Begun(i, o, from.state).inst = i
      /\ Begun(i, o, from.state).obj = o /\ Begun(i, o, from.state).pc # "idle"
  BY <1>3, BegunTyped
<1>5. Resumed(from) \in Instance
  BY ResumedTyped
<1>6. TInv'
  BY ResumeTyped DEF HeldInv
<1>7. c \notin held' /\ \A d \in held' : call[d].pc \in Running => call[d].obj # o
  <2>1. \A d \in Calls : call[d].pc \in Running =>
           call[d].inst \in Instances /\ call[call[d].obj].inst = call[d].inst
    BY DEF HeldInv, TInv, Holding
  <2>2. c \notin held /\ call[c].inst = Nothing /\ Nothing \notin Instances /\ held \subseteq Calls
    BY <1>1, WorkflowAssumption DEF HeldInv, TInv, TypeOK, Calls
  <2>3. QED
    BY <1>1, <1>2, <2>1, <2>2
<1>8. HeldStep(c, Begun(i, o, from.state), o, Resumed(from))
  BY <1>1, <1>2, <1>4, <1>5, <1>6, <1>7 DEF HeldStep
<1>9. QED
  BY <1>1, <1>2, <1>4, <1>5, <1>6, <1>7, <1>8, HeldKept

LEMMA HeldExecute ==
    ASSUME HeldInv, NEW c \in Calls, Execute(c)
    PROVE  HeldInv'
<1>1. PICK record \in Call, new \in Instance, ok \in BOOLEAN :
          /\ record.pc = "audit" /\ record.inst = call[c].inst /\ record.obj = call[c].obj
          /\ record.state = call[c].state /\ record.action = call[c].action
          /\ new.state = Mine(c).state
          /\ new.status = (IF Tier(Current(c)) = 3 THEN "paused" ELSE Mine(c).status)
          /\ call' = [call EXCEPT ![c] = record]
          /\ object' = [object EXCEPT ![call[c].obj] = new]
          /\ log' = [log EXCEPT ![call[c].inst] =
                Logged(log[call[c].inst],
                       [state |-> call[c].state, action |-> Current(c), ok |-> ok])]
  BY Executed DEF HeldInv
<1>2. /\ call[c].pc = "act" /\ call[c].action \in DOMAIN Recipe(c) /\ UNCHANGED cache
      /\ held' = IF Tier(Current(c)) = 3 THEN held \cup {c} ELSE held
  BY DEF Execute
<1>3. call[c].pc \in Running /\ call[c].inst \in Instances /\ call[c].obj \in Calls
  BY <1>2, DriveTyped DEF HeldInv, Running
<1>4. TInv'
  BY ExecuteTyped DEF HeldInv
<1>5. c \notin held /\ call[call[c].obj].inst = call[c].inst /\ held \subseteq Calls
  BY <1>2, <1>3 DEF HeldInv, HeldAt, AtGate, RecipeOf, Recipe, TInv, TypeOK
<1>6. call'[c] = record /\ object'[call[c].obj] = new
  BY <1>1, <1>3, Types DEF HeldInv, TInv
<1>7. c \in held' => AtGate(record, new)
  BY <1>1, <1>2, <1>5 DEF AtGate, RecipeOf, Current, Recipe
<1>8. \A d \in held' \ {c} : call[d].pc \in Running /\ call[d].obj = call[c].obj
          => new.status = "paused"
  BY <1>1, <1>2, <1>5 DEF HeldInv, HeldAt, AtGate, Mine
<1>9. HeldStep(c, record, call[c].obj, new)
  BY <1>1, <1>2, <1>3, <1>4, <1>5, <1>7, <1>8 DEF HeldStep
<1>10. QED
  BY <1>1, <1>2, <1>3, <1>4, <1>5, <1>7, <1>8, <1>9, HeldKept

LEMMA HeldAudit ==
    ASSUME HeldInv, NEW c \in Calls, Audit(c)
    PROVE  HeldInv'
<1>1. PICK record \in Call :
          /\ call' = [call EXCEPT ![c] = record]
          /\ record.pc = "act" /\ record.inst = call[c].inst /\ record.obj = call[c].obj
          /\ record.state = call[c].state
          /\ record.action = (IF Tier(Current(c)) = 3 THEN Len(Recipe(c)) + 1
                              ELSE call[c].action + 1)
  BY Audited DEF HeldInv
<1>2. /\ call[c].pc = "audit" /\ UNCHANGED <<cache, held>>
      /\ object' = [object EXCEPT ![call[c].obj] = Mine(c)]
  BY Audited DEF HeldInv, Audit
<1>3. /\ call[c].pc \in Running /\ call[c].inst \in Instances /\ call[c].obj \in Calls
      /\ Mine(c) \in Instance
  BY <1>2, DriveTyped DEF HeldInv, Running
<1>4. TInv'
  BY AuditTyped DEF HeldInv
<1>5. call[call[c].obj].inst = call[c].inst /\ held \subseteq Calls
  BY <1>3 DEF HeldInv, TInv, TypeOK
<1>6. call'[c] = record /\ object'[call[c].obj] = Mine(c)
  BY <1>1, <1>2, <1>3, Types DEF HeldInv, TInv
<1>7. c \in held' => AtGate(record, Mine(c))
  <2>1. Recipe(c) \in Seq(STRING) /\ RecipeOf(record) = Recipe(c) /\ RecipeOf(call[c]) = Recipe(c)
    BY <1>1, <1>3, RecipeTyped DEF Recipe, RecipeOf
  <2>2. Len(Recipe(c)) + 1 \notin DOMAIN Recipe(c)
    BY <2>1
  <2>3. QED
    BY <1>1, <1>2, <1>3, <2>1, <2>2 DEF HeldInv, HeldAt, AtGate, Mine, Current
<1>8. \A d \in held' \ {c} : call[d].pc \in Running /\ call[d].obj = call[c].obj
          => Mine(c).status = "paused"
  BY <1>2 DEF HeldInv, HeldAt, AtGate, Mine
<1>9. HeldStep(c, record, call[c].obj, Mine(c))
  BY <1>1, <1>2, <1>3, <1>4, <1>5, <1>7, <1>8 DEF HeldStep
<1>10. QED
  BY <1>1, <1>2, <1>3, <1>4, <1>5, <1>7, <1>8, <1>9, HeldKept

LEMMA HeldTurn ==
    ASSUME HeldInv, NEW c \in Calls, Turn(c)
    PROVE  HeldInv'
<1>1. PICK record \in Call, new \in Instance :
          /\ call' = [call EXCEPT ![c] = record]
          /\ object' = [object EXCEPT ![call[c].obj] = new]
          /\ record.inst = call[c].inst /\ record.obj = call[c].obj
          /\ \/ /\ record.pc = "save" /\ new.state = Mine(c).state
                /\ new.status = "paused" <=> Mine(c).status = "paused"
             \/ /\ record.pc \in {"act", "save"} /\ Mine(c).status # "paused"
                /\ new.status # "paused" /\ record.state = new.state /\ record.action = 1
                /\ new.state \in NextStates(call[c].inst, Mine(c))
  BY Turned DEF HeldInv
<1>2. call[c].pc = "act" /\ UNCHANGED <<cache, held>>
  BY DEF Turn, TurnUpTo
<1>3. call[c].pc \in Running /\ call[c].inst \in Instances /\ call[c].obj \in Calls
  BY <1>2, DriveTyped DEF HeldInv, Running
<1>4. TInv'
  BY TurnTyped DEF HeldInv
<1>5. call[call[c].obj].inst = call[c].inst /\ held \subseteq Calls
  BY <1>3 DEF HeldInv, TInv, TypeOK
<1>6. call'[c] = record /\ object'[call[c].obj] = new
  BY <1>1, <1>3, Types DEF HeldInv, TInv
<1>7. c \in held' => AtGate(record, new)
  BY <1>1, <1>2, <1>3 DEF HeldInv, HeldAt, AtGate, Mine
<1>8. \A d \in held' \ {c} : call[d].pc \in Running /\ call[d].obj = call[c].obj
          => new.status = "paused"
  BY <1>1, <1>2 DEF HeldInv, HeldAt, AtGate, Mine
<1>9. HeldStep(c, record, call[c].obj, new)
  BY <1>1, <1>2, <1>3, <1>4, <1>5, <1>7, <1>8 DEF HeldStep
<1>10. QED
  BY <1>1, <1>2, <1>3, <1>4, <1>5, <1>7, <1>8, <1>9, HeldKept

LEMMA HeldSave ==
    ASSUME HeldInv, NEW c \in Calls, Save(c)
    PROVE  HeldInv'
<1>1. PICK record \in Call :
          /\ call' = [call EXCEPT ![c] = record]
          /\ record.pc = "done" /\ record.inst = call[c].inst /\ record.obj = call[c].obj
  BY Saved DEF HeldInv
<1>2. /\ call[c].pc = "save" /\ UNCHANGED <<object, held>>
      /\ cache' = [cache EXCEPT ![call[c].inst] = call[c].obj]
  BY DEF Save
<1>3. /\ call[c].pc \in Running /\ call[c].inst \in Instances /\ call[c].obj \in Calls
      /\ Mine(c) \in Instance
  BY <1>2, DriveTyped DEF HeldInv, Running
<1>4. TInv'
  BY SaveTyped DEF HeldInv
<1>5. object' = [object EXCEPT ![call[c].obj] = Mine(c)]
  BY <1>2, Types DEF HeldInv, TInv, Mine
<1>6. call[call[c].obj].inst = call[c].inst /\ held \subseteq Calls
  BY <1>3 DEF HeldInv, TInv, TypeOK
<1>7. c \in held' => AtGate(record, Mine(c))
  BY <1>1, <1>2, <1>3 DEF HeldInv, HeldAt, AtGate, Mine
<1>8. \A d \in held' \ {c} : call[d].pc \in Running /\ call[d].obj = call[c].obj
          => Mine(c).status = "paused"
  BY <1>2 DEF HeldInv, HeldAt, AtGate, Mine
<1>9. \A i \in Instances : cache'[i] = cache[i] \/ (cache'[i] = call[c].obj /\ i = record.inst)
  BY <1>1, <1>2, Types DEF HeldInv, TInv
<1>10. HeldStep(c, record, call[c].obj, Mine(c))
  BY <1>1, <1>2, <1>3, <1>4, <1>5, <1>6, <1>7, <1>8, <1>9 DEF HeldStep
<1>11. QED
  BY <1>1, <1>2, <1>3, <1>4, <1>5, <1>6, <1>7, <1>8, <1>9, <1>10, HeldKept

LEMMA HeldRestart ==
    ASSUME HeldInv, Restart
    PROVE  HeldInv'
<1>1. /\ cache' = [i \in Instances |-> Nothing] /\ held' = {}
      /\ \A c \in Calls : call[c]' = call[c] \/ call[c]'.pc = "dead"
      /\ \A c \in Calls : call[c]'.pc \notin Running
  BY Restarted DEF HeldInv, Restart
<1>2. TInv'
  BY RestartTyped DEF HeldInv
<1>3. QED
  BY <1>1, <1>2 DEF HeldInv

(* Only resume lets an instance go on that has come to an action of tier   *)
(* 3: the drive that came to it executes nothing more and enters no other  *)
(* state until then, also when drives overlap and share one object,        *)
(* whatever fails, and wherever the process stops.                         *)
THEOREM HeldAtTierThreeHolds == Spec => []HeldAtTierThree
<1>1. Init => HeldInv
  <2> SUFFICES ASSUME Init PROVE HeldInv
    OBVIOUS
  <2>1. QED
    BY InitTyped DEF Init, NoCall, HeldInv, Running
<1>2. HeldInv /\ [Next]_vars => HeldInv'
  <2> SUFFICES ASSUME HeldInv, [Next]_vars PROVE HeldInv'
    OBVIOUS
  <2>1. CASE UNCHANGED vars
    <3>1. TInv' /\ UNCHANGED <<call, object, cache, held>>
      BY <2>1, StepTyped DEF HeldInv, vars
    <3>2. QED
      BY <3>1 DEF HeldInv, HeldAt
  <2>2. QED
    BY <2>1, HeldHandle, HeldResume, HeldExecute, HeldAudit, HeldTurn, HeldSave, HeldRestart
       DEF Next, Drive
<1>3. HeldInv => HeldAtTierThree
  BY DEF HeldInv, HeldAt, AtGate, RecipeOf, Recipe, Mine, TInv, TypeOK, HeldAtTierThree
<1>4. QED
  BY <1>1, <1>2, <1>3, PTL DEF Spec

-----------------------------------------------------------------------------
(* FinishedIsFinal.  A finished row is not under way, and the object that  *)
(* resume would fall back on when the row cannot be read is finished, too. *)
Finished(o) == o.status \in {"completed", "failed"}

FinalAt(i) ==
    row[i] # Nothing /\ Finished(row[i]) =>
        /\ \A c \in Calls : call[c].pc \in Running => call[c].inst # i
        /\ cache[i] # Nothing => Finished(object[cache[i]])

Final == \A i \in Instances : FinalAt(i)

(* A step that leaves the row and the cached object of i as they are, and  *)
(* starts no drive of i.                                                   *)
LEMMA FinalKept ==
    ASSUME NEW i \in Instances, FinalAt(i), row'[i] = row[i], cache'[i] = cache[i],
           cache[i] # Nothing => object'[cache[i]] = object[cache[i]],
           \A c \in Calls : call'[c].pc \in Running /\ call'[c].inst = i =>
                              call[c].pc \in Running /\ call[c].inst = i
    PROVE  FinalAt(i)'
  BY DEF FinalAt, Finished

(* The cached object of an instance is one that no call has taken up.      *)
LEMMA CachedApart ==
    ASSUME IInv, NEW i \in Instances, cache[i] # Nothing
    PROVE  cache[i] \in Calls /\ call[cache[i]].pc = "done" /\ call[cache[i]].inst = i
  BY DEF IInv, TInv, TypeOK, Apart

(* What a turn of a drive leaves alone: all calls and objects but its own, *)
(* and the instance of the drive.                                          *)
LEMMA ExecuteChanges ==
    ASSUME TInv, NEW c \in Calls, Execute(c)
    PROVE  \E record \in Call, new \in Instance :
              /\ call' = [call EXCEPT ![c] = record]
              /\ object' = [object EXCEPT ![call[c].obj] = new]
              /\ record.inst = call[c].inst
<1>1. PICK record \in Call, new \in Instance, ok \in BOOLEAN :
          /\ record.inst = call[c].inst /\ record.obj = call[c].obj
          /\ call' = [call EXCEPT ![c] = record]
          /\ object' = [object EXCEPT ![call[c].obj] = new]
          /\ log' = [log EXCEPT ![call[c].inst] =
                Logged(log[call[c].inst],
                       [state |-> call[c].state, action |-> Current(c), ok |-> ok])]
  BY Executed
<1>2. QED
  BY <1>1

LEMMA AuditChanges ==
    ASSUME TInv, NEW c \in Calls, Audit(c)
    PROVE  \E record \in Call, new \in Instance :
              /\ call' = [call EXCEPT ![c] = record]
              /\ object' = [object EXCEPT ![call[c].obj] = new]
              /\ record.inst = call[c].inst
<1>1. call[c].pc = "audit" /\ object' = [object EXCEPT ![call[c].obj] = Mine(c)]
  BY Audited
<1>2. PICK record \in Call :
          /\ call' = [call EXCEPT ![c] = record]
          /\ record.inst = call[c].inst /\ record.obj = call[c].obj
  BY Audited
<1>3. Mine(c) \in Instance
  BY <1>1, DriveTyped DEF Running
<1>4. QED
  BY <1>1, <1>2, <1>3

LEMMA TurnChanges ==
    ASSUME TInv, NEW c \in Calls, Turn(c)
    PROVE  \E record \in Call, new \in Instance :
              /\ call' = [call EXCEPT ![c] = record]
              /\ object' = [object EXCEPT ![call[c].obj] = new]
              /\ record.inst = call[c].inst
  BY Turned

LEMMA FinalStep ==
    ASSUME IInv, Final, [Next]_vars
    PROVE  Final'
<1> SUFFICES ASSUME NEW i \in Instances PROVE FinalAt(i)'
  BY DEF Final
<1>1. FinalAt(i)
  BY DEF Final
<1>2. ASSUME NEW j \in Instances, Handle(j) PROVE FinalAt(i)'
  <2> DEFINE new == [state |-> First[j], status |-> "active", approved |-> FALSE,
                     needsApproval |-> FALSE, success |-> FALSE, found |-> FALSE]
  <2>1. /\ j \in Calls /\ call[j].pc = "idle" /\ call' = [call EXCEPT ![j] = Begun(j, j, First[j])]
        /\ object' = [object EXCEPT ![j] = new] /\ UNCHANGED <<cache, row>>
    BY <1>2 DEF Handle, Calls
  <2> HIDE DEF new
  <2>2. Begun(j, j, First[j]).inst = j
    BY DEF Begun
  <2>3. CASE i = j
    BY <2>1, <2>3 DEF IInv, Untouched, FinalAt
  <2>4. CASE i # j
    <3>1. cache[i] # Nothing => cache[i] # j /\ cache[i] \in Calls
      BY <2>1, CachedApart
    <3>2. \A c \in Calls : c # j => call'[c] = call[c] /\ object'[c] = object[c]
      BY <2>1, Types DEF IInv, TInv
    <3>3. call'[j].inst = j
      BY <2>1, <2>2, Types DEF IInv, TInv
    <3>4. QED
      BY <1>1, <2>1, <2>4, <3>1, <3>2, <3>3, FinalKept
  <2>5. QED
    BY <2>3, <2>4
<1>3. ASSUME NEW d \in Approvals, NEW j \in Instances, Resume(d, j) PROVE FinalAt(i)'
  <2>1. PICK o \in Calls :
          /\ \E state : call' = [call EXCEPT ![d] = Begun(j, o, state)]
          /\ \E from : object' = [object EXCEPT ![o] = from]
          /\ o = d \/ (call[o].pc = "done" /\ call[o].inst = j)
          /\ ~(row[j] # Nothing /\ Finished(row[j]))
    <3>1. CASE /\ row[j] # Nothing /\ row[j].status = "paused"
               /\ call' = [call EXCEPT ![d] = Begun(j, d, row[j].state)]
               /\ object' = [object EXCEPT ![d] = Resumed(row[j])]
      BY <3>1 DEF Calls, Finished
    <3>2. CASE /\ cache[j] # Nothing /\ object[cache[j]].status = "paused"
               /\ call' = [call EXCEPT ![d] = Begun(j, cache[j], object[cache[j]].state)]
               /\ object' = [object EXCEPT ![cache[j]] = Resumed(object[cache[j]])]
      <4>1. cache[j] \in Calls /\ call[cache[j]].pc = "done" /\ call[cache[j]].inst = j
        BY <3>2, CachedApart
      <4>2. ~(row[j] # Nothing /\ Finished(row[j]))
        BY <3>2 DEF Final, FinalAt, Finished
      <4>3. QED
        BY <3>2, <4>1, <4>2
    <3>3. \/ /\ row[j] # Nothing /\ row[j].status = "paused"
             /\ call' = [call EXCEPT ![d] = Begun(j, d, row[j].state)]
             /\ object' = [object EXCEPT ![d] = Resumed(row[j])]
          \/ /\ cache[j] # Nothing /\ object[cache[j]].status = "paused"
             /\ call' = [call EXCEPT ![d] = Begun(j, cache[j], object[cache[j]].state)]
             /\ object' = [object EXCEPT ![cache[j]] = Resumed(object[cache[j]])]
      BY <1>3 DEF Resume
    <3>4. QED
      BY <3>1, <3>2, <3>3
  <2>2. d \in Calls /\ call[d].pc = "idle" /\ UNCHANGED <<cache, row>>
    BY <1>3 DEF Resume, Calls
  <2>3. CASE i = j
    BY <2>1, <2>2, <2>3 DEF FinalAt
  <2>4. CASE i # j
    <3>1. cache[i] # Nothing => cache[i] # o /\ cache[i] \in Calls
      BY <2>1, <2>2, <2>4, CachedApart
    <3>2. cache[i] # Nothing => object'[cache[i]] = object[cache[i]]
      BY <2>1, <3>1, Types DEF IInv, TInv
    <3>3. (\A c \in Calls : c # d => call'[c] = call[c]) /\ call'[d].inst = j
      BY <2>1, <2>2, Types DEF IInv, TInv, Begun
    <3>4. QED
      BY <1>1, <2>2, <2>4, <3>2, <3>3, FinalKept
  <2>5. QED
    BY <2>3, <2>4
<1>4. ASSUME NEW c \in Calls, Execute(c) \/ Audit(c) \/ Turn(c) PROVE FinalAt(i)'
  <2>1. call[c].pc \in Running /\ UNCHANGED <<cache, row>>
    BY <1>4 DEF Execute, Audit, Turn, TurnUpTo, Running
  <2>2. PICK record \in Call, new \in Instance :
          /\ call' = [call EXCEPT ![c] = record] /\ object' = [object EXCEPT ![call[c].obj] = new]
          /\ record.inst = call[c].inst
    BY <1>4, ExecuteChanges, AuditChanges, TurnChanges DEF IInv
  <2>3. CASE i = call[c].inst
    BY <1>1, <2>1, <2>3 DEF FinalAt
  <2>4. CASE i # call[c].inst
    <3>1. call[c].obj \in Calls /\ call[call[c].obj].inst = call[c].inst
      BY <2>1, DriveTyped DEF IInv, Apart
    <3>2. cache[i] # Nothing => object'[cache[i]] = object[cache[i]]
      BY <2>2, <2>4, <3>1, CachedApart, Types DEF IInv, TInv
    <3>3. (\A d \in Calls : d # c => call'[d] = call[d]) /\ call'[c].inst = call[c].inst
      BY <2>2, Types DEF IInv, TInv
    <3>4. QED
      BY <1>1, <2>1, <2>4, <3>2, <3>3, FinalKept
  <2>5. QED
    BY <2>3, <2>4
<1>5. ASSUME NEW c \in Calls, Save(c) PROVE FinalAt(i)'
  <2>1. /\ call[c].pc \in Running /\ object' = object
        /\ cache' = [cache EXCEPT ![call[c].inst] = call[c].obj]
        /\ row' = row \/ row' = [row EXCEPT ![call[c].inst] = Mine(c)]
    BY <1>5, Saved DEF IInv, Running
  <2>2. PICK record \in Call : call' = [call EXCEPT ![c] = record] /\ record.pc = "done"
    BY <1>5, Saved DEF IInv
  <2>3. \A d \in Calls : call'[d].pc \in Running => d # c /\ call'[d] = call[d]
    BY <2>2, Types DEF IInv, TInv, Running
  <2>4. CASE i # call[c].inst
    BY <1>1, <2>1, <2>3, <2>4, FinalKept, Types DEF IInv, TInv
  <2>5. CASE i = call[c].inst
    <3>1. \A d \in Calls : call'[d].pc \in Running => call'[d].inst # i
      BY <2>1, <2>3, <2>5 DEF IInv, Apart
    <3>2. cache'[i] = call[c].obj /\ object'[cache'[i]] = Mine(c)
      BY <2>1, <2>5, Types DEF IInv, TInv, Mine
    <3>3. row'[i] = row[i] \/ row'[i] = Mine(c)
      BY <2>1, <2>5, Types DEF IInv, TInv
    <3>4. ~(row[i] # Nothing /\ Finished(row[i]))
      BY <1>1, <2>1, <2>5 DEF FinalAt
    <3>5. QED
      BY <3>1, <3>2, <3>3, <3>4 DEF FinalAt, Finished
  <2>6. QED
    BY <2>4, <2>5
<1>6. CASE Restart
  BY <1>1, <1>6, Restarted DEF IInv, FinalAt
<1>7. CASE UNCHANGED vars
  BY <1>1, <1>7, FinalKept DEF vars
<1>8. QED
  BY <1>2, <1>3, <1>4, <1>5, <1>6, <1>7 DEF Next, Drive

(* A row that says completed or failed is never written again: neither a   *)
(* resume that finds the row nor one that must do without it drives the    *)
(* instance on, and no drive under way is left to save.                    *)
THEOREM FinishedIsFinalHolds == ~Concurrent /\ Spec => FinishedIsFinal
<1> DEFINE Kept(i) == row[i] # Nothing /\ row[i].status \in {"completed", "failed"}
                         => row'[i] = row[i]
<1>1. ~Concurrent /\ Init => IInv /\ Final
  <2> SUFFICES ASSUME ~Concurrent, Init PROVE Final
    BY InitHeld
  <2>1. QED
    BY DEF Init, Final, FinalAt
<1>2. IInv /\ Final /\ [Next]_vars => IInv' /\ Final'
  BY StepHeld, FinalStep
<1>3. IInv /\ Final /\ [Next]_vars => [\A i \in Instances \ crossed : Kept(i)]_vars
  <2> SUFFICES ASSUME IInv, Final, Next, NEW i \in Instances PROVE Kept(i)
    OBVIOUS
  <2>1. ASSUME NEW c \in Calls, Save(c) PROVE Kept(i)
    <3>1. call[c].pc \in Running /\ (row' = row \/ row' = [row EXCEPT ![call[c].inst] = Mine(c)])
      BY <2>1, Saved DEF IInv, Running
    <3>2. CASE i = call[c].inst
      BY <3>1, <3>2 DEF Final, FinalAt, Finished
    <3>3. CASE i # call[c].inst
      BY <3>1, <3>3, Types DEF IInv, TInv
    <3>4. QED
      BY <3>2, <3>3
  <2>2. ASSUME UNCHANGED row PROVE Kept(i)
    BY <2>2
  <2>3. QED
    BY <2>1, <2>2 DEF Next, Drive, Handle, Resume, Execute, Audit, Turn, TurnUpTo, Restart
<1>4. QED
  BY <1>1, <1>2, <1>3, PTL DEF Spec, FinishedIsFinal

-----------------------------------------------------------------------------
(* NoticeAfterTicket.  An instance is Ready for the notice when its last   *)
(* attempt to create the ticket succeeded.                                 *)
Ready(i) ==
    \E q \in DOMAIN log[i] :
        /\ log[i][q].action = "create_jira" /\ log[i][q].ok
        /\ \A r \in DOMAIN log[i] : q < r => log[i][r].action # "create_jira"

LastIs(i, action, ok) ==
    /\ log[i] # <<>>
    /\ log[i][Len(log[i])].action = action /\ log[i][Len(log[i])].ok = ok

(* last_action_success is what the last action of the state returned.      *)
Reported(c) ==
    /\ call[c].pc = "act" /\ Mine(c).status # "paused" /\ call[c].action > 1 =>
          /\ call[c].action - 1 \in DOMAIN Recipe(c)
          /\ LastIs(call[c].inst, Recipe(c)[call[c].action - 1], Mine(c).success)
    /\ call[c].pc = "audit" => LastIs(call[c].inst, Current(c), Mine(c).success)

Noticing(c) ==
    call[c].pc \in {"act", "audit"} /\ call[c].state = "notify" => Ready(call[c].inst)

PausedInNotice(o) == o # Nothing /\ o.status = "paused" /\ o.state = "notify"

(* NoticeAfterTicket, of every instance.                                   *)
TicketFirst ==
    \A i \in Instances : \A p \in DOMAIN log[i] :
        log[i][p].state = "notify" =>
            \E q \in 1..(p - 1) :
                /\ log[i][q].action = "create_jira" /\ log[i][q].ok
                /\ \A r \in (q + 1)..(p - 1) : log[i][r].action # "create_jira"

NoticeInv ==
    /\ \A c \in Calls : Reported(c) /\ Noticing(c)
    /\ \A o \in Calls : PausedInNotice(object[o]) => Ready(call[o].inst)
    /\ \A i \in Instances : PausedInNotice(row[i]) => Ready(i)
    /\ TicketFirst

(* What Execute writes to the log is what it leaves in the instance.       *)
LEMMA ExecuteReports ==
    ASSUME TInv, NEW c \in Calls, Execute(c)
    PROVE  \E ok \in BOOLEAN :
              /\ object'[call[c].obj].success = ok
              /\ log' = [log EXCEPT ![call[c].inst] =
                    Logged(log[call[c].inst],
                           [state |-> call[c].state, action |-> Current(c), ok |-> ok])]
<1>1. PICK ok \in BOOLEAN, found \in BOOLEAN :
        /\ object' = [object EXCEPT ![call[c].obj] = Outcome(Mine(c), Current(c), ok, found)]
        /\ log' = [log EXCEPT ![call[c].inst] =
              Logged(log[call[c].inst],
                     [state |-> call[c].state, action |-> Current(c), ok |-> ok])]
  BY DEF Execute, Results
<1>2. call[c].obj \in Calls
  BY DriveTyped DEF Execute, Running
<1>3. object'[call[c].obj] = Outcome(Mine(c), Current(c), ok, found)
  BY <1>1, <1>2, Types DEF TInv
<1>4. Outcome(Mine(c), Current(c), ok, found).success = ok
  BY DEF Outcome
<1>5. QED
  BY <1>1, <1>3, <1>4

(* A transition that fires is one whose condition the instance meets.      *)
LEMMA NextStatesFired ==
    ASSUME NEW i \in Instances, NEW o \in Instance, NEW s \in NextStates(i, o)
    PROVE  /\ o.state \in DOMAIN Rules[i]
           /\ \E t \in DOMAIN Rules[i][o.state] :
                 Rules[i][o.state][t].next = s /\ Holds(Rules[i][o.state][t].condition, o)
  BY DEF NextStates, Firing

LEMMA NoticeExecute ==
    ASSUME TicketBeforeNotice, IInv, NoticeInv, NEW c \in Calls, Execute(c)
    PROVE  NoticeInv'
<1>1. call[c].pc = "act" /\ call[c].action \in DOMAIN Recipe(c) /\ UNCHANGED <<cache, row>>
  BY Executed DEF IInv
<1>2. PICK record \in Call, new \in Instance, ok0 \in BOOLEAN :
          /\ record.pc = "audit" /\ record.inst = call[c].inst /\ record.obj = call[c].obj
          /\ record.state = call[c].state /\ record.action = call[c].action
          /\ new.state = Mine(c).state
          /\ new.status = (IF Tier(Current(c)) = 3 THEN "paused" ELSE Mine(c).status)
          /\ call' = [call EXCEPT ![c] = record]
          /\ object' = [object EXCEPT ![call[c].obj] = new]
          /\ log' = [log EXCEPT ![call[c].inst] =
                Logged(log[call[c].inst],
                       [state |-> call[c].state, action |-> Current(c), ok |-> ok0])]
  BY Executed DEF IInv
<1>3. PICK ok \in BOOLEAN :
          /\ object'[call[c].obj].success = ok
          /\ log' = [log EXCEPT ![call[c].inst] =
                Logged(log[call[c].inst],
                       [state |-> call[c].state, action |-> Current(c), ok |-> ok])]
  BY ExecuteReports DEF IInv
<1>4. call[c].pc \in Running /\ record.pc \in Running
  BY <1>1, <1>2 DEF Running
<1>5. PICK i \in Instances : i = call[c].inst
  BY <1>4, DriveTyped DEF IInv
<1> DEFINE e == [state |-> call[c].state, action |-> Current(c), ok |-> ok]
<1>6. e \in Entry /\ e.state = call[c].state /\ e.action = Current(c) /\ e.ok = ok
  BY <1>1, <1>5, LogTyped DEF IInv
<1>7. log[i] \in Seq(Entry) /\ log' = [log EXCEPT ![i] = Logged(log[i], e)]
  BY <1>3, <1>5, Types DEF IInv, TInv
<1> HIDE DEF e
<1>8. (\A j \in Instances : j # i => log'[j] = log[j]) /\ log'[i] = Logged(log[i], e)
  BY <1>7, Types DEF IInv, TInv
<1>9. /\ DOMAIN log[i] \subseteq DOMAIN log'[i]
      /\ \A p \in DOMAIN log[i] : log'[i][p] = log[i][p]
      /\ Len(log'[i]) \in DOMAIN log'[i] /\ log'[i][Len(log'[i])] = e
      /\ \A p \in DOMAIN log'[i] : p \in DOMAIN log[i] \/ p = Len(log'[i])
  BY <1>6, <1>7, <1>8, LoggedEntries
<1>10. Others(c, record, new)
  <2>1. \A j \in Instances : j # call[c].inst => log'[j] = log[j]
    BY <1>5, <1>8
  <2>2. QED
    BY <1>1, <1>2, <1>4, <2>1, OthersKept
<1>11. new.success = ok
  <2>1. object'[call[c].obj] = new
    BY <1>2, <1>10 DEF Others
  <2>2. QED
    BY <1>3, <2>1, Zenon
<1>12. Recipe(c)' = Recipe(c) /\ Current(c)' = Current(c)
  BY <1>2, <1>10 DEF Recipe, Current, Others
<1>13. log'[i] \in Seq(Entry) /\ log'[i] # <<>>
  <2>1. log'[i] \in Seq(Entry)
    <3>1. Logged(log[i], e) \in Seq(Entry)
      BY <1>6, <1>7 DEF Logged
    <3>2. QED
      BY <1>8, <3>1
  <2>2. QED
    BY <1>9, <2>1
<1>14. ASSUME Ready(i), Current(c) # "create_jira" PROVE Ready(i)'
  BY <1>6, <1>9, <1>14 DEF Ready
<1>15. \A j \in Instances : j # i => (Ready(j)' <=> Ready(j))
  BY <1>8 DEF Ready
<1>16. call[c].state = "notify" => Current(c) # "create_jira" /\ Ready(i)
  <2> SUFFICES ASSUME call[c].state = "notify" PROVE Current(c) # "create_jira" /\ Ready(i)
    OBVIOUS
  <2>1. "notify" \in DOMAIN Actions[i] /\ Recipe(c) = Actions[i]["notify"]
    BY <1>1, <1>5 DEF Recipe
  <2>2. Current(c) # "create_jira"
    BY <1>1, <2>1 DEF TicketBeforeNotice, Current
  <2>3. QED
    BY <1>1, <1>5, <2>2 DEF NoticeInv, Noticing
<1>17. GateAt(i, "notify") => call[c].state = "notify"
  BY <1>1, <1>5 DEF IInv, Gated, GateAt
<1>18. \A d \in Calls : Reported(d)' /\ Noticing(d)'
  <2> SUFFICES ASSUME NEW d \in Calls PROVE Reported(d)' /\ Noticing(d)'
    OBVIOUS
  <2>1. CASE d = c
    <3>1. call'[c] = record /\ Mine(c)' = new /\ record.inst = i
      BY <1>2, <1>5, <1>10 DEF Others
    <3>2. LastIs(i, Current(c), ok)'
      BY <1>6, <1>9, <1>12, <1>13 DEF LastIs
    <3>3. Reported(c)'
      BY <1>2, <1>11, <1>12, <3>1, <1>6, <1>9, <1>13 DEF Reported, LastIs
    <3>4. Noticing(c)'
      BY <1>2, <1>14, <1>16, <3>1 DEF Noticing
    <3>5. QED
      BY <2>1, <3>3, <3>4
  <2>2. CASE d # c
    <3>1. call'[d] = call[d] /\ Recipe(d)' = Recipe(d)
      BY <1>10, <2>2 DEF Others
    <3>2. CASE call[d].pc \in {"act", "audit"}
      <4>1. Mine(d)' = Mine(d) /\ call[d].inst # i /\ call[d].inst \in Instances
        BY <1>5, <1>10, <2>2, <3>2, DriveTyped DEF Others, Running, IInv
      <4>2. log'[call[d].inst] = log[call[d].inst]
        BY <1>8, <4>1
      <4>3. QED
        BY <1>15, <3>1, <4>1, <4>2 DEF NoticeInv, Reported, Noticing, LastIs, Current
    <3>3. CASE call[d].pc \notin {"act", "audit"}
      BY <3>1, <3>3 DEF Reported, Noticing
    <3>4. QED
      BY <3>2, <3>3
  <2>3. QED
    BY <2>1, <2>2
<1>19. \A o \in Calls : PausedInNotice(object[o])' => Ready(call[o].inst)'
  <2> SUFFICES ASSUME NEW o \in Calls, PausedInNotice(object'[o]) PROVE Ready(call[o].inst)'
    BY DEF PausedInNotice
  <2>1. CASE o = call[c].obj
    <3>1. object'[o] = new /\ new.state = Mine(c).state /\ Mine(c).state = call[c].state
      BY <1>1, <1>2, <1>10, <2>1 DEF Others, IInv, Driving, DrivingAt
    <3>2. call'[o].inst = i
      BY <1>5, <1>10, <2>1 DEF Others
    <3>3. QED
      BY <1>14, <1>16, <3>1, <3>2 DEF PausedInNotice
  <2>2. CASE o # call[c].obj
    <3>1. object'[o] = object[o] /\ call'[o].inst = call[o].inst /\ call[o].inst \in Instances
      BY <1>10, <2>2 DEF Others, IInv, Apart, PausedInNotice
    <3>2. Ready(call[o].inst) /\ GateAt(call[o].inst, "notify")
      BY <3>1 DEF NoticeInv, PausedInNotice, IInv, Gated
    <3>3. QED
      BY <1>14, <1>15, <1>16, <1>17, <3>1, <3>2
  <2>3. QED
    BY <2>1, <2>2
<1>20. \A j \in Instances : PausedInNotice(row[j])' => Ready(j)'
  <2> SUFFICES ASSUME NEW j \in Instances, PausedInNotice(row[j]) PROVE Ready(j)'
    BY <1>1 DEF PausedInNotice
  <2>1. Ready(j) /\ GateAt(j, "notify")
    BY DEF NoticeInv, PausedInNotice, IInv, Gated
  <2>2. QED
    BY <1>14, <1>15, <1>16, <1>17, <2>1
<1>21. TicketFirst'
  <2> DEFINE Ticket(entries, p) ==
                \E q \in 1..(p - 1) :
                    /\ entries[q].action = "create_jira" /\ entries[q].ok
                    /\ \A r \in (q + 1)..(p - 1) : entries[r].action # "create_jira"
  <2> SUFFICES ASSUME NEW j \in Instances, NEW p \in DOMAIN log'[j],
                      log'[j][p].state = "notify"
               PROVE  Ticket(log'[j], p)
    BY DEF TicketFirst
  <2>1. CASE j # i
    BY <1>8, <2>1 DEF NoticeInv, TicketFirst
  <2>2. CASE j = i /\ p \in DOMAIN log[i]
    <3>1. Ticket(log[i], p)
      BY <1>9, <2>2 DEF NoticeInv, TicketFirst
    <3>2. p \in Nat /\ \A q \in 1..(p - 1) : q \in DOMAIN log[i]
      BY <1>7, <2>2
    <3>3. PICK q \in 1..(p - 1) :
                    /\ log[i][q].action = "create_jira" /\ log[i][q].ok
                    /\ \A r \in (q + 1)..(p - 1) : log[i][r].action # "create_jira"
      BY <3>1
    <3>4. \A r \in (q + 1)..(p - 1) : log'[i][r] = log[i][r]
      BY <1>9, <3>2
    <3>5. QED
      BY <1>9, <2>2, <3>2, <3>3, <3>4
  <2>3. CASE j = i /\ p \notin DOMAIN log[i]
    <3>1. p = Len(log'[i]) /\ log'[i] = Append(log[i], e)
      BY <1>8, <1>9, <2>3 DEF Logged
    <3>2. p = Len(log[i]) + 1 /\ Len(log[i]) \in Nat /\ \A r \in DOMAIN log[i] : r \in 1..(p - 1)
      BY <1>6, <1>7, <3>1
    <3>3. Ready(i)
      BY <1>6, <1>9, <1>16, <2>3, <3>1
    <3>4. PICK q \in DOMAIN log[i] :
             /\ log[i][q].action = "create_jira" /\ log[i][q].ok
             /\ \A r \in DOMAIN log[i] : q < r => log[i][r].action # "create_jira"
      BY <3>3 DEF Ready
    <3>5. \A r \in (q + 1)..(p - 1) : r \in DOMAIN log[i] /\ q < r
      BY <1>7, <3>2
    <3>6. QED
      BY <1>9, <2>3, <3>2, <3>4, <3>5
  <2>4. QED
    BY <1>9, <2>1, <2>2, <2>3
<1>22. QED
  BY <1>18, <1>19, <1>20, <1>21 DEF NoticeInv

(* A step that writes nothing to the log and leaves the rows alone.        *)
LEMMA NoticeKept ==
    ASSUME NoticeInv, UNCHANGED <<row, log>>,
           \A c \in Calls : Reported(c)' /\ Noticing(c)',
           \A o \in Calls : PausedInNotice(object'[o]) => Ready(call'[o].inst)
    PROVE  NoticeInv'
<1>1. \A j : Ready(j)' <=> Ready(j)
  BY DEF Ready
<1>2. TicketFirst'
  BY DEF NoticeInv, TicketFirst
<1>3. QED
  BY <1>1, <1>2 DEF NoticeInv, PausedInNotice, Ready

(* A call that a step leaves with its record and its object.               *)
LEMMA ReportKept ==
    ASSUME NoticeInv, UNCHANGED log, NEW d \in Calls, call'[d] = call[d],
           call[d].pc \in Running => Mine(d)' = Mine(d)
    PROVE  Reported(d)' /\ Noticing(d)'
<1>1. Recipe(d)' = Recipe(d) /\ Current(d)' = Current(d)
  BY DEF Recipe, Current
<1>2. \A j : Ready(j)' <=> Ready(j)
  BY DEF Ready
<1>3. \A j, a, ok : LastIs(j, a, ok)' <=> LastIs(j, a, ok)
  BY DEF LastIs
<1>4. CASE call[d].pc \in {"act", "audit"}
  <2>1. Mine(d)' = Mine(d)
    BY <1>4 DEF Running
  <2>2. QED
    BY <1>1, <1>2, <2>1 DEF NoticeInv, Reported, Noticing, LastIs
<1>5. CASE call[d].pc \notin {"act", "audit"}
  BY <1>5 DEF Reported, Noticing
<1>6. QED
  BY <1>4, <1>5

LEMMA NoticeAudit ==
    ASSUME IInv, NoticeInv, NEW c \in Calls, Audit(c)
    PROVE  NoticeInv'
<1>1. call[c].pc = "audit" /\ UNCHANGED <<object, cache, row, log>>
  BY Audited DEF IInv
<1>2. PICK record \in Call :
          /\ call' = [call EXCEPT ![c] = record]
          /\ record.pc = "act" /\ record.inst = call[c].inst /\ record.obj = call[c].obj
          /\ record.state = call[c].state
          /\ record.action = (IF Tier(Current(c)) = 3 THEN Len(Recipe(c)) + 1
                              ELSE call[c].action + 1)
  BY Audited DEF IInv
<1>3. call'[c] = record /\ \A d \in Calls : d # c => call'[d] = call[d]
  BY <1>2, Types DEF IInv, TInv
<1>4. Mine(c)' = Mine(c) /\ Recipe(c)' = Recipe(c)
  BY <1>1, <1>2, <1>3 DEF Mine, Recipe
<1>5. /\ call[c].action \in DOMAIN Recipe(c) /\ call[c].action \in Nat
      /\ (Mine(c).status = "paused") <=> (Tier(Current(c)) = 3)
  BY <1>1, Types DEF IInv, TInv, Driving, DrivingAt, Call
<1>6. LastIs(call[c].inst, Current(c), Mine(c).success)
  BY <1>1 DEF NoticeInv, Reported
<1>7. Reported(c)'
  <2>1. Mine(c).status # "paused" =>
          record.action = call[c].action + 1 /\ record.action - 1 = call[c].action
    BY <1>2, <1>5
  <2>2. QED
    BY <1>1, <1>2, <1>3, <1>4, <1>5, <1>6, <2>1 DEF Reported, LastIs, Current
<1>8. Noticing(c)'
  <2>1. Ready(call[c].inst)' <=> Ready(call[c].inst)
    BY <1>1, <1>2, <1>3 DEF Ready
  <2>2. call[c].state = "notify" => Ready(call[c].inst)
    BY <1>1 DEF NoticeInv, Noticing
  <2>3. QED
    BY <1>2, <1>3, <2>1, <2>2 DEF Noticing
<1>9. \A d \in Calls : d # c => Reported(d)' /\ Noticing(d)'
  <2>1. \A d \in Calls : d # c => Mine(d)' = Mine(d)
    BY <1>1, <1>3 DEF Mine
  <2>2. QED
    BY <1>1, <1>3, <2>1, ReportKept
<1>10. \A o \in Calls : call'[o].inst = call[o].inst
  BY <1>2, <1>3
<1>11. QED
  BY <1>1, <1>7, <1>8, <1>9, <1>10, NoticeKept DEF NoticeInv

LEMMA NoticeTurn ==
    ASSUME TicketBeforeNotice, IInv, NoticeInv, NEW c \in Calls, Turn(c)
    PROVE  NoticeInv'
<1>1. /\ call[c].pc = "act" /\ call[c].action \notin DOMAIN Recipe(c)
      /\ UNCHANGED <<cache, row, log>>
  BY Turned DEF IInv
<1>2. PICK record \in Call, new \in Instance :
          /\ call' = [call EXCEPT ![c] = record]
          /\ object' = [object EXCEPT ![call[c].obj] = new]
          /\ record.inst = call[c].inst /\ record.obj = call[c].obj
          /\ \/ /\ record.pc = "save" /\ new.state = Mine(c).state
                /\ new.status = "paused" => Mine(c).status = "paused"
             \/ /\ record.pc \in {"act", "save"} /\ Mine(c).status # "paused"
                /\ new.status # "paused" /\ record.state = new.state /\ record.action = 1
                /\ new.state \in NextStates(call[c].inst, Mine(c))
  BY Turned DEF IInv
<1>3. call[c].pc \in Running /\ record.pc \in Running
  BY <1>1, <1>2 DEF Running
<1>4. PICK i \in Instances : i = call[c].inst
  BY <1>3, DriveTyped DEF IInv
<1>5. Mine(c) \in Instance /\ call[c] \in Call /\ Recipe(c) \in Seq(STRING)
  BY <1>3, <1>4, DriveTyped, RecipeTyped DEF IInv
<1>6. Others(c, record, new)
  <2>1. \A j \in Instances : j # call[c].inst => log'[j] = log[j]
    BY <1>1
  <2>2. QED
    BY <1>1, <1>2, <1>3, <2>1, OthersKept
<1>7. Mine(c).state = call[c].state
  BY <1>1 DEF IInv, Driving, DrivingAt
<1>8. ASSUME Mine(c).status # "paused", "notify" \in NextStates(i, Mine(c))
      PROVE  Ready(i)
  <2>1. PICK t \in DOMAIN Rules[i][call[c].state] :
           /\ call[c].state \in DOMAIN Rules[i] /\ Rules[i][call[c].state][t].next = "notify"
           /\ Holds(Rules[i][call[c].state][t].condition, Mine(c))
    BY <1>5, <1>7, <1>8, NextStatesFired
  <2>2. /\ Rules[i][call[c].state][t].condition = "action_success"
        /\ Recipe(c) # <<>> /\ Recipe(c)[Len(Recipe(c))] = "create_jira"
    BY <1>4, <2>1, WorkflowAssumption DEF TicketBeforeNotice, Recipe
  <2>3. Mine(c).success
    BY <2>1, <2>2 DEF Holds
  <2>4. call[c].action > 1 /\ call[c].action \in Nat
    BY <1>1, <1>5, <2>2 DEF Call
  <2>5. /\ call[c].action - 1 \in DOMAIN Recipe(c)
        /\ LastIs(i, Recipe(c)[call[c].action - 1], Mine(c).success)
    BY <1>1, <1>4, <1>8, <2>4 DEF NoticeInv, Reported
  <2>6. call[c].action - 1 = Len(Recipe(c))
    BY <1>1, <1>5, <2>4, <2>5
  <2>7. LastIs(i, "create_jira", Mine(c).success)
    BY <2>2, <2>5, <2>6
  <2>8. log[i] \in Seq(Entry) /\ log[i] # <<>>
    BY <2>7, Types DEF IInv, TInv, LastIs
  <2>9. Len(log[i]) \in DOMAIN log[i] /\ \A r \in DOMAIN log[i] : ~(Len(log[i]) < r)
    BY <2>8
  <2>10. QED
    BY <2>3, <2>7, <2>9 DEF Ready, LastIs
<1>9. Reported(c)' /\ Noticing(c)'
  <2>1. call'[c] = record
    BY <1>6 DEF Others
  <2>2. CASE record.pc = "save"
    BY <2>1, <2>2 DEF Reported, Noticing
  <2>3. CASE record.pc = "act"
    <3>1. Reported(c)'
      BY <1>2, <2>1, <2>3 DEF Reported
    <3>2. Noticing(c)'
      BY <1>1, <1>2, <1>4, <1>8, <2>1, <2>3 DEF Noticing, Ready
    <3>3. QED
      BY <3>1, <3>2
  <2>4. QED
    BY <1>2, <2>2, <2>3
<1>10. \A d \in Calls : d # c => Reported(d)' /\ Noticing(d)'
  <2> SUFFICES ASSUME NEW d \in Calls, d # c PROVE Reported(d)' /\ Noticing(d)'
    OBVIOUS
  <2>1. call'[d] = call[d] /\ (call[d].pc \in Running => Mine(d)' = Mine(d))
    BY <1>6 DEF Others
  <2>2. QED
    BY <1>1, <2>1, ReportKept
<1>11. \A o \in Calls : PausedInNotice(object'[o]) => Ready(call'[o].inst)
  <2> SUFFICES ASSUME NEW o \in Calls, PausedInNotice(object'[o]) PROVE Ready(call'[o].inst)
    OBVIOUS
  <2>1. PausedInNotice(object[o])
    <3>1. CASE o = call[c].obj
      <4>1. object'[o] = new /\ object[o] = Mine(c) /\ object[o] # Nothing
        BY <1>2, <1>6, <3>1 DEF Others
      <4>2. QED
        BY <1>2, <4>1 DEF PausedInNotice
    <3>2. CASE o # call[c].obj
      BY <1>6, <3>2 DEF Others
    <3>3. QED
      BY <3>1, <3>2
  <2>2. call'[o].inst = call[o].inst
    BY <1>6 DEF Others
  <2>3. QED
    BY <2>1, <2>2 DEF NoticeInv
<1>12. QED
  BY <1>1, <1>9, <1>10, <1>11, NoticeKept

LEMMA NoticeSave ==
    ASSUME IInv, NoticeInv, NEW c \in Calls, Save(c)
    PROVE  NoticeInv'
<1>1. /\ call[c].pc \in Running /\ UNCHANGED <<object, log>>
      /\ row' = row \/ row' = [row EXCEPT ![call[c].inst] = Mine(c)]
  BY Saved DEF IInv, Running
<1>2. PICK record \in Call :
          /\ call' = [call EXCEPT ![c] = record]
          /\ record.pc = "done" /\ record.inst = call[c].inst
  BY Saved DEF IInv
<1>3. PICK i \in Instances : i = call[c].inst
  BY <1>1, DriveTyped DEF IInv
<1>4. /\ call'[c] = record /\ \A d \in Calls : d # c => call'[d] = call[d]
      /\ \A d \in Calls : call'[d].inst = call[d].inst
  BY <1>2, Types DEF IInv, TInv
<1>5. \A j : Ready(j)' <=> Ready(j)
  BY <1>1 DEF Ready
<1>6. \A d \in Calls : Reported(d)' /\ Noticing(d)'
  <2>1. Reported(c)' /\ Noticing(c)'
    BY <1>2, <1>4 DEF Reported, Noticing
  <2>2. \A d \in Calls : d # c => Mine(d)' = Mine(d)
    BY <1>1, <1>4 DEF Mine
  <2>3. QED
    BY <1>1, <1>4, <2>1, <2>2, ReportKept
<1>7. \A o \in Calls : PausedInNotice(object'[o]) => Ready(call'[o].inst)
  BY <1>1, <1>4 DEF NoticeInv
<1>8. \A j \in Instances : PausedInNotice(row'[j]) => Ready(j)
  <2>1. PausedInNotice(Mine(c)) => Ready(i)
    <3>1. call[c].obj \in Calls /\ call[call[c].obj].inst = i
      BY <1>1, <1>3, DriveTyped DEF IInv, Apart
    <3>2. QED
      BY <3>1 DEF NoticeInv, Mine
  <2>2. \A j \in Instances : row'[j] = row[j] \/ (j = i /\ row'[j] = Mine(c))
    BY <1>1, <1>3, Types DEF IInv, TInv
  <2>3. QED
    BY <2>1, <2>2 DEF NoticeInv
<1>9. TicketFirst'
  BY <1>1 DEF NoticeInv, TicketFirst
<1>10. QED
  BY <1>1, <1>4, <1>5, <1>6, <1>7, <1>8, <1>9 DEF NoticeInv, PausedInNotice, Ready

LEMMA NoticeHandle ==
    ASSUME TicketBeforeNotice, IInv, NoticeInv, NEW i \in Instances, Handle(i)
    PROVE  NoticeInv'
<1> DEFINE new == [state |-> First[i], status |-> "active", approved |-> FALSE,
                   needsApproval |-> FALSE, success |-> FALSE, found |-> FALSE]
<1>1. /\ call[i].pc = "idle" /\ call' = [call EXCEPT ![i] = Begun(i, i, First[i])]
      /\ object' = [object EXCEPT ![i] = new] /\ UNCHANGED <<cache, row, log>> /\ i \in Calls
  BY DEF Handle, Calls
<1>2. new.status = "active"
  OBVIOUS
<1> HIDE DEF new
<1>3. /\ call'[i] = Begun(i, i, First[i]) /\ object'[i] = new
      /\ \A d \in Calls : d # i => call'[d] = call[d] /\ object'[d] = object[d]
  BY <1>1, Types DEF IInv, TInv
<1>4. Begun(i, i, First[i]).state # "notify" /\ Begun(i, i, First[i]).action = 1
      /\ Begun(i, i, First[i]).pc = "act"
  BY DEF TicketBeforeNotice, Begun
<1>5. Reported(i)' /\ Noticing(i)'
  BY <1>3, <1>4 DEF Reported, Noticing
<1>6. \A d \in Calls : d # i => Reported(d)' /\ Noticing(d)'
  <2>1. \A d \in Calls : d # i /\ call[d].pc \in Running =>
           call[d].obj # i /\ call[d].obj \in Calls
    BY <1>1 DEF IInv, Apart, TInv, Holding, Running
  <2>2. \A d \in Calls : d # i /\ call[d].pc \in Running => Mine(d)' = Mine(d)
    BY <1>3, <2>1 DEF Mine
  <2>3. QED
    BY <1>1, <1>3, <2>2, ReportKept
<1>7. \A o \in Calls : PausedInNotice(object'[o]) => Ready(call'[o].inst)
  BY <1>2, <1>3 DEF NoticeInv, PausedInNotice
<1>8. QED
  BY <1>1, <1>5, <1>6, <1>7, NoticeKept

LEMMA NoticeResume ==
    ASSUME IInv, NoticeInv, NEW c \in Approvals, NEW i \in Instances, Resume(c, i)
    PROVE  NoticeInv'
<1>1. c \in Calls /\ call[c].pc = "idle" /\ UNCHANGED <<cache, row, log>>
  BY DEF Calls, Resume
<1>2. \A d \in Calls : call[d].pc \in Running => call[d].inst # i
  BY DEF Resume, Busy, IInv, Apart
<1>3. PICK o \in Calls, from \in Instance :
          /\ call' = [call EXCEPT ![c] = Begun(i, o, from.state)]
          /\ object' = [object EXCEPT ![o] = Resumed(from)]
          /\ o = c \/ (call[o].pc = "done" /\ call[o].inst = i)
          /\ from.state = "notify" => Ready(i)
  <2>1. CASE /\ row[i] # Nothing /\ row[i].status = "paused"
             /\ call' = [call EXCEPT ![c] = Begun(i, c, row[i].state)]
             /\ object' = [object EXCEPT ![c] = Resumed(row[i])]
    <3>1. row[i] \in Instance
      BY <2>1 DEF IInv, TInv, TypeOK
    <3>2. row[i].state = "notify" => Ready(i)
      BY <2>1 DEF NoticeInv, PausedInNotice
    <3>3. QED
      BY <1>1, <2>1, <3>1, <3>2
  <2>2. CASE /\ cache[i] # Nothing /\ object[cache[i]].status = "paused"
             /\ call' = [call EXCEPT ![c] = Begun(i, cache[i], object[cache[i]].state)]
             /\ object' = [object EXCEPT ![cache[i]] = Resumed(object[cache[i]])]
    <3>1. cache[i] \in Calls /\ object[cache[i]] \in Instance
          /\ call[cache[i]].pc = "done" /\ call[cache[i]].inst = i
      BY <2>2 DEF IInv, TInv, TypeOK, Holding, Apart
    <3>2. object[cache[i]] # Nothing
      BY <3>1, WorkflowAssumption
    <3>3. object[cache[i]].state = "notify" => Ready(i)
      BY <2>2, <3>1, <3>2 DEF NoticeInv, PausedInNotice
    <3>4. QED
      BY <2>2, <3>1, <3>3
  <2>3. \/ /\ row[i] # Nothing /\ row[i].status = "paused"
           /\ call' = [call EXCEPT ![c] = Begun(i, c, row[i].state)]
           /\ object' = [object EXCEPT ![c] = Resumed(row[i])]
        \/ /\ cache[i] # Nothing /\ object[cache[i]].status = "paused"
           /\ call' = [call EXCEPT ![c] = Begun(i, cache[i], object[cache[i]].state)]
           /\ object' = [object EXCEPT ![cache[i]] = Resumed(object[cache[i]])]
    BY DEF Resume
  <2>4. QED
    BY <2>1, <2>2, <2>3
<1>4. /\ call'[c] = Begun(i, o, from.state) /\ object'[o] = Resumed(from)
      /\ \A d \in Calls : d # c => call'[d] = call[d]
      /\ \A d \in Calls : d # o => object'[d] = object[d]
  BY <1>1, <1>3, Types DEF IInv, TInv
<1>5. /\ Begun(i, o, from.state).state = from.state /\ Begun(i, o, from.state).action = 1
      /\ Begun(i, o, from.state).pc = "act" /\ Begun(i, o, from.state).inst = i
  BY DEF Begun
<1>6. Resumed(from).status = "active"
  BY ResumedTyped
<1>7. Reported(c)' /\ Noticing(c)'
  BY <1>1, <1>3, <1>4, <1>5 DEF Reported, Noticing, Ready
<1>8. \A d \in Calls : d # c => Reported(d)' /\ Noticing(d)'
  <2>1. \A d \in Calls : call[d].pc \in Running => call[d].obj # o /\ call[d].obj \in Calls
    BY <1>1, <1>2, <1>3 DEF IInv, Apart, TInv, Holding, Running
  <2>2. \A d \in Calls : d # c /\ call[d].pc \in Running => Mine(d)' = Mine(d)
    BY <1>4, <2>1 DEF Mine
  <2>3. QED
    BY <1>1, <1>4, <2>2, ReportKept
<1>9. \A a \in Calls : PausedInNotice(object'[a]) => Ready(call'[a].inst)
  <2> SUFFICES ASSUME NEW a \in Calls, PausedInNotice(object'[a]) PROVE Ready(call'[a].inst)
    OBVIOUS
  <2>1. a # o /\ PausedInNotice(object[a])
    BY <1>4, <1>6 DEF PausedInNotice
  <2>2. a # c
    BY <1>1, <2>1 DEF PausedInNotice, IInv, Apart, Running
  <2>3. QED
    BY <1>4, <2>1, <2>2 DEF NoticeInv
<1>10. QED
  BY <1>1, <1>7, <1>8, <1>9, NoticeKept

LEMMA NoticeStep ==
    ASSUME TicketBeforeNotice, IInv, NoticeInv, [Next]_vars
    PROVE  NoticeInv'
<1>1. CASE \E i \in Instances : Handle(i) \/ \E c \in Approvals : Resume(c, i)
  BY <1>1, NoticeHandle, NoticeResume
<1>2. CASE \E c \in Calls : Drive(c)
  BY <1>2, NoticeExecute, NoticeAudit, NoticeTurn, NoticeSave DEF Drive
<1>3. CASE Restart
  <2>1. /\ UNCHANGED <<row, log>> /\ object' = [c \in Calls |-> Nothing]
        /\ \A c \in Calls : call'[c].pc \notin Running
    BY <1>3, Restarted DEF IInv
  <2>2. \A c \in Calls : Reported(c)' /\ Noticing(c)'
    BY <2>1 DEF Reported, Noticing, Running
  <2>3. QED
    BY <2>1, <2>2, NoticeKept DEF PausedInNotice
<1>4. CASE UNCHANGED vars
  <2>1. UNCHANGED <<call, object, row, log>>
    BY <1>4 DEF vars
  <2>2. \A c \in Calls : Reported(c)' /\ Noticing(c)'
    BY <2>1, ReportKept DEF Mine
  <2>3. QED
    BY <2>1, <2>2, NoticeKept DEF NoticeInv
<1>5. QED
  BY <1>1, <1>2, <1>3, <1>4 DEF Next

(* The user is only told of a ticket that was created: for definitions     *)
(* that enter "notify" on the success of create_jira, as chat-to-jira      *)
(* does, whatever the actions return and wherever the process stops.       *)
THEOREM NoticeAfterTicketHolds ==
    ASSUME TicketBeforeNotice
    PROVE  ~Concurrent /\ Spec => []NoticeAfterTicket
<1>1. ~Concurrent /\ Init => IInv /\ NoticeInv
  <2> SUFFICES ASSUME ~Concurrent, Init PROVE NoticeInv
    BY InitHeld
  <2>1. QED
    BY DEF Init, NoCall, NoticeInv, Reported, Noticing, PausedInNotice, TicketFirst
<1>2. IInv /\ NoticeInv /\ [Next]_vars => IInv' /\ NoticeInv'
  BY StepHeld, NoticeStep
<1>3. NoticeInv => NoticeAfterTicket
  BY DEF NoticeInv, TicketFirst, NoticeAfterTicket
<1>4. QED
  BY <1>1, <1>2, <1>3, PTL DEF Spec
=============================================================================
