------------------------------ MODULE Workflow ------------------------------
(***************************************************************************)
(* The workflow engine: an event starts an instance of a workflow, which   *)
(* is driven through the states of its definition, executing the actions   *)
(* of each state and logging them, until it completes, fails, or pauses    *)
(* before an action of tier 3; resume drives a paused one again.  A drive  *)
(* works on an object of the process and writes it to workflow_instances   *)
(* once, at its end; the object stays in _instances for the case that the  *)
(* database cannot be read.                                                *)
(***************************************************************************)
EXTENDS Naturals, Sequences, FiniteSets

CONSTANTS
    Instances,      \* instances that events may start
    Approvals,      \* calls of resume
    States,         \* names of states, "completed" among them
    Events,         \* events the relay passes on: [type, intent, status, words]
    Trigger,        \* Trigger[i]: event and conditions of the trigger of i
    First,          \* First[i]: the first state of the definition of i
    Actions,        \* Actions[i]: from its states to sequences of action types
    Rules,          \* Rules[i]: from its states to sequences of transitions
    MaxTransitions, \* max_transitions
    Nothing,        \* no row, no object
    Outages,        \* may a statement of the database fail?
    Concurrent      \* may an instance be resumed in the middle of a drive of its?

Calls == Instances \cup Approvals   \* handle_event's drive of i is call i

(* A WorkflowInstance, with as much of its context as transitions look at: *)
(* found says that the last memories were enough, success is               *)
(* last_action_success.                                                    *)
Instance == [state : States, status : {"active", "paused", "completed", "failed"},
             approved : BOOLEAN, needsApproval : BOOLEAN,
             success : BOOLEAN, found : BOOLEAN]

ASSUME WorkflowAssumption ==
    /\ Instances \cap Approvals = {} /\ Nothing \notin Calls \cup Instance
    /\ First \in [Instances -> States] /\ "completed" \in States
    /\ \A i \in Instances :
          /\ DOMAIN Actions[i] \subseteq States /\ DOMAIN Rules[i] = DOMAIN Actions[i]
          /\ \A s \in DOMAIN Actions[i] :
                /\ Actions[i][s] \in Seq(STRING)
                /\ Rules[i][s] \in Seq([condition : STRING, next : States])
    /\ MaxTransitions \in Nat \ {0}
    /\ Outages \in BOOLEAN /\ Concurrent \in BOOLEAN

VARIABLES
    call,       \* call[c]: where a drive stands, and its local variables
    object,     \* object[c]: the WorkflowInstance that call c created or loaded
    cache,      \* cache[i]: whose object _instances holds for i
    row,        \* row[i]: the row of i in workflow_instances
    log,        \* log[i]: the actions executed for i, in order, repetitions once
    held,       \* drives that came to an action of tier 3 and whose instance
                \* nobody has resumed since
    crossed     \* instances that were resumed in the middle of a drive of theirs

vars == <<call, object, cache, row, log, held, crossed>>

Running == {"act", "audit", "save"}

NoCall == [pc |-> "idle", inst |-> Nothing, obj |-> Nothing,
           state |-> "completed", action |-> 1, turn |-> 1]

Begun(i, o, s) ==
    [pc |-> "act", inst |-> i, obj |-> o, state |-> s, action |-> 1, turn |-> 1]

TypeOK ==
    /\ call \in [Calls -> [pc : {"idle", "done", "dead"} \cup Running,
                           inst : Instances \cup {Nothing}, obj : Calls \cup {Nothing},
                           state : States, action : Nat \ {0}, turn : 1..MaxTransitions]]
    /\ object \in [Calls -> Instance \cup {Nothing}]
    /\ cache \in [Instances -> Calls \cup {Nothing}]
    /\ row \in [Instances -> Instance \cup {Nothing}]
    /\ log \in [Instances -> Seq([state : States, action : STRING, ok : BOOLEAN])]
    /\ held \subseteq Calls /\ crossed \subseteq Instances

Init ==
    /\ call = [c \in Calls |-> NoCall]
    /\ object = [c \in Calls |-> Nothing]
    /\ cache = [i \in Instances |-> Nothing]
    /\ row = [i \in Instances |-> Nothing]
    /\ log = [i \in Instances |-> <<>>]
    /\ held = {} /\ crossed = {}

-----------------------------------------------------------------------------
(* TIER_MAP, an unknown action being of tier 2.                            *)
Tier(a) == IF a \in {"query_memory", "send_chat_draft"} THEN 1
           ELSE IF a \in {"merge_mr", "deploy"} THEN 3 ELSE 2

(* What an action may return: the executor does not try one of tier 3, and *)
(* raises for a type without a handler.  The handlers search, store a      *)
(* draft, or stand in for services that are not connected yet; all are     *)
(* taken to fail at times, as execute provides.                            *)
Handlers == {"query_memory", "send_chat_draft", "create_jira", "update_jira",
             "send_chat", "start_code_session"}

Results(a) == IF a \in Handlers /\ Tier(a) < 3 THEN BOOLEAN ELSE {FALSE}

(* _evaluate; approved is set to True by resume and never to False.        *)
Holds(condition, o) ==
    \/ condition = "always"
    \/ condition = "approved" /\ o.approved
    \/ condition = "action_success" /\ o.success
    \/ condition = "action_needs_approval" /\ o.needsApproval
    \/ condition = "memories_found" /\ o.found

(* The places of the transitions that may fire; the first of them does.    *)
Firing(i, o) ==
    IF o.state \in DOMAIN Rules[i]
    THEN {t \in DOMAIN Rules[i][o.state] : Holds(Rules[i][o.state][t].condition, o)}
    ELSE {}

NextStates(i, o) ==
    {Rules[i][o.state][t].next : t \in {n \in Firing(i, o) : \A m \in Firing(i, o) : n <= m}}

Mine(c)    == object[call[c].obj]

(* The actions of the state; a state the definition lacks has none.        *)
Recipe(c)  == IF call[c].state \in DOMAIN Actions[call[c].inst]
              THEN Actions[call[c].inst][call[c].state] ELSE <<>>
Current(c) == Recipe(c)[call[c].action]

Busy(i) == {c \in Calls : call[c].inst = i /\ call[c].pc \in Running}

-----------------------------------------------------------------------------
(* _single_condition_match: of a condition with several keys only one is   *)
(* looked at, and one with no key known here is never met.                 *)
Met(condition, e) ==
    CASE "intent" \in DOMAIN condition -> e.intent = condition.intent
      [] "intent" \notin DOMAIN condition /\ "status" \in DOMAIN condition ->
             e.status = condition.status
      [] DOMAIN condition \cap {"intent", "status", "body_contains_any"}
             = {"body_contains_any"} -> condition.body_contains_any \cap e.words # {}
      [] OTHER -> FALSE

(* _match_workflows.                                                       *)
Matches(i, e) ==
    /\ Trigger[i].event = e.type
    /\ \A n \in DOMAIN Trigger[i].conditions : Met(Trigger[i].conditions[n], e)

(* handle_event: an event matches the trigger of i's workflow.  The relay  *)
(* handles one event, and of it one workflow, at a time.                   *)
Handle(i) ==
    /\ \E e \in Events : Matches(i, e)
    /\ call[i].pc = "idle"
    /\ \A j \in Instances : call[j].pc \notin Running
    /\ call' = [call EXCEPT ![i] = Begun(i, i, First[i])]
    /\ object' = [object EXCEPT ![i] =
          [state |-> First[i], status |-> "active", approved |-> FALSE,
           needsApproval |-> FALSE, success |-> FALSE, found |-> FALSE]]
    /\ UNCHANGED <<cache, row, log, held, crossed>>

Resumed(o) ==
    [state |-> o.state, status |-> "active", approved |-> TRUE, needsApproval |-> FALSE,
     success |-> o.success, found |-> o.found]

Approve(i) ==
    /\ held' = {c \in held : call[c].inst # i}
    /\ crossed' = IF Busy(i) = {} THEN crossed ELSE crossed \cup {i}

(* Mutation: whatever was loaded is driven again.                          *)
Resume_AnyStatus(c, i) ==
    /\ call[c].pc = "idle"
    /\ Concurrent \/ Busy(i) = {}
    /\ row[i] # Nothing
    /\ call' = [call EXCEPT ![c] = Begun(i, c, row[i].state)]
    /\ object' = [object EXCEPT ![c] = Resumed(row[i])]
    /\ Approve(i)
    /\ UNCHANGED <<cache, row, log>>

(* resume: the row is read into an object of its own, or else the object   *)
(* in _instances is used; only a paused instance is driven.                *)
Resume(c, i) ==
    /\ call[c].pc = "idle"
    /\ Concurrent \/ Busy(i) = {}
    /\ \/ /\ row[i] # Nothing /\ row[i].status = "paused"
          /\ call' = [call EXCEPT ![c] = Begun(i, c, row[i].state)]
          /\ object' = [object EXCEPT ![c] = Resumed(row[i])]
       \/ /\ Outages
          /\ cache[i] # Nothing /\ object[cache[i]].status = "paused"
          /\ call' = [call EXCEPT ![c] = Begun(i, cache[i], object[cache[i]].state)]
          /\ object' = [object EXCEPT ![cache[i]] = Resumed(@)]
    /\ Approve(i)
    /\ UNCHANGED <<cache, row, log>>

-----------------------------------------------------------------------------
(* One turn of _drive.                                                     *)

(* What an action leaves in the instance.                                  *)
Outcome(o, a, ok, found) ==
    [state |-> o.state, status |-> IF Tier(a) = 3 THEN "paused" ELSE o.status,
     approved |-> o.approved, needsApproval |-> Tier(a) = 3, success |-> ok, found |-> found]

Logged(entries, entry) ==
    IF entries # <<>> /\ entries[Len(entries)] = entry THEN entries
    ELSE Append(entries, entry)

(* Mutation: a failed action leaves last_action_success alone.             *)
Execute_KeepsSuccess(c) ==
    LET a == Current(c) IN
    /\ call[c].pc = "act" /\ call[c].action \in DOMAIN Recipe(c)
    /\ \E ok \in Results(a), found \in BOOLEAN :
          /\ (ok /\ a = "query_memory") \/ found = Mine(c).found
          /\ object' = [object EXCEPT ![call[c].obj] =
                Outcome(Mine(c), a, Mine(c).success \/ ok, found)]
          /\ log' = [log EXCEPT ![call[c].inst] =
                Logged(@, [state |-> call[c].state, action |-> a, ok |-> ok])]
    /\ held' = IF Tier(a) = 3 THEN held \cup {c} ELSE held
    /\ call' = [call EXCEPT ![c].pc = "audit"]
    /\ UNCHANGED <<cache, row, crossed>>

(* _execute_state_actions, the next action of the state: it succeeds or    *)
(* not, except that one of tier 3 is not even tried and pauses.            *)
Execute(c) ==
    LET a == Current(c) IN
    /\ call[c].pc = "act" /\ call[c].action \in DOMAIN Recipe(c)
    /\ \E ok \in Results(a), found \in BOOLEAN :
          /\ (ok /\ a = "query_memory") \/ found = Mine(c).found
          /\ object' = [object EXCEPT ![call[c].obj] = Outcome(Mine(c), a, ok, found)]
          /\ log' = [log EXCEPT ![call[c].inst] =
                Logged(@, [state |-> call[c].state, action |-> a, ok |-> ok])]
    /\ held' = IF Tier(a) = 3 THEN held \cup {c} ELSE held
    /\ call' = [call EXCEPT ![c].pc = "audit"]
    /\ UNCHANGED <<cache, row, crossed>>

(* Mutation: the actions after one that needs approval are executed, too.  *)
Audit_NoBreak(c) ==
    /\ call[c].pc = "audit"
    /\ call' = [call EXCEPT ![c] = [@ EXCEPT !.pc = "act", !.action = call[c].action + 1]]
    /\ UNCHANGED <<object, cache, row, log, held, crossed>>

(* log_action: when its INSERT fails, as it does while the instance it     *)
(* refers to has no row, the drive goes on.  An action that needs approval *)
(* ends the actions of the state.                                          *)
Audit(c) ==
    /\ call[c].pc = "audit"
    /\ call' = [call EXCEPT ![c] = [@ EXCEPT !.pc = "act",
          !.action = IF Tier(Current(c)) = 3 THEN Len(Recipe(c)) + 1 ELSE call[c].action + 1]]
    /\ UNCHANGED <<object, cache, row, log, held, crossed>>

Moved(o, next, status) ==
    [state |-> next, status |-> status, approved |-> o.approved,
     needsApproval |-> o.needsApproval, success |-> o.success, found |-> o.found]

Ends(c, status) ==
    /\ object' = [object EXCEPT ![call[c].obj] = Moved(Mine(c), Mine(c).state, status)]
    /\ call' = [call EXCEPT ![c].pc = "save"]

(* The state of the instance is next, for one more turn if there is one    *)
(* left and the definition has that state.                                 *)
Enters(c, next, turnsLeft) ==
    LET goesOn == turnsLeft /\ next \in DOMAIN Rules[call[c].inst]
        status == IF next = "completed" THEN "completed"
                  ELSE IF goesOn THEN Mine(c).status ELSE "failed"
    IN
    /\ object' = [object EXCEPT ![call[c].obj] = Moved(Mine(c), next, status)]
    /\ call' = [call EXCEPT ![c] =
          [pc     |-> IF next # "completed" /\ goesOn THEN "act" ELSE "save",
           inst   |-> call[c].inst, obj |-> call[c].obj, state |-> next, action |-> 1,
           turn   |-> IF turnsLeft THEN call[c].turn + 1 ELSE call[c].turn]]

(* Mutation: the transitions are not counted.                              *)
Turn_Uncounted(c) ==
    LET i == call[c].inst
        o == Mine(c) IN
    /\ call[c].pc = "act" /\ call[c].action \notin DOMAIN Recipe(c)
    /\ IF o.status \in {"paused", "failed"} THEN Ends(c, o.status)
       ELSE IF Firing(i, o) = {} \/ o.state = "completed" THEN Ends(c, "completed")
       ELSE \E next \in NextStates(i, o) :
            /\ object' = [object EXCEPT ![call[c].obj].state = next]
            /\ call' = [call EXCEPT ![c] = Begun(i, @.obj, next)]
    /\ UNCHANGED <<cache, row, log, held, crossed>>

(* The rest of a turn, when turns up to the last may go on to another: a   *)
(* pause or failure, no transition that may fire, or the first that does.  *)
TurnUpTo(c, last) ==
    LET i == call[c].inst
        o == Mine(c) IN
    /\ call[c].pc = "act" /\ call[c].action \notin DOMAIN Recipe(c)
    /\ \/ o.status \in {"paused", "failed"} /\ Ends(c, o.status)
       \/ /\ o.status \notin {"paused", "failed"}
          /\ o.state = "completed" \/ Firing(i, o) = {}
          /\ Ends(c, "completed")
       \/ /\ o.status \notin {"paused", "failed"}
          /\ o.state # "completed" /\ Firing(i, o) # {}
          /\ \E next \in NextStates(i, o) : Enters(c, next, call[c].turn <= last)
    /\ UNCHANGED <<cache, row, log, held, crossed>>

(* Mutation: one transition more than the cap.                             *)
Turn_OneMore(c) == TurnUpTo(c, MaxTransitions)

Turn(c) == TurnUpTo(c, MaxTransitions - 1)

(* _save_instance: the object is kept, and written unless that fails.      *)
Save(c) ==
    LET i == call[c].inst IN
    /\ call[c].pc = "save"
    /\ cache' = [cache EXCEPT ![i] = call[c].obj]
    /\ \/ row' = [row EXCEPT ![i] = Mine(c)]
       \/ Outages /\ row' = row
    /\ call' = [call EXCEPT ![c].pc = "done"]
    /\ UNCHANGED <<object, log, held, crossed>>

(* The process stops: drives under way and all objects are gone.           *)
Restart ==
    /\ \E c \in Calls : call[c].pc \in Running
    /\ call' = [c \in Calls |-> IF call[c].pc \in Running
                                THEN [NoCall EXCEPT !.pc = "dead"] ELSE call[c]]
    /\ object' = [c \in Calls |-> Nothing]
    /\ cache' = [i \in Instances |-> Nothing]
    /\ held' = {}
    /\ UNCHANGED <<row, log, crossed>>

-----------------------------------------------------------------------------
Drive(c) == Execute(c) \/ Audit(c) \/ Turn(c) \/ Save(c)

Next ==
    \/ \E i \in Instances : Handle(i) \/ \E c \in Approvals : Resume(c, i)
    \/ \E c \in Calls : Drive(c)
    \/ Restart

Spec == Init /\ [][Next]_vars

(* The awaits of a drive end: the actions and the statements answer or     *)
(* raise.  Nobody has to resume anything.                                  *)
FairSpec == Spec /\ \A c \in Calls : WF_vars(Drive(c))

-----------------------------------------------------------------------------
(* Tier 3 "must be manually approved": a drive that has come to an action  *)
(* of tier 3 executes nothing more and enters no other state, its instance *)
(* being paused and saved as paused, unless somebody has resumed the       *)
(* instance since: the human approval of resume's docstring.  (The drive   *)
(* that resume starts executes the same state again, comes to the same     *)
(* action and is held again: WorkflowProofs, StaysAtGate.)                 *)
HeldAtTierThree ==
    \A c \in held : call[c].pc \in Running =>
        /\ Mine(c).status = "paused"
        /\ call[c].pc = "act" => call[c].action \notin DOMAIN Recipe(c)

(* A row that says completed or failed is final: no resume changes it, if  *)
(* no two drives of the instance have overlapped.                          *)
FinishedIsFinal ==
    [][\A i \in Instances \ crossed :
          row[i] # Nothing /\ row[i].status \in {"completed", "failed"}
              => row'[i] = row[i]]_vars

(* chat-to-jira: "Created {jira_key} for this" is only drafted when the    *)
(* last attempt to create the ticket succeeded, although that is decided   *)
(* by last_action_success, which every action sets (drives that overlap    *)
(* and share an object set it for each other).                             *)
NoticeAfterTicket ==
    \A i \in Instances \ crossed : \A p \in DOMAIN log[i] :
        log[i][p].state = "notify" =>
            \E q \in 1..(p - 1) :
                /\ log[i][q].action = "create_jira" /\ log[i][q].ok
                /\ \A r \in (q + 1)..(p - 1) : log[i][r].action # "create_jira"

(* What NoticeAfterTicket asks of the definitions: no other way into       *)
(* "notify" than the success of the last action of a state, which creates  *)
(* the ticket, and no ticket created in "notify" itself.                   *)
TicketBeforeNotice ==
    \A i \in Instances :
        /\ First[i] # "notify"
        /\ \A s \in DOMAIN Rules[i] : \A t \in DOMAIN Rules[i][s] :
              Rules[i][s][t].next = "notify" =>
                  /\ Rules[i][s][t].condition = "action_success"
                  /\ Actions[i][s] # <<>> /\ Actions[i][s][Len(Actions[i][s])] = "create_jira"
        /\ "notify" \in DOMAIN Actions[i] =>
              \A n \in DOMAIN Actions[i]["notify"] : Actions[i]["notify"][n] # "create_jira"

(* "Caps at 20 transitions to prevent infinite loops": every drive ends,   *)
(* whatever its definition says and its actions return.                    *)
DrivesEnd ==
    \A c \in Calls : (call[c].pc \in Running) ~> (call[c].pc \in {"done", "dead"})
=============================================================================
