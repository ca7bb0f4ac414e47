----------------------------- MODULE AgentRelay -----------------------------
(***************************************************************************)
(* The agent relay: a loop that polls the events table for chat messages,  *)
(* holds the messages of one sender in one room (a key) until that sender  *)
(* has been silent for a while, and hands them as one batch to the agent.  *)
(* The writers of the table and the clocks run beside the loop.            *)
(***************************************************************************)
EXTENDS Naturals, Sequences, FiniteSets

CONSTANTS
    Events,     \* rows of the events table (chat, message.received)
    Keys,       \* pairs of a sender and a room
    KeyOf,      \* KeyOf[e]: the key of event e
    Ignored,    \* events the filters of the loop drop (empty body, own, bot)
    Limit,      \* LIMIT of the poll
    MaxIds,     \* _MAX_PROCESSED_IDS
    Debounce,   \* _DEBOUNCE_SECONDS, in ticks
    Writers,    \* how many INSERTs may be under way: app.py starts two writers
    MaxTime     \* bound: no row is inserted at or after this time

ASSUME RelayAssumption ==
    /\ IsFiniteSet(Events)
    /\ KeyOf \in [Events -> Keys]
    /\ Ignored \subseteq Events
    /\ Limit \in Nat \ {0}
    /\ MaxIds \in Nat /\ MaxIds >= Limit
    /\ Debounce \in Nat \ {0}
    /\ Writers \in Nat \ {0}
    /\ MaxTime \in Nat \ {0}

VARIABLES
    clock,      \* the clock of created_at
    stamp,      \* stamp[e]: created_at of row e, 0 before its INSERT begins
    visible,    \* the committed rows
    overtaken,  \* those that became visible after a row of a later time
    pc,         \* where the loop stands
    started,    \* when the loop was started
    cursor,     \* _last_processed
    rows,       \* rows fetched and not yet collected
    seen,       \* _processed_event_ids
    forgotten,  \* rows with the time of the cursor when the ids were cleared
    buffer,     \* _debounce_buffer: the events held for each key
    timer,      \* _debounce_deadline: ticks left before the deadline
    ready,      \* ready_keys not yet handled
    handed      \* handed[k]: the events of k given to _process_event, in order

table    == <<clock, stamp, visible, overtaken>>
ids      == <<seen, forgotten>>
debounce == <<buffer, timer, ready, handed>>
vars     == <<clock, stamp, visible, overtaken, pc, started, cursor, rows, seen,
              forgotten, buffer, timer, ready, handed>>

TypeOK ==
    /\ clock \in Nat \ {0}
    /\ stamp \in [Events -> Nat]
    /\ visible \in SUBSET Events /\ overtaken \in SUBSET Events
    /\ pc \in {"down", "sleep", "collect", "work", "process"}
    /\ started \in Nat
    /\ cursor \in Nat
    /\ rows \in Seq(Events)
    /\ seen \in SUBSET Events /\ forgotten \in SUBSET Events
    /\ buffer \in [Keys -> Seq(Events)]
    /\ timer \in [Keys -> 0..Debounce]
    /\ ready \in SUBSET Keys
    /\ handed \in [Keys -> Seq(Events)]

Init ==
    /\ clock = 1
    /\ stamp = [e \in Events |-> 0]
    /\ visible = {} /\ overtaken = {}
    /\ pc = "down"
    /\ started = 0 /\ cursor = 0
    /\ rows = <<>>
    /\ seen = {} /\ forgotten = {}
    /\ buffer = [k \in Keys |-> <<>>]
    /\ timer = [k \in Keys |-> 0]
    /\ ready = {}
    /\ handed = [k \in Keys |-> <<>>]

-----------------------------------------------------------------------------
(* The table and the clocks.                                               *)

InFlight == {e \in Events : stamp[e] > 0} \ visible

(* A writer begins its INSERT: created_at is the time of that statement.   *)
(* The tail of the inbox and the ingestor insert on two connections.       *)
(* Fewer than Limit rows share a time: the loop pages by time alone, and   *)
(* would stand still otherwise; created_at counts microseconds.            *)
Insert(e) ==
    /\ stamp[e] = 0
    /\ clock < MaxTime
    /\ Cardinality(InFlight) < Writers
    /\ Cardinality({f \in Events : stamp[f] = clock}) + 1 < Limit
    /\ stamp' = [stamp EXCEPT ![e] = clock]
    /\ UNCHANGED <<clock, visible, overtaken, pc, started, cursor, rows, ids, debounce>>

Commit(e) ==
    /\ e \in InFlight
    /\ visible' = visible \cup {e}
    /\ overtaken' = overtaken \cup {o \in {e} : \E f \in visible : stamp[o] < stamp[f]}
    /\ UNCHANGED <<clock, stamp, pc, started, cursor, rows, ids, debounce>>

(* Mutation: the ticks left are counted below zero.                        *)
Tick_NoFloor ==
    /\ clock' = IF clock < MaxTime THEN clock + 1 ELSE clock
    /\ timer' = [k \in Keys |-> IF timer[k] = 0 THEN Debounce + 1 ELSE timer[k] - 1]
    /\ UNCHANGED <<stamp, visible, overtaken, pc, started, cursor, rows, ids,
                   buffer, ready, handed>>

(* Time passes on both clocks.  MaxTime stands for every later time.       *)
Tick ==
    /\ clock' = IF clock < MaxTime THEN clock + 1 ELSE clock
    /\ timer' = [k \in Keys |-> IF timer[k] = 0 THEN 0 ELSE timer[k] - 1]
    /\ UNCHANGED <<stamp, visible, overtaken, pc, started, cursor, rows, ids,
                   buffer, ready, handed>>

-----------------------------------------------------------------------------
(* The loop.                                                               *)

(* run_agent_relay begins: from now on, with nothing remembered.           *)
Start ==
    /\ pc = "down"
    /\ pc' = "sleep"
    /\ started' = clock
    /\ cursor' = clock
    /\ UNCHANGED <<table, rows, ids, debounce>>

(* The process stops; whatever the loop holds is gone.                     *)
Stop ==
    /\ pc # "down"
    /\ pc' = "down"
    /\ rows' = <<>>
    /\ seen' = {}
    /\ buffer' = [k \in Keys |-> <<>>]
    /\ timer' = [k \in Keys |-> 0]
    /\ ready' = {}
    /\ UNCHANGED <<table, started, cursor, forgotten, handed>>

(* Mutation: created_at > $1.                                              *)
Due_Later == {e \in visible : stamp[e] > cursor}

(* WHERE created_at >= $1                                                  *)
Due == {e \in visible : stamp[e] >= cursor}

(* Mutation: ORDER BY created_at DESC.                                     *)
Ordered_Descending(s) ==
    /\ \A i, j \in DOMAIN s : i < j => s[i] # s[j] /\ stamp[s[j]] <= stamp[s[i]]
    /\ \A e \in Due : (\A i \in DOMAIN s : s[i] # e)
                      => \A i \in DOMAIN s : stamp[e] <= stamp[s[i]]

(* ORDER BY created_at ASC, the first of them; rows of one time come in    *)
(* any order.                                                              *)
Ordered(s) ==
    /\ \A i, j \in DOMAIN s : i < j => s[i] # s[j] /\ stamp[s[i]] <= stamp[s[j]]
    /\ \A e \in Due : (\A i \in DOMAIN s : s[i] # e)
                      => \A i \in DOMAIN s : stamp[s[i]] <= stamp[e]

Fetch ==
    /\ pc = "sleep"
    /\ \E n \in 0..Limit :
        /\ n = Limit \/ n = Cardinality(Due)
        /\ \E s \in [1..n -> Due] : Ordered(s) /\ rows' = s
    /\ pc' = "collect"
    /\ UNCHANGED <<table, started, cursor, ids, debounce>>

(* Mutation: no look at _processed_event_ids.                              *)
Collect_NoDedup ==
    LET e == Head(rows)
        k == KeyOf[e] IN
    /\ pc = "collect" /\ rows # <<>>
    /\ cursor' = stamp[e]
    /\ rows' = Tail(rows)
    /\ seen' = seen \cup {e} /\ UNCHANGED forgotten
    /\ IF e \in Ignored
       THEN UNCHANGED <<buffer, timer>>
       ELSE /\ buffer' = [buffer EXCEPT ![k] = Append(@, e)]
            /\ timer' = [timer EXCEPT ![k] = Debounce]
    /\ UNCHANGED <<table, pc, started, ready, handed>>

(* Mutation: a new message replaces the one that is held.                  *)
Collect_Replaces ==
    LET e == Head(rows)
        k == KeyOf[e] IN
    /\ pc = "collect" /\ rows # <<>>
    /\ cursor' = stamp[e]
    /\ rows' = Tail(rows)
    /\ seen' = seen \cup {e} /\ UNCHANGED forgotten
    /\ IF e \in seen \/ e \in Ignored
       THEN UNCHANGED <<buffer, timer>>
       ELSE /\ buffer' = [buffer EXCEPT ![k] = <<e>>]
            /\ timer' = [timer EXCEPT ![k] = Debounce]
    /\ UNCHANGED <<table, pc, started, ready, handed>>

(* One turn of the loop over the rows: the cursor moves, a row seen before *)
(* is skipped, the ids are cleared when there are too many (the new one    *)
(* with them), and the event is held until its key has been silent.        *)
Collect ==
    LET e == Head(rows)
        k == KeyOf[e]
        all == seen \cup {e} IN
    /\ pc = "collect" /\ rows # <<>>
    /\ cursor' = stamp[e]
    /\ rows' = Tail(rows)
    /\ IF Cardinality(all) > MaxIds
       THEN seen' = {} /\ forgotten' = forgotten \cup {f \in all : stamp[f] = stamp[e]}
       ELSE seen' = all /\ UNCHANGED forgotten
    /\ IF e \in seen \/ e \in Ignored
       THEN UNCHANGED <<buffer, timer>>
       ELSE /\ buffer' = [buffer EXCEPT ![k] = Append(@, e)]
            /\ timer' = [timer EXCEPT ![k] = Debounce]
    /\ UNCHANGED <<table, pc, started, ready, handed>>

(* The keys whose deadline has passed.                                     *)
SelectReady ==
    /\ pc = "collect" /\ rows = <<>>
    /\ ready' = {k \in Keys : buffer[k] # <<>> /\ timer[k] = 0}
    /\ pc' = "work"
    /\ UNCHANGED <<table, started, cursor, rows, ids, buffer, timer, handed>>

(* The batch of a ready key leaves the buffer before it is processed.      *)
Take(k) ==
    /\ pc = "work" /\ k \in ready
    /\ ready' = ready \ {k}
    /\ buffer' = [buffer EXCEPT ![k] = <<>>]
    /\ handed' = [handed EXCEPT ![k] = @ \o buffer[k]]
    /\ pc' = "process"
    /\ UNCHANGED <<table, started, cursor, rows, ids, timer>>

(* _process_event returns: replied, skipped, or failed and logged.         *)
Finish ==
    /\ pc = "process"
    /\ pc' = "work"
    /\ UNCHANGED <<table, started, cursor, rows, ids, debounce>>

(* _process_event raises: the other ready keys wait for the next poll.     *)
Raise ==
    /\ pc = "process"
    /\ pc' = "sleep"
    /\ ready' = {}
    /\ UNCHANGED <<table, started, cursor, rows, ids, buffer, timer, handed>>

EndPoll ==
    /\ pc = "work" /\ ready = {}
    /\ pc' = "sleep"
    /\ UNCHANGED <<table, started, cursor, rows, ids, debounce>>

-----------------------------------------------------------------------------
Loop == Fetch \/ Collect \/ SelectReady \/ (\E k \in Keys : Take(k))
             \/ Finish \/ Raise \/ EndPoll

Next ==
    \/ \E e \in Events : Insert(e) \/ Commit(e)
    \/ Tick
    \/ Start \/ Stop
    \/ Loop

Spec == Init /\ [][Next]_vars

(* The loop goes on (each await of it ends) and time passes.  Nothing says *)
(* that messages arrive or that the process is started.                    *)
FairSpec == Spec /\ WF_vars(Loop) /\ WF_vars(Tick)

-----------------------------------------------------------------------------
Occurs(e, s) == \E i \in DOMAIN s : s[i] = e
Handed(e)    == Occurs(e, handed[KeyOf[e]])
Held(e)      == Occurs(e, buffer[KeyOf[e]])

(* "Dedup: ... to prevent duplicate pipeline runs": no message is given to *)
(* the agent twice, neither by two polls that return the same row (>=),    *)
(* nor by two lives of the process: a message is held for Debounce ticks,  *)
(* so the next life starts after the time of every message handed before.  *)
(* Repeated are only rows that had the time of the cursor, which is        *)
(* inclusive, at the moment when the set of ids was full and was cleared.  *)
HandedOnce ==
    \A k \in Keys : \A i, j \in DOMAIN handed[k] :
        i # j /\ handed[k][i] = handed[k][j] => handed[k][i] \in forgotten

(* The messages of a sender in a room reach the agent in the order they    *)
(* were stored, across polls, batches and restarts of the loop.            *)
InOrder ==
    \A k \in Keys : \A i, j \in DOMAIN handed[k] :
        i < j => stamp[handed[k][i]] <= stamp[handed[k][j]]

(* The cursor passes no message over: one stored since the loop began and  *)
(* before its cursor is held or was handed over.  Lost are only rows that  *)
(* one writer committed after a later row of another.                      *)
NonePassedOver ==
    pc # "down" => \A e \in visible \ (Ignored \cup overtaken) :
        started <= stamp[e] /\ stamp[e] < cursor => Held(e) \/ Handed(e)

(* A stored message is handed to the agent in the end, however long its    *)
(* sender goes on, unless the process stops or another writer overtook it. *)
EventuallyHanded ==
    \A e \in Events \ Ignored :
        (pc # "down" /\ e \in visible \ overtaken /\ stamp[e] >= started)
            ~> (Handed(e) \/ pc = "down")
=============================================================================
