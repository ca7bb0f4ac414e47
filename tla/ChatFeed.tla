------------------------------ MODULE ChatFeed ------------------------------
(***************************************************************************)
(* What the dashboard process makes of the inbox file.  A task tails the   *)
(* file and inserts a row of events per line; the chat ingestor, told by a *)
(* message on Redis, reads the whole file, inserts the same rows again and *)
(* stores the messages after its cursor in the memory, by thread.          *)
(***************************************************************************)
EXTENDS Naturals, Sequences, FiniteSets

CONSTANTS
    Msgs,       \* messages of the chat
    Blank,      \* those of them without a body
    ThreadOf,   \* ThreadOf[m]: its thread, or its room
    MaxLines,   \* bound on the lines of the inbox
    MaxTime,    \* bound on the clock
    MaxStarts   \* bound on the starts of the dashboard

Times  == 0..MaxTime
Broken == "broken"   \* a line that is no JSON

ASSUME ChatFeedAssumption ==
    /\ Blank \subseteq Msgs
    /\ MaxLines \in Nat /\ MaxTime \in Nat \ {0} /\ MaxStarts \in Nat

VARIABLES
    now,        \* the clock; 0 stands for "never"
    ts,         \* ts[m]: when m was sent
    lines,      \* the messages of the lines of the inbox
    half,       \* was the last line written only in part, so far?
    feed,       \* does the dashboard process run?
    starts,     \* how often it started
    tpos,       \* lines the tail is through with
    tpart,      \* "part": it read a part of the next one; "dead": a letter cut in two
                \* ended its task
    events,     \* messages with a row in events
    sub,        \* is the ingestor subscribed at Redis?
    triggers,   \* messages of Redis it has yet to act on
    ipc,        \* where its run stands
    from,       \* the cursor as the run read it
    raw,        \* messages the run has yet to log as events
    docs,       \* messages the run has yet to store
    good,       \* did the run store a thread?
    stamp,      \* the time the run will write to the cursor
    cursor,     \* sync_state.last_synced_at of the chat
    mem,        \* messages in the memory
    failed,     \* messages with a failed insert
    refused,    \* messages of a thread with an error when it was stored
    swallowed,  \* those of a thread that counts as stored, though Mem0 failed
    torn,       \* messages of a line that was read in two parts or never finished
    skipped,    \* messages of lines a start went over
    late        \* <<m, what>>: m came into the inbox too late for a run that moved the
                \* cursor to its time or behind, as "event" or for the "memory"

clock   == <<now, ts>>
content == <<lines, half>>
tail    == <<tpos, tpart, torn, skipped>>
redis   == <<sub, triggers>>
run     == <<ipc, from, raw, docs, good, stamp>>
store   == <<events, cursor, mem, failed, refused, swallowed>>
feedVars == <<now, ts, lines, half, feed, starts, tpos, tpart, events, sub, triggers, ipc,
              from, raw, docs, good, stamp, cursor, mem, failed, refused, swallowed, torn, skipped,
              late>>

FeedTypeOK ==
    /\ now \in Times /\ ts \in [Msgs -> Times]
    /\ lines \in Seq(Msgs \cup {Broken}) /\ half \in BOOLEAN
    /\ feed \in {"up", "down"} /\ starts \in 0..MaxStarts
    /\ tpos \in 0..Len(lines) /\ tpart \in {"none", "part", "dead"}
    /\ (half => tpos < Len(lines))
    /\ sub \in {"on", "off"} /\ triggers \in Nat
    /\ ipc \in {"idle", "raw", "log", "read", "store", "save"}
    /\ from \in 0..cursor /\ cursor \in 0..now /\ stamp \in 0..now
    /\ raw \subseteq Msgs /\ docs \subseteq Msgs \ Blank /\ good \in BOOLEAN
    /\ events \subseteq Msgs /\ mem \subseteq Msgs \ Blank
    /\ failed \subseteq Msgs /\ refused \subseteq Msgs /\ swallowed \subseteq Msgs
    /\ torn \subseteq Msgs /\ skipped \subseteq Msgs
    /\ late \subseteq Msgs \X {"event", "memory"}

FeedInit ==
    /\ now = 1 /\ ts = [m \in Msgs |-> 0]
    /\ lines = <<>> /\ half = FALSE
    /\ feed = "down" /\ starts = 0 /\ tpos = 0 /\ tpart = "none"
    /\ events = {} /\ sub = "off" /\ triggers = 0
    /\ ipc = "idle" /\ from = 0 /\ raw = {} /\ docs = {} /\ good = FALSE
    /\ stamp = 0 /\ cursor = 0 /\ mem = {}
    /\ failed = {} /\ refused = {} /\ swallowed = {} /\ torn = {} /\ skipped = {} /\ late = {}

-----------------------------------------------------------------------------
(* The chat, and the listener that writes the inbox.                       *)
Tick ==
    /\ now < MaxTime
    /\ now' = now + 1
    /\ UNCHANGED <<ts, content, feed, starts, tail, redis, run, store, late>>

Send(m) ==
    /\ ts[m] = 0
    /\ ts' = [ts EXCEPT ![m] = now]
    /\ UNCHANGED <<now, content, feed, starts, tail, redis, run, store, late>>

(* What a line that is now complete comes too late for.                    *)
Misses(m) ==
    {w \in {"event", "memory"} :
        \/ ts[m] <= cursor
        \/ ipc \in {"store", "save"}
        \/ w = "event" /\ ipc \in {"log", "read"}}

Complete(m) == late' = late \cup ({m} \X Misses(m))

(* The publication after the line reaches the ingestor if it is subscribed *)
(* and Redis is there.                                                     *)
Publish == triggers' = triggers \/ (sub = "on" /\ triggers' = triggers + 1)

(* A line, whole or in two parts; with a second listener, once more.       *)
AppendLine(m) ==
    /\ ts[m] # 0 /\ ~half /\ Len(lines) < MaxLines
    /\ lines' = lines \o <<m>>
    /\ \/ half' = FALSE /\ Complete(m) /\ Publish
       \/ half' = TRUE /\ UNCHANGED <<late, triggers>>
    /\ UNCHANGED <<clock, feed, starts, tail, sub, run, store>>

AppendRest ==
    /\ half /\ half' = FALSE
    /\ Complete(lines[Len(lines)]) /\ Publish
    /\ UNCHANGED <<clock, lines, feed, starts, tail, sub, run, store>>

(* A listener stopped within a line, and the next one goes on behind it.   *)
AppendBehind(m) ==
    /\ ts[m] # 0 /\ half /\ half' = FALSE
    /\ lines' = [lines EXCEPT ![Len(lines)] = Broken]
    /\ torn' = torn \cup {m, lines[Len(lines)]}
    /\ Publish
    /\ UNCHANGED <<clock, feed, starts, tpos, tpart, skipped, sub, run, store, late>>

-----------------------------------------------------------------------------
(* The tail.                                                               *)
Tailing   == feed = "up" /\ tpart # "dead"
LastWhole == IF half THEN Len(lines) - 1 ELSE Len(lines)
MessagesAt(positions) == {lines[i] : i \in positions} \ {Broken}

(* Mutation: the end of the file is taken for the end of a line.           *)
StartFeed_AtEnd ==
    /\ feed = "down" /\ starts < MaxStarts
    /\ feed' = "up" /\ starts' = starts + 1
    /\ tpos' = Len(lines) /\ tpart' = "none"
    /\ skipped' = skipped \cup MessagesAt(tpos + 1..Len(lines))
    /\ UNCHANGED <<clock, content, torn, redis, run, store, late>>

(* tail_inbox goes to the end of the file, which may be within a line.     *)
StartFeed ==
    /\ feed = "down" /\ starts < MaxStarts
    /\ feed' = "up" /\ starts' = starts + 1
    /\ tpos' = LastWhole
    /\ tpart' = IF half THEN "part" ELSE "none"
    /\ torn' = IF half THEN torn \cup MessagesAt({Len(lines)}) ELSE torn
    /\ skipped' = skipped \cup MessagesAt(tpos + 1..LastWhole)
    /\ UNCHANGED <<clock, content, redis, run, store, late>>

StopFeed ==
    /\ feed = "up" /\ feed' = "down"
    /\ sub' = "off" /\ triggers' = 0
    /\ ipc' = "idle" /\ from' = 0 /\ raw' = {} /\ docs' = {} /\ good' = FALSE /\ stamp' = 0
    /\ UNCHANGED <<clock, content, starts, tail, store, late>>

(* readline returns what there is of a line, or raises an error when that  *)
(* ends within a letter.                                                   *)
TailPart ==
    /\ Tailing /\ half /\ tpos + 1 = Len(lines) /\ tpart = "none"
    /\ tpart' \in {"part", "dead"}
    /\ torn' = torn \cup MessagesAt({Len(lines)})
    /\ UNCHANGED <<clock, content, feed, starts, tpos, skipped, redis, run, store, late>>

TailLine ==
    LET m == lines[tpos + 1] IN
    /\ Tailing /\ tpos < LastWhole
    /\ tpos' = tpos + 1 /\ tpart' = "none"
    /\ IF tpart = "part" \/ m \in Blank \cup {Broken}
       THEN UNCHANGED <<events, failed>>
       ELSE \/ events' = events \cup {m} /\ UNCHANGED failed
            \/ failed' = failed \cup {m} /\ UNCHANGED events
    /\ UNCHANGED <<clock, content, feed, starts, torn, skipped, redis, run, cursor, mem, refused,
                   swallowed, late>>

-----------------------------------------------------------------------------
(* _redis_chat_listener: the connection.                                   *)
Subscribe ==
    /\ feed = "up" /\ sub = "off" /\ sub' = "on"
    /\ UNCHANGED <<clock, content, feed, starts, tail, triggers, run, store, late>>

Disconnect ==
    /\ sub = "on" /\ ipc = "idle"
    /\ sub' = "off" /\ triggers' = 0
    /\ UNCHANGED <<clock, content, feed, starts, tail, run, store, late>>

(* A run per message: get_last_synced, or its error.                       *)
Trigger ==
    /\ sub = "on" /\ ipc = "idle" /\ triggers > 0
    /\ triggers' = triggers - 1
    /\ \/ ipc' = "raw" /\ from' = cursor
       \/ UNCHANGED <<ipc, from>>
    /\ UNCHANGED <<clock, content, feed, starts, tail, sub, raw, docs, good, stamp, store, late>>

(* Mutation: the cursor in coarser units than the messages' times.         *)
After_Coarse(t) == {m \in MessagesAt(1..LastWhole) : ts[m] > t + 1}

(* The messages of the file after the cursor; a part of a line is none.    *)
After(t) ==
    {m \in MessagesAt(1..LastWhole) : ts[m] > t}

ReadRaw ==
    /\ ipc = "raw" /\ ipc' = "log"
    /\ raw' = After(from)
    /\ UNCHANGED <<clock, content, feed, starts, tail, redis, from, docs, good, stamp, store, late>>

(* add_event for each; an error is passed over.                            *)
LogRaw ==
    /\ ipc = "log" /\ ipc' = "read"
    /\ \E lost \in SUBSET raw :
          events' = events \cup (raw \ lost) /\ failed' = failed \cup lost
    /\ raw' = {}
    /\ UNCHANGED <<clock, content, feed, starts, tail, redis, from, docs, good, stamp,
                   cursor, mem, refused, swallowed, late>>

(* fetch_new reads the file again; an error leaves the run without docs.   *)
ReadDocs ==
    /\ ipc = "read" /\ ipc' = "store"
    /\ docs' \in {After(from) \ Blank, {}}
    /\ UNCHANGED <<clock, content, feed, starts, tail, redis, from, raw, good, stamp, store, late>>

(* A thread is stored as one memory.  add_memory catches every error of    *)
(* Mem0 and returns an empty id, so that the thread counts as ingested     *)
(* although nothing is in the memory; only an error before that call, as   *)
(* when there is no Mem0, is counted as an error.                          *)
StoreThread ==
    /\ ipc = "store"
    /\ \E m \in docs :
          LET thread == {x \in docs : ThreadOf[x] = ThreadOf[m]} IN
          /\ docs' = docs \ thread
          /\ \/ mem' = mem \cup thread /\ good' = TRUE /\ UNCHANGED <<refused, swallowed>>
             \/ swallowed' = swallowed \cup thread /\ good' = TRUE /\ UNCHANGED <<mem, refused>>
             \/ refused' = refused \cup thread /\ UNCHANGED <<mem, good, swallowed>>
    /\ UNCHANGED <<clock, content, feed, starts, tail, redis, ipc, from, raw, stamp, events,
                   cursor, failed, late>>

(* Mutation: the cursor moves after a run without a thread, too.           *)
Ingested_Always ==
    /\ ipc = "store" /\ docs = {}
    /\ ipc' = "save" /\ stamp' = now
    /\ good' = FALSE /\ from' = 0
    /\ UNCHANGED <<clock, content, feed, starts, tail, redis, raw, docs, store, late>>

(* The run ends; its result counts the threads stored.                     *)
Ingested ==
    /\ ipc = "store" /\ docs = {}
    /\ ipc' = IF good THEN "save" ELSE "idle"
    /\ stamp' = IF good THEN now ELSE 0
    /\ good' = FALSE /\ from' = 0
    /\ UNCHANGED <<clock, content, feed, starts, tail, redis, raw, docs, store, late>>

(* update_synced, or its failure.                                          *)
SaveCursor ==
    /\ ipc = "save" /\ ipc' = "idle"
    /\ cursor' \in {cursor, stamp} /\ stamp' = 0
    /\ UNCHANGED <<clock, content, feed, starts, tail, redis, from, raw, docs, good, events, mem,
                   failed, refused, swallowed, late>>

-----------------------------------------------------------------------------
Task == TailPart \/ TailLine
Run  == Trigger \/ ReadRaw \/ LogRaw \/ ReadDocs \/ StoreThread \/ Ingested \/ SaveCursor

FeedNext ==
    \/ Tick \/ AppendRest \/ StartFeed \/ StopFeed \/ Subscribe \/ Disconnect
    \/ \E m \in Msgs : Send(m) \/ AppendLine(m) \/ AppendBehind(m)
    \/ Task \/ Run

FeedSpec == FeedInit /\ [][FeedNext]_feedVars

-----------------------------------------------------------------------------
Inbox      == MessagesAt(1..LastWhole)
Ahead      == IF Tailing THEN MessagesAt(tpos + 1..LastWhole) ELSE {}
Overlooked == skipped \cup (IF Tailing THEN {} ELSE MessagesAt(tpos + 1..LastWhole))
LateFor(what) == {m \in Msgs : <<m, what>> \in late}

(* A message in the inbox has its row in events, or one of the two readers *)
(* will still come to it: the tail, or the next run of the ingestor, which *)
(* starts at the cursor.  Lost are only messages whose insert failed or    *)
(* whose line was torn, and those both readers missed: the tail was down   *)
(* or went over them at its start, and the line came too late for the run  *)
(* that moved the cursor past them.                                        *)
EventOrPending ==
    \A m \in Inbox \ Blank :
        \/ m \in events \cup Ahead \cup raw \cup failed \cup torn
        \/ m \in Overlooked /\ m \in LateFor("event")
        \/ ts[m] > cursor

(* A message in the inbox is in the memory, or after the cursor, where the *)
(* next run will find it, unless its thread was refused, its failed store  *)
(* was swallowed and counted as done, or it came between the reading of    *)
(* the file and the moving of the cursor.                                  *)
MemoryOrPending ==
    \A m \in Inbox \ Blank :
        \/ m \in mem \cup refused \cup swallowed \cup LateFor("memory")
        \/ ts[m] > cursor
=============================================================================
