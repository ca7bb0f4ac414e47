----------------------------- MODULE Ingestion ------------------------------
(***************************************************************************)
(* The sync of one polled source (Jira, Confluence) into the memory: the   *)
(* loop of the scheduler and runs by hand (run_once) read the cursor from  *)
(* sync_state, fetch the items changed since, store them one by one, and   *)
(* move the cursor to the time at which they are done.                     *)
(***************************************************************************)
EXTENDS Naturals, FiniteSets

CONSTANTS
    Sources,    \* "jira", "confluence"
    Items,      \* issues or pages of the source
    Loop,       \* the poll loop
    Onces,      \* runs by hand
    Floor,      \* Floor[t]: how a query of Jira writes t: to the minute
    Limit,      \* items in one answer: _DEFAULT_LIMIT of Confluence, a page of the jira CLI
    Week,       \* how far back the fallback query of Jira looks
    MaxTime,    \* bound on the clock
    MaxLives    \* bound on the restarts

Runs == {Loop} \cup Onces
Times == 0..MaxTime

ASSUME IngestionAssumption ==
    /\ Loop \notin Onces
    /\ MaxTime \in Nat /\ MaxLives \in Nat /\ Week \in Nat
    /\ Floor \in [Times -> Times] /\ \A t \in Times : Floor[t] <= t
    /\ Sources \subseteq {"jira", "confluence"} /\ Limit \in Nat \ {0}

VARIABLES
    source,     \* the source; it does not change
    now,        \* the clock; 0 stands for "never"
    changed,    \* changed[x]: when x was last changed, 0: there is no x yet
    stored,     \* items whose present version is in the memory
    refused,    \* items whose present version was not stored for an error, raised by the
                \* ingestor or swallowed by add_memory
    passed,     \* items whose present version the cursor may pass: they changed between a
                \* fetch and its save, or were not in the answer that moves the cursor
    cursor,     \* sync_state.last_synced_at
    pc,         \* where a run stands
    since,      \* since[r]: the cursor as r read it
    docs,       \* docs[r]: items, with their versions, that r has yet to store
    total,      \* total[r]: did the fetch return anything? (result.total > 0)
    stamp,      \* stamp[r]: the time r will write to the cursor
    lives       \* how often the process started

run  == <<since, docs, total, stamp>>
mem  == <<stored, refused>>
vars == <<source, now, changed, stored, refused, passed, cursor, pc, since, docs, total, stamp, lives>>

Existing == {x \in Items : changed[x] # 0}
Unstored == Existing \ (stored \cup refused)

TypeOK ==
    /\ source \in Sources /\ passed \subseteq Items
    /\ now \in Times
    /\ changed \in [Items -> Times] /\ \A x \in Items : changed[x] <= now
    /\ stored \subseteq Existing /\ refused \subseteq Existing
    /\ cursor \in Times /\ cursor <= now
    /\ pc \in [Runs -> {"idle", "fetch", "store", "save", "done"}]
    /\ since \in [Runs -> Times] /\ \A r \in Runs : since[r] <= now
    /\ docs \in [Runs -> SUBSET (Items \X (Times \ {0}))]
    /\ total \in [Runs -> {"none", "some"}]
    /\ stamp \in [Runs -> Times] /\ \A r \in Runs : stamp[r] <= now
    /\ lives \in Nat

Init ==
    /\ source \in Sources
    /\ now = 0
    /\ changed = [x \in Items |-> 0]
    /\ stored = {} /\ refused = {} /\ passed = {}
    /\ cursor = 0
    /\ pc = [r \in Runs |-> "idle"]
    /\ since = [r \in Runs |-> 0]
    /\ docs = [r \in Runs |-> {}]
    /\ total = [r \in Runs |-> "none"]
    /\ stamp = [r \in Runs |-> 0]
    /\ lives = 1

-----------------------------------------------------------------------------
(* The clock and the source.                                               *)
Tick ==
    /\ now < MaxTime
    /\ now' = now + 1
    /\ UNCHANGED <<source, changed, mem, passed, cursor, pc, run, lives>>

(* A run that has asked the source will not see the change.                *)
Change(x) ==
    /\ changed[x] < now
    /\ changed' = [changed EXCEPT ![x] = now]
    /\ stored' = stored \ {x} /\ refused' = refused \ {x}
    /\ passed' = IF \E r \in Runs : pc[r] \in {"store", "save"}
                 THEN passed \cup {x} ELSE passed \ {x}
    /\ UNCHANGED <<source, now, cursor, pc, run, lives>>

-----------------------------------------------------------------------------
(* A run of the loop or by hand.                                           *)

(* get_last_synced.                                                        *)
Begin(r) ==
    /\ pc[r] = "idle"
    /\ pc' = [pc EXCEPT ![r] = "fetch"]
    /\ since' = [since EXCEPT ![r] = cursor]
    /\ UNCHANGED <<source, now, changed, mem, passed, cursor, docs, total, stamp, lives>>

(* A time as the query writes it.                                          *)
Cut(t) == IF source = "jira" THEN Floor[t] ELSE t

(* Mutation: changes at the very time of the cursor count as known.        *)
New_Strict(r, items) == {x \in items : since[r] = 0 \/ changed[x] > Cut(since[r])}

(* What changed since the cursor: the filter of Jira's query, and the one  *)
(* that follows Confluence's.                                              *)
New(r, items) == {x \in items : changed[x] >= Cut(since[r])}

(* updated >= "-7d"; open sprints, in the query without a cursor, are      *)
(* left out.                                                               *)
Recent == {x \in Existing : changed[x] + Week >= now}

(* What the first query looks at.                                          *)
Asked(r) == IF source = "confluence" THEN Existing
            ELSE IF since[r] = 0 THEN Recent ELSE New(r, Existing)

(* A bounded page of the items, the latest ones in the case of Confluence; *)
(* which ones the jira CLI lists is up to it.                              *)
Answer(items, page) ==
    /\ page \subseteq items
    /\ Cardinality(page) <= Limit /\ (page # items => Cardinality(page) = Limit)
    /\ source = "confluence" => \A x \in page, y \in items \ page : changed[x] >= changed[y]

(* The run goes on with what it found in an answer.  The items that its    *)
(* cursor should have brought and that the answer does not hold are passed *)
(* (beyond the page or the week, or there was no answer at all), unless    *)
(* the loop found nothing: then its cursor stays.                          *)
Take(r, answer, found) ==
    /\ pc' = [pc EXCEPT ![r] = "store"]
    /\ docs' = [docs EXCEPT ![r] = {<<x, changed[x]>> : x \in found}]
    /\ total' = [total EXCEPT ![r] = IF found = {} THEN "none" ELSE "some"]
    /\ since' = [since EXCEPT ![r] = 0]
    /\ passed' = IF r = Loop /\ found = {} THEN passed
                 ELSE passed \cup {x \in Unstored \ answer : changed[x] >= Cut(since[r])}
    /\ UNCHANGED <<source, now, changed, mem, cursor, stamp, lives>>

(* The first query answers, with something new ...                         *)
Listed(r) ==
    \E page \in SUBSET Existing :
        /\ Answer(Asked(r), page) /\ New(r, page) # {}
        /\ Take(r, page, New(r, page))

NothingNew(r) == \E page \in SUBSET Existing : Answer(Asked(r), page) /\ New(r, page) = {}

(* ... or the fallback does: Jira's query of a week, the command line of   *)
(* Confluence, which lists all pages.                                      *)
FellBack(r) ==
    \E page \in SUBSET Existing :
        /\ IF source = "jira" THEN Answer(Recent, page) ELSE page = Existing
        /\ Take(r, page, page)

Answered(r) == pc[r] = "fetch" /\ (Listed(r) \/ (NothingNew(r) /\ FellBack(r)))

(* fetch_new: a query that fails is like one that finds nothing.           *)
Fetch(r) ==
    /\ pc[r] = "fetch"
    /\ Answered(r) \/ FellBack(r) \/ Take(r, {}, {})

(* The loop of ingest over the documents: an error costs the document.     *)
Store(r) ==
    /\ pc[r] = "store"
    /\ \E d \in docs[r] :
          LET present == IF changed[d[1]] = d[2] THEN {d[1]} ELSE {} IN
          /\ docs' = [docs EXCEPT ![r] = @ \ {d}]
          /\ \/ stored' = stored \cup present /\ UNCHANGED refused
             \/ refused' = refused \cup present /\ UNCHANGED stored
    /\ UNCHANGED <<source, now, changed, passed, cursor, pc, since, total, stamp, lives>>

(* Mutation: the cursor moves after every run of the loop.                 *)
Moves_Always(r) == TRUE

(* Does the cursor move after the run?                                     *)
Moves(r) == r \in Onces \/ total[r] = "some"

After(r) == IF r = Loop THEN "idle" ELSE "done"

(* Mutation: the stamp is not of the clock the source uses.                *)
Ingested_Ahead(r) ==
    /\ pc[r] = "store" /\ docs[r] = {}
    /\ pc' = [pc EXCEPT ![r] = IF Moves(r) THEN "save" ELSE After(r)]
    /\ stamp' = [stamp EXCEPT ![r] = now + 1]
    /\ total' = [total EXCEPT ![r] = "none"]
    /\ UNCHANGED <<source, now, changed, mem, passed, cursor, since, docs, lives>>

(* datetime.now(), before the await of update_synced.                      *)
Ingested(r) ==
    /\ pc[r] = "store" /\ docs[r] = {}
    /\ pc' = [pc EXCEPT ![r] = IF Moves(r) THEN "save" ELSE After(r)]
    /\ stamp' = [stamp EXCEPT ![r] = IF Moves(r) THEN now ELSE 0]
    /\ total' = [total EXCEPT ![r] = "none"]
    /\ UNCHANGED <<source, now, changed, mem, passed, cursor, since, docs, lives>>

(* update_synced, or its failure.                                          *)
Save(r) ==
    /\ pc[r] = "save"
    /\ pc' = [pc EXCEPT ![r] = After(r)]
    /\ cursor' \in {cursor, stamp[r]}
    /\ stamp' = [stamp EXCEPT ![r] = 0]
    /\ UNCHANGED <<source, now, changed, mem, passed, since, docs, total, lives>>

(* The process stops and starts again: runs under way are forgotten.       *)
Restart ==
    /\ lives < MaxLives
    /\ lives' = lives + 1
    /\ pc' = [r \in Runs |-> IF r # Loop /\ pc[r] # "idle" THEN "done" ELSE "idle"]
    /\ since' = [r \in Runs |-> 0] /\ docs' = [r \in Runs |-> {}]
    /\ total' = [r \in Runs |-> "none"] /\ stamp' = [r \in Runs |-> 0]
    /\ UNCHANGED <<source, now, changed, mem, passed, cursor>>

-----------------------------------------------------------------------------
Work(r) == Begin(r) \/ Fetch(r) \/ Store(r) \/ Ingested(r) \/ Save(r)

Next ==
    \/ Tick
    \/ \E x \in Items : Change(x)
    \/ \E r \in Runs : Work(r)
    \/ Restart

Spec == Init /\ [][Next]_vars

(* The loop sleeps for a fixed time and its awaits end; the source answers *)
(* again and again.                                                        *)
FairSpec == Spec /\ WF_vars(Work(Loop)) /\ SF_vars(Answered(Loop))

-----------------------------------------------------------------------------
(* Whatever lies before the cursor, as the next query will write it, is in *)
(* the memory, unless it was refused: after a failed query of the loop, a  *)
(* failed save, a crash in the middle of the documents, and beside runs by *)
(* hand.  The code loses more than that, and the exceptions name it: items *)
(* that changed while a run was between its fetch and its save, and items  *)
(* that an answer did not bring and whose run moves the cursor all the     *)
(* same: beyond its page, older than the week of the fallback, or because  *)
(* no query of a run by hand was answered.                                 *)
NothingLost == \A x \in Unstored \ passed : changed[x] >= Cut(cursor)

(* What the first sync of Jira does not ask for: it looks back a week, and *)
(* as long as it finds nothing there the cursor stays unset.               *)
TooOld == IF source = "jira" /\ cursor = 0 THEN Existing \ Recent ELSE {}

Due == Unstored \ (passed \cup TooOld)

(* Every change of an item is stored or refused in the end, or replaced by *)
(* a later change of it, or passed by the cursor, or too old for the first *)
(* sync.                                                                   *)
EventuallyStored == \A x \in Items : (x \in Due) ~> (x \notin Due)
=============================================================================
