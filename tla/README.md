# openkhang in TLA+

openkhang is a digital twin of one employee: it reads the chat rooms, tickets
and code the owner reads, answers colleagues in the owner's name, and hands
every answer it is not sure of to the owner for review. This directory holds a
model of its control: TLA+ modules, configurations that check them with TLC on
small instances, and theorems, checked by TLAPS, for every instance.

Paths below are relative to `src/` or, where they begin with the name of a package
(`agent/`, `dashboard/`, ...), to `src/services/`; `tla/PROJECT.json` maps each definition to
the lines it stands for, and lists the components, runs, hazards and findings.

## 1. The system

```
 Matrix ──► matrix-listener ──► inbox.jsonl ──► InboxRelay ──► events (PostgreSQL)
                                   │                                │ poll, debounce
                                   ▼                                ▼
                         ingestion/chat ──► memory          run_agent_relay
                                               ▲                    │ batch
 Jira, GitLab, Confluence, git ──► scheduler ──┘                    ▼
                                               └──────────► AgentPipeline
                                                            │       │       │
                                                     workflows   draft_replies   MatrixSender
                                                                    ▲               ▲
                        dashboard, manage_draft tool, Telegram ─────┴── approve ────┘
```

Everything in the middle runs in one asyncio process (`services/dashboard/app.py`)
on one connection pool. There are no threads that share state: what interleaves
are tasks, at their `await`s, and what they share is the database, the memory of
the process and the room itself.

| component | state it keeps | operations | hard behaviour |
|---|---|---|---|
| draft queue and review handlers (`agent/draft_queue.py`, `dashboard/dashboard_services.py`, `agent/tools/manage_draft_tool.py`, `telegram/bot.py`, `telegram/draft_callbacks.py`) | rows of `draft_replies`; Telegram's edit mode of a chat | add, approve, reject, edit over three channels; send to the room | verdicts of two channels race; the text is read before the UPDATE; a long text goes out in parts; the process stops between verdict and send |
| agent relay (`dashboard/agent_relay.py`) | cursor, set of handled ids, buffers and deadlines per key | poll, collect, hand over, stop | ties and a LIMIT at the cursor; two writers; the id set at its bound; every message postpones the deadline; one batch raises; restart |
| reply pipeline, outward skill, sender, confidence (`agent/pipeline.py`, `agent/skills/outward_reply_skill.py`, `agent/matrix_sender.py`, `agent/confidence.py`) | the sender's send times (in memory), events of source `agent`, drafts | classify, look up, compose, score, send or draft, log | check-then-act on the rate limit; a PUT whose answer is lost; an error at any await; restart forgets the times |
| workflow engine (`workflow/workflow_engine.py`, `state_machine.py`, `action_executor.py`) | cached instances, rows of `workflow_instances`, `audit_log` | handle an event, drive, pause at tier 3, resume | cycles and retries; a pause is re-entered; one flag for the success of all actions; save only at the end |
| ingestion scheduler and sync state (`ingestion/scheduler.py`, `sync_state.py`, `jira.py`, `confluence.py`, `gitlab.py`) | `sync_state.last_synced_at`, the memory | poll loop, run by hand, query, store, save the cursor | time of the cursor against time of the query; failed queries look empty; times cut to the minute |
| chat ingestion (`ingestion/chat.py`, `scheduler.py`) | cursor of inbox times | read the file twice, log, store by thread, save | what arrives during a run; a thread that fails |
| code ingestion (`ingestion/code.py`) | a file with a commit per project | diff, read, save the commit, store afterwards | a stop between commit and storing; amended commits; git that does not answer |
| matrix listener (`scripts/matrix-listener.py`) | since token, inbox file | sync, save the token, append | a crash between token and append; a gap in a timeline |
| inbox relay, SSE (`dashboard/inbox_relay.py`) | position in the file | tail, insert into `events` | lines read in part; failed inserts |
| Telegram bot and notifier (`telegram/`) | edit mode of a chat, backoff of the connection | callbacks, texts, forwarding of events | callbacks race other channels; events while disconnected |
| SDK agent runner, twin chat, inward skills (`agent/sdk_agent_runner.py`, `dashboard/twin_chat.py`, `agent/skills/send_as_owner_skill.py`) | client and last result per session, history of a chat | ask, query, time out, fall back, write to somebody | a late answer of a timed-out query; a broken client; a room looked up twice, request by request |
| agent tools (`agent/tools/`) | none of their own | called by the model | `manage_draft` is a channel of the review |
| memory (`memory/`) | events, Mem0, Redis | add, search | external services |
| chunker (`ingestion/chunker.py`, `ingestion/code.py`) | none | cut a text | boundaries, last pieces, long declarations |
| router, classifier, context, LLM client (`agent/llm_router.py`, `classifier.py`, `context_strategy.py`, `llm_client.py`) | none | decide who answers and with what evidence | no answer, answers that cannot be read |
| prompts; health checker, trace collector; seed and setup scripts | none that another part relies on | | text; observation; run once by hand |

What makes each of them correct:

- **Review.** One verdict per draft takes effect; what the room receives is the
  text the table says was reviewed; nothing goes out before a verdict; "sent"
  is said only of what was delivered; every call ends.
- **Relay.** Each message that is not ignored is handed over, in the order of its
  room and sender; only rows whose id was forgotten are handed over twice, and only
  rows that another writer overtook are passed over.
- **Reply.** No automatic reply to a room the agent never dealt with, if the model
  keeps to confidences of up to 1.0; no more than the limit in a minute; the
  outcome that is logged is the one that happened; a batch ends.
- **Workflow.** A drive that came to a gate waits, its instance paused, until
  somebody resumes it; the notice of a ticket goes out only if there is a ticket;
  an ended instance stays ended; a drive ends.
- **Ingestion.** What lies before the cursor is in the memory in its current
  form; every change arrives in the end. The same for the commits of a project.
- **Chat feed.** A message gets into the inbox once, those of a room in order; from
  there it gets its row and its place in the memory, or a reader will still come to it.
- **Twin chat.** A question gets the answer to itself, and a message in the owner's
  name goes to the room it was written for, unless that room changed meanwhile.
- **Chunks.** The cutting loses nothing but short prefixes and repeats nothing. A
  piece fits unless it is of a kind the code does not cut (sections, the head of a
  file, methods, the head of a class); one of lines fits but for its last line.

Everything else the code lets go of (an error between token and inbox, a file that
cannot be read) is named in the property that would otherwise be false of it: a
property says what is lost, and that nothing else is.

## 2. Modules

| module | models | abstraction |
|---|---|---|
| `DraftLifecycle` | what the queue promises | a row, and what the room got: review, then delivery of the reviewed text |
| `DraftReview` | the review handlers, every channel | a text is `none`, `short` or `long` (sent in parts); a handler is a call with a control state, one action per stretch between two awaits |
| `DraftReviewProofs` | theorems | |
| `AgentRelay` | `run_agent_relay`, and the writers of `events` | a message is a name with a key (room and sender); two clocks in ticks; debounce in ticks |
| `AgentRelayProofs` | theorems | |
| `Confidence` | `ConfidenceScorer.score` | hundredths; a context is a set of signals |
| `Routing` | `LLMRouter.route`, `Classifier`, `SkillRegistry.match` | a text is the set of expressions that match it; the model's answer is chosen |
| `Inbound` | `MatrixChannelAdapter.normalize_inbound`, `detect_mention` | a text is the set of the owner's names in it |
| `ReplyEvidence` | `ContextStrategy`, the reading of the answer in `LLMClient` | memories are counted, an answer is readable with whatever number for its confidence, silent on it, or garbled |
| `OutwardReply` | `AgentPipeline` with the outward skill, `MatrixSender` | what the model answers is chosen; a batch is a name with a room and its traits; extends the four modules above it |
| `OutwardReplyProofs` | theorems | |
| `Workflow` | `WorkflowEngine`, `StateMachine`, `ActionExecutor` | a definition is a record of states; an action succeeds, fails or raises |
| `WorkflowProofs` | theorems | |
| `Ingestion` | the loop of one source, `run_once`, `sync_state`, the queries of Jira and Confluence | an item has a version and the time of its change; a document is stored or refused |
| `IngestionProofs` | theorems | |
| `TwinChat` | `ask_twin`, inward skills, `SDKAgentRunner`, `find_room_by_person` | a question, a client and its answer are one name; extends `Routing` |
| `TwinChatProofs` | theorems | |
| `MatrixListener` | `sync_loop` of `matrix-listener.py` | events are numbered as Matrix tells them; a token is such a number |
| `ChatFeed` | `tail_inbox`, `_redis_chat_listener`, `ChatIngestor` | a line is the message on it, whole or half |
| `InboxProofs` | theorems about the two modules above | |
| `CodeSync` | `_code_poll_loop`, `ingest_incremental`, git | a commit is a tree of versions; a file is a name |
| `Chunking` | `chunker.py`, the chunking of `code.py` | a text is a sequence of characters: plain, blank, ends of sentences, and those that begin a declaration or a method |
| `CodeIngestorProofs` | theorems about the two modules above | |

`MCx` gives the constants of `x` their values for TLC. The composition of the
parts is by their interfaces: `AgentRelay` hands over the batches that are the
`Batches` of `OutwardReply`; `OutwardReply`'s `Queue` is `DraftReview`'s `AddDraft`;
`Workflow`'s `Handle` is called by the relay for each event; `MatrixListener`'s
inbox is the file whose lines `ChatFeed` reads, whose inserts are `AgentRelay`'s
`Insert`; a batch that `OutwardReply` ends as `inward` is a relayed question of
`TwinChat`. They are checked one by one, since their product is out
of TLC's reach: what one hands to the next is what the next takes as its input,
in any order and at any time. `DraftReview`
is shown to implement `DraftLifecycle` by `INSTANCE ... WITH`, the abstract
outbox being read from what the room received.

### State and actions against the code

*DraftReview.* `row` is the table `draft_replies`; `req[r]` is a call of a handler:
where it stands, and the draft, the text and the part of it that it remembers;
`room` is what the Matrix room received, by whom; `editing` is the edit mode of
the one Telegram chat (`_pending_edits`). An action carries the name of its
handler and of the statement it ends at: `DashboardApprove` reads the row,
`DashboardApproveUpdate` is the UPDATE that asks for `status = 'pending'`,
`SendPart` one PUT with its three outcomes (delivered, refused, delivered with
the answer lost); `TelegramApproveSelect` and `TelegramApproveUpdate` are two
actions because the callback awaits between them; `TelegramText` is the message
that may be meant as an edit. `DatabaseError` is any statement that raises.
`Restart` ends every call and the edit mode; the rows stay.

*AgentRelay.* `clock`, `stamp` and `visible` are the table `events` with the times
of its rows and what is committed; the rest is the loop's. `Fetch` is the
SELECT with its cursor and LIMIT, `Collect` the turn of the loop for one row
(skip, remember the id, buffer, new deadline), `SelectReady` the choice of the
due keys, `Take` and `Finish` the hand-over of one batch and its return, `Raise`
an exception in it, `EndPoll` the sleep. `Insert` and `Commit` are the writers
of `events`: two at a time, since `dashboard/app.py:88` starts the tail of the inbox
and `:103` the scheduler, whose chat source inserts the same messages on a
connection of its own (`ingestion/chat.py:187`). `Stop` and `Start` are a restart,
after which the cursor is the present. `handed[k]` records what `_process_event`
was given; `overtaken` the rows that were committed after a row of a later time,
`forgotten` those that had the time of the cursor when the full id set was cleared.

*OutwardReply.* `stage[b]` follows one batch through `process_event`: `Begin`,
`Route`, `Lookup` of the room's history, `Compose` with the score and the choice,
`Put`, `Answer`, `Queue`, `Log`; `Fail` is an exception at any await. `recorded` is
the sender's `_send_times`, lost at `Restart`; `sent` is what the room has seen;
`draft` and `logged` are the tables. `Toggle` is the owner's switch of the reply
mode. `Errand` is what the inward branch sends by the same sender: a message in the
owner's name, or a draft the owner approves in a query; `Target` is the room of
either. `excessive` has the batches whose reply was to be sent to an unknown room
at a reported confidence above 1.0. Verdicts on drafts are `DraftReview`'s.

*Workflow.* `Handle` starts an instance, `Resume` approves one, `Execute` runs one
action of the current state, `Audit` inserts its entry, `Turn` looks for the
first transition that holds, `Save` writes the row. `object[c]` is the
`WorkflowInstance` a call created or loaded, `cache` says whose object
`_instances` holds, `row` is `workflow_instances`; `log` records what was done.
`held` has the drives that came to a gate and whose instance nobody has resumed
since, `crossed` the instances that were resumed in the middle of a drive.

*Ingestion.* `Begin`, `Fetch`, `Store`, `Ingested`, `Save` are one run; the loop and a
run by hand are two of them over one row of `sync_state` (`cursor`). `Fetch` is
`fetch_new`: the first query brings something new (`Listed`), or the fallback
answers (`FellBack`), or neither does; `Answer` is a page of what a query asked for,
`Take` what the run keeps of it. `Change` is a user of the source, `Restart` ends
the runs. `stored` and `refused` are the items whose present version is in the
memory, or was not put there for an error, raised by the ingestor or swallowed by
`add_memory`; `passed` are those the cursor may pass: they changed between a fetch
and its save, or were not in the answer of a run that moves the cursor.

*TwinChat.* `pc[q]` follows one question: `Ask`, `Connect` (`ask_twin` builds a
pipeline), `Route`; then either `Session`, `Connected`, `Query`, `Read`, `Collect` of
`SDKAgentRunner`, with `TimeOut`, `Break` and `DirectAnswer` for its failures, or
`Enrich`, `Compose`, `Deliver` of `SendAsOwnerSkill`; then `Close`. `LookUp` is one
request of `find_room_by_person`, which is called before `Enrich` and again before
`Deliver`: what a room is to the name may be different at each request. `sessions` is
`_sessions` of each runner, `pipe[c]` the answers that wait to be read from a
client, `last[c]` its `_last_result_text`. `Idle` is the half hour after which
`_cleanup_stale_sessions` lets a session go.

*MatrixListener.* `token` is the file, `since` the variable. `Sync` is an answer of
the long poll, which empties the token file, `SaveToken` fills it,
`AppendToInbox` writes the messages, room by room, `AutoJoin` follows the invitations;
`SyncError` is an exception, `Stop` a stop anywhere, both with a part of the
messages written. `Say` and `Missed` are the chat. `passed` collects what is let
go of, action by action.

*ChatFeed.* `tpos` and `tpart` are the position of the tail, `cursor` the row of
`sync_state` for the chat. `TailLine` and `TailPart` are a turn of the tail;
`Trigger`, `ReadRaw`, `LogRaw`, `ReadDocs`, `StoreThread`, `Ingested`, `SaveCursor`
a run of the ingestor between two awaits. `AppendLine`, `AppendRest` and
`AppendBehind` write a line whole, in two parts, or behind a part that was never
finished. `failed`, `refused`, `swallowed`, `torn`, `skipped` and `late` are the losses by kind:
`swallowed` has the threads whose store failed inside `add_memory`, which catches
every error (`memory/client.py:98`), so that they count as stored.

*CodeSync.* `Begin`, `DiffCommits`, `DiffWork`, `ReadFiles`, `SaveHead` go through the
projects, `StoreFile` and `EndPoll` store what was read; `GitFails` passes a project
over, `Abandon` ends a poll anywhere. `saved` is `code-sync-<name>.txt`. `Edit`,
`Delete`, `Restore`, `Commit`, `Amend`, `Collect` are the developers and git's
clean-up, `IndexFile` is `seed-code.py`. `lost` has what the code does not come
back to, again action by action.

*Chunking.* Each action cuts one piece (or all pieces of one declaration) off the
front of a text, as one turn of the loops in the code does. Lengths are in characters,
the label in front of a stored piece not counted.

## 3. Runs

Every property of a passing run is broken by a plausible bug in a definition the
model translates (`mutants` in `PROJECT.json`), so none holds by its shape.

| run | question | bounds |
|---|---|---|
| `draft_review_atomic` | do the dashboard and the tool, whose UPDATEs ask for the status, give at most one sender per draft (`OneSender`), the reviewed text (`DeliveredIsReviewed`), and implement `DraftLifecycle`? yes | 2 drafts, 3 concurrent calls, an empty text, one of 1 part, one of 2 |
| `draft_review_channels` | what is left with Telegram: `SentMeansDelivered`, `NothingBeforeVerdict`, and every call ends (`CallsEnd`) | 1 draft, 3 calls, all channels |
| `draft_review_telegram` | is a rejected draft never sent (`RejectedNotSent`)? **violated** | 1 draft, 2 calls |
| `agent_relay` | is each message handed over once (`HandedOnce`), in order (`InOrder`), none passed over (`NonePassedOver`), each in the end (`EventuallyHanded`)? yes, but for rows that were forgotten with the id set (`HandedOnce`) or overtaken by another writer | 4 rows, one of them ignored, 2 keys, 2 writers, LIMIT 3, an id set of 3, debounce 2, 4 ticks, any number of restarts |
| `outward_reply` | rate limit (`RateLimited`), caution with unknown rooms up to a confidence of 1.0 (`StrangersDrafted`) and with answers that cannot be read (`SalvagedDrafted`), truth of the outcome (`OutcomeIsTrue`), end of a batch (`BatchEnds`): they hold | 3 batches in one room, one taken for a group's and one of a titled sender, confidences -1.0, 0, 0.5, 0.9, 1.0 and 5.0, threshold 75, errands at any time, limit of 1 in 2 ticks, 3 ticks, 2 lives |
| `workflow` | what came to tier 3 waits for a resume (`HeldAtTierThree`), no notice without a ticket (`NoticeAfterTicket`) and what ended stays so (`FinishedIsFinal`) unless drives overlap, a drive ends (`DrivesEnd`): they hold | `config/workflows/chat-to-jira.yaml` as shipped, and a definition with a retry cycle, a gate and a missing state; 2 approvals, also in the middle of a drive, failing statements, 3 transitions |
| `ingestion` | nothing before the cursor is lost (`NothingLost`), every change arrives (`EventuallyStored`), but for `passed` and `refused`: they hold | the loop and one run by hand, the queries of both of which may fail, 2 items, 3 ticks, a minute of 2, a week of 1, one item to an answer, 2 lives |
| `twin_chat` | own answers (`AnswersOwn`), own rooms (`SentWhereRead`): they hold, with the exceptions the properties name | one question by Telegram and three events of the relay, one of them a wish to write to somebody, on 2 runners; 2 rooms, each of which is no match, a match or a better one, anew at each request |
| `matrix_listener` | is a message in the inbox once and in the order of its room (`InOrderOnce`), is what lies behind the token there or let go of (`NothingSkipped`), does every message arrive (`EventuallyCollected`)? yes | 7 events of 3 rooms, one entered by invitation and one with mentions only, 2 messages of a room to an answer, 3 lives |
| `chat_feed` | has every message its row (`EventOrPending`) and its place in the memory (`MemoryOrPending`), or a reader that comes to it? yes, with the losses the properties name | 2 messages of 2 threads, 2 lines, whole, half or torn, stores that raise or fail in silence, 3 ticks, 2 lives |
| `code_sync` | is what HEAD holds indexed, or found by the next poll (`IndexedOrPending`)? yes, with the losses the property names | a project of 3 commits, amended and collected, and one that stands still; a look back of 1 commit |
| `chunking` | is every character in one piece (`EachOnce`), does a piece fit (`Fits`), is a text cut to its end (`CutToTheEnd`)? yes, but for the pieces the code does not cut and the last line of a piece of lines | every text of up to 5 characters of 5 kinds, all 5 strategies, pieces of 2, prefixes of 1 |

### Finding

*Telegram overwrites verdicts.* `cb_approve`, `cb_reject` and `handle_edit_text`
update with `WHERE id = $1` only (`services/telegram/draft_callbacks.py:55`, `:83`,
`:230`), after a status read an await or two earlier. A row can end rejected
though its text went out, or be sent once per approver.

### Also seen

Met in the model or on the way to it. The properties except by name those they
would be false of; no run stands for them.

- *Relay.* The id set is cleared together with the id just added
  (`dashboard/agent_relay.py:156`), and the cursor is inclusive: the next poll
  returns that row as new. The tail of the inbox and the chat ingestor insert on two
  connections: a row may become visible behind the cursor, and is never handed over.
  `LIMIT` rows with one time would stop the cursor, but times
  count microseconds. The workflows run after replies that were sent or failed,
  too, so that `send_chat_draft` may add a draft beside them (`:289`).
- *Reply.* `has_room_history` accepts any event of the agent, drafts and skips
  included (`memory/episodic.py:191`; its docstring says "has ever sent a reply").
  A title lowers the score by 0.30 before it is clipped
  (`agent/confidence.py:124`), which bonuses outweigh. The times of the sends are
  in memory: a restart forgets them. An error is logged and nobody is told. The
  confidence the model reports is not clamped (`agent/llm_client.py:347`): 5 or 95
  outweighs the penalty of -0.90, and an unknown room is answered. Where router and
  expressions disagree about the intent, an answer that cannot be read may score 0.80 in a direct room (`agent/skills/outward_reply_skill.py:46`).
  Without a number of members every named room is taken for a group. Of a batch
  only the last message's `formatted_body` is looked at. The patterns of the
  owner's names are read once; without `persona.yaml` names do not count.
- *Workflow.* `_drive` says it persists after each transition and does so once, at
  the end (`workflow/workflow_engine.py:249`): the audit entries of a first drive
  refer to a row that is not there yet and fail (`:286`), and a crash forgets the
  instance. An approval never gets a workflow past its gate: `resume` ("after human
  approval", `:156`; `docs/system-architecture.md:95`: "must be manually approved")
  drives the paused state again from its first action, to the same action of tier 3
  (the invariant `StaysAtGate` of `WorkflowProofs`). `resume` has no caller. Two drives
  that overlap may share one object and set `last_action_success` for each other.
- *Ingestion.* `add_memory` catches every error of Mem0 and returns an empty id
  (`memory/client.py:98`): what failed counts as ingested, and the cursor moves. The
  first sync of Jira looks back a week, and as long as it finds nothing there the
  cursor stays unset: what is older is never fetched. The jira CLI lists one page.
  The cursor is the time after storing (`ingestion/scheduler.py:167`),
  not that of the query. `run_once` moves it even after a failed query. A document
  that raises is not tried again before its next change. Every poll of a quiet
  project stores its tickets of a week again. Without Redis the chat source does
  not go on to poll. Merge requests of two projects with one number collide
  (`ingestion/gitlab.py:129`).
- *Chat.* A half line that ends within a letter ends the tail. A stop while the
  token is written empties the file, and the next start lets go of what was said
  before it. `own_puppet` is not defined where `sync_loop` uses it
  (`scripts/matrix-listener.py:335`). An invitation that cannot be followed is not
  tried again. The stream of the dashboard reads the last ten events, whatever
  came in between.
- *Twin chat.* A question of the dashboard never continues an SDK session, since
  its pipeline is built anew. A client that timed out keeps the late answer and
  gives it to the next question of its session. The client of a query that broke,
  and that of a question of the dashboard, stays connected. The two lookups of a room do
  not compare their results: a direct room that somebody joined (`room_lookup.py:118`)
  or a new name between them sends the message elsewhere.
- *Code.* The commit is saved before the files are stored. What git answers for a
  commit it does not know is taken for "no changes". Without declarations a file is
  cut by lines, and a line of any length is taken before the length is looked at
  (`ingestion/code.py:493`): a piece may be far longer than `_CHUNK_SIZE`. A text
  is stored up to 2000 or 1500 characters (`ingestion/code.py:145`, `:157`).

### Why the bounds are enough

- Races over one row need two calls and are complete with three (one to read, one
  to overtake, one to come after); a second draft shows that they do not mix.
- The relay needs two messages of one key (order, debounce), one of another
  (LIMIT, raising in the middle), and an ignored one (it moves the cursor). An id set
  of three fills up and is cleared before the fourth row. The
  bound on the time is on inserts; the loop goes on afterwards. Fewer rows than
  `Limit` share a time: `created_at` counts microseconds and a writer inserts one
  row at a time. Two writers, as many as the process starts, are enough for one to
  overtake the other.
- A limit of one reply in a window of two ticks has the boundary, the send that
  is recorded later than it arrived, and the restart. The confidences lie on both
  sides of both thresholds with every bonus and penalty, and on both sides of what
  a model is asked for (0 to 1.0).
- The second workflow exists because the shipped one has neither cycle nor gate;
  three transitions stand for the twenty of the code: the bound is met in the
  retry cycle. `Concurrent` and `Outages` let an approval come in the middle of a
  drive, and two drives share an object while the database is out of reach.
- The times of the ingestion have an even and an odd tick to a minute; a week of one
  tick in a run of three leaves changes behind it. One item to an answer leaves the
  other out.
- Twin chat: two events that ask in one session give the late answer and the
  session that broke, one of the owner the runner of its own, and the wish the
  two lookups; two rooms and two degrees of a match are enough for the better room
  to come first or last, to go, and to be passed by the other.
- Listener: of three messages of a room between two polls an answer leaves one
  out; one message has its room by invitation; each of three lives may begin with
  a full, an empty or no token. Chat feed: two messages are enough for one to move
  the cursor past the other; the thread that fails is the other's or its own.
- Code: commit, amend and collection need three commits; the second project shows
  that one which fails costs the other nothing. A look back of 1 stands for 20.
- Chunks: five characters hold a prefix, a declaration longer than a piece with two
  methods, or two slices and a rest.
- Deadlock is not checked: in each model the system may rightly stop (no more
  messages, calls or time).

### Fairness

Weak fairness of what the process does by itself: `Proceed` (a handler's next
step; the driver answers or raises, HTTP calls have timeouts), `Loop` and `Tick`
of the relay (its sleep is fixed), `Handle(b)` (the calls of the model and of the
room have timeouts), `Drive(c)` (so have actions and statements), `Work(Loop)` (the
loop sleeps for a fixed time), `Listen` (a long poll is answered, its errors are
followed by the next), and the loops of `Chunking`. `TwinChat`, `ChatFeed` and
`CodeSync` state no fairness: nothing is claimed of when they end. Nothing makes a person review,
a message arrive, a process start or an approval come. `EventuallyStored` asks
one thing of the world, by strong fairness: that of the fetches of the loop, any of
which may go unanswered, some are answered (`Answered(Loop)`: the first query
brings something new, or the fallback answers).

## 4. Proofs

TLAPS checks the following for every value of the constants that meets the named
`ASSUME`s of the modules; extra hypotheses are stated in each theorem.

| module | theorem | hypotheses | inductive invariant |
|---|---|---|---|
| `DraftReviewProofs` | `Typing`, `NothingBefore` | none | `TypeOK`; and `SendersRuled`: who is about to send has a row with a verdict |
| | `SentMeansDeliveredHolds` | none | `Delivery`: a call that has met no failure has delivered all parts before the one it is at |
| | `OneSenderHolds`, `DeliveredIsReviewedHolds`, `Refinement` | no Telegram | `ReviewInv`: a row that left `pending` has one winner, whose text is the row's, and every message is the winner's |
| `AgentRelayProofs` | `Typing` | none | `TypeOK` |
| | `InOrderHolds` | none | `OrderInv`: what is handed, held and fetched, one after the other, is in the order of the stamps (`Placed`, `Order`), and all of it is older than the clock (`Clocked`) |
| | `HandedOnceHolds` | none | `OnceInv`: `OrderInv`, and what is held or was handed in this life is remembered or was forgotten, or lies before the cursor, what was handed before is older than this life (`Remembered`), nothing that was not forgotten is in two places (`Apart`), and a batch is handed only after the tick of its last message (`Silent`) |
| | `NonePassedOverHolds` | none | `PassInv`: `OrderInv`, the cursor is the time of a visible row or of the start (`AtRow`), and whatever is visible since then and was not overtaken is taken, fetched, or at or after the cursor (`SeenGot`, `ToCome`) |
| `OutwardReplyProofs` | `Typing`, `StrangersDraftedHolds`, `OutcomeIsTrueHolds` | none | `ReplyInv`: one batch at a time, an unfinished one has left no trace, and who is taken for known has a logged batch (`KnownBefore`) |
| | `SalvagedDraftedHolds` | none | `SalvagedInv`: what was salvaged is the reply under way, no errand; a reply made of an unreadable answer is never sure: the lemma `ScoreOfSalvaged` bounds its score by `GarbledMax` (70) |
| | `RateLimitedHolds` | none | `RateInv`: a send is recorded no earlier than it arrived (`RecordedAfterwards`), and at the PUT there is still room in the window (`RoomBeforePut`, `RoomAtPut`) |
| `IngestionProofs` | `Typing` | none | `TypeOK` |
| | `NothingLostHolds` | none | `LossInv`: a cursor that was read is no further than what is missing (`ReadSafe`), a run that will move the cursor has fetched all that is missing (`Fetched`), and at its save nothing is missing (`Complete`) |
| `WorkflowProofs` | `Typing` | none | `TInv`: a drive has its instance and its object |
| | `HeldAtTierThreeHolds` | none | `HeldInv`: a held drive works on a paused object and has no action left to execute (`HeldAt`), and drives that share an object are of one instance, so that nobody sets it active but a resume, which ends the holding |
| | `FinishedIsFinalHolds` | `~Concurrent` | `IInv`: drives of one instance do not overlap and share no object (`Apart`), nothing is there before the event (`Untouched`), a drive that is not paused has passed no gate in its state (`Driving`), all entries with a gate are of the state in which the instance is paused (`Gated`), and none of a later state follows (`StaysAtGate`); and `Final`: no drive of an instance with a finished row is under way, and the object `resume` falls back on when the row cannot be read is finished, too |
| | `NoticeAfterTicketHolds` | `~Concurrent`, `TicketBeforeNotice` | `IInv`, and `NoticeInv`: `last_action_success` is the result of the last action of the state (`Reported`), and who is in the notice, or paused in it, has a ticket from its last attempt (`Noticing`, `PausedInNotice`) |
| `TwinChatProofs` | `Typing`, `AnswersOwnHolds`, `SentWhereReadHolds` | none | `IInv`: a client belongs to one runner and session (`Homes`), relayed events come one by one, the pipe of a client that never timed out holds the one answer that is waited for, and none if nobody waits (`Pending`, `Awaited`), a lookup under way has the best of the rooms it has asked for (`Looked`), a message in the making that of the first lookup (`Remembered`) |
| `InboxProofs` | `Typing`, `InOrderOnceHolds` | none | `IInv`: what is in the inbox is no newer than the token and older than what is in hand, which is in order room by room (`Placed`, `Handling`) |
| | `NothingSkippedHolds` | none | `NothingSkipped` itself, step by step beside `IInv` |
| | `FeedTyping` | none | `FeedTyped`: `FeedTypeOK`, a line is of a message that was said (`LinesSent`), and what a run of the ingestor holds fits the place where it stands (`RunHolds`) |
| | `EventOrPendingHolds` | none | `TailSeen`: a message before the position of the tail has its row or was lost by name; `LoggedSoFar`: so has one up to the cursor, and in a run every message of the file as the run read it, unless it came too late |
| | `MemoryOrPendingHolds` | none | `StoredSoFar`: up to the cursor a message is stored, refused or swallowed, and in a run it is so or in hand, unless it came too late |
| `CodeIngestorProofs` | `Typing`, `IndexedOrPendingHolds` | none | `IInv`: all of the saved commit is indexed, in hand or lost (`SavedCovered`), a file that is not on the list of a scan is as in that commit (`ListComplete`), and at the save the files of the list are dealt with (`ListRead`) |
| | `EachOnceHolds`, `FitsHolds` | none | `CutInv`: the pieces follow one another from the first character to the place of the cut (`Tiled`), every character before it that is not blank is in one of them or in a short prefix, and all of them fit (`AllFit`) |

The properties are not inductive by themselves. `RateLimited`, for one, speaks of
replies already confirmed, while the check of the limit precedes the PUT and the
record follows it by another reading of the clock: the induction has to know that
the recorded time is the later one, and that the count made at the check is
still right at the PUT because one batch is handled at a time.
`StrangersDrafted` rests on arithmetic: the lemma `ScoreOfStranger` bounds the
score of an unknown room by `StrangerMax` (60), below every threshold in use, as
long as the model reports no more than 1.0; what it reports beyond that is
`excessive`.
`Refinement` maps the rows to themselves and the outbox to what the room received.

`IndexedOrPending` speaks of the branch and the state file, but the step that could
break it, `SaveHead`, is taken two awaits after git was asked; in between the
developers commit. Hence the list has to be complete at every moment of a scan.

`SentMeansDelivered` needs no restriction on the channels: what one call remembers of
its own parts no other call can touch, and the room forgets nothing.
`NoticeAfterTicket` names a state of one definition, so `TicketBeforeNotice` says
which definitions it is about: the only way into `notify` is the success of a state
whose last action creates the ticket. `MCWorkflow` evaluates that for
`chat-to-jira.yaml` as shipped. The proof had to find where the answer to "did it
succeed" can come from: `last_action_success` is set by every action and survives
a pause in the row and in the cached object.

`EventOrPending` and `MemoryOrPending` are broken, if at all, at `SaveCursor`, by a line
that came between the reading of the file and that step. `Misses` names what a line
comes too late for at the moment it is completed; the lemmas about `FileStep` reduce
the writers' steps to that one fact, and the readers' steps leave the file alone.

`EachOnce` and `Fits` hold for texts of every length: the induction is along the cut,
so no induction over the text is needed. What a `CHOOSE` of a least or greatest
position gives (`LeastOf`, `GreatestOf`) follows from the well-foundedness of the
naturals, and that methods come in the order of their positions from a count of
those before each (`NthOfRank`).

Every safety property of a passing run is stated by a theorem. Only model-checked
are the liveness properties (`CallsEnd`, `EventuallyHanded`, `BatchEnds`, `DrivesEnd`,
`EventuallyStored`, `EventuallyCollected`, `CutToTheEnd`), which need fairness and what
is enabled and are out of the prover's reach, and the violation, `RejectedNotSent`.

## 5. Not modelled, or only in part

- *Text.* Prompts, replies, formatting and embeddings: a text is a name, or the
  set of marks in it that a decision looks at. The model's answers and the
  results of tools are choices among all outcomes.
- *Scores.* Hundredths stand for floats; rounding at the very threshold is left
  out. The confidence of the model is any number; a NaN counts as a large one.
- *Reply.* A batch that is routed inward is the outcome `inward`, and its message
  by the same sender an `Errand`; what else becomes of it is `TwinChat`'s. A reply
  whose answer was lost is not counted by the code, nor by the property. Two
  batches are never handled at once, as the relay awaits each.
- *Ingestion.* The time zone of Jira's queries, open sprints, and duplicates from the
  fallback query. GitLab keeps no cursor of its own and lists everything each time.
  The extraction of entities from the texts. The start of all loops together.
- *Chat feed.* The truncation of the inbox by hand; lines of other tools.
- *Listener.* The daemon with its lock and pid files; the contents of messages.
- *Workflow.* The YAML parser and its checks.
- *Notifier, routes and stream of the dashboard*: they pass on or read, and change
  nothing another part reads.
- *Health checker, trace collector, seed and setup scripts, web pages*: they
  observe, or run once by hand; no other part depends on what they do
  (`seed-code.py` is the exception, and in `CodeSync`).

## 6. Plan

Done, in this order: `DraftReview` (the review is where a wrong message leaves the
house), `AgentRelay`, `OutwardReply`, `Workflow`, `Ingestion`; then `TwinChat`,
`MatrixListener`, `ChatFeed`, `CodeSync`, `Chunking`, the inputs of a reply (`Routing`,
`Inbound`, `ReplyEvidence`), and proofs of the safety properties of all of them.

What would come next:

1. The composition of `ChatFeed` and `AgentRelay` over one table of events, with
   both writers (`Writers`), against an abstract specification of one answer to
   each message.
2. The Telegram notifier: what it is not told while it is disconnected from Redis.
3. Lemmas towards the liveness properties: that each step of a call, a batch or a
   drive lowers a measure, which is all of them that needs no fairness.

## 7. Running

    tlc -workers 2 -config DraftReviewAtomic.cfg MCDraftReview
    tlapm DraftReviewProofs.tla

and likewise for the others; `PROJECT.json` pairs modules and configurations. The
longest runs take one to two minutes, the proofs of a module up to ten.
