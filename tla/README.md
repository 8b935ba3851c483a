# ragtg-bot in TLA+

ragtg-bot is a Telegram group bot written in Rust: it remembers what a chat
says, answers when it is spoken to, describes pictures, collects memorable
events and facts about people, and answers questions. One process talks to
Telegram (teloxide), Redis, SQLite, Qdrant and an HTTP API for language models.
No transaction spans two of these, and nearly everything that is not the reply
itself runs in a detached task. This directory holds TLA+ models of that
program, the TLC configurations that check them and TLAPS proofs about them.

Line numbers are those of `src/src/...` unless another directory is named.

```
tlc -workers 2 -config MCVisionSlots_safety.cfg MCVisionSlots
tlapm RedisCountersProofs.tla
```

`PROJECT.json` lists every run with its expected verdict, the lines each
definition models, one mutation of the code per property that the property
must catch, the hazards of the code and the theorems.

## 1. The system

| Component | State it keeps | Operations | Model |
|---|---|---|---|
| Vision slots (`storage/redis.rs:128-201`) | one Redis counter with a TTL | acquire (INCR, EXPIRE, DECR), release (DECR, SET) | `VisionSlots` |
| Working window (`memory/working.rs`) | a Redis list per chat | push, patch description, read | `WorkingWindow` |
| Message handling and replies (`bot/handlers.rs`) | rows in SQLite; the window; detached tasks | save, spawn perception and candidates, wait for a description, reply, save the reply | `ChatMemory` |
| Reply rate limits (`redis.rs:20-51, 203-231`) | cooldown key per user, minute counter per chat | SET NX EX; INCR, EXPIRE | `RateLimit` |
| `/ask` cooldown (`redis.rs:53-84`) | key per user | TTL, then SET EX | `AskCooldown` |
| Streamed answers (`bot/commands.rs:146-360, 414-449`, `llm/client.rs:208-268`) | the messages of one answer | wait message, stream, previews, chunks as HTML or plain | `AnswerStream`, `ChunkMessage`, `SseLines` |
| Event candidates and scoring (`memory/events.rs:63-107`, `tasks/score_events.rs`) | dedup set and buffer list per chat | offer, push; LLEN, pop, ask models, put back, store | `EventPipeline`, `CandidateLedger` |
| Event store and dedup job (`events.rs:110-229`, `tasks/dedup_events.rs`) | rows in SQLite, points in Qdrant | insert, search, daily dedup | `DedupAlgorithm`, `EventStore` |
| Message counters (`tasks/summarize.rs:33-50`, `tasks/extract_facts.rs:41-62`) | Redis counter | INCR, DEL at the threshold, then the work | `MessageCounter` |
| Fact extraction (`extract_facts.rs`) | rows and points per user | ask, embed, search, insert in both stores | `FactExtraction` |
| Summaries and chat DNA (`summarize.rs:52-136`, `tasks/chat_dna.rs`) | rows and points; Redis cache of a day | summarise, insert; read or synthesise, write | `ChatDna` |
| Model service calls (`llm/client.rs`, `llm/embeddings.rs`, `llm/perception.rs`, `score_events.rs:201-232`) | none; attempts and time of one call | request, retry, fallback | `LlmCall` |
| Reply decision (`bot/decision.rs`) | none: a pure predicate of the message | private chat, mention, reply, alias | no |
| Other commands (`commands.rs:28-144, 372-412`) | none | start, help, info, ping, stats, window: read and send one message | no |
| Prompts, retrieval (`llm/prompt_builder.rs`, `memory/semantic.rs`, `episodic.rs`) | none | read window, vectors, rows | only what they can find |
| Style shots (`tasks/shots_seeder.rs`) | a Qdrant collection | upsert at start | no |
| Lifecycle (`main.rs`, `deps.rs`) | - | start, shutdown, health server | the crashes of the models |
| Storage set-up, configuration, metrics, backups | - | - | no |

### How the parts interact

teloxide runs one worker per chat: it hands a chat's updates to the handlers
one after the other, and different chats run concurrently. Inside one update
`handle_message` saves the message (SQLite row, window push), then spawns
detached tasks: perception of its media, the offer as an event candidate, and
one task that runs `maybe_summarize`, `maybe_extract_facts` and `maybe_score`.
Then it decides on a reply and, still in the worker, passes the rate limits,
reads the window, may wait up to 8 s for a description, takes the chat's DNA,
asks a model, sends and saves the answer. A question of `/ask` is streamed by
the worker too. So:

* the worker and detached tasks of *older* messages of the same chat run at the
  same time, on the same Redis keys and the same rows;
* while the worker replies or streams, the chat's newer messages wait in its queue;
* workers of different chats share the user cooldown, the `/ask` key and the
  vision counter;
* the scoring passes, summaries and extractions of a chat are not exclusive of
  each other, nor of the daily dedup job;
* a Redis command is atomic, a sequence of them is not, and an answer may be lost
  after the server has applied the command;
* a stop aborts all detached tasks wherever they stand. `main.rs` waits for
  Ctrl-C; the SIGTERM of `docker stop` is not handled, so it is a crash. After it
  Telegram delivers the unconfirmed updates again.

### What is hard in it

| Behaviour | Where | What correct means |
|---|---|---|
| two or three commands that together are one operation | slots, quota, `/ask`, patch, counters, pop and put back, search and insert | the promise survives anything between two commands |
| a TTL that runs out under a user of the key | slots, quota, dedup set, DNA | at worst a bounded excess, never a permanent one |
| a crash between INCR and EXPIRE, INCR and DEL, pop and answer, row and point | all Redis counters, buffer, the three stores with points | a counter heals; a candidate is judged once; stores agree |
| updates delivered again after a restart | rows, window, replies | doubled rows do no harm to what is shown |
| detached tasks in any order | window, rows, candidates, counters | order, positions and thresholds stay right |
| retries inside fallbacks, with timeouts | model calls, streams | bounded number of requests and time |
| a call that reports an error and was applied | Telegram edits and sends, Redis, Qdrant | at most one surplus or missing piece per lost call |
| an algorithm that mutates its own input set, or cuts at a limit | dedup, chunks, stream lines | nothing lost or doubled for any input |

PROJECT.json lists the hazards one by one, each at its line with the properties
that would catch it, and those that no property covers with the reason.

## 2. Modules

Every component has one module with the specification and its properties;
components that share state are composed by extending the module of the inner
one. An `MC` module instantiates each composition for TLC. The definitions whose
comment starts with "Mutant of" are wrong versions of the definition after
them; no specification uses them.

```
WorkingWindow  <- ChatMemory          AskCooldown    <- AnswerStream
MessageCounter <- FactExtraction      DedupAlgorithm <- EventStore
TextLines      <- ChunkMessage, SseLines
EventPipeline  --Ledger == INSTANCE CandidateLedger WITH ...-->  CandidateLedger
VisionSlots, RateLimit, ChatDna, LlmCall stand alone
```

Conventions of all modules: each Redis command, SQL statement, Qdrant, Telegram
or model call is one step; "fault" counts failed commands (applied by the server
or not), panics and restarts, and is bounded by `MaxFaults` (`MaxRateFaults` in
`RateLimit`); a restart stops all
tasks and keeps Redis and the databases. Failures that the program expects every
day (a model that does not answer, a description that fails, markup that Telegram
refuses) are not counted as faults. TTLs and clocks count *ticks*, with ages that
saturate, so that runs of any length have finitely many states.

### VisionSlots

`slots`/`expiry` are the key `vision:slots` and its TTL; `pc[t]`/`count[t]` one
run of `perceive_media`; `cap` is the configured cap of this process, chosen at
the start among `Caps`, so that one run covers the disabled cap as well. `Incr`,
`SetExpire`, `Rollback`, `Release`, `Reset` are the five commands of
`acquire_vision_slot` and `release_vision_slot`; `AcquireDisabled` is the early
return with a cap of 0, after which the handler still releases. `IncrLost`,
`ExpireLost`, `DecrLost`, `Abort`, `Crash` are the faults; `Expire` is the TTL at
any moment. Ghosts: `stale` (the key expired while a run was counted in it) and
`unguarded` (a fault between INCR and EXPIRE left the key without TTL, until
something sets one or the key expires).

### WorkingWindow and ChatMemory

`WorkingWindow`: `inbox` is the queue of the chat's worker, `worker` tells whether
it is answering, `window` the Redis list (newest first), `patch[id]` the
perception task of a message. `HandleMessage`, `HandleUnpushed`, `HandleUnsaved`,
`HandlePushLost` are the outcomes of `save_message` in the handler; `BotReply`,
`BotReplyUnsaved`, `ReplyFails` those of the reply. `PatchFind` is the LRANGE of
`patch_media_desc` with its search, `PatchSet` the LSET one round trip later.
Ghosts: `pushed` (all pushes since the key exists) and `raced` (a LSET was done
after a push had moved its position).

`ChatMemory` adds the table and the reply. `rows[id]` are the rows of a message
(the table has no unique key, so a message delivered again has two), `described`
the perception tasks that have run their UPDATE, `reply` the reply under way with
the context it quotes and the description it uses. `DescribeRow` and then
`PatchWindow` are `perceive_and_persist`; `ReadWindow`, `SeeDescription`/`WaitOver`,
`SendReply`/`SendReplyUnsaved`/`DropReply` are `reply` with `wait_for_media_desc`
and `persist_bot_reply`. `Restart` empties the tasks and fills the queue with any
tail of all messages ever posted: Telegram delivers again what was not confirmed.
Message numbers grow as Telegram accepts messages, which `lastId` counts.

### RateLimit

`rate_limit_pass` for concurrent chat workers: `UserPasses` is the SET NX EX of
the cooldown, `QuotaFirst`/`QuotaNext`/`QuotaExpire` the quota's INCR and EXPIRE.
`Anonymous` is a message without author, which skips the first gate. `chatMax` is
the configured quota, chosen at the start among `Quotas`. Ghosts: `passAge`,
`recent` (replies by age) and `bare` (chats whose counter a fault left without
TTL). Some of its names start with "Rate" because one proof module extends it
together with `VisionSlots`.

### AskCooldown and AnswerStream

`AskCooldown` is the admission of `/ask`: `AskFree` is the TTL query that answers
"free", `AskSet` the SET EX one round trip later; `TtlFails` is the `unwrap_or(0)`
of commands.rs:167, which admits. `AnswerStream` puts `stream_to_chat` behind it,
one record per chat: `stage` is the call that comes next, `head` what the wait
message shows, `tail` the chunks sent after it, `lost` the calls that reported an
error (applied or not). `Greet` is the wait message, `StreamStarts`/`StartFails`
the three attempts, `Delta`, `Preview`, `StreamEnds` the reading loop,
`ShowHtml`/`HtmlRefused`/`HtmlLost` and `ShowPlain`/`PlainLost` the final
edit and sends. Administrators and `/askfree` enter by `AskUnlimited`; all users
without an author share the id 0 and count as one user.

### ChunkMessage, SseLines, TextLines

Pure functions. `ChunkMessage` is `chunk_message`, as a fold over lines and, for a
line beyond the limit, over characters. `SseLines` is the loop that takes data
lines out of a streamed body that arrives in arbitrary pieces. Texts are
sequences over the few kinds of characters that the code tells apart. The
reference definitions they are compared with (`SameText`, `Fits`,
`CutsOnlyLongLines`, `AllDataLines`) say what is wanted without saying how.

### EventPipeline and CandidateLedger

One chat. Each message has an enqueueing task `enq[m]` (`HashNew`, `HashDup`,
`PushCandidate`) and a scoring task `score[m]` (`CheckLen`, `Pop`, then
`AllModelsFail` with its put-back, `KeepsNothing` or `Keeps`, then
`Embedded`/`EmbedFails` and `InsertNext`). `batch[m]` and `kept[m]` are what the
task holds in memory. `BufferExpires` is the day-long TTL of the buffer. Ghosts:
`pushed`, `judged`, `forgotten` (expired with the buffer), `overlapped` (two
passes were under way at once).

`CandidateLedger` is the abstract specification: a candidate is entered once,
waits in one place, is judged, or is lost with an excuse, never comes back, and
only what was judged is remembered. The refinement mapping reads the status of a
candidate off the places it stands in (`Places`, `StatusOf`); the excuse is a
fault so far or the expiry of the buffer. A candidate that stands in two places,
or waits although it was judged, has no status in the ledger, so such a step
refutes `KeepsLedger`.

### DedupAlgorithm and EventStore

`DedupAlgorithm` is `dedup_group` without its database: the two nested loops over
rows ordered by date, as folds over indices (`Row`, `Loser`), with the definitions
the result is compared with (`NoDuplicatesLeft`, `OnlyWorseDuplicatesGo`).
`EventStore` uses it: `rows` and `points` are the two stores; `InsertRow`,
`UpsertPoint`, `UpsertFails` are `events::insert`; `DedupRead`, `DedupGroup`,
`DedupRow`, `DedupPoint`, `DeleteFails` the job, which works on a snapshot of ids
and vectors.

### MessageCounter and FactExtraction

`Count` and `Trigger` are the INCR below and at the threshold, `Reset` the DEL,
`WorkDone`/`WorkFails` the work, for summaries and facts alike. Ghosts: `fresh`
(messages since the last trigger), `overlapped` (a task triggered before another's
DEL) and `missed` (triggers whose DEL never came).

`FactExtraction` opens the work for facts: `FactsNamed` is the model's answer, then
per fact `EmbedFails`, `Duplicate` or `NewFact` (the search), `InsertRow`,
`UpsertPoint`. `SearchFails` is the `unwrap_or_default` of extract_facts.rs:154:
a search that fails has found nothing. `rows[f]` and `points[f]` count the
copies of a fact; `Alike` is similarity, reflexive and symmetric but not
transitive. Ghost: `lapped` (a search ended while another run was between its
search and its upsert).

### ChatDna

The summary runs write `age` (one row each, with its age) and `points`; the
worker's reply reads `dna`, or on a miss reads the newest `Lookback` summaries,
has them synthesised and does the SET EX. A synthesis takes up to `LongestCall`
ticks, the bound that `LlmCall` gives. A blank completion is cached like any text.

### LlmCall

One question to the model service, by one of its three clients (`client`):
`chat_completion` under a list of models, `embed`, and the start of a stream.
Position in the list, attempt, and time in half seconds. `Answered`,
`FailsPassing` (429, 5xx, connection, timeout) and `FailsForGood` are the outcomes
of a request, `Retry` the end of a pause. A request takes nothing or its whole
timeout, the two extremes.

## 3. What the runs check

### Runs that pass

Distinct states and seconds are those of two TLC workers.

| Run | Instance | Shows | States |
|---|---|---|---|
| vision_safety | 3 runs, cap 0 or 2, 2 faults | `SlotCap`: at most the cap of calls at once unless the key expired under a counted run; `NoOverCount`: without faults "busy" always has the cap of runs behind it; `QuiescentZero`: with the cap disabled, releases without acquires leave zero; `Recovers`: the counter falls below the cap again and again unless a fault left it without TTL | 259,717 (14 s) |
| memory_safety | window of 2, 3 messages (the bot's included), 1 fault | `WindowIsTail`: the window is the newest pushes, in their order, until a LSET was raced; `PatchSticks`: a description once written stays with its message's newest entry; `RowsBehindWindow`: the window shows no message or description the table lacks; `OwnDescriptions`: nothing ever uses another message's description; `ContextIsRecent`: a reply quotes what was pushed just before it was asked for, and never the question; `ReplyEnds` | 1,726,302 (168 s) |
| rate_safety | 2 users, 2 chats, quota off or 2, 1 fault | `UserSpacing`: one pass per cooldown across chats; `RollingBound`: fewer than two quotas in any minute; `QuotaReopens`: a used-up quota opens again unless a fault left it without TTL | 210,112 (21 s) |
| answer_safety | 1 user, 2 chats, answers of up to 3 chunks, 1 fault, 1 lost call an answer | `AskSpacingInChat`; `ShownWhole`: an answer without lost calls ends whole, in order, or as the reason why there is none; `ChunksInOrder`: whatever is lost, chunks keep their order and there is at most one surplus or missing chunk per lost call; `AnswerEnds`: no question blocks its chat for ever | 296,218 (87 s) |
| pipeline_safety | 3 messages (two alike), threshold 2, 1 tick an hour, 1 fault | `TypeOK`; `BufferInOrder`; `NewAfterHour`; `KeepsLedger`: the pipeline implements the ledger | 419,233 (107 s) |
| store_safety | 3 events, 2 categories, 2 concurrent inserts, 1 fault | `TypeOK`; `OwnText`: search never reads another event's text; `StoresAgree`; `BetterOneStays`: the job deletes only in favour of something at least as good | 1,491,122 (106 s) |
| facts_safety | 2 tasks, threshold 3, 3 facts in a line of similarity, 2 faults | `Overshoot`, `EveryNth`, `NeverStalls` of the counter while the extractions overlap, fail and restart; `NoTwins`: without failures and overlaps no two stored facts are alike; `CopiesBounded`: otherwise at most one copy for each run there can be at once and each failure; `RowsAndPoints` | 322,881 (48 s) |
| dna_safety | 2 summary runs, lookback 2, a day of 2 ticks, 4 summaries, 1 fault | `FreshEnough`: the cached picture is never staler than a day and one synthesis; `NeverOverwritten`: a cached text goes only with its TTL; `BothStores` | 746,914 (13 s) |
| call_safety | 3 clients, 3 models, 6 retries | `GivesUpLate`: no client gives up while a retry could help; `LongestCall`: the time a question can take | 10,064 (1 s) |
| algorithms | all categories of 4 events; texts of up to 8 characters, limits up to 4; bodies of up to 5 characters, cut anywhere | `LeavesNoDuplicates`, `DeletesOnlyWorse` (dedup); `CutWell`: chunks carry the text, fit, and cut only lines that do not fit; `StreamsAlike`: what a stream yields does not depend on where the network cuts it | 204,792 (7 s) |

### Runs that find a disagreement

Each checks what a comment says, and TLC finds a behaviour of the code against it.

| Run | Stated | What happens |
|---|---|---|
| vision_pinned | redis.rs:142-143 a crash cannot pin the counter | a crash between INCR and EXPIRE leaves no TTL; leaked slots then stay |
| window_patchrace | working.rs:74-77 a push between LRANGE and LSET is harmless | LPUSH shifts all positions: the LSET replaces a newer message |

### Where the code promises less than its comments

Other places where a comment and the code part. The properties above are stated as
the code keeps them, and the condition or the bound in each is exactly what the
comment leaves out:

* redis.rs:140-141, over-counting but "never the opposite": the TTL is not renewed
  while calls overlap, so the key expires under them and a full cap of new
  calls joins: the exception `~stale` of `SlotCap`.
* redis.rs:205-206, "slightly stricter than a true sliding window": two fixed windows
  meet, so `RollingBound` is 2 * max - 1 and not max.
* commands.rs:22, once a minute: two chats ask between TTL and SET, so
  `AskSpacingInChat` holds per chat only.
* working.rs:113-114, chronological order: messages written during an answer wait in
  the worker's queue and are pushed after it; `WindowIsTail` speaks of the order of
  pushes, and `ContextIsRecent` of what was pushed when the reply was asked for.
* the design document (docs/superpowers/specs/2026-05-01-pidrila-rework-design.md:120),
  candidates stay in the buffer: a failed put-back, or a stop after the pop, loses
  them; hence the ledger's excuse for any fault.
* redis.rs:376-378 (put back oldest first): two passes that overlap put back in any
  order; hence `~overlapped` in `BufferInOrder`.
* score_events.rs:16, one entry skipped: one embedding request serves the whole
  batch, so its failure drops them all (`EmbedFails`).
* events.rs:81, "within 1h": each offer of any text renews the whole set;
  `NewAfterHour` gives the one direction that holds.
* dedup_events.rs:4-5, the better of a pair stays (and line 139): in a chain of three
  similar events both of one pair can go, one against the third. `DeletesOnlyWorse`
  asks for something better among all that are alike, not in each pair.
* dedup_events.rs:5, deleted from both: a stop between the two deletions leaves a point
  without row that no later pass finds; `StoresAgree` asks for no fault, `OwnText` does not.
* handlers.rs:679, an error of the UPDATE or of the patch leaves
  `perceive_and_persist` before the message is offered as a candidate.
* extract_facts.rs:154, a failed search counts as "nothing similar", and two runs may
  both search before either stores: hence `NoTwins`'s two conditions, and the bound of
  `CopiesBounded` that holds without them.
* summarize.rs:31-32, once every N: the message after the N-th triggers as well if it
  comes before the DEL; hence `~overlapped` in `EveryNth`.
* redis.rs:235-236, reset after success: the DEL comes before the attempt, so a failed
  summary waits for N more messages.
* redis.rs:131-132, TTL longer than the longest call: by `LongestCall`, 3 models with 4
  attempts of 60 s and 3.5 s of pauses each (config.toml.example) take up to
  730.5 s against a TTL of 300 s.

### Bounds

The protocols compare at most two actors at a time (two tasks between the same
two commands, two workers on the same key). Three tasks against a cap of two are
the least with which a third comes while two are inside, and that is where
counters and caps could go wrong; where a third task would only repeat what two
show (extractions, whose copies `CopiesBounded` counts per task; summary runs) two
are used. One fault shows each way a single failure can break an operation; two
faults let the second hit the recovery from the first (slots, counter and
extraction). A window of two with three messages overflows, and has patches
before, during and after an overflow and a reply. `/ask` users share no key, so one
user in two chats is the general case. Three chunks are a first, a middle and a
last one. Three events make a chain of similar ones with different ends, four
rows let the outer loop go on after a loss; three facts on a line do the same for
the search. A quota of two with a minute of three ticks has windows that begin at
every offset, and a cooldown of two does not divide it. Three messages with two
of one text offer it again inside and after the hour. Answers of up to two facts, and
four rows in all, let a run be overtaken between its facts. Four summaries with a
lookback of two fill it twice; the ages of `ChatDna` saturate two ticks after a
summary may be missing, so that the oldest are still told from older ones. Six retries reach
the cap of the pauses. Texts twice as long as the limit have a long line before,
between and after short ones. The mutations show that the bounds are not too
small to see the corresponding bug; the theorems of section 5 have no bounds at all.

`CHECK_DEADLOCK FALSE` stands in the cfgs of the models whose numbered messages,
events, inputs or attempts are used up in the end (memory, window, pipeline,
store, algorithms, calls): there the system has nothing left to do.

## 4. Fairness

* **VisionSlots**: weak fairness of each run's own next command (a Redis call is
  answered or fails, a vision call has a timeout and bounded retries) and of
  `PinnedExpire`, the expiry of a TTL while the counter is at the cap. Redis
  does expire keys, and at the cap no INCR answers 1, so nothing renews the TTL.
  The expiry of a counter below the cap is *not* fair.
* **ChatMemory**: the worker's next step about a message it has taken (`ReplyStep`):
  the poll has a deadline, the model a timeout, Telegram and Redis answer or fail.
  Perception is not fair: `ReplyEnds` holds although it may hang.
* **RateLimit**: the clock ticks and a worker's next command is answered or fails.
* **AnswerStream**: the next call of an answer, and the SET after a TTL, is answered
  or fails. Which of them is left open; `StartFails` is bounded by its attempts,
  deltas by `MaxParts` (the service's `max_tokens`).
* **FactExtraction**: a DEL is answered or fails, a run's calls end. Messages need
  not come; `NeverStalls` is conditional on them.

Nothing is assumed fair about users, faults or restarts, and the models with safety
properties only (EventPipeline, EventStore, ChatDna, LlmCall) assume nothing. `NeverPinned`
is refuted under the same fairness that `Recovers` holds under; the only difference
between the two is the exception for a key that a fault left `unguarded`.

## 5. What is proved

The theorems hold for every value of the constants allowed by the named
assumptions (`SlotAssumption`, `WindowAssumption`, `CounterAssumption`,
`CallAssumption`, `AskAssumption`, `AnswerAssumption`, `FactsAssumption`,
`PipelineAssumption`, `StoreAssumption`, `DnaAssumption`, `RateAssumption`,
`AlgorithmBounds`: finite sets of tasks, chats and users, natural numbers; the window size, N, the
threshold, TTLs and the number of models at least one; likeness of facts reflexive
and symmetric).

**RedisCountersProofs**, vision slots - `TypeCorrect`, `NoFaultNoOverCount`, `SlotCapHolds`,
`QuiescentZeroHolds`, `SlotsGuardedHolds`. `SlotCap`
is not inductive: it speaks of the runs in their vision call only, and a run
enters through two commands. The invariant `IInv` adds that the counter covers
the runs counted in it (`CounterCovers`, faults can only make it too high), that
the *admitted* runs, those before their EXPIRE included, stay within the cap
(`AdmittedCap`), that only the run that got 1 is before an EXPIRE (`PcInv`), and
that a reset to zero needs an expiry under a counted run (`ResetOnlyStale`):
otherwise the SET 0 could wipe slots of others. The proof then counts: an INCR
answers at most the cap, so the counted runs, hence the admitted ones, are at
most the cap. `NoOverCount` is inductive by itself with the type invariant. `QuiescentZero` needs
`Owed`: with the cap disabled and no faults the counter is at most zero, and below zero
only while a run owes the SET 0 that follows a negative DECR.

**ChatMemoryProofs**, the window alone - `TypeCorrect`, `DescBelongsHolds`, `WindowIsTailHolds`.
Type correctness holds a fact about positions: a position that a patch found still
exists when it is used. It needs `Bounded` (the list never exceeds the window
size, so a trim never shortens it). `DescBelongs` survives raced patches as well,
since an entry is written as a whole. `WindowIsTail` needs `FoundIsOwn`: a found
position that no push has moved holds the message it was looked up for, as long as
no raced LSET has happened.

**ChatMemoryProofs** - `MemoryTypeCorrect`, `MemoryWindowIsTail`, `OwnDescriptionsHolds`,
`ContextIsRecentHolds`, `RowsBehindWindowHolds`, `PatchSticksHolds`: every safety
property of memory_safety. `MemoryStep` shows that each step is a step of the window
alone, a lone failed command, or a restart (the theorem `MemoryKeepsWindow`), so the
window's invariant carries over (`WInv`). On it build, one layer per property: `MInv` (types, and descriptions only
in rows of their own message); `CInv` (the context of a reply, once read, is the newest
pushes at that moment, and while the worker replies nobody pushes); `QInv` (no id
stands twice in the queue, and a message that waits in it or is not yet posted has
not met perception, which a restart restores); `RInv` (what the window shows or a patch is
about to write is in the rows, and rows only grow); and `SInv` (a found position is
the first of its message, so that a patch always reaches the newest entry).

**FactExtractionProofs**, the counter alone - `TypeCorrect`, `OvershootHolds`, `EveryNthHolds`. `Overshoot`
is inductive with the type invariant, by counting the tasks before their DEL.
`EveryNth`, an action property, needs `Aligned`: without faults and overlaps the
counter is either at the threshold with one task before its DEL, or equal to the
messages counted since the last trigger.

**LlmCallProofs** - `TypeCorrect`, `GivesUpLateHolds`, `LongestCallHolds`. `Counted`
says how many requests a position in the list and an attempt stand for, `Timed` how
much time they may have taken; both are a closed form of the two nested loops, for
each of the three clients.

**AnswerStreamProofs** - `AskSpacingHolds`, `AnswerTypeCorrect`, `ShownWholeHolds`,
`ChunksInOrderHolds`. For the cooldown `Covered` says that the age of the last admitted
question and the key's remaining TTL together never fall below the minute, and that who
was found free stays free in his chat until he is admitted, since one chat's worker asks
for one message at a time. For the answers `Good` says that the chunks behind the head
are sorted and lie among those dealt with, and that each one too many (`Surplus`) or too
few (`Missing`) is paid for by a lost call; a chunk whose HTML was shown although its
reply was lost is paid for before its plain copy is sent.

**FactExtractionProofs** - `FactTypeCorrect`, `FactOvershootHolds`, `FactEveryNthHolds`,
`RowsAndPointsHolds`, `CopiesBoundedHolds`, `NoTwinsHolds`: every safety property of
facts_safety. `CounterUnderRuns` shows that a step of a run is a step of the counter or
an error (`RunError`) that leaves counter and DELs alone, so the counter's
proofs carry over (the theorem `FactsKeepCounter`). `StepKinds` reduces the rest to five kinds of steps. `Matched` counts
points and runs between row and point against the rows; `Bounded` counts a run that
found no copy of its fact as a copy already, which bounds copies by runs and failures;
`Twinless` says that without failures and lapped searches one run at most is about to
store and nothing like its fact is stored.

**EventPipelineProofs** - `PipelineTypeCorrect`, `KeepsLedgerHolds`,
`NewAfterHourHolds`, `BufferInOrderHolds`: every property of pipeline_safety, the
refinement included. `PInv` says that no candidate stands twice in the buffer and the
batches (`Apart`), that what waits was pushed and is not judged, and that a message is
pushed by its own task only, which is done afterwards. Lemmas about lists as values
(`ApartPush`, `ApartPop`, `ApartRequeue`, `ApartDrop`) show what the operations on them
do to `Apart`; `Kinds` shows that each step of the pipeline loses some of the waiting
(mostly none), enters, judges or remembers, and `LedgerSteps` that each of these is the
step of that name in `CandidateLedger` under the refinement mapping. `Forgets` (a text
outside the set has not been offered for an hour) gives `NewAfterHour`. `InLine` gives
`BufferInOrder`: without overlaps one pass at most is under way, and its batch in front
of the buffer is ordered, which is what a put-back makes of it.

**RedisCountersProofs**, rate limits - `RateTypeCorrect`, `UserSpacingHolds`,
`RollingBoundHolds`, `QuotaGuardedHolds`: every safety property of rate_safety. `Spaced` says that the age of a
user's last pass and the remaining TTL of his key together never fall below the cooldown,
so that a free key means a whole cooldown has passed. `RollingBound` is far from
inductive: a window knows its counter, a minute may touch two windows. `Cells` says for
each chat what its counter, its TTL and the replies by age have to do with each other
(`Cell`, `Window`): the replies of the last minute are split at the age of the window;
those in the window are at most the counter and at most the quota, and fewer than that
unless the window's oldest place holds the reply that opened it; those before it are fewer
than the quota. The events of a chat (`CellFirst`, `CellDenied`, `CellNext`, `CellExpire`,
`CellTick`) are lemmas about such values; under them lie the facts about sums over a
function (`SumUnion`, `SumBump`, `SumShift`, `SumSplit`), which are folds in an order nobody
names.

**EventStoreProofs** - `DedupChoice`, `StoreTypeCorrect`, `OwnTextHolds`,
`BetterOneStaysHolds`, `StoresAgreeHolds`: every property of store_safety. `SInv` adds to
the types that ids of rows and points lie below the next id and belong to one event each
(`Keys`), that the snapshot of a dedup pass tells the truth about what is still there
(`SnapTrue`), and that what a pass has decided to delete are ids of its snapshot
(`VictimsTrue`), without which a row could be deleted for one it is not alike to.
`DedupChoice` is about `dedup_group` alone, for every list of rows: no two that stay are
similar, and for each that goes there was a similar one at least as good. It is an
induction over both nested loops.

**EventStoreProofs**, the algorithms - `LeavesNoDuplicatesHolds`, `DeletesOnlyWorseHolds`,
`CutsWell`, `CutWellHolds`, `StreamYields`, `StreamsAlikeHolds`: every property of the run
algorithms, for categories, texts, limits and bodies of any size (`CaseInv` says that a
result is what the algorithm makes of the input). They share a module with the stores because
`MCAlgorithms` runs `dedup_group` next to the other two.

* *Chunks.* Pieces of a text are written as stretches between two positions, which turns
  equations between texts into ones between numbers (`Marks` gives the positions where
  the lines end). `Held`, kept by every step of the two nested folds, says that the chunks so far
  spell the text up to a position c, each of them neither empty nor longer than the limit, that
  the buffer is the stretch from c to the position reached, and that no chunk ends inside
  a line except one too long for a message (`GoodEnd`). A flush leaves no empty chunk
  because a line that fits the limit does not overflow an empty buffer.
* *Stream lines.* `LinesSplit` says that the lines of two texts are those of the one and
  those of the other if the first ends with a line, `LinesLined`, `FlatLines` and
  `LinesFlat` that splitting and joining undo each other. `Taken` is the loop's invariant:
  the body so far is a text
  x that ends with a line, whose data were yielded, and then the buffer, *whose complete
  lines are no data*. The last part is what the `break` at `[DONE]` needs: complete lines
  may then stay in the buffer for ever, and nothing is lost by it because no data follow.
  Hence the hypothesis `WellFormed` on the body, and only there it is used.

**ChatDnaProofs** - `TypeCorrect`, `FreshEnoughHolds`, `BothStoresHolds`,
`NeverOverwrittenHolds`: every property of dna_safety. `NeverOverwritten` needs that the one
worker of a chat does the synthesis (`Alone`): nobody else can have filled the cache
meanwhile. `Picture` bounds the staleness of a cached text by the age of its key, and that
of a synthesis under way by its length; `OneRun` says that a summary's row and point are
due to the same run.

### What stays with TLC

* Liveness: `Recovers`, `QuotaReopens`, `ReplyEnds`, `AnswerEnds` and `NeverStalls` rest on
  fairness, and with it on ENABLED, which is beyond the prover. The safety under two of
  them is proved: `SlotsGuarded` and `QuotaGuarded` say that a positive counter has a TTL, or is
  about to get it, unless a fault separated INCR from EXPIRE; that TTLs run out is what
  fairness adds.
* That a step of the program is *possible*: what enables the fair actions is part of those
  runs as well, and no theorem speaks of it.

Every safety property and every action property of the passing runs is stated by a theorem.

The induction theorems of the library take an operator as a parameter, which the
installed provers cannot instantiate. Where a fold had to be reasoned about (the sums of
`RollingBound`, the loops of the dedup job, of the chunks and of the stream), the proof
takes the fold apart into a run of its steps, and goes over that run with `SetInduction`,
`TextInduction` or `ListInduction`: inductions for a *set* of numbers, texts or lists, which
follow from the well-founded order of finite sets (`WFMin`).

## 6. Not modelled

* *Reply decision* (`decision.rs`): a pure predicate of one message with tests of its
  own; the models let any message be answered or not.
* *Prompts and retrieval*: they read and format; nothing in them persists. What they
  can find is checked where it is written (`OwnText`, `NoTwins`, `FreshEnough`,
  `ContextIsRecent`).
* *Commands* other than `/ask` and `/askfree`: each reads and sends one message.
* *Style shots seeder*: one sequential, idempotent pass at the start, before any
  update is handled.
* *Lifecycle*: the health server and the select in `run` start and stop tasks; what a
  stop does to the rest is the crash of every model.
* *Storage set-up, configuration, metrics, backups*: sequential, run once, or counters
  nobody reads back.
* *Rollback of Redis*: docker-compose saves Redis every 60 s, so a restart of Redis
  itself brings back older keys; the models restart the bot only.
* *Corner inputs*: a message without author as event candidate (its id is 0) and a window
  entry that does not parse, which the program never writes.
* *teloxide, Telegram, Redis, SQLite, Qdrant and the model API* are external and
  modelled by how the code uses them: sequential dispatch per chat, atomic
  commands, monotone message numbers and AUTOINCREMENT ids.

## 7. Plan

Written, in the order of their importance for the program's state: VisionSlots,
WorkingWindow with ChatMemory, RateLimit, AskCooldown with AnswerStream,
EventPipeline with CandidateLedger, DedupAlgorithm with EventStore, MessageCounter
with FactExtraction, ChatDna, LlmCall, ChunkMessage and SseLines. With these every
part of the program that changes persistent state is modelled.

All safety properties are proved. Next, most wanted first:

1. The safety under the other liveness properties: a worker with a question has a next
   call in every state (`ReplyEnds`, `AnswerEnds`), and a counter at the threshold is
   reset by the next message that arrives (`NeverStalls`).
2. Properties of the ledger itself (`CandidateLedger`), which then hold of the pipeline
   by the refinement `KeepsLedger`.
3. The loops of `LlmCall` as a function of the answers they get, equal to the state machine.
