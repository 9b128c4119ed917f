# Formal models of Seizu

Seizu is a web application over a Cartography graph: dashboards and reports, an
assistant that answers in chat, configured workflows that run on schedules, and
the services around them. Its state lives in a report store (PostgreSQL or
SQLite), its long work runs in Temporal workflows and activities, and its web
processes are stateless and replicated. Almost everything that is hard about it
happens between two transactions: a web request, a workflow, an activity on
another machine and a sweep each read a row, go away, and come back with a write.

This directory holds TLA+ modules of those protocols, the TLC configurations
that model-check them on small instances, and proofs that TLAPS checks for every
value of the constants. `PROJECT.json` maps every definition to the lines it
stands for, and lists the runs, the mutants that show each property can fail,
the hazards and the theorems.

## 1. Inventory

| component | state it keeps | operations | what is hard | correct when |
|---|---|---|---|---|
| interactive chat turns (`chat_turns.py`, `chat_turn.py`, `run_chat_turn`, `admit_chat_turn` route and store) | `chat_sessions`, `chat_turns`; one Temporal workflow per turn | admit, start, produce, stop, finalize, sweep | a claim that is an instant against timeouts that are durations; handoffs that are lost, late or repeated; cancellation that arrives late or never; four writers of one status | a producer keeps its turn, one answer per request, outcomes are final, no thread is held for ever |
| conversation retirement (delete route, `session_reaper.py`) | `retiring_at`, the checkpoint, the sandbox | claim, stop the turn, tear down, delete the record | a listing that is old when it is used, a message between the read and the claim, a crash half way | nothing is torn down under a turn, and nothing is left that cannot be found |
| turn event log (`ChatTurnPublisher`, `tail_turn`, event tables) | batches numbered per turn, `last_seq`, buffers in processes | publish, flush, close, tail, delete | several producers on several machines, a reader that pages while they append, a closed turn whose last batch is not there yet | a reader sees a prefix, the whole answer of a completed turn, and comes to an end |
| plan orchestration and step fan-out (`chat_orchestrator.py`, `chat_step_worker.py`, `chat_step_fanout.py`) | plan, results, one fan-out workflow per batch | select a batch, dispatch, settle, retry, verify | a batch re-dispatched, a step settled while it runs, usage counted twice | a step is paid for once and its result lands on the step that earned it |
| turn budget (`chat_budget.py`) | ledger, reservations, scopes, grants | authorize, commit, release, grant, absorb | concurrent steps authorizing against one remainder | spent plus reserved stays under the limit, the reserve for the answer survives |
| action confirmations (`action_confirmations.py`) | `action_confirmations` | ensure, decide, reverse, claim, expire | concurrent callers, an approval that expires between being found and being claimed, duplicate prompts | an approval runs an action once, and only an approval does |
| configured workflows (`configured_workflow.py`, `workflows.py`) | a mutex child workflow, a waiting slot, the recorded outcome | run, wait, skip, cancel, record, trigger | several triggers of one definition at once | one execution at a time, at most one waiter, no lost run |
| schedules (`schedule_reconciler.py`, `chat_schedules.py`, `headless_chat.py`) | desired schedules in the store, schedules in Temporal | create, update, pause, reconcile | two stores without a transaction | they agree once both are reachable |
| elicitations (`chat_elicitations.py`, `report_store/elicitations.py`) | groups of questions an external server asked, their answers, the confirmation of a continuation | park, answer, resume, delegate, claim, expire, purge | two turns or delegations resume one group; an answer races the expiry; a conversation goes while a call is parked | the answers of a group leave once and together; a declined request stays declined |
| sandbox sessions (`sandbox_session.py`, `sandbox_backend.py`) | a sandbox per conversation, the id in the checkpoint | open, share, attach, suspend, kill, retire, collect orphans | several delegations open it at once, steps of other processes resume it, a turn that was stopped lingers | what runs is in somebody's hands, what is in hand runs, nothing outlives the conversation |
| external MCP gateways (`external_mcp*.py`) | one service token per worker, a cache of discoveries, the status last observed | acquire, call, discover, forget, record | calls overlap at every await and come back late | a late rejection drops no later token, an old observation no newer one |
| model profiles (`report_store/sql.py`) | profiles, one default | create, update, delete | two transactions, each locking the rows it saw | an enabled default while one is enabled |
| reports and spaces (`report_store/sql.py`, `spaces.py`, routes) | reports, their visibility, the space each is filed in | create, file, publish, unpublish, delete | a request validates in one transaction and writes in another | what is filed is public, and filed in a space that exists |
| plugin packages (`plugin_packages.py`, `report_store/sql.py`) | one row per plugin, a row per revision, shared blobs | publish, upload, delete | two editors of one revision; a deletion beside a publication | an edit is published over the revision its author saw |
| single-agent turn (`chat_agent_node`, `_run_llm_tool_turn`, the trims of `chat_graph.py`) | messages of the turn, one-shot retries, streamed text | ask, run a batch, retry, trim, synthesize, continue, finalize | any reply at any point; a context cut three ways; text that cannot be taken back | requests stay well formed, no action is repeated, the turn ends with what was shown |
| conversation history (`_compact_history`, `_trim_messages`, `_collapse_ephemeral_continuations`) | the checkpoint's messages, the condensed block and its boundary | append, condense, trim, read back | a boundary that falls out of the window, messages trimmed under it, plumbing between answers | nothing is lost or doubled, the boundary moves in chunks, the owner reads the whole |
| working memory, MCP server and built-in tools, query validation | what one turn holds in memory | — | content of prompts, tools and queries | not modelled, except where it meets the modules above |
| scheduled queries, cartography sync, command-line client, authentication, telemetry, migrations, frontend | — | — | sequential drivers, rendering, pure functions, remote I/O, generated code | not modelled |

How they meet. A chat message is admitted by a web request in one transaction
(`admit_chat_turn`), which then starts a workflow by a name derived from the
turn. The workflow runs one activity, the producer, which drives the agent's
graph and appends what it renders to the turn's event log; a plan's steps run as
activities of a fan-out workflow and append to the same log. Web requests tail
the log. A stop is a flag in the row plus a best-effort cancellation. Every
terminal status is written by a conditional update, whoever gets there first.
Deleting a conversation, and the reaper of idle ones, close the session row to
admission first and delete it last.

## 2. Plan

Modules in the order they were written.

1. `ChatTurns` with the contract `ChatTurnContract` it implements, and
   `SessionRetirement`, which extends it: who owns a conversation. `ConversationProofs`
   is about both.
2. `TurnLog`: what the readers of a turn see.
3. `ActionConfirmations`; `ConfiguredWorkflow`, proved about in `ExecutionProofs`.
4. `TurnBudget` (layers, reservations, scopes, grants to other processes), with
   `TurnProofs`, which is about `TurnLog` too, and the induction it needs, `DataInduction`;
   `PlanShape` (what becomes of a plan a model wrote) and `PlanOrchestration`
   (the plan's life over the turns of a conversation), with `PlanProofs`.
5. `ScheduleReconciler`; `Elicitations` and `ElicitationsProofs`; `SandboxSession`
   (also in `ExecutionProofs`).
6. `ModelProfiles`, `ReportSpaces`, `PluginPackages`, `GatewayAccess`, and
   `StoreProofs` about the four and `ActionConfirmations`: what overlapping requests
   do to stored rows, or to one process's cache.
7. `ContextWindow` and `AgentLoop` (one turn of the agent), `ConversationHistory`
   (what a conversation keeps from turn to turn), with `AgentProofs`.

What is left: the versions of reports and toolsets, and the reconnecting chat
transport of the frontend.

Small models are checked side by side, so that a run is a question and not a
file. `MCServices` holds `ChatTurns` and `SandboxSession`, `MCStore` holds
`ActionConfirmations`, `ModelProfiles`, `ReportSpaces`, `PluginPackages` and
`GatewayAccess`, `MCPlansAndSchedules` holds `PlanOrchestration` and
`ScheduleReconciler`, `MCTurn` holds `TurnBudget`, `AgentLoop` and
`ConversationHistory`. They share no state. A variable `focus`, chosen once, says which
model a behaviour is about; the others stay in their initial states, so the states
explored are the sum of the models' and not their product.

Modules are written to be proved about: constants carry named assumptions, one
action stands for one operation, invariants are conjunctions of named parts, and
no module declares a RECURSIVE operator.

## 3. Modules

### ChatTurns

One `(user, thread)` pair: every query of the code is scoped to one, except the
sweep, which any process may run at any time.

* **State.** `status`, `key`, `expires`, `stop` are the columns of `chat_turns`;
  `session` and `touched` those of `chat_sessions`. `wf`, `deadline` are the
  turn's Temporal workflow and its execution timeout; `act` is where its
  `run_chat_turn` activity is, `heard` and `stopBy` whether it was cancelled and
  by when it has stopped. `req` holds the admission requests between two awaits
  of `start_turn`, with what they read; `listed` is what a sweep has listed and
  not deleted. `closer` and `runs` are history variables for the properties.
* **Clock.** Time is real time in abstract units and `Tick` waits for what is due:
  a workflow is closed by its deadline, a cancelled activity has stopped within
  `StopLatency`, a sized workflow is created within `HandoffDelay`. The
  assumption `HandoffDelay + StopLatency < CancelBuffer` is the code's own
  (`base.py`: the buffer is "comfortably more than the activity's heartbeat
  interval", 60 s against 30 s).
* **Actions.** `AdmitNew` is the whole admission transaction: the key lookup, the
  session lock, the retirement of a lapsed holder and the insert under the partial
  unique index. `EnsureExpired`, `EnsureSized`, `StartWorkflow` and `HandoffFails`
  are the steps of `start_turn` after it. `PickUp` and `CheckOwner` are the two
  reads of the activity; `GraphEnds`, `WatchStops`, `HearCancel` and `Close` the
  supervisor; `ActivityDies` a lost worker. `CancelWorkflow`, `ActivityTimesOut`,
  `ActivityResult`, `Finalize`, `FinalizeFails` and `WorkflowTimesOut` are the
  workflow; `SweepLists` and `SweepDeletes` the sweep's query and its deletes.
* **Left out.** The model profile a session is locked to, the command, permissions
  (a refused identity is one disjunct of `PickUp`), `message_id`. The `busy`,
  `retired` and `expired` answers change nothing and are the absence of a step.

`ChatTurnContract` says the same without clocks and workflows: a turn takes the
conversation (closing a holder, if any), is answered at most once and only while
it holds it, is closed, and is erased. `KeepsContract` is the refinement, with
`row` read from `status` and `answered` from `runs`.

### SessionRetirement

Extends `ChatTurns` with delete requests (`Deleters`) and reaper sweeps
(`Reapers`), each a small program counter over the awaits of
`_close_session_for_deletion` and `reap_idle_sessions`: read or list, `Claim` (the
conditional update on `updated_at`), for the delete request also look, stop,
cancel and await, then `Destroy` and `DeleteRecord`. `updated_at` has microseconds
in the code and units in the model, so `Stamp` pairs it with the turns admitted so
far. Every step may be the last one its process makes (`RetirerFails`).

### TurnLog

One turn's log. A publisher numbers the parts it renders, so a batch is a range of
them: the parts of `by` from `after + 1` to `upto`, and the closing frames of an
outcome when it `closes` the turn. `buf` and `flusher` are each publisher's next batch
and periodic task; a store error kills the task unnoticed (`FlushFails`), an
append that is cancelled may have committed (`Interrupted`). The coordinator
follows `produce_turn` to its end; steps follow `run_distributed_step`; a step may
be settled while it still runs (`StepTimesOut`). Readers page with `Page` batches,
events first and status second, as `read_chat_turn_events` does. The numbering is
dense because the row's lock serializes appends, so `seq` is the position.

### ActionConfirmations

One action (tool, target, arguments) of one session. `status` and `live` are the
stored confirmations, `call` the progress of each tool call through the awaits of
`ensure_confirmation` and of `create_action_confirmation` under it, `write` the
conditional update each decision request is about to make after its read. `Find`,
`Claim`, `Refetch`, `Count`, `Dedup`, `Insert`, `Recheck` and `Clear` are one
transaction each. A grant is any of the live ones with the right status, approvals
first: which of two denials is the newest changes no answer. `others` stands for the
denials of the session's other actions. The owner's page may reverse a denial, an MCP
form may not, and `DecideReads` allows both; `CallLost` is a request cut off between
any two awaits. Listings and batches are reads and are left out.

### ConfiguredWorkflow

The runs of one definition. `pc` is where `_run_serialized` of each run is, `mutex`
and `slot` who holds the two fixed child ids, and `phase`, `stage`, `open` and
`failed` the execution that holds the mutex. Temporal's part is in the guards: one
open execution per id, a signal reaches an open run, a timer fires. `StopLooks` and
`StopLands` are the two halves of `cancel_waiting_workflow_run`. A poll of a watched
sync starts a run while `fresh`, which is the comparison of `SyncMetadata.lastupdated`
with `last_run_at`. What flows between stages is left out, and so
are the replay paths kept for histories recorded by earlier releases.

### TurnBudget

The controller of one turn's spend. A call is `idle`, waits, is in flight or was
refused; `total` and `llmCalls` are the ledger, `spent` the committed usage of each
open scope, `maxCalls` the call ceiling, which only rises with a plan (`Replan`).
`Verdict` is `_authorize_locked`: the scope's share, the gate of a run that is
finalizing, the call ceiling and the run's own limits, in the order the code tests
them, each answering *no*, *wait* or *go*. `ReserveCall`, `Recheck` and `Poll` are the
loop that waits on the condition, `CommitCall` and `ReleaseCall` its two ends;
`AfterExceeded` is what each kind of caller does with the exception. `DispatchBatch`
gives each worker of a batch a slice (`_grant_for`), `Absorb` adds what it used after
the fact, `LoseWorker` is a step whose result never came back. Dollars and tokens are
two dimensions of small integers; `over` and `loose` are history variables that count
what single calls, and slices that bounded nothing, added to what was authorized.

### PlanShape and PlanOrchestration

`PlanShape` is pure: the passes of `_init_plan` over a plan as a model returned it
(`Truncated`, `PlanProblems`, `UniqueIds`, `BreakCycles`, `ClosingSummaries`) and
`RemainingWaves`, the forecast the budget is divided by. A name is a sequence of
numbers, and a suffix the code appends is an element appended: a child of a mapped step
gets a negative one, which no name of a plan has (`ChildOf`). The reference
definitions the operators are held against are sets: the steps that wait for a step are
the least set that is closed under waiting (`WaitsFor`), and the steps on a cycle are those
that wait for themselves.

`PlanOrchestration` is the graph of nodes around it, saved after each: `Route`,
`PlannerAnswers`, `Replan`, `Plan`, then `Resume`, `Wind` or `Dispatch` (the three exits
of the dispatcher), `Verify`, `Pause` and `Synthesize`. A node is one action, since only
its turn writes the plan, and `TurnDies` may happen in any of them, with the actions
that a resumption had executed by then, or with the workers of a batch started that no
saved plan knows of. A dispatch is the whole of `_dispatch_batch`: optional steps dropped
under the soft limit, retries prepared, mapped steps expanded, the batch cut to
`MaxParallel` (`Pass`), its workers started (`Starts`), and what they came back with. The
fan-out is abstract here (a batch name, the results, and that its start may be accepted
and yet fail for the caller, which then runs the batch itself: `Runs`); its log is in
`TurnLog`, its grants in `TurnBudget`. `owner`, `batches`, `attempts`, `lost` and `acted`
are history variables: `lost` counts the batches that were started beside those the saved
plan knows of.

### ScheduleReconciler

One scheduled chat: `rec` is its row, `sched` its Schedule in Temporal, `auto` the run
a firing started, `starts` how often a run was started under each request key. `pass`
holds, for each reconcile loop and each API request, the row it read: every remote
call that follows works from that reading. `Read`, `Start`, `AcquireLock`, `RemoveSchedule`,
`CreateSchedule`, `AlreadyRunning`, `UpdateSchedule` and `Report` are the awaits of
`reconcile_by_id`, which API requests run too after `Create` and `Update`.
`DeleteSchedule`, `DeleteRecord`, `RequestRun` and `RunNow` are the other requests.
`Fail` and `Die` may hit any of them. What asks for a run is two things, a trigger and
the enabled flag: without a trigger a record has no Schedule, disabled it has a paused
one. `Load` is the check a firing makes before it runs: it looks for the record and for
the flag, not for the trigger.

### Elicitations

One conversation's parked calls. `rows` are the questions of each group, `gate` and
`bound` the action confirmation its call needs and whether the rows name it, `job` what
each turn or delegation is doing between its awaits. `FirstCall` and `AsksAgain` park a
group in the transaction that counts the limit; `Respond` is the conditional update of
an answer. A turn goes `Resume`, `Check`, `Approve`, then `Bind` (ask for the
confirmation and end) or `Claim` and the call; a delegation of the sandbox starts at
`Delegate`. `ResumeConfirmed` is the approval executed without its group. `Expire`,
`Purge`, `Retire` and `DeleteThread` are the other writers. `sent`, `declined` and
`parent` are history variables.

### SandboxSession

The sandboxes of one conversation. `box` is the provider's view, `stored` the id in the
checkpoint, `node` the session each node of a turn holds, `caller` the delegations on
their way into it, `step` the steps on other machines. `Enter` takes the session's lock,
`OpenBackend` resumes or creates, `FanOut` and `Attach` hand the id to a step.
`CloseNode` or `AbandonNode`, `AClose`, `Pause` or `Kill` and `Save` are the end of a node.
A turn that was stopped may linger beside the next one (`OneProducer`), so `Owners` may
have several members. `Claimed` to `DeleteSession` are the retirement, `ListPaused`,
`AskSession`, `LookAgain` and `Reap` the orphan pass. Every call may fail, with or without
having taken effect, and every process may die.

### ModelProfiles, ReportSpaces, PluginPackages

Transactions of PostgreSQL at READ COMMITTED, cut where one of them can see another.
In `ModelProfiles` a mutation begins (`BeginProfile`, the snapshot of its SELECT), gets
its row locks (`Select`, which reads the rows again and never sees a row inserted
meanwhile) and commits or rolls back; the unique index is the last conjunct of the
commit. In `ReportSpaces` a request checks, then locks the report's row (`SeeLocked`) and
writes by what it says; deleting a space looks inside (`LookInside`) and deletes without a
lock on what it looked at. In `PluginPackages` a publication compares its base revision
twice (`Screen`, and `Lock` under the row's lock), finds which blobs are missing, and
commits unless a row it inserts is there by now; a deletion lists, removes, collects the
blobs nobody else refers to and commits.

### GatewayAccess

One worker process and one user. `held` and `due` are the cached token, `listing` the
cached discovery, `row` the status the user sees, and `use` what each call is at. A call
takes the token or fetches one under the lock (`UseHeld`, `Fetch`, `Fetched`,
`FetchFails`), is answered (`Accepted`, `Rejected`, `Denied`, `Unavailable`), records what
it observed (`Record`, which compares the moments) and, for a discovery, stores or forgets
the listing (`Remember`, `Forget`). `GatewayChanges` revokes tokens or access at any time.

### ContextWindow and AgentLoop

`ContextWindow` is pure: the messages of one model call and `Trim`, which is
`_trim_inner_loop_messages`. The loop of the code drops from the front until what is
left is small enough or holds one assistant message; the model says where that ends, as
the first point between two exchanges at which it may. A message is its role and the
calls it makes or answers, its size one or two units, the condensed message a sequence
of lines of which the newest `MaxLines` stay. `Fitted` is everything a call may be
asked with: the loop's messages, cut to the window, and cut again after an overflow.

`AgentLoop` is `chat_agent_node` and the calls under it. One step is one reply of the
model with everything the loop does with it, and a reply is any combination of text,
calls, leaked markup and cut-off: `Leak`, `Unavailable`, `Answers`, `Stall`,
`SaysNothing`, `Repeats` and `RunBatch` are the branches of the loop in its order.
`Exhausted` is the budget's refusal, `WriteSynthesis` and `ReserveGone` the forced
synthesis, `Extend` and `Deliver` `_auto_continue_answer` and the end,
`ProviderFails` an error nobody catches. `streamed` and `answer` are sequences of
pieces, each named for the call that wrote it; `wire`, `told`, `since` and `asks` are
history variables. The inside of a call (streaming, reasoning, reservation) is in
`TurnBudget` or left out; resumed turns are in `Elicitations` and
`ActionConfirmations`.

### ConversationHistory

`kept` is the checkpoint's list, `summary` the condensed block and the id it covers,
`turn` and `given` the running turn and the context its model was given. `Begin`
appends the message and condenses (`InWindow`, then `Compact`), `End` appends the
answer, trims to the cap and stores the boundary, `Fail` leaves the message that opened
the turn. Resumes and continuations are ephemeral messages, a failed answer is tagged
broken; both stay in the checkpoint and out of the model's view. `Transcript` is what
the owner reads back. A line of the block stands for one message.

## 4. Runs

| run | checks | bounds |
|---|---|---|
| `chat_turns_safety` | `ProducerKeepsTurn`, `AnsweredOnce`, `OutcomeIsFinal`, `SweepSparesClaims`, `KeepsContract` | two turns, two keys, two requests; lease 3, clock to 5, admissions until 2 |
| `services` | `StopEndsRun`, `ThreadIsReleased`; `HeldIffRunning`, `OrphansCollected` | one turn, two requests (a first attempt and its repeat), `StopLatency` 1 inside a buffer of 3, clock to 12, admissions until 1; one turn with two delegations, one step elsewhere, two sandboxes |
| `chat_turns_one_producer` | what the code does not keep, section 6 | two turns, one request, `StopLatency` 1 |
| `session_retirement` | `RecordGoesLast`, `TeardownSparesHolders`, `RetirementFinishes` | one request for a new turn, one delete request, one sweep; clock to 6 |
| `turn_log` | `ReaderHasPrefix`, `CompletedIsWhole`, `ReadersEnd` | coordinator, one step, one reader; one part each, pages of one batch |
| `store` | `ApprovalRunsOnce`, `PromptsBounded`, `DecisionsStand`; `SeenAllKeepsDefault`; `MembersArePublic`; `EditsBuildOnTheirBase`; `GoodTokenIsKept` | two calls and two decisions, four confirmations (one more than the limit of three), one denial elsewhere, expiry on; three profiles, two administrators; two reports, one space, two users; one plugin, two blobs, three revisions, deleted once; two calls, two tokens, two observations |
| `workflow` | `RunsDoNotOverlap`, `OneWaiter`, `StopSparesExecution`, `EveryRunEnds` | three runs (one works, one waits, one is refused), two stages of two activities |
| `turn` | `BudgetInv`, `WaitersAnswered`; `AgentInv`; `HistoryInv` | two delegations of one step, a worker step, the answer; two steps elsewhere; limits of 4, reserve 1, estimates of 1 and 2 that overrun by 1, four calls; one skill that discloses both tools, replies of up to two calls, three actions, one continuation, at most one earlier exchange, caps of 4 and 7 units, two lines; six messages of one or two units, a budget of 7 with 2 for the block, cut back to 2, a window of 4, five kept |
| `plans_and_schedules` | `PlanInv`, `ShapeIsRunnable`, `RestartsAreNew`, `WavesForecast`, `TurnsEnd`; `ScheduleFollowsRecord`, `UnwantedRunsEnd`, `RequestIsServed` | every graph on three steps, with doubled and missing names, mapped and closing steps, repaired; a chain with a mapped step and a fork wider than a batch followed through two turns, one retry cycle, two items, one lost batch; one loop and two requests on a chat that exists; one loop, a creation, one more request and one failure or death |
| `schedules_run_once` | what the code does not keep | one loop, two requests, without failures |
| `elicitations` | `ElicitInv`, `AnswersStand` | two groups of up to two questions, two turns or delegations, a limit of three |
| `question_kept` | what the code does not keep | as `turn` |

`PlanInv` is the conjunction of the plan's shape and `DependenciesFirst`,
`AttemptsBounded`, `AbandonedPlanNeverRuns` and `CompletedMeansVerified`; `ElicitInv` of
`AnswersGoOnce`, `ClaimedTogether`, `LimitHolds`, `DeletedLeavesNothing` and
`DeclineIsTerminal`; `BudgetInv` of `SpendBounded`, `ReserveKept` and `ShareKept`;
`PromptsBounded` of `OnePrompt` and `OvershootIsBounded`; `HeldIffRunning` of
`NoneRunsUnowned` and `OpenStaysRunning`; `AgentInv` of `RequestsHold`,
`NothingRunsAgain`, `AsksBounded`, `StoredIsShown` and `FirstQuestionKept`; `HistoryInv` of
`NothingIsLost`, `ContextFits`, `MovesInChunks`, `TranscriptIsWhole` and
`KeptStartsWithTurn`. Each module has one type invariant. Those of `ChatTurns`,
`SessionRetirement`, `TurnLog`, `ActionConfirmations`, `ConfiguredWorkflow`,
`Elicitations`, `SandboxSession`, `ReportSpaces`, `ModelProfiles`, `PluginPackages` and
`GatewayAccess` are proved, and that of `PlanOrchestration` is a part of `PlanInv`, proved too.

Why the bounds are enough. A hazard of admission needs two turns (a holder and its
successor) and two requests (a first attempt and its repeat, or two racing keys);
a third adds no new relation between rows, because every rule of the code relates a
turn with its own claim or with the one running turn. The clock must go past a
second lease after the last admission, so that the successor's claim lapses too:
`LastAdmission + Lease <= MaxTime` in every configuration. The durations are the
smallest at which the margin, half of it and the buffer are three different
instants. Pages of one batch make a reader cross a page boundary at every batch.
Racing updates of one confirmation need two callers or two deciders and rows to race
for; a call may start only while an id is left for it. Expiry is off in the run that shows
a violation, so that its trace does not rest on a confirmation that expires as soon as
it was made. Deletes and sweeps race with one admission in `session_retirement`: a
second one is refused by the claim exactly as the first one is.
The clock of `services` goes well past the lease, because a turn that is
stopped at its last instant has a finalizer and a sweep still to come. A sandbox is
shared by two delegations or not at all, and a second one is what a failed resume
creates. In the budget every estimate but the first meets a limit, a share and a
reserve that other calls in flight hold part of, and the two slices of a batch are
cut from a remainder that does not divide. A reconcile loop that overlaps an API request
and is overtaken by a second one is the smallest order in which a reading is old; more
loops repeat it. Two administrators, users or writers are a race; a third profile is the
one that the first two leave to be the default.
In `AgentLoop` a cap of 4 is passed by the first exchange that follows a question and an
earlier answer, and one of 7 by the second, so a context is cut at every length; two
lines are fewer than the three calls a turn may run, so the block sheds one; three
actions let a batch be cut by the limit, and each retry be taken before and after an
action. Seven messages compact twice, let the boundary fall out of the window and the
first messages out of the checkpoint.
One lost batch (`MaxLost`) is enough for a step to be started beyond its retry cycles and
for the plan that carries it to be continued, expanded and resumed afterwards; a second one
repeats the first, and was checked too. The theorem is for every number of them.
Deadlock checking is off throughout: a conversation whose messages are answered, or
a clock at its bound, has nothing left to do.

Every property has a mutant in `PROJECT.json`: a named variant of one action with a
bug that could have been written (a lock not taken, a check not repeated under it, an
update that is not conditional), under which TLC finds that property violated.

## 5. Fairness

`TurnFairness` of `ChatTurns` makes only the running activity's own steps fair: the
ownership check, the poll of the cancel watch and the closing writes are
consecutive awaits of one task in a live process. Whether a graph ends, a
cancellation arrives or a client returns is left to chance, and so `StopEndsRun`
shows the watch is enough by itself. `ThreadIsReleased` assumes `Timely`, which is what
a deployment gives: time passes although clients keep trying (strong fairness of
`Tick`), Temporal honours execution timeouts, cancelled activities stop, an HTTP request
that sized a workflow gets to create it or fails, and the sweep runs, since turns keep
finishing somewhere. `FairReaper` adds that the scheduled reaper keeps coming back and that
its calls do not fail for ever, which needs strong fairness because each failure
sends it back to the start. `FairSpec` of `TurnLog` lets a connected reader poll.
`FairSpec` of `ConfiguredWorkflow` is what Temporal gives a workflow: timers fire,
children start and close, activities end by their timeouts and attempts. A code
workflow run as an activity has no timeout in the code, and is assumed to end.
Triggers, stop requests and syncs are not fair. Runs are finite in the model, and the
liveness property depends on it: a waiter polls every 30 seconds, and runs that keep
arriving right after a release could take the mutex before it for ever.

`BudgetFairSpec` wakes a waiter at least once per poll, as the condition's timeout does;
no call is assumed to end. `PlanFairSpec` lets a turn leave the node it is in, by its
end or by its death. `SchedFairness` keeps the reconcile loops and Temporal going (a firing is loaded and a run
ends, by its timeout if nothing else); users, requests once begun and failures are under no
obligation. `SandboxFairness` lets nodes and
steps end (each has a timeout), sandboxes that run for nobody reach the end of their
lifetime, and the scheduled orphan pass come back; strong fairness of its three steps says
that its calls do not fail for ever.

## 6. What the code does not keep

Three statements of the source or its documentation are checked and violated by the
code; each run shows one trace.

* **One producer** (`OneProducer`). Cancelling a workflow makes its await of the
  activity fail at once; `finalize_chat_turn` closes the row while the activity is
  still in its model call. The thread is free, and the next message starts a second
  producer on the same checkpoint. `ProducerKeepsTurn` is what does hold: only a
  turn's own fallback or its own repair can take the row from a producer.
* **One run per request** (`RunOncePerRequest`). `run_managed` says that "starting is
  idempotent per request key". Temporal refuses the id of an open workflow only: when a
  reconcile pass has started the requested run and the run has closed, the request's own
  start runs it again.
* **The question stays** (`QuestionKept`). `_trim_inner_loop_messages` says it keeps "the
  user's original turn at index 0" and that what is shed "is replaced by a single
  condensed message rather than deleted". Index 0 is the oldest message of the
  conversation. When there is an earlier exchange, the question being answered is shed
  once two exchanges of tools follow it, and user messages leave no line.
  `FirstQuestionKept` is what holds.

Four more are stated in the modules, beside the property that does hold. Naming one
under INVARIANTS in the module's configuration shows a trace in seconds.

* `OneDefault` (`ModelProfiles`): a profile created while the only other one is given up
  is not seen by the transaction that gives it up, and no enabled profile is default.
  `SeenAllKeepsDefault` is what the locks keep.
* `NoneOrphaned` (`ReportSpaces`): a report is filed, created or cloned in a space between
  the look inside and the deletion. `MembersArePublic` holds.
* `ContentIsKept` (`PluginPackages`, with two plugins): a deletion finds a blob unreferenced
  that a publication has found stored and not yet committed a reference to.
* `RefusalForgetsTools` (`GatewayAccess`): a discovery that was accepted stores its tools
  after a later call was refused.

Observations met on the way, which the modules' actions show and no run checks.

Turns and logs:
* `await_turn_stopped` waits for the closed row, so a deletion goes on beside the
  producer it asked to stop (the same closed row as in `OneProducer`).
* A workflow that times out leaves its turn running; a late repeat closes it as
  `expired`, a status documented to have no log.
* A step that timed out is settled and may still append after the coordinator closed
  the log: the closing flush is not the highest batch.
* A flusher that died makes the publisher raise after a complete answer was stored, so
  the row says `failed` under frames that say otherwise. An append that was cancelled
  after its commit is stored twice.
* The fallback records `last_seq` 0, so a reader that is behind ends before the batches
  a failed turn did store.

Confirmations and elicitations:
* An approval is `executed` from its claim on, before the tool runs, and the loser of
  the race reports the action as done although the winner may still be at work, or may
  die. Claiming first is what makes `ApprovalRunsOnce` true: the alternative is to run
  twice. The same holds of claimed answers when the transport fails, and of an approval
  that is claimed by a process that dies before it claims the group.
* `create_action_confirmation` returns its argument after two rejected inserts, and the
  user is sent to a page that does not exist.
* A continuation looks for a grant, the user declines, and the second lookup finds
  neither the grant of the first nor a pending confirmation: it opens another prompt.
* A process that dies between asking for the confirmation of a continuation and binding
  it to the rows loses the link, and the approval executes a call without its answers.
* A delegation takes the first group of its call that has an answer, although another
  one may be complete.

Agent and history:
* A call without an id is given one by `_tool_call_requests`, and
  `_ai_message_for_tool_results` looks for it among the model's own ids: the call is
  dropped and its result stands without one. The model gives every call an id.
* The calls of one reply are compared with those that ran, not with each other: the same
  call twice in one reply runs twice.
* Text streamed before the first action is on the wire and not in the stored answer when
  the reply is retried, or narrates a batch. When the first batch is blocked, the
  narration becomes part of the stored answer.
* A "Continue response" turn that fails and is followed by a resumed action glues the
  resume's answer to the one before it in the transcript.
* Messages that fall out of `CHAT_LLM_CONTEXT_MAX_MESSAGES` before they were condensed are
  in no context again, and from then on the prefix moves with every message.
* A resumed turn condenses for itself and stores no boundary. Only `BudgetExceeded` is
  caught in a continuation: any other error fails a turn whose answer the user has.

Budget and plan:
* Any worker that runs out of its own share makes the whole turn finalize.
* A limit of 0 means no limit, so a slice of a remainder that is exhausted bounds
  nothing (`loose`). What a step used whose result was lost is never absorbed.
* After a resumption in which every approval was denied, and after the last retry cycle,
  the synthesizer is reached with steps that could run.
* `_break_cycles` is documented to cut the fewest edges and does not; `_plan_problems`
  does not look at the edges of mapped steps; the forecast counts an expanded step's
  children, and what waits for them, too low.
* An optional step that is dropped when the run degrades makes the required steps that
  depend on it unreachable.
* The retry cycles do not bound the starts of a worker by themselves. A turn that dies in
  its dispatcher leaves the batch's steps pending in the checkpoint, and a message that
  continues or resumes the plan (`_is_plan_resume_turn`) dispatches them again without using
  a cycle, as often as that happens. And `_FanoutUnavailable` is said to be raised when
  "nothing was scheduled", but a start that Temporal accepted and whose answer was lost
  raises it too: the batch then runs twice, in the fan-out and in the process.
  `AttemptsBounded` counts these starts in `lost` and shows that nothing else adds any.
* Two steps whose calls share one confirmation resume one after the other: the second
  finds it executed and aborts.

Workflows and schedules:
* `last_run_at` is written when a run is recorded, so a sync that completed after the
  run's queries and before that moment, and was not polled in between, is never followed
  by a run.
* The waiting slot is released after the waiting run has started, or was cancelled, and
  a run that arrives in between is skipped because of a waiting run that is none.
* A request recorded between a pass's read and its `acquire_lock` is consumed without a
  run (`missed`), and a later request replaces one that was not served yet.
* A loop whose reading is older than a deletion creates the Schedule again; nothing
  collects it, and it fires for ever. Its firings find no record and run nothing
  (`UnwantedRunsEnd`). A pass with an old reading may mark a record "synced" with an older
  version until the next pass.
* A firing looks for the enabled flag and not for the trigger, so an enabled record whose
  trigger was removed is still run by a Schedule that is out of date, until a pass has
  removed that.

Sandboxes, store and gateways:
* `abandon_sandbox_session` decides whether to keep the sandbox before it has the lock; a
  sibling that is still resuming it loses it, and the checkpoint keeps a dead id.
* A step that attaches late resumes a sandbox its owner has suspended. A lingering
  turn's checkpoint, saved after the retirement's, brings the conversation's state back.
* A publication that commits beside the deletion of its plugin leaves version rows that
  later publications conflict with; a plugin deleted and published again can be at the
  revision an older editor holds. The switch of a skill made during a publication is lost.

## 7. Proofs

`ConversationProofs` proves of `ChatTurns`, for every set of turns, keys and requests and every choice
of durations that satisfies `TimingAssumption`:

* `TypeCorrect`: `TypeOK` is inductive.
* `ProducerKeepsItsTurn`: `ClaimInv` and `ProducerKeepsTurn`. The property is not
  inductive by itself. `ClaimInv` adds why it holds: a request knows the claim its
  turn has and sized the workflow to end a buffer before it; an open workflow's
  deadline plus `StopLatency` lies before the claim; whatever was told to stop has
  stopped before the claim; the sweep holds only lapsed turns. The lemma
  `BoundLeavesTheBuffer` is the arithmetic of `chat_turn_execution_bound_seconds`.
* `AnswersOnce`, from `AnswerInv`: a start is recorded only for a turn whose one
  workflow exists, and keys are unique among rows.
* `OutcomesAreFinal`, `SweepSpares`: action properties, by one lemma (`RowNext`)
  that says what any step may do to any row under `ClaimInv`.
* `ImplementsContract`: every step of `ChatTurns` is a step of
  `ChatTurnContract` or changes nothing it sees.

Assumed: `TimingAssumption` and `AbsentAssumption`, and, in the shape of `Tick`, that
the platform meets its deadlines.

`ExecutionProofs` proves of `ConfiguredWorkflow`, for every number of runs, stages and activities
(`WorkflowAssumption`), `TypeCorrect`, `Serialized` (`RunsDoNotOverlap`), `WaitsAlone`
(`OneWaiter`) and `StopIsForWaiters` (`StopSparesExecution`) from one inductive
invariant, `WInv`: the holder of the mutex has no outcome and is on its way to, or in,
its execution (`HolderWorks`); the slot is held from its reservation until its child has
closed (`SlotIsHeld`); a queued run has no outcome (`QueuedIsOpen`); and activities are
open only in a stage. None of the properties is inductive without these: that no two
runs overlap rests on who holds the mutex, and that a stop spares an execution rests on
the canceled outcome being decided while the slot is still held.

`ConversationProofs` then carries the proofs about turns over to `RSpec`, where delete
requests and sweeps run beside them (`IdleAssumption` is the code's: a session is idle
for at least as long as a claim lasts). A step of a retirement changes rows of `ChatTurns` too,
so `RetirementKeepsTurns` proves `ClaimInv` again for those steps and reuses
the lemmas about `ChatTurns` for the others. `RetireInv` adds what a retirement knows at each of its
points (`RetirerKnows`): what the reaper read had been idle longer than any claim; while a
deletion stops and awaits a turn, no other holds the thread; a teardown begins when no
claim is left (`Quiet`). Without the last, `TeardownIsQuiet` cannot be shown of the step
that tears down, whose own guard looks at nothing; `RecordIsLast` needs that the record is
reached only after it. `HolderInv` bounds every claim by the last admission.

`TurnProofs` proves `TurnLogTyped`, `ReadersHavePrefix` and `CompletedTurnsAreWhole` for
any steps, readers, page size and number of parts, from `TurnLogInv`. A reader's prefix
rests on `PagesFollow`: a page, once read, stays the continuation of what was shown, for an
append changes nothing before it. The whole answer rests on `LogInv`: as long as no append
of the coordinator failed, the log holds its parts up to where its buffer begins, in order,
every batch of it is at or below `last_seq`, and the closing frames are buffered or are the
last of its batches (`Unclosed`, `Closed`); and on `RowInv`: only the coordinator, having
returned, records a completed turn, with that `last_seq`. Batches are ranges for the sake
of these proofs: what a log flattens to is a fold, and a range is compared by its ends.

`StoreProofs` proves of `ActionConfirmations` `ConfirmationsTyped`, `ApprovalsRunOnce`,
`PromptsAreBounded` and `DecisionsAreFinal` for any finite numbers of calls, decisions and
ids and any limits (`ConfirmationAssumption`), from `ConfirmationInv`. `SpentOnce` says
that an approval which is not spent has run nothing and runs nothing. `PromptsPaid` is the
argument for the bound: a denial was a prompt and a prompt was a call that had passed the
count, so denials, the open prompt and the calls still on their way to insert one never
exceed the limit by more than the calls there are. `IdsLeft` discharges the bound on ids.

`ElicitationsProofs` proves `ElicitationsSafe` (`ElicitInv`, with the types) and
`AnswersAreFinal` for any finite groups and questions and any limit (`LimitAssumption`).
`ElicitInv` becomes inductive with `AnswersSpent`: where answers were sent, or are about to
be, their rows are consumed, and so are the rows that a question of a continuation came
from. The limit is proved on the set of live rows (`LiveRows`), which every step but a
parking leaves or shrinks, and which a parking extends by what `Fits` has counted.

`ExecutionProofs` also proves `SandboxesAreOwned` (`HeldIffRunning`, with the types) for any
number of turns beside each other, delegations, steps and sandboxes (`SandboxAssumption`);
the run has one turn. `SandboxInv` says why. A session that has let go of its sandbox, and
only carries the id to the checkpoint, answers for nothing that runs: others may have
resumed it by then (`RunningIsGripped`). A delegation that is opening holds the lock of a
session that is not closed and has no sandbox (`LockHolds`). A turn that is not stopped and
found nobody there is alone (`AloneIsAlone`), and whoever destroys what is suspended knows
that every turn that is left is stopped (`EndIsKnown`).

`StoreProofs` also proves what overlapping requests leave of four small models, for any number
of them at once. `MembersStayPublic`: what a request has read of a report under the row's
lock still holds when it writes (`ReadingHolds`), and a report that is being created is
nobody else's. `SeenAllKeeps`: transactions that have their rows have different ones, and
what they read of them is still so (`LocksHold`); a profile being created is in nobody's
rows. `EditsBuild`: behind the row's lock the editor's base is the head, a plugin has one
owner, and `lives` counts its deletions, so that a revision is compared with its own
life's. `GoodTokenStays`: one call fetches at a time, and only when there is no token to
lose (`FetchInv`). What the four do not keep (section 6) is not claimed.

`TurnProofs` also proves `BudgetTypeCorrect` and `BudgetCorrect` (`BudgetInv`) for any finite
numbers of callers, scopes and workers, any limits, ceilings and reserves and any widths
of the batches (`BudgetAssumption`). `BudgetInv` is not inductive: a slice handed to a
worker becomes usage later, without a test, so what fits must count the slices that are out
(`Fits`); the reserve test of a batch and of a call are different code, and both must leave
`Fits(TRUE)` (`ReserveFits`); a share is opened empty because no call of its scope is on
the table before (`Scoped`), and a batch leaves nothing in flight behind it (`Quiet`).
`BudgetIInv` is their conjunction; TLC has checked it on the states of `turn`. What calls
hold is a sum over the set of the calls in flight, so the proof rests on what happens to
the sum when one call goes in flight, settles or is taken off the table (`HeldGrows`,
`HeldSettles`, `HeldCloses`), and on the division of a slice (`SliceFits`: the shares of a
batch, times its width, times the passes to come, stay inside what is left).

`DataInduction` has the induction this takes. The induction theorems of the library have a
predicate as a parameter, which the installed provers cannot instantiate; but that the
natural numbers are well-founded (`NatLessThanWellFounded`, `WFMin`) is stated of sets. From
it follow induction over a set of numbers (`NatInd`) and of finite sets (`FinInd`), then that
the fold behind `SumFunctionOnSet` has a fixed point (`SumExists`), that it does not depend on the order
of the elements (`SumTake`), and the rules for sums that the budget cites.

`AgentProofs` proves `HistoryCorrect` (`HistoryInv`) for any budget, window, cap and
sizes and any number of messages (`HistoryAssumption`). What a turn is told says nothing of
the next one by itself; `HistIInv` adds what ties them, and TLC has checked it on the
states of `turn` and for four more choices of the limits, a cap of one among them:

* `Numbered`: the ids of what is kept end before the next one and have no gap. So a boundary
  is a message that is kept or older than all of them, and one that fell out of the window is
  older than all of the window (`PlacedIs`): measuring the tail from the start, as
  `_compact_history` does then, repeats nothing.
* `Block`: the stored lines ascend to the boundary, which is a message that is read, and
  everything the window holds up to it has a line or was shed by a full block. The boundary
  a running turn has moved is such a block as well (`Given`) when it is stored a message
  later, and stays one when the oldest are trimmed (`BlockMore`).
* What is read of the kept messages beyond the boundary weighs no more than the target and
  what was said since; so a boundary that moves has had all of the room between target and
  budget said behind it (`BlockCompacted`, `BeginKeeps`).
* `Opened`: the message before an answer opened its turn, so trimming finds a start of a turn
  in what it may keep (`TrimmedIs`). With a cap of one it does not: the answer stays alone,
  where the comment in `_trim_messages` has the current turn retained. The proof found this;
  `KeptStartsWithTurn` says it.

It rests on what the window and the reading back compute, by induction over the prefixes they
are built from: `ReadableIs` and `ReadableSuffix` (filtering), `WindowIs` (what a window leaves
out is older than all of it), `CutAtIs`, `FlatAppend` and `FlatLast` (`FlattenSeq`), and
`ShowsMore` (one more message of the transcript), with the sums of `DataInduction`.

`AgentProofs` proves `AgentCorrect` (`AgentInv`) for any tools, skills and what they
disclose, any limits, sizes and room of the condensed message, any number of older
exchanges (`AgentAssumption`, `WindowAssumption`) and every reply a model may give. What
may be sent of a context, after up to two cuts, is no invariant by itself: it follows from
what every cut keeps of the messages it is given. `AgentIInv` has three parts, and TLC has
checked it on the states of `turn`.

* `RecordedSoFar`: the calls that ran stand in the order of the replies, and within a reply
  in theirs (`InOrder`, `NotBeyond`), so a key that ran again would be a call of the same
  reply (`RanOnce`). The context may be sent (`Sendable`): it is paired, and the lines a
  condensed message of all of it would have are calls that ran, in that order, together with
  every later one (`Recalls`); as long as a condensed message has room, with all of them.
  The newest exchange is the last (`EndsWith`). `TrimKeeps` shows that a cut to any size
  leaves all three, `ExchangeKeeps` and `ContinuationKeeps` that so does what is appended,
  and `SoundIs` and `LastTold` read the property off. Shedding the oldest lines of a
  condensed message needs the order: what is left is a suffix of what ran only because what
  is condensed later ran later.
* `AskedSoFar`: each call of the model that leaves the loop going ran an action or took one
  of the four retries, so the loop asks at most `MaxActions + 4` times, the synthesis twice
  and each continuation once.
* `ShownSoFar`: what was sent ends with what streamed in the last call, and after an action
  nothing was sent before that. So `finalize_assistant_message`, which makes what is stored
  begin with what streamed, or puts that before it, leaves a suffix of what was sent
  (`FinalizeIs`), and none of what followed the first action is missing from it.

`PlanProofs` proves `PlanCorrect` (`PlanInv`) and `PlanRestarts` (`RestartsAreNew`) for any
plans a planner may return (`PlanAssumption`: sequences of steps with whatever names and
edges, doubled, dangling and cyclic ones included), any limits and any number of turns.
TLC's run follows two plans; here a plan is arbitrary. `PlanIInv` is inductive, and TLC has
checked it on the states of `plans_and_schedules`. What it adds to the properties:

* `Family`: `order` lists the steps once each; a step is one that was planned or a child of
  an expanded one, named after its parent and its item; an expanded step has children. An
  expansion of nothing would be satisfied without having run, and a child whose name
  another step has would overwrite it: `ExpandWithKeeps` shows that neither happens.
* `DepsMet` is kept because a satisfied dependency stays so (`SatisfiedStays`), through
  retries and expansions too: nothing leaves "passed", and no child is added to a step
  that was expanded before (`Keeps`).
* `Paid`: the starts of a worker are at most the retry cycles used, one more once it does
  not wait, and the batches lost. A dispatch that sends failed steps back uses a cycle, so
  `AttemptsBounded` survives a turn boundary, where `iter` is carried with the plan. A turn
  that dies in its dispatcher starts a batch in a cycle that is not saved: that start is
  paid by `lost` (`LostIsPaid`), and the same holds of the second run of a batch whose
  fan-out start went unanswered (`BatchIsPaid`).
* `Settled`: a step whose approved action was executed is past its worker for good
  (`Past`): its result says so, or it may not be retried. With `Old` (the batches of this
  cycle hold no step that waits), a second start is under a batch name not used before.
* `Kept`: the planned steps stay in the plan with what they are, so a completed run is
  compared with the plan as it was made.
* Between turns this is claimed only while the conversation carries an unfinished plan
  (`Carries`); a message that drops the plan starts from none.

The passes over a plan are recursive functions, and what they return is proved by induction
over the prefixes they build on (`NatInd`): a `CHOOSE` of a table that satisfies the
recursion, which is shown to exist and then read off entry by entry. So
`UniqueIdsList` (no two steps get one name), `ThoseLists` (a set, listed once in the order
of a sequence) and `ExpandedKeeps` (every expansion of a pass leaves a family).

`PlanProofs` also proves `PlanShapeCorrect` (`ShapeIsRunnable`) for every graph a planner may
return. The code and the property say what a cycle is in two ways: `BreakCycles` runs the
plan until nothing more gets ready, and clears what it waits for that never will; the
property speaks of the steps that wait for themselves. They meet in the middle: what the run
never reaches is the largest set of which each step waits for another of the set
(`NeverIs`), and that is what waits for a step on a cycle, because in a finite graph a step
of such a set waits for one that waits for itself (`NeverWaits`). Freeing one step after
another ends with no such set (`FreedIs`, `BreakIs`), having cut only edges inside it
(`CutEdges`), and what closes a plan adds none (`PlanWalks`).

`PlanForecast` (`WavesForecast`) says that `_remaining_waves` simulates the dispatcher. What
the property says of one step needs `WavesIInv`, which TLC has checked over two turns with
two plans of four steps:

* `Acyclic`: a plan of which no step was expanded has no cycle, so every simulated pass takes
  a step (`PassShortens`), the passes end (`WavesIs`), and one pass less is one wave less
  (`OneWave`). The branch for a cycle in `_remaining_waves` is not reached for such a plan.
* `InTurn`: while no step has failed, the steps that are out, if no more than a batch, are
  the first, in plan order, of these and of those that could run. A batch is that when
  it starts alone (`BatchInTurn`). After a message that continues a plan with a step
  still parked there may be more out than a batch, or all that could run.
* The verifier has something to verify, and no step is parked then.

With that, what the pass is computed from (what is left, in plan order) becomes what is left
after the batch: taking from a sequence twice is taking from it once (`ThoseThose`).

Only model-checked: all liveness (fairness and ENABLED are out of the prover's reach), and
the safety of the modules not named above.
Of `ScheduleReconciler` what matters is liveness, and the run checks that.

## 8. Not modelled

Listed with reasons in `PROJECT.json`. The inside of a model call, prompts and tools,
rendering of parts, working memory, Cypher validation and result limits, authentication, telemetry, migrations, the command-line client and the pages of the
frontend are pure functions, remote I/O or generated code. Of the modelled parts: the
profile a session is locked to, the phase of interval schedules, what flows between the
stages of a workflow, the contents of a sandbox, remediation runs, the OAuth login and the
transport of a gateway, versions and pins of reports and toolsets. Two deletions of one
plugin at once are left out by a bound.
