# TLA+ models of the clankers session core

Clankers is a terminal coding agent.  A *session* accepts prompts, runs each one
as a turn of a model with tools, and may continue on its own: a loop repeats a
prompt, an auto-test runs after a prompt.  This directory models what decides
when a session may start work, who hears of its end and what follows: the
reducer, the controller around it, the two hosts that drive it, the embedded
TUI and the daemon, and the turn itself: the engine, its host and the agent's
adapters.  Around that core it models three parts where tasks, processes and
restarts meet: the daemon's sessions with their catalog, the supervision of
stdio plugins, and the OAuth credentials that all processes share.  Paths below
are relative to the repository's root.

## 1. Inventory

| Part | State it keeps | Operations | What is hard |
|---|---|---|---|
| `crates/clankers-core` (reducer) | `CoreState`: busy, pending prompt, pending follow-up with its stage, pending tool filter, active loop, auto-test and thinking settings, last effect id | `reduce(state, input)`: prompt requested/completed, post-prompt evaluation, follow-up acknowledged/completed, thinking level, disabled tools, tool filter applied, start/stop loop | feedback that is late, repeated or for other work |
| `crates/clankers-controller` | the core state, mirrors of parts of it, the loop id, the loop engine (`clanker_loop`, external), the agent in daemon mode | session commands (daemon), the embedded API (`start_embedded_prompt`, `check_post_prompt`, `ack_follow_up_dispatch`, ...), agent events | three copies of one fact (reducer, mirror, loop engine) updated by hand |
| `src/modes/event_loop_runner`, `agent_task.rs`, `core_actions.rs`, `event_handlers.rs`, `/loop` | TUI state: streaming, queued prompt, loop display; three channels; the agent's phase and token | the phases of the event loop, submit, cancel, loop commands, schedules; the agent task with abort | two tasks, events and results on different channels, a bounded drain |
| `src/modes/daemon/agent_process.rs`, `session_plugins.rs` | the controller and its agent, the command channel, pending commands, signals, confirmation requests | `select` over commands, signals, confirmations and ticks; commands during a prompt; shutdown | several clients, cancellation, a channel that closes, a tool that asks back |
| `crates/clankers-controller/src/confirm.rs`, `src/tools/bash.rs` | requests that wait for an answer | register, respond, bridge task with a timeout | who polls while everybody waits |
| `crates/clankers-agent` | messages, cancellation token | `prompt`: hooks, authorization, events, turn | early returns between the events |
| `crates/clankers-engine`, `clankers-engine-host` | the turn: phase, requests, tool calls, retries | reduce, run the effects | cancellation inside a tool batch, retries |
| `src/modes/daemon` (`mod.rs`, `session_store.rs`, `socket_bridge.rs`, keyed sessions), `transport.rs`, Matrix bridge | the table of sessions and keys, the catalog on disk | find or create a keyed session, create, attach, kill, `!restart`, reap, collect, shut down, start | table and catalog written under different locks or none; a crash between two writes |
| `crates/clankers-plugin` (stdio), `src/tools/plugin_tool.rs` | plugin state, supervisors, live tools; tasks, command channels, pending calls | start, stop, enable, disable, reload, restart with backoff, tool calls with timeout and cancellation | an old run's task beside the new one's |
| `crates/clankers-provider` (`credential_manager.rs`), `crates/clanker-router/src/auth.rs`, login and switch in `agent_task.rs` | the credential in memory, the refresh guard, `auth.json` and its lock | get, force refresh, save, reload, login, switch | concurrent refreshes, a file shared by processes, cancellation at any await |
| attach client, bridges | queue and view of a client | connect, replay | clients that lag |
| everything else (router, WASM plugins, TUI widgets, storage, auth, tools, ...) | see `components` in `PROJECT.json` | | outside the modelled parts |

Interactions: a host calls the controller synchronously, the controller calls
the reducer and executes its effects before it returns.  The TUI's event loop
and agent task exchange commands, events and results over channels.  In the
daemon the prompt's future runs inside the actor's task, so the actor does
nothing else but listen for commands until it ends.

Correctness, in one line per part: the reducer never loses or mixes up work;
the controller's copies agree; the TUI dispatches and retires every follow-up
and replays what was typed during a turn; the daemon handles commands in order,
returns to idle, stops when told to and saves what it holds, and finds its
sessions again after a restart; a plugin's state and tools are those of its
running process, and a stop releases who waits for it; refreshes coalesce and
saves lose no account.  `hazards` in
`PROJECT.json` lists what can go wrong line by line, with the property that
would show it.

## 2. Modules

| Module | Models |
|---|---|
| `CoreReducer` | every reducer of `reducer.rs` as an operator from a state and an input to `[state, events, effects]` or a rejection |
| `Controller` | the controller's operations as operators on its state; the loop engine, external, from how `loop_mode.rs` uses it |
| `PendingWork` | abstract specification: what a session promises about outstanding work |
| `SessionController` | a controller and a host that calls anything in any order with any issued id |
| `SessionControllerProofs` | the theorems about `SessionController` |
| `EmbeddedSessionProofs`, `DaemonSessionProofs`, `EngineTurnProofs`, `DaemonSessionsProofs`, `StdioPluginProofs`, `CredentialsProofs` | the theorems about the module each is named after |
| `EmbeddedSession` | the controller inside the TUI: event loop, agent task, channels, user, schedules |
| `MCEmbeddedSession` | the setups (auto-test, inputs, failures) that its runs cover |
| `DaemonSession` | the controller inside the daemon's session actor: clients, signals, turn, confirmations |
| `Engine` | the reducer of a turn, `crates/clankers-engine`, as operators from a state and an input to an outcome |
| `EngineTurn` | one turn of the agent: `run_turn_loop`, the loop of `run_engine_turn` over the engine's effects, the agent's adapters and transcript |
| `DaemonSessions` | the daemon's sessions over its lives: table, catalog, the tasks that create, recover, kill, reap and collect, shutdown, crash and start |
| `StdioPlugin` | one stdio plugin: manager, supervisor tasks, process, user, tool calls |
| `Credentials` | the OAuth credentials of a provider: requests, `do_refresh`, savers, `auth.json`, login and switch |
| `MCCredentials` | all tasks in one process, and the symmetry of tasks |

`EmbeddedSession` and `DaemonSession` extend `Controller`, so all three
specifications run the same translation of the controller.  The operators keep
the names of the functions they translate.  Some details worth knowing:

* **Data.**  A prompt has no text: what matters is which effect id it runs under
  and, in the TUI, who sent it.  A set of disabled tools is a model value, a loop
  is its limit, its count and whether a break was signalled; whether the output
  matched the loop's condition is a free choice (`matched`).
* **`None`** stands for Rust's `None`; `IdLimit` for the value at which effect ids
  saturate (`u64::MAX`).
* **A whole handler is one action.**  `HandlePromptDone` is one pass of
  `handle_task_results`: completion, sync of the loop display, post-prompt
  evaluation and the dispatch or replay that follows.
* **The event loop** goes through `pc = "events"`, `"results"`, `"input"` in the
  order of `run()`.  The drain of events is bounded (`MaxDrain`), so results can be
  handled while events of the same turn are still queued.
* **A turn** is denied before it emits anything, fails between `AgentStart` and
  `AgentEnd`, or ends, cancelled or not, with `AgentEnd` before its result.  The
  agent task drops every command but `Abort` meanwhile, as the code does.
* **The daemon's commands** carry a number, their position in the history `sent`,
  so that order can be stated.  `Query` stands for the commands that leave the
  modelled state alone.  The agent that `handle_prompt_inner` takes out of the
  controller is lost if its future is dropped (`agent.present`).
* **The engine's turn** is one step in the session modules and a module of its own:
  `EngineTurn` stops at each await (`pc` is `"model"`, `"retry"` or `"tool"`), and the
  token may be cancelled anywhere.  `outcome` is the last outcome of the reducer and
  carries the engine's state, which the code keeps in `state` as well.  A response is
  its stop reason (`ToolUse` or another) and its tool calls, whose ids may repeat; a
  stream that does not fold is a failure.  A message is who speaks, the calls made or
  the call answered, and whether the result is an error.  The outcomes of a tool leave
  out `Cancelled`: `AgentToolHost` makes its outcome of the tool's message and never
  returns it (`turn/execution.rs:397`).  The proofs need that: from a host that returned
  it without a cancelled token, the engine would finish inside the batch and the rest of the
  batch would still run.
* **Setups.**  What an embedded session is configured with and may meet is a record
  chosen in `Init` (`setup`), so that one run covers loops with everything the user may
  type, auto-tests with schedules, and failing turns in both.  Loops and auto-tests are
  not combined: section 4 says why.
* **The catalog** is a database: `set_state` and the updater read an entry and write
  it in two transactions.  The last writer decides the state, so each is one step, and
  an entry that somebody writes back over a step between the two is a choice of that
  step (`OrWrittenBack`, `Collect`).  A crash may come between any two steps and keeps
  the catalog only.
* **History variables** say what a property is about and steer nothing: `served`,
  `raced`, `killed` (`DaemonSessions`), `replaced`, `lost`, `intact` (`Credentials`),
  `sent` (`DaemonSession`).  `replaced` is written in the step in which the server answers
  a refresh token, whatever becomes of the answer; `lost` holds the answers of refreshes
  that were cancelled, or whose save failed, before they were in memory.
* **Runs of a plugin.**  A start has a run id; the task of an older run may go on.
  Critical sections of a task are merged where a step of another thread between them
  has the effect of one before or after both; the module's comment lists the ones
  that stay apart.  The process is the environment: it may exit, speak, break the
  protocol or do nothing at any time.
* **Tokens** stand for an access token with its refresh token, and expire in the order
  they are issued.  The file is truncated, then written, and loads as an empty store
  in between.  The background refresh is one of the tasks.  A task saves one token at
  a time, and the user logs in or switches once.
* **`Tick`** may turn `asks_first` off: the rebuilt tool list of `session_plugins.rs`
  comes in the order of a hash map, and an inventory that compares different is
  replaced by tools without the confirmation channel.

## 3. Runs

| Run | Question | Result |
|---|---|---|
| `controller` | does the controller keep its promises whatever its host does? | holds |
| `embedded` | loops in the TUI with pauses, stops, cancels, queued prompts and failing turns; auto-tests with failing turns and scheduled prompts in between | holds |
| `daemon` | the session actor with all its commands, signals, confirmations, a closing channel | holds |
| `engine_turn` | a turn with tool batches, retries, failures and cancellation at any moment | holds |
| `daemon_sessions` | are the daemon's sessions found again, whatever falls between two steps? | holds |
| `stdio_plugin` | a plugin that crashes, is stopped and started while its tasks and calls go on | holds |
| `credentials` | concurrent refreshes, saves, cancellation, login and switch | holds |
| `loop_limit` | does `/loop N` run N times? | violated, finding 1 |
| `daemon_confirm` | is a confirmation always answered? | violated, finding 2 |
| `session_keys` | do the key mappings on disk and in memory agree? | violated, finding 3 |
| `queued_prompt` | is a prompt typed during a turn always replayed? | violated, finding 4 |
| `refresh_once` | is a refresh token never sent again while its replacement is fresh? | violated, finding 5 |

**What the passing runs show.**

* `controller` (44,080 states).  `BusyIffPromptPending`, `MirrorsFollowCore`,
  `LoopRegistrationExact`, `LoopFollowUpHasLoop`,
  `NoToolFilterPending` relate the copies of the controller's state after every
  operation.  `ImplementsPendingWork` is the refinement of `PendingWork`: nothing
  pending is overwritten, stages go forwards, and work starts only in an empty
  slot under an id never used before.  `PendingWork` lets work end for any reason;
  that an answer ends only the work whose id it carries, however late it comes, is
  `FeedbackCorrelates`: a completion or acknowledgement with any other id changes
  nothing, and the completion of a follow-up ends no other work's prompt.
* `embedded` (711,944 states).  A dispatched follow-up can be correlated until its
  prompt ends (`DispatchedFollowUpStaysCorrelated`) and is retired (`FollowUpRetired`).
  Every handler that plans a follow-up dispatches it or hears of the refusal, except
  the one of a failed result (`OnlyFailureLeavesFollowUp`).  A prompt typed while a
  turn's result is still to come is replayed unless such a failure has left a follow-up
  (`QueuedPromptReplayedUnlessLeft`; without the exception it is finding 4).  No
  auto-test sets off the next: a successful one plans none, and what a failed one plans
  is never sent (`AutoTestNeverFeedsItself`).
* `daemon` (184,983 states).  `CommandsInOrder` spans the channel and the queue of
  commands kept during a prompt.  `BusyIffPrompting` and `AutoTestGuardCleared` say
  that no path, refused, failed, cancelled or completed, leaves the session stuck;
  `CommandsTaken` and `SignalStops` that it comes back to listen and stops;
  `NothingUnsavedWhenStopped` that shutdown saves what a failed turn left unsaved.
* `engine_turn` (40,956 states).  The model is never asked with a call open
  (`RequestsAnswered`), the engine's messages and the session's transcript are the
  same conversation whenever it is asked and after a success (`TranscriptAgrees`),
  attempts and requests stay within retries and budget (`CallsBounded`), success
  means that the engine finished and said so once, also beside the step limit
  (`OkIsFinished`), the host's place in a batch agrees with the engine's
  (`ToolsRunInOrder`), and `TurnStart` and `TurnEnd` alternate, retries included
  (`TurnEventsPaired`).
* `daemon_sessions` (2.8 million states up to symmetry).  A key in the index names a
  registered session (`KeysResolve`).  A registered session is in the catalog, unless
  its creation is still under way or somebody killed it (`RegisteredIsRecoverable`):
  the daemon may die in any state.  The session that answered a key's last message is
  the one the next message finds, over crashes and restarts, until it is ended on
  purpose (`ConversationSurvivesRestart`); keys for which two messages created
  sessions at once are left out (`raced`), finding 3 is about them, and so is a key
  that the collector removes after it was given to another session.
* `stdio_plugin` (357,885 states).  The state shown is the state of the supervisor in
  charge and no older task's (`StateMatchesSupervisor`), the tools belong to an open
  connection (`ToolsOfOpenConnection`), a process that exits is started again or given
  up (`RestartsOrGivesUp`), and a call on a stopped run ends without its timeout
  (`StopReleasesCalls`).
* `credentials` (1.1 million states up to symmetry).  A process sends a refresh token
  again only when the answer to it has expired too, or when the refresh that got the
  answer was cancelled or could not save it (`RefreshesCoalesce`; without the exception
  it is finding 5); the guard is
  held exactly by the request that refreshes, cancelled or failing ones included (part
  of `TypeOK`); as long as every writer held the lock, no account is lost, although
  readers take none (`LockedSavesKeepAccounts`).

**Bounds.**  `controller`: four effect ids are enough for a prompt, a follow-up, its
prompt and one more piece of work, that is for stale ids of each kind next to
pending work; two loop ids so that a leaked registration does not hide; loops of
one and two iterations.  Embedded: two inputs of the user (one starts work, one
interferes at any point) and a loop of three iterations, so that it continues, continues
again and ends, and something may come between two continuations; a drain of two events so that the bound is reached; one
scheduled prompt where schedules matter.  Each kind of failing turn (denied, ended early
with or without its `AgentEnd`) occurs with loops and with auto-tests; which of them
meet which inputs is limited by the number of states.  The follow-ups a session makes by itself
are not bounded by a constant: they end by themselves, and the runs are finite
because they do.  Daemon: three commands, so that one runs, one waits in the
channel and one is kept.  Engine: two retries as in the code, batches of up to two
calls (complete, incomplete, repeated ids), budgets 0 (refused), 1 and 2 (exhausted
at once and after a continuation), and a step limit of 7, which is exactly what
budget 1 needs and less than budget 2 may, so that both sides of the limit occur.
Daemon sessions: one key, two requests
that race for it or beside it, two sessions, so that one can take the other's place,
and two lives, so that there is a restart; a session is never created in a third.
Plugin: two runs, so that an old task meets a new one, a restart limit of two, so that
one failure backs off and the second gives up, and one call, which may wait on either
run.  Credentials: two tasks, two accounts, and five tokens: the accounts' and three more,
for a refresh that is cut short and two that follow it; `Explored` leaves out what comes
after a second one cut short, or after one beside a login or switch.  `queued_prompt` and
`refresh_once` have smaller instances: one setup, and four tokens.  Symmetry is used for the requests and the
tasks, which no definition tells apart, in runs of invariants only.  `CHECK_DEADLOCK FALSE`
where the system may stop: a stopped session, a turn that has returned, a plugin host
that is gone, the last life of the daemon, and credentials when the bounded server has
no more tokens.

**Fairness.**  The TUI's event loop polls forever, and one of its steps is always
possible, so `[]<><<RunnerNext>>_vars` is its weak fairness; it is not fair to what
the user types.  The agent task is weakly fair: a turn ends, since streams have
timeouts and retries are bounded.  In the daemon the runtime keeps polling the
actor, the prompt's future and the bridge tasks; each is weakly fair, with ENABLED
written out for the first two (`ActorReady`, `TurnReady`) because TLC evaluates the
large actions slowly inside ENABLED.  Clients owe nothing: no command, answer,
signal or closing is assumed to come.  Nor is the choice inside the `select` fair,
and the properties do not need it to be: `SignalStops` holds because commands run
out (bounded clients).  `EngineTurn` assumes no fairness: its properties are
invariants, and the step limit bounds its loop.  `DaemonSessions` and `Credentials`
assume none either.  In `StdioPlugin` each supervisor task is weakly fair, timers
included (the runtime polls it, and the grace period and the delays end), and so is
a call that has something to receive; the process, the user and the tool's timeout
are not, so both liveness properties hold for a process that never exits or answers.

## 4. Findings

1. The TUI's loop display is cleared before the check that ends a loop at its limit
   (`event_loop_runner/mod.rs:591`), so it survives, and the next ordinary result
   syncs it back and starts the loop again.
2. The request of the bash tool for a confirmation is only received by the actor
   between prompts (`agent_process.rs:184`), and the tool asks during one.  The 60 s
   timeout starts when the request is received, so prompt and actor wait for ever.
3. Two first messages of one key both find no session, register one each, and write
   the key to the catalog after they have unlocked the table (`agent_process.rs:622`).
   The order of the writes need not be that of the registrations: the key then names
   one session in memory and the other one on disk, where the next life finds it.
4. After a failed prompt `handle_task_results` asks `check_post_prompt` what to do and
   acts on a replay only (`event_loop_runner/mod.rs:543`).  The call has already stored
   the auto-test or continuation it planned as pending; nobody dispatches or acknowledges
   it, and every later check returns at it.  A prompt typed during a later turn is then
   never replayed, and no follow-up runs any more.
5. `do_refresh` puts a new token in memory after it was saved
   (`credential_manager.rs:183`).  A request that is cancelled meanwhile, or whose save
   fails, releases the guard with the old token in memory; the next one reads the file
   before the save has reached it, or finds it unchanged, and sends the same refresh
   token again although the server has answered it.

`findings` in `PROJECT.json` quotes the lines of the repository they contradict.

Other behaviour of the code that the models show, and where it bounds what the passing
runs state:

* A cancellation inside a batch of tools does not leave the batch
  (`clankers-engine-host/src/lib.rs:277`): the next call cancels the finished engine once
  more, and that rejection replaces the outcome whose terminal events were about to be
  surfaced, contrary to `embeddable-agent-engine/spec.md:240`.  `run_turn_loop` hides it
  from the session by looking at the token first; an embedding application sees a
  rejected turn.  `OkIsFinished` is about successes for that reason.
* `force_refresh` calls `do_refresh`, whose re-check returns any credential that has not
  expired (`credential_manager.rs:162`), also the one the server has just rejected, so
  that the retry after a 401 may be made with the same token.  The comment at line 131
  says that it ignores the expiry in memory; the test
  `force_refresh_on_fresh_cred_returns_ok` (line 1214) pins that it does not.
* `finish_loop` (`loop_mode.rs:158`) drops any pending follow-up, also the auto-test
  that the same post-prompt check has just planned; its prompt runs, but its
  acknowledgement and completion are rejected and the session stays busy.  Hence the
  setups of `embedded` do not combine loops with auto-tests.
* The auto-test that a failed result plans may be the next one of an auto-test that
  failed: its completion has lowered the guard that "prevents recursive auto-test triggers"
  (`clankers-controller/src/lib.rs:238`).  It is never sent (finding 4), so no recursion
  follows.  A loop ends with the failure of its prompt, but a prompt queued during an
  iteration is replayed while the loop goes on, and if it is denied the controller
  knows of no prompt whose failure would end the loop, and plans the next iteration.
* `/review` queues its prompt in an idle session (`slash_commands/handlers/tui.rs:472`),
  where nothing takes it before another prompt has ended; it is not among the inputs.
* `Abort` leaves the daemon's token cancelled until a `ResetCancel` (`command.rs:60`):
  the next prompt may be cancelled before its model request.
* A turn that waits for a confirmation is excepted in `CommandsTaken` and `SignalStops`
  (finding 2).
* A plugin task that gives up while the user disables its plugin reports its final
  state afterwards, since nobody else supervises the plugin: it then shows as in error,
  and `reload` starts nothing.
* While a stopped plugin run still has its connection, a frame of it may replace the tools
  of the run that was started after it (`stdio_runtime.rs:1217`).  `ToolsOfOpenConnection`
  excludes tools whose connection is gone, not that.
* `KillSession` of a suspended session leaves its handle and its keys: the next message
  of its key recovers it.  At a shutdown `transition_all` can turn a session killed at
  that moment back into a suspended one.  `killed` sessions are excepted for that
  reason.
* Login and account switch load and save `auth.json` without its lock
  (`agent_task.rs:222`), and a saver goes on without it after 30 attempts; a save that
  loads a truncated file loses the other accounts (`intact`).
* A refreshed token is saved under the account that is active at that moment, which a
  switch may have changed since the refresh began.

## 5. Proofs

Seven modules prove every invariant that the passing runs check, the action properties of
`controller` and `embedded` and the refinement of `PendingWork`, for every value of the constants that satisfies the named assumptions
of the modules.  Those are: bounds are naturals (positive where the code needs one
step), the model value that stands for an absence (`None`, `NoKey`, `NoTask`,
`NoRequest`) is not one of the data it stands beside, there is an auto-test command, every task has a process and
every account a token to start with, and no tool returns `Cancelled` (section 2).

| Module | Theorem | Statement |
|---|---|---|
| each | `Invariant`, `TypeCorrect` | `Spec => []IInv`, `Spec => []TypeOK` |
| `SessionControllerProofs` | `BusyCorrect` | `Spec => []BusyIffPromptPending` |
| | `MirrorsCorrect` | `Spec => []MirrorsFollowCore` |
| | `LoopsCorrect` | `Spec => []LoopRegistrationExact` |
| | `FollowUpsCorrect` | `Spec => []LoopFollowUpHasLoop` |
| | `IdsCorrect` | `Spec => []PendingIdsCorrelate` |
| | `FeedbackCorrect` | `Spec => FeedbackCorrelates` |
| | `ToolFilterCorrect` | `Spec => []NoToolFilterPending` |
| | `Refinement` | `Spec => ImplementsPendingWork` |
| `EmbeddedSessionProofs` | `CorrelatedCorrect` | all setups `Separate`: `Spec => []DispatchedFollowUpStaysCorrelated` |
| | `DispatchedCorrect` | `Spec => OnlyFailureLeavesFollowUp` |
| | `AutoTestCorrect` | `Spec => AutoTestNeverFeedsItself` |
| `DaemonSessionProofs` | `BusyCorrect` | `Spec => []BusyIffPrompting` |
| | `AutoTestCorrect` | `Spec => []AutoTestGuardCleared` |
| | `OrderCorrect` | `Spec => []CommandsInOrder` |
| | `SavedCorrect` | `Spec => []NothingUnsavedWhenStopped` |
| `EngineTurnProofs` | `AnsweredCorrect` | `Spec => []RequestsAnswered` |
| | `TranscriptCorrect` | `Spec => []TranscriptAgrees` |
| | `CallsCorrect` | `Spec => []CallsBounded` |
| | `OkCorrect` | `Spec => []OkIsFinished` |
| | `ToolsCorrect` | `Spec => []ToolsRunInOrder` |
| | `EventsCorrect` | `Spec => []TurnEventsPaired` |
| `DaemonSessionsProofs` | `KeysCorrect` | `Spec => []KeysResolve` |
| | `RecoverableCorrect` | `Spec => []RegisteredIsRecoverable` |
| | `ConversationCorrect` | `Spec => []ConversationSurvivesRestart` |
| `StdioPluginProofs` | `StateCorrect` | `Spec => []StateMatchesSupervisor` |
| | `ToolsCorrect` | `Spec => []ToolsOfOpenConnection` |
| `CredentialsProofs` | `CoalesceCorrect` | `Spec => []RefreshesCoalesce` |
| | `SavesCorrect` | `Spec => []LockedSavesKeepAccounts` |

Each proof has an inductive invariant `IInv`, a conjunction of named parts, that TLC
checked on the instances of the runs before it was proved; lemmas about the operators;
a lemma per action or per part of the invariant; and the theorems by `PTL`.

**The controller.**  None of its properties is inductive alone: `busy` may only be
cleared because it is the pending prompt that ends, a loop's continuation may only
be planned because the loop exists in reducer, controller and engine alike, and
fresh ids differ from pending ones only because pending ones were issued.  `IInv`
is their conjunction in three layers.  `CoreOK` speaks of the core state alone, and
every reducer step keeps it.  `Steady` adds the types of the controller, the mirrors
and that the engine holds exactly the controller's loop.  `Linked` ties the reducer's
loop to the controller's and a loop follow-up to its loop.  The layers are needed
because an operation breaks them one at a time: when a follow-up fails the reducer
forgets the loop first, so `Linked` is false until `finish_loop` has run, and
`finish_loop` establishes `Good` from `Steady` alone.  One lemma per reducer says
that it keeps `CoreOK` and makes a step of `PendingWork` (`WorkStep`: accept, plan,
dispatch, spend an id, retire).  One lemma per controller operation lifts that to
`Keeps(c, d)`: from `Good(c)` to `Good(d)` with at most one `WorkStep`.  `StepKeeps`
goes through the disjuncts of `Next`, and `Refinement` turns each `WorkStep` into an
action of `PendingWork` under the mapping of the module `SessionController`.

**The embedded session.**  Three of its theorems hold for every setup, failing turns
included.  `CorrelatedCorrect` has the hypothesis that no setup combines loops with
auto-tests (`Separate`), because `finish_loop` refutes it outside (section 4).  `IInv`
consists of the types (`TypeOK`, `QueuedTyped`), `Sane` (reducer, mirrors and loop engine
agree on the loop, and a pending auto-test has its guard up), `NoLoopUnasked`, and, for
separate setups, `Correlated`: the prompt of a follow-up comes and goes with it.  A lemma
per operation of the controller keeps `Sane` and says what becomes of the pending work.
The two action properties follow step by step: `ResultFollowUp` says what a result leaves
pending (what was pending before, nothing, or what it planned, dispatched unless it
failed), `FollowUpKept` and `FollowUpSteps` that no other step of the two tasks plans or
replaces a follow-up.

**The daemon's actor.**  `ControllerFollows` makes the controller's flags, the
reducer's and the mirrors a function of where the actor is: `Ctl(ctl, busy, testing)`,
with `busy` also once the agent is lost with a dropped future.  A lemma per
operation (`start_embedded_prompt` to `finish_loop`) moves a controller from one such
state to another.  `PromptHasTurn` says that
a prompt has its agent and its future.  `CommandsInOrder` follows from `QueuesInOrder`
(history, kept commands and channel are sorted one after the other) and `NoneLost`
(only an `Abort` leaves the queues without being handled).

**A turn.**  What the host's loop has still to run always fits the engine's phase
(`LoopFits`, on `PhaseFields` and `HostPosition`): a request, a retry, the calls of
the batch without a result, or terminal events, with one exception, the rest of a batch
whose turn was cancelled (`Leftover`).  The buffered results are a prefix of the batch,
also with repeated ids, where the engine rejects the second result.
On that rest `Conversation` (every call but the open batch's is answered), `Agreement`
(the transcript is the engine's messages with the buffered results), `Calls` (attempts
per request) and `Announced` (events, and what the transcript remembers of its open
turn).  The proof first describes the outcomes of each reducer by the fields that count
(`Continues`, `Fails`, `Retries`, `StartsBatch`, ...), then each action by the host's
step (`StepCases`), and shows each part of the invariant from these.

**The daemon's sessions.**  `ConversationSurvivesRestart` needs four records to agree
for a key nobody raced for: the last answer, the index, the key table on disk and
the catalog's lifecycle (`MappingsAgree`, `Kept`).  They are written after the
unlock, so further parts say who may be in between and what the others cannot do
meanwhile: `OneCreator`, `CreatorOwnsKey`, `UnkeyedPrivate`, `InsertIsNew`,
`UndoneIsGone`, `CollectedIsDead`; and nothing names an id not yet issued (`Unissued`)
or survives in memory between two lives (`DownIsEmpty`).

**Plugins.**  `StateMatchesSupervisor` and `ToolsOfOpenConnection` are inductive with the
types, given that a task that ends knows the state to end with (`EndsWithState`)
and that the user's start has an id left (`StartHasId`).  `TaskTo` describes what
a section does to the tasks, and each section is shown to keep both.

**Credentials.**  A refresh past its re-check holds the guard and runs against an
expired credential (`RefreshNeeded`, `TokensKnown`).  The answer to a refresh token is
recorded as soon as it is there; from then on it is with the request that waits for its
save, in `lost`, or memory holds it or a later token (`MemoryLatest`), so that only one of
the two exceptions lets the same refresh token go out again.  As long as all writers lock, a saver
between load and write has the lock and a whole store (`WholeUnderLock`).

**Only model-checked.**  The liveness properties (`QueuedPromptReplayedUnlessLeft`,
`FollowUpRetired`, `CommandsTaken`, `SignalStops`, `RestartsOrGivesUp`,
`StopReleasesCalls`), which the prover cannot do.

## 6. Not modelled

The reasons are in `components`.  In short: pure functions and formatting, I/O
bindings and storage, rendering, and, for now, the attach client, the router's retries
and the job runtime.  Inside the modelled parts: session rewrite, resume and compaction
commands, hooks other than their refusal of a prompt, audit, metrics, the panels of the
TUI, the todo store, and orchestrated turns, which are turns like any other here; WASM
plugins, events delivered to plugins and collisions of tool names; API keys, the second
auth file, the credential pool and a write that fails half-way; ephemeral agents and
the authorization of keys.  The repository is large (about 265,000 lines, most of them
tools, adapters, contracts, widgets, scripts and tests); the models cover the parts in
which several actors share state.

## 7. Plan

1. Done: `CoreReducer`, `Controller`, `SessionController` with `PendingWork`, their
   runs and proofs; `EmbeddedSession`; `DaemonSession`; `Engine` and `EngineTurn`;
   `DaemonSessions`; `StdioPlugin`; `Credentials`.
2. Done: the proofs of all invariants, the refinement and the action property.
3. `AttachClient` composed with a session: its queue, `ResetCancel`, events it missed.
4. Several turns of one session, where a cancelled turn hands on a transcript with open
   calls.
5. Two processes that share `auth.json` (`Home` of `Credentials` is a parameter for
   that; the instance is large).

## 8. How to run

`tlc -config MCDaemon.cfg DaemonSession`, and likewise for the other configurations
with the module named in `runs`; `tlapm EngineTurnProofs.tla`, and likewise for the
other modules of proofs (two to three minutes each for `SessionControllerProofs`,
`EmbeddedSessionProofs`, `DaemonSessionProofs` and `EngineTurnProofs`, less for the others).
