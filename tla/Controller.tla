----------------------------- MODULE Controller -----------------------------
(***************************************************************************)
(* The operations of SessionController (crates/clankers-controller) as     *)
(* functions of the controller's state c.  A host calls several of them in *)
(* a row inside one of its own handlers, so they are operators here and    *)
(* become actions in the modules that have hosts: SessionController,       *)
(* EmbeddedSession and DaemonSession.                                      *)
(*                                                                         *)
(* The controller keeps the core state and, next to it, mirrors of some of *)
(* its fields, the id of the loop it runs and the loop engine (an external *)
(* crate, modelled from the calls made here).                              *)
(***************************************************************************)
EXTENDS CoreReducer

------------------------------------------------------------------------------
(* The loop engine, clanker_loop::LoopEngine: the registered loops.        *)

LoopState ==
    [current_iteration : Nat, max_iterations : Nat, break_signalled : BOOLEAN]

Loops == [LoopIds -> LoopState \cup {None}]

ASSUME LoopAssumption == None \notin LoopState

FreeLoopIds(loops) == {id \in LoopIds : loops[id] = None}

register(loops, id, max_iterations) ==
    [loops EXCEPT ![id] = [current_iteration |-> 0,
                           max_iterations    |-> max_iterations,
                           break_signalled   |-> FALSE]]

remove(loops, id) == [loops EXCEPT ![id] = None]

signal_break(loops, id) == [loops EXCEPT ![id].break_signalled = TRUE]

\* One more iteration of loop id; matched says whether the turn's output meets
\* the break condition.
record_iteration(loops, id) == [loops EXCEPT ![id].current_iteration = @ + 1]

should_continue(loop, matched) ==
    /\ ~matched
    /\ ~loop.break_signalled
    /\ loop.current_iteration < loop.max_iterations

------------------------------------------------------------------------------
(* The controller's state and its mirrors of the core state.               *)

ControllerState ==
    [core                  : CoreState,
     busy                  : BOOLEAN,
     disabled_tools        : ToolSets,
     auto_test_enabled     : BOOLEAN,
     auto_test_command     : Commands \cup {None},
     auto_test_in_progress : BOOLEAN,
     active_loop_id        : LoopIds \cup {None},
     loops                 : Loops]

NewController(level, enabled, command) ==
    [core                  |-> InitialCore(level, enabled, command),
     busy                  |-> FALSE,
     disabled_tools        |-> NoTools,
     auto_test_enabled     |-> enabled,
     auto_test_command     |-> command,
     auto_test_in_progress |-> FALSE,
     active_loop_id        |-> None,
     loops                 |-> [id \in LoopIds |-> None]]

apply_core_state(c, next_state) ==
    [c EXCEPT !.core = next_state,
              !.busy = next_state.busy,
              !.disabled_tools = next_state.disabled_tools,
              !.auto_test_enabled = next_state.auto_test_enabled,
              !.auto_test_command = next_state.auto_test_command,
              !.auto_test_in_progress = next_state.auto_test_in_progress]

------------------------------------------------------------------------------
(* Loop mode. *)

has_active_loop(c) == c.active_loop_id # None

\* Mutant: the follow-up of the finished loop stays pending.
finish_loop_keeping_follow_up(c) ==
    [c EXCEPT !.loops = IF has_active_loop(c) THEN remove(@, c.active_loop_id) ELSE @,
              !.active_loop_id = None,
              !.core.active_loop = None]

\* Drop the loop from the engine and forget it, whatever it was waiting for.
finish_loop(c) ==
    [c EXCEPT !.loops = IF has_active_loop(c) THEN remove(@, c.active_loop_id) ELSE @,
              !.active_loop_id = None,
              !.core.active_loop = None,
              !.core.pending_follow_up = None]

\* Registration fails when the engine has no room for another loop.
CanRegister(c) == FreeLoopIds(c.loops) # {}

start_loop(c, max_iterations) ==
    LET id == CHOOSE i \in FreeLoopIds(c.loops) : TRUE
    IN  IF ~CanRegister(c)
        THEN c
        ELSE [c EXCEPT !.loops = register(@, id, max_iterations),
                       !.active_loop_id = id,
                       !.core.active_loop = NewLoop(id, max_iterations)]

\* The loop engine records an iteration; the result tells the loop state the
\* reducer is to be given and whether the loop is over.
observe_post_prompt_loop_state(c, matched) ==
    LET id == c.active_loop_id
        loops == record_iteration(c.loops, id)
        previous == c.core.active_loop
    IN  IF ~has_active_loop(c)
        THEN [ctl |-> c, active_loop |-> None, finished |-> FALSE]
        ELSE IF ~should_continue(loops[id], matched)
        THEN [ctl |-> [c EXCEPT !.loops = loops], active_loop |-> None, finished |-> TRUE]
        ELSE [ctl |-> [c EXCEPT !.loops = loops],
              active_loop |-> [loop_id |-> id,
                               current_iteration |-> loops[id].current_iteration,
                               max_iterations |-> IF previous = None THEN 0
                                                  ELSE previous.max_iterations],
              finished |-> FALSE]

maybe_continue_loop(c, matched) ==
    LET observed == observe_post_prompt_loop_state(c, matched)
    IN  IF observed.finished
        THEN finish_loop(observed.ctl)
        ELSE [observed.ctl EXCEPT !.core.active_loop = observed.active_loop]

stop_loop(c) == finish_loop(c)

signal_loop_break(c) ==
    IF has_active_loop(c)
    THEN [c EXCEPT !.loops = signal_break(@, c.active_loop_id)]
    ELSE c

\* status is the iteration limit of the host's loop, None when it has none.
sync_loop_status(c, status) ==
    IF status # None /\ ~has_active_loop(c)
    THEN start_loop(c, status)
    ELSE IF status = None /\ has_active_loop(c)
    THEN finish_loop(c)
    ELSE c

------------------------------------------------------------------------------
(* Prompts. *)

\* The reducer's part of every way to start a prompt: handle_prompt_inner,
\* submit_prompt_with_runtime_adapter and start_embedded_prompt_with_follow_up.
start_prompt(c, originating) ==
    LET outcome == reduce_prompt_requested(c.core, originating)
    IN  IF outcome.ok THEN apply_core_state(c, outcome.state) ELSE c

prompt_start_accepted(c) == reduce_prompt_requested(c.core, None).ok

execute_prompt_completion_effects(c, effects) ==
    IF LoopStateChanged(None) \in effects /\ has_active_loop(c)
    THEN finish_loop(c)
    ELSE c

\* Mutant: a cancelled prompt is not completed.
complete_unless_cancelled(c, effect_id, status) ==
    LET outcome == reduce_prompt_completed(c.core, effect_id, status)
    IN  IF outcome.ok /\ status # "Cancelled"
        THEN execute_prompt_completion_effects(apply_core_state(c, outcome.state), outcome.effects)
        ELSE c

apply_prompt_completion(c, effect_id, status) ==
    LET outcome == reduce_prompt_completed(c.core, effect_id, status)
    IN  IF outcome.ok
        THEN execute_prompt_completion_effects(apply_core_state(c, outcome.state), outcome.effects)
        ELSE c

finish_embedded_prompt(c, status) ==
    IF c.core.pending_prompt = None
    THEN c
    ELSE apply_prompt_completion(c, c.core.pending_prompt.effect_id, status)

------------------------------------------------------------------------------
(* Follow-ups. *)

PostPromptEvaluation(c, active_loop, queued) ==
    [active_loop           |-> active_loop,
     pending_follow_up     |-> c.core.pending_follow_up,
     auto_test_enabled     |-> c.auto_test_enabled,
     auto_test_command     |-> c.auto_test_command,
     auto_test_in_progress |-> c.auto_test_in_progress,
     queued_prompt_present |-> queued]

PostPromptAction(outcome) ==
    LET id == outcome.state.next_effect_id
    IN  IF ReplayQueuedPrompt \in outcome.effects
        THEN [kind |-> "ReplayQueuedPrompt", id |-> None]
        ELSE IF RunLoopFollowUp(id, "LoopContinuation") \in outcome.effects
        THEN [kind |-> "ContinueLoop", id |-> id]
        ELSE IF RunLoopFollowUp(id, "AutoTest") \in outcome.effects
        THEN [kind |-> "RunAutoTest", id |-> id]
        ELSE [kind |-> "None", id |-> None]

execute_post_prompt_effects(c, effects, finished) ==
    IF finished /\ LoopStateChanged(None) \in effects THEN finish_loop(c) ELSE c

\* The state after check_post_prompt, and the action it asks the host to take.
check_post_prompt(c, queued, matched) ==
    LET observed == observe_post_prompt_loop_state(c, matched)
        outcome == reduce_post_prompt_evaluation(
                      c.core, PostPromptEvaluation(c, observed.active_loop, queued))
    IN  [ctl    |-> execute_post_prompt_effects(apply_core_state(observed.ctl, outcome.state),
                                                outcome.effects, observed.finished),
         action |-> PostPromptAction(outcome)]

\* Mutant: a failed continuation ends the loop for the reducer only.
ignore_follow_up_failure_effects(c, effects) == c

\* A follow-up that fails as the continuation of a loop ends the loop.
execute_follow_up_failure_effects(c, effects) ==
    IF LoopStateChanged(None) \in effects THEN finish_loop(c) ELSE c

ack_follow_up_dispatch(c, id, accepted) ==
    LET outcome == reduce_follow_up_dispatch_acknowledged(c.core, id, accepted)
    IN  IF outcome.ok
        THEN execute_follow_up_failure_effects(apply_core_state(c, outcome.state), outcome.effects)
        ELSE c

pending_dispatched_follow_up_id(c) ==
    IF c.core.pending_prompt = None THEN None ELSE c.core.pending_prompt.originating

\* Mutant: the prompt of a follow-up is completed, the follow-up is not.
complete_prompt_of_follow_up_only(c, id, status) ==
    IF c.core.pending_prompt = None
    THEN c
    ELSE apply_prompt_completion(c, c.core.pending_prompt.effect_id, status)

\* Mutant: the completion of a follow-up ends whatever prompt is pending.
complete_with_any_prompt(c, id, status) ==
    LET pending == c.core.pending_prompt
        ended   == IF pending = None THEN c ELSE apply_prompt_completion(c, pending.effect_id, status)
        outcome == reduce_loop_follow_up_completed(ended.core, id, status)
    IN  IF outcome.ok
        THEN execute_follow_up_failure_effects(apply_core_state(ended, outcome.state), outcome.effects)
        ELSE c

complete_dispatched_follow_up(c, id, status) ==
    LET complete(d) ==
            LET outcome == reduce_loop_follow_up_completed(d.core, id, status)
            IN  execute_follow_up_failure_effects(apply_core_state(d, outcome.state), outcome.effects)
        preflight == reduce_loop_follow_up_completed(c.core, id, status)
        pending == c.core.pending_prompt
    IN  IF ~preflight.ok
        THEN c
        ELSE IF pending = None
        THEN IF status = "Cancelled" THEN complete(c) ELSE c
        ELSE IF pending.originating # id
        THEN c
        ELSE complete(apply_prompt_completion(c, pending.effect_id, status))

------------------------------------------------------------------------------
(* Auto-test. *)

maybe_auto_test_due(c) ==
    /\ c.auto_test_enabled
    /\ ~c.auto_test_in_progress
    /\ ~has_active_loop(c)
    /\ c.auto_test_command # None

\* The state after maybe_auto_test returned a prompt.
maybe_auto_test(c) ==
    [c EXCEPT !.auto_test_in_progress = TRUE, !.core.auto_test_in_progress = TRUE]

\* Mutant: only the mirror is cleared.
clear_auto_test_mirror(c) == [c EXCEPT !.auto_test_in_progress = FALSE]

clear_auto_test(c) ==
    [c EXCEPT !.auto_test_in_progress = FALSE, !.core.auto_test_in_progress = FALSE]

set_auto_test(c, enabled, command) ==
    [c EXCEPT !.auto_test_enabled = enabled,
              !.auto_test_command = command,
              !.core.auto_test_enabled = enabled,
              !.core.auto_test_command = command]

\* SessionCommand::SetAutoTest keeps the old command when it brings none.
SetAutoTestCommand(c, enabled, command) ==
    set_auto_test(c, enabled, IF command = None THEN c.auto_test_command ELSE command)

\* The slash command /autotest: without an argument it toggles.
slash_autotest(c, args) ==
    IF args = None
    THEN [c EXCEPT !.auto_test_enabled = ~@]
    ELSE [c EXCEPT !.auto_test_enabled = TRUE, !.auto_test_command = args]

------------------------------------------------------------------------------
(* Other commands. *)

\* Mutant: an aborted session is idle, but its prompt is still pending.
abort_prompt_keeping_pending(c) == [c EXCEPT !.busy = FALSE, !.core.busy = FALSE]

\* SessionCommand::Abort, apart from the agent's cancellation token.
abort_prompt(c) ==
    [c EXCEPT !.busy = FALSE, !.core.busy = FALSE, !.core.pending_prompt = None]

handle_set_thinking_level(c, level) ==
    LET outcome == reduce_set_thinking_level(c.core, level)
    IN  IF outcome.ok THEN apply_core_state(c, outcome.state) ELSE c

handle_cycle_thinking_level(c) ==
    apply_core_state(c, reduce_cycle_thinking_level(c.core).state)

apply_tool_filter_feedback(c, effect_id, tools) ==
    LET outcome == reduce_tool_filter_applied(c.core, effect_id, tools)
    IN  IF outcome.ok THEN apply_core_state(c, outcome.state) ELSE c

\* Mutant: the tool filter is applied without reporting it to the reducer.
set_disabled_tools_without_feedback(c, tools) ==
    LET outcome == reduce_set_disabled_tools(c.core, tools)
    IN  IF outcome.ok THEN apply_core_state(c, outcome.state) ELSE c

handle_set_disabled_tools(c, tools) ==
    LET outcome == reduce_set_disabled_tools(c.core, tools)
    IN  IF outcome.ok
        THEN apply_tool_filter_feedback(apply_core_state(c, outcome.state),
                                        outcome.state.pending_tool_filter.effect_id, tools)
        ELSE c

execute_start_loop_effects(c, max_iterations) ==
    LET started == start_loop(c, max_iterations)
    IN  IF CanRegister(c) THEN started ELSE [started EXCEPT !.core.active_loop = None]

handle_start_loop(c, max_iterations) ==
    LET outcome == reduce_start_loop(c.core, max_iterations)
    IN  IF outcome.ok
        THEN execute_start_loop_effects(apply_core_state(c, outcome.state), max_iterations)
        ELSE c

handle_stop_loop(c) ==
    LET outcome == reduce_stop_loop(c.core)
    IN  IF outcome.ok THEN stop_loop(apply_core_state(c, outcome.state)) ELSE c

\* The part of process_agent_event that changes this state.  In embedded mode
\* a prompt is known to have started from the agent's BeforeAgentStart event.
process_agent_event(c, event, embedded) ==
    IF event = "BeforeAgentStart" /\ embedded /\ ~c.core.busy /\ c.core.pending_prompt = None
    THEN start_prompt(c, None)
    ELSE IF event = "signal_loop_success"
    THEN signal_loop_break(c)
    ELSE c

=============================================================================
