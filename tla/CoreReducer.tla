---------------------------- MODULE CoreReducer ----------------------------
(***************************************************************************)
(* The functional core of a session: crates/clankers-core, a pure reducer  *)
(* that maps a state and an input to an outcome.  Prompt texts and image   *)
(* counts are left out: no decision of the reducer looks at them.          *)
(*                                                                         *)
(* An outcome is a record whose field ok tells CoreOutcome::Transitioned   *)
(* from CoreOutcome::Rejected, a rejected one carrying the state it was    *)
(* given.  Effects form a set, because no interpreter of                   *)
(* effect_interpretation.rs depends on their order, and each effect is a   *)
(* pair of its name and its argument.                                      *)
(***************************************************************************)
EXTENDS Integers

CONSTANTS
    None,         \* Rust's Option::None
    ToolSets,     \* the disabled-tool lists a client may ask for
    NoTools,      \* the empty one, Vec::new()
    Commands,     \* auto-test command lines
    LoopIds,      \* identifiers of the loop engine
    SessionLoop,  \* "loop-<session id>", the identifier StartLoop asks for
    IdLimit       \* u64::MAX, where effect ids saturate

ASSUME CoreAssumption ==
    /\ IdLimit \in Nat
    /\ NoTools \in ToolSets
    /\ SessionLoop \notin LoopIds

------------------------------------------------------------------------------
(* The state of clankers_core::CoreState. *)

EffectIds == Nat

Sources == {"LoopContinuation", "AutoTest"}

Stages == {"AwaitingDispatchAcknowledgement", "AwaitingPromptCompletion"}

ThinkingLevels == {"Off", "Low", "Medium", "High", "Max"}

\* Failed(Cancelled) and Failed(Message(_)) differ only for a follow-up whose
\* prompt is gone, see complete_dispatched_follow_up.
Completions == {"Succeeded", "Cancelled", "Failed"}

PendingPromptState ==
    [effect_id : EffectIds, originating : EffectIds \cup {None}]

PendingToolFilterState ==
    [effect_id : EffectIds, requested : ToolSets]

PendingFollowUpState ==
    [effect_id : EffectIds, source : Sources, stage : Stages]

ActiveLoopState ==
    [loop_id : LoopIds \cup {SessionLoop}, current_iteration : Nat, max_iterations : Nat]

CoreState ==
    [busy                  : BOOLEAN,
     thinking_level        : ThinkingLevels,
     disabled_tools        : ToolSets,
     next_effect_id        : EffectIds,
     pending_prompt        : PendingPromptState \cup {None},
     pending_tool_filter   : PendingToolFilterState \cup {None},
     pending_follow_up     : PendingFollowUpState \cup {None},
     active_loop           : ActiveLoopState \cup {None},
     auto_test_enabled     : BOOLEAN,
     auto_test_command     : Commands \cup {None},
     auto_test_in_progress : BOOLEAN]

\* None is not a value any Option of the state can hold.
ASSUME NoneAssumption ==
    /\ None \notin EffectIds
    /\ None \notin ToolSets
    /\ None \notin Commands
    /\ None \notin LoopIds
    /\ None \notin PendingPromptState
    /\ None \notin PendingToolFilterState
    /\ None \notin PendingFollowUpState
    /\ None \notin ActiveLoopState

\* CoreState::default() with the settings a session is created with.
InitialCore(level, enabled, command) ==
    [busy                  |-> FALSE,
     thinking_level        |-> level,
     disabled_tools        |-> NoTools,
     next_effect_id        |-> 0,
     pending_prompt        |-> None,
     pending_tool_filter   |-> None,
     pending_follow_up     |-> None,
     active_loop           |-> None,
     auto_test_enabled     |-> enabled,
     auto_test_command     |-> command,
     auto_test_in_progress |-> FALSE]

------------------------------------------------------------------------------
(* Outcomes and effects. *)

BusyChanged(busy)         == <<"BusyChanged", busy>>
LoopStateChanged(loop)    == <<"LoopStateChanged", loop>>
ApplyThinkingLevel(level) == <<"ApplyThinkingLevel", level>>
ThinkingLevelChanged(c)   == <<"ThinkingLevelChanged", c>>
DisabledToolsChanged(t)   == <<"DisabledToolsChanged", t>>
StartPrompt(id)           == <<"StartPrompt", id>>
ApplyToolFilter(id)       == <<"ApplyToolFilter", id>>
RunLoopFollowUp(id, src)  == <<"RunLoopFollowUp", <<id, src>>>>
ReplayQueuedPrompt        == <<"ReplayQueuedPrompt", None>>

transitioned(next_state, effects) ==
    [ok |-> TRUE, state |-> next_state, effects |-> effects, error |-> None]

rejection(state, error) ==
    [ok |-> FALSE, state |-> state, effects |-> {}, error |-> error]

------------------------------------------------------------------------------
(* Helpers. *)

\* The id allocate_effect_id hands out: a saturating successor.
allocate_effect_id(state) ==
    IF state.next_effect_id < IdLimit THEN state.next_effect_id + 1 ELSE IdLimit

has_other_pending_work(state) ==
    state.pending_tool_filter # None \/ state.pending_follow_up # None

has_pending_work_other_than_tool_filter(state) ==
    state.pending_prompt # None \/ state.pending_follow_up # None

has_pending_work_other_than_follow_up(state) ==
    state.pending_prompt # None \/ state.pending_tool_filter # None

next_level(level) ==
    [Off |-> "Low", Low |-> "Medium", Medium |-> "High", High |-> "Max", Max |-> "Off"][level]

------------------------------------------------------------------------------
(* Prompt lifecycle. *)

\* Mutant: a prompt is accepted while another one runs.
accept_prompt_while_busy(state, originating) ==
    LET id == allocate_effect_id(state)
    IN  transitioned([state EXCEPT !.next_effect_id = id,
                                   !.busy = TRUE,
                                   !.pending_prompt = [effect_id |-> id, originating |-> originating]],
                     {BusyChanged(TRUE), StartPrompt(id)})

reduce_prompt_requested(state, originating) ==
    LET id == allocate_effect_id(state)
    IN  IF state.busy
        THEN rejection(state, "Busy")
        ELSE transitioned(
                [state EXCEPT !.next_effect_id = id,
                              !.busy = TRUE,
                              !.pending_prompt = [effect_id |-> id, originating |-> originating]],
                {BusyChanged(TRUE), StartPrompt(id)})

reduce_prompt_completed(state, effect_id, status) ==
    LET pending == state.pending_prompt
        loop_fails == /\ pending.originating = None
                      /\ status # "Succeeded"
                      /\ state.active_loop # None
        cleared == [state EXCEPT !.busy = FALSE, !.pending_prompt = None]
    IN  IF pending = None
        THEN rejection(state, IF has_other_pending_work(state)
                              THEN "OutOfOrderRuntimeResult" ELSE "PromptCompletionMismatch")
        ELSE IF pending.effect_id # effect_id
        THEN rejection(state, "PromptCompletionMismatch")
        ELSE IF loop_fails
        THEN transitioned([cleared EXCEPT !.active_loop = None, !.pending_follow_up = None],
                          {BusyChanged(FALSE), LoopStateChanged(None)})
        ELSE transitioned(cleared, {BusyChanged(FALSE)})

------------------------------------------------------------------------------
(* Post-prompt evaluation and follow-ups. *)

NewFollowUp(id, source) ==
    [effect_id |-> id, source |-> source, stage |-> "AwaitingDispatchAcknowledgement"]

\* Mutant: the evaluation forgets that an auto-test is in progress.
evaluate_without_auto_test_guard(state, eval) ==
    LET id == allocate_effect_id(state)
        observed == [state EXCEPT !.active_loop = eval.active_loop,
                                  !.pending_follow_up = eval.pending_follow_up]
        source == IF eval.active_loop # None THEN "LoopContinuation" ELSE "AutoTest"
        due == \/ eval.active_loop # None
               \/ eval.auto_test_enabled /\ eval.auto_test_command # None
    IN  IF observed.pending_follow_up # None
        THEN transitioned(observed, {})
        ELSE IF eval.queued_prompt_present
        THEN transitioned(observed, {ReplayQueuedPrompt})
        ELSE IF due
        THEN transitioned([observed EXCEPT !.next_effect_id = id,
                                           !.pending_follow_up = NewFollowUp(id, source)],
                          {RunLoopFollowUp(id, source)})
        ELSE transitioned(observed, {})

reduce_post_prompt_evaluation(state, eval) ==
    LET observed == [state EXCEPT !.active_loop = eval.active_loop,
                                  !.pending_follow_up = eval.pending_follow_up,
                                  !.auto_test_enabled = eval.auto_test_enabled,
                                  !.auto_test_command = eval.auto_test_command,
                                  !.auto_test_in_progress = eval.auto_test_in_progress]
        changed == IF state.active_loop # observed.active_loop
                   THEN {LoopStateChanged(observed.active_loop)} ELSE {}
        id == allocate_effect_id(state)
        follow_up(source) == [observed EXCEPT !.next_effect_id = id,
                                              !.pending_follow_up = NewFollowUp(id, source)]
        auto_test_due == /\ observed.auto_test_enabled
                         /\ ~observed.auto_test_in_progress
                         /\ observed.auto_test_command # None
    IN  IF observed.pending_follow_up # None
        THEN transitioned(observed, changed)
        ELSE IF eval.queued_prompt_present
        THEN transitioned(observed, changed \cup {ReplayQueuedPrompt})
        ELSE IF observed.active_loop # None
        THEN transitioned(follow_up("LoopContinuation"),
                          changed \cup {RunLoopFollowUp(id, "LoopContinuation")})
        ELSE IF auto_test_due
        THEN transitioned([follow_up("AutoTest") EXCEPT !.auto_test_in_progress = TRUE],
                          changed \cup {RunLoopFollowUp(id, "AutoTest")})
        ELSE transitioned([observed EXCEPT !.auto_test_in_progress = FALSE], changed)

\* What a failed follow-up, one whose dispatch was rejected or whose prompt
\* failed, leaves behind: it is no longer pending, an auto-test is no longer in
\* progress and a loop is over.
WithoutFollowUp(state) == [state EXCEPT !.pending_follow_up = None]

FollowUpFails(state) ==
    LET source == state.pending_follow_up.source
        ends_loop == source = "LoopContinuation" /\ state.active_loop # None
    IN  transitioned(
            [WithoutFollowUp(state) EXCEPT
                !.auto_test_in_progress = @ /\ source # "AutoTest",
                !.active_loop = IF ends_loop THEN None ELSE @],
            IF ends_loop THEN {LoopStateChanged(None)} ELSE {})

reduce_follow_up_dispatch_acknowledged(state, effect_id, accepted) ==
    LET pending == state.pending_follow_up
    IN  IF pending = None
        THEN rejection(state, IF has_pending_work_other_than_follow_up(state)
                              THEN "OutOfOrderRuntimeResult" ELSE "FollowUpDispatchMismatch")
        ELSE IF pending.effect_id # effect_id
        THEN rejection(state, "FollowUpDispatchMismatch")
        ELSE IF pending.stage # "AwaitingDispatchAcknowledgement"
        THEN rejection(state, "WrongLifecycleStage")
        ELSE IF accepted
        THEN transitioned([state EXCEPT !.pending_follow_up.stage = "AwaitingPromptCompletion"], {})
        ELSE FollowUpFails(state)

reduce_loop_follow_up_completed(state, effect_id, status) ==
    LET pending == state.pending_follow_up
    IN  IF pending = None
        THEN rejection(state, IF has_pending_work_other_than_follow_up(state)
                              THEN "OutOfOrderRuntimeResult" ELSE "LoopFollowUpMismatch")
        ELSE IF pending.effect_id # effect_id
        THEN rejection(state, "LoopFollowUpMismatch")
        ELSE IF pending.stage # "AwaitingPromptCompletion"
        THEN rejection(state, "WrongLifecycleStage")
        ELSE IF status = "Succeeded"
        THEN transitioned(WithoutFollowUp(state), {})
        ELSE FollowUpFails(state)

------------------------------------------------------------------------------
(* Thinking level, tool filter and loop control. *)

\* Mutant: an unknown thinking level is stored instead of rejected.
set_any_thinking_level(state, level) ==
    transitioned([state EXCEPT !.thinking_level = level],
                 {ApplyThinkingLevel(level), ThinkingLevelChanged(<<state.thinking_level, level>>)})

\* level is one of ThinkingLevels, or None for CoreThinkingLevelInput::Invalid.
reduce_set_thinking_level(state, level) ==
    IF level = None
    THEN rejection(state, "InvalidThinkingLevel")
    ELSE transitioned([state EXCEPT !.thinking_level = level],
                      {ApplyThinkingLevel(level), ThinkingLevelChanged(<<state.thinking_level, level>>)})

reduce_cycle_thinking_level(state) ==
    reduce_set_thinking_level(state, next_level(state.thinking_level))

reduce_set_disabled_tools(state, tools) ==
    LET id == allocate_effect_id(state)
    IN  IF state.pending_tool_filter # None
        THEN rejection(state, "ToolFilterStillPending")
        ELSE transitioned(
                [state EXCEPT !.next_effect_id = id,
                              !.disabled_tools = tools,
                              !.pending_tool_filter = [effect_id |-> id, requested |-> tools]],
                {ApplyToolFilter(id)})

reduce_tool_filter_applied(state, effect_id, applied) ==
    LET pending == state.pending_tool_filter
    IN  IF pending = None
        THEN rejection(state, IF has_pending_work_other_than_tool_filter(state)
                              THEN "OutOfOrderRuntimeResult" ELSE "ToolFilterMismatch")
        ELSE IF pending.effect_id # effect_id \/ pending.requested # applied
        THEN rejection(state, "ToolFilterMismatch")
        ELSE transitioned([state EXCEPT !.pending_tool_filter = None],
                          {DisabledToolsChanged(applied)})

NewLoop(loop_id, max_iterations) ==
    [loop_id |-> loop_id, current_iteration |-> 0, max_iterations |-> max_iterations]

reduce_start_loop(state, max_iterations) ==
    IF state.pending_follow_up # None
    THEN rejection(state, "LoopFollowUpStillPending")
    ELSE IF state.active_loop # None
    THEN rejection(state, "LoopAlreadyActive")
    ELSE LET loop == NewLoop(SessionLoop, max_iterations)
         IN  transitioned([state EXCEPT !.active_loop = loop], {LoopStateChanged(loop)})

reduce_stop_loop(state) ==
    IF state.pending_follow_up # None
    THEN rejection(state, "LoopFollowUpStillPending")
    ELSE IF state.active_loop = None
    THEN rejection(state, "LoopNotActive")
    ELSE transitioned([state EXCEPT !.active_loop = None], {LoopStateChanged(None)})

=============================================================================
