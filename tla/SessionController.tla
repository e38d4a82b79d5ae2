-------------------------- MODULE SessionController --------------------------
(***************************************************************************)
(* A session controller whose host may call its operations in any order    *)
(* and with any effect id that was ever handed out: what the controller    *)
(* guarantees must not depend on a well-behaved host.                      *)
(*                                                                         *)
(* A controller with an agent is driven by session commands (daemon mode), *)
(* one without by the embedded API; new and new_embedded make them.        *)
(***************************************************************************)
EXTENDS Controller

CONSTANTS
    MaxEffectId,   \* bound: effect ids handed out in a behaviour
    MaxIterations  \* bound: iteration limit a loop may be given

ASSUME ControllerAssumption ==
    /\ MaxEffectId \in Nat /\ MaxEffectId < IdLimit
    /\ MaxIterations \in Nat
    /\ None \notin 1..MaxIterations
    /\ None \notin ThinkingLevels

VARIABLES
    ctl,        \* the controller's state
    has_agent   \* the controller owns its agent: daemon mode

vars == <<ctl, has_agent>>

core == ctl.core

Init ==
    /\ has_agent \in BOOLEAN
    /\ \E level \in ThinkingLevels, enabled \in BOOLEAN, command \in Commands \cup {None} :
            ctl = NewController(level, enabled, command)

------------------------------------------------------------------------------

IssuedIds == 1..core.next_effect_id

\* The operations that may allocate an effect id respect the bound.
MayAllocate == core.next_effect_id < MaxEffectId

Becomes(c) == ctl' = c /\ UNCHANGED has_agent

\* Prompts: in embedded mode the host reports the follow-up a prompt stands for.
StartPromptRequest(originating) ==
    /\ MayAllocate
    /\ has_agent => originating = None
    /\ Becomes(start_prompt(ctl, originating))

CompletePrompt(id, status) ==
    /\ has_agent
    /\ Becomes(apply_prompt_completion(ctl, id, status))

FinishEmbeddedPrompt(status) ==
    /\ ~has_agent
    /\ Becomes(finish_embedded_prompt(ctl, status))

FeedEvent(event) ==
    /\ MayAllocate
    /\ Becomes(process_agent_event(ctl, event, ~has_agent))

\* Follow-ups, planned and dispatched by the embedded host only.
CheckPostPrompt(queued, matched) ==
    /\ ~has_agent
    /\ MayAllocate
    /\ Becomes(check_post_prompt(ctl, queued, matched).ctl)

AckFollowUpDispatch(id, accepted) ==
    /\ ~has_agent
    /\ Becomes(ack_follow_up_dispatch(ctl, id, accepted))

CompleteDispatchedFollowUp(id, status) ==
    /\ ~has_agent
    /\ Becomes(complete_dispatched_follow_up(ctl, id, status))

SyncLoopStatus(status) ==
    /\ ~has_agent
    /\ Becomes(sync_loop_status(ctl, status))

\* Daemon mode decides on auto-tests and loops by itself.
MaybeAutoTest ==
    /\ has_agent
    /\ maybe_auto_test_due(ctl)
    /\ Becomes(maybe_auto_test(ctl))

ClearAutoTest ==
    /\ has_agent
    /\ Becomes(clear_auto_test(ctl))

MaybeContinueLoop(matched) ==
    /\ has_agent
    /\ Becomes(maybe_continue_loop(ctl, matched))

\* Commands; an embedded host reaches SetAutoTest through set_auto_test.
Abort ==
    /\ has_agent
    /\ Becomes(abort_prompt(ctl))

SetAutoTest(enabled, command) ==
    Becomes(IF has_agent THEN SetAutoTestCommand(ctl, enabled, command)
                         ELSE set_auto_test(ctl, enabled, command))

SlashAutoTest(args) ==
    /\ has_agent
    /\ Becomes(slash_autotest(ctl, args))

SetThinkingLevel(level) ==
    /\ has_agent
    /\ Becomes(handle_set_thinking_level(ctl, level))

CycleThinkingLevel ==
    /\ has_agent
    /\ Becomes(handle_cycle_thinking_level(ctl))

SetDisabledTools(tools) ==
    /\ has_agent
    /\ MayAllocate
    /\ Becomes(handle_set_disabled_tools(ctl, tools))

StartLoop(max_iterations) ==
    /\ has_agent
    /\ Becomes(handle_start_loop(ctl, max_iterations))

StopLoop ==
    /\ has_agent
    /\ Becomes(handle_stop_loop(ctl))

Next ==
    \/ \E originating \in IssuedIds \cup {None} : StartPromptRequest(originating)
    \/ \E id \in IssuedIds, status \in Completions : CompletePrompt(id, status)
    \/ \E status \in Completions : FinishEmbeddedPrompt(status)
    \/ \E event \in {"BeforeAgentStart", "signal_loop_success"} : FeedEvent(event)
    \/ \E queued \in BOOLEAN, matched \in BOOLEAN : CheckPostPrompt(queued, matched)
    \/ \E id \in IssuedIds, accepted \in BOOLEAN : AckFollowUpDispatch(id, accepted)
    \/ \E id \in IssuedIds, status \in Completions : CompleteDispatchedFollowUp(id, status)
    \/ \E status \in 1..MaxIterations \cup {None} : SyncLoopStatus(status)
    \/ MaybeAutoTest
    \/ ClearAutoTest
    \/ \E matched \in BOOLEAN : MaybeContinueLoop(matched)
    \/ Abort
    \/ \E enabled \in BOOLEAN, command \in Commands \cup {None} : SetAutoTest(enabled, command)
    \/ \E args \in Commands \cup {None} : SlashAutoTest(args)
    \/ \E level \in ThinkingLevels \cup {None} : SetThinkingLevel(level)
    \/ CycleThinkingLevel
    \/ \E tools \in ToolSets : SetDisabledTools(tools)
    \/ \E max_iterations \in 1..MaxIterations : StartLoop(max_iterations)
    \/ StopLoop

Spec == Init /\ [][Next]_vars

------------------------------------------------------------------------------
(* Invariants. *)

\* Every field of the controller and of its core state (lib.rs, types.rs) has
\* its type, and no effect id beyond the bound was handed out.
TypeOK ==
    /\ ctl \in ControllerState
    /\ has_agent \in BOOLEAN
    /\ core.next_effect_id <= MaxEffectId

\* The session is busy exactly while a prompt is pending, for the reducer and
\* for the mirror is_busy() reads.  Abort, completions of follow-ups and the
\* start that BeforeAgentStart seeds all change the two separately.
BusyIffPromptPending ==
    /\ core.busy <=> core.pending_prompt # None
    /\ ctl.busy = core.busy

\* The mirrors apply_core_state refreshes never drift from the core state.
\* Those of the auto-test settings are left out: /autotest changes them alone.
MirrorsFollowCore ==
    /\ ctl.disabled_tools = core.disabled_tools
    /\ ctl.auto_test_in_progress = core.auto_test_in_progress

\* The loop the reducer believes in, the loop id of the controller and the loops
\* registered with the engine are one and the same: no path out of a loop
\* (limit, break, failure, rejected dispatch, stop, sync) leaks a registration
\* or leaves a loop that nothing drives.
LoopRegistrationExact ==
    /\ core.active_loop # None <=> has_active_loop(ctl)
    /\ core.active_loop # None => core.active_loop.loop_id = ctl.active_loop_id
    /\ \A id \in LoopIds : ctl.loops[id] # None <=> id = ctl.active_loop_id

\* The continuation of a loop is never pending without the loop: otherwise its
\* completion would have no loop to continue and StartLoop stays rejected.
LoopFollowUpHasLoop ==
    core.pending_follow_up # None /\ core.pending_follow_up.source = "LoopContinuation"
        => core.active_loop # None

PromptId == IF core.pending_prompt = None THEN None ELSE core.pending_prompt.effect_id

FollowUpId == IF core.pending_follow_up = None THEN None ELSE core.pending_follow_up.effect_id

\* What FeedbackCorrelates needs of the ids, and part of the inductive invariant: those of pending
\* work are issued ones, and the prompt and the follow-up pending at one time never share one.
PendingIdsCorrelate ==
    /\ core.pending_prompt # None => core.pending_prompt.effect_id \in IssuedIds
    /\ core.pending_follow_up # None => core.pending_follow_up.effect_id \in IssuedIds
    /\ core.pending_prompt # None /\ core.pending_follow_up # None
        => core.pending_prompt.effect_id # core.pending_follow_up.effect_id

\* The prompt that a completion of follow-up id completes with it: its own, or none after an abort.
PromptOf(id) == core.pending_prompt # None => core.pending_prompt.originating = id

FeedbackKnown ==
    \A id \in IssuedIds, status \in Completions, accepted \in BOOLEAN :
       /\ CompletePrompt(id, status) => id = PromptId
       /\ AckFollowUpDispatch(id, accepted) => id = FollowUpId
       /\ CompleteDispatchedFollowUp(id, status) => id = FollowUpId /\ PromptOf(id)

\* Feedback reaches the work that carries its id, or none.  Whatever id that was ever issued comes
\* with a completion or an acknowledgement, the controller changes only if that work is pending now,
\* and the completion of a follow-up never ends the prompt of somebody else.
FeedbackCorrelates == [][FeedbackKnown]_vars

\* A tool filter is applied before the command that asked for it returns:
\* none is pending between two operations, so SetDisabledTools is never rejected.
NoToolFilterPending == core.pending_tool_filter = None

------------------------------------------------------------------------------
(* The controller implements the abstract specification of pending work. *)

FollowUpDispatched ==
    core.pending_follow_up # None /\ core.pending_follow_up.stage = "AwaitingPromptCompletion"

Work == INSTANCE PendingWork WITH
            Nothing    <- None,
            prompt     <- PromptId,
            follow_up  <- FollowUpId,
            dispatched <- FollowUpDispatched,
            issued     <- core.next_effect_id

\* A pending prompt or follow-up is never overwritten by other work, only moves
\* forwards through its stages, and starts under an id no earlier work had: an
\* answer that is still under way for earlier work (of an aborted prompt, of a
\* stopped loop) cannot be taken for an answer to the work pending now.
ImplementsPendingWork == Work!Spec

=============================================================================
