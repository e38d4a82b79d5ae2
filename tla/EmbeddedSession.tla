--------------------------- MODULE EmbeddedSession ---------------------------
(***************************************************************************)
(* The standalone TUI: the event loop (src/modes/event_loop_runner) with   *)
(* an embedded controller, and the agent task (src/modes/agent_task.rs).   *)
(* They run in parallel and talk over three channels: commands to the      *)
(* agent, agent events and task results back.  Events and results are      *)
(* separate channels, so the loop may see them in either order.            *)
(*                                                                         *)
(* One turn of the event loop goes through the phases of pc in order.  The *)
(* scheduler may send a prompt of its own.  What a behaviour covers (the   *)
(* auto-test setting, what the user types, how turns fail) is its setup.   *)
(***************************************************************************)
EXTENDS Controller, Sequences

CONSTANTS
    Setups,         \* the setups of the behaviours
    LoopLimit,      \* N of "/loop N"
    MaxInputs,      \* bound: things the user types in a behaviour
    MaxDrain        \* MAX_AGENT_EVENTS_PER_DRAIN

InputKinds == {"prompt", "loop_start", "loop_stop", "loop_pause", "set_model", "cancel"}

\* A turn is denied before it emits anything, fails after AgentStart without
\* reaching AgentEnd (routing or planning errors), or fails in the turn loop.
FailureKinds == {"denied", "unended", "turn"}

\* The auto-test setting (interactive.rs), what the user may type, how a turn may
\* fail, and how many scheduled prompts fire (a bound).
Setup == [auto_test : BOOLEAN, inputs : SUBSET InputKinds, failures : SUBSET FailureKinds,
          scheduled : Nat]

\* What the TUI shows of a loop.
LoopDisplay == [active : BOOLEAN, max_iterations : Nat]

ASSUME EmbeddedAssumption ==
    /\ Setups \subseteq Setup
    /\ Commands # {}
    /\ None \notin LoopDisplay
    /\ LoopLimit \in Nat \ {0}
    /\ MaxInputs \in Nat
    /\ MaxDrain \in Nat \ {0}

VARIABLES
    setup,    \* the setup of this behaviour
    ctl,      \* the embedded controller
    app,      \* the TUI's state: streaming, queued_prompt, loop_status
    pc,       \* phase of the event loop
    drained,  \* events taken in this call of drain_agent_events
    cmds,     \* AgentCommand channel, event loop to agent task
    events,   \* AgentEvent channel, agent task to event loop
    results,  \* TaskResult channel: TRUE for a prompt that ended without error
    agent,    \* the agent task: phase and cancellation token
    inputs,   \* what the user typed so far (counter)
    fired,    \* scheduled prompts so far (counter)
    loop_run  \* history: prompts sent for the /loop the user last started

vars == <<setup, ctl, app, pc, drained, cmds, events, results, agent, inputs, fired, loop_run>>

runnerVars == <<setup, ctl, app, pc, drained, inputs, fired, loop_run>>

core == ctl.core

\* A prompt command says who sent it.
Prompt(from) == <<"Prompt", from>>

Senders == {"user", "loop", "follow_up", "schedule"}

Cmds == {Prompt(from) : from \in Senders} \cup {<<"Abort">>, <<"ResetCancel">>, <<"SetModel">>}

Init ==
    /\ setup \in Setups
    /\ ctl = NewController("Off", setup.auto_test,
                           IF setup.auto_test THEN CHOOSE c \in Commands : TRUE ELSE None)
    /\ app = [streaming |-> FALSE, queued_prompt |-> None, loop_status |-> None]
    /\ pc = "events" /\ drained = 0
    /\ cmds = <<>> /\ events = <<>> /\ results = <<>>
    /\ agent = [phase |-> "idle", cancelled |-> FALSE]
    /\ inputs = 0 /\ fired = 0 /\ loop_run = 0

------------------------------------------------------------------------------
(* The agent task. *)

Emit(event) == events' = Append(events, event)

\* handle_prompt: reset_cancel() comes first.
AgentTakesPrompt ==
    /\ agent.phase = "idle" /\ cmds # <<>> /\ Head(cmds)[1] = "Prompt"
    /\ agent' = [phase |-> "accepted", cancelled |-> FALSE]
    /\ cmds' = Tail(cmds)
    /\ UNCHANGED <<runnerVars, events, results>>

AgentTakesControl ==
    /\ agent.phase = "idle" /\ cmds # <<>> /\ Head(cmds)[1] # "Prompt"
    /\ agent' = [agent EXCEPT !.cancelled =
                    CASE Head(cmds) = <<"Abort">> -> TRUE
                      [] Head(cmds) = <<"ResetCancel">> -> FALSE
                      [] OTHER -> @]
    /\ cmds' = Tail(cmds)
    /\ UNCHANGED <<runnerVars, events, results>>

\* run_prompt_with_abort: during a prompt everything but Abort is dropped.
AgentInterrupted ==
    /\ agent.phase \notin {"idle", "ended"} /\ cmds # <<>>
    /\ agent' = [agent EXCEPT !.cancelled = @ \/ Head(cmds) = <<"Abort">>]
    /\ cmds' = Tail(cmds)
    /\ UNCHANGED <<runnerVars, events, results>>

\* Mutant: a cancelled turn reports nothing.
PromptDoneUnlessCancelled(ok) ==
    /\ results' = IF agent.cancelled THEN results ELSE Append(results, ok)
    /\ agent' = [agent EXCEPT !.phase = "idle"]

PromptDone(ok) ==
    /\ results' = Append(results, ok)
    /\ agent' = [agent EXCEPT !.phase = "idle"]

\* A pre-prompt hook or the authorization check refuses the prompt.
AgentDenied ==
    /\ "denied" \in setup.failures /\ agent.phase = "accepted"
    /\ PromptDone(FALSE)
    /\ UNCHANGED <<runnerVars, cmds, events>>

AgentStarts ==
    /\ agent.phase = "accepted"
    /\ Emit("AgentStart")
    /\ agent' = [agent EXCEPT !.phase = "started"]
    /\ UNCHANGED <<runnerVars, cmds, results>>

AgentFailsUnended ==
    /\ "unended" \in setup.failures /\ agent.phase \in {"started", "running"}
    /\ PromptDone(FALSE)
    /\ UNCHANGED <<runnerVars, cmds, events>>

AgentRuns ==
    /\ agent.phase = "started"
    /\ Emit("BeforeAgentStart")
    /\ agent' = [agent EXCEPT !.phase = "running"]
    /\ UNCHANGED <<runnerVars, cmds, results>>

AgentSignalsLoopSuccess ==
    /\ agent.phase = "running" /\ ~agent.cancelled
    /\ Emit("signal_loop_success")
    /\ agent' = [agent EXCEPT !.phase = "signalled"]
    /\ UNCHANGED <<runnerVars, cmds, results>>

\* AgentEnd is sent before the result; a cancelled turn ends without error.
AgentEnds ==
    /\ agent.phase \in {"running", "signalled"}
    /\ Emit("AgentEnd")
    /\ agent' = [agent EXCEPT !.phase = "ended"]
    /\ UNCHANGED <<runnerVars, cmds, results>>

AgentReports ==
    /\ agent.phase = "ended"
    /\ \E ok \in BOOLEAN :
            /\ ~ok => "turn" \in setup.failures /\ ~agent.cancelled
            /\ PromptDone(ok)
    /\ UNCHANGED <<runnerVars, cmds, events>>

AgentNext ==
    \/ AgentTakesPrompt \/ AgentTakesControl \/ AgentInterrupted
    \/ AgentDenied \/ AgentStarts \/ AgentFailsUnended \/ AgentRuns
    \/ AgentSignalsLoopSuccess \/ AgentEnds \/ AgentReports

------------------------------------------------------------------------------
(* The event loop: agent events and schedules. *)

\* Mutant: the drain is not bounded.
DrainAgentEventUnbounded ==
    /\ pc = "events" /\ events # <<>>
    /\ app' = [app EXCEPT !.streaming = CASE Head(events) = "AgentStart" -> TRUE
                                          [] Head(events) = "AgentEnd" -> FALSE
                                          [] OTHER -> @]
    /\ ctl' = process_agent_event(ctl, Head(events), TRUE)
    /\ events' = Tail(events)
    /\ drained' = drained + 1
    /\ UNCHANGED <<setup, pc, cmds, results, agent, inputs, fired, loop_run>>

\* process_agent_event: the TUI, then the controller.
DrainAgentEvent ==
    /\ pc = "events" /\ events # <<>> /\ drained < MaxDrain
    /\ app' = [app EXCEPT !.streaming = CASE Head(events) = "AgentStart" -> TRUE
                                          [] Head(events) = "AgentEnd" -> FALSE
                                          [] OTHER -> @]
    /\ ctl' = process_agent_event(ctl, Head(events), TRUE)
    /\ events' = Tail(events)
    /\ drained' = drained + 1
    /\ UNCHANGED <<setup, pc, cmds, results, agent, inputs, fired, loop_run>>

\* Then drain_schedule_events: the prompt of a schedule that fired goes straight
\* to the agent task.
DrainScheduleEvents ==
    /\ pc = "events" /\ (events = <<>> \/ drained = MaxDrain)
    /\ pc' = "results" /\ drained' = 0
    /\ \/ UNCHANGED <<cmds, fired>>
       \/ /\ fired < setup.scheduled
          /\ fired' = fired + 1
          /\ cmds' = Append(cmds, Prompt("schedule"))
    /\ UNCHANGED <<setup, ctl, app, events, results, agent, inputs, loop_run>>

------------------------------------------------------------------------------
(* What the user types: the effect of an input on the TUI and the commands  *)
(* it sends, as a record.                                                   *)

Effect(a, c, n) == [app |-> a, cmds |-> c, loop_run |-> n]

Sends(from) == <<<<"ResetCancel">>, Prompt(from)>>

\* handle_input_with_plugins and the /loop handlers.
handle_input(a, kind, n) ==
    CASE kind = "prompt" -> Effect(a, Sends("user"), n)
      [] kind = "set_model" -> Effect(a, <<<<"SetModel">>>>, n)
      [] kind = "loop_start" ->
            IF a.loop_status # None
            THEN Effect(a, <<>>, n)
            ELSE Effect([a EXCEPT !.loop_status = [active |-> TRUE, max_iterations |-> LoopLimit]],
                        Sends("loop"), 1)
      [] kind = "loop_stop" -> Effect([a EXCEPT !.loop_status = None], <<>>, n)
      [] kind = "loop_pause" ->
            IF a.loop_status = None
            THEN Effect(a, <<>>, n)
            ELSE IF a.loop_status.active
            THEN Effect([a EXCEPT !.loop_status.active = FALSE], <<>>, n)
            ELSE Effect([a EXCEPT !.loop_status.active = TRUE], Sends("loop"), n + 1)

\* handle_submit and handle_cancel: while a turn streams, an input is queued
\* (replacing the one that was) and the turn aborted.
handle_submit(a, kind, n) ==
    IF kind = "cancel"
    THEN Effect(a, IF a.streaming THEN <<<<"Abort">>>> ELSE <<>>, n)
    ELSE IF a.streaming
    THEN Effect([a EXCEPT !.queued_prompt = kind], <<<<"Abort">>>>, n)
    ELSE handle_input(a, kind, n)

HandleTerminalEvent ==
    /\ pc = "input" /\ inputs < MaxInputs
    /\ \E kind \in setup.inputs :
            LET effect == handle_submit(app, kind, loop_run)
            IN  /\ app' = effect.app
                /\ cmds' = cmds \o effect.cmds
                /\ loop_run' = effect.loop_run
    /\ inputs' = inputs + 1
    /\ UNCHANGED <<setup, ctl, pc, drained, events, results, agent, fired>>

HandleTerminalEventsDone ==
    /\ pc = "input"
    /\ pc' = "events"
    /\ UNCHANGED <<setup, ctl, app, drained, cmds, events, results, agent, inputs, fired, loop_run>>

------------------------------------------------------------------------------
(* Task results. *)

\* dispatch_controller_follow_up; the command channel stays open as long as the
\* event loop runs.
DispatchAllowed(a, requires_active_loop) ==
    requires_active_loop => a.loop_status # None /\ a.loop_status.active

\* Mutant: the dispatch of a follow-up is not acknowledged.
dispatch_without_ack(c, a, id, requires_active_loop) ==
    IF DispatchAllowed(a, requires_active_loop)
    THEN start_prompt(c, id)
    ELSE ack_follow_up_dispatch(c, id, FALSE)

\* Mutant: the dispatch of a follow-up is taken for its completion.
dispatch_as_completion(c, a, id, requires_active_loop) ==
    [dispatch_without_ack(c, a, id, requires_active_loop) EXCEPT !.core.pending_follow_up = None]

dispatch_controller_follow_up(c, a, id, requires_active_loop) ==
    IF DispatchAllowed(a, requires_active_loop)
    THEN ack_follow_up_dispatch(start_prompt(c, id), id, prompt_start_accepted(c))
    ELSE ack_follow_up_dispatch(c, id, FALSE)

\* handle_task_results for one PromptDone.  A success first syncs the TUI's loop
\* to the controller; a failure acts on a queued prompt only.
HandlePromptDone(ok, matched) ==
    LET status == IF ok THEN "Succeeded" ELSE "Failed"
        follow_up == pending_dispatched_follow_up_id(ctl)
        limit == IF app.loop_status = None THEN None ELSE app.loop_status.max_iterations
        completed == IF follow_up # None
                     THEN complete_dispatched_follow_up(ctl, follow_up, status)
                     ELSE finish_embedded_prompt(ctl, status)
        synced == IF ok /\ follow_up = None THEN sync_loop_status(completed, limit) ELSE completed
        shown == IF has_active_loop(synced) THEN app ELSE [app EXCEPT !.loop_status = None]
        post == check_post_prompt(synced, app.queued_prompt # None, matched)
        action == post.action
        replay == handle_input([shown EXCEPT !.queued_prompt = None], app.queued_prompt, loop_run)
        loops == action.kind = "ContinueLoop"
        dispatches == ok /\ action.kind \in {"ContinueLoop", "RunAutoTest"}
    IN  IF action.kind = "ReplayQueuedPrompt"
        THEN /\ ctl' = post.ctl
             /\ app' = replay.app
             /\ cmds' = cmds \o replay.cmds
             /\ loop_run' = replay.loop_run
        ELSE IF dispatches
        THEN /\ ctl' = dispatch_controller_follow_up(post.ctl, shown, action.id, loops)
             /\ app' = shown
             /\ IF DispatchAllowed(shown, loops)
                THEN /\ cmds' = cmds \o Sends("follow_up")
                     /\ loop_run' = IF loops THEN loop_run + 1 ELSE loop_run
                ELSE UNCHANGED <<cmds, loop_run>>
        ELSE /\ ctl' = post.ctl
             /\ app' = shown
             /\ UNCHANGED <<cmds, loop_run>>

HandleTaskResult ==
    /\ pc = "results" /\ results # <<>>
    /\ \E matched \in BOOLEAN : HandlePromptDone(Head(results), matched)
    /\ results' = Tail(results)
    /\ UNCHANGED <<setup, pc, drained, events, agent, inputs, fired>>

HandleTaskResultsDone ==
    /\ pc = "results" /\ results = <<>>
    /\ pc' = "input"
    /\ UNCHANGED <<setup, ctl, app, drained, cmds, events, results, agent, inputs, fired, loop_run>>

RunnerNext ==
    \/ DrainAgentEvent \/ DrainScheduleEvents
    \/ HandleTaskResult \/ HandleTaskResultsDone
    \/ HandleTerminalEvent \/ HandleTerminalEventsDone

Next == AgentNext \/ RunnerNext

\* The event loop never stops (one of its steps is always enabled, so this is its
\* weak fairness), and a turn of the agent always ends: the provider stream is
\* bounded by timeouts and retries.
Fairness == []<><<RunnerNext>>_vars /\ WF_vars(AgentNext)

Spec == Init /\ [][Next]_vars /\ Fairness

------------------------------------------------------------------------------
(* Properties. *)

\* The channels carry what their types allow and the phases of both tasks are
\* the code's.
TypeOK ==
    /\ setup \in Setups
    /\ ctl \in ControllerState
    /\ app \in [streaming : BOOLEAN, queued_prompt : InputKinds \cup {None},
                loop_status : LoopDisplay \cup {None}]
    /\ pc \in {"events", "results", "input"}
    /\ drained \in 0..MaxDrain
    /\ cmds \in Seq(Cmds)
    /\ events \in Seq({"AgentStart", "BeforeAgentStart", "signal_loop_success", "AgentEnd"})
    /\ results \in Seq(BOOLEAN)
    /\ agent \in [phase : {"idle", "accepted", "started", "running", "signalled", "ended"},
                  cancelled : BOOLEAN]
    /\ inputs \in 0..MaxInputs /\ fired \in 0..setup.scheduled /\ loop_run \in Nat

\* While the prompt of a dispatched follow-up is pending, so is the follow-up:
\* its completion can be correlated (complete_dispatched_follow_up).
DispatchedFollowUpStaysCorrelated ==
    pending_dispatched_follow_up_id(ctl) # None
        => /\ core.pending_follow_up # None
           /\ core.pending_follow_up.effect_id = pending_dispatched_follow_up_id(ctl)

\* A planned follow-up waits for an acknowledgement of its dispatch.  Between two steps nobody is
\* about to send one: the handler that plans a follow-up is the one to dispatch it.
FollowUpLeft ==
    core.pending_follow_up # None /\ core.pending_follow_up.stage = "AwaitingDispatchAcknowledgement"

\* Only the result of a failed turn leaves a follow-up that it planned without a dispatch.  Every
\* success dispatches what it plans and hears of the refusal (a loop paused or stopped meanwhile, a
\* prompt start rejected): handle_task_results, dispatch_controller_follow_up.
OnlyFailureLeavesFollowUp ==
    [][FollowUpLeft' =>
          \/ core'.pending_follow_up = core.pending_follow_up
          \/ results # <<>> /\ ~Head(results) /\ results' = Tail(results)]_vars

\* "/loop N" runs its prompt at most N times.
LoopRunsAtMostN == loop_run <= LoopLimit

\* A prompt queued while the result of a turn is still to come is replayed when
\* the result does, unless a failed turn has left a follow-up by then.  Nothing
\* else that the controller does in between swallows it.
QueuedPromptReplayedUnlessLeft ==
    app.queued_prompt # None /\ (agent.phase # "idle" \/ results # <<>>)
        ~> app.queued_prompt = None \/ FollowUpLeft

\* no-std-functional-core/spec.md: queued user-prompt replay "takes precedence over
\* controller-generated post-prompt follow-up when both are available".  A prompt
\* queued while a result is still to come is replayed, whatever is planned beside it.
PromptQueuedDuringTurnReplayed ==
    app.queued_prompt # None /\ (agent.phase # "idle" \/ results # <<>>)
        ~> app.queued_prompt = None

FollowUpRuns ==
    core.pending_follow_up # None /\ core.pending_follow_up.stage = "AwaitingPromptCompletion"

\* A dispatched follow-up is retired: its prompt ends, in some way, and the
\* controller hears of it (complete_dispatched_follow_up).  Those that a failed
\* turn leaves are not dispatched, and not meant here.
FollowUpRetired == FollowUpRuns ~> ~FollowUpRuns

\* No auto-test sets off the next.  One that succeeded finds the guard up and plans
\* none; one that failed has lowered it and plans the next, which is never sent
\* (auto_test_in_progress, the failure branch of handle_task_results).  Otherwise one
\* prompt would run auto-tests without end.
AutoTestNeverFeedsItself ==
    [][/\ core.pending_follow_up # None /\ core.pending_follow_up.source = "AutoTest"
       /\ core'.pending_follow_up # None /\ core'.pending_follow_up.source = "AutoTest"
       /\ core'.pending_follow_up.effect_id # core.pending_follow_up.effect_id
       => FollowUpLeft' /\ ~Head(results)]_vars

=============================================================================
