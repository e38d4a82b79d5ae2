----------------------------- MODULE EngineTurn -----------------------------
(***************************************************************************)
(* One turn of the agent: run_turn_loop of crates/clankers-agent submits   *)
(* the conversation to the engine, and run_engine_turn of                  *)
(* crates/clankers-engine-host runs the effects the engine asks for, one   *)
(* at a time, and feeds what they return back to it.  The model, the tools *)
(* and the sleeper are awaited; the session may cancel the turn at any     *)
(* moment, which the host notices before and after each of them.           *)
(*                                                                         *)
(* The conversation is recorded twice: by the engine, which builds the     *)
(* requests from it, and by the agent's transcript, which the session      *)
(* keeps.  The transcript also announces the start and the end of each     *)
(* exchange with the model.                                                *)
(***************************************************************************)
EXTENDS Engine, FiniteSets

CONSTANTS
    MaxBatch,       \* bound: tool calls in a model's response
    ToolOutcomes,   \* what the agent's tool host returns
    Budgets,        \* model_request_slot_budget of a turn
    StepLimit       \* ENGINE_HOST_REDUCER_STEP_LIMIT_COUNT

ToolHostOutcomes ==
    {"Succeeded", "Truncated", "ToolError", "MissingTool", "CapabilityDenied", "Cancelled"}

\* AgentToolHost makes its outcome of the tool's message, which is an error or not: it never
\* returns Cancelled, which run_engine_turn would take for the cancellation of the turn.
ASSUME TurnAssumption ==
    /\ MaxBatch \in Nat
    /\ ToolOutcomes \subseteq ToolHostOutcomes \ {"Cancelled"}
    /\ Budgets \subseteq Nat
    /\ StepLimit \in Nat \ {0}

VARIABLES
    pc,           \* where run_turn_loop is
    outcome,      \* the last outcome of the reducer; its state is the engine's
    effects,      \* what the inner loop has still to run, the running one included
    advanced,     \* is_reducer_advanced
    steps,        \* reducer_step_index
    cancelled,    \* the session's cancellation token
    observed,     \* observed_events: the engine's events that were surfaced
    transcript,   \* TurnTranscript and the events it sent
    asked,        \* history: the ids of the requests the model was called with
    result        \* what run_turn_loop returned

vars == <<pc, outcome, effects, advanced, steps, cancelled, observed, transcript, asked, result>>

engine == outcome.state

-----------------------------------------------------------------------------
(* The transcript.                                                         *)

TranscriptEvents == [kind : {"TurnStart", "TurnEnd"}, index : Nat]

Transcripts ==
    [messages : Seq(Messages), turn_index : Nat, turn_active : BOOLEAN, pending_tools : Nat,
     batch : Nat, last_assistant : BOOLEAN, events : Seq(TranscriptEvents)]

NewTranscript(messages) ==
    [messages |-> messages, turn_index |-> 0, turn_active |-> FALSE, pending_tools |-> 0,
     batch |-> 0, last_assistant |-> FALSE, events |-> <<>>]

Announce(t, kind) == [t EXCEPT !.events = Append(@, [kind |-> kind, index |-> t.turn_index])]

TurnEnd(t) ==
    [Announce(t, "TurnEnd") EXCEPT !.turn_active = FALSE, !.last_assistant = FALSE, !.batch = 0,
                                   !.turn_index = @ + 1]

\* Mutant: a start is announced for every attempt.
MarkEveryAttempt(t) == Announce([t EXCEPT !.turn_active = TRUE], "TurnStart")

mark_turn_start(t) ==
    IF t.turn_active THEN t ELSE Announce([t EXCEPT !.turn_active = TRUE], "TurnStart")

append_assistant(t, calls) ==
    [t EXCEPT !.messages = Append(@, Assistant(calls)), !.last_assistant = TRUE,
              !.pending_tools = Len(calls), !.batch = 0]

\* Mutant: a result is recorded only when its batch is complete.
AppendCompleteBatch(t, call, error) ==
    LET counted == [t EXCEPT !.batch = @ + 1]
    IN  IF counted.batch < counted.pending_tools
        THEN counted
        ELSE [TurnEnd([counted EXCEPT !.messages = Append(@, Tool([call |-> call, error |-> error]))])
                 EXCEPT !.pending_tools = 0]

append_tool_result(t, call, error) ==
    LET pushed == [t EXCEPT !.messages = Append(@, Tool([call |-> call, error |-> error])),
                            !.batch = @ + 1]
    IN  IF \/ pushed.pending_tools = 0
           \/ pushed.batch < pushed.pending_tools
           \/ ~pushed.last_assistant
        THEN pushed
        ELSE [TurnEnd(pushed) EXCEPT !.pending_tools = 0]

finish_turn(t) ==
    IF ~t.turn_active \/ t.pending_tools # 0 \/ ~t.last_assistant
    THEN [t EXCEPT !.turn_active = FALSE]
    ELSE TurnEnd(t)

-----------------------------------------------------------------------------
(* run_turn_loop submits the prompt; a rejection is returned at once.      *)

NoOutcome == Accepted(NewEngine, <<>>)

Init ==
    /\ pc = "submit" /\ result = "none"
    /\ outcome = NoOutcome /\ effects = <<>>
    /\ advanced = FALSE /\ steps = 0
    /\ cancelled = FALSE
    /\ observed = <<>> /\ asked = <<>>
    /\ transcript = NewTranscript(<<User>>)

Submit(budget) ==
    /\ pc = "submit"
    /\ outcome' = apply_submit_user_prompt(NewEngine, <<User>>, budget)
    /\ IF outcome'.rejection = "none"
       THEN pc' = "head" /\ UNCHANGED result
       ELSE pc' = "returned" /\ result' = "Error"
    /\ UNCHANGED <<effects, advanced, steps, cancelled, observed, transcript, asked>>

-----------------------------------------------------------------------------
(* The loop over reducer outcomes.                                         *)

Decided == outcome.rejection # "none" \/ outcome.failure

\* Mutant: the loop stops at a finished engine, its events unseen.
StopTurnWhenFinished ==
    /\ pc = "head" /\ steps < StepLimit
    /\ Decided \/ outcome.effects = <<>> \/ engine.phase = "Finished"
    /\ pc' = "report"
    /\ UNCHANGED <<outcome, effects, advanced, steps, cancelled, observed, transcript, asked, result>>

StopTurn ==
    /\ pc = "head" /\ steps < StepLimit
    /\ Decided \/ outcome.effects = <<>>
    /\ pc' = "report"
    /\ UNCHANGED <<outcome, effects, advanced, steps, cancelled, observed, transcript, asked, result>>

RunEffects ==
    /\ pc = "head" /\ steps < StepLimit
    /\ ~Decided /\ outcome.effects # <<>>
    /\ effects' = outcome.effects
    /\ advanced' = FALSE
    /\ pc' = "effects"
    /\ UNCHANGED <<outcome, steps, cancelled, observed, transcript, asked, result>>

StepLimitExceeded ==
    /\ pc = "head" /\ steps = StepLimit
    /\ outcome' = [outcome EXCEPT !.effects = <<>>, !.failure = TRUE]
    /\ pc' = "report"
    /\ UNCHANGED <<effects, advanced, steps, cancelled, observed, transcript, asked, result>>

EndOfEffects ==
    /\ pc = "effects" /\ effects = <<>>
    /\ IF advanced
       THEN pc' = "head" /\ steps' = steps + 1
       ELSE pc' = "report" /\ UNCHANGED steps
    /\ UNCHANGED <<outcome, effects, advanced, cancelled, observed, transcript, asked, result>>

\* run_turn_loop's answer: the token is looked at before the report.
Return ==
    /\ pc = "report"
    /\ pc' = "returned"
    /\ result' = IF cancelled THEN "Cancelled" ELSE IF Decided THEN "Error" ELSE "Ok"
    /\ UNCHANGED <<outcome, effects, advanced, steps, cancelled, observed, transcript, asked>>

-----------------------------------------------------------------------------
(* The effects.                                                            *)

Feed(input) ==
    /\ outcome' = reduce(engine, input)
    /\ advanced' = TRUE
    /\ pc' = "effects"

cancel_input == [kind |-> "CancelTurn"]

NextEffect(kind) == pc = "effects" /\ effects # <<>> /\ Head(effects).kind = kind

EmitEvent ==
    /\ NextEffect("EmitEvent")
    /\ observed' = Append(observed, Head(effects).event)
    /\ transcript' = IF Head(effects).event = "TurnFinished" THEN finish_turn(transcript) ELSE transcript
    /\ effects' = Tail(effects)
    /\ UNCHANGED <<pc, outcome, advanced, steps, cancelled, asked, result>>

StartModel ==
    /\ NextEffect("RequestModel")
    /\ \/ /\ cancelled
          /\ Feed(cancel_input)
          /\ effects' = <<>>
          /\ UNCHANGED <<transcript, asked>>
       \/ /\ ~cancelled
          /\ pc' = "model"
          /\ transcript' = mark_turn_start(transcript)
          /\ asked' = Append(asked, Head(effects).id)
          /\ UNCHANGED <<outcome, effects, advanced>>
    /\ UNCHANGED <<steps, cancelled, observed, result>>

\* The adapter has recorded a complete response before the token is looked at again.
ModelCompletes(response) ==
    /\ pc = "model"
    /\ transcript' = append_assistant(transcript, response.calls)
    /\ Feed(IF cancelled THEN cancel_input
            ELSE [kind |-> "ModelCompleted", id |-> Head(effects).id, response |-> response])
    /\ effects' = <<>>
    /\ UNCHANGED <<steps, cancelled, observed, asked, result>>

\* A stream that does not fold into a response fails without a retry, too.
ModelFails(retryable) ==
    /\ pc = "model"
    /\ Feed(IF cancelled THEN cancel_input
            ELSE [kind |-> "ModelFailed", id |-> Head(effects).id, retryable |-> retryable])
    /\ effects' = <<>>
    /\ UNCHANGED <<steps, cancelled, observed, transcript, asked, result>>

StartRetry ==
    /\ NextEffect("ScheduleRetry")
    /\ \/ cancelled /\ Feed(cancel_input) /\ effects' = <<>>
       \/ ~cancelled /\ pc' = "retry" /\ UNCHANGED <<outcome, effects, advanced>>
    /\ UNCHANGED <<steps, cancelled, observed, transcript, asked, result>>

RetryWakes ==
    /\ pc = "retry"
    /\ Feed(IF cancelled THEN cancel_input ELSE [kind |-> "RetryReady", id |-> Head(effects).id])
    /\ effects' = <<>>
    /\ UNCHANGED <<steps, cancelled, observed, transcript, asked, result>>

\* After a tool the loop goes on with the next effect unless the outcome ends the turn.
NextTool == effects' = IF outcome'.rejection # "none" \/ outcome'.failure THEN <<>> ELSE Tail(effects)

\* Mutant: the token is not looked at before a tool.
StartToolAlways ==
    /\ NextEffect("ExecuteTool")
    /\ pc' = "tool"
    /\ UNCHANGED <<outcome, effects, advanced, steps, cancelled, observed, transcript, asked, result>>

StartTool ==
    /\ NextEffect("ExecuteTool")
    /\ \/ cancelled /\ Feed(cancel_input) /\ NextTool
       \/ ~cancelled /\ pc' = "tool" /\ UNCHANGED <<outcome, effects, advanced>>
    /\ UNCHANGED <<steps, cancelled, observed, transcript, asked, result>>

tool_outcome_to_input(call, tool_outcome) ==
    IF cancelled \/ tool_outcome = "Cancelled" THEN cancel_input
    ELSE IF tool_outcome \in {"Succeeded", "Truncated"} THEN [kind |-> "ToolCompleted", call |-> call]
    ELSE [kind |-> "ToolFailed", call |-> call]

ToolReturns(tool_outcome) ==
    LET call == Head(effects).call
    IN  /\ pc = "tool"
        /\ transcript' = append_tool_result(transcript, call, tool_outcome \notin {"Succeeded", "Truncated"})
        /\ Feed(tool_outcome_to_input(call, tool_outcome))
        /\ NextTool
        /\ UNCHANGED <<steps, cancelled, observed, asked, result>>

\* The user aborts; the token stays cancelled for the rest of the turn.
Cancel ==
    /\ pc # "returned" /\ ~cancelled
    /\ cancelled' = TRUE
    /\ UNCHANGED <<pc, outcome, effects, advanced, steps, observed, transcript, asked, result>>

\* "Stop" stands for every stop reason but ToolUse.  The ids of a response may repeat.
Responses == [stop : {"ToolUse", "Stop"}, calls : UNION {[1 .. n -> CallIds] : n \in 0 .. MaxBatch}]

Next ==
    \/ \E budget \in Budgets : Submit(budget)
    \/ StopTurn \/ RunEffects \/ StepLimitExceeded \/ EndOfEffects \/ Return
    \/ EmitEvent
    \/ StartModel
    \/ \E response \in Responses : ModelCompletes(response)
    \/ \E retryable \in BOOLEAN : ModelFails(retryable)
    \/ StartRetry \/ RetryWakes
    \/ StartTool
    \/ \E tool_outcome \in ToolOutcomes : ToolReturns(tool_outcome)
    \/ Cancel

Spec == Init /\ [][Next]_vars

-----------------------------------------------------------------------------
(* Properties.                                                             *)

\* Types, with the bounds the engine keeps: attempts within the retry policy and slots within
\* the budget.
TypeOK ==
    /\ pc \in {"submit", "head", "effects", "model", "retry", "tool", "report", "returned"}
    /\ outcome \in EngineOutcome /\ effects \in Seq(Effects)
    /\ advanced \in BOOLEAN /\ cancelled \in BOOLEAN /\ steps \in 0 .. StepLimit
    /\ observed \in Seq(Events) /\ transcript \in Transcripts /\ asked \in Seq(Nat)
    /\ result \in {"none", "Ok", "Error", "Cancelled"}
    /\ engine.slots_used <= engine.budget

\* The results that follow position i of a conversation answer calls, one each, in order.
AnsweredAt(messages, i, calls) ==
    \A k \in 1 .. Len(calls) :
        /\ i + k <= Len(messages)
        /\ messages[i + k].role = "Tool" /\ messages[i + k].call = calls[k]

\* A request never reaches the model with a tool call open: each assistant message is followed
\* by the results of all its calls, once each and in the order of the calls, and no result
\* stands anywhere else (apply_tool_feedback buffers the results of a batch until it is complete).
RequestsAnswered ==
    pc = "model" =>
        /\ \A i \in 1 .. Len(engine.messages) :
               engine.messages[i].role = "Assistant" =>
                   AnsweredAt(engine.messages, i, engine.messages[i].calls)
        /\ \A i \in 1 .. Len(engine.messages) :
               engine.messages[i].role = "Tool" =>
                   \E j \in 1 .. i - 1 : /\ engine.messages[j].role = "Assistant"
                                         /\ i - j <= Len(engine.messages[j].calls)

\* The two records of the conversation agree whenever the model is asked and when the turn has
\* succeeded: what the session keeps (TurnTranscript) is what the model was told (EngineState).
TranscriptAgrees ==
    pc = "model" \/ result = "Ok" => transcript.messages = engine.messages

\* The number of times the model was called for request id.
Attempts(id) == Cardinality({i \in 1 .. Len(asked) : asked[i] = id})

\* The model is called at most once and RetryCount times more for each request, and at most
\* budget requests are made, whatever fails in between (retry_delay_for_attempt, slots_used).
CallsBounded ==
    /\ \A id \in Range(asked) : Attempts(id) <= RetryCount + 1
    /\ Cardinality(Range(asked)) <= engine.budget

\* A turn reported as a success is one: the engine is finished with nothing pending, and its
\* terminal events were surfaced, TurnFinished exactly once and last.
OkIsFinished ==
    result = "Ok" =>
        /\ engine.phase = "Finished" /\ ~Decided
        /\ {i \in 1 .. Len(observed) : observed[i] = "TurnFinished"} = {Len(observed)}
        /\ "BusyFalse" \in Range(observed)

\* Position of the host's loop and state of the reducer agree: a tool runs only in a turn that
\* waits for tools, and what is left to run is exactly what has no result yet.
ToolsRunInOrder ==
    pc = "tool" =>
        /\ engine.phase = "WaitingForTools"
        /\ Len(engine.buffered) + Len(effects) = Len(engine.pending_tool_calls)
        /\ \A i \in 1 .. Len(effects) :
               effects[i].call = engine.pending_tool_calls[Len(engine.buffered) + i]

\* TurnStart and TurnEnd of the transcript alternate with the same index, retries included, and
\* a successful turn whose last response left no call open has ended the last one.
TurnEventsPaired ==
    LET events == transcript.events
        last   == engine.messages[Len(engine.messages)]
    IN  /\ \A i \in 1 .. Len(events) :
               events[i] = [kind |-> IF i % 2 = 1 THEN "TurnStart" ELSE "TurnEnd", index |-> (i - 1) \div 2]
        /\ result = "Ok" /\ (last.role = "Assistant" => last.calls = <<>>) => Len(events) % 2 = 0

=============================================================================
