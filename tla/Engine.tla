------------------------------- MODULE Engine -------------------------------
(***************************************************************************)
(* The turn engine of crates/clankers-engine/src/lib.rs: the policy of one *)
(* accepted turn of a model with tools.  reduce maps a state and an input  *)
(* to an outcome: the next state, the effects the host is to run, and a    *)
(* rejection or a terminal failure.                                        *)
(*                                                                         *)
(* A message is what the conversation's shape depends on: who speaks, the  *)
(* tool calls an assistant makes, the call a tool result answers and       *)
(* whether it is an error.  A model request is known by its sequence       *)
(* number; the request template, copied unchanged, by its presence.        *)
(***************************************************************************)
EXTENDS Naturals, Sequences, Functions

CONSTANTS
    CallIds,     \* ids the model gives to its tool calls
    NoRequest,   \* pending_model_request is None
    RetryCount   \* length of the retry policy's retry_delays

ASSUME EngineAssumption ==
    /\ RetryCount \in Nat
    /\ NoRequest \notin Nat

Phases == {"Idle", "WaitingForModel", "WaitingForRetry", "WaitingForTools", "Finished"}
Rejections == {"Busy", "CorrelationMismatch", "InvalidPhase", "MissingToolCall", "InvalidBudget"}

User == [role |-> "User"]
Assistant(calls) == [role |-> "Assistant", calls |-> calls]
Tool(result) == [role |-> "Tool", call |-> result.call, error |-> result.error]

Emit(event) == [kind |-> "EmitEvent", event |-> event]
RequestModel(id) == [kind |-> "RequestModel", id |-> id]
ScheduleRetry(id) == [kind |-> "ScheduleRetry", id |-> id]
ExecuteTool(call) == [kind |-> "ExecuteTool", call |-> call]

Events == {"BusyTrue", "BusyFalse", "Notice", "TurnFinished"}
Results == [call : CallIds, error : BOOLEAN]

Messages ==
    {User} \cup [role : {"Assistant"}, calls : Seq(CallIds)]
           \cup [role : {"Tool"}, call : CallIds, error : BOOLEAN]

Effects ==
    [kind : {"EmitEvent"}, event : Events]
        \cup [kind : {"RequestModel", "ScheduleRetry"}, id : Nat]
        \cup [kind : {"ExecuteTool"}, call : CallIds]

EngineState ==
    [phase : Phases, messages : Seq(Messages), template : BOOLEAN,
     pending_model_request : Nat \cup {NoRequest}, next_sequence : Nat,
     pending_tool_calls : Seq(CallIds), buffered : Seq(Results), retry_attempts : 0 .. RetryCount,
     budget : Nat, slots_used : Nat]

EngineOutcome ==
    [state : EngineState, effects : Seq(Effects), rejection : Rejections \cup {"none"},
     failure : BOOLEAN]

NewEngine ==
    [phase |-> "Idle", messages |-> <<>>, template |-> FALSE, pending_model_request |-> NoRequest,
     next_sequence |-> 1, pending_tool_calls |-> <<>>, buffered |-> <<>>, retry_attempts |-> 0,
     budget |-> 0, slots_used |-> 0]

Accepted(state, effects) == [state |-> state, effects |-> effects, rejection |-> "none", failure |-> FALSE]

rejected_outcome(state, rejection) ==
    [state |-> state, effects |-> <<>>, rejection |-> rejection, failure |-> FALSE]

-----------------------------------------------------------------------------
(* Terminal outcomes.                                                      *)

terminal_state(state, messages) ==
    [state EXCEPT !.phase = "Finished", !.messages = messages, !.template = FALSE,
                  !.pending_model_request = NoRequest, !.pending_tool_calls = <<>>,
                  !.buffered = <<>>, !.retry_attempts = 0]

terminal_success_outcome(state, messages) ==
    Accepted(terminal_state(state, messages), <<Emit("BusyFalse"), Emit("TurnFinished")>>)

terminal_notice_outcome(state, messages) ==
    Accepted(terminal_state(state, messages), <<Emit("BusyFalse"), Emit("Notice"), Emit("TurnFinished")>>)

terminal_failure_outcome(state) ==
    [terminal_notice_outcome(state, state.messages) EXCEPT !.failure = TRUE]

-----------------------------------------------------------------------------
(* Inputs.                                                                 *)

\* mint_model_request_id and build_model_request for the next request of the turn.
AskModel(state, messages) ==
    [state EXCEPT !.phase = "WaitingForModel", !.messages = messages, !.template = TRUE,
                  !.pending_model_request = state.next_sequence, !.next_sequence = @ + 1,
                  !.pending_tool_calls = <<>>, !.buffered = <<>>, !.retry_attempts = 0,
                  !.slots_used = @ + 1]

apply_submit_user_prompt(state, messages, budget) ==
    IF state.phase # "Idle" \/ state.pending_model_request # NoRequest
    THEN rejected_outcome(state, "Busy")
    ELSE IF budget < 1
    THEN rejected_outcome(state, "InvalidBudget")
    ELSE Accepted(AskModel([state EXCEPT !.budget = budget, !.slots_used = 0], messages),
                  <<Emit("BusyTrue"), Emit("Notice"), RequestModel(state.next_sequence)>>)

\* The checks every answer to a model request passes first.
Mismatch(state, phase, id) ==
    IF state.phase # phase \/ state.pending_model_request = NoRequest THEN "InvalidPhase"
    ELSE IF state.pending_model_request # id THEN "CorrelationMismatch"
    ELSE "none"

apply_tool_use_model_completion(state, messages, calls) ==
    IF calls = <<>>
    THEN rejected_outcome(state, "MissingToolCall")
    ELSE Accepted([state EXCEPT !.phase = "WaitingForTools", !.messages = messages,
                                !.pending_model_request = NoRequest, !.pending_tool_calls = calls,
                                !.buffered = <<>>, !.retry_attempts = 0],
                  [i \in 1 .. Len(calls) |-> ExecuteTool(calls[i])])

\* A response is its stop reason and the tool calls its output contains, in order.
apply_model_completion(state, id, response) ==
    LET mismatch == Mismatch(state, "WaitingForModel", id)
        messages == Append(state.messages, Assistant(response.calls))
    IN  IF mismatch # "none"
        THEN rejected_outcome(state, mismatch)
        ELSE IF response.stop = "ToolUse"
        THEN apply_tool_use_model_completion(state, messages, response.calls)
        ELSE terminal_success_outcome(state, messages)

apply_model_failed(state, id, retryable) ==
    LET waiting == IF state.phase = "WaitingForRetry" THEN state.phase ELSE "WaitingForModel"
        mismatch == Mismatch(state, waiting, id)
    IN  IF mismatch # "none"
        THEN rejected_outcome(state, mismatch)
        ELSE IF waiting = "WaitingForRetry"
        THEN rejected_outcome(state, "InvalidPhase")
        ELSE IF retryable /\ state.template /\ state.retry_attempts < RetryCount
        THEN Accepted([state EXCEPT !.phase = "WaitingForRetry", !.pending_tool_calls = <<>>,
                                    !.buffered = <<>>, !.retry_attempts = @ + 1],
                      <<ScheduleRetry(id)>>)
        ELSE terminal_failure_outcome(state)

\* Mutant: a retry starts the count of attempts anew.
RetryForgetsAttempts(state, id) ==
    IF Mismatch(state, "WaitingForRetry", id) # "none"
    THEN rejected_outcome(state, "InvalidPhase")
    ELSE Accepted([state EXCEPT !.phase = "WaitingForModel", !.retry_attempts = 0], <<RequestModel(id)>>)

apply_retry_ready(state, id) ==
    LET mismatch == Mismatch(state, "WaitingForRetry", id)
    IN  IF mismatch # "none"
        THEN rejected_outcome(state, mismatch)
        ELSE IF ~state.template
        THEN rejected_outcome(state, "InvalidPhase")
        ELSE Accepted([state EXCEPT !.phase = "WaitingForModel", !.pending_tool_calls = <<>>,
                                    !.buffered = <<>>],
                      <<RequestModel(id)>>)

\* Mutant: the results of failed tools are not recorded.
SuccessesInCallOrder(calls, results) ==
    LET succeeded == SelectSeq(results, LAMBDA r : ~r.error)
    IN  [i \in 1 .. Len(succeeded) |-> Tool(succeeded[i])]

\* The results of a batch in the order of its calls, whatever order they came in.
InCallOrder(calls, results) ==
    [i \in 1 .. Len(calls) |->
        Tool(results[CHOOSE j \in 1 .. Len(results) :
                         /\ results[j].call = calls[i]
                         /\ \A k \in 1 .. j - 1 : results[k].call # calls[i]])]

\* Mutant: one request too many.
BudgetExceeded(state) == state.slots_used > state.budget

BudgetExhausted(state) == state.slots_used >= state.budget

apply_tool_feedback(state, call, error) ==
    LET buffered == Append(state.buffered, [call |-> call, error |-> error])
        messages == state.messages \o InCallOrder(state.pending_tool_calls, buffered)
    IN  IF state.phase # "WaitingForTools"
        THEN rejected_outcome(state, "InvalidPhase")
        ELSE IF \/ call \notin Range(state.pending_tool_calls)
                \/ \E result \in Range(state.buffered) : result.call = call
        THEN rejected_outcome(state, "CorrelationMismatch")
        ELSE IF Len(buffered) < Len(state.pending_tool_calls)
        THEN Accepted([state EXCEPT !.buffered = buffered, !.retry_attempts = 0,
                                    !.pending_model_request = NoRequest], <<>>)
        ELSE IF ~state.template
        THEN rejected_outcome(state, "InvalidPhase")
        ELSE IF ~(Range(state.pending_tool_calls) \subseteq {r.call : r \in Range(buffered)})
        THEN rejected_outcome(state, "CorrelationMismatch")
        ELSE IF BudgetExhausted(state)
        THEN terminal_notice_outcome(state, messages)
        ELSE Accepted(AskModel(state, messages), <<RequestModel(state.next_sequence)>>)

apply_cancel_turn(state) ==
    IF state.phase \in {"WaitingForModel", "WaitingForRetry", "WaitingForTools"}
    THEN terminal_notice_outcome(state, state.messages)
    ELSE rejected_outcome(state, "InvalidPhase")

\* The record of an input carries the arguments of its reducer.
reduce(state, input) ==
    CASE input.kind = "ModelCompleted" -> apply_model_completion(state, input.id, input.response)
      [] input.kind = "ModelFailed"    -> apply_model_failed(state, input.id, input.retryable)
      [] input.kind = "RetryReady"     -> apply_retry_ready(state, input.id)
      [] input.kind = "ToolCompleted"  -> apply_tool_feedback(state, input.call, FALSE)
      [] input.kind = "ToolFailed"     -> apply_tool_feedback(state, input.call, TRUE)
      [] input.kind = "CancelTurn"     -> apply_cancel_turn(state)

=============================================================================
