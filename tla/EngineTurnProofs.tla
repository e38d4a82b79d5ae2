--------------------------- MODULE EngineTurnProofs ---------------------------
(***************************************************************************)
(* Proofs about EngineTurn, for every retry policy, budget, batch size and *)
(* step limit.                                                             *)
(*                                                                         *)
(* What the host's loop has still to run always fits the phase the engine  *)
(* is in, and until the turn fails or is cancelled the transcript is the   *)
(* engine's conversation with the results the engine still buffers.  Both  *)
(* hold because the host runs a batch in the order of its calls, so that   *)
(* the buffer is a prefix of the batch.                                    *)
(***************************************************************************)
EXTENDS EngineTurn, FiniteSetTheorems, SequenceTheorems, TLAPS

-----------------------------------------------------------------------------
(* The inductive invariant.                                                *)

InLoop == pc \in {"head", "effects", "model", "retry", "tool"}

\* The phases of a turn that waits for an answer to its last request.
AwaitsModel == engine.phase \in {"WaitingForModel", "WaitingForRetry"}

\* What a phase of the engine means for its other fields.
FieldsFit(e) ==
    /\ e.next_sequence = e.slots_used + 1
    /\ e.phase \in {"WaitingForModel", "WaitingForRetry"} =>
           e.template /\ e.pending_model_request = e.slots_used /\ e.slots_used > 0
    /\ e.phase = "WaitingForTools" =>
           /\ e.template
           /\ Len(e.buffered) < Len(e.pending_tool_calls)
           /\ \A i \in 1 .. Len(e.buffered) :
                  /\ e.buffered[i].call = e.pending_tool_calls[i]
                  /\ \A j \in 1 .. i - 1 : e.pending_tool_calls[j] # e.pending_tool_calls[i]

PhaseFields == FieldsFit(engine)

\* Before the prompt is submitted nothing has happened.
Fresh ==
    /\ outcome = NoOutcome /\ effects = <<>> /\ ~advanced /\ observed = <<>> /\ asked = <<>>
    /\ transcript = NewTranscript(<<User>>)

\* The position of the host.
HostPosition ==
    /\ pc = "submit" => Fresh
    /\ InLoop => engine.phase # "Idle"
    /\ pc \in {"effects", "model", "retry", "tool"} => steps < StepLimit
    /\ pc = "head" => effects = <<>>
    /\ pc = "effects" /\ Decided => advanced /\ effects = <<>>
    /\ pc \in {"model", "retry", "tool"} => ~Decided
    /\ pc # "returned" => result = "none"

\* Events the host may surface before the last one of a turn.
Early(effect) == effect.kind = "EmitEvent" /\ effect.event # "TurnFinished"

EarlyBut(es, last) ==
    /\ es # <<>> /\ es[Len(es)] = last
    /\ \A i \in 1 .. Len(es) - 1 : Early(es[i])

FitsModel(es, e) == EarlyBut(es, RequestModel(e.pending_model_request))

FitsRetry(es, e) == es = <<ScheduleRetry(e.pending_model_request)>>

FitsTools(es, e) ==
    /\ Len(e.buffered) + Len(es) = Len(e.pending_tool_calls)
    /\ \A i \in 1 .. Len(es) : es[i] = ExecuteTool(e.pending_tool_calls[Len(e.buffered) + i])

\* The terminal events were surfaced, TurnFinished once and last.
Surfaced ==
    /\ {i \in 1 .. Len(observed) : observed[i] = "TurnFinished"} = {Len(observed)}
    /\ "BusyFalse" \in Range(observed)

FitsFinished(es) ==
    \/ es = <<>> /\ Surfaced
    \/ /\ EarlyBut(es, Emit("TurnFinished"))
       /\ es[1] = Emit("BusyFalse") \/ "BusyFalse" \in Range(observed)
       /\ "TurnFinished" \notin Range(observed)

Fits(es) ==
    /\ engine.phase = "WaitingForModel" => FitsModel(es, engine)
    /\ engine.phase = "WaitingForRetry" => FitsRetry(es, engine)
    /\ engine.phase = "WaitingForTools" => FitsTools(es, engine)
    /\ engine.phase = "Finished" => FitsFinished(es)

\* A new outcome waits for the loop to come round.
NewOutcome == pc = "head" \/ (pc = "effects" /\ advanced /\ effects = <<>>)

\* The rest of a batch whose turn was cancelled.
Leftover ==
    /\ pc = "effects" /\ advanced /\ cancelled /\ engine.phase = "Finished" /\ effects # <<>>
    /\ \A i \in 1 .. Len(effects) : effects[i].kind = "ExecuteTool"

\* What is left to run fits the phase of the engine.
LoopFits ==
    /\ InLoop /\ ~Decided /\ NewOutcome => Fits(outcome.effects)
    /\ InLoop /\ ~Decided /\ ~NewOutcome => Fits(effects) \/ Leftover
    /\ pc = "effects" /\ ~NewOutcome /\ advanced => engine.phase = "WaitingForTools" \/ Leftover
    /\ pc = "model" => engine.phase = "WaitingForModel" /\ ~advanced /\ Len(effects) = 1
    /\ pc = "retry" => engine.phase = "WaitingForRetry" /\ ~advanced
    /\ pc = "tool" => engine.phase = "WaitingForTools" /\ effects # <<>>
    /\ engine.phase # "Finished" => "TurnFinished" \notin Range(observed)
    /\ pc = "report" /\ ~Decided => engine.phase = "Finished" /\ Surfaced
    /\ result = "Ok" => ~Decided /\ ~cancelled /\ engine.phase = "Finished" /\ Surfaced

\* Every call of a conversation is answered, or every one before its last message.
AnsweredBefore(messages, n) ==
    /\ \A i \in 1 .. n :
           messages[i].role = "Assistant" => AnsweredAt(messages, i, messages[i].calls)
    /\ \A i \in 1 .. Len(messages) :
           messages[i].role = "Tool" =>
               \E j \in 1 .. i - 1 : /\ messages[j].role = "Assistant"
                                     /\ i - j <= Len(messages[j].calls)

Answered(messages) == AnsweredBefore(messages, Len(messages))

OpenBatch(messages, calls) ==
    /\ messages # <<>> /\ messages[Len(messages)] = Assistant(calls)
    /\ AnsweredBefore(messages, Len(messages) - 1)

Answers(results) == [i \in 1 .. Len(results) |-> Tool(results[i])]

\* The conversation the engine keeps, and the transcript's.
Conversation ==
    /\ AwaitsModel => Answered(engine.messages)
    /\ engine.phase = "WaitingForTools" => OpenBatch(engine.messages, engine.pending_tool_calls)

Agreement ==
    ~Decided =>
        /\ AwaitsModel => transcript.messages = engine.messages
        /\ engine.phase = "WaitingForTools" =>
               transcript.messages = engine.messages \o Answers(engine.buffered)
        /\ engine.phase = "Finished" /\ ~cancelled => transcript.messages = engine.messages

\* The calls of the model, by request.
Calls ==
    /\ \A i \in 1 .. Len(asked) : asked[i] \in 1 .. engine.slots_used
    /\ \A id \in 1 .. engine.slots_used : Attempts(id) <= RetryCount + 1
    /\ AwaitsModel /\ ~Decided =>
           Attempts(engine.slots_used) <= engine.retry_attempts + (IF pc = "model" THEN 1 ELSE 0)

\* The events of the transcript.
EventAt(i) == [kind |-> IF i % 2 = 1 THEN "TurnStart" ELSE "TurnEnd", index |-> (i - 1) \div 2]

Alternates(t) == \A i \in 1 .. Len(t.events) : t.events[i] = EventAt(i)

Running(t) == t.turn_active /\ Len(t.events) = 2 * t.turn_index + 1

Ended(t) == Len(t.events) = 2 * t.turn_index

\* Nothing is open in the conversation after the last answer of the model.
LastAnswer(messages, t) ==
    LET last == messages[Len(messages)]
    IN  /\ last.role = "Assistant" =>
               t.turn_active /\ t.last_assistant /\ t.pending_tools = Len(last.calls)
        /\ last.role # "Assistant" => ~t.turn_active /\ Ended(t)

LastEnded(messages, t) ==
    LET last == messages[Len(messages)]
    IN  (last.role = "Assistant" => last.calls = <<>>) => Ended(t)

Announced ==
    /\ Alternates(transcript)
    /\ transcript.turn_active => Running(transcript)
    /\ ~transcript.turn_active /\ engine.phase # "Finished" => Ended(transcript)
    /\ pc = "model" => transcript.turn_active
    /\ engine.phase = "WaitingForTools" /\ ~Decided =>
           /\ transcript.turn_active /\ transcript.last_assistant
           /\ transcript.pending_tools = Len(engine.pending_tool_calls)
           /\ transcript.batch = Len(engine.buffered)
    /\ engine.phase = "Finished" /\ ~Decided /\ ~cancelled =>
           IF "TurnFinished" \in Range(observed)
           THEN LastEnded(engine.messages, transcript)
           ELSE LastAnswer(engine.messages, transcript)

IInv ==
    /\ TypeOK
    /\ PhaseFields
    /\ HostPosition
    /\ LoopFits
    /\ Conversation
    /\ Agreement
    /\ Calls
    /\ Announced

-----------------------------------------------------------------------------
(* What the reducer makes of an input, in terms of the fields that count.  *)

Continues(o) == o \in EngineOutcome /\ o.rejection = "none" /\ ~o.failure

SameCounters(e, f) ==
    f.next_sequence = e.next_sequence /\ f.slots_used = e.slots_used /\ f.budget = e.budget

Rejects(e, o) == o \in EngineOutcome /\ o.state = e /\ o.rejection # "none"

Finishes(e, o, messages) ==
    /\ Continues(o) /\ o.state.phase = "Finished" /\ o.state.messages = messages
    /\ SameCounters(e, o.state)
    /\ EarlyBut(o.effects, Emit("TurnFinished")) /\ o.effects[1] = Emit("BusyFalse")

Fails(e, o) ==
    o \in EngineOutcome /\ o.failure /\ o.state.phase = "Finished" /\ SameCounters(e, o.state)

Retries(e, o) ==
    /\ Continues(o) /\ o.state.phase = "WaitingForRetry" /\ SameCounters(e, o.state)
    /\ o.state.messages = e.messages /\ o.state.template = e.template
    /\ o.state.pending_model_request = e.pending_model_request
    /\ o.state.retry_attempts = e.retry_attempts + 1
    /\ FitsRetry(o.effects, o.state)

RequestsAgain(e, o) ==
    /\ Continues(o) /\ o.state.phase = "WaitingForModel" /\ SameCounters(e, o.state)
    /\ o.state.messages = e.messages /\ o.state.template = e.template
    /\ o.state.pending_model_request = e.pending_model_request
    /\ o.state.retry_attempts = e.retry_attempts
    /\ FitsModel(o.effects, o.state)

StartsBatch(e, o, calls) ==
    /\ Continues(o) /\ o.state.phase = "WaitingForTools" /\ SameCounters(e, o.state)
    /\ o.state.messages = Append(e.messages, Assistant(calls)) /\ o.state.template = e.template
    /\ o.state.pending_tool_calls = calls /\ calls # <<>> /\ o.state.buffered = <<>>
    /\ FitsTools(o.effects, o.state)

Buffers(e, o, res) ==
    /\ Continues(o) /\ o.state.phase = "WaitingForTools" /\ SameCounters(e, o.state)
    /\ o.state.messages = e.messages /\ o.state.template = e.template
    /\ o.state.pending_tool_calls = e.pending_tool_calls
    /\ o.state.buffered = Append(e.buffered, res)

Asks(e, o, messages) ==
    /\ Continues(o) /\ o.state.phase = "WaitingForModel" /\ o.state.messages = messages
    /\ o.state.template /\ o.state.pending_model_request = e.next_sequence
    /\ o.state.next_sequence = e.next_sequence + 1
    /\ o.state.slots_used = e.slots_used + 1 /\ o.state.slots_used <= o.state.budget
    /\ o.state.retry_attempts = 0
    /\ FitsModel(o.effects, o.state)

\* The messages, results and effects of the engine have their types.
LEMMA Constructors ==
    /\ User \in Messages
    /\ \A calls \in Seq(CallIds) : Assistant(calls) \in Messages /\ Assistant(calls).role = "Assistant"
                                   /\ Assistant(calls).calls = calls
    /\ \A res \in Results : Tool(res) \in Messages /\ Tool(res).role = "Tool" /\ Tool(res).call = res.call
    /\ \A event \in Events : Emit(event) \in Effects /\ Emit(event).kind = "EmitEvent"
                             /\ Emit(event).event = event
    /\ \A id \in Nat : RequestModel(id) \in Effects /\ RequestModel(id).kind = "RequestModel"
                       /\ RequestModel(id).id = id
    /\ \A id \in Nat : ScheduleRetry(id) \in Effects /\ ScheduleRetry(id).kind = "ScheduleRetry"
                       /\ ScheduleRetry(id).id = id
    /\ \A call \in CallIds : ExecuteTool(call) \in Effects /\ ExecuteTool(call).kind = "ExecuteTool"
                             /\ ExecuteTool(call).call = call
BY DEF Messages, User, Assistant, Tool, Results, Effects, Emit, RequestModel, ScheduleRetry,
   ExecuteTool

\* The fields of an engine's state.
LEMMA EngineTyped ==
    ASSUME NEW e \in EngineState
    PROVE  /\ e.phase \in Phases /\ e.messages \in Seq(Messages) /\ e.template \in BOOLEAN
           /\ e.pending_model_request \in Nat \cup {NoRequest} /\ e.next_sequence \in Nat
           /\ e.pending_tool_calls \in Seq(CallIds) /\ e.buffered \in Seq(Results)
           /\ e.retry_attempts \in 0 .. RetryCount /\ e.budget \in Nat /\ e.slots_used \in Nat
BY DEF EngineState

\* An accepted outcome.
LEMMA AcceptedIs ==
    ASSUME NEW s \in EngineState, NEW es \in Seq(Effects)
    PROVE  Continues(Accepted(s, es)) /\ Accepted(s, es).state = s /\ Accepted(s, es).effects = es
<1>1. "none" \in Rejections \cup {"none"} /\ FALSE \in BOOLEAN
  OBVIOUS
<1> QED BY <1>1 DEF Accepted, Continues, EngineOutcome

\* A rejection leaves the state alone.
LEMMA RejectedIs ==
    ASSUME NEW e \in EngineState, NEW rejection \in Rejections
    PROVE  Rejects(e, rejected_outcome(e, rejection))
<1>1. rejection # "none" /\ <<>> \in Seq(Effects) /\ FALSE \in BOOLEAN
  BY DEF Rejections
<1> QED BY <1>1 DEF Rejects, rejected_outcome, EngineOutcome

\* The terminal outcomes.
LEMMA TerminalIs ==
    ASSUME NEW e \in EngineState, NEW messages \in Seq(Messages)
    PROVE  /\ Finishes(e, terminal_success_outcome(e, messages), messages)
           /\ Finishes(e, terminal_notice_outcome(e, messages), messages)
           /\ Fails(e, terminal_failure_outcome(e))
<1> DEFINE f == terminal_state(e, messages)
           two == <<Emit("BusyFalse"), Emit("TurnFinished")>>
           three == <<Emit("BusyFalse"), Emit("Notice"), Emit("TurnFinished")>>
<1>1. <<>> \in Seq(CallIds) /\ <<>> \in Seq(Results) /\ 0 \in 0 .. RetryCount
  BY EngineAssumption
<1>2. ASSUME NEW ms \in Seq(Messages)
      PROVE  /\ terminal_state(e, ms) \in EngineState
             /\ terminal_state(e, ms).phase = "Finished" /\ terminal_state(e, ms).messages = ms
             /\ SameCounters(e, terminal_state(e, ms))
  BY <1>1 DEF terminal_state, EngineState, SameCounters, Phases
<1>3. two \in Seq(Effects) /\ three \in Seq(Effects)
  <2>1. Emit("BusyFalse") \in Effects /\ Emit("Notice") \in Effects /\ Emit("TurnFinished") \in Effects
    BY Constructors DEF Events
  <2> QED BY <2>1
<1>4. /\ EarlyBut(two, Emit("TurnFinished")) /\ two[1] = Emit("BusyFalse")
      /\ EarlyBut(three, Emit("TurnFinished")) /\ three[1] = Emit("BusyFalse")
  <2>1. Early(Emit("BusyFalse")) /\ Early(Emit("Notice"))
    BY DEF Early, Emit
  <2>2. two # <<>> /\ Len(two) = 2 /\ two[2] = Emit("TurnFinished") /\ two[1] = Emit("BusyFalse")
    OBVIOUS
  <2>3. /\ three # <<>> /\ Len(three) = 3 /\ three[3] = Emit("TurnFinished")
        /\ three[1] = Emit("BusyFalse") /\ three[2] = Emit("Notice")
    OBVIOUS
  <2>4. (\A i \in 1 .. 2 - 1 : i = 1) /\ (\A i \in 1 .. 3 - 1 : i = 1 \/ i = 2)
    OBVIOUS
  <2> HIDE DEF two, three
  <2> QED BY <2>1, <2>2, <2>3, <2>4 DEF EarlyBut
<1> HIDE DEF two, three
<1>5. Finishes(e, terminal_success_outcome(e, messages), messages)
  <2> HIDE DEF f
  <2>1. terminal_success_outcome(e, messages) = Accepted(f, two)
    BY DEF terminal_success_outcome, f, two
  <2>2. f \in EngineState /\ f.phase = "Finished" /\ f.messages = messages /\ SameCounters(e, f)
    BY <1>2 DEF f
  <2> QED BY <1>3, <1>4, <2>1, <2>2, AcceptedIs DEF Finishes
<1>6. ASSUME NEW ms \in Seq(Messages) PROVE Finishes(e, terminal_notice_outcome(e, ms), ms)
  <2>1. terminal_notice_outcome(e, ms) = Accepted(terminal_state(e, ms), three)
    BY DEF terminal_notice_outcome, three
  <2> QED BY <1>2, <1>3, <1>4, <2>1, AcceptedIs DEF Finishes
<1>7. Fails(e, terminal_failure_outcome(e))
  <2> DEFINE o == terminal_notice_outcome(e, e.messages)
             p == terminal_failure_outcome(e)
  <2>1. Finishes(e, o, e.messages)
    BY <1>6, EngineTyped
  <2>2. o \in EngineOutcome /\ o.state.phase = "Finished" /\ SameCounters(e, o.state)
    BY <2>1 DEF Finishes, Continues
  <2>3. p = [o EXCEPT !.failure = TRUE]
    BY DEF terminal_failure_outcome
  <2> HIDE DEF o, p
  <2>4. p \in EngineOutcome /\ p.failure /\ p.state = o.state
    BY <2>2, <2>3 DEF EngineOutcome
  <2> QED BY <2>2, <2>4 DEF Fails, p
<1> QED BY <1>5, <1>6, <1>7

\* The next request of a turn.
LEMMA AskIs ==
    ASSUME NEW e \in EngineState, NEW messages \in Seq(Messages)
    PROVE  LET f == AskModel(e, messages)
           IN  /\ f \in EngineState /\ f.phase = "WaitingForModel" /\ f.messages = messages
               /\ f.template /\ f.pending_model_request = e.next_sequence
               /\ f.next_sequence = e.next_sequence + 1 /\ f.slots_used = e.slots_used + 1
               /\ f.budget = e.budget /\ f.retry_attempts = 0
<1>1. <<>> \in Seq(CallIds) /\ <<>> \in Seq(Results) /\ 0 \in 0 .. RetryCount
  BY EngineAssumption
<1>2. /\ e.next_sequence \in Nat \cup {NoRequest} /\ e.next_sequence + 1 \in Nat
      /\ e.slots_used + 1 \in Nat /\ "WaitingForModel" \in Phases /\ TRUE \in BOOLEAN
  BY EngineTyped DEF Phases
<1> DEFINE f == AskModel(e, messages)
<1>3. f \in EngineState
  BY <1>1, <1>2 DEF AskModel, EngineState
<1>4. /\ f.phase = "WaitingForModel" /\ f.messages = messages /\ f.template
      /\ f.pending_model_request = e.next_sequence /\ f.next_sequence = e.next_sequence + 1
      /\ f.slots_used = e.slots_used + 1 /\ f.budget = e.budget /\ f.retry_attempts = 0
  BY DEF AskModel, EngineState
<1> QED BY <1>3, <1>4

\* A cancelled turn.
LEMMA CancelIs ==
    ASSUME NEW e \in EngineState
    PROVE  /\ e.phase \in {"WaitingForModel", "WaitingForRetry", "WaitingForTools"} =>
                  Finishes(e, reduce(e, cancel_input), e.messages)
           /\ e.phase = "Finished" => Rejects(e, reduce(e, cancel_input))
<1>1. reduce(e, cancel_input) = apply_cancel_turn(e)
  BY DEF reduce, cancel_input
<1>2. "InvalidPhase" \in Rejections /\ e.messages \in Seq(Messages)
  BY EngineTyped DEF Rejections
<1> QED BY <1>1, <1>2, TerminalIs, RejectedIs DEF apply_cancel_turn


\* A prompt is submitted.
LEMMA SubmitIs ==
    ASSUME NEW budget \in Nat
    PROVE  LET o == apply_submit_user_prompt(NewEngine, <<User>>, budget)
           IN  Rejects(NewEngine, o) \/ Asks(NewEngine, o, <<User>>)
<1> DEFINE o == apply_submit_user_prompt(NewEngine, <<User>>, budget)
           e == [NewEngine EXCEPT !.budget = budget, !.slots_used = 0]
           es == <<Emit("BusyTrue"), Emit("Notice"), RequestModel(1)>>
<1>1. <<>> \in Seq(CallIds) /\ <<>> \in Seq(Results) /\ <<>> \in Seq(Messages) /\ 0 \in 0 .. RetryCount
  BY EngineAssumption
<1>2. NewEngine \in EngineState /\ NewEngine.next_sequence = 1 /\ NewEngine.slots_used = 0
  BY <1>1 DEF NewEngine, EngineState, Phases
<1>3. e \in EngineState /\ e.next_sequence = 1 /\ e.slots_used = 0 /\ e.budget = budget
  BY <1>1 DEF NewEngine, EngineState, Phases
<1>4. <<User>> \in Seq(Messages)
  BY Constructors
<1>5. es \in Seq(Effects) /\ EarlyBut(es, RequestModel(1))
  <2>1. /\ Emit("BusyTrue") \in Effects /\ Emit("Notice") \in Effects
        /\ RequestModel(1) \in Effects /\ 1 \in Nat
    BY Constructors DEF Events
  <2>2. Early(Emit("BusyTrue")) /\ Early(Emit("Notice"))
    BY DEF Early, Emit
  <2>3. /\ es # <<>> /\ Len(es) = 3 /\ es[3] = RequestModel(1)
        /\ es[1] = Emit("BusyTrue") /\ es[2] = Emit("Notice")
    OBVIOUS
  <2>4. \A i \in 1 .. 3 - 1 : i = 1 \/ i = 2
    OBVIOUS
  <2>5. es \in Seq(Effects)
    BY <2>1
  <2> HIDE DEF es
  <2> QED BY <2>2, <2>3, <2>4, <2>5 DEF EarlyBut
<1>6. CASE budget < 1
  <2>1. o = rejected_outcome(NewEngine, "Busy") \/ o = rejected_outcome(NewEngine, "InvalidBudget")
    BY <1>6 DEF apply_submit_user_prompt
  <2> QED BY <1>2, <2>1, RejectedIs DEF Rejections
<1>7. CASE ~(budget < 1)
  <2> DEFINE f == AskModel(e, <<User>>)
  <2>1. o = Accepted(f, es)
    BY <1>2, <1>7 DEF apply_submit_user_prompt, NewEngine
  <2> HIDE DEF es, e, o
  <2>2. /\ f \in EngineState /\ f.phase = "WaitingForModel" /\ f.messages = <<User>>
        /\ f.template /\ f.pending_model_request = e.next_sequence
        /\ f.next_sequence = e.next_sequence + 1 /\ f.slots_used = e.slots_used + 1
        /\ f.budget = e.budget /\ f.retry_attempts = 0
    <3>1. e \in EngineState
      BY <1>3
    <3> QED BY <1>4, <3>1, AskIs
  <2> HIDE DEF f
  <2>3. Continues(o) /\ o.state = f /\ o.effects = es
    BY <1>5, <2>1, <2>2, AcceptedIs
  <2>4. Asks(NewEngine, o, <<User>>)
    BY <1>2, <1>3, <1>5, <1>7, <2>2, <2>3 DEF Asks, FitsModel
  <2> QED BY <2>4 DEF o
<1> QED BY <1>6, <1>7

\* A response of the model.
LEMMA CompletedIs ==
    ASSUME NEW e \in EngineState, FieldsFit(e), e.phase = "WaitingForModel",
           NEW response \in Responses
    PROVE  LET input == [kind |-> "ModelCompleted", id |-> e.pending_model_request,
                         response |-> response]
               o == reduce(e, input)
           IN  \/ Rejects(e, o)
               \/ StartsBatch(e, o, response.calls)
               \/ Finishes(e, o, Append(e.messages, Assistant(response.calls)))
<1> DEFINE id == e.pending_model_request
           calls == response.calls
           messages == Append(e.messages, Assistant(calls))
           o == apply_model_completion(e, id, response)
<1>1. reduce(e, [kind |-> "ModelCompleted", id |-> id, response |-> response]) = o
  BY DEF reduce
<1>2. calls \in Seq(CallIds) /\ messages \in Seq(Messages)
  <2>1. calls \in Seq(CallIds)
    BY TurnAssumption DEF Responses
  <2> QED BY <2>1, Constructors, EngineTyped
<1>3. Mismatch(e, "WaitingForModel", id) = "none"
  BY EngineTyped, EngineAssumption DEF Mismatch, FieldsFit
<1>4. CASE response.stop # "ToolUse"
  BY <1>1, <1>2, <1>3, <1>4, TerminalIs DEF apply_model_completion
<1>5. CASE response.stop = "ToolUse" /\ calls = <<>>
  <2>1. o = rejected_outcome(e, "MissingToolCall") /\ "MissingToolCall" \in Rejections
    BY <1>3, <1>5 DEF apply_model_completion, apply_tool_use_model_completion, Rejections
  <2> QED BY <1>1, <2>1, RejectedIs
<1>6. CASE response.stop = "ToolUse" /\ calls # <<>>
  <2> DEFINE f == [e EXCEPT !.phase = "WaitingForTools", !.messages = messages,
                            !.pending_model_request = NoRequest, !.pending_tool_calls = calls,
                            !.buffered = <<>>, !.retry_attempts = 0]
             es == [i \in 1 .. Len(calls) |-> ExecuteTool(calls[i])]
  <2>1. o = Accepted(f, es)
    BY <1>3, <1>6 DEF apply_model_completion, apply_tool_use_model_completion
  <2> HIDE DEF o, messages, calls
  <2>2. <<>> \in Seq(Results) /\ 0 \in 0 .. RetryCount /\ Len(<<>>) = 0
    BY EngineAssumption
  <2>3. f \in EngineState
    BY <1>2, <2>2 DEF EngineState, Phases
  <2>4. /\ f.phase = "WaitingForTools" /\ SameCounters(e, f) /\ f.messages = messages
        /\ f.template = e.template /\ f.pending_tool_calls = calls /\ f.buffered = <<>>
    BY DEF EngineState, SameCounters
  <2> HIDE DEF f
  <2>5. es \in Seq(Effects) /\ Len(es) = Len(calls) /\ Len(calls) \in Nat
        /\ \A i \in 1 .. Len(es) : es[i] = ExecuteTool(calls[i])
    <3>1. Len(calls) \in Nat /\ \A i \in 1 .. Len(calls) : calls[i] \in CallIds
      BY <1>2
    <3>2. \A i \in 1 .. Len(calls) : ExecuteTool(calls[i]) \in Effects
      BY <3>1, Constructors
    <3> QED BY <3>1, <3>2
  <2> HIDE DEF es
  <2>6. FitsTools(es, f)
    BY <2>2, <2>4, <2>5 DEF FitsTools
  <2>7. Continues(o) /\ o.state = f /\ o.effects = es
    BY <2>1, <2>3, <2>5, AcceptedIs
  <2>8. StartsBatch(e, o, calls)
    BY <1>6, <2>4, <2>6, <2>7 DEF StartsBatch, messages
  <2> QED BY <1>1, <2>8 DEF calls, o
<1> QED BY <1>4, <1>5, <1>6

\* A request fails.
LEMMA FailedIs ==
    ASSUME NEW e \in EngineState, FieldsFit(e), e.phase = "WaitingForModel",
           NEW retryable \in BOOLEAN
    PROVE  LET input == [kind |-> "ModelFailed", id |-> e.pending_model_request,
                         retryable |-> retryable]
               o == reduce(e, input)
           IN  Retries(e, o) \/ Fails(e, o)
<1> DEFINE id == e.pending_model_request
           o == apply_model_failed(e, id, retryable)
           f == [e EXCEPT !.phase = "WaitingForRetry", !.pending_tool_calls = <<>>,
                          !.buffered = <<>>, !.retry_attempts = @ + 1]
<1>1. reduce(e, [kind |-> "ModelFailed", id |-> id, retryable |-> retryable]) = o
  BY DEF reduce
<1>2. Mismatch(e, "WaitingForModel", id) = "none" /\ id \in Nat
  BY EngineTyped, EngineAssumption DEF Mismatch, FieldsFit
<1>3. CASE ~(retryable /\ e.template /\ e.retry_attempts < RetryCount)
  <2>1. o = terminal_failure_outcome(e)
    BY <1>2, <1>3 DEF apply_model_failed
  <2>2. Fails(e, terminal_failure_outcome(e))
    BY TerminalIs, EngineTyped
  <2> QED BY <1>1, <2>1, <2>2
<1>4. CASE retryable /\ e.template /\ e.retry_attempts < RetryCount
  <2>1. o = Accepted(f, <<ScheduleRetry(id)>>)
    BY <1>2, <1>4 DEF apply_model_failed
  <2> HIDE DEF o
  <2>2. <<>> \in Seq(Results) /\ <<>> \in Seq(CallIds) /\ e.retry_attempts + 1 \in 0 .. RetryCount
    BY <1>4, EngineTyped, EngineAssumption
  <2>3. f \in EngineState
    BY <2>2 DEF EngineState, Phases
  <2>4. /\ f.phase = "WaitingForRetry" /\ SameCounters(e, f) /\ f.messages = e.messages
        /\ f.template = e.template /\ f.pending_model_request = id
        /\ f.retry_attempts = e.retry_attempts + 1
    BY DEF EngineState, SameCounters
  <2> HIDE DEF f
  <2>5. <<ScheduleRetry(id)>> \in Seq(Effects)
    BY <1>2, Constructors
  <2>6. Continues(o) /\ o.state = f /\ o.effects = <<ScheduleRetry(id)>>
    BY <2>1, <2>3, <2>5, AcceptedIs
  <2>7. Retries(e, o)
    BY <2>4, <2>6 DEF Retries, FitsRetry
  <2> QED BY <1>1, <2>7 DEF o
<1> QED BY <1>3, <1>4

\* The delay before a retry is over.
LEMMA ReadyIs ==
    ASSUME NEW e \in EngineState, FieldsFit(e), e.phase = "WaitingForRetry"
    PROVE  RequestsAgain(e, reduce(e, [kind |-> "RetryReady", id |-> e.pending_model_request]))
<1> DEFINE id == e.pending_model_request
           o == apply_retry_ready(e, id)
           f == [e EXCEPT !.phase = "WaitingForModel", !.pending_tool_calls = <<>>, !.buffered = <<>>]
           es == <<RequestModel(id)>>
<1>1. reduce(e, [kind |-> "RetryReady", id |-> id]) = o
  BY DEF reduce
<1>2. Mismatch(e, "WaitingForRetry", id) = "none" /\ id \in Nat /\ e.template
  BY EngineTyped, EngineAssumption DEF Mismatch, FieldsFit
<1>3. o = Accepted(f, es)
  BY <1>2 DEF apply_retry_ready
<1> HIDE DEF o
<1>4. <<>> \in Seq(Results) /\ <<>> \in Seq(CallIds)
  OBVIOUS
<1>5. f \in EngineState
  BY <1>4 DEF EngineState, Phases
<1>6. /\ f.phase = "WaitingForModel" /\ SameCounters(e, f) /\ f.messages = e.messages
      /\ f.template = e.template /\ f.pending_model_request = id
      /\ f.retry_attempts = e.retry_attempts
  BY DEF EngineState, SameCounters
<1> HIDE DEF f
<1>7. es \in Seq(Effects) /\ EarlyBut(es, RequestModel(id))
  <2>1. es \in Seq(Effects) /\ es # <<>> /\ Len(es) = 1 /\ es[1] = RequestModel(id)
    BY <1>2, Constructors
  <2> HIDE DEF es
  <2> QED BY <2>1 DEF EarlyBut
<1> HIDE DEF es
<1>8. RequestsAgain(e, o)
  BY <1>3, <1>5, <1>6, <1>7, AcceptedIs DEF RequestsAgain, FitsModel
<1> QED BY <1>1, <1>8 DEF o


\* The sequence of the messages that answer a batch.
LEMMA AnswersTyped ==
    ASSUME NEW results \in Seq(Results)
    PROVE  /\ Answers(results) \in Seq(Messages) /\ Len(Answers(results)) = Len(results)
           /\ \A i \in 1 .. Len(results) : Answers(results)[i] = Tool(results[i])
<1>1. Len(results) \in Nat /\ \A i \in 1 .. Len(results) : results[i] \in Results
  OBVIOUS
<1>2. \A i \in 1 .. Len(results) : Tool(results[i]) \in Messages
  BY <1>1, Constructors
<1> QED BY <1>1, <1>2 DEF Answers

\* Results that came in the order of their calls are in that order.
LEMMA InCallOrderIs ==
    ASSUME NEW calls \in Seq(CallIds), NEW results \in Seq(Results), Len(results) = Len(calls),
           \A i \in 1 .. Len(calls) : results[i].call = calls[i],
           \A i \in 1 .. Len(calls) : \A j \in 1 .. i - 1 : calls[j] # calls[i]
    PROVE  InCallOrder(calls, results) = Answers(results)
<1> DEFINE n == Len(calls)
           Found(i, j) == /\ results[j].call = calls[i]
                          /\ \A k \in 1 .. j - 1 : results[k].call # calls[i]
           pick(i) == CHOOSE j \in 1 .. Len(results) : Found(i, j)
<1>1. n \in Nat
  OBVIOUS
<1>2. ASSUME NEW i \in 1 .. n PROVE pick(i) = i
  <2>1. Found(i, i)
    BY <1>1
  <2>2. \A j \in 1 .. n : Found(i, j) => j = i
    <3> SUFFICES ASSUME NEW j \in 1 .. n, Found(i, j), j # i PROVE FALSE
      OBVIOUS
    <3>1. CASE j < i
      <4>1. j \in 1 .. i - 1
        BY <1>1, <3>1
      <4> QED BY <4>1
    <3>2. CASE i < j
      <4>1. i \in 1 .. j - 1
        BY <1>1, <3>2
      <4> QED BY <4>1
    <3> QED BY <1>1, <3>1, <3>2
  <2> HIDE DEF Found
  <2>3. \E j \in 1 .. Len(results) : Found(i, j)
    BY <2>1
  <2> QED BY <2>2, <2>3
<1>3. InCallOrder(calls, results) = [i \in 1 .. n |-> Tool(results[pick(i)])]
  BY DEF InCallOrder
<1> HIDE DEF pick, n
<1>4. \A i \in 1 .. n : Tool(results[pick(i)]) = Tool(results[i])
  BY <1>2
<1> QED BY <1>3, <1>4 DEF Answers, n

\* The result of the next tool of a batch.  A call whose id occurred before in the batch is
\* rejected.
LEMMA FeedbackIs ==
    ASSUME NEW e \in EngineState, FieldsFit(e), e.phase = "WaitingForTools",
           e.slots_used <= e.budget, NEW call, NEW error \in BOOLEAN,
           call = e.pending_tool_calls[Len(e.buffered) + 1]
    PROVE  LET o == apply_tool_feedback(e, call, error)
               res == [call |-> call, error |-> error]
               n == Len(e.buffered) + 1
               messages == e.messages \o Answers(Append(e.buffered, res))
           IN  \/ Rejects(e, o)
               \/ /\ n < Len(e.pending_tool_calls) /\ Buffers(e, o, res)
                  /\ \A j \in 1 .. n - 1 : e.pending_tool_calls[j] # e.pending_tool_calls[n]
               \/ /\ n = Len(e.pending_tool_calls)
                  /\ Asks(e, o, messages) \/ Finishes(e, o, messages)
<1> DEFINE o == apply_tool_feedback(e, call, error)
           res == [call |-> call, error |-> error]
           n == Len(e.buffered) + 1
           calls == e.pending_tool_calls
           buffered == Append(e.buffered, res)
           messages == e.messages \o Answers(buffered)
<1>1. /\ e.buffered \in Seq(Results) /\ calls \in Seq(CallIds) /\ Len(calls) \in Nat
      /\ n \in 1 .. Len(calls) /\ Len(e.buffered) \in Nat /\ call \in CallIds
  <2>1. e.buffered \in Seq(Results) /\ calls \in Seq(CallIds)
    BY EngineTyped
  <2>2. Len(calls) \in Nat /\ Len(e.buffered) \in Nat /\ Len(e.buffered) < Len(calls)
    BY <2>1 DEF FieldsFit
  <2>3. n \in 1 .. Len(calls)
    BY <2>2
  <2> QED BY <2>1, <2>2, <2>3
<1>2. res \in Results
  BY <1>1 DEF Results
<1>3. /\ buffered \in Seq(Results) /\ Len(buffered) = n /\ buffered[n] = res
      /\ \A i \in 1 .. n - 1 : buffered[i] = e.buffered[i]
  <2> HIDE DEF res
  <2> QED BY <1>1, <1>2
<1>4. messages \in Seq(Messages)
  <2>1. Answers(buffered) \in Seq(Messages) /\ e.messages \in Seq(Messages)
    BY <1>3, AnswersTyped, EngineTyped
  <2> QED BY <2>1, ConcatProperties
<1> DEFINE duplicate == \/ call \notin Range(calls)
                        \/ \E r \in Range(e.buffered) : r.call = call
<1>5. CASE duplicate
  <2>1. o = rejected_outcome(e, "CorrelationMismatch") /\ "CorrelationMismatch" \in Rejections
    BY <1>5 DEF apply_tool_feedback, Rejections
  <2> QED BY <2>1, RejectedIs
<1>6. CASE ~duplicate
  <2>1. \A j \in 1 .. n - 1 : calls[j] # calls[n]
    <3>1. \A j \in 1 .. n - 1 : e.buffered[j] \in Range(e.buffered) /\ e.buffered[j].call = calls[j]
      BY <1>1 DEF FieldsFit, Range
    <3> QED BY <1>6, <3>1
  <2>2. CASE n < Len(calls)
    <3> DEFINE f == [e EXCEPT !.buffered = buffered, !.retry_attempts = 0,
                              !.pending_model_request = NoRequest]
    <3>1. o = Accepted(f, <<>>)
      BY <1>3, <1>6, <2>2 DEF apply_tool_feedback
    <3> HIDE DEF o, buffered, res
    <3>2. 0 \in 0 .. RetryCount /\ <<>> \in Seq(Effects)
      BY EngineAssumption
    <3>3. f \in EngineState
      BY <1>3, <3>2 DEF EngineState
    <3>4. /\ f.phase = e.phase /\ SameCounters(e, f) /\ f.messages = e.messages
          /\ f.template = e.template /\ f.pending_tool_calls = calls /\ f.buffered = buffered
      BY DEF EngineState, SameCounters
    <3> HIDE DEF f
    <3>5. Continues(o) /\ o.state = f
      BY <3>1, <3>2, <3>3, AcceptedIs
    <3>6. Buffers(e, o, res)
      BY <3>4, <3>5 DEF Buffers, buffered
    <3> QED BY <2>1, <2>2, <3>6 DEF o, res
  <2>3. CASE n = Len(calls)
    <3>1. \A i \in 1 .. Len(calls) :
            buffered[i].call = calls[i] /\ \A j \in 1 .. i - 1 : calls[j] # calls[i]
      <4> SUFFICES ASSUME NEW i \in 1 .. Len(calls)
                   PROVE  buffered[i].call = calls[i] /\ \A j \in 1 .. i - 1 : calls[j] # calls[i]
        OBVIOUS
      <4>1. CASE i = n
        BY <1>3, <2>1, <4>1
      <4>2. CASE i # n
        <5>1. i \in 1 .. n - 1 /\ i \in 1 .. Len(e.buffered)
          BY <1>1, <2>3, <4>2
        <5> HIDE DEF buffered, n
        <5> QED BY <1>3, <5>1 DEF FieldsFit
      <4> QED BY <4>1, <4>2
    <3>2. InCallOrder(calls, buffered) = Answers(buffered)
      BY ZenonT(40), <1>1, <1>3, <2>3, <3>1, InCallOrderIs
    <3>3. Range(calls) \subseteq {r.call : r \in Range(buffered)}
      <4> SUFFICES ASSUME NEW i \in DOMAIN calls PROVE calls[i] \in {r.call : r \in Range(buffered)}
        BY DEF Range
      <4>1. i \in 1 .. Len(calls)
        BY <1>1
      <4>2. i \in DOMAIN buffered
        BY <1>3, <2>3, <4>1
      <4>3. buffered[i] \in Range(buffered) /\ buffered[i].call = calls[i]
        BY <3>1, <4>1, <4>2 DEF Range
      <4> QED BY <4>3
    <3>4. e.template
      BY DEF FieldsFit
    <3>5. ~(Len(buffered) < Len(calls))
      BY <1>3, <2>3
    <3>6. CASE BudgetExhausted(e)
      <4>1. o = terminal_notice_outcome(e, messages)
        <5> HIDE DEF buffered
        <5> QED BY <1>6, <3>2, <3>3, <3>4, <3>5, <3>6 DEF apply_tool_feedback, buffered
      <4>2. Finishes(e, terminal_notice_outcome(e, messages), messages)
        BY <1>4, TerminalIs
      <4> QED BY <2>3, <4>1, <4>2
    <3>7. CASE ~BudgetExhausted(e)
      <4> DEFINE f == AskModel(e, messages)
                 es == <<RequestModel(e.next_sequence)>>
      <4>1. o = Accepted(f, es)
        BY <1>6, <3>2, <3>3, <3>4, <3>5, <3>7 DEF apply_tool_feedback
      <4> HIDE DEF o, messages
      <4>2. /\ f \in EngineState /\ f.phase = "WaitingForModel" /\ f.messages = messages
            /\ f.template /\ f.pending_model_request = e.next_sequence
            /\ f.next_sequence = e.next_sequence + 1 /\ f.slots_used = e.slots_used + 1
            /\ f.budget = e.budget /\ f.retry_attempts = 0
        BY <1>4, AskIs
      <4> HIDE DEF f
      <4>3. es \in Seq(Effects) /\ EarlyBut(es, RequestModel(e.next_sequence))
        <5>1. e.next_sequence \in Nat
          BY EngineTyped
        <5>2. es \in Seq(Effects) /\ es # <<>> /\ Len(es) = 1 /\ es[1] = RequestModel(e.next_sequence)
          BY <5>1, Constructors
        <5> HIDE DEF es
        <5> QED BY <5>2 DEF EarlyBut
      <4> HIDE DEF es
      <4>4. Continues(o) /\ o.state = f /\ o.effects = es
        BY <4>1, <4>2, <4>3, AcceptedIs
      <4>5. f.slots_used <= f.budget
        <5>1. e.slots_used \in Nat /\ e.budget \in Nat
          BY EngineTyped
        <5> QED BY <3>7, <4>2, <5>1 DEF BudgetExhausted
      <4>6. Asks(e, o, messages)
        BY <4>2, <4>3, <4>4, <4>5 DEF Asks, FitsModel
      <4> QED BY <2>3, <4>6 DEF o, messages
    <3> QED BY <3>6, <3>7
  <2> QED BY <1>1, <2>2, <2>3
<1> QED BY <1>5, <1>6

\* Every outcome keeps the fields of the engine fit for its phase.
LEMMA FieldsHold ==
    ASSUME NEW e \in EngineState, FieldsFit(e), NEW o
    PROVE  /\ Rejects(e, o) => FieldsFit(o.state)
           /\ Fails(e, o) => FieldsFit(o.state)
           /\ \A ms : Finishes(e, o, ms) => FieldsFit(o.state)
           /\ e.phase = "WaitingForModel" /\ Retries(e, o) => FieldsFit(o.state)
           /\ e.phase = "WaitingForRetry" /\ RequestsAgain(e, o) => FieldsFit(o.state)
           /\ \A ms : Asks(e, o, ms) => FieldsFit(o.state)
           /\ \A calls \in Seq(CallIds) :
                  e.phase = "WaitingForModel" /\ StartsBatch(e, o, calls) => FieldsFit(o.state)
<1>1. e.next_sequence \in Nat /\ e.slots_used \in Nat
  BY EngineTyped
<1>2. Rejects(e, o) => FieldsFit(o.state)
  BY DEF Rejects
<1>3. Fails(e, o) => FieldsFit(o.state)
  BY DEF Fails, FieldsFit, SameCounters
<1>4. \A ms : Finishes(e, o, ms) => FieldsFit(o.state)
  BY DEF Finishes, FieldsFit, SameCounters
<1>5. e.phase = "WaitingForModel" /\ Retries(e, o) => FieldsFit(o.state)
  BY DEF Retries, FieldsFit, SameCounters
<1>6. e.phase = "WaitingForRetry" /\ RequestsAgain(e, o) => FieldsFit(o.state)
  BY DEF RequestsAgain, FieldsFit, SameCounters
<1>7. \A ms : Asks(e, o, ms) => FieldsFit(o.state)
  BY <1>1 DEF Asks, FieldsFit
<1>8. ASSUME NEW calls \in Seq(CallIds), e.phase = "WaitingForModel", StartsBatch(e, o, calls)
      PROVE  FieldsFit(o.state)
  <2>1. o.state.buffered = <<>> /\ Len(<<>>) = 0 /\ Len(calls) \in Nat /\ Len(calls) # 0
    BY <1>8 DEF StartsBatch
  <2> QED BY <1>8, <2>1 DEF StartsBatch, FieldsFit, SameCounters
<1> QED BY <1>2, <1>3, <1>4, <1>5, <1>6, <1>7, <1>8

\* So does a result that is buffered.
LEMMA BuffersFieldsHold ==
    ASSUME NEW e \in EngineState, FieldsFit(e), e.phase = "WaitingForTools", NEW o,
           NEW res \in Results, Buffers(e, o, res), res.call = e.pending_tool_calls[Len(e.buffered) + 1],
           Len(e.buffered) + 1 < Len(e.pending_tool_calls),
           \A j \in 1 .. Len(e.buffered) :
               e.pending_tool_calls[j] # e.pending_tool_calls[Len(e.buffered) + 1]
    PROVE  FieldsFit(o.state)
<1> DEFINE b == o.state.buffered
           n == Len(e.buffered) + 1
           calls == e.pending_tool_calls
<1>1. e.buffered \in Seq(Results) /\ Len(e.buffered) \in Nat /\ calls \in Seq(CallIds)
  BY EngineTyped
<1>2. /\ Len(b) = n /\ b[n] = res /\ \A i \in 1 .. n - 1 : b[i] = e.buffered[i]
  BY <1>1 DEF Buffers
<1>3. /\ o.state.phase = "WaitingForTools" /\ SameCounters(e, o.state)
      /\ o.state.template = e.template /\ o.state.pending_tool_calls = calls
  BY DEF Buffers
<1> HIDE DEF b, calls
<1>4. \A i \in 1 .. n : b[i].call = calls[i] /\ \A j \in 1 .. i - 1 : calls[j] # calls[i]
  <2> SUFFICES ASSUME NEW i \in 1 .. n
               PROVE  b[i].call = calls[i] /\ \A j \in 1 .. i - 1 : calls[j] # calls[i]
    OBVIOUS
  <2>1. CASE i = n
    BY <1>1, <1>2, <2>1 DEF calls
  <2>2. CASE i # n
    <3>1. i \in 1 .. n - 1 /\ i \in 1 .. Len(e.buffered)
      BY <1>1, <2>2
    <3> HIDE DEF n
    <3> QED BY <1>2, <3>1 DEF FieldsFit, calls
  <2> QED BY <2>1, <2>2
<1>5. n < Len(calls)
  BY DEF calls
<1> HIDE DEF n
<1> QED BY <1>2, <1>3, <1>4, <1>5 DEF FieldsFit, SameCounters, b

-----------------------------------------------------------------------------
(* Conversations.                                                          *)

\* A call answered in a conversation is answered in a longer one.
LEMMA AnsweredStays ==
    ASSUME NEW s \in Seq(Messages), NEW t \in Seq(Messages), Len(s) <= Len(t),
           \A i \in 1 .. Len(s) : t[i] = s[i],
           NEW n \in Nat, n <= Len(s), AnsweredBefore(s, n)
    PROVE  /\ \A i \in 1 .. n :
                  t[i].role = "Assistant" => AnsweredAt(t, i, t[i].calls)
           /\ \A i \in 1 .. Len(s) :
                  t[i].role = "Tool" =>
                      \E j \in 1 .. i - 1 : t[j].role = "Assistant" /\ i - j <= Len(t[j].calls)
<1>1. Len(s) \in Nat /\ Len(t) \in Nat
  OBVIOUS
<1>2. ASSUME NEW i \in 1 .. n, t[i].role = "Assistant"
      PROVE  AnsweredAt(t, i, t[i].calls)
  <2>1. i \in 1 .. Len(s) /\ t[i] = s[i]
    BY <1>1
  <2>2. AnsweredAt(s, i, s[i].calls)
    BY <1>2, <2>1 DEF AnsweredBefore
  <2> SUFFICES ASSUME NEW k \in 1 .. Len(s[i].calls)
               PROVE  i + k <= Len(t) /\ t[i + k].role = "Tool" /\ t[i + k].call = s[i].calls[k]
    BY <2>1 DEF AnsweredAt
  <2>3. i + k <= Len(s) /\ s[i + k].role = "Tool" /\ s[i + k].call = s[i].calls[k]
    BY <2>2 DEF AnsweredAt
  <2>4. i + k \in 1 .. Len(s)
    BY <1>1, <2>1, <2>3
  <2> QED BY <1>1, <2>3, <2>4
<1>3. ASSUME NEW i \in 1 .. Len(s), t[i].role = "Tool"
      PROVE  \E j \in 1 .. i - 1 : t[j].role = "Assistant" /\ i - j <= Len(t[j].calls)
  <2>1. PICK j \in 1 .. i - 1 : s[j].role = "Assistant" /\ i - j <= Len(s[j].calls)
    BY <1>3 DEF AnsweredBefore
  <2>2. j \in 1 .. Len(s)
    BY <1>1
  <2> QED BY <2>1, <2>2
<1> QED BY <1>2, <1>3

\* A response with calls opens a batch.
LEMMA BatchOpens ==
    ASSUME NEW s \in Seq(Messages), Answered(s), NEW calls \in Seq(CallIds)
    PROVE  OpenBatch(Append(s, Assistant(calls)), calls)
<1> DEFINE m == Assistant(calls)
           t == Append(s, m)
<1>1. m \in Messages /\ m.role = "Assistant"
  BY Constructors
<1> HIDE DEF m
<1>2. /\ t \in Seq(Messages) /\ Len(s) \in Nat /\ Len(t) = Len(s) + 1 /\ t # <<>>
      /\ t[Len(t)] = m /\ \A i \in 1 .. Len(s) : t[i] = s[i]
  BY <1>1
<1> HIDE DEF t
<1>3. /\ \A i \in 1 .. Len(s) : t[i].role = "Assistant" => AnsweredAt(t, i, t[i].calls)
      /\ \A i \in 1 .. Len(s) :
             t[i].role = "Tool" =>
                 \E j \in 1 .. i - 1 : t[j].role = "Assistant" /\ i - j <= Len(t[j].calls)
  <2>1. Len(s) <= Len(t) /\ Len(s) <= Len(s) /\ AnsweredBefore(s, Len(s))
    BY <1>2 DEF Answered
  <2> QED BY <1>2, <2>1, AnsweredStays
<1>4. \A i \in 1 .. Len(t) : i \in 1 .. Len(s) \/ (t[i] = m /\ t[i].role # "Tool")
  BY <1>1, <1>2
<1>5. Len(t) - 1 = Len(s)
  BY <1>2
<1>6. AnsweredBefore(t, Len(t) - 1)
  BY <1>3, <1>4, <1>5 DEF AnsweredBefore
<1> QED BY <1>2, <1>6 DEF OpenBatch, m, t

\* The results of the whole batch close it.
LEMMA BatchCloses ==
    ASSUME NEW s \in Seq(Messages), NEW calls \in Seq(CallIds), OpenBatch(s, calls),
           NEW results \in Seq(Results), Len(results) = Len(calls),
           \A i \in 1 .. Len(calls) : results[i].call = calls[i]
    PROVE  Answered(s \o Answers(results))
<1> DEFINE a == Answers(results)
           t == s \o a
           n == Len(s)
           l == Len(calls)
<1>1. /\ a \in Seq(Messages) /\ Len(a) = l
      /\ \A i \in 1 .. l : a[i] = Tool(results[i])
  BY AnswersTyped
<1>2. \A i \in 1 .. l : a[i].role = "Tool" /\ a[i].call = calls[i]
  BY <1>1, Constructors
<1> HIDE DEF a
<1>3. /\ t \in Seq(Messages) /\ n \in Nat \ {0} /\ l \in Nat /\ Len(t) = n + l
      /\ \A i \in 1 .. n : t[i] = s[i]
      /\ \A i \in 1 .. l : t[n + i] = a[i]
  <2>1. /\ t \in Seq(Messages) /\ Len(t) = n + Len(a)
        /\ \A i \in 1 .. Len(s) + Len(a) : t[i] = IF i <= Len(s) THEN s[i] ELSE a[i - Len(s)]
    <3>1. s \in Seq(Messages) /\ a \in Seq(Messages)
      BY <1>1
    <3> QED BY <3>1, ConcatProperties, ZenonT(30)
  <2>2. n \in Nat \ {0} /\ l \in Nat
    BY DEF OpenBatch
  <2> HIDE DEF t
  <2>3. ASSUME NEW i \in 1 .. n PROVE t[i] = s[i]
    <3>1. i \in 1 .. Len(s) + Len(a) /\ i <= Len(s)
      BY <1>1, <2>2
    <3> QED BY <2>1, <3>1
  <2>4. ASSUME NEW i \in 1 .. l PROVE t[n + i] = a[i]
    <3>1. n + i \in 1 .. Len(s) + Len(a) /\ ~(n + i <= Len(s)) /\ (n + i) - Len(s) = i
      BY <1>1, <2>2
    <3> QED BY <2>1, <3>1
  <2> QED BY <1>1, <2>1, <2>2, <2>3, <2>4
<1>4. s[n] = Assistant(calls) /\ s[n].role = "Assistant" /\ s[n].calls = calls
  BY Constructors DEF OpenBatch
<1> HIDE DEF t, n, l
<1>5. /\ \A i \in 1 .. n - 1 : t[i].role = "Assistant" => AnsweredAt(t, i, t[i].calls)
      /\ \A i \in 1 .. n :
             t[i].role = "Tool" =>
                 \E j \in 1 .. i - 1 : t[j].role = "Assistant" /\ i - j <= Len(t[j].calls)
  <2>1. n = Len(s) /\ n - 1 \in Nat /\ n - 1 <= Len(s) /\ Len(s) <= Len(t)
    BY <1>3 DEF n
  <2>2. AnsweredBefore(s, n - 1)
    BY <2>1 DEF OpenBatch, n
  <2> QED BY <1>3, <2>1, <2>2, AnsweredStays
<1>6. AnsweredAt(t, n, calls)
  <2> SUFFICES ASSUME NEW k \in 1 .. l
               PROVE  n + k <= Len(t) /\ t[n + k].role = "Tool" /\ t[n + k].call = calls[k]
    BY DEF AnsweredAt, l
  <2> QED BY <1>2, <1>3
<1>7. n \in 1 .. n /\ t[n] = s[n] /\ t[n].role = "Assistant" /\ t[n].calls = calls
  BY <1>3, <1>4
<1>8. \A i \in 1 .. Len(t) :
        \/ i \in 1 .. n - 1
        \/ i = n
        \/ i - n \in 1 .. l /\ n + (i - n) = i
  BY <1>3
<1>9. ASSUME NEW i \in 1 .. Len(t), t[i].role = "Assistant"
      PROVE  AnsweredAt(t, i, t[i].calls)
  <2>1. ~(i - n \in 1 .. l /\ n + (i - n) = i)
    BY <1>2, <1>3, <1>9
  <2> QED BY <1>5, <1>6, <1>7, <1>8, <1>9, <2>1
<1>10. ASSUME NEW i \in 1 .. Len(t), t[i].role = "Tool"
       PROVE  \E j \in 1 .. i - 1 : t[j].role = "Assistant" /\ i - j <= Len(t[j].calls)
  <2>1. CASE i \in 1 .. n
    BY <1>5, <1>10, <2>1
  <2>2. CASE i \notin 1 .. n
    <3>1. n \in 1 .. i - 1 /\ i - n <= l
      BY <1>3, <2>2
    <3> QED BY <1>7, <3>1 DEF l
  <2> QED BY <2>1, <2>2
<1> QED BY <1>9, <1>10 DEF Answered, AnsweredBefore, t, a

\* One more result in the buffer is one more message in the transcript.
LEMMA OneMoreAnswer ==
    ASSUME NEW s \in Seq(Messages), NEW b \in Seq(Results), NEW res \in Results
    PROVE  Append(s \o Answers(b), Tool(res)) = s \o Answers(Append(b, res))
<1> DEFINE c == Append(b, res)
           a1 == Answers(b)
           a2 == Answers(c)
           left == Append(s \o a1, Tool(res))
           right == s \o a2
<1>1. /\ c \in Seq(Results) /\ Len(b) \in Nat /\ Len(c) = Len(b) + 1 /\ c[Len(b) + 1] = res
      /\ \A i \in 1 .. Len(b) : c[i] = b[i]
  OBVIOUS
<1> HIDE DEF c
<1>2. /\ a1 \in Seq(Messages) /\ Len(a1) = Len(b)
      /\ \A i \in 1 .. Len(b) : a1[i] = Tool(b[i])
  BY AnswersTyped
<1>3. /\ a2 \in Seq(Messages) /\ Len(a2) = Len(b) + 1
      /\ \A i \in 1 .. Len(b) + 1 : a2[i] = Tool(c[i])
  BY <1>1, AnswersTyped
<1>4. a2[Len(b) + 1] = Tool(res) /\ \A i \in 1 .. Len(b) : a2[i] = a1[i]
  BY <1>1, <1>2, <1>3
<1> HIDE DEF a1, a2
<1>5. Tool(res) \in Messages
  BY Constructors
<1>6. a2 = Append(a1, Tool(res))
  <2>1. /\ Append(a1, Tool(res)) \in Seq(Messages) /\ Len(Append(a1, Tool(res))) = Len(b) + 1
        /\ Append(a1, Tool(res))[Len(b) + 1] = Tool(res)
        /\ \A i \in 1 .. Len(b) : Append(a1, Tool(res))[i] = a1[i]
    BY <1>2, <1>5
  <2>2. \A i \in 1 .. Len(b) + 1 : Append(a1, Tool(res))[i] = a2[i]
    BY <1>1, <1>4, <2>1
  <2> QED BY <1>3, <2>1, <2>2, SeqEqual
<1>7. s \o Append(a1, Tool(res)) = Append(s \o a1, Tool(res))
  BY <1>2, <1>5
<1> QED BY <1>6, <1>7 DEF a1, a2, c

-----------------------------------------------------------------------------
(* The transcript's operations.                                            *)

\* The fields of a transcript.
LEMMA TranscriptTyped ==
    ASSUME NEW t \in Transcripts
    PROVE  /\ t.messages \in Seq(Messages) /\ t.turn_index \in Nat /\ t.turn_active \in BOOLEAN
           /\ t.pending_tools \in Nat /\ t.batch \in Nat /\ t.last_assistant \in BOOLEAN
           /\ t.events \in Seq(TranscriptEvents)
           /\ Len(t.events) \in Nat
BY DEF Transcripts

\* An announcement where one is due.
LEMMA AnnounceIs ==
    ASSUME NEW t \in Transcripts, Alternates(t)
    PROVE  /\ Ended(t) => LET u == Announce(t, "TurnStart")
                          IN  /\ u \in Transcripts /\ Alternates(u)
                              /\ u = [t EXCEPT !.events = u.events]
                              /\ Len(u.events) = Len(t.events) + 1
           /\ Len(t.events) = 2 * t.turn_index + 1 =>
                          LET u == Announce(t, "TurnEnd")
                          IN  /\ u \in Transcripts /\ Alternates(u)
                              /\ u = [t EXCEPT !.events = u.events]
                              /\ Len(u.events) = Len(t.events) + 1
<1> DEFINE n == Len(t.events)
           k == t.turn_index
<1>1. n \in Nat /\ k \in Nat /\ t.events \in Seq(TranscriptEvents)
  BY TranscriptTyped
<1>2. ASSUME NEW kind \in {"TurnStart", "TurnEnd"}, [kind |-> kind, index |-> k] = EventAt(n + 1)
      PROVE  LET u == Announce(t, kind)
             IN  /\ u \in Transcripts /\ Alternates(u)
                 /\ u = [t EXCEPT !.events = u.events]
                 /\ Len(u.events) = Len(t.events) + 1
  <2> DEFINE event == [kind |-> kind, index |-> k]
             es == Append(t.events, event)
             u == Announce(t, kind)
  <2>1. event \in TranscriptEvents /\ event = EventAt(n + 1)
    BY <1>1, <1>2 DEF TranscriptEvents
  <2>2. u = [t EXCEPT !.events = es]
    BY DEF Announce, Transcripts
  <2> HIDE DEF event, u, n
  <2>3. /\ es \in Seq(TranscriptEvents) /\ Len(es) = n + 1 /\ es[n + 1] = event
        /\ \A i \in 1 .. n : es[i] = t.events[i]
    BY <1>1, <2>1 DEF n
  <2> HIDE DEF es
  <2>4. u \in Transcripts /\ u.events = es
    BY <2>2, <2>3 DEF Transcripts
  <2>5. \A i \in 1 .. n + 1 : i \in 1 .. n \/ i = n + 1
    BY <1>1
  <2>6. \A i \in 1 .. n : t.events[i] = EventAt(i)
    BY DEF Alternates, n
  <2>7. Alternates(u)
    BY <2>1, <2>3, <2>4, <2>5, <2>6 DEF Alternates
  <2>8. Len(u.events) = Len(t.events) + 1
    BY <2>3, <2>4 DEF n
  <2> QED BY <2>2, <2>4, <2>7, <2>8 DEF u
<1>3. CASE Ended(t)
  <2>1. n = 2 * k
    BY <1>3 DEF Ended
  <2>2. (n + 1) % 2 = 1 /\ ((n + 1) - 1) \div 2 = k
    BY <1>1, <2>1
  <2>3. EventAt(n + 1) = [kind |-> "TurnStart", index |-> k]
    BY <2>2 DEF EventAt
  <2>4. ~(n = 2 * k + 1)
    BY <1>1, <2>1
  <2> QED BY <1>2, <2>3, <2>4
<1>4. CASE n = 2 * k + 1
  <2>1. \A x \in Nat, y \in Nat :
          x = 2 * y + 1 => (x + 1) % 2 # 1 /\ ((x + 1) - 1) \div 2 = y
    OBVIOUS
  <2>2. (n + 1) % 2 # 1 /\ ((n + 1) - 1) \div 2 = k
    BY <1>1, <1>4, <2>1
  <2>3. EventAt(n + 1) = [kind |-> "TurnEnd", index |-> k]
    BY <2>2 DEF EventAt
  <2>4. ~Ended(t)
    BY <1>1, <1>4 DEF Ended
  <2> QED BY <1>2, <2>3, <2>4
<1> QED BY <1>3, <1>4


\* The start of an exchange is announced once, however often the request is retried.
LEMMA MarkIs ==
    ASSUME NEW t \in Transcripts, Alternates(t), t.turn_active => Running(t), t.turn_active \/ Ended(t)
    PROVE  LET u == mark_turn_start(t)
           IN  u \in Transcripts /\ Alternates(u) /\ Running(u) /\ u.messages = t.messages
<1> DEFINE v == [t EXCEPT !.turn_active = TRUE]
           u == mark_turn_start(t)
<1>1. CASE t.turn_active
  BY <1>1 DEF mark_turn_start
<1>2. CASE ~t.turn_active
  <2>1. /\ v \in Transcripts /\ v.events = t.events /\ v.turn_index = t.turn_index /\ v.turn_active
        /\ v.messages = t.messages
    BY DEF Transcripts
  <2>2. u = Announce(v, "TurnStart")
    BY <1>2 DEF mark_turn_start
  <2> HIDE DEF u, v
  <2>3. Alternates(v) /\ Ended(v)
    BY <1>2, <2>1 DEF Alternates, Ended
  <2>4. /\ u \in Transcripts /\ Alternates(u) /\ u = [v EXCEPT !.events = u.events]
        /\ Len(u.events) = Len(v.events) + 1
    BY <2>1, <2>2, <2>3, AnnounceIs
  <2>5. u.turn_index = v.turn_index /\ u.turn_active = v.turn_active /\ u.messages = v.messages
    BY <2>1, <2>4 DEF Transcripts
  <2>6. v.turn_index \in Nat /\ Len(v.events) = 2 * v.turn_index
    BY <2>1, <2>3, TranscriptTyped DEF Ended
  <2> QED BY <2>1, <2>4, <2>5, <2>6 DEF Running, u
<1> QED BY <1>1, <1>2

\* A response is recorded.
LEMMA AppendAssistantIs ==
    ASSUME NEW t \in Transcripts, NEW calls \in Seq(CallIds)
    PROVE  LET u == append_assistant(t, calls)
           IN  /\ u \in Transcripts /\ u.messages = Append(t.messages, Assistant(calls))
               /\ u.events = t.events /\ u.turn_index = t.turn_index /\ u.turn_active = t.turn_active
               /\ u.last_assistant /\ u.pending_tools = Len(calls) /\ u.batch = 0
<1> DEFINE ms == Append(t.messages, Assistant(calls))
           u == append_assistant(t, calls)
<1>1. ms \in Seq(Messages) /\ Len(calls) \in Nat
  BY Constructors, TranscriptTyped
<1>2. u = [t EXCEPT !.messages = ms, !.last_assistant = TRUE, !.pending_tools = Len(calls), !.batch = 0]
  BY DEF append_assistant, Transcripts
<1> HIDE DEF ms, u
<1>3. u \in Transcripts
  <2> DEFINE n == Len(calls)
  <2>1. n \in Nat /\ TRUE \in BOOLEAN /\ 0 \in Nat
        /\ u = [t EXCEPT !.messages = ms, !.last_assistant = TRUE, !.pending_tools = n, !.batch = 0]
    BY <1>1, <1>2
  <2> HIDE DEF n
  <2> QED BY <1>1, <2>1, Zenon DEF Transcripts
<1>4. /\ u.messages = ms /\ u.events = t.events /\ u.turn_index = t.turn_index
      /\ u.turn_active = t.turn_active /\ u.last_assistant /\ u.pending_tools = Len(calls)
      /\ u.batch = 0
  BY <1>2 DEF Transcripts
<1> QED BY <1>3, <1>4 DEF ms, u

\* The end of an exchange is announced and the next index taken.
LEMMA TurnEndIs ==
    ASSUME NEW t \in Transcripts, Alternates(t), Running(t)
    PROVE  LET u == TurnEnd(t)
           IN  u \in Transcripts /\ Alternates(u) /\ Ended(u) /\ ~u.turn_active /\ u.messages = t.messages
<1> DEFINE v == Announce(t, "TurnEnd")
           u == TurnEnd(t)
<1>1. /\ v \in Transcripts /\ Alternates(v) /\ v = [t EXCEPT !.events = v.events]
      /\ Len(v.events) = Len(t.events) + 1
  BY AnnounceIs DEF Running
<1>2. u = [v EXCEPT !.turn_active = FALSE, !.last_assistant = FALSE, !.batch = 0, !.turn_index = @ + 1]
  BY DEF TurnEnd
<1> HIDE DEF v, u
<1>3. v.turn_index = t.turn_index /\ v.messages = t.messages /\ t.turn_index \in Nat
  BY <1>1 DEF Transcripts
<1>4. u \in Transcripts
  <2> DEFINE n == v.turn_index + 1
  <2>1. n \in Nat /\ FALSE \in BOOLEAN /\ 0 \in Nat
    BY <1>3
  <2>2. u = [v EXCEPT !.turn_active = FALSE, !.last_assistant = FALSE, !.batch = 0, !.turn_index = n]
    BY <1>1, <1>2 DEF Transcripts
  <2> HIDE DEF n
  <2> QED BY <1>1, <2>1, <2>2 DEF Transcripts
<1>5. u.events = v.events /\ u.messages = v.messages /\ u.turn_index = v.turn_index + 1 /\ ~u.turn_active
  BY <1>1, <1>2 DEF Transcripts
<1>6. Alternates(u)
  BY <1>1, <1>5 DEF Alternates
<1>7. Ended(u)
  BY <1>1, <1>3, <1>5 DEF Ended, Running
<1> QED BY <1>3, <1>4, <1>5, <1>6, <1>7 DEF u

\* A tool's result is recorded, and with the last one of a batch the exchange ends.
LEMMA AppendToolIs ==
    ASSUME NEW t \in Transcripts, Alternates(t), Running(t), t.last_assistant, t.batch < t.pending_tools,
           NEW call \in CallIds, NEW error \in BOOLEAN
    PROVE  LET u == append_tool_result(t, call, error)
               res == [call |-> call, error |-> error]
           IN  /\ u \in Transcripts /\ Alternates(u) /\ u.messages = Append(t.messages, Tool(res))
               /\ u.turn_active => Running(u)
               /\ ~u.turn_active => Ended(u)
               /\ t.batch + 1 < t.pending_tools =>
                      /\ u.turn_active /\ u.last_assistant /\ u.pending_tools = t.pending_tools
                      /\ u.batch = t.batch + 1
               /\ t.batch + 1 = t.pending_tools => ~u.turn_active
<1> DEFINE res == [call |-> call, error |-> error]
           ms == Append(t.messages, Tool(res))
           v == [t EXCEPT !.messages = ms, !.batch = @ + 1]
           u == append_tool_result(t, call, error)
<1>1. res \in Results
  BY DEF Results
<1> HIDE DEF res
<1>2. ms \in Seq(Messages) /\ t.batch \in Nat /\ t.pending_tools \in Nat
  BY <1>1, Constructors, TranscriptTyped
<1>3. v = [t EXCEPT !.messages = Append(@, Tool(res)), !.batch = @ + 1]
  BY DEF Transcripts
<1>4. u = IF v.pending_tools = 0 \/ v.batch < v.pending_tools \/ ~v.last_assistant
          THEN v ELSE [TurnEnd(v) EXCEPT !.pending_tools = 0]
  BY <1>3 DEF append_tool_result, res
<1> HIDE DEF ms, u
<1>5. v \in Transcripts
  <2> DEFINE n == t.batch + 1
  <2>1. n \in Nat /\ v = [t EXCEPT !.messages = ms, !.batch = n]
    BY <1>2 DEF Transcripts
  <2> HIDE DEF n, v
  <2> QED BY <1>2, <2>1 DEF Transcripts
<1>6. /\ v.messages = ms /\ v.batch = t.batch + 1 /\ v.events = t.events
      /\ v.turn_index = t.turn_index /\ v.turn_active = t.turn_active
      /\ v.last_assistant = t.last_assistant /\ v.pending_tools = t.pending_tools
  BY DEF Transcripts
<1> HIDE DEF v
<1>7. Alternates(v) /\ Running(v)
  BY <1>6 DEF Alternates, Running
<1>8. CASE t.batch + 1 < t.pending_tools
  <2>1. u = v
    BY <1>4, <1>6, <1>8
  <2>2. ~(t.batch + 1 = t.pending_tools) /\ v.turn_active
    BY <1>2, <1>7, <1>8 DEF Running
  <2> QED BY <1>5, <1>6, <1>7, <2>1, <2>2 DEF ms, res, u
<1>9. CASE t.batch + 1 = t.pending_tools
  <2> DEFINE w == TurnEnd(v)
  <2>1. u = [w EXCEPT !.pending_tools = 0]
    BY <1>2, <1>4, <1>6, <1>9
  <2>2. w \in Transcripts /\ Alternates(w) /\ Ended(w) /\ ~w.turn_active /\ w.messages = v.messages
    BY <1>5, <1>7, TurnEndIs
  <2> HIDE DEF w
  <2>3. u \in Transcripts
    BY <2>1, <2>2 DEF Transcripts
  <2>4. /\ u.events = w.events /\ u.messages = w.messages /\ u.turn_index = w.turn_index
        /\ u.turn_active = w.turn_active
    BY <2>1, <2>2 DEF Transcripts
  <2>5. Alternates(u) /\ Ended(u)
    BY <2>2, <2>4 DEF Alternates, Ended
  <2>6. ~(t.batch + 1 < t.pending_tools)
    BY <1>2, <1>9
  <2> QED BY <1>6, <2>2, <2>3, <2>4, <2>5, <2>6 DEF ms, res, u
<1> QED BY <1>2, <1>8, <1>9

\* The end of the turn ends an exchange that has nothing open.
LEMMA FinishIs ==
    ASSUME NEW t \in Transcripts, Alternates(t), t.turn_active => Running(t)
    PROVE  LET u == finish_turn(t)
           IN  /\ u \in Transcripts /\ Alternates(u) /\ ~u.turn_active /\ u.messages = t.messages
               /\ t.turn_active /\ t.pending_tools = 0 /\ t.last_assistant => Ended(u)
               /\ ~t.turn_active /\ Ended(t) => Ended(u)
<1> DEFINE u == finish_turn(t)
           v == [t EXCEPT !.turn_active = FALSE]
<1>1. CASE ~t.turn_active \/ t.pending_tools # 0 \/ ~t.last_assistant
  <2>1. u = v
    BY <1>1 DEF finish_turn
  <2>2. /\ v \in Transcripts /\ v.events = t.events /\ v.turn_index = t.turn_index
        /\ ~v.turn_active /\ v.messages = t.messages
    BY DEF Transcripts
  <2> HIDE DEF u, v
  <2>3. Alternates(u) /\ (Ended(t) => Ended(u))
    BY <2>1, <2>2 DEF Alternates, Ended
  <2> QED BY <1>1, <2>1, <2>2, <2>3 DEF u
<1>2. CASE t.turn_active /\ t.pending_tools = 0 /\ t.last_assistant
  <2>1. u = TurnEnd(t)
    BY <1>2 DEF finish_turn
  <2> QED BY <1>2, <2>1, TurnEndIs
<1> QED BY <1>1, <1>2

-----------------------------------------------------------------------------
(* The steps of the host, by what they do.                                 *)

\* The host gives an input to the reducer and goes on with effects es.
Feeds(es) ==
    /\ pc' = "effects" /\ advanced' = TRUE /\ effects' = es
    /\ UNCHANGED <<steps, cancelled, observed, result>>

SubmitStep ==
    /\ pc = "submit"
    /\ UNCHANGED <<effects, advanced, steps, cancelled, observed, transcript, asked>>
    /\ \/ Rejects(NewEngine, outcome') /\ pc' = "returned" /\ result' = "Error"
       \/ Asks(NewEngine, outcome', <<User>>) /\ pc' = "head" /\ UNCHANGED result

AsksModel ==
    /\ pc = "effects" /\ engine.phase = "WaitingForModel" /\ ~Decided /\ ~advanced
    /\ Len(effects) = 1
    /\ pc' = "model"
    /\ transcript' = mark_turn_start(transcript)
    /\ asked' = Append(asked, engine.slots_used)
    /\ UNCHANGED <<outcome, effects, advanced, steps, cancelled, observed, result>>

StopsAsking ==
    /\ pc \in {"effects", "model", "retry"} /\ AwaitsModel /\ ~Decided /\ cancelled
    /\ Feeds(<<>>) /\ UNCHANGED asked
    /\ Finishes(engine, outcome', engine.messages)
    /\ \/ UNCHANGED transcript
       \/ /\ pc = "model"
          /\ \E calls \in Seq(CallIds) : transcript' = append_assistant(transcript, calls)

Responds(calls) ==
    /\ pc = "model" /\ engine.phase = "WaitingForModel" /\ ~Decided
    /\ Feeds(<<>>) /\ UNCHANGED asked
    /\ transcript' = append_assistant(transcript, calls)
    /\ \/ Rejects(engine, outcome')
       \/ StartsBatch(engine, outcome', calls)
       \/ Finishes(engine, outcome', Append(engine.messages, Assistant(calls)))

RequestFails ==
    /\ pc = "model" /\ engine.phase = "WaitingForModel" /\ ~Decided
    /\ Feeds(<<>>) /\ UNCHANGED <<asked, transcript>>
    /\ Retries(engine, outcome') \/ Fails(engine, outcome')

Sleeps ==
    /\ pc = "effects" /\ engine.phase = "WaitingForRetry" /\ ~Decided /\ ~advanced /\ effects # <<>>
    /\ pc' = "retry"
    /\ UNCHANGED <<outcome, effects, advanced, steps, cancelled, observed, transcript, asked, result>>

RetryStarts ==
    /\ pc = "retry" /\ engine.phase = "WaitingForRetry" /\ ~Decided
    /\ Feeds(<<>>) /\ UNCHANGED <<asked, transcript>>
    /\ RequestsAgain(engine, outcome')

StartsTool ==
    /\ pc = "effects" /\ engine.phase = "WaitingForTools" /\ ~Decided /\ effects # <<>>
    /\ pc' = "tool"
    /\ UNCHANGED <<outcome, effects, advanced, steps, cancelled, observed, transcript, asked, result>>

NextCall == engine.pending_tool_calls[Len(engine.buffered) + 1]

InBatch ==
    /\ engine.phase = "WaitingForTools" /\ ~Decided
    /\ effects # <<>> /\ FitsTools(effects, engine)

StopsTools ==
    /\ pc \in {"effects", "tool"} /\ InBatch /\ cancelled
    /\ Feeds(Tail(effects)) /\ UNCHANGED asked
    /\ Finishes(engine, outcome', engine.messages)
    /\ \/ UNCHANGED transcript
       \/ \E error \in BOOLEAN : transcript' = append_tool_result(transcript, NextCall, error)

RejectsLeftover ==
    /\ Leftover /\ Feeds(<<>>) /\ UNCHANGED <<asked, transcript>>
    /\ Rejects(engine, outcome')

ToolAnswers(error) ==
    LET res == [call |-> NextCall, error |-> error]
        n == Len(engine.buffered) + 1
        calls == engine.pending_tool_calls
        messages == engine.messages \o Answers(Append(engine.buffered, res))
    IN  /\ pc = "tool" /\ InBatch /\ UNCHANGED asked
        /\ transcript' = append_tool_result(transcript, NextCall, error)
        /\ \/ Rejects(engine, outcome') /\ Feeds(<<>>)
           \/ /\ n < Len(calls) /\ Buffers(engine, outcome', res) /\ Feeds(Tail(effects))
              /\ \A j \in 1 .. n - 1 : calls[j] # calls[n]
           \/ /\ n = Len(calls) /\ Feeds(<<>>)
              /\ Asks(engine, outcome', messages) \/ Finishes(engine, outcome', messages)

\* The first element of a sequence, and the others.
LEMMA TailIs ==
    ASSUME NEW S, NEW t \in Seq(S), t # <<>>
    PROVE  /\ Tail(t) \in Seq(S) /\ Len(t) \in Nat \ {0} /\ Len(Tail(t)) = Len(t) - 1
           /\ Head(t) = t[1] /\ \A i \in 1 .. Len(t) - 1 : Tail(t)[i] = t[i + 1]
           /\ Tail(t) = <<>> <=> Len(t) = 1
<1>1. /\ Tail(t) \in Seq(S) /\ Len(t) \in Nat \ {0} /\ Len(Tail(t)) = Len(t) - 1
      /\ Head(t) = t[1] /\ \A i \in 1 .. Len(t) - 1 : Tail(t)[i] = t[i + 1]
  OBVIOUS
<1>2. Tail(t) = <<>> <=> Len(Tail(t)) = 0
  BY <1>1, EmptySeq
<1> QED BY <1>1, <1>2

\* The engine is in its outcome.
LEMMA EngineIs ==
    ASSUME TypeOK
    PROVE  /\ engine \in EngineState /\ outcome.effects \in Seq(Effects)
           /\ outcome.rejection \in Rejections \cup {"none"} /\ outcome.failure \in BOOLEAN
           /\ engine.slots_used <= engine.budget
           /\ effects \in Seq(Effects) /\ cancelled \in BOOLEAN /\ advanced \in BOOLEAN
           /\ transcript \in Transcripts /\ observed \in Seq(Events) /\ asked \in Seq(Nat)
BY DEF TypeOK, EngineOutcome, engine

\* What the first effect to run says of the engine.
LEMMA HeadKinds ==
    ASSUME TypeOK, HostPosition, LoopFits, pc = "effects", effects # <<>>
    PROVE  /\ ~Decided /\ ~NewOutcome
           /\ Head(effects).kind = "RequestModel" =>
                  /\ engine.phase = "WaitingForModel" /\ Len(effects) = 1 /\ ~advanced
                  /\ Head(effects) = RequestModel(engine.pending_model_request)
           /\ Head(effects).kind = "ScheduleRetry" =>
                  /\ engine.phase = "WaitingForRetry" /\ ~advanced
                  /\ Head(effects) = ScheduleRetry(engine.pending_model_request)
           /\ Head(effects).kind = "ExecuteTool" =>
                  Leftover \/ (engine.phase = "WaitingForTools" /\ FitsTools(effects, engine))
           /\ Head(effects).kind = "EmitEvent" =>
                  /\ engine.phase \in {"WaitingForModel", "Finished"} /\ ~advanced /\ Fits(effects)
                  /\ engine.phase = "WaitingForModel" => Len(effects) > 1
<1>1. /\ effects \in Seq(Effects) /\ Len(effects) \in Nat \ {0} /\ Head(effects) = effects[1]
      /\ 1 \in 1 .. Len(effects)
      /\ Len(effects) # 1 => 1 \in 1 .. Len(effects) - 1 /\ Len(effects) > 1
  <2>1. effects \in Seq(Effects)
    BY DEF TypeOK
  <2>2. Len(effects) \in Nat \ {0} /\ Head(effects) = effects[1]
    BY <2>1
  <2>3. \A n \in Nat \ {0} : 1 \in 1 .. n /\ (n # 1 => 1 \in 1 .. n - 1 /\ n > 1)
    OBVIOUS
  <2> QED BY <2>1, <2>2, <2>3
<1>2. ~Decided /\ ~NewOutcome /\ InLoop
  BY DEF HostPosition, NewOutcome, InLoop
<1>3. engine.phase \in {"WaitingForModel", "WaitingForRetry", "WaitingForTools", "Finished"}
  BY <1>2, EngineIs, EngineTyped DEF HostPosition, Phases
<1>4. Fits(effects) \/ Leftover
  BY <1>2 DEF LoopFits
<1>5. advanced => engine.phase = "WaitingForTools" \/ Leftover
  BY <1>2 DEF LoopFits
<1>6. CASE Leftover
  <2>1. Head(effects).kind = "ExecuteTool"
    BY <1>1, <1>6 DEF Leftover
  <2> QED BY <1>2, <1>6, <2>1
<1>7. CASE Fits(effects) /\ engine.phase = "WaitingForModel" /\ ~Leftover
  <2>1. EarlyBut(effects, RequestModel(engine.pending_model_request))
    BY <1>7 DEF Fits, FitsModel
  <2>2. CASE Len(effects) = 1
    <3>1. effects[1] = RequestModel(engine.pending_model_request)
      BY <2>1, <2>2 DEF EarlyBut
    <3>2. effects[1].kind = "RequestModel"
      BY <3>1 DEF RequestModel
    <3> QED BY <1>1, <1>2, <1>5, <1>7, <2>2, <3>1, <3>2
  <2>3. CASE Len(effects) # 1
    <3>1. 1 \in 1 .. Len(effects) - 1 /\ Len(effects) > 1
      BY <1>1, <2>3
    <3>2. effects[1].kind = "EmitEvent"
      BY <2>1, <3>1 DEF EarlyBut, Early
    <3> QED BY <1>1, <1>2, <1>5, <1>7, <3>1, <3>2
  <2> QED BY <2>2, <2>3
<1>8. CASE Fits(effects) /\ engine.phase = "WaitingForRetry" /\ ~Leftover
  <2>1. effects = <<ScheduleRetry(engine.pending_model_request)>>
    BY <1>8 DEF Fits, FitsRetry
  <2>2. Head(effects) = ScheduleRetry(engine.pending_model_request)
    BY <2>1
  <2>3. Head(effects).kind = "ScheduleRetry"
    BY <2>2 DEF ScheduleRetry
  <2> QED BY <1>2, <1>5, <1>8, <2>2, <2>3
<1>9. CASE Fits(effects) /\ engine.phase = "WaitingForTools"
  <2>1. FitsTools(effects, engine)
    BY <1>9 DEF Fits
  <2>2. Head(effects).kind = "ExecuteTool"
    <3>1. effects[1] = ExecuteTool(engine.pending_tool_calls[Len(engine.buffered) + 1])
      BY <1>1, <2>1 DEF FitsTools
    <3> QED BY <1>1, <3>1 DEF ExecuteTool
  <2> QED BY <1>2, <1>9, <2>1, <2>2
<1>10. CASE Fits(effects) /\ engine.phase = "Finished" /\ ~Leftover
  <2>1. EarlyBut(effects, Emit("TurnFinished"))
    BY <1>10 DEF Fits, FitsFinished
  <2>2. effects[1].kind = "EmitEvent"
    <3>1. CASE Len(effects) = 1
      BY <2>1, <3>1 DEF EarlyBut, Emit
    <3>2. CASE Len(effects) # 1
      <4>1. 1 \in 1 .. Len(effects) - 1
        BY <1>1, <3>2
      <4> QED BY <2>1, <4>1 DEF EarlyBut, Early
    <3> QED BY <3>1, <3>2
  <2>3. ~advanced
    BY <1>5, <1>10
  <2> QED BY <1>1, <1>2, <1>10, <2>2, <2>3
<1> QED BY <1>3, <1>4, <1>6, <1>7, <1>8, <1>9, <1>10


\* The effect that runs while the host awaits the model, the delay or a tool.
LEMMA AwaitedIs ==
    ASSUME TypeOK, HostPosition, LoopFits
    PROVE  /\ pc = "model" => /\ engine.phase = "WaitingForModel" /\ ~Decided
                              /\ Head(effects) = RequestModel(engine.pending_model_request)
           /\ pc = "retry" => /\ engine.phase = "WaitingForRetry" /\ ~Decided
                              /\ Head(effects) = ScheduleRetry(engine.pending_model_request)
           /\ pc = "tool" => InBatch
<1>1. ASSUME pc \in {"model", "retry", "tool"} PROVE Fits(effects) /\ ~Decided
  <2>1. InLoop /\ ~NewOutcome /\ ~Decided /\ ~Leftover
    BY <1>1 DEF HostPosition, InLoop, NewOutcome, Leftover
  <2> QED BY <2>1 DEF LoopFits
<1>2. effects \in Seq(Effects)
  BY DEF TypeOK
<1>3. CASE pc = "model"
  <2>1. engine.phase = "WaitingForModel" /\ Len(effects) = 1
    BY <1>3 DEF LoopFits
  <2>2. EarlyBut(effects, RequestModel(engine.pending_model_request))
    BY <1>1, <1>3, <2>1 DEF Fits, FitsModel
  <2>3. effects[1] = RequestModel(engine.pending_model_request) /\ Head(effects) = effects[1]
    BY <1>2, <2>1, <2>2 DEF EarlyBut
  <2> QED BY <1>1, <1>3, <2>1, <2>3
<1>4. CASE pc = "retry"
  <2>1. engine.phase = "WaitingForRetry"
    BY <1>4 DEF LoopFits
  <2>2. effects = <<ScheduleRetry(engine.pending_model_request)>>
    BY <1>1, <1>4, <2>1 DEF Fits, FitsRetry
  <2>3. Head(effects) = ScheduleRetry(engine.pending_model_request)
    BY <2>2
  <2> QED BY <1>1, <1>4, <2>1, <2>3
<1>5. CASE pc = "tool"
  BY <1>1, <1>5 DEF LoopFits, Fits, InBatch
<1> QED BY <1>3, <1>4, <1>5

\* The call of the next tool.
LEMMA NextCallIs ==
    ASSUME TypeOK, PhaseFields, InBatch
    PROVE  /\ Head(effects) = ExecuteTool(NextCall) /\ Head(effects).call = NextCall
           /\ NextCall \in CallIds
           /\ Len(engine.buffered) \in Nat /\ Len(engine.pending_tool_calls) \in Nat
           /\ Len(engine.buffered) + 1 <= Len(engine.pending_tool_calls)
           /\ Len(effects) \in Nat \ {0} /\ effects \in Seq(Effects)
<1>1. effects \in Seq(Effects) /\ effects # <<>>
  BY DEF TypeOK, InBatch
<1>2. Len(effects) \in Nat \ {0} /\ Head(effects) = effects[1] /\ 1 \in 1 .. Len(effects)
  BY <1>1
<1>3. Head(effects) = ExecuteTool(NextCall)
  BY <1>2 DEF InBatch, FitsTools, NextCall
<1>4. engine.buffered \in Seq(Results) /\ engine.pending_tool_calls \in Seq(CallIds)
  BY EngineIs, EngineTyped
<1>5. /\ Len(engine.buffered) \in Nat /\ Len(engine.pending_tool_calls) \in Nat
      /\ Len(engine.buffered) < Len(engine.pending_tool_calls)
  BY <1>4 DEF PhaseFields, FieldsFit, InBatch
<1>6. Len(engine.buffered) + 1 \in 1 .. Len(engine.pending_tool_calls)
  BY <1>5
<1>7. NextCall \in CallIds
  BY <1>4, <1>6 DEF NextCall
<1> QED BY <1>1, <1>2, <1>3, <1>5, <1>7, Constructors

\* Every step is one of these.
LEMMA StepCases ==
    ASSUME TypeOK, PhaseFields, HostPosition, LoopFits, Next
    PROVE  \/ SubmitStep \/ StopTurn \/ RunEffects \/ StepLimitExceeded \/ EndOfEffects \/ Return
           \/ EmitEvent \/ Cancel
           \/ AsksModel \/ StopsAsking \/ (\E calls \in Seq(CallIds) : Responds(calls))
           \/ RequestFails \/ Sleeps \/ RetryStarts
           \/ StartsTool \/ StopsTools \/ RejectsLeftover \/ \E error \in BOOLEAN : ToolAnswers(error)
<1> DEFINE e == engine
<1>1. /\ e \in EngineState /\ FieldsFit(e) /\ e.slots_used <= e.budget
      /\ e.pending_model_request \in Nat \cup {NoRequest}
  BY EngineIs, EngineTyped DEF PhaseFields
<1>2. /\ e.phase = "WaitingForModel" => e.pending_model_request = e.slots_used
      /\ e.phase = "WaitingForRetry" => e.pending_model_request = e.slots_used
      /\ e.slots_used \in Nat
  BY <1>1, EngineTyped DEF FieldsFit
<1>3. ASSUME Feed(cancel_input), effects' = <<>>, cancelled, ~Decided,
             pc \in {"effects", "model", "retry"}, AwaitsModel,
             UNCHANGED <<steps, cancelled, observed, result, asked>>,
             \/ UNCHANGED transcript
             \/ /\ pc = "model"
                /\ \E calls \in Seq(CallIds) : transcript' = append_assistant(transcript, calls)
      PROVE  StopsAsking
  <2>1. Finishes(e, outcome', e.messages)
    BY <1>1, <1>3, CancelIs DEF Feed, AwaitsModel
  <2> QED BY <1>3, <2>1 DEF StopsAsking, Feeds, Feed
<1>4. ASSUME NEW budget \in Budgets, Submit(budget) PROVE SubmitStep
  <2>1. budget \in Nat
    BY TurnAssumption
  <2>2. Rejects(NewEngine, outcome') \/ Asks(NewEngine, outcome', <<User>>)
    BY <1>4, <2>1, SubmitIs DEF Submit
  <2>3. CASE Rejects(NewEngine, outcome')
    <3>1. outcome'.rejection # "none"
      BY <2>3 DEF Rejects
    <3> QED BY <1>4, <2>3, <3>1 DEF Submit, SubmitStep
  <2>4. CASE Asks(NewEngine, outcome', <<User>>)
    <3>1. outcome'.rejection = "none"
      BY <2>4 DEF Asks, Continues
    <3> QED BY <1>4, <2>4, <3>1 DEF Submit, SubmitStep
  <2> QED BY <2>2, <2>3, <2>4
<1>5. CASE StartModel
  <2>1. pc = "effects" /\ effects # <<>> /\ Head(effects).kind = "RequestModel"
    BY <1>5 DEF StartModel, NextEffect
  <2>2. /\ ~Decided /\ e.phase = "WaitingForModel" /\ Len(effects) = 1 /\ ~advanced
        /\ Head(effects) = RequestModel(e.pending_model_request)
    BY <2>1, HeadKinds
  <2>3. Head(effects).id = e.slots_used
    BY <1>2, <2>2, Constructors
  <2>4. CASE cancelled
    BY <1>3, <1>5, <2>1, <2>2, <2>4 DEF StartModel, AwaitsModel
  <2>5. CASE ~cancelled
    BY <1>5, <2>1, <2>2, <2>3, <2>5 DEF StartModel, AsksModel
  <2> QED BY <2>4, <2>5
<1>6. ASSUME NEW response \in Responses, ModelCompletes(response)
      PROVE  StopsAsking \/ \E calls \in Seq(CallIds) : Responds(calls)
  <2>1. /\ e.phase = "WaitingForModel" /\ ~Decided /\ pc = "model"
        /\ Head(effects) = RequestModel(e.pending_model_request)
    BY <1>6, AwaitedIs DEF ModelCompletes
  <2>2. Head(effects).id = e.pending_model_request
    BY <1>2, <2>1, Constructors
  <2>3. response.calls \in Seq(CallIds)
    BY TurnAssumption DEF Responses
  <2>4. CASE cancelled
    BY <1>3, <1>6, <2>1, <2>3, <2>4 DEF ModelCompletes, AwaitsModel
  <2>5. CASE ~cancelled
    <3>1. outcome' = reduce(e, [kind |-> "ModelCompleted", id |-> e.pending_model_request,
                                response |-> response])
      BY <1>6, <2>2, <2>5 DEF ModelCompletes, Feed
    <3>2. \/ Rejects(e, outcome')
          \/ StartsBatch(e, outcome', response.calls)
          \/ Finishes(e, outcome', Append(e.messages, Assistant(response.calls)))
      BY <1>1, <2>1, <3>1, CompletedIs
    <3>3. Responds(response.calls)
      BY <1>6, <2>1, <3>2 DEF ModelCompletes, Responds, Feed, Feeds
    <3> QED BY <2>3, <3>3
  <2> QED BY <2>4, <2>5
<1>7. ASSUME NEW retryable \in BOOLEAN, ModelFails(retryable) PROVE StopsAsking \/ RequestFails
  <2>1. /\ e.phase = "WaitingForModel" /\ ~Decided /\ pc = "model"
        /\ Head(effects) = RequestModel(e.pending_model_request)
    BY <1>7, AwaitedIs DEF ModelFails
  <2>2. Head(effects).id = e.pending_model_request
    BY <1>2, <2>1, Constructors
  <2>3. CASE cancelled
    BY <1>3, <1>7, <2>1, <2>3 DEF ModelFails, AwaitsModel
  <2>4. CASE ~cancelled
    <3>1. outcome' = reduce(e, [kind |-> "ModelFailed", id |-> e.pending_model_request,
                                retryable |-> retryable])
      BY <1>7, <2>2, <2>4 DEF ModelFails, Feed
    <3>2. Retries(e, outcome') \/ Fails(e, outcome')
      BY <1>1, <2>1, <3>1, FailedIs
    <3> QED BY <1>7, <2>1, <3>2 DEF ModelFails, RequestFails, Feed, Feeds
  <2> QED BY <2>3, <2>4
<1>8. CASE StartRetry
  <2>1. pc = "effects" /\ effects # <<>> /\ Head(effects).kind = "ScheduleRetry"
    BY <1>8 DEF StartRetry, NextEffect
  <2>2. ~Decided /\ e.phase = "WaitingForRetry" /\ ~advanced
    BY <2>1, HeadKinds
  <2>3. CASE cancelled
    BY <1>3, <1>8, <2>1, <2>2, <2>3 DEF StartRetry, AwaitsModel
  <2>4. CASE ~cancelled
    BY <1>8, <2>1, <2>2, <2>4 DEF StartRetry, Sleeps
  <2> QED BY <2>3, <2>4
<1>9. CASE RetryWakes
  <2>1. /\ e.phase = "WaitingForRetry" /\ ~Decided /\ pc = "retry"
        /\ Head(effects) = ScheduleRetry(e.pending_model_request)
    BY <1>9, AwaitedIs DEF RetryWakes
  <2>2. Head(effects).id = e.pending_model_request
    BY <1>2, <2>1, Constructors
  <2>3. CASE cancelled
    BY <1>3, <1>9, <2>1, <2>3 DEF RetryWakes, AwaitsModel
  <2>4. CASE ~cancelled
    <3>1. outcome' = reduce(e, [kind |-> "RetryReady", id |-> e.pending_model_request])
      BY <1>9, <2>2, <2>4 DEF RetryWakes, Feed
    <3>2. RequestsAgain(e, outcome')
      BY <1>1, <2>1, <3>1, ReadyIs
    <3> QED BY <1>9, <2>1, <3>2 DEF RetryWakes, RetryStarts, Feed, Feeds
  <2> QED BY <2>3, <2>4
<1>10. CASE StartTool
  <2>1. pc = "effects" /\ effects # <<>> /\ Head(effects).kind = "ExecuteTool"
    BY <1>10 DEF StartTool, NextEffect
  <2>2. ~Decided /\ (Leftover \/ InBatch)
    BY <2>1, HeadKinds DEF InBatch
  <2>3. CASE Leftover
    <3>1. cancelled /\ e.phase = "Finished"
      BY <2>3 DEF Leftover
    <3>2. Rejects(e, outcome')
      BY <1>1, <1>10, <3>1, CancelIs DEF StartTool, Feed
    <3>3. outcome'.rejection # "none"
      BY <3>2 DEF Rejects
    <3> QED BY <1>10, <2>3, <3>1, <3>2, <3>3 DEF StartTool, RejectsLeftover, Feed, Feeds, NextTool
  <2>4. CASE InBatch /\ ~cancelled
    BY <1>10, <2>1, <2>4 DEF StartTool, StartsTool, InBatch
  <2>5. CASE InBatch /\ cancelled
    <3>1. Finishes(e, outcome', e.messages)
      BY <1>1, <1>10, <2>5, CancelIs DEF StartTool, Feed, InBatch
    <3>2. outcome'.rejection = "none" /\ ~outcome'.failure
      BY <3>1 DEF Finishes, Continues
    <3> QED BY <1>10, <2>1, <2>5, <3>1, <3>2 DEF StartTool, StopsTools, Feed, Feeds, NextTool
  <2> QED BY <2>2, <2>3, <2>4, <2>5
<1>11. ASSUME NEW tool_outcome \in ToolOutcomes, ToolReturns(tool_outcome)
       PROVE  StopsTools \/ \E error \in BOOLEAN : ToolAnswers(error)
  <2> DEFINE error == tool_outcome \notin {"Succeeded", "Truncated"}
             res == [call |-> NextCall, error |-> error]
             n == Len(e.buffered) + 1
             messages == e.messages \o Answers(Append(e.buffered, res))
  <2>1. pc = "tool" /\ InBatch /\ e.phase = "WaitingForTools"
    BY <1>11, AwaitedIs DEF ToolReturns, InBatch
  <2>2. Head(effects).call = NextCall /\ error \in BOOLEAN /\ tool_outcome # "Cancelled"
    BY <2>1, NextCallIs, TurnAssumption
  <2>3. /\ transcript' = append_tool_result(transcript, NextCall, error)
        /\ UNCHANGED <<steps, cancelled, observed, asked, result>>
        /\ Feed(tool_outcome_to_input(NextCall, tool_outcome)) /\ NextTool
    BY <1>11, <2>2 DEF ToolReturns
  <2>4. CASE cancelled
    <3>1. Feed(cancel_input)
      BY <2>3, <2>4 DEF tool_outcome_to_input
    <3>2. Finishes(e, outcome', e.messages)
      BY <1>1, <2>1, <3>1, CancelIs DEF Feed
    <3>3. outcome'.rejection = "none" /\ ~outcome'.failure
      BY <3>2 DEF Finishes, Continues
    <3> HIDE DEF error
    <3> QED BY <2>1, <2>2, <2>3, <2>4, <3>1, <3>2, <3>3 DEF StopsTools, Feed, Feeds, NextTool
  <2>5. CASE ~cancelled
    <3>1. outcome' = apply_tool_feedback(e, NextCall, error)
      <4>1. CASE tool_outcome \in {"Succeeded", "Truncated"}
        <5>1. outcome' = reduce(e, [kind |-> "ToolCompleted", call |-> NextCall]) /\ error = FALSE
          BY <2>2, <2>3, <2>5, <4>1 DEF tool_outcome_to_input, Feed
        <5> QED BY <5>1 DEF reduce
      <4>2. CASE tool_outcome \notin {"Succeeded", "Truncated"}
        <5>1. outcome' = reduce(e, [kind |-> "ToolFailed", call |-> NextCall]) /\ error = TRUE
          BY <2>2, <2>3, <2>5, <4>2 DEF tool_outcome_to_input, Feed
        <5> QED BY <5>1 DEF reduce
      <4> QED BY <4>1, <4>2
    <3> HIDE DEF error
    <3>2. \/ Rejects(e, outcome')
          \/ /\ n < Len(e.pending_tool_calls) /\ Buffers(e, outcome', res)
             /\ \A j \in 1 .. n - 1 : e.pending_tool_calls[j] # e.pending_tool_calls[n]
          \/ /\ n = Len(e.pending_tool_calls)
             /\ Asks(e, outcome', messages) \/ Finishes(e, outcome', messages)
      BY <1>1, <2>1, <2>2, <3>1, FeedbackIs DEF NextCall
    <3>3. CASE Rejects(e, outcome')
      <4>1. outcome'.rejection # "none"
        BY <3>3 DEF Rejects
      <4>2. Feeds(<<>>)
        BY <2>3, <4>1 DEF Feeds, Feed, NextTool
      <4> QED BY <2>1, <2>2, <2>3, <3>3, <4>2 DEF ToolAnswers
    <3>4. CASE /\ n < Len(e.pending_tool_calls) /\ Buffers(e, outcome', res)
               /\ \A j \in 1 .. n - 1 : e.pending_tool_calls[j] # e.pending_tool_calls[n]
      <4>1. outcome'.rejection = "none" /\ ~outcome'.failure
        BY <3>4 DEF Buffers, Continues
      <4>2. Feeds(Tail(effects))
        BY <2>3, <4>1 DEF Feeds, Feed, NextTool
      <4> QED BY <2>1, <2>2, <2>3, <3>4, <4>2 DEF ToolAnswers
    <3>5. CASE /\ n = Len(e.pending_tool_calls)
               /\ Asks(e, outcome', messages) \/ Finishes(e, outcome', messages)
      <4>1. outcome'.rejection = "none" /\ ~outcome'.failure
        BY <3>5 DEF Asks, Finishes, Continues
      <4>2. Tail(effects) = <<>>
        <5>1. /\ effects \in Seq(Effects) /\ Len(effects) \in Nat
              /\ Len(engine.buffered) \in Nat /\ Len(engine.pending_tool_calls) \in Nat
          BY <2>1, NextCallIs
        <5>2. Len(engine.buffered) + Len(effects) = Len(engine.pending_tool_calls)
          BY <2>1 DEF InBatch, FitsTools
        <5>3. Len(effects) = 1
          <6>1. Len(engine.buffered) + 1 = Len(engine.pending_tool_calls)
            BY <3>5
          <6>2. \A a, b, c \in Nat : a + b = c /\ a + 1 = c => b = 1
            OBVIOUS
          <6> QED BY <5>1, <5>2, <6>1, <6>2
        <5> QED BY <5>1, <5>3, TailIs
      <4>3. Feeds(<<>>)
        BY <2>3, <4>1, <4>2 DEF Feeds, Feed, NextTool
      <4> QED BY <2>1, <2>2, <2>3, <3>5, <4>3 DEF ToolAnswers
    <3> QED BY <3>2, <3>3, <3>4, <3>5
  <2> QED BY <2>4, <2>5
<1> HIDE DEF e
<1> QED BY <1>4, <1>5, <1>6, <1>7, <1>8, <1>9, <1>10, <1>11 DEF Next

-----------------------------------------------------------------------------
(* The engine's state and the position of the host.                        *)

\* Which outcomes decide the turn.
LEMMA DecidedIs ==
    ASSUME NEW e
    PROVE  /\ Rejects(e, outcome') => Decided' /\ engine' = e
           /\ Fails(e, outcome') => Decided'
           /\ Continues(outcome') => ~Decided'
BY DEF Rejects, Fails, Continues, Decided, engine

\* The engine before the prompt.
LEMMA NewEngineIs ==
    /\ NewEngine \in EngineState /\ FieldsFit(NewEngine)
    /\ NewEngine.phase = "Idle" /\ NewEngine.slots_used = 0 /\ NewEngine.budget = 0
<1>1. <<>> \in Seq(CallIds) /\ <<>> \in Seq(Results) /\ <<>> \in Seq(Messages) /\ 0 \in 0 .. RetryCount
  BY EngineAssumption
<1>2. NewEngine \in EngineState
  BY <1>1 DEF NewEngine, EngineState, Phases
<1> QED BY <1>2 DEF NewEngine, FieldsFit

\* Every step leaves an engine whose fields fit its phase.
LEMMA OutcomeStep ==
    ASSUME TypeOK, PhaseFields, HostPosition, LoopFits, Next
    PROVE  /\ outcome' \in EngineOutcome /\ PhaseFields'
           /\ engine'.slots_used <= engine'.budget
<1> DEFINE e == engine
<1>1. e \in EngineState /\ FieldsFit(e) /\ e.slots_used <= e.budget /\ outcome \in EngineOutcome
  BY EngineIs DEF PhaseFields, TypeOK
<1>2. engine' = outcome'.state /\ (PhaseFields' <=> FieldsFit(outcome'.state))
  BY DEF engine, PhaseFields
<1>3. ASSUME NEW f, SameCounters(e, f) PROVE f.slots_used <= f.budget
  BY <1>1, <1>3 DEF SameCounters
<1>4. CASE UNCHANGED outcome
  BY <1>1, <1>2, <1>4 DEF engine
<1>5. CASE StepLimitExceeded
  <2>1. outcome' = [outcome EXCEPT !.effects = <<>>, !.failure = TRUE]
    BY <1>5 DEF StepLimitExceeded
  <2>2. <<>> \in Seq(Effects) /\ TRUE \in BOOLEAN
    OBVIOUS
  <2>3. outcome' \in EngineOutcome /\ outcome'.state = e
    BY <1>1, <2>1, <2>2 DEF EngineOutcome, engine
  <2> QED BY <1>1, <1>2, <2>3
<1>6. CASE SubmitStep
  <2>1. CASE Rejects(NewEngine, outcome')
    <3>1. outcome' \in EngineOutcome /\ outcome'.state = NewEngine
      BY <2>1 DEF Rejects
    <3> QED BY <1>2, <3>1, NewEngineIs
  <2>2. CASE Asks(NewEngine, outcome', <<User>>)
    <3>1. outcome' \in EngineOutcome /\ outcome'.state.slots_used <= outcome'.state.budget
      BY <2>2 DEF Asks, Continues
    <3>2. FieldsFit(outcome'.state)
      BY <2>2, NewEngineIs, FieldsHold
    <3> QED BY <1>2, <3>1, <3>2
  <2> QED BY <1>6, <2>1, <2>2 DEF SubmitStep
<1>7. ASSUME NEW ms, Finishes(e, outcome', ms)
      PROVE  outcome' \in EngineOutcome /\ PhaseFields' /\ engine'.slots_used <= engine'.budget
  <2>1. outcome' \in EngineOutcome /\ SameCounters(e, outcome'.state)
    BY <1>7 DEF Finishes, Continues
  <2>2. FieldsFit(outcome'.state)
    BY <1>1, <1>7, FieldsHold
  <2> QED BY <1>2, <1>3, <2>1, <2>2
<1>8. ASSUME Rejects(e, outcome')
      PROVE  outcome' \in EngineOutcome /\ PhaseFields' /\ engine'.slots_used <= engine'.budget
  <2>1. outcome' \in EngineOutcome /\ outcome'.state = e
    BY <1>8 DEF Rejects
  <2> QED BY <1>1, <1>2, <2>1
<1>9. ASSUME NEW ms, Asks(e, outcome', ms)
      PROVE  outcome' \in EngineOutcome /\ PhaseFields' /\ engine'.slots_used <= engine'.budget
  <2>1. outcome' \in EngineOutcome /\ outcome'.state.slots_used <= outcome'.state.budget
    BY <1>9 DEF Asks, Continues
  <2>2. FieldsFit(outcome'.state)
    BY <1>1, <1>9, FieldsHold
  <2> QED BY <1>2, <2>1, <2>2
<1>10. CASE StopsAsking \/ StopsTools
  BY <1>7, <1>10 DEF StopsAsking, StopsTools
<1>11. CASE RejectsLeftover
  BY <1>8, <1>11 DEF RejectsLeftover
<1>12. ASSUME NEW calls \in Seq(CallIds), Responds(calls)
       PROVE  outcome' \in EngineOutcome /\ PhaseFields' /\ engine'.slots_used <= engine'.budget
  <2>1. CASE StartsBatch(e, outcome', calls)
    <3>1. outcome' \in EngineOutcome /\ SameCounters(e, outcome'.state)
      BY <2>1 DEF StartsBatch, Continues
    <3>2. FieldsFit(outcome'.state)
      BY <1>1, <1>12, <2>1, FieldsHold DEF Responds
    <3> QED BY <1>2, <1>3, <3>1, <3>2
  <2> QED BY <1>7, <1>8, <1>12, <2>1 DEF Responds
<1>13. CASE RequestFails
  <2>1. outcome' \in EngineOutcome /\ SameCounters(e, outcome'.state)
    BY <1>13 DEF RequestFails, Retries, Fails, Continues
  <2>2. FieldsFit(outcome'.state)
    BY <1>1, <1>13, FieldsHold DEF RequestFails
  <2> QED BY <1>2, <1>3, <2>1, <2>2
<1>14. CASE RetryStarts
  <2>1. outcome' \in EngineOutcome /\ SameCounters(e, outcome'.state)
    BY <1>14 DEF RetryStarts, RequestsAgain, Continues
  <2>2. FieldsFit(outcome'.state)
    BY <1>1, <1>14, FieldsHold DEF RetryStarts
  <2> QED BY <1>2, <1>3, <2>1, <2>2
<1>15. ASSUME NEW error \in BOOLEAN, ToolAnswers(error)
       PROVE  outcome' \in EngineOutcome /\ PhaseFields' /\ engine'.slots_used <= engine'.budget
  <2> DEFINE res == [call |-> NextCall, error |-> error]
             n == Len(e.buffered) + 1
  <2>1. CASE /\ n < Len(e.pending_tool_calls) /\ Buffers(e, outcome', res)
             /\ \A j \in 1 .. n - 1 : e.pending_tool_calls[j] # e.pending_tool_calls[n]
    <3>1. outcome' \in EngineOutcome /\ SameCounters(e, outcome'.state)
      BY <2>1 DEF Buffers, Continues
    <3>2. InBatch /\ e.phase = "WaitingForTools"
      BY <1>15 DEF ToolAnswers, InBatch
    <3>3. NextCall \in CallIds /\ Len(e.buffered) \in Nat
      BY <3>2, NextCallIs
    <3>4. res \in Results /\ res.call = NextCall /\ n - 1 = Len(e.buffered)
      BY <3>3 DEF Results
    <3> HIDE DEF res
    <3>5. FieldsFit(outcome'.state)
      BY <1>1, <2>1, <3>2, <3>4, BuffersFieldsHold DEF NextCall
    <3> QED BY <1>2, <1>3, <3>1, <3>5
  <2> QED BY <1>7, <1>8, <1>9, <1>15, <2>1 DEF ToolAnswers
<1> QED
  BY <1>4, <1>5, <1>6, <1>10, <1>11, <1>12, <1>13, <1>14, <1>15, StepCases
  DEF StopTurn, RunEffects, EndOfEffects, Return, EmitEvent, Cancel, AsksModel, Sleeps, StartsTool

\* The types of the host's variables.
HostTyped ==
    /\ pc \in {"submit", "head", "effects", "model", "retry", "tool", "report", "returned"}
    /\ effects \in Seq(Effects)
    /\ advanced \in BOOLEAN /\ cancelled \in BOOLEAN /\ steps \in 0 .. StepLimit
    /\ observed \in Seq(Events) /\ asked \in Seq(Nat)
    /\ result \in {"none", "Ok", "Error", "Cancelled"}

\* Every step keeps them.
LEMMA HostTypesStep ==
    ASSUME TypeOK, PhaseFields, HostPosition, LoopFits, Next
    PROVE  HostTyped'
<1>1. HostTyped /\ outcome.effects \in Seq(Effects) /\ engine.slots_used \in Nat /\ StepLimit \in Nat
  BY EngineIs, EngineTyped, TurnAssumption DEF TypeOK, HostTyped
<1>2. <<>> \in Seq(Effects) /\ (effects # <<>> => Tail(effects) \in Seq(Effects))
  BY <1>1 DEF HostTyped
<1>3. CASE SubmitStep \/ StopTurn \/ RunEffects \/ StepLimitExceeded \/ Return \/ Cancel
  BY <1>1, <1>3 DEF HostTyped, SubmitStep, StopTurn, RunEffects, StepLimitExceeded, Return, Cancel
<1>4. CASE EndOfEffects
  <2>1. steps < StepLimit
    BY <1>4 DEF EndOfEffects, HostPosition
  <2> QED BY <1>1, <1>4, <2>1 DEF HostTyped, EndOfEffects
<1>5. CASE EmitEvent
  <2>1. effects # <<>> /\ Head(effects).kind = "EmitEvent"
    BY <1>5 DEF EmitEvent, NextEffect
  <2>2. Head(effects) \in Effects
    BY <1>1, <2>1 DEF HostTyped
  <2>3. Head(effects).event \in Events
    BY <2>1, <2>2 DEF Effects
  <2>4. observed' \in Seq(Events) /\ effects' \in Seq(Effects)
    BY <1>1, <1>2, <1>5, <2>1, <2>3 DEF HostTyped, EmitEvent
  <2> QED BY <1>1, <1>5, <2>4 DEF HostTyped, EmitEvent
<1>6. CASE AsksModel
  <2>1. asked' \in Seq(Nat)
    BY <1>1, <1>6 DEF HostTyped, AsksModel
  <2> QED BY <1>1, <1>6, <2>1 DEF HostTyped, AsksModel
<1>7. CASE Sleeps \/ StartsTool
  BY <1>1, <1>7 DEF HostTyped, Sleeps, StartsTool
<1>8. ASSUME NEW es \in Seq(Effects), Feeds(es), UNCHANGED asked PROVE HostTyped'
  BY <1>1, <1>8 DEF HostTyped, Feeds
<1>9. CASE StopsAsking \/ RequestFails \/ RetryStarts \/ RejectsLeftover
  BY <1>2, <1>8, <1>9 DEF StopsAsking, RequestFails, RetryStarts, RejectsLeftover
<1>10. ASSUME NEW calls, Responds(calls) PROVE HostTyped'
  BY <1>2, <1>8, <1>10 DEF Responds
<1>11. CASE StopsTools
  BY <1>2, <1>8, <1>11 DEF StopsTools, InBatch
<1>12. ASSUME NEW error, ToolAnswers(error) PROVE HostTyped'
  <2>1. (Feeds(<<>>) \/ Feeds(Tail(effects))) /\ UNCHANGED asked /\ effects # <<>>
    BY <1>12 DEF ToolAnswers, InBatch
  <2> QED BY <1>2, <1>8, <2>1
<1> QED
  BY <1>3, <1>4, <1>5, <1>6, <1>7, <1>9, <1>10, <1>11, <1>12, StepCases

\* Every step moves the host as its position allows.
LEMMA HostStep ==
    ASSUME TypeOK, PhaseFields, HostPosition, LoopFits, Next
    PROVE  HostPosition'
<1> USE DEF HostPosition
<1>1. CASE SubmitStep
  <2>1. effects' = <<>> /\ pc' \in {"head", "returned"} /\ (pc' = "head" => result' = "none")
    BY <1>1 DEF SubmitStep, Fresh
  <2>2. pc' = "head" => Asks(NewEngine, outcome', <<User>>)
    BY <1>1 DEF SubmitStep
  <2>3. pc' = "head" => engine'.phase # "Idle"
    BY <2>2 DEF Asks, engine
  <2> QED BY <2>1, <2>3 DEF InLoop
<1>2. CASE StopTurn \/ StepLimitExceeded \/ Return
  BY <1>2 DEF StopTurn, StepLimitExceeded, Return, InLoop
<1>3. CASE RunEffects
  <2>1. engine' = engine /\ Decided' = Decided
    BY <1>3 DEF RunEffects, engine, Decided
  <2> QED BY <1>3, <2>1 DEF RunEffects, InLoop
<1>4. CASE EndOfEffects
  <2>1. engine' = engine
    BY <1>4 DEF EndOfEffects, engine
  <2> QED BY <1>4, <2>1 DEF EndOfEffects, InLoop
<1>5. CASE EmitEvent
  <2>1. engine' = engine /\ Decided' = Decided
    BY <1>5 DEF EmitEvent, engine, Decided
  <2>2. pc = "effects" /\ ~Decided
    BY <1>5, HeadKinds DEF EmitEvent, NextEffect
  <2> QED BY <1>5, <2>1, <2>2 DEF EmitEvent, InLoop
<1>6. CASE AsksModel \/ Sleeps \/ StartsTool
  <2>1. engine' = engine /\ Decided' = Decided
    BY <1>6 DEF AsksModel, Sleeps, StartsTool, engine, Decided
  <2> QED BY <1>6, <2>1 DEF AsksModel, Sleeps, StartsTool, InLoop
<1>7. CASE Cancel
  <2>1. engine' = engine /\ Decided' = Decided /\ (Fresh' <=> Fresh) /\ pc' = pc
    BY <1>7 DEF Cancel, engine, Decided, Fresh
  <2> QED BY <1>7, <2>1 DEF Cancel, InLoop
<1>8. ASSUME NEW es, Feeds(es), pc \in {"effects", "model", "retry", "tool"},
             engine'.phase # "Idle", Decided' => es = <<>>
      PROVE  HostPosition'
  BY <1>8 DEF Feeds, InLoop
<1>9. ASSUME NEW ms, Finishes(engine, outcome', ms) \/ Asks(engine, outcome', ms)
      PROVE  engine'.phase # "Idle" /\ ~Decided'
  BY <1>9, DecidedIs DEF Finishes, Asks, engine
<1>10. CASE StopsAsking \/ StopsTools
  BY <1>8, <1>9, <1>10 DEF StopsAsking, StopsTools
<1>11. CASE RejectsLeftover
  BY <1>8, <1>11, DecidedIs DEF RejectsLeftover, Leftover
<1>12. ASSUME NEW calls, Responds(calls) PROVE HostPosition'
  <2>1. engine'.phase # "Idle"
    BY <1>9, <1>12, DecidedIs DEF Responds, StartsBatch, engine
  <2> QED BY <1>8, <1>12, <2>1 DEF Responds
<1>13. CASE RequestFails \/ RetryStarts
  <2>1. engine'.phase # "Idle"
    BY <1>13 DEF RequestFails, RetryStarts, Retries, Fails, RequestsAgain, engine
  <2> QED BY <1>8, <1>13, <2>1 DEF RequestFails, RetryStarts
<1>14. ASSUME NEW error, ToolAnswers(error) PROVE HostPosition'
  <2>1. pc = "tool" /\ engine.phase = "WaitingForTools"
    BY <1>14 DEF ToolAnswers, InBatch
  <2>2. CASE Rejects(engine, outcome') /\ Feeds(<<>>)
    BY <1>8, <2>1, <2>2, DecidedIs
  <2>3. CASE Buffers(engine, outcome', [call |-> NextCall, error |-> error]) /\ Feeds(Tail(effects))
    <3>1. ~Decided' /\ engine'.phase # "Idle"
      BY <2>3, DecidedIs DEF Buffers, engine
    <3> QED BY <1>8, <2>1, <2>3, <3>1
  <2>4. CASE /\ Feeds(<<>>)
             /\ \E ms : Finishes(engine, outcome', ms) \/ Asks(engine, outcome', ms)
    BY <1>8, <1>9, <2>1, <2>4
  <2> QED BY <1>14, <2>2, <2>3, <2>4 DEF ToolAnswers
<1> QED
  BY <1>1, <1>2, <1>3, <1>4, <1>5, <1>6, <1>7, <1>10, <1>11, <1>12, <1>13, <1>14, StepCases

-----------------------------------------------------------------------------
(* What is left to run.                                                    *)

\* An outcome of the reducer fits the state it leaves.
LEMMA OutcomeFits ==
    ASSUME "TurnFinished" \notin Range(observed), UNCHANGED observed,
           \/ \E ms : Finishes(engine, outcome', ms)
           \/ \E e, ms : Asks(e, outcome', ms)
           \/ Retries(engine, outcome')
           \/ RequestsAgain(engine, outcome')
           \/ \E calls : StartsBatch(engine, outcome', calls)
    PROVE  Fits(outcome.effects)' /\ ~Decided'
<1>1. engine' = outcome'.state
  BY DEF engine
<1>2. CASE \E ms : Finishes(engine, outcome', ms)
  <2>1. /\ engine'.phase = "Finished" /\ EarlyBut(outcome'.effects, Emit("TurnFinished"))
        /\ outcome'.effects[1] = Emit("BusyFalse") /\ ~Decided'
    BY <1>1, <1>2, DecidedIs DEF Finishes
  <2>2. FitsFinished(outcome.effects)'
    BY <2>1 DEF FitsFinished
  <2> QED BY <2>1, <2>2 DEF Fits
<1>3. CASE Retries(engine, outcome')
  BY <1>1, <1>3, DecidedIs DEF Retries, Fits
<1>4. CASE RequestsAgain(engine, outcome') \/ \E e, ms : Asks(e, outcome', ms)
  <2>1. engine'.phase = "WaitingForModel" /\ FitsModel(outcome'.effects, outcome'.state) /\ ~Decided'
    BY <1>1, <1>4, DecidedIs DEF RequestsAgain, Asks
  <2> QED BY <1>1, <2>1 DEF Fits
<1>5. CASE \E calls : StartsBatch(engine, outcome', calls)
  <2>1. engine'.phase = "WaitingForTools" /\ FitsTools(outcome'.effects, outcome'.state) /\ ~Decided'
    BY <1>1, <1>5, DecidedIs DEF StartsBatch
  <2> QED BY <1>1, <2>1 DEF Fits
<1> QED BY <1>2, <1>3, <1>4, <1>5

\* After an input with nothing left to run, the new outcome is all there is.
LEMMA FedFits ==
    ASSUME HostPosition, LoopFits, InLoop, Feeds(<<>>),
           engine.phase # "Finished" \/ engine' = engine,
           Decided' \/ Fits(outcome.effects)'
    PROVE  LoopFits'
<1>1. result' = "none" /\ pc' = "effects" /\ advanced' /\ effects' = <<>> /\ observed' = observed
  BY DEF HostPosition, InLoop, Feeds
<1>2. NewOutcome'
  BY <1>1 DEF NewOutcome
<1>3. engine'.phase # "Finished" => "TurnFinished" \notin Range(observed')
  BY <1>1 DEF LoopFits
<1> QED BY <1>1, <1>2, <1>3 DEF LoopFits, Leftover

\* Only a finished turn has nothing left to run.
LEMMA NothingLeft ==
    ASSUME TypeOK, PhaseFields, engine.phase # "Idle", Fits(<<>>)
    PROVE  engine.phase = "Finished" /\ Surfaced
<1>1. engine.phase \in {"WaitingForModel", "WaitingForRetry", "WaitingForTools", "Finished"}
  BY EngineIs, EngineTyped DEF Phases
<1>2. ~EarlyBut(<<>>, RequestModel(engine.pending_model_request)) /\ ~EarlyBut(<<>>, Emit("TurnFinished"))
  BY DEF EarlyBut
<1>3. engine.phase # "WaitingForModel"
  BY <1>2 DEF Fits, FitsModel
<1>4. engine.phase # "WaitingForRetry"
  BY DEF Fits, FitsRetry
<1>5. engine.phase # "WaitingForTools"
  <2>1. engine.buffered \in Seq(Results) /\ engine.pending_tool_calls \in Seq(CallIds)
    BY EngineIs, EngineTyped
  <2>2. ~FitsTools(<<>>, engine) \/ engine.phase # "WaitingForTools"
    BY <2>1 DEF FitsTools, PhaseFields, FieldsFit
  <2> QED BY <2>2 DEF Fits
<1> QED BY <1>1, <1>2, <1>3, <1>4, <1>5 DEF Fits, FitsFinished

\* Events that come early are run first.
LEMMA EarlyTail ==
    ASSUME NEW es \in Seq(Effects), NEW last, EarlyBut(es, last), Len(es) > 1
    PROVE  EarlyBut(Tail(es), last) /\ Early(Head(es))
<1> DEFINE t == Tail(es)
           n == Len(es)
<1>1. /\ t \in Seq(Effects) /\ n \in Nat /\ Len(t) = n - 1 /\ Head(es) = es[1]
      /\ \A i \in 1 .. n - 1 : t[i] = es[i + 1]
  BY TailIs DEF EarlyBut
<1> HIDE DEF t
<1>2. t # <<>>
  BY <1>1
<1>3. t[Len(t)] = last
  BY <1>1 DEF EarlyBut
<1>4. ASSUME NEW i \in 1 .. Len(t) - 1 PROVE Early(t[i])
  <2>1. i \in 1 .. n - 1 /\ i + 1 \in 1 .. n - 1
    BY <1>1
  <2> QED BY <1>1, <2>1 DEF EarlyBut
<1>5. Early(es[1])
  BY <1>1 DEF EarlyBut
<1> QED BY <1>1, <1>2, <1>3, <1>4, <1>5 DEF EarlyBut, t

\* The events that were surfaced, with one more.
LEMMA ObservedIs ==
    ASSUME NEW s \in Seq(Events), NEW event \in Events
    PROVE  /\ Range(Append(s, event)) = Range(s) \cup {event}
           /\ event = "TurnFinished" /\ "TurnFinished" \notin Range(s) =>
                  LET t == Append(s, event)
                  IN  {i \in 1 .. Len(t) : t[i] = "TurnFinished"} = {Len(t)}
<1> DEFINE t == Append(s, event)
           n == Len(s)
<1>1. /\ n \in Nat /\ Len(t) = n + 1 /\ t[n + 1] = event
      /\ DOMAIN t = 1 .. n + 1 /\ DOMAIN s = 1 .. n /\ \A i \in 1 .. n : t[i] = s[i]
  OBVIOUS
<1> HIDE DEF t, n
<1>2. \A i \in 1 .. n + 1 : i \in 1 .. n \/ i = n + 1
  BY <1>1
<1>3. \A i \in 1 .. n : i \in 1 .. n + 1
  BY <1>1
<1>4. n + 1 \in 1 .. n + 1
  BY <1>1
<1>5. Range(t) = Range(s) \cup {event}
  BY <1>1, <1>2, <1>3, <1>4 DEF Range
<1>6. ASSUME event = "TurnFinished", "TurnFinished" \notin Range(s)
      PROVE  {i \in 1 .. Len(t) : t[i] = "TurnFinished"} = {Len(t)}
  <2>1. \A i \in 1 .. n : t[i] # "TurnFinished"
    BY <1>1, <1>6 DEF Range
  <2> QED BY <1>1, <1>2, <1>4, <1>6, <2>1
<1> QED BY <1>5, <1>6 DEF t

\* An event is surfaced and the rest still fits.
LEMMA EmitFits ==
    ASSUME TypeOK, HostPosition, LoopFits, EmitEvent
    PROVE  LoopFits'
<1> DEFINE event == Head(effects).event
<1>1. /\ pc = "effects" /\ effects # <<>> /\ Head(effects).kind = "EmitEvent"
      /\ effects \in Seq(Effects) /\ observed \in Seq(Events)
  BY DEF EmitEvent, NextEffect, TypeOK
<1>2. /\ engine.phase \in {"WaitingForModel", "Finished"} /\ ~advanced /\ Fits(effects) /\ ~Decided
      /\ engine.phase = "WaitingForModel" => Len(effects) > 1
  BY <1>1, HeadKinds
<1>3. /\ engine' = engine /\ ~Decided' /\ pc' = "effects" /\ ~advanced' /\ effects' = Tail(effects)
      /\ observed' = Append(observed, event) /\ result' = "none" /\ ~NewOutcome' /\ InLoop'
  BY <1>1, <1>2 DEF EmitEvent, engine, Decided, NewOutcome, InLoop, HostPosition
<1>4. Head(effects) \in Effects
  BY <1>1
<1>5. event \in Events
  BY <1>1, <1>4 DEF Effects
<1>6. /\ Range(observed') = Range(observed) \cup {event}
      /\ event = "TurnFinished" /\ "TurnFinished" \notin Range(observed) =>
             {i \in 1 .. Len(observed') : observed'[i] = "TurnFinished"} = {Len(observed')}
  BY <1>1, <1>3, <1>5, ObservedIs
<1> HIDE DEF event
<1>7. CASE engine.phase = "WaitingForModel"
  <2>1. EarlyBut(effects, RequestModel(engine.pending_model_request)) /\ Len(effects) > 1
    BY <1>2, <1>7 DEF Fits, FitsModel
  <2>2. EarlyBut(Tail(effects), RequestModel(engine.pending_model_request)) /\ Early(Head(effects))
    BY <1>1, <2>1, EarlyTail
  <2>3. Fits(effects)'
    BY <1>3, <1>7, <2>2 DEF Fits, FitsModel
  <2>4. "TurnFinished" \notin Range(observed')
    <3>1. event # "TurnFinished" /\ "TurnFinished" \notin Range(observed)
      BY <1>7, <2>2 DEF Early, event, LoopFits
    <3> QED BY <1>6, <3>1
  <2> QED BY <1>3, <2>3, <2>4 DEF LoopFits
<1>8. CASE engine.phase = "Finished"
  <2>1. /\ EarlyBut(effects, Emit("TurnFinished"))
        /\ effects[1] = Emit("BusyFalse") \/ "BusyFalse" \in Range(observed)
        /\ "TurnFinished" \notin Range(observed)
    BY <1>1, <1>2, <1>8 DEF Fits, FitsFinished
  <2>2. /\ Emit("BusyFalse").event = "BusyFalse" /\ Emit("TurnFinished").event = "TurnFinished"
        /\ Head(effects) = effects[1] /\ Len(effects) \in Nat \ {0}
    BY <1>1, Constructors DEF Events
  <2>3. "BusyFalse" \in Range(observed')
    BY <1>6, <2>1, <2>2 DEF event
  <2>4. FitsFinished(effects)'
    <3>1. CASE Len(effects) = 1
      <4>1. event = "TurnFinished"
        BY <2>1, <2>2, <3>1 DEF EarlyBut, event
      <4>2. Surfaced'
        BY <1>6, <2>1, <2>3, <4>1 DEF Surfaced
      <4>3. effects' = <<>>
        BY <1>1, <1>3, <3>1, TailIs
      <4> QED BY <4>2, <4>3 DEF FitsFinished
    <3>2. CASE Len(effects) # 1
      <4>1. Len(effects) > 1
        BY <2>2, <3>2
      <4>2. EarlyBut(Tail(effects), Emit("TurnFinished")) /\ Early(Head(effects))
        BY <1>1, <2>1, <4>1, EarlyTail
      <4>3. "TurnFinished" \notin Range(observed')
        BY <1>6, <2>1, <4>2 DEF Early, event
      <4> QED BY <1>3, <2>3, <4>2, <4>3 DEF FitsFinished
    <3> QED BY <3>1, <3>2
  <2>5. Fits(effects)'
    BY <1>3, <1>8, <2>4 DEF Fits
  <2> QED BY <1>3, <1>8, <2>5 DEF LoopFits
<1> QED BY <1>2, <1>7, <1>8

\* A result that is buffered leaves the rest of the batch.
LEMMA RestFits ==
    ASSUME TypeOK, PhaseFields, InBatch, NEW res \in Results, Buffers(engine, outcome', res),
           Len(engine.buffered) + 1 < Len(engine.pending_tool_calls)
    PROVE  Tail(effects) # <<>> /\ FitsTools(Tail(effects), engine')
<1> DEFINE b == Len(engine.buffered)
           n == Len(effects)
           t == Tail(effects)
           calls == engine.pending_tool_calls
           nb == Append(engine.buffered, res)
<1>1. b \in Nat /\ Len(calls) \in Nat /\ n \in Nat \ {0} /\ effects \in Seq(Effects) /\ effects # <<>>
  BY NextCallIs DEF InBatch
<1>2. t \in Seq(Effects) /\ Len(t) = n - 1 /\ \A i \in 1 .. n - 1 : t[i] = effects[i + 1]
  BY <1>1, TailIs
<1>3. engine.buffered \in Seq(Results)
  BY EngineIs, EngineTyped
<1>4. Len(nb) = b + 1
  BY <1>3
<1>5. engine'.buffered = nb /\ engine'.pending_tool_calls = calls
  BY DEF Buffers, engine
<1>6. b + n = Len(calls) /\ \A i \in 1 .. n : effects[i] = ExecuteTool(calls[b + i])
  BY DEF InBatch, FitsTools
<1> HIDE DEF b, n, t, calls, nb
<1>7. t # <<>>
  <2>1. b + 1 < Len(calls)
    BY DEF b, calls
  <2> QED BY <1>1, <1>2, <1>6, <2>1
<1>8. Len(nb) + Len(t) = Len(calls)
  <2>1. \A x \in Nat, y \in Nat \ {0}, z \in Nat : x + y = z => (x + 1) + (y - 1) = z
    OBVIOUS
  <2>2. (b + 1) + (n - 1) = Len(calls)
    <3>1. b + n = Len(calls) /\ b \in Nat /\ n \in Nat \ {0} /\ Len(calls) \in Nat
      BY <1>1, <1>6
    <3> QED BY <2>1, <3>1, Zenon
  <2> QED BY <1>2, <1>4, <2>2, Zenon
<1>9. ASSUME NEW i \in 1 .. Len(t) PROVE t[i] = ExecuteTool(calls[Len(nb) + i])
  <2>1. i \in 1 .. n - 1 /\ i + 1 \in 1 .. n /\ b + (i + 1) = Len(nb) + i
    BY <1>1, <1>2, <1>4
  <2> QED BY <1>2, <1>6, <2>1
<1> QED BY <1>5, <1>7, <1>8, <1>9 DEF FitsTools, t

\* Every step leaves what fits the engine.
LEMMA LoopStep ==
    ASSUME TypeOK, PhaseFields, HostPosition, LoopFits, Next
    PROVE  LoopFits'
<1>1. CASE SubmitStep
  <2>1. observed' = <<>> /\ pc = "submit" /\ result = "none" /\ "TurnFinished" \notin Range(observed')
    BY <1>1 DEF SubmitStep, HostPosition, Fresh, Range
  <2>2. CASE pc' = "returned" /\ result' = "Error"
    BY <2>1, <2>2 DEF LoopFits, InLoop
  <2>3. CASE Asks(NewEngine, outcome', <<User>>) /\ pc' = "head" /\ UNCHANGED result
    <3>1. Fits(outcome.effects)' /\ observed' = observed
      BY <1>1, <2>1, <2>3, OutcomeFits DEF SubmitStep
    <3>2. NewOutcome'
      BY <2>3 DEF NewOutcome
    <3> QED BY <2>1, <2>3, <3>1, <3>2 DEF LoopFits, InLoop
  <2> QED BY <1>1, <2>2, <2>3 DEF SubmitStep
<1>2. CASE StopTurn \/ RunEffects \/ EndOfEffects
  <2>1. /\ engine' = engine /\ Decided' = Decided /\ observed' = observed /\ result' = "none"
        /\ outcome' = outcome /\ InLoop /\ engine.phase # "Idle" /\ (Surfaced' <=> Surfaced)
    BY <1>2 DEF StopTurn, RunEffects, EndOfEffects, engine, Decided, HostPosition, InLoop, Surfaced
  <2>3. CASE StopTurn
    <3>1. pc' = "report" /\ (Decided \/ outcome.effects = <<>>) /\ NewOutcome
      BY <2>3 DEF StopTurn, NewOutcome
    <3>2. ~Decided => Fits(<<>>)
      BY <2>1, <3>1 DEF LoopFits
    <3>3. ~Decided => engine.phase = "Finished" /\ Surfaced
      BY <2>1, <3>2, NothingLeft
    <3> QED BY <2>1, <3>1, <3>3 DEF LoopFits, InLoop
  <2>4. CASE RunEffects
    <3>1. NewOutcome /\ ~NewOutcome' /\ ~Decided /\ pc' = "effects" /\ ~advanced' /\ effects' = outcome.effects
      BY <2>4 DEF RunEffects, NewOutcome
    <3>2. Fits(outcome.effects)
      BY <2>1, <3>1 DEF LoopFits
    <3>3. Fits(effects)'
      BY <2>1, <3>1, <3>2 DEF Fits, FitsFinished
    <3> QED BY <2>1, <3>1, <3>3 DEF LoopFits
  <2>5. CASE EndOfEffects /\ advanced
    <3>1. NewOutcome /\ NewOutcome' /\ pc' = "head"
      BY <2>5 DEF EndOfEffects, NewOutcome
    <3>2. ~Decided => Fits(outcome.effects)
      BY <2>1, <3>1 DEF LoopFits
    <3>3. ~Decided => Fits(outcome.effects)'
      BY <2>1, <3>2 DEF Fits, FitsFinished
    <3> QED BY <2>1, <3>1, <3>3 DEF LoopFits
  <2>6. CASE EndOfEffects /\ ~advanced
    <3>1. pc = "effects" /\ pc' = "report" /\ effects = <<>> /\ ~NewOutcome /\ ~Leftover /\ ~Decided
      BY <2>6 DEF EndOfEffects, NewOutcome, Leftover, HostPosition
    <3>2. Fits(<<>>)
      BY <2>1, <3>1 DEF LoopFits
    <3>3. engine.phase = "Finished" /\ Surfaced
      BY <2>1, <3>2, NothingLeft
    <3> QED BY <2>1, <3>1, <3>3 DEF LoopFits, InLoop
  <2> QED BY <1>2, <2>3, <2>4, <2>5, <2>6
<1>3. CASE StepLimitExceeded
  <2>1. engine' = engine /\ Decided' /\ pc' = "report" /\ observed' = observed /\ result' = "none"
    <3>1. outcome \in EngineOutcome /\ outcome' = [outcome EXCEPT !.effects = <<>>, !.failure = TRUE]
      BY <1>3 DEF StepLimitExceeded, TypeOK
    <3>2. outcome'.state = outcome.state /\ outcome'.failure
      BY <3>1 DEF EngineOutcome
    <3> QED BY <1>3, <3>2 DEF StepLimitExceeded, engine, Decided, HostPosition
  <2> QED BY <2>1 DEF LoopFits, InLoop
<1>4. CASE Return
  <2>1. /\ engine' = engine /\ Decided' = Decided /\ pc = "report" /\ pc' = "returned"
        /\ observed' = observed /\ (Surfaced' <=> Surfaced) /\ cancelled' = cancelled
        /\ result' = "Ok" => ~cancelled /\ ~Decided
    BY <1>4 DEF Return, engine, Decided, Surfaced
  <2> QED BY <2>1 DEF LoopFits, InLoop
<1>5. CASE EmitEvent
  BY <1>5, EmitFits
<1>6. CASE Cancel
  <2>1. /\ engine' = engine /\ Decided' = Decided /\ pc' = pc /\ observed' = observed
        /\ effects' = effects /\ advanced' = advanced /\ outcome' = outcome /\ ~Leftover
        /\ (Surfaced' <=> Surfaced) /\ (NewOutcome' <=> NewOutcome) /\ (InLoop' <=> InLoop)
        /\ result' = "none"
    BY <1>6 DEF Cancel, engine, Decided, Surfaced, NewOutcome, InLoop, Leftover, HostPosition
  <2>2. Fits(effects) => Fits(effects)'
    BY <2>1 DEF Fits, FitsFinished
  <2>3. Fits(outcome.effects) => Fits(outcome.effects)'
    BY <2>1 DEF Fits, FitsFinished
  <2> QED BY <2>1, <2>2, <2>3 DEF LoopFits
<1>7. CASE AsksModel \/ Sleeps \/ StartsTool
  <2>1. /\ engine' = engine /\ ~Decided' /\ ~Decided /\ observed' = observed
        /\ effects' = effects /\ advanced' = advanced /\ pc = "effects" /\ pc' \in {"model", "retry", "tool"}
        /\ result' = "none" /\ effects # <<>>
    BY <1>7 DEF AsksModel, Sleeps, StartsTool, engine, Decided, HostPosition
  <2>2. ~NewOutcome /\ ~NewOutcome' /\ InLoop /\ ~Leftover
    BY <1>7, <2>1 DEF NewOutcome, InLoop, Leftover, AsksModel, Sleeps, StartsTool
  <2>3. Fits(effects)
    BY <2>1, <2>2 DEF LoopFits
  <2>4. Fits(effects)'
    BY <2>1, <2>3 DEF Fits, FitsFinished
  <2> QED BY <1>7, <2>1, <2>2, <2>4 DEF LoopFits, AsksModel, Sleeps, StartsTool
<1>8. ASSUME pc \in {"effects", "model", "retry", "tool"}, Feeds(<<>>), engine.phase # "Finished",
             \/ Rejects(engine, outcome') \/ Fails(engine, outcome')
             \/ \E ms : Finishes(engine, outcome', ms)
             \/ \E ms : Asks(engine, outcome', ms)
             \/ Retries(engine, outcome') \/ RequestsAgain(engine, outcome')
             \/ \E calls : StartsBatch(engine, outcome', calls)
      PROVE  LoopFits'
  <2>1. InLoop /\ "TurnFinished" \notin Range(observed) /\ UNCHANGED observed
    BY <1>8 DEF InLoop, LoopFits, Feeds
  <2>2. Decided' \/ Fits(outcome.effects)'
    BY <1>8, <2>1, OutcomeFits, DecidedIs
  <2> QED BY <1>8, <2>1, <2>2, FedFits
<1>9. CASE StopsAsking
  BY <1>8, <1>9 DEF StopsAsking, AwaitsModel
<1>10. CASE RequestFails \/ RetryStarts
  BY <1>8, <1>10 DEF RequestFails, RetryStarts
<1>11. ASSUME NEW calls, Responds(calls) PROVE LoopFits'
  BY <1>8, <1>11 DEF Responds
<1>12. CASE RejectsLeftover
  <2>1. InLoop /\ Decided' /\ engine' = engine /\ Feeds(<<>>)
    BY <1>12, DecidedIs DEF RejectsLeftover, Leftover, InLoop
  <2> QED BY <2>1, FedFits
<1>13. CASE StopsTools
  <2>1. /\ pc \in {"effects", "tool"} /\ engine.phase = "WaitingForTools" /\ effects # <<>>
        /\ cancelled /\ Feeds(Tail(effects)) /\ Finishes(engine, outcome', engine.messages)
        /\ FitsTools(effects, engine) /\ effects \in Seq(Effects)
    BY <1>13 DEF StopsTools, InBatch, TypeOK
  <2>2. CASE Tail(effects) = <<>>
    BY <1>8, <2>1, <2>2
  <2>3. CASE Tail(effects) # <<>>
    <3>1. /\ pc' = "effects" /\ advanced' = TRUE /\ cancelled' /\ engine'.phase = "Finished"
          /\ effects' = Tail(effects) /\ result' = "none" /\ ~NewOutcome'
      BY <2>1, <2>3 DEF Feeds, Finishes, engine, HostPosition, NewOutcome
    <3>2. ASSUME NEW i \in 1 .. Len(Tail(effects)) PROVE Tail(effects)[i].kind = "ExecuteTool"
      <4>1. /\ Len(effects) \in Nat \ {0} /\ Len(Tail(effects)) = Len(effects) - 1
            /\ \A j \in 1 .. Len(effects) - 1 : Tail(effects)[j] = effects[j + 1]
        BY <2>1, TailIs
      <4>2. i \in 1 .. Len(effects) - 1 /\ i + 1 \in 1 .. Len(effects)
        BY <4>1
      <4>3. effects[i + 1] = ExecuteTool(engine.pending_tool_calls[Len(engine.buffered) + (i + 1)])
        BY <2>1, <4>2 DEF FitsTools
      <4> QED BY <4>1, <4>2, <4>3 DEF ExecuteTool
    <3>3. Leftover'
      BY <2>3, <3>1, <3>2 DEF Leftover
    <3> QED BY <3>1, <3>3 DEF LoopFits
  <2> QED BY <2>2, <2>3
<1>14. ASSUME NEW error \in BOOLEAN, ToolAnswers(error) PROVE LoopFits'
  <2> DEFINE res == [call |-> NextCall, error |-> error]
  <2>1. pc = "tool" /\ InBatch /\ engine.phase = "WaitingForTools"
    BY <1>14 DEF ToolAnswers, InBatch
  <2>2. CASE /\ Len(engine.buffered) + 1 < Len(engine.pending_tool_calls)
             /\ Buffers(engine, outcome', res) /\ Feeds(Tail(effects))
    <3>1. res \in Results
      BY <2>1, NextCallIs DEF Results
    <3> HIDE DEF res
    <3>2. Tail(effects) # <<>> /\ FitsTools(Tail(effects), engine')
      BY <2>1, <2>2, <3>1, RestFits
    <3>3. /\ engine'.phase = "WaitingForTools" /\ pc' = "effects" /\ effects' = Tail(effects)
          /\ result' = "none" /\ observed' = observed /\ ~NewOutcome'
      BY <2>1, <2>2, <3>2 DEF Buffers, engine, Feeds, HostPosition, NewOutcome
    <3>4. Fits(effects)'
      BY <3>2, <3>3 DEF Fits
    <3> QED BY <2>1, <3>3, <3>4 DEF LoopFits
  <2>3. CASE /\ Feeds(<<>>)
             /\ \/ Rejects(engine, outcome')
                \/ \E ms : Asks(engine, outcome', ms)
                \/ \E ms : Finishes(engine, outcome', ms)
    BY <1>8, <2>1, <2>3
  <2> QED BY <1>14, <2>2, <2>3 DEF ToolAnswers
<1> QED
  BY <1>1, <1>2, <1>3, <1>4, <1>5, <1>6, <1>7, <1>9, <1>10, <1>11, <1>12, <1>13, <1>14, StepCases
-----------------------------------------------------------------------------
(* The conversation.                                                       *)

\* The last result of a batch answers all its calls.
LEMMA BatchAnswered ==
    ASSUME TypeOK, PhaseFields, Conversation, InBatch, NEW error \in BOOLEAN,
           Len(engine.buffered) + 1 = Len(engine.pending_tool_calls)
    PROVE  LET res == [call |-> NextCall, error |-> error]
           IN  Answered(engine.messages \o Answers(Append(engine.buffered, res)))
<1> DEFINE res == [call |-> NextCall, error |-> error]
           b == engine.buffered
           c == Append(b, res)
           calls == engine.pending_tool_calls
<1>1. NextCall \in CallIds
  BY NextCallIs
<1>2. res \in Results /\ res.call = NextCall
  BY <1>1 DEF Results
<1>3. /\ b \in Seq(Results) /\ calls \in Seq(CallIds) /\ engine.messages \in Seq(Messages)
      /\ Len(b) + 1 = Len(calls) /\ NextCall = calls[Len(b) + 1]
  BY EngineIs, EngineTyped DEF NextCall
<1>4. \A i \in 1 .. Len(b) : b[i].call = calls[i]
  BY DEF PhaseFields, FieldsFit, InBatch
<1>5. OpenBatch(engine.messages, calls)
  BY DEF Conversation, InBatch
<1> HIDE DEF res, b, calls
<1>6. /\ c \in Seq(Results) /\ Len(c) = Len(b) + 1 /\ c[Len(b) + 1] = res /\ Len(b) \in Nat
      /\ \A i \in 1 .. Len(b) : c[i] = b[i]
  BY <1>2, <1>3
<1> HIDE DEF c
<1>7. ASSUME NEW i \in 1 .. Len(calls) PROVE c[i].call = calls[i]
  <2>1. i \in 1 .. Len(b) \/ i = Len(b) + 1
    BY <1>3, <1>6
  <2>2. CASE i \in 1 .. Len(b)
    BY <1>4, <1>6, <2>2
  <2>3. CASE i = Len(b) + 1
    BY <1>2, <1>3, <1>6, <2>3
  <2> QED BY <2>1, <2>2, <2>3
<1>8. Len(c) = Len(calls)
  BY <1>3, <1>6
<1>9. Answered(engine.messages \o Answers(c))
  BY <1>3, <1>5, <1>6, <1>7, <1>8, BatchCloses
<1> QED BY <1>9 DEF c, b, res

\* Every step keeps the conversation answered.
LEMMA ConversationStep ==
    ASSUME TypeOK, PhaseFields, HostPosition, LoopFits, Conversation, Next
    PROVE  Conversation'
<1> USE DEF AwaitsModel
<1>1. engine' = outcome'.state
  BY DEF engine
<1>2. CASE UNCHANGED outcome \/ StepLimitExceeded
  <2>1. engine' = engine
    <3>1. CASE StepLimitExceeded
      <4>1. outcome \in EngineOutcome /\ outcome' = [outcome EXCEPT !.effects = <<>>, !.failure = TRUE]
        BY <3>1 DEF StepLimitExceeded, TypeOK
      <4> QED BY <4>1 DEF EngineOutcome, engine
    <3> QED BY <1>2, <3>1 DEF engine
  <2> QED BY <2>1 DEF Conversation
<1>3. ASSUME \/ Rejects(engine, outcome')
             \/ AwaitsModel /\ (Retries(engine, outcome') \/ RequestsAgain(engine, outcome'))
             \/ /\ engine.phase = "WaitingForTools"
                /\ \E res : Buffers(engine, outcome', res)
      PROVE  Conversation'
  BY <1>1, <1>3 DEF Conversation, Rejects, Retries, RequestsAgain, Buffers
<1>4. ASSUME Fails(engine, outcome') \/ \E ms : Finishes(engine, outcome', ms)
      PROVE  Conversation'
  BY <1>1, <1>4 DEF Conversation, Fails, Finishes
<1>5. ASSUME NEW e, NEW ms, Asks(e, outcome', ms), Answered(ms) PROVE Conversation'
  BY <1>1, <1>5 DEF Conversation, Asks
<1>6. CASE SubmitStep
  <2>1. Answered(<<User>>)
    <3>1. Len(<<User>>) = 1 /\ <<User>>[1] = User
      OBVIOUS
    <3>2. User.role = "User"
      BY DEF User
    <3> QED BY <3>1, <3>2 DEF Answered, AnsweredBefore
  <2>2. CASE Rejects(NewEngine, outcome')
    <3>1. engine'.phase = "Idle"
      BY <1>1, <2>2, NewEngineIs DEF Rejects
    <3> QED BY <3>1 DEF Conversation
  <2> QED BY <1>5, <1>6, <2>1, <2>2 DEF SubmitStep
<1>7. CASE StopsAsking \/ StopsTools
  BY <1>4, <1>7 DEF StopsAsking, StopsTools
<1>8. CASE RejectsLeftover
  BY <1>3, <1>8 DEF RejectsLeftover
<1>9. CASE RequestFails \/ RetryStarts
  BY <1>3, <1>4, <1>9 DEF RequestFails, RetryStarts
<1>10. ASSUME NEW calls \in Seq(CallIds), Responds(calls) PROVE Conversation'
  <2>1. CASE StartsBatch(engine, outcome', calls)
    <3>1. Answered(engine.messages) /\ engine.messages \in Seq(Messages)
      BY <1>10, EngineIs, EngineTyped DEF Conversation, Responds
    <3>2. OpenBatch(Append(engine.messages, Assistant(calls)), calls)
      BY <3>1, BatchOpens
    <3> QED BY <1>1, <2>1, <3>2 DEF Conversation, StartsBatch
  <2> QED BY <1>3, <1>4, <1>10, <2>1 DEF Responds
<1>11. ASSUME NEW error \in BOOLEAN, ToolAnswers(error) PROVE Conversation'
  <2> DEFINE res == [call |-> NextCall, error |-> error]
             ms == engine.messages \o Answers(Append(engine.buffered, res))
  <2>1. InBatch /\ engine.phase = "WaitingForTools"
    BY <1>11 DEF ToolAnswers, InBatch
  <2>2. Len(engine.buffered) + 1 = Len(engine.pending_tool_calls) => Answered(ms)
    BY <2>1, BatchAnswered
  <2>3. \/ Rejects(engine, outcome') \/ Buffers(engine, outcome', res)
        \/ /\ Len(engine.buffered) + 1 = Len(engine.pending_tool_calls)
           /\ Asks(engine, outcome', ms) \/ Finishes(engine, outcome', ms)
    BY <1>11 DEF ToolAnswers
  <2> HIDE DEF res, ms
  <2> QED BY <1>3, <1>4, <1>5, <2>1, <2>2, <2>3
<1> QED
  BY <1>2, <1>6, <1>7, <1>8, <1>9, <1>10, <1>11, StepCases
  DEF StopTurn, RunEffects, EndOfEffects, Return, EmitEvent, Cancel, AsksModel, Sleeps, StartsTool

-----------------------------------------------------------------------------
(* The calls of the model.                                                 *)

\* How often an id occurs.
Occurrences(s, id) == Cardinality({i \in 1 .. Len(s) : s[i] = id})

\* One more call is one more occurrence of its id.
LEMMA OccurrencesIs ==
    ASSUME NEW s \in Seq(Nat), NEW id
    PROVE  /\ Occurrences(s, id) \in Nat
           /\ (\A i \in 1 .. Len(s) : s[i] # id) => Occurrences(s, id) = 0
           /\ \A x \in Nat : Occurrences(Append(s, x), id) =
                  IF x = id THEN Occurrences(s, id) + 1 ELSE Occurrences(s, id)
<1> DEFINE n == Len(s)
           A == {i \in 1 .. n : s[i] = id}
<1>1. n \in Nat /\ IsFiniteSet(1 .. n)
  BY FS_Interval
<1>2. A \subseteq 1 .. n
  OBVIOUS
<1>3. IsFiniteSet(A)
  BY <1>1, <1>2, FS_Subset
<1>4. Cardinality(A) \in Nat
  BY <1>3, FS_CardinalityType
<1>5. ASSUME \A i \in 1 .. n : s[i] # id PROVE Cardinality(A) = 0
  <2>1. A = {}
    BY <1>5
  <2> QED BY <2>1, FS_EmptySet
<1>6. ASSUME NEW x \in Nat
      PROVE  Occurrences(Append(s, x), id) = IF x = id THEN Cardinality(A) + 1 ELSE Cardinality(A)
  <2> DEFINE t == Append(s, x)
             B == {i \in 1 .. Len(t) : t[i] = id}
  <2>1. Len(t) = n + 1 /\ t[n + 1] = x /\ \A i \in 1 .. n : t[i] = s[i]
    OBVIOUS
  <2> HIDE DEF t
  <2>2. \A i \in 1 .. n + 1 : i \in 1 .. n \/ i = n + 1
    BY <1>1
  <2>3. n + 1 \in 1 .. n + 1 /\ n + 1 \notin 1 .. n /\ \A i \in 1 .. n : i \in 1 .. n + 1
    BY <1>1
  <2>4. CASE x = id
    <3>1. B = A \cup {n + 1}
      BY <2>1, <2>2, <2>3, <2>4
    <3>2. n + 1 \notin A
      BY <2>3
    <3> HIDE DEF A, B
    <3>3. Cardinality(B) = Cardinality(A) + 1
      BY <1>3, <3>1, <3>2, FS_AddElement
    <3> QED BY <2>4, <3>3 DEF Occurrences, B, t
  <2>5. CASE x # id
    <3>1. B = A
      BY <2>1, <2>2, <2>3, <2>5
    <3> QED BY <2>5, <3>1 DEF Occurrences, B, t
  <2> QED BY <2>4, <2>5
<1> QED BY <1>4, <1>5, <1>6 DEF Occurrences

\* Every step keeps the calls of the model within the retry policy.
LEMMA CallsStep ==
    ASSUME TypeOK, PhaseFields, HostPosition, LoopFits, Calls, Next
    PROVE  Calls'
<1> DEFINE e == engine
           m == e.slots_used
           r == e.retry_attempts
<1>1. engine' = outcome'.state
  BY DEF engine
<1>2. /\ e \in EngineState /\ m \in Nat /\ r \in Nat /\ r <= RetryCount /\ RetryCount \in Nat
      /\ asked \in Seq(Nat) /\ Len(asked) \in Nat
  <2>1. e \in EngineState /\ asked \in Seq(Nat)
    BY EngineIs
  <2> QED BY <2>1, EngineTyped, EngineAssumption
<1>3. \A id : Attempts(id) = Occurrences(asked, id) /\ Attempts(id)' = Occurrences(asked', id)
  BY DEF Attempts, Occurrences
<1>4. \A id : Attempts(id) \in Nat
  BY <1>2, <1>3, OccurrencesIs
<1>5. /\ \A i \in 1 .. Len(asked) : asked[i] \in 1 .. m
      /\ \A id \in 1 .. m : Attempts(id) <= RetryCount + 1
      /\ AwaitsModel /\ ~Decided => Attempts(m) <= r + (IF pc = "model" THEN 1 ELSE 0)
  BY DEF Calls
<1>6. ASSUME UNCHANGED asked, engine'.slots_used = m,
             AwaitsModel' /\ ~Decided' =>
                 Attempts(m) <= engine'.retry_attempts + (IF pc' = "model" THEN 1 ELSE 0)
      PROVE  Calls'
  <2>1. \A id : Attempts(id)' = Attempts(id)
    BY <1>3, <1>6
  <2> HIDE DEF m, r
  <2> QED BY <1>5, <1>6, <2>1 DEF Calls
<1>7. ASSUME UNCHANGED asked, engine'.slots_used = m + 1, engine'.retry_attempts = 0
      PROVE  Calls'
  <2>1. \A id : Attempts(id)' = Attempts(id)
    BY <1>3, <1>7
  <2>2. \A i \in 1 .. m : i \in 1 .. m + 1 /\ i # m + 1
    BY <1>2
  <2>3. Attempts(m + 1) = 0
    <3>1. \A i \in 1 .. Len(asked) : asked[i] # m + 1
      BY <1>5, <2>2
    <3> QED BY <1>2, <1>3, <3>1, OccurrencesIs
  <2> HIDE DEF m, r
  <2>4. \A id \in 1 .. m + 1 : Attempts(id) <= RetryCount + 1
    <3>1. \A i \in 1 .. m + 1 : i \in 1 .. m \/ i = m + 1
      BY <1>2
    <3> QED BY <1>2, <1>5, <2>3, <3>1
  <2>5. \A i \in 1 .. Len(asked) : asked[i] \in 1 .. m + 1
    BY <1>5, <2>2
  <2>6. Attempts(m + 1) <= engine'.retry_attempts + (IF pc' = "model" THEN 1 ELSE 0)
    BY <1>7, <2>3
  <2> QED BY <1>7, <2>1, <2>4, <2>5, <2>6 DEF Calls
<1>8. CASE StopTurn \/ RunEffects \/ EndOfEffects \/ Return \/ EmitEvent \/ Cancel \/ Sleeps \/ StartsTool
  <2>1. UNCHANGED asked /\ engine' = engine /\ Decided' = Decided
    BY <1>8 DEF StopTurn, RunEffects, EndOfEffects, Return, EmitEvent, Cancel, Sleeps, StartsTool,
       engine, Decided
  <2>2. (pc # "model" /\ pc' # "model") \/ pc' = pc
    BY <1>8 DEF StopTurn, RunEffects, EndOfEffects, Return, EmitEvent, NextEffect, Cancel, Sleeps, StartsTool
  <2>3. AwaitsModel' <=> AwaitsModel
    BY <2>1 DEF AwaitsModel
  <2>4. AwaitsModel' /\ ~Decided' =>
            Attempts(m) <= engine'.retry_attempts + (IF pc' = "model" THEN 1 ELSE 0)
    BY <1>5, <2>1, <2>2, <2>3
  <2> QED BY <1>6, <2>1, <2>4
<1>9. CASE StepLimitExceeded
  <2>1. engine' = engine /\ Decided' /\ UNCHANGED asked
    <3>1. outcome \in EngineOutcome /\ outcome' = [outcome EXCEPT !.effects = <<>>, !.failure = TRUE]
      BY <1>9 DEF StepLimitExceeded, TypeOK
    <3>2. outcome'.state = outcome.state /\ outcome'.failure
      BY <3>1 DEF EngineOutcome
    <3> QED BY <1>9, <3>2 DEF StepLimitExceeded, engine, Decided
  <2> QED BY <1>6, <2>1
<1>10. CASE SubmitStep
  <2>1. asked' = <<>> /\ UNCHANGED asked /\ engine = NewEngine
    <3>1. outcome = NoOutcome /\ asked = <<>>
      BY <1>10 DEF SubmitStep, HostPosition, Fresh
    <3> QED BY <1>10, <3>1 DEF SubmitStep, NoOutcome, Accepted, engine
  <2>2. CASE Rejects(NewEngine, outcome')
    <3>1. engine' = engine /\ Decided'
      BY <2>1, <2>2, DecidedIs
    <3> QED BY <1>6, <2>1, <3>1
  <2>3. CASE Asks(NewEngine, outcome', <<User>>)
    BY <1>1, <1>7, <2>1, <2>3 DEF Asks
  <2> QED BY <1>10, <2>2, <2>3 DEF SubmitStep
<1>11. ASSUME UNCHANGED asked,
              \/ Rejects(engine, outcome') \/ Fails(engine, outcome')
              \/ \E ms : Finishes(engine, outcome', ms)
              \/ \E res : Buffers(engine, outcome', res)
              \/ \E calls : StartsBatch(engine, outcome', calls)
       PROVE  Calls'
  <2>1. engine'.slots_used = m /\ (Decided' \/ ~AwaitsModel')
    BY <1>1, <1>11, DecidedIs
    DEF AwaitsModel, Rejects, Fails, Finishes, Buffers, StartsBatch, SameCounters
  <2> QED BY <1>6, <1>11, <2>1
<1>12. CASE StopsAsking \/ StopsTools \/ RejectsLeftover
  BY <1>11, <1>12 DEF StopsAsking, StopsTools, RejectsLeftover
<1>13. ASSUME NEW calls, Responds(calls) PROVE Calls'
  BY <1>11, <1>13 DEF Responds
<1>14. CASE RequestFails
  <2>1. CASE Retries(engine, outcome')
    <3>1. engine'.slots_used = m /\ engine'.retry_attempts = r + 1 /\ UNCHANGED asked
      BY <1>1, <1>14, <2>1 DEF Retries, SameCounters, RequestFails
    <3>2. Attempts(m) <= r + 1 /\ pc' = "effects"
      BY <1>5, <1>14 DEF RequestFails, AwaitsModel, Feeds
    <3>3. r + 1 + 0 = r + 1 /\ r + 1 \in Nat
      BY <1>2
    <3> QED BY <1>6, <3>1, <3>2, <3>3
  <2> QED BY <1>11, <1>14, <2>1 DEF RequestFails
<1>15. CASE RetryStarts
  <2>1. engine'.slots_used = m /\ engine'.retry_attempts = r /\ UNCHANGED asked
    BY <1>1, <1>15 DEF RetryStarts, RequestsAgain, SameCounters
  <2>2. Attempts(m) <= r + 0 /\ pc' = "effects"
    BY <1>5, <1>15 DEF RetryStarts, AwaitsModel, Feeds
  <2> QED BY <1>6, <2>1, <2>2
<1>16. ASSUME NEW error \in BOOLEAN, ToolAnswers(error) PROVE Calls'
  <2>1. CASE \E ms : Asks(engine, outcome', ms)
    BY <1>1, <1>7, <1>16, <2>1 DEF Asks, ToolAnswers
  <2> QED BY <1>11, <1>16, <2>1 DEF ToolAnswers
<1>17. CASE AsksModel
  <2>1. /\ engine' = engine /\ asked' = Append(asked, m) /\ pc = "effects" /\ pc' = "model"
        /\ AwaitsModel /\ ~Decided /\ e.phase = "WaitingForModel"
    BY <1>17 DEF AsksModel, engine, AwaitsModel
  <2>2. m > 0
    BY <2>1 DEF PhaseFields, FieldsFit
  <2>3. Attempts(m) <= r + 0
    BY <1>5, <2>1
  <2>4. \A id : Occurrences(asked', id) = IF m = id THEN Attempts(id) + 1 ELSE Attempts(id)
    BY <1>2, <1>3, <2>1, OccurrencesIs
  <2>5. \A i \in 1 .. Len(asked') : asked'[i] \in 1 .. m
    <3>1. m \in 1 .. m
      BY <1>2, <2>2
    <3>2. /\ Len(asked') = Len(asked) + 1 /\ asked'[Len(asked) + 1] = m
          /\ \A i \in 1 .. Len(asked) : asked'[i] = asked[i]
      BY <1>2, <2>1
    <3>3. \A i \in 1 .. Len(asked') : i \in 1 .. Len(asked) \/ i = Len(asked) + 1
      BY <1>2, <3>2
    <3> HIDE DEF m
    <3> QED BY <1>5, <3>1, <3>2, <3>3
  <2> HIDE DEF m, r
  <2>6. Occurrences(asked', m) <= r + 1
    BY <1>2, <1>4, <2>3, <2>4
  <2>7. \A id \in 1 .. m : Occurrences(asked', id) <= RetryCount + 1
    <3>1. \A a, b, c \in Nat : a <= b + 0 /\ b <= c => a + 1 <= c + 1
      OBVIOUS
    <3>2. Attempts(m) + 1 <= RetryCount + 1
      BY <1>2, <1>4, <2>3, <3>1
    <3> QED BY <1>5, <2>4, <3>2
  <2>8. engine'.slots_used = m /\ engine'.retry_attempts = r
    BY <2>1 DEF m, r
  <2>9. \A id \in 1 .. engine'.slots_used : Attempts(id)' <= RetryCount + 1
    BY <1>3, <2>7, <2>8
  <2>10. Attempts(engine.slots_used)' = Occurrences(asked', m)
    BY <2>8 DEF Attempts, Occurrences
  <2> QED BY <2>1, <2>5, <2>6, <2>8, <2>9, <2>10 DEF Calls
<1> QED
  BY <1>8, <1>9, <1>10, <1>12, <1>13, <1>14, <1>15, <1>16, <1>17, StepCases
-----------------------------------------------------------------------------
(* The transcript.                                                         *)

\* A result recorded during a batch.
LEMMA RecordIs ==
    ASSUME TypeOK, PhaseFields, InBatch, Agreement, Announced, NEW error \in BOOLEAN
    PROVE  LET t == append_tool_result(transcript, NextCall, error)
               res == [call |-> NextCall, error |-> error]
               n == Len(engine.buffered) + 1
           IN  /\ t \in Transcripts /\ Alternates(t)
               /\ t.turn_active => Running(t)
               /\ ~t.turn_active => Ended(t)
               /\ t.messages = engine.messages \o Answers(Append(engine.buffered, res))
               /\ n < Len(engine.pending_tool_calls) =>
                      /\ t.turn_active /\ t.last_assistant
                      /\ t.pending_tools = Len(engine.pending_tool_calls) /\ t.batch = n
               /\ n = Len(engine.pending_tool_calls) => ~t.turn_active
<1> DEFINE t == transcript
           u == append_tool_result(t, NextCall, error)
           res == [call |-> NextCall, error |-> error]
           b == Len(engine.buffered)
           l == Len(engine.pending_tool_calls)
<1>1. NextCall \in CallIds /\ b \in Nat /\ l \in Nat /\ b + 1 <= l
  BY NextCallIs
<1>2. t \in Transcripts /\ engine.messages \in Seq(Messages) /\ engine.buffered \in Seq(Results)
  BY EngineIs, EngineTyped
<1>3. /\ Alternates(t) /\ Running(t) /\ t.last_assistant /\ t.pending_tools = l /\ t.batch = b
      /\ t.messages = engine.messages \o Answers(engine.buffered)
  BY DEF Announced, Agreement, InBatch
<1>4. res \in Results
  BY <1>1 DEF Results
<1>5. t.batch < t.pending_tools
  BY <1>1, <1>3
<1> HIDE DEF t
<1>6. u \in Transcripts /\ Alternates(u) /\ u.messages = Append(t.messages, Tool(res))
  <2>1. u \in Transcripts
    BY <1>1, <1>2, <1>3, <1>5, AppendToolIs
  <2>2. Alternates(u)
    BY <1>1, <1>2, <1>3, <1>5, AppendToolIs
  <2>3. u.messages = Append(t.messages, Tool(res))
    BY <1>1, <1>2, <1>3, <1>5, AppendToolIs
  <2> QED BY <2>1, <2>2, <2>3
<1>7. (u.turn_active => Running(u)) /\ (~u.turn_active => Ended(u))
  BY <1>1, <1>2, <1>3, <1>5, AppendToolIs
<1>8. t.batch + 1 < t.pending_tools =>
          /\ u.turn_active /\ u.last_assistant /\ u.pending_tools = t.pending_tools
          /\ u.batch = t.batch + 1
  BY <1>1, <1>2, <1>3, <1>5, AppendToolIs
<1>9. t.batch + 1 = t.pending_tools => ~u.turn_active
  BY <1>1, <1>2, <1>3, <1>5, AppendToolIs
<1> HIDE DEF res, u
<1>10. Append(t.messages, Tool(res)) = engine.messages \o Answers(Append(engine.buffered, res))
  BY <1>2, <1>3, <1>4, OneMoreAnswer
<1> QED BY <1>3, <1>6, <1>7, <1>8, <1>9, <1>10 DEF res, u, t

\* A response recorded in a transcript whose exchange has started.
LEMMA ResponseIs ==
    ASSUME NEW t \in Transcripts, Alternates(t), t.turn_active => Running(t), NEW calls \in Seq(CallIds)
    PROVE  LET u == append_assistant(t, calls)
           IN  /\ u \in Transcripts /\ Alternates(u)
               /\ u.turn_active => Running(u)
               /\ u.turn_active = t.turn_active /\ u.messages = Append(t.messages, Assistant(calls))
               /\ u.last_assistant /\ u.pending_tools = Len(calls) /\ u.batch = 0
<1> DEFINE u == append_assistant(t, calls)
<1>1. /\ u \in Transcripts /\ u.messages = Append(t.messages, Assistant(calls))
      /\ u.events = t.events /\ u.turn_index = t.turn_index /\ u.turn_active = t.turn_active
      /\ u.last_assistant /\ u.pending_tools = Len(calls) /\ u.batch = 0
  BY AppendAssistantIs
<1> HIDE DEF u
<1>2. Alternates(u) /\ (u.turn_active => Running(u))
  BY <1>1 DEF Alternates, Running
<1> QED BY <1>1, <1>2 DEF u

\* The event at the head of the effects, if it is the last of the turn.
LEMMA LastEvent ==
    ASSUME TypeOK, HostPosition, LoopFits, EmitEvent
    PROVE  /\ Head(effects).event = "TurnFinished" =>
                  engine.phase = "Finished" /\ "TurnFinished" \notin Range(observed)
           /\ Range(observed') = Range(observed) \cup {Head(effects).event}
<1>1. /\ pc = "effects" /\ effects # <<>> /\ Head(effects).kind = "EmitEvent"
      /\ effects \in Seq(Effects) /\ observed \in Seq(Events)
      /\ observed' = Append(observed, Head(effects).event)
  BY DEF EmitEvent, NextEffect, TypeOK
<1>2. /\ engine.phase \in {"WaitingForModel", "Finished"} /\ Fits(effects)
      /\ engine.phase = "WaitingForModel" => Len(effects) > 1
  BY <1>1, HeadKinds
<1>3. Head(effects) \in Effects
  BY <1>1
<1>4. Head(effects).event \in Events
  BY <1>1, <1>3 DEF Effects
<1>5. Range(observed') = Range(observed) \cup {Head(effects).event}
  BY <1>1, <1>4, ObservedIs
<1>6. CASE engine.phase = "WaitingForModel"
  <2>1. EarlyBut(effects, RequestModel(engine.pending_model_request)) /\ Len(effects) > 1
    BY <1>2, <1>6 DEF Fits, FitsModel
  <2>2. Early(Head(effects))
    BY <1>1, <2>1, EarlyTail
  <2> QED BY <1>5, <2>2 DEF Early
<1>7. CASE engine.phase = "Finished"
  BY <1>1, <1>2, <1>5, <1>7 DEF Fits, FitsFinished
<1> QED BY <1>2, <1>6, <1>7

\* A transcript whose events alternate.
Well(t) == t \in Transcripts /\ Alternates(t) /\ (t.turn_active => Running(t))

\* Every step keeps the transcript's events paired and its conversation the engine's.
LEMMA TranscriptStep ==
    ASSUME TypeOK, PhaseFields, HostPosition, LoopFits, Agreement, Announced, Next
    PROVE  transcript' \in Transcripts /\ Agreement' /\ Announced'
<1> USE DEF AwaitsModel
<1>1. engine' = outcome'.state /\ Well(transcript)
  BY EngineIs DEF engine, Well, Announced
<1>2. CASE StopTurn \/ RunEffects \/ EndOfEffects \/ Return \/ Cancel \/ Sleeps \/ StartsTool
  <2>1. /\ engine' = engine /\ Decided' = Decided /\ transcript' = transcript /\ observed' = observed
        /\ ~cancelled' => ~cancelled
    BY <1>2 DEF StopTurn, RunEffects, EndOfEffects, Return, Cancel, Sleeps, StartsTool, engine, Decided
  <2>2. pc' = "model" => pc = "model"
    BY <1>2 DEF StopTurn, RunEffects, EndOfEffects, Return, Cancel, Sleeps, StartsTool
  <2>3. Agreement'
    BY <2>1 DEF Agreement
  <2>4. Announced'
    BY <2>1, <2>2 DEF Announced
  <2> QED BY <1>1, <2>1, <2>3, <2>4 DEF Well
<1>3. CASE StepLimitExceeded
  <2>1. engine' = engine /\ Decided' /\ transcript' = transcript /\ pc' = "report"
    <3>1. outcome \in EngineOutcome /\ outcome' = [outcome EXCEPT !.effects = <<>>, !.failure = TRUE]
      BY <1>3 DEF StepLimitExceeded, TypeOK
    <3>2. outcome'.state = outcome.state /\ outcome'.failure
      BY <3>1 DEF EngineOutcome
    <3> QED BY <1>3, <3>2 DEF StepLimitExceeded, engine, Decided
  <2> QED BY <1>1, <2>1 DEF Agreement, Announced, Well
<1>4. CASE SubmitStep
  <2>1. transcript = NewTranscript(<<User>>) /\ transcript' = transcript /\ pc' # "model"
    BY <1>4 DEF SubmitStep, HostPosition, Fresh
  <2>2. /\ transcript.messages = <<User>> /\ transcript.events = <<>> /\ transcript.turn_index = 0
        /\ ~transcript.turn_active
    BY <2>1 DEF NewTranscript
  <2>3. Ended(transcript)
    BY <2>2 DEF Ended
  <2>4. CASE Rejects(NewEngine, outcome')
    <3>1. Decided' /\ engine'.phase = "Idle"
      BY <2>4, DecidedIs, NewEngineIs
    <3> QED BY <1>1, <2>1, <2>2, <2>3, <3>1 DEF Agreement, Announced, Well
  <2>5. CASE Asks(NewEngine, outcome', <<User>>)
    <3>1. engine'.phase = "WaitingForModel" /\ engine'.messages = <<User>>
      BY <1>1, <2>5 DEF Asks
    <3>2. Agreement'
      BY <2>1, <2>2, <3>1 DEF Agreement
    <3> QED BY <1>1, <2>1, <2>2, <2>3, <3>1, <3>2 DEF Announced, Well
  <2> QED BY <1>4, <2>4, <2>5 DEF SubmitStep
<1>5. CASE AsksModel
  <2>1. /\ engine' = engine /\ Decided' = Decided /\ ~Decided /\ engine.phase = "WaitingForModel"
        /\ transcript' = mark_turn_start(transcript)
    BY <1>5 DEF AsksModel, engine, Decided
  <2>2. transcript.turn_active \/ Ended(transcript)
    BY <2>1 DEF Announced
  <2>3. /\ transcript' \in Transcripts /\ Alternates(transcript') /\ Running(transcript')
        /\ transcript'.messages = transcript.messages
    BY <1>1, <2>1, <2>2, MarkIs DEF Well
  <2>4. Agreement'
    BY <2>1, <2>3 DEF Agreement
  <2>5. Announced'
    BY <2>1, <2>3 DEF Announced, Running
  <2> QED BY <2>3, <2>4, <2>5
<1>6. CASE EmitEvent
  <2> DEFINE event == Head(effects).event
  <2>1. /\ engine' = engine /\ Decided' = Decided /\ cancelled' = cancelled /\ pc' # "model"
        /\ transcript' = IF event = "TurnFinished" THEN finish_turn(transcript) ELSE transcript
    BY <1>6 DEF EmitEvent, NextEffect, engine, Decided
  <2>2. /\ event = "TurnFinished" =>
               engine.phase = "Finished" /\ "TurnFinished" \notin Range(observed)
        /\ Range(observed') = Range(observed) \cup {event}
    BY <1>6, LastEvent
  <2> HIDE DEF event
  <2>3. CASE event # "TurnFinished"
    <3>1. transcript' = transcript /\ ("TurnFinished" \in Range(observed') <=> "TurnFinished" \in Range(observed))
      BY <2>1, <2>2, <2>3
    <3> QED BY <1>1, <2>1, <3>1 DEF Agreement, Announced, Well
  <2>4. CASE event = "TurnFinished"
    <3> DEFINE t == transcript
    <3>1. /\ t' = finish_turn(t) /\ engine.phase = "Finished" /\ "TurnFinished" \notin Range(observed)
          /\ "TurnFinished" \in Range(observed')
      BY <2>1, <2>2, <2>4
    <3>2. /\ t' \in Transcripts /\ Alternates(t') /\ ~t'.turn_active /\ t'.messages = t.messages
          /\ t.turn_active /\ t.pending_tools = 0 /\ t.last_assistant => Ended(t')
          /\ ~t.turn_active /\ Ended(t) => Ended(t')
      BY <1>1, <3>1, FinishIs DEF Well
    <3>3. ~Decided /\ ~cancelled => LastEnded(engine.messages, t')
      <4>1. SUFFICES ASSUME ~Decided, ~cancelled PROVE LastEnded(engine.messages, t')
        OBVIOUS
      <4>2. LastAnswer(engine.messages, t)
        BY <3>1, <4>1 DEF Announced
      <4> HIDE DEF t
      <4> QED BY <3>2, <4>2 DEF LastAnswer, LastEnded
    <3>4. Agreement'
      BY <2>1, <3>2 DEF Agreement
    <3>5. Announced'
      BY <2>1, <3>1, <3>2, <3>3 DEF Announced
    <3> QED BY <3>2, <3>4, <3>5
  <2> QED BY <2>3, <2>4
<1>7. ASSUME Well(transcript'), pc' = "effects",
             engine'.phase = "Finished" \/ (engine'.phase # "WaitingForTools" /\ Ended(transcript')),
             Decided' \/ (engine'.phase = "Finished" /\ cancelled')
      PROVE  transcript' \in Transcripts /\ Agreement' /\ Announced'
  BY <1>7 DEF Agreement, Announced, Well
<1>8. CASE StopsAsking
  <2>1. engine'.phase = "Finished" /\ cancelled' /\ pc' = "effects"
    BY <1>1, <1>8 DEF StopsAsking, Finishes, Feeds
  <2>2. Well(transcript')
    <3>1. ASSUME NEW calls \in Seq(CallIds), transcript' = append_assistant(transcript, calls)
          PROVE  Well(transcript')
      BY <1>1, <3>1, ResponseIs DEF Well
    <3> QED BY <1>1, <1>8, <3>1 DEF StopsAsking
  <2> QED BY <1>7, <2>1, <2>2
<1>9. CASE RejectsLeftover
  <2>1. engine'.phase = "Finished" /\ Decided' /\ pc' = "effects" /\ transcript' = transcript
    BY <1>9, DecidedIs DEF RejectsLeftover, Leftover, Feeds
  <2> QED BY <1>1, <1>7, <2>1
<1>10. CASE StopsTools
  <2>1. engine'.phase = "Finished" /\ cancelled' /\ pc' = "effects" /\ InBatch
    BY <1>1, <1>10 DEF StopsTools, Finishes, Feeds
  <2>2. Well(transcript')
    <3>1. ASSUME NEW error \in BOOLEAN, transcript' = append_tool_result(transcript, NextCall, error)
          PROVE  Well(transcript')
      BY <2>1, <3>1, RecordIs DEF Well
    <3> QED BY <1>1, <1>10, <3>1 DEF StopsTools
  <2> QED BY <1>7, <2>1, <2>2
<1>11. CASE RequestFails \/ RetryStarts
  <2>1. /\ transcript' = transcript /\ pc' = "effects" /\ ~Decided
        /\ engine.phase \in {"WaitingForModel", "WaitingForRetry"}
    BY <1>11 DEF RequestFails, RetryStarts, Feeds
  <2>2. CASE Fails(engine, outcome')
    <3>1. engine'.phase = "Finished" /\ Decided'
      BY <1>1, <2>2, DecidedIs DEF Fails
    <3> QED BY <1>1, <1>7, <2>1, <3>1
  <2>3. CASE Retries(engine, outcome') \/ RequestsAgain(engine, outcome')
    <3>1. /\ engine'.phase \in {"WaitingForModel", "WaitingForRetry"} /\ engine'.messages = engine.messages
      BY <1>1, <2>3 DEF Retries, RequestsAgain
    <3>2. Agreement'
      BY <2>1, <3>1 DEF Agreement
    <3>3. Announced'
      BY <2>1, <3>1 DEF Announced
    <3> QED BY <1>1, <2>1, <3>2, <3>3 DEF Well
  <2> QED BY <1>11, <2>2, <2>3 DEF RequestFails, RetryStarts
<1>12. ASSUME NEW calls \in Seq(CallIds), Responds(calls)
       PROVE  transcript' \in Transcripts /\ Agreement' /\ Announced'
  <2> DEFINE t == transcript
  <2>1. /\ pc = "model" /\ pc' = "effects" /\ ~Decided /\ engine.phase = "WaitingForModel"
        /\ observed' = observed /\ t' = append_assistant(t, calls)
    BY <1>12 DEF Responds, Feeds
  <2>2. t.turn_active /\ t.messages = engine.messages /\ "TurnFinished" \notin Range(observed')
    BY <2>1 DEF Announced, Agreement, LoopFits
  <2>3. /\ t' \in Transcripts /\ Alternates(t') /\ Running(t') /\ t'.turn_active
        /\ t'.messages = Append(engine.messages, Assistant(calls))
        /\ t'.last_assistant /\ t'.pending_tools = Len(calls) /\ t'.batch = 0
    BY <1>1, <2>1, <2>2, ResponseIs DEF Well
  <2>4. engine.messages \in Seq(Messages) /\ Assistant(calls) \in Messages
    BY EngineIs, EngineTyped, Constructors
  <2>5. CASE Rejects(engine, outcome')
    <3>1. engine' = engine /\ Decided'
      BY <2>5, DecidedIs
    <3> QED BY <2>1, <2>3, <3>1 DEF Agreement, Announced
  <2>6. CASE StartsBatch(engine, outcome', calls)
    <3>1. /\ engine'.phase = "WaitingForTools" /\ engine'.buffered = <<>>
          /\ engine'.messages = t'.messages /\ engine'.pending_tool_calls = calls
      BY <1>1, <2>3, <2>6 DEF StartsBatch
    <3>2. t'.messages = t'.messages \o Answers(<<>>)
      <4>1. <<>> \in Seq(Results) /\ Len(<<>>) = 0
        OBVIOUS
      <4>2. Answers(<<>>) \in Seq(Messages) /\ Len(Answers(<<>>)) = 0
        BY <4>1, AnswersTyped
      <4>3. Answers(<<>>) = <<>>
        BY <4>2, EmptySeq
      <4>4. t'.messages \in Seq(Messages)
        BY <2>3, TranscriptTyped
      <4> QED BY <4>3, <4>4
    <3>3. Agreement'
      BY <3>1, <3>2 DEF Agreement
    <3>4. Len(engine'.buffered) = 0
      BY <3>1
    <3>5. Announced'
      BY <2>1, <2>3, <3>1, <3>4 DEF Announced
    <3> QED BY <2>3, <3>3, <3>5
  <2>7. CASE Finishes(engine, outcome', Append(engine.messages, Assistant(calls)))
    <3>1. engine'.phase = "Finished" /\ engine'.messages = t'.messages
      BY <1>1, <2>3, <2>7 DEF Finishes
    <3>2. LastAnswer(engine'.messages, t')
      <4>1. engine'.messages[Len(engine'.messages)] = Assistant(calls)
        BY <2>3, <2>4, <3>1
      <4>2. Assistant(calls).role = "Assistant" /\ Assistant(calls).calls = calls
        BY DEF Assistant
      <4> HIDE DEF t
      <4> QED BY <2>3, <4>1, <4>2 DEF LastAnswer
    <3>3. Agreement'
      BY <3>1 DEF Agreement
    <3>4. Announced'
      BY <2>1, <2>2, <2>3, <3>1, <3>2 DEF Announced
    <3> QED BY <2>3, <3>3, <3>4
  <2> QED BY <1>12, <2>5, <2>6, <2>7 DEF Responds
<1>13. ASSUME NEW error \in BOOLEAN, ToolAnswers(error)
       PROVE  transcript' \in Transcripts /\ Agreement' /\ Announced'
  <2> DEFINE t == transcript
             res == [call |-> NextCall, error |-> error]
             n == Len(engine.buffered) + 1
             l == Len(engine.pending_tool_calls)
             ms == engine.messages \o Answers(Append(engine.buffered, res))
  <2>1. /\ InBatch /\ engine.phase = "WaitingForTools" /\ pc' = "effects" /\ observed' = observed
        /\ t' = append_tool_result(t, NextCall, error)
    BY <1>13 DEF ToolAnswers, InBatch, Feeds
  <2>2. /\ t' \in Transcripts /\ Alternates(t') /\ (t'.turn_active => Running(t'))
        /\ (~t'.turn_active => Ended(t')) /\ t'.messages = ms
        /\ n < l => t'.turn_active /\ t'.last_assistant /\ t'.pending_tools = l /\ t'.batch = n
        /\ n = l => ~t'.turn_active
    BY <2>1, RecordIs
  <2>3. \/ Rejects(engine, outcome')
        \/ n < l /\ Buffers(engine, outcome', res)
        \/ n = l /\ (Asks(engine, outcome', ms) \/ Finishes(engine, outcome', ms))
    BY <1>13 DEF ToolAnswers
  <2>4. /\ engine.messages \in Seq(Messages) /\ engine.buffered \in Seq(Results)
        /\ Len(engine.buffered) \in Nat /\ res \in Results
    <3>1. NextCall \in CallIds
      BY <2>1, NextCallIs
    <3>2. engine.messages \in Seq(Messages) /\ engine.buffered \in Seq(Results)
      BY EngineIs, EngineTyped
    <3>3. res \in Results
      BY <3>1 DEF Results
    <3> QED BY <3>2, <3>3
  <2> HIDE DEF res, n, l, ms
  <2>5. CASE Rejects(engine, outcome')
    <3>1. engine' = engine /\ Decided'
      BY <2>5, DecidedIs
    <3> QED BY <2>1, <2>2, <3>1 DEF Agreement, Announced
  <2>6. CASE n < l /\ Buffers(engine, outcome', res)
    <3>1. /\ engine'.phase = "WaitingForTools" /\ engine'.buffered = Append(engine.buffered, res)
          /\ engine'.messages = engine.messages
          /\ engine'.pending_tool_calls = engine.pending_tool_calls
      BY <1>1, <2>6 DEF Buffers
    <3>2. Len(engine'.buffered) = n
      BY <2>4, <3>1 DEF n
    <3>3. Agreement'
      BY <2>2, <3>1 DEF Agreement, ms
    <3>4. Len(engine'.pending_tool_calls) = l
      BY <3>1 DEF l
    <3>5. Announced'
      BY <2>1, <2>2, <2>6, <3>1, <3>2, <3>4 DEF Announced
    <3> QED BY <2>2, <3>3, <3>5
  <2>7. CASE n = l /\ Asks(engine, outcome', ms)
    <3>1. engine'.phase = "WaitingForModel" /\ engine'.messages = ms
      BY <1>1, <2>7 DEF Asks
    <3> QED BY <2>1, <2>2, <2>7, <3>1 DEF Agreement, Announced
  <2>8. CASE n = l /\ Finishes(engine, outcome', ms)
    <3>1. engine'.phase = "Finished" /\ engine'.messages = ms
      BY <1>1, <2>8 DEF Finishes
    <3>2. LastAnswer(engine'.messages, t')
      <4> DEFINE s == engine.messages \o Answers(engine.buffered)
      <4>1. ms = Append(s, Tool(res))
        BY <2>4, OneMoreAnswer DEF ms
      <4>2. s \in Seq(Messages) /\ Tool(res) \in Messages /\ Tool(res).role = "Tool"
        BY <2>4, AnswersTyped, Constructors
      <4> HIDE DEF s
      <4>3. ms[Len(ms)] = Tool(res)
        BY <4>1, <4>2
      <4> HIDE DEF t
      <4> QED BY <2>2, <2>8, <3>1, <4>2, <4>3 DEF LastAnswer
    <3>3. "TurnFinished" \notin Range(observed')
      BY <2>1 DEF LoopFits
    <3>4. Agreement'
      BY <2>2, <3>1 DEF Agreement
    <3>5. Announced'
      BY <2>1, <2>2, <3>1, <3>2, <3>3 DEF Announced
    <3> QED BY <2>2, <3>4, <3>5
  <2> QED BY <2>3, <2>5, <2>6, <2>7, <2>8
<1> QED
  BY <1>2, <1>3, <1>4, <1>5, <1>6, <1>8, <1>9, <1>10, <1>11, <1>12, <1>13, StepCases
-----------------------------------------------------------------------------
(* The theorems.                                                           *)

\* A turn begins with the invariant.
LEMMA InitHolds == Init => IInv
<1> SUFFICES ASSUME Init PROVE IInv
  OBVIOUS
<1> DEFINE t == NewTranscript(<<User>>)
<1>1. outcome = NoOutcome /\ engine = NewEngine /\ transcript = t /\ pc = "submit"
  BY DEF Init, NoOutcome, Accepted, engine
<1>2. outcome \in EngineOutcome /\ ~Decided
  <2>1. <<>> \in Seq(Effects)
    OBVIOUS
  <2>2. Continues(Accepted(NewEngine, <<>>))
    BY <2>1, NewEngineIs, AcceptedIs
  <2> QED BY <1>1, <2>2 DEF Continues, NoOutcome, Decided
<1>3. t \in Transcripts
  <2>1. <<User>> \in Seq(Messages) /\ <<>> \in Seq(TranscriptEvents)
    BY Constructors
  <2> QED BY <2>1 DEF NewTranscript, Transcripts
<1>4. TypeOK
  <2>1. <<>> \in Seq(Effects) /\ <<>> \in Seq(Events) /\ <<>> \in Seq(Nat) /\ 0 \in 0 .. StepLimit
    BY TurnAssumption
  <2>2. engine.slots_used <= engine.budget
    BY <1>1, NewEngineIs
  <2> QED BY <1>1, <1>2, <1>3, <2>1, <2>2 DEF TypeOK, Init
<1>5. PhaseFields /\ engine.phase = "Idle"
  BY <1>1, NewEngineIs DEF PhaseFields
<1>6. HostPosition
  BY DEF Init, HostPosition, Fresh, InLoop
<1>7. LoopFits
  <2>1. Range(observed) = {}
    BY DEF Init, Range
  <2> QED BY <1>1, <2>1 DEF Init, LoopFits, InLoop
<1>8. Conversation /\ Agreement
  BY <1>5 DEF Conversation, Agreement, AwaitsModel
<1>9. Calls
  <2>1. asked = <<>> /\ engine.slots_used = 0 /\ Len(<<>>) = 0
    BY <1>1, NewEngineIs DEF Init
  <2> QED BY <1>5, <2>1 DEF Calls, AwaitsModel
<1>10. Announced
  <2>1. t.events = <<>> /\ t.turn_index = 0 /\ ~t.turn_active
    BY DEF NewTranscript
  <2> QED BY <1>1, <1>5, <2>1 DEF Announced, Alternates, Ended
<1> QED BY <1>4, <1>5, <1>6, <1>7, <1>8, <1>9, <1>10 DEF IInv

\* Every step keeps the invariant.
LEMMA StepHolds == IInv /\ [Next]_vars => IInv'
<1> SUFFICES ASSUME IInv, [Next]_vars PROVE IInv'
  OBVIOUS
<1>1. CASE Next
  <2>1. TypeOK /\ PhaseFields /\ HostPosition /\ LoopFits /\ Conversation /\ Agreement /\ Calls /\ Announced
    BY DEF IInv
  <2>2. outcome' \in EngineOutcome /\ PhaseFields' /\ engine'.slots_used <= engine'.budget
    BY <1>1, <2>1, OutcomeStep
  <2>3. HostTyped'
    BY <1>1, <2>1, HostTypesStep
  <2>4. HostPosition' /\ LoopFits'
    BY <1>1, <2>1, HostStep, LoopStep
  <2>5. Conversation' /\ Calls'
    BY <1>1, <2>1, ConversationStep, CallsStep
  <2>6. transcript' \in Transcripts /\ Agreement' /\ Announced'
    BY <1>1, <2>1, TranscriptStep
  <2>7. TypeOK'
    BY <2>2, <2>3, <2>6 DEF TypeOK, HostTyped
  <2> QED BY <2>2, <2>4, <2>5, <2>6, <2>7 DEF IInv
<1>2. CASE UNCHANGED vars
  <2>1. /\ pc' = pc /\ outcome' = outcome /\ effects' = effects /\ advanced' = advanced
        /\ steps' = steps /\ cancelled' = cancelled /\ observed' = observed
        /\ transcript' = transcript /\ asked' = asked /\ result' = result
    BY <1>2 DEF vars
  <2>2. /\ engine' = engine /\ Decided' = Decided /\ (NewOutcome' <=> NewOutcome)
        /\ (Leftover' <=> Leftover) /\ (InLoop' <=> InLoop) /\ (AwaitsModel' <=> AwaitsModel)
        /\ (Surfaced' <=> Surfaced) /\ (Fresh' <=> Fresh)
    BY <2>1 DEF engine, Decided, NewOutcome, Leftover, InLoop, AwaitsModel, Surfaced, Fresh
  <2>3. (Fits(effects)' <=> Fits(effects)) /\ (Fits(outcome.effects)' <=> Fits(outcome.effects))
    BY <2>1, <2>2 DEF Fits, FitsFinished
  <2>4. TypeOK' /\ PhaseFields' /\ HostPosition'
    BY <2>1, <2>2 DEF IInv, TypeOK, PhaseFields, HostPosition
  <2>5. LoopFits'
    BY <2>1, <2>2, <2>3 DEF IInv, LoopFits
  <2>6. Conversation' /\ Agreement' /\ Announced'
    BY <2>1, <2>2 DEF IInv, Conversation, Agreement, Announced
  <2>7. Calls'
    BY <2>1, <2>2 DEF IInv, Calls, Attempts
  <2> QED BY <2>4, <2>5, <2>6, <2>7 DEF IInv
<1> QED BY <1>1, <1>2

\* The invariant of a turn.
THEOREM Invariant == Spec => []IInv
BY InitHolds, StepHolds, PTL DEF Spec

\* Every variable has its type, the attempts of a request are within the retry policy and the
\* requests of a turn within its budget.
THEOREM TypeCorrect == Spec => []TypeOK
<1>1. IInv => TypeOK
  BY DEF IInv
<1> QED BY <1>1, Invariant, PTL

\* The model is never asked with a tool call open: apply_tool_feedback holds the results of a
\* batch back until they are complete.
THEOREM AnsweredCorrect == Spec => []RequestsAnswered
<1>1. IInv => RequestsAnswered
  <2>1. SUFFICES ASSUME IInv, pc = "model"
                 PROVE  Answered(engine.messages)
    BY DEF RequestsAnswered, Answered, AnsweredBefore
  <2> QED BY <2>1 DEF IInv, LoopFits, Conversation, AwaitsModel
<1> QED BY <1>1, Invariant, PTL

\* What the session keeps is what the model was told, whenever it is asked and after a success.
THEOREM TranscriptCorrect == Spec => []TranscriptAgrees
<1>1. IInv => TranscriptAgrees
  <2>1. SUFFICES ASSUME IInv, pc = "model" \/ result = "Ok"
                 PROVE  transcript.messages = engine.messages
    BY DEF TranscriptAgrees
  <2>2. CASE pc = "model"
    BY <2>1, <2>2 DEF IInv, HostPosition, LoopFits, Agreement, AwaitsModel
  <2>3. CASE result = "Ok"
    BY <2>1, <2>3 DEF IInv, LoopFits, Agreement
  <2> QED BY <2>1, <2>2, <2>3
<1> QED BY <1>1, Invariant, PTL

\* The model is called once and RetryCount times more for a request at most, and for no more
\* requests than the budget allows.
THEOREM CallsCorrect == Spec => []CallsBounded
<1>1. IInv => CallsBounded
  <2> SUFFICES ASSUME IInv PROVE CallsBounded
    OBVIOUS
  <2> DEFINE m == engine.slots_used
             A == Range(asked)
  <2>1. m \in Nat /\ m <= engine.budget /\ engine.budget \in Nat /\ asked \in Seq(Nat)
    BY EngineIs, EngineTyped DEF IInv
  <2>2. A \subseteq 1 .. m
    BY <2>1 DEF IInv, Calls, Range
  <2>3. \A id \in A : Attempts(id) <= RetryCount + 1
    BY <2>2 DEF IInv, Calls
  <2> HIDE DEF A, m
  <2>4. IsFiniteSet(1 .. m) /\ Cardinality(1 .. m) = m
    <3>1. 1 \in Int /\ m \in Int
      BY <2>1
    <3> QED BY <2>1, <3>1, FS_Interval
  <2>5. IsFiniteSet(A) /\ Cardinality(A) <= m
    BY <2>2, <2>4, FS_Subset
  <2>6. Cardinality(A) \in Nat
    BY <2>5, FS_CardinalityType
  <2>7. Cardinality(A) <= engine.budget
    BY <2>1, <2>5, <2>6
  <2> QED BY <2>3, <2>7 DEF CallsBounded, A
<1> QED BY <1>1, Invariant, PTL

\* A turn reported as a success has finished, with its terminal events surfaced.
THEOREM OkCorrect == Spec => []OkIsFinished
<1>1. IInv => OkIsFinished
  BY DEF IInv, LoopFits, OkIsFinished, Surfaced
<1> QED BY <1>1, Invariant, PTL

\* A tool runs only in a turn that waits for it, in the order of the calls.
THEOREM ToolsCorrect == Spec => []ToolsRunInOrder
<1>1. IInv => ToolsRunInOrder
  <2>1. SUFFICES ASSUME IInv, pc = "tool"
                 PROVE  /\ engine.phase = "WaitingForTools"
                        /\ Len(engine.buffered) + Len(effects) = Len(engine.pending_tool_calls)
                        /\ \A i \in 1 .. Len(effects) :
                               effects[i].call = engine.pending_tool_calls[Len(engine.buffered) + i]
    BY DEF ToolsRunInOrder
  <2>2. InBatch
    BY <2>1, AwaitedIs DEF IInv
  <2>3. \A call : ExecuteTool(call).call = call
    BY DEF ExecuteTool
  <2> QED BY <2>2, <2>3 DEF InBatch, FitsTools
<1> QED BY <1>1, Invariant, PTL

\* TurnStart and TurnEnd alternate, and a success that left no call open has ended the last.
THEOREM EventsCorrect == Spec => []TurnEventsPaired
<1>1. IInv => TurnEventsPaired
  <2> SUFFICES ASSUME IInv PROVE TurnEventsPaired
    OBVIOUS
  <2> DEFINE last == engine.messages[Len(engine.messages)]
             open == last.role = "Assistant" => last.calls = <<>>
  <2>1. \A i \in 1 .. Len(transcript.events) :
            transcript.events[i] =
                [kind |-> IF i % 2 = 1 THEN "TurnStart" ELSE "TurnEnd", index |-> (i - 1) \div 2]
    BY DEF IInv, Announced, Alternates, EventAt
  <2>2. ASSUME result = "Ok", open PROVE Len(transcript.events) % 2 = 0
    <3>1. engine.phase = "Finished" /\ ~Decided /\ ~cancelled /\ Surfaced
      BY <2>2 DEF IInv, LoopFits
    <3>2. "TurnFinished" \in Range(observed)
      <4>1. Len(observed) \in {i \in 1 .. Len(observed) : observed[i] = "TurnFinished"}
        BY <3>1 DEF Surfaced
      <4>2. observed \in Seq(Events)
        BY DEF IInv, TypeOK
      <4> QED BY <4>1, <4>2 DEF Range
    <3>3. LastEnded(engine.messages, transcript)
      BY <3>1, <3>2 DEF IInv, Announced
    <3>4. Ended(transcript)
      BY <2>2, <3>3 DEF LastEnded
    <3>5. transcript.turn_index \in Nat
      BY EngineIs, TranscriptTyped DEF IInv
    <3>6. \A n \in Nat : (2 * n) % 2 = 0
      OBVIOUS
    <3> QED BY <3>4, <3>5, <3>6 DEF Ended
  <2> QED BY <2>1, <2>2 DEF TurnEventsPaired
<1> QED BY <1>1, Invariant, PTL
=============================================================================
