---------------------------- MODULE DaemonSession ----------------------------
(***************************************************************************)
(* A session of the daemon: the actor of src/modes/daemon/agent_process.rs *)
(* that owns a controller with its agent.  One task multiplexes the        *)
(* commands of all clients, the signals of the process registry and the    *)
(* bash tool's confirmation requests; while a prompt runs it only listens  *)
(* to commands, obeys Abort and keeps the others for later.                *)
(*                                                                         *)
(* A command is known by its number, the position in sent at which some    *)
(* client sent it.  The prompt's future runs inside the actor's task and   *)
(* is the variable turn; the bridge tasks are tasks of their own.          *)
(***************************************************************************)
EXTENDS Controller, Sequences

CONSTANTS
    Kinds,        \* the commands clients may send, a subset of CommandKinds
    Dangerous,    \* the model may ask bash to run a command that needs approval
    Closes,       \* the owner may drop its end of the command channel
    AutoTestOn,   \* settings.auto_test_command is present
    MaxCommands   \* bound: commands sent in a behaviour

\* "Query" stands for the commands that change none of the state modelled here.
CommandKinds ==
    {"Prompt", "Abort", "ResetCancel", "SetAutoTest", "SlashAutoTest", "StartLoop", "StopLoop",
     "SetDisabledTools", "ConfirmBash", "Disconnect", "GetPlugins", "Query"}

ASSUME DaemonAssumption ==
    /\ Kinds \subseteq CommandKinds
    /\ Dangerous \in BOOLEAN /\ Closes \in BOOLEAN /\ AutoTestOn \in BOOLEAN
    /\ MaxCommands \in Nat
    /\ Commands # {}

VARIABLES
    ctl,       \* the session controller
    sent,      \* history: the kinds of the commands sent so far
    handled,   \* history: the numbers of the commands handled so far, in order
    cmd_rx,    \* the command channel
    open,      \* some sender of the channel is alive
    signal,    \* a Kill or Shutdown signal waits for the actor
    actor,     \* what the actor does and whether it ends after this command
    pending,   \* pending_commands: commands that came during a prompt
    agent,     \* the agent: its token, tools and what the ledger lacks of it
    turn,      \* the prompt that runs in the actor's task
    asks,      \* bash_confirm_rx: requests of the bash tool, by number
    store,     \* ConfirmStore
    bridges    \* tasks that wait for a client's answer: <<request_id, ask>>

vars == <<ctl, sent, handled, cmd_rx, open, signal, actor, pending, agent, turn, asks, store, bridges>>

clientVars == <<sent, cmd_rx, open, signal>>
confirmVars == <<asks, store, bridges>>

core == ctl.core

AutoTestCommand == CHOOSE c \in Commands : TRUE

NoTurn == [phase |-> "none", ask |-> 0]

Init ==
    /\ ctl = NewController("Off", AutoTestOn, IF AutoTestOn THEN AutoTestCommand ELSE None)
    /\ sent = <<>> /\ handled = <<>> /\ cmd_rx = <<>> /\ open = TRUE /\ signal = FALSE
    /\ actor = [phase |-> "select", ends |-> FALSE]
    /\ pending = <<>>
    /\ agent = [present |-> TRUE, cancelled |-> FALSE, asks_first |-> TRUE, unsaved |-> FALSE]
    /\ turn = NoTurn
    /\ asks = <<>> /\ store = [pending |-> {}, next_id |-> 1] /\ bridges = {}

------------------------------------------------------------------------------
(* Clients, the owner of the channel and the process registry. *)

SendCommand ==
    /\ open /\ Len(sent) < MaxCommands
    /\ \E kind \in Kinds : sent' = Append(sent, kind)
    /\ cmd_rx' = Append(cmd_rx, Len(sent) + 1)
    /\ UNCHANGED <<ctl, handled, open, signal, actor, pending, agent, turn, confirmVars>>

CloseChannel ==
    /\ Closes /\ open
    /\ open' = FALSE
    /\ UNCHANGED <<ctl, sent, handled, cmd_rx, signal, actor, pending, agent, turn, confirmVars>>

SendSignal ==
    /\ ~signal /\ actor.phase # "stopped"
    /\ signal' = TRUE
    /\ UNCHANGED <<ctl, sent, handled, cmd_rx, open, actor, pending, agent, turn, confirmVars>>

------------------------------------------------------------------------------
(* ConfirmStore, crates/clankers-controller/src/confirm.rs. *)

\* Mutant: the next request gets the same id.
register_without_increment(s) == [s EXCEPT !.pending = @ \cup {s.next_id}]

register_confirm(s) ==
    [pending |-> s.pending \cup {s.next_id}, next_id |-> s.next_id + 1]

respond(s, id) == [s EXCEPT !.pending = @ \ {id}]

------------------------------------------------------------------------------
(* The commands of a session. *)

\* handle_prompt_inner up to its first await: the reducer accepts the prompt and
\* the agent's future is made.
BeginPrompt(c, phase, ends) ==
    /\ ctl' = start_prompt(c, None)
    /\ actor' = [phase |-> phase, ends |-> ends]
    /\ turn' = [phase |-> "accepted", ask |-> 0]

\* Mutant: a session shuts down without flushing.
shutdown_without_flush(a) == a

\* controller.shutdown(): what the ledger lacks is flushed if the agent is there.
shutdown(a) == IF a.present THEN [a EXCEPT !.unsaved = FALSE] ELSE a

\* The end of handle_actor_session_command: after a Disconnect the actor stops.
EndCommand(c, a, ends) ==
    /\ ctl' = c
    /\ turn' = NoTurn
    /\ actor' = [phase |-> IF ends THEN "stopped" ELSE "select", ends |-> ends]
    /\ agent' = IF ends THEN shutdown(a) ELSE a

\* What follows a command that left controller c and agent a: if the session is
\* idle, the auto-test that may be due.
PostPromptActions(c, a, ends) ==
    IF c.busy
    THEN EndCommand(c, a, ends)
    ELSE IF maybe_auto_test_due(c)
    THEN BeginPrompt(maybe_auto_test(c), "auto_test", ends) /\ agent' = a
    ELSE EndCommand(clear_auto_test(c), a, ends)

\* handle_command for the commands that are not prompts: the controller ...
Controlled(c, kind) ==
    CASE kind = "Abort" -> abort_prompt(c)
      [] kind = "SetAutoTest" -> SetAutoTestCommand(c, TRUE, AutoTestCommand)
      [] kind = "SlashAutoTest" -> slash_autotest(c, None)
      [] kind = "StartLoop" -> handle_start_loop(c, 2)
      [] kind = "StopLoop" -> handle_stop_loop(c)
      [] kind = "SetDisabledTools" -> handle_set_disabled_tools(c, NoTools)
      [] OTHER -> c

\* ... and the agent.  The tools that SetDisabledTools rebuilds know no
\* confirmation channel: they refuse what the first ones ask for.
ControlledAgent(a, kind) ==
    CASE kind = "Abort" -> [a EXCEPT !.cancelled = TRUE]
      [] kind = "ResetCancel" -> [a EXCEPT !.cancelled = FALSE]
      [] kind = "SetDisabledTools" -> [a EXCEPT !.asks_first = FALSE]
      [] OTHER -> a

\* handle_actor_session_command: GetPlugins is answered by the actor alone, and
\* a controller whose agent was lost with a dropped prompt ignores every command.
HandleCommand(n) ==
    LET kind == sent[n]
        ends == kind = "Disconnect"
    IN  /\ handled' = Append(handled, n)
        /\ IF kind = "GetPlugins"
           THEN EndCommand(ctl, agent, FALSE) /\ UNCHANGED store
           ELSE IF ~agent.present
           THEN PostPromptActions(ctl, agent, ends) /\ UNCHANGED store
           ELSE IF kind = "Prompt"
           THEN BeginPrompt(ctl, "command", FALSE) /\ UNCHANGED <<agent, store>>
           ELSE /\ PostPromptActions(Controlled(ctl, kind), ControlledAgent(agent, kind), ends)
                /\ store' = IF kind = "ConfirmBash" THEN respond(store, 1) ELSE store
        /\ UNCHANGED <<sent, open, signal, asks, bridges>>

------------------------------------------------------------------------------
(* The actor between prompts: first the commands kept from the last prompt.  *)

HandlePendingCommand ==
    /\ actor.phase = "select" /\ pending # <<>>
    /\ HandleCommand(Head(pending))
    /\ pending' = Tail(pending)
    /\ UNCHANGED cmd_rx

Selecting == actor.phase = "select" /\ pending = <<>>

HandleNextCommand ==
    /\ Selecting /\ cmd_rx # <<>>
    /\ HandleCommand(Head(cmd_rx))
    /\ cmd_rx' = Tail(cmd_rx)
    /\ UNCHANGED pending

Stop ==
    /\ actor' = [phase |-> "stopped", ends |-> TRUE]
    /\ agent' = shutdown(agent)
    /\ UNCHANGED <<ctl, sent, handled, cmd_rx, open, signal, pending, turn, confirmVars>>

\* Mutant: a signal is consumed like that of a dead link.
HandleSignalAsLinkDied ==
    /\ Selecting /\ signal
    /\ signal' = FALSE
    /\ UNCHANGED <<ctl, sent, handled, cmd_rx, open, actor, pending, agent, turn, confirmVars>>

HandleSignal == Selecting /\ signal /\ Stop

HandleClosedChannel == Selecting /\ cmd_rx = <<>> /\ ~open /\ Stop

\* A request of the bash tool gets an id in the ConfirmStore and a bridge task.
HandleConfirmRequest ==
    /\ Selecting /\ asks # <<>>
    /\ store' = register_confirm(store)
    /\ bridges' = bridges \cup {<<store.next_id, Head(asks)>>}
    /\ asks' = Tail(asks)
    /\ UNCHANGED <<ctl, clientVars, handled, actor, pending, agent, turn>>

\* Every 50 ms the tool inventory is compared with a rebuilt one, and replaced if
\* they differ.  One is in the order of a hash map, so they may at any time.
Tick ==
    /\ Selecting /\ agent.present
    /\ agent' = [agent EXCEPT !.asks_first = FALSE]
    /\ UNCHANGED <<ctl, clientVars, handled, actor, pending, turn, confirmVars>>

------------------------------------------------------------------------------
(* The actor while a prompt runs: handle_controller_command_with_interrupts. *)

Prompting == actor.phase \in {"command", "auto_test"}

\* Mutant: a command that comes during a prompt jumps the queue.
HandleInterruptPushFront ==
    /\ Prompting /\ cmd_rx # <<>>
    /\ cmd_rx' = Tail(cmd_rx)
    /\ pending' = <<Head(cmd_rx)>> \o pending
    /\ UNCHANGED <<ctl, sent, handled, open, signal, actor, agent, turn, confirmVars>>

HandleInterrupt ==
    /\ Prompting /\ cmd_rx # <<>>
    /\ cmd_rx' = Tail(cmd_rx)
    /\ IF sent[Head(cmd_rx)] = "Abort"
       THEN agent' = [agent EXCEPT !.cancelled = TRUE] /\ UNCHANGED pending
       ELSE pending' = Append(pending, Head(cmd_rx)) /\ UNCHANGED agent
    /\ UNCHANGED <<ctl, sent, handled, open, signal, actor, turn, confirmVars>>

\* Mutant: the loop around the prompt is not left when the prompt is done.
PromptReturnsWithoutBreak(c, a) ==
    /\ ctl' = c
    /\ agent' = a
    /\ turn' = NoTurn
    /\ UNCHANGED actor

\* What follows the prompt, for controller c and agent a.
PromptReturns(c, a) ==
    IF actor.phase = "command"
    THEN PostPromptActions(c, a, FALSE)
    ELSE EndCommand(clear_auto_test(c), a, actor.ends)

\* With the last sender gone the prompt's future is dropped, and with it the
\* agent, which handle_prompt_inner had taken out of the controller.
HandleClosedDuringPrompt ==
    /\ Prompting /\ cmd_rx = <<>> /\ ~open
    /\ PromptReturns(ctl, [agent EXCEPT !.cancelled = TRUE, !.present = FALSE])
    /\ UNCHANGED <<clientVars, handled, pending, confirmVars>>

------------------------------------------------------------------------------
(* The prompt: Agent::prompt and the rest of handle_prompt_inner. *)

Completes(status, a) ==
    /\ PromptReturns(apply_prompt_completion(ctl, core.pending_prompt.effect_id, status), a)
    /\ UNCHANGED <<clientVars, handled, pending, confirmVars>>

\* A hook or the authorization check refuses the prompt.
TurnDenied ==
    /\ turn.phase = "accepted"
    /\ Completes("Failed", agent)

\* The user's message joins the agent's messages, not yet the ledger.
TurnBegins ==
    /\ turn.phase = "accepted"
    /\ turn' = [turn EXCEPT !.phase = "running"]
    /\ agent' = [agent EXCEPT !.unsaved = TRUE]
    /\ UNCHANGED <<ctl, clientVars, handled, actor, pending, confirmVars>>

TurnSignalsLoopSuccess ==
    /\ turn.phase = "running" /\ ~agent.cancelled
    /\ ctl' = process_agent_event(ctl, "signal_loop_success", FALSE)
    /\ UNCHANGED <<clientVars, handled, actor, pending, agent, turn, confirmVars>>

\* The bash tool sends a request and awaits the answer, whatever the token says.
TurnAsksConfirmation ==
    /\ Dangerous /\ turn.phase = "running" /\ agent.asks_first /\ ~agent.cancelled
    /\ turn' = [turn EXCEPT !.phase = "confirm", !.ask = @ + 1]
    /\ asks' = Append(asks, turn.ask + 1)
    /\ UNCHANGED <<ctl, clientVars, handled, actor, pending, agent, store, bridges>>

\* AgentEnd, which saves the messages, unless an error came before the turn loop.
TurnEnds ==
    /\ turn.phase = "running"
    /\ \/ Completes(IF agent.cancelled THEN "Cancelled" ELSE "Succeeded",
                    [agent EXCEPT !.unsaved = FALSE])
       \/ \E saved \in BOOLEAN : Completes("Failed", [agent EXCEPT !.unsaved = ~saved])

\* A bridge task ends with an answer or after its 60 seconds; if the tool that
\* asked still waits, it goes on.
BridgeEnds ==
    \E b \in bridges :
        /\ bridges' = bridges \ {b}
        /\ turn' = IF turn.phase = "confirm" /\ turn.ask = b[2]
                   THEN [turn EXCEPT !.phase = "running"] ELSE turn
        /\ UNCHANGED <<ctl, clientVars, handled, actor, pending, agent, asks, store>>

------------------------------------------------------------------------------

ClientNext == SendCommand \/ CloseChannel \/ SendSignal

ActorNext ==
    \/ HandlePendingCommand \/ HandleNextCommand \/ HandleSignal \/ HandleClosedChannel
    \/ HandleConfirmRequest \/ Tick \/ HandleInterrupt \/ HandleClosedDuringPrompt

TurnNext ==
    \/ TurnDenied \/ TurnBegins \/ TurnSignalsLoopSuccess \/ TurnAsksConfirmation \/ TurnEnds

Next == ClientNext \/ ActorNext \/ TurnNext \/ BridgeEnds

\* Something for the actor to do and for the prompt's future: the states in which
\* a step of theirs is possible.
ActorReady ==
    \/ Prompting /\ (cmd_rx # <<>> \/ ~open)
    \/ actor.phase = "select" /\ (pending # <<>> \/ cmd_rx # <<>> \/ ~open)
    \/ Selecting /\ (signal \/ asks # <<>> \/ (agent.present /\ agent.asks_first))

TurnReady == turn.phase \in {"accepted", "running"}

\* The runtime keeps polling the actor, the future of the prompt and the bridge
\* tasks; the provider's stream and the retries of a turn are bounded.  This is
\* weak fairness of the three, with ENABLED spelled out for the first two.
Fairness ==
    /\ []<>~ActorReady \/ []<><<ActorNext>>_vars
    /\ []<>~TurnReady \/ []<><<TurnNext>>_vars
    /\ WF_vars(BridgeEnds)

Spec == Init /\ [][Next]_vars /\ Fairness

------------------------------------------------------------------------------
(* Properties. *)

\* Types; a confirmation id the store waits for was issued before next_id, so
\* register never hands it out again.
TypeOK ==
    /\ ctl \in ControllerState
    /\ sent \in Seq(Kinds) /\ handled \in Seq(1..Len(sent))
    /\ cmd_rx \in Seq(1..Len(sent)) /\ pending \in Seq(1..Len(sent))
    /\ open \in BOOLEAN /\ signal \in BOOLEAN
    /\ actor \in [phase : {"select", "command", "auto_test", "stopped"}, ends : BOOLEAN]
    /\ agent \in [present : BOOLEAN, cancelled : BOOLEAN, asks_first : BOOLEAN, unsaved : BOOLEAN]
    /\ turn \in [phase : {"none", "accepted", "running", "confirm"}, ask : Nat]
    /\ asks \in Seq(Nat) /\ store \in [pending : SUBSET Nat, next_id : Nat]
    /\ bridges \subseteq Nat \X Nat
    /\ \A id \in store.pending : id < store.next_id

\* The controller is busy exactly while the actor runs a prompt, or after it
\* lost its agent with one: no command handled between prompts leaves it busy.
BusyIffPrompting == ctl.busy <=> Prompting \/ ~agent.present

\* Between commands no auto-test is marked as in progress: the guard
\* maybe_auto_test sets is always taken back, so no later auto-test is lost.
AutoTestGuardCleared ==
    actor.phase = "select" /\ agent.present
        => ~ctl.auto_test_in_progress /\ ~core.auto_test_in_progress

\* Commands are handled in the order they were sent and none is skipped or
\* handled twice, whether they were kept during a prompt or not; only an Abort
\* overtakes the others.
CommandsInOrder ==
    /\ \A i, j \in DOMAIN handled : i < j => handled[i] < handled[j]
    /\ \A j \in DOMAIN handled : \A n \in 1..(handled[j] - 1) :
            sent[n] # "Abort" => \E i \in DOMAIN handled : handled[i] = n

\* A session that stops with its agent leaves no message out of the ledger.
NothingUnsavedWhenStopped ==
    actor.phase = "stopped" /\ agent.present => ~agent.unsaved

\* A prompt waits for an answer of the client.
AwaitsConfirmation == turn.phase = "confirm"

\* Every command is taken from the channel, unless the session stops or its turn
\* waits for a confirmation, and in the end the actor listens again.
CommandsTaken ==
    []<>(\/ cmd_rx = <<>> /\ pending = <<>> /\ ~Prompting
         \/ actor.phase = "stopped"
         \/ AwaitsConfirmation)

\* A Kill or Shutdown stops the actor, though it is not heard during a prompt.
SignalStops == signal ~> actor.phase = "stopped" \/ AwaitsConfirmation

\* A request for confirmation is answered by a client or refused after 60 s.
ConfirmationAnswered == AwaitsConfirmation ~> ~AwaitsConfirmation

=============================================================================
