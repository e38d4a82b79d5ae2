---------------------------- MODULE StdioPlugin ----------------------------
(***************************************************************************)
(* One stdio plugin of crates/clankers-plugin: the plugin manager behind   *)
(* its mutex, the supervisor tasks that run the plugin's process and       *)
(* restart it, the user's enable, disable and reload, and the tool calls   *)
(* of src/tools/plugin_tool.rs that wait for the process's answers.        *)
(*                                                                         *)
(* Every start has a run id.  A stop takes the run out of the manager's    *)
(* map and tells its task to shut down; the task of an old run may go on   *)
(* for seconds beside the new one.  A task takes the manager's lock many   *)
(* times.  Sections that follow each other are one step where a step of    *)
(* another thread between them has the effect of one before or after both  *)
(* (a state set only while the run is current, the run's own live state    *)
(* cleared); the ones a stop, a start or a reload can fall between stay    *)
(* apart: a frame and its effect, the removal of the supervisor and the    *)
(* final state, the user's stop and start.                                 *)
(*                                                                         *)
(* The process, its frames and its exits are the environment.  Its hello,  *)
(* which only lets ready follow, is part of hearing ready; a reader that   *)
(* ended is a process that says nothing more, since the connection then    *)
(* waits for the exit.  The tools of the plugin are one tool; whether its  *)
(* name collides with another plugin's or a built-in's is not decided.     *)
(***************************************************************************)
EXTENDS Naturals, Sequences, FiniteSets

CONSTANTS
    Calls,         \* ids of tool calls
    MaxRuns,       \* bound: how often the plugin is started
    RestartLimit   \* restart_delays.len()

ASSUME PluginAssumption ==
    /\ MaxRuns \in Nat \ {0}
    /\ RestartLimit \in Nat \ {0}

Runs == 1..MaxRuns
NoRun == 0

VARIABLES
    \* PluginManager, under its mutex
    pstate,      \* PluginInfo.state
    supervisor,  \* stdio_runtime.supervisors: the run of the registered handle
    live,        \* stdio_runtime.live_state: the run that wrote it and whether the tool is in it
    next_run_id,
    \* the supervisor tasks
    task,        \* each run's task
    commands,    \* each run's command channel
    pending,     \* pending_calls of each run's connection
    child,       \* each run's process
    \* the users of the manager
    user,        \* the thread of the slash commands
    call,        \* execute_stdio of each call
    event        \* the calls with a terminal event in their channel

manager == <<pstate, supervisor, live, next_run_id>>
vars == <<pstate, supervisor, live, next_run_id, task, commands, pending, child, user, call, event>>

NoLive == [run |-> NoRun, tool |-> FALSE]

-----------------------------------------------------------------------------
(* The manager under its lock, for the task of run r.                      *)

\* SupervisorCommand.  DeliverEvent and CancelTool are left out: they pass a frame to the process,
\* and in a backoff they end the wait early, as its timer may.
Invoke(c) == [kind |-> "invoke", id |-> c]
Drop(c) == [kind |-> "drop", id |-> c]
Shutdown(target) == [kind |-> "shutdown", target |-> target]

IsCurrent(r) == supervisor = r

\* set_plugin_state_if_current
MaySet(r) == IsCurrent(r)

\* Mutant: the final state is reported whoever supervises the plugin.
FinishAlways(r) == TRUE

\* set_plugin_state_if_current_or_absent
MayFinish(r) == supervisor \in {NoRun, r}

\* Mutant: the live state is left to the run that comes next.
KeepLive(r) == live' = live

\* clear_live_state_if_run
ClearLive(r) == live' = IF live.run = r THEN NoLive ELSE live

\* Mutant: a run that gives up stays registered.
KeepSupervisor(r) == UNCHANGED supervisor

\* remove_supervisor_if_current
RemoveSupervisor(r) == supervisor' = IF IsCurrent(r) THEN NoRun ELSE supervisor

live_state_for_run(r) == IF live.run = r THEN live ELSE [run |-> r, tool |-> FALSE]

-----------------------------------------------------------------------------
(* supervise_stdio_plugin and run_stdio_connection.                        *)

\* pc; failed_starts_without_ready; is_ready_seen; the frame in hand, or the state to end with.
NewTask == [pc |-> "none", fails |-> 0, ready |-> FALSE, arg |-> "none"]

At(r, pc) == task[r].pc = pc

Goto(r, pc, fails, ready, arg) ==
    task' = [task EXCEPT ![r] = [pc |-> pc, fails |-> fails, ready |-> ready, arg |-> arg]]

\* A task that has returned: its channel is closed.
Ended(r) == task[r].pc \in {"none", "done"}

\* The top of the loop.
Top(r) ==
    /\ Goto(r, "launch", task[r].fails, task[r].ready, "none")
    /\ pstate' = IF MaySet(r) THEN "Starting" ELSE pstate

Stopped(r, target) ==
    /\ Goto(r, "final", 0, FALSE, target)
    /\ RemoveSupervisor(r)
    /\ ClearLive(r)
    /\ UNCHANGED pstate

\* Mutant: the limit is off by one.
ExhaustedAfterOneMore(fails) == fails > RestartLimit

\* No restart delay is left after so many starts without ready.
Exhausted(fails) == fails >= RestartLimit

UnexpectedExit(r, ready) ==
    LET fails == IF ready THEN 0 ELSE task[r].fails + 1
        giveUp == ~ready /\ Exhausted(fails)
    IN  /\ ClearLive(r)
        /\ IF giveUp THEN Goto(r, "final", 0, FALSE, "Error") ELSE Goto(r, "backoff", fails, FALSE, "none")
        /\ IF giveUp THEN RemoveSupervisor(r) /\ UNCHANGED pstate
                     ELSE pstate' = (IF MaySet(r) THEN "Backoff" ELSE pstate) /\ UNCHANGED supervisor

\* The last section of a task: the state it ends with.
Finish(r) ==
    /\ At(r, "final")
    /\ pstate' = IF MayFinish(r) THEN task[r].arg ELSE pstate
    /\ Goto(r, "done", 0, FALSE, "none")
    /\ commands' = [commands EXCEPT ![r] = <<>>]
    /\ UNCHANGED <<supervisor, live, next_run_id, pending, child, user, call, event>>

\* The call still has its receiver.
Listening(c) == call[c].at \in {"waiting", "cancelling"}

\* finish_pending_calls
Disconnect(r) ==
    /\ event' = event \cup {c \in pending[r] : Listening(c)}
    /\ pending' = [pending EXCEPT ![r] = {}]

\* The process is spawned and the host's hello is written to it.
Launch(r) ==
    /\ At(r, "launch")
    /\ Goto(r, "open", task[r].fails, task[r].ready, "none")
    /\ child' = [child EXCEPT ![r] = "running"]
    /\ UNCHANGED <<manager, commands, pending, user, call, event>>

\* collect_launch_spec or the spawn fails.
LaunchFails(r) ==
    /\ At(r, "launch")
    /\ UnexpectedExit(r, FALSE)
    /\ UNCHANGED <<next_run_id, commands, pending, child, user, call, event>>

\* The environment: the process exits, once the frames it wrote that are still to be heard were.
ChildExits(r) ==
    /\ At(r, "open") \/ At(r, "closing")
    /\ child[r] = "running"
    /\ child' = [child EXCEPT ![r] = "exited"]
    /\ UNCHANGED <<manager, task, commands, pending, user, call, event>>

\* The select of the connection is biased: a command goes first.
OpenCommand(r, c) ==
    /\ At(r, "open")
    /\ commands[r] # <<>> /\ Head(commands[r]) = c
    /\ commands' = [commands EXCEPT ![r] = Tail(@)]

OpenInvoke(r, i) ==
    /\ OpenCommand(r, Invoke(i))
    /\ IF task[r].ready
       THEN /\ pending' = [pending EXCEPT ![r] = @ \cup {i}]
            /\ UNCHANGED event
       ELSE /\ event' = IF Listening(i) THEN event \cup {i} ELSE event
            /\ UNCHANGED pending
    /\ UNCHANGED <<manager, task, child, user, call>>

OpenDrop(r, i) ==
    /\ OpenCommand(r, Drop(i))
    /\ pending' = [pending EXCEPT ![r] = @ \ {i}]
    /\ UNCHANGED <<manager, task, child, user, call, event>>

\* Shutdown: the process is told to stop and is waited for.
OpenShutdown(r, target) ==
    /\ OpenCommand(r, Shutdown(target))
    /\ Goto(r, "closing", 0, FALSE, target)
    /\ UNCHANGED <<manager, pending, child, user, call, event>>

\* Mutant: the process is waited for without a limit.
GraceNever(r) == FALSE /\ UNCHANGED vars

\* The grace period ends: the process is killed.
GraceExpires(r) ==
    /\ At(r, "closing")
    /\ child[r] = "running"
    /\ child' = [child EXCEPT ![r] = "exited"]
    /\ UNCHANGED <<manager, task, commands, pending, user, call, event>>

Closed(r) ==
    /\ At(r, "closing")
    /\ child[r] = "exited"
    /\ Disconnect(r)
    /\ Stopped(r, task[r].arg)
    /\ child' = [child EXCEPT ![r] = "none"]
    /\ UNCHANGED <<next_run_id, commands, user, call>>

\* An event of the reader tasks is taken when no command is waiting.
Listens(r) == At(r, "open") /\ commands[r] = <<>> /\ child[r] = "running"

\* A frame that breaks the protocol ends the connection: any but hello before hello, any but ready
\* before ready, hello and ready after it.  The senders of the pending calls are dropped and the process
\* is no longer watched.
HearProtocolError(r) ==
    /\ Listens(r)
    /\ UnexpectedExit(r, FALSE)
    /\ pending' = [pending EXCEPT ![r] = {}]
    /\ child' = [child EXCEPT ![r] = "none"]
    /\ UNCHANGED <<next_run_id, commands, user, call, event>>

\* tool_result, tool_error, tool_cancelled.
HearAnswer(r, c) ==
    /\ Listens(r)
    /\ task[r].ready /\ c \in pending[r]
    /\ event' = IF Listening(c) THEN event \cup {c} ELSE event
    /\ pending' = [pending EXCEPT ![r] = @ \ {c}]
    /\ UNCHANGED <<manager, task, commands, child, user, call>>

\* The other frames change the manager: ready; register_tools and unregister_tools, which only a
\* ready plugin may send; subscribe_events and lines of stderr, which make the live state the run's
\* and no more.  The frame is taken, then the lock.
HearReady(r) ==
    /\ Listens(r) /\ ~task[r].ready
    /\ Goto(r, "frame", task[r].fails, task[r].ready, "ready")
    /\ UNCHANGED <<manager, commands, pending, child, user, call, event>>

HearLive(r) ==
    /\ Listens(r)
    /\ Goto(r, "frame", task[r].fails, task[r].ready, "live")
    /\ UNCHANGED <<manager, commands, pending, child, user, call, event>>

ApplyReady(r) ==
    /\ At(r, "frame") /\ task[r].arg = "ready"
    /\ Goto(r, "open", task[r].fails, TRUE, "none")
    /\ pstate' = IF MaySet(r) THEN "Active" ELSE pstate
    /\ UNCHANGED <<supervisor, live, next_run_id, commands, pending, child, user, call, event>>

ApplyLive(r) ==
    /\ At(r, "frame") /\ task[r].arg = "live"
    /\ Goto(r, "open", task[r].fails, task[r].ready, "none")
    /\ \E tool \in IF task[r].ready THEN BOOLEAN ELSE {live_state_for_run(r).tool} :
          live' = [live_state_for_run(r) EXCEPT !.tool = tool]
    /\ UNCHANGED <<pstate, supervisor, next_run_id, commands, pending, child, user, call, event>>

\* child.wait() is polled last.
ExitSeen(r) ==
    /\ At(r, "open")
    /\ commands[r] = <<>>
    /\ child[r] = "exited"
    /\ Disconnect(r)
    /\ UnexpectedExit(r, task[r].ready)
    /\ child' = [child EXCEPT ![r] = "none"]
    /\ UNCHANGED <<next_run_id, commands, user, call>>

\* The select of the backoff: any command ends the wait, and all but Shutdown restart at once.
BackoffCommand(r) ==
    /\ At(r, "backoff")
    /\ commands[r] # <<>>
    /\ LET c == Head(commands[r])
       IN  /\ IF c.kind = "shutdown"
              THEN Stopped(r, c.target)
              ELSE Top(r) /\ UNCHANGED <<supervisor, live>>
           /\ event' = IF c.kind = "invoke" /\ Listening(c.id) THEN event \cup {c.id} ELSE event
    /\ commands' = [commands EXCEPT ![r] = Tail(@)]
    /\ UNCHANGED <<next_run_id, pending, child, user, call>>

BackoffOver(r) ==
    /\ At(r, "backoff")
    /\ commands[r] = <<>>
    /\ Top(r)
    /\ UNCHANGED <<supervisor, live, next_run_id, commands, pending, child, user, call, event>>

-----------------------------------------------------------------------------
(* The slash commands: one thread, which takes the manager's lock once for *)
(* the stop and once more for the start.                                   *)

\* A send fails when the task has returned.
Send(r, cs) == [commands EXCEPT ![r] = IF Ended(r) THEN @ ELSE @ \o cs]
SendCurrent(cs) == IF supervisor = NoRun THEN commands ELSE Send(supervisor, cs)

\* The callers set the state also when there is no supervisor to stop.
stop_stdio_plugin(state) ==
    /\ supervisor' = NoRun
    /\ live' = IF supervisor # NoRun /\ live.run = supervisor THEN NoLive ELSE live
    /\ commands' = SendCurrent(<<Shutdown(state)>>)
    /\ pstate' = state

disable ==
    /\ user = "idle"
    /\ stop_stdio_plugin("Disabled")
    /\ UNCHANGED <<next_run_id, task, pending, child, user, call, event>>

\* enable_plugin, reload_plugin: up to the first unlock.
enable ==
    /\ user = "idle" /\ next_run_id <= MaxRuns
    /\ pstate = "Disabled"
    /\ pstate' = "Loaded"
    /\ user' = "start"
    /\ UNCHANGED <<supervisor, live, next_run_id, task, commands, pending, child, call, event>>

reload ==
    /\ user = "idle" /\ next_run_id <= MaxRuns
    /\ stop_stdio_plugin("Loaded")
    /\ user' = "start"
    /\ UNCHANGED <<next_run_id, task, pending, child, call, event>>

start_stdio_plugin ==
    /\ user = "start"
    /\ user' = "idle"
    /\ IF pstate \in {"Disabled", "Error"} \/ supervisor # NoRun
       THEN UNCHANGED <<manager, task>>
       ELSE /\ pstate' = "Starting"
            /\ live' = NoLive
            /\ supervisor' = next_run_id
            /\ next_run_id' = next_run_id + 1
            /\ Goto(next_run_id, "launch", 0, FALSE, "none")
    /\ UNCHANGED <<commands, pending, child, call, event>>

\* The host exits after this: nothing more is asked of the manager.
shutdown_plugin_runtime ==
    /\ user = "idle"
    /\ user' = "gone"
    /\ commands' = SendCurrent(<<Shutdown("Loaded")>>)
    /\ UNCHANGED <<manager, task, pending, child, call, event>>

-----------------------------------------------------------------------------
(* The agent's side: events and tool calls.                                *)

\* start_stdio_tool_call: the checks under the lock, and the send after it.
CheckCall(c) ==
    /\ call[c].at = "idle"
    /\ pstate = "Active" /\ live.tool /\ supervisor # NoRun
    /\ call' = [call EXCEPT ![c] = [at |-> "checked", run |-> supervisor]]
    /\ UNCHANGED <<manager, task, commands, pending, child, user, event>>

SendInvoke(c) ==
    /\ call[c].at = "checked"
    /\ commands' = Send(call[c].run, <<Invoke(c)>>)
    /\ call' = [call EXCEPT ![c] = IF Ended(@.run) THEN [at |-> "done", run |-> NoRun]
                                                  ELSE [@ EXCEPT !.at = "waiting"]]
    /\ UNCHANGED <<manager, task, pending, child, user, event>>

\* The call's channel has a sender: in a command still queued or among a connection's pending calls.
SenderAlive(c) ==
    \E r \in Runs : \/ c \in pending[r]
                    \/ \E i \in DOMAIN commands[r] : commands[r][i] = Invoke(c)

\* events.recv(): a terminal event, or the end of a channel without senders.
Hears(c) == c \in event \/ ~SenderAlive(c)

Return(c) ==
    /\ call' = [call EXCEPT ![c] = [at |-> "done", run |-> NoRun]]
    /\ event' = event \ {c}
    /\ UNCHANGED <<manager, task, pending, child, user>>

Receive(c) ==
    /\ call[c].at = "waiting"
    /\ Hears(c)
    /\ Return(c)
    /\ UNCHANGED commands

\* The tool's time is up: the run registered now is told, not the call's own.
TimeOut(c) ==
    /\ call[c].at = "waiting"
    /\ commands' = SendCurrent(<<Drop(c)>>)
    /\ Return(c)

\* The turn is cancelled.
CancelCall(c) ==
    /\ call[c].at = "waiting"
    /\ call' = [call EXCEPT ![c].at = "cancelling"]
    /\ UNCHANGED <<manager, task, commands, pending, child, user, event>>

\* finish_cancelled_stdio_call: any terminal event, or the grace period's end.
finish_cancelled_stdio_call(c) ==
    /\ call[c].at = "cancelling"
    /\ commands' = SendCurrent(<<Drop(c)>>)
    /\ Return(c)

-----------------------------------------------------------------------------
\* Plugins are started with the program, but for those the settings disable.
Init ==
    /\ \/ pstate = "Loaded" /\ user = "start"
       \/ pstate = "Disabled" /\ user = "idle"
    /\ supervisor = NoRun
    /\ live = NoLive
    /\ next_run_id = 1
    /\ task = [r \in Runs |-> NewTask]
    /\ commands = [r \in Runs |-> <<>>]
    /\ pending = [r \in Runs |-> {}]
    /\ child = [r \in Runs |-> "none"]
    /\ call = [c \in Calls |-> [at |-> "idle", run |-> NoRun]]
    /\ event = {}

\* What a task does without waiting for anyone, timers included.
TaskStep(r) ==
    \/ Launch(r) \/ LaunchFails(r)
    \/ \E i \in Calls : OpenInvoke(r, i) \/ OpenDrop(r, i)
    \/ \E target \in {"Loaded", "Disabled"} : OpenShutdown(r, target)
    \/ GraceExpires(r) \/ Closed(r)
    \/ ApplyReady(r) \/ ApplyLive(r)
    \/ ExitSeen(r)
    \/ BackoffCommand(r) \/ BackoffOver(r)
    \/ Finish(r)

ProcessStep(r) ==
    \/ ChildExits(r)
    \/ HearProtocolError(r)
    \/ \E c \in Calls : HearAnswer(r, c)
    \/ HearReady(r) \/ HearLive(r)

CallStep(c) == SendInvoke(c) \/ Receive(c) \/ finish_cancelled_stdio_call(c)

Next ==
    \/ \E r \in Runs : TaskStep(r) \/ ProcessStep(r)
    \/ disable \/ enable \/ reload \/ start_stdio_plugin \/ shutdown_plugin_runtime
    \/ \E c \in Calls :
        CheckCall(c) \/ CallStep(c) \/ CancelCall(c) \/ TimeOut(c)

\* Tasks and their timers run; a process need not exit, speak or answer, and
\* neither a tool's timeout nor the user is relied on.
Fairness ==
    /\ \A r \in Runs : WF_vars(TaskStep(r))
    /\ \A c \in Calls : WF_vars(CallStep(c))

Spec == Init /\ [][Next]_vars /\ Fairness

-----------------------------------------------------------------------------
(* Properties.                                                             *)

States == {"Loaded", "Starting", "Active", "Backoff", "Error", "Disabled"}
Commands == {Invoke(c) : c \in Calls} \cup {Drop(c) : c \in Calls}
              \cup {Shutdown(s) : s \in {"Loaded", "Disabled"}}
Supervising == [pc: {"none", "launch", "open", "frame", "closing", "backoff", "final", "done"},
                fails: 0..(RestartLimit - 1), ready: BOOLEAN,
                arg: {"none", "ready", "live", "Loaded", "Disabled", "Error"}]
ToolCalls == [at: {"idle", "checked", "waiting", "cancelling", "done"}, run: Runs \cup {NoRun}]

\* Every variable has its type; a call under way has a run.
TypeOK ==
    /\ pstate \in States
    /\ supervisor \in Runs \cup {NoRun}
    /\ live \in [run : Runs \cup {NoRun}, tool : BOOLEAN]
    /\ next_run_id \in 1..(MaxRuns + 1)
    /\ task \in [Runs -> Supervising]
    /\ commands \in [Runs -> Seq(Commands)]
    /\ pending \in [Runs -> SUBSET Calls]
    /\ child \in [Runs -> {"none", "running", "exited"}]
    /\ user \in {"idle", "start", "gone"}
    /\ call \in [Calls -> ToolCalls]
    /\ \A c \in Calls : call[c].at \in {"checked", "waiting", "cancelling"} => call[c].run \in Runs
    /\ event \subseteq Calls

Open(r) == task[r].pc \in {"open", "frame", "closing"}

\* The state shown for the plugin is the state of its supervisor: registered, it is the state its
\* task is in, and Active only with an open connection that was ready; without a supervisor such a
\* state is shown only until a task reports the final one.  set_plugin_state_if_current and its
\* variant keep the tasks of older runs out of it.
StateMatchesSupervisor ==
    IF supervisor = NoRun
    THEN pstate \in {"Starting", "Active", "Backoff"} => \E r \in Runs : At(r, "final")
    ELSE \/ pstate = "Starting" /\ task[supervisor].pc \in {"launch", "open", "frame", "closing"}
         \/ pstate = "Active" /\ Open(supervisor) /\ (task[supervisor].ready \/ At(supervisor, "closing"))
         \/ pstate = "Backoff" /\ At(supervisor, "backoff")

\* Tools outlive no connection: the live state belongs to a run whose connection is open, also
\* when an old run wrote it after its plugin was reloaded (live_state_for_run against
\* clear_live_state_if_run).
ToolsOfOpenConnection == live.run # NoRun => Open(live.run)

\* A supervised process that exits, or breaks the protocol, is started again or given up: the
\* supervisor does not stay registered without a process (the backoff and the limit of
\* supervise_stdio_plugin).
RestartsOrGivesUp ==
    LET running == supervisor = NoRun \/ (supervisor # NoRun /\ child[supervisor] = "running")
    IN  ~running ~> running

\* A tool call whose run was stopped or given up ends without the help of the tool's timeout,
\* whatever the process does: its events are sent or its senders dropped.
StopReleasesCalls ==
    \A c \in Calls :
        (call[c].at \in {"checked", "waiting", "cancelling"} /\ supervisor # call[c].run) ~> call[c].at = "done"

=============================================================================
