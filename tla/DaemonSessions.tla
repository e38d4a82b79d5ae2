--------------------------- MODULE DaemonSessions ---------------------------
(***************************************************************************)
(* The sessions of the daemon (src/modes/daemon) over its lives: the table *)
(* in memory (DaemonState), the catalog on disk (SessionCatalog), the      *)
(* tasks that create, find, recover, kill and reap sessions, and the       *)
(* shutdowns, crashes and starts between which only the catalog survives.  *)
(*                                                                         *)
(* The table has a lock; the catalog has none, and most tasks write it     *)
(* after they unlock the table.  set_state reads an entry and writes it in *)
(* two transactions, as spawn_catalog_updater does under the lock: the     *)
(* last writer decides the state, so each is one step here, and what they  *)
(* write back over a step between the two is a choice of that step.        *)
(* A session is its id.  What its actor does is module DaemonSession's; a  *)
(* handle is live when it holds channels, also to an actor that ended.     *)
(* The catalog's model, times and turn counts are left out: any session    *)
(* may have been idle for long enough at any time.                         *)
(***************************************************************************)
EXTENDS Naturals, TLC

CONSTANTS
    Keys,       \* SessionKey: an iroh peer, a Matrix user and room
    Requests,   \* tasks that handle a message of a key, or a CreateSession
    MaxId,      \* bound: how many sessions are created
    MaxLives    \* bound: how often the daemon starts

ASSUME SessionsAssumption == MaxId \in Nat \ {0} /\ MaxLives \in Nat \ {0}

Ids == 1..MaxId
NoId == 0
CONSTANT NoKey  \* the key of a session created over the control socket
ASSUME NoKeyAssumption == NoKey \notin Keys

VARIABLES
    daemon,      \* up, stopping (the signal was taken), down
    lives,       \* how often it has started
    next_id,     \* generate_id: never used before
    \* DaemonState
    handle,      \* sessions: none, live, suspended (no channels)
    key_index,
    \* SessionCatalog
    catalog,     \* the lifecycle of each entry
    catalog_key, \* SESSION_KEYS_TABLE
    \* tasks
    request,     \* where each request stands
    stale,       \* the reaper's list
    gc,          \* the session whose entry the collector removed, and the keys it found for it
    suspending,  \* transition_all's list at a shutdown
    \* history
    served,      \* the session of each key's last answered message, until it is ended on purpose
    raced,       \* keys with a message while another created their session, or collected while in use
    killed       \* sessions named by a KillSession

table == <<handle, key_index>>
disk == <<catalog, catalog_key>>
history == <<served, raced, killed>>
vars == <<daemon, lives, next_id, handle, key_index, catalog, catalog_key, request, stale, gc,
          suspending, served, raced, killed>>

Idle == [pc |-> "idle", key |-> NoKey, sid |-> NoId]
NoGc == [sid |-> NoId, keys |-> {}]
Running == daemon # "down"

-----------------------------------------------------------------------------
(* The catalog: one transaction each.                                      *)

set_states(S, state) ==
    [s \in Ids |-> IF s \in S /\ catalog[s] # "none" THEN state ELSE catalog[s]]
set_state(s, state) == set_states({s}, state)

\* spawn_catalog_updater: what an unlocked write of s leaves, since the updater may write back the
\* entry that it read before it
OrWrittenBack(s, written) == {written} \cup {old \in {catalog} : handle[s] # "none"}

-----------------------------------------------------------------------------
(* DaemonState, under its lock.                                            *)

\* remove_session, for each of S
remove_sessions(S) ==
    /\ handle' = [s \in Ids |-> IF s \in S THEN "none" ELSE handle[s]]
    /\ key_index' = [k \in Keys |-> IF key_index[k] \in S THEN NoId ELSE key_index[k]]

\* History: the sessions S were ended on purpose.
Ended(S) == served' = [k \in Keys |-> IF served[k] \in S THEN NoId ELSE served[k]]

-----------------------------------------------------------------------------
(* get_or_create_keyed_session, and handle_control's CreateSession.        *)

Goto(r, pc, sid) == request' = [request EXCEPT ![r] = [pc |-> pc, key |-> @.key, sid |-> sid]]

Creating(k) == {r \in Requests : request[r].key = k /\ request[r].pc \in {"create", "insert", "key"}}

\* Mutant: an unknown key is answered with the index's empty entry.
FoundWhenUnknown(s) == s = NoId \/ handle[s] = "live"

Found(s) == s # NoId /\ handle[s] = "live"

\* The fast path under the lock, then, if the handle is a placeholder, the catalog's entry.
Lookup(r, k) ==
    /\ Running /\ request[r] = Idle
    /\ LET s == key_index[k]
           next == IF Found(s) THEN "serve"
                   ELSE IF s # NoId /\ handle[s] = "suspended" /\ catalog[s] # "none" THEN "recover"
                   ELSE "create"
       IN  /\ request' = [request EXCEPT ![r] = [pc |-> next, key |-> k,
                                                 sid |-> IF next = "create" THEN NoId ELSE s]]
           /\ raced' = IF Creating(k) # {} THEN raced \cup {k} ELSE raced
    /\ UNCHANGED <<daemon, lives, next_id, table, disk, stale, gc, suspending, served, killed>>

CreateSession(r) ==
    /\ Running /\ request[r] = Idle
    /\ request' = [request EXCEPT ![r].pc = "create"]
    /\ UNCHANGED <<daemon, lives, next_id, table, disk, stale, gc, suspending, history>>

\* spawn_agent_process, then the handle and the key under the lock.
Register(r) ==
    /\ request[r].pc = "create" /\ next_id <= MaxId
    /\ next_id' = next_id + 1
    /\ handle' = [handle EXCEPT ![next_id] = "live"]
    /\ key_index' = [k \in Keys |-> IF k = request[r].key THEN next_id ELSE key_index[k]]
    /\ Goto(r, "insert", next_id)
    /\ UNCHANGED <<daemon, lives, disk, stale, gc, suspending, history>>

\* Mutant: the entry of a keyed session is not written.
InsertUnkeyedSession(r) ==
    /\ request[r].pc = "insert"
    /\ catalog' = IF request[r].key = NoKey
                  THEN [catalog EXCEPT ![request[r].sid] = "Active"] ELSE catalog
    /\ Goto(r, IF request[r].key = NoKey THEN "bind" ELSE "key", request[r].sid)
    /\ UNCHANGED <<daemon, lives, next_id, table, catalog_key, stale, gc, suspending, history>>

InsertSession(r) ==
    /\ request[r].pc = "insert"
    /\ catalog' = [catalog EXCEPT ![request[r].sid] = "Active"]
    /\ Goto(r, IF request[r].key = NoKey THEN "bind" ELSE "key", request[r].sid)
    /\ UNCHANGED <<daemon, lives, next_id, table, catalog_key, stale, gc, suspending, history>>

\* Mutant: a key that the catalog knows keeps its session.
InsertNewKey(r) ==
    /\ request[r].pc = "key"
    /\ catalog_key' = [catalog_key EXCEPT ![request[r].key] = IF @ = NoId THEN request[r].sid ELSE @]
    /\ Goto(r, "serve", request[r].sid)
    /\ UNCHANGED <<daemon, lives, next_id, table, catalog, stale, gc, suspending, history>>

InsertKey(r) ==
    /\ request[r].pc = "key"
    /\ catalog_key' = [catalog_key EXCEPT ![request[r].key] = request[r].sid]
    /\ Goto(r, "serve", request[r].sid)
    /\ UNCHANGED <<daemon, lives, next_id, table, catalog, stale, gc, suspending, history>>

\* The session socket of a CreateSession is bound, or not: the handle is then taken out again
\* and the entry given up.
Bind(r) ==
    /\ request[r].pc = "bind"
    /\ request' = [request EXCEPT ![r] = Idle]
    /\ UNCHANGED <<daemon, lives, next_id, table, disk, stale, gc, suspending, history>>

BindFails(r) ==
    /\ request[r].pc = "bind"
    /\ remove_sessions({request[r].sid})
    /\ Goto(r, "undo", request[r].sid)
    /\ UNCHANGED <<daemon, lives, next_id, disk, stale, gc, suspending, history>>

UndoCreate(r) ==
    /\ request[r].pc = "undo"
    /\ catalog' = set_state(request[r].sid, "Tombstoned")
    /\ request' = [request EXCEPT ![r] = Idle]
    /\ UNCHANGED <<daemon, lives, next_id, table, catalog_key, stale, gc, suspending, history>>

\* The recovered actor's channels, if the handle is still there; the entry after the unlock.
Recover(r) ==
    /\ request[r].pc = "recover"
    /\ handle' = [handle EXCEPT ![request[r].sid] = IF @ = "none" THEN @ ELSE "live"]
    /\ Goto(r, "activate", request[r].sid)
    /\ UNCHANGED <<daemon, lives, next_id, key_index, disk, stale, gc, suspending, history>>

Activate(r) ==
    /\ request[r].pc = "activate"
    /\ catalog' \in OrWrittenBack(request[r].sid, set_state(request[r].sid, "Active"))
    /\ Goto(r, "serve", request[r].sid)
    /\ UNCHANGED <<daemon, lives, next_id, table, catalog_key, stale, gc, suspending, history>>

\* prompt_and_collect returns.  History: the answer counts while its session is the key's.
Answer(r) ==
    LET q == request[r]
    IN  /\ q.pc = "serve"
        /\ request' = [request EXCEPT ![r] = Idle]
        /\ served' = IF key_index[q.key] = q.sid /\ q.sid \notin killed
                     THEN [served EXCEPT ![q.key] = q.sid] ELSE served
        /\ UNCHANGED <<daemon, lives, next_id, table, disk, stale, gc, suspending, raced, killed>>

-----------------------------------------------------------------------------
(* The other users of the table.                                           *)

\* AttachSession, on either transport: recover_session, all under the lock.
Attach(s) ==
    /\ Running
    /\ handle[s] = "suspended" /\ catalog[s] # "none"
    /\ handle' = [handle EXCEPT ![s] = "live"]
    /\ catalog' = set_state(s, "Active")
    /\ UNCHANGED <<daemon, lives, next_id, key_index, catalog_key, request, stale, gc, suspending, history>>

\* KillSession: the actor is told to disconnect and the entry given up; the handle stays.
Kill(s) ==
    /\ Running
    /\ handle[s] # "none"
    /\ catalog' = set_state(s, "Tombstoned")
    /\ Ended({s})
    /\ killed' = killed \cup {s}
    /\ UNCHANGED <<daemon, lives, next_id, table, catalog_key, request, stale, gc, suspending, raced>>

\* !restart, and !token: remove_session_for_key.
RestartKey(k) ==
    /\ Running
    /\ key_index[k] # NoId
    /\ remove_sessions({key_index[k]})
    /\ Ended({key_index[k]})
    /\ UNCHANGED <<daemon, lives, next_id, disk, request, stale, gc, suspending, raced, killed>>

\* spawn_idle_reaper: the list under one lock, the removals under the next.
ListIdle ==
    /\ Running /\ stale = {}
    /\ \E S \in SUBSET {s \in Ids : handle[s] # "none"} : S # {} /\ stale' = S
    /\ UNCHANGED <<daemon, lives, next_id, table, disk, request, gc, suspending, history>>

Reap ==
    /\ Running /\ stale # {}
    /\ stale' = {}
    /\ remove_sessions(stale)
    /\ catalog' = set_states(stale, "Tombstoned")
    /\ Ended(stale)
    /\ UNCHANGED <<daemon, lives, next_id, catalog_key, request, gc, suspending, raced, killed>>

\* gc_tombstoned for one entry: remove_session and the list of its keys, then their removal.  A task
\* that has read the entry may write it back, or write another state over it then.
Collect(s) ==
    /\ Running /\ gc = NoGc
    /\ catalog[s] = "Tombstoned"
    /\ catalog' \in {catalog, [catalog EXCEPT ![s] = "none"]}
    /\ gc' = [sid |-> s, keys |-> {k \in Keys : catalog_key[k] = s}]
    /\ UNCHANGED <<daemon, lives, next_id, table, catalog_key, request, stale, suspending, history>>

remove_keys_for_session ==
    /\ Running /\ gc # NoGc
    /\ catalog_key' = [k \in Keys |-> IF k \in gc.keys THEN NoId ELSE catalog_key[k]]
    /\ raced' = raced \cup {k \in gc.keys : catalog_key[k] # gc.sid}
    /\ gc' = NoGc
    /\ UNCHANGED <<daemon, lives, next_id, table, catalog, request, stale, suspending, served, killed>>

-----------------------------------------------------------------------------
(* run_daemon: shutdown, crash and start.                                  *)

\* The signal, shutdown_all, and transition_all's list; the other tasks run on.
Shutdown ==
    /\ daemon = "up"
    /\ daemon' = "stopping"
    /\ suspending' = {s \in Ids : catalog[s] = "Active"}
    /\ UNCHANGED <<lives, next_id, table, disk, request, stale, gc, history>>

\* One entry of the list is written back, whatever became of it.
Suspend(s) ==
    /\ daemon = "stopping"
    /\ s \in suspending
    /\ catalog' \in OrWrittenBack(s, [catalog EXCEPT ![s] = "Suspended"])
    /\ suspending' = suspending \ {s}
    /\ UNCHANGED <<daemon, lives, next_id, table, catalog_key, request, stale, gc, history>>

\* What the process held is gone: at the end of a shutdown, or in a crash.
Gone ==
    /\ daemon' = "down"
    /\ handle' = [s \in Ids |-> "none"]
    /\ key_index' = [k \in Keys |-> NoId]
    /\ request' = [r \in Requests |-> Idle]
    /\ stale' = {}
    /\ gc' = NoGc
    /\ suspending' = {}
    /\ UNCHANGED <<lives, next_id, disk, history>>

Exit == daemon = "stopping" /\ suspending = {} /\ lives < MaxLives /\ Gone
Crash == Running /\ lives < MaxLives /\ Gone

\* Mutant: the keys are restored whether or not their session is.
restore_all_keys(sessions) == catalog_key

\* Only keys of sessions that were loaded.
restore_keys(sessions) == [k \in Keys |-> IF catalog_key[k] \in sessions THEN catalog_key[k] ELSE NoId]

\* Entries left active by a crash are suspended, and the suspended sessions loaded.
Start ==
    /\ daemon = "down"
    /\ daemon' = "up"
    /\ lives' = lives + 1
    /\ catalog' = [s \in Ids |-> IF catalog[s] = "Active" THEN "Suspended" ELSE catalog[s]]
    /\ LET suspended == {s \in Ids : catalog'[s] = "Suspended"}
       IN  /\ handle' = [s \in Ids |-> IF s \in suspended THEN "suspended" ELSE "none"]
           /\ key_index' = restore_keys(suspended)
    /\ UNCHANGED <<next_id, catalog_key, request, stale, gc, suspending, history>>

-----------------------------------------------------------------------------
Init ==
    /\ daemon = "up" /\ lives = 1
    /\ next_id = 1
    /\ handle = [s \in Ids |-> "none"]
    /\ key_index = [k \in Keys |-> NoId]
    /\ catalog = [s \in Ids |-> "none"]
    /\ catalog_key = [k \in Keys |-> NoId]
    /\ request = [r \in Requests |-> Idle]
    /\ stale = {} /\ gc = NoGc /\ suspending = {}
    /\ served = [k \in Keys |-> NoId]
    /\ raced = {} /\ killed = {}

Step(r) ==
    \/ Register(r) \/ InsertSession(r) \/ InsertKey(r)
    \/ Bind(r) \/ BindFails(r) \/ UndoCreate(r)
    \/ Recover(r) \/ Activate(r)
    \/ Answer(r)

Next ==
    \/ \E r \in Requests :
        \/ \E k \in Keys : Lookup(r, k)
        \/ CreateSession(r)
        \/ Step(r)
    \/ \E s \in Ids : Attach(s) \/ Kill(s) \/ Collect(s) \/ Suspend(s)
    \/ \E k \in Keys : RestartKey(k)
    \/ ListIdle \/ Reap \/ remove_keys_for_session
    \/ Shutdown \/ Exit \/ Crash \/ Start

Spec == Init /\ [][Next]_vars

\* The requests are alike.
RequestSymmetry == Permutations(Requests)

-----------------------------------------------------------------------------
(* Properties.                                                             *)

\* Every variable has its type, and a request past its lookup knows its session.
TypeOK ==
    /\ daemon \in {"up", "stopping", "down"}
    /\ lives \in 1..MaxLives
    /\ next_id \in 1..(MaxId + 1)
    /\ handle \in [Ids -> {"none", "live", "suspended"}]
    /\ key_index \in [Keys -> Ids \cup {NoId}]
    /\ catalog \in [Ids -> {"none", "Active", "Suspended", "Tombstoned"}]
    /\ catalog_key \in [Keys -> Ids \cup {NoId}]
    /\ \A r \in Requests :
        /\ request[r].key \in Keys \cup {NoKey}
        /\ IF request[r].pc \in {"idle", "create"} THEN request[r].sid = NoId
           ELSE /\ request[r].pc \in {"insert", "key", "bind", "undo", "recover", "activate", "serve"}
                /\ request[r].sid \in 1..(next_id - 1)
    /\ stale \subseteq Ids /\ suspending \subseteq Ids
    /\ gc.sid \in Ids \cup {NoId} /\ gc.keys \subseteq Keys
    /\ served \in [Keys -> Ids \cup {NoId}]
    /\ raced \subseteq Keys /\ killed \subseteq Ids

\* A key in the index names a registered session: reaping, !restart and a start from a catalog with
\* keys of given-up sessions leave none behind (DaemonState::remove_session, run_daemon's filter).
KeysResolve == \A k \in Keys : key_index[k] # NoId => handle[key_index[k]] # "none"

\* A registered session is found again by the next life of the daemon, whenever this one ends, but
\* for the one a request has not finished creating or giving up and those that were killed: tasks
\* write the catalog after they unlock the table.
RegisteredIsRecoverable ==
    \A s \in Ids :
        handle[s] # "none" /\ s \notin killed =>
            \/ catalog[s] \in {"Active", "Suspended"}
            \/ \E r \in Requests : request[r].sid = s /\ request[r].pc \in {"insert", "undo"}

\* A message of key k would be routed to session s.
RoutesTo(k, s) == key_index[k] = s /\ handle[s] # "none"

\* Until it is killed, reaped or restarted, the session that answered a key's last message is the
\* one its next message finds, over crashes and restarts, when no message of the key came while
\* another was creating its session (get_or_create_keyed_session, the catalog, run_daemon's start).
ConversationSurvivesRestart ==
    Running => \A k \in Keys \ raced :
                  served[k] # NoId => RoutesTo(k, served[k])

\* The catalog has the key of every session in use: once the requests are done, the mapping on disk
\* is the mapping in memory (get_or_create_keyed_session writes the first after it unlocks the
\* second).
KeyMappingsAgree ==
    (\A r \in Requests : request[r] = Idle) /\ gc = NoGc =>
        \A k \in Keys : key_index[k] \notin killed \cup {NoId} => catalog_key[k] = key_index[k]

=============================================================================
