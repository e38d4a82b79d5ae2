------------------------ MODULE DaemonSessionsProofs ------------------------
(***************************************************************************)
(* Proofs about DaemonSessions, for any number of keys, requests, sessions *)
(* and lives of the daemon.                                                *)
(*                                                                         *)
(* A conversation survives a restart because, for a key that no two        *)
(* messages raced for, four records agree: the session of the last answer, *)
(* the index in memory, the key table on disk and the lifecycle in the     *)
(* catalog.  They are written by different tasks, some after the unlock,   *)
(* so the invariant says who may be between two of the writes (a request   *)
(* that creates the key's session, one that has not inserted or has given  *)
(* up its entry, the collector) and what nobody else can do meanwhile.     *)
(***************************************************************************)
EXTENDS DaemonSessions, TLAPS

-----------------------------------------------------------------------------
(* The inductive invariant.                                                *)

Places == {"idle", "create", "insert", "key", "bind", "undo", "recover", "activate", "serve"}

RequestState == [pc : Places, key : Keys \cup {NoKey}, sid : Ids \cup {NoId}]

Shape ==
    /\ request \in [Requests -> RequestState]
    /\ gc \in [sid : Ids \cup {NoId}, keys : SUBSET Keys]

\* Nothing names a session that was not created yet.
Unissued ==
    \A s \in Ids : next_id <= s =>
        /\ handle[s] = "none" /\ catalog[s] = "none"
        /\ \A k \in Keys : s \notin {key_index[k], catalog_key[k], served[k]}
        /\ s \notin stale \cup suspending \cup killed
        /\ gc.sid # s

\* Between two lives there is no request, no index and no collector.
DownIsEmpty ==
    daemon = "down" =>
        /\ \A r \in Requests : request[r].pc = "idle"
        /\ \A k \in Keys : key_index[k] = NoId
        /\ gc = NoGc
        /\ lives < MaxLives

\* The session of a CreateSession is known to that request only, and to no key.
UnkeyedPrivate ==
    \A r \in Requests :
        /\ request[r].pc \in {"idle", "bind", "undo"} => request[r].key = NoKey
        /\ request[r].pc \in {"key", "recover", "activate", "serve"} => request[r].key # NoKey
        /\ request[r].key = NoKey /\ request[r].sid # NoId =>
            /\ \A k \in Keys : request[r].sid \notin {key_index[k], catalog_key[k], served[k]}
            /\ \A q \in Requests : request[q].sid = request[r].sid => q = r

\* A session that is registered but not yet inserted has no entry for anyone to change, and only
\* the key of its request leads to it.
InsertIsNew ==
    \A r \in Requests : request[r].pc = "insert" =>
        /\ catalog[request[r].sid] = "none"
        /\ handle[request[r].sid] # "suspended"
        /\ request[r].sid \notin suspending
        /\ \A k \in Keys : key_index[k] = request[r].sid => k = request[r].key
        /\ \A q \in Requests : request[q].pc = "insert" /\ request[q].sid = request[r].sid => q = r

\* A session whose socket could not be bound stays out of the table until its entry is given up.
UndoneIsGone == \A r \in Requests : request[r].pc = "undo" => handle[request[r].sid] = "none"

\* The collector works on a session that is out of the table or was killed.
CollectedIsDead == gc.sid # NoId => handle[gc.sid] = "none" \/ gc.sid \in killed

\* A key that nobody raced for has one request creating its session at most.
OneCreator == \A k \in Keys \ raced : \A q, r \in Creating(k) : q = r

\* While a request creates the session of such a key, the key has no answered message, its index
\* names that session or none, and no other request holds the session it names, unless killed.
CreatorOwnsKey ==
    \A k \in Keys \ raced : \A r \in Creating(k) :
        /\ served[k] = NoId
        /\ request[r].pc \in {"insert", "key"} => key_index[k] \in {request[r].sid, NoId}
        /\ \A q \in Requests :
              request[q].key = k /\ request[q].pc \in {"recover", "activate", "serve"} =>
                  request[q].sid # key_index[k] \/ request[q].sid \in killed

\* Once its session is created, such a key is on disk as it is in memory.
MappingsAgree ==
    \A k \in Keys \ raced :
        key_index[k] \notin killed \cup {NoId} /\ Creating(k) = {} => catalog_key[k] = key_index[k]

\* The session of such a key's last answer is on disk with its key, and in the index of a daemon
\* that runs.
Kept ==
    \A k \in Keys \ raced :
        served[k] # NoId =>
            /\ served[k] \notin killed
            /\ catalog_key[k] = served[k]
            /\ catalog[served[k]] \in {"Active", "Suspended"}
            /\ Running => key_index[k] = served[k]

IInv ==
    /\ Shape /\ TypeOK /\ Unissued /\ DownIsEmpty
    /\ KeysResolve /\ UnkeyedPrivate /\ InsertIsNew /\ UndoneIsGone /\ CollectedIsDead
    /\ RegisteredIsRecoverable
    /\ OneCreator /\ CreatorOwnsKey /\ MappingsAgree /\ Kept

-----------------------------------------------------------------------------
(* One lemma per part: what each action that touches its variables does.   *)

\* A request past its lookup holds a session that was created before.
LEMMA SessionOfRequest ==
    ASSUME Shape, TypeOK, NEW r \in Requests, request[r].pc \notin {"idle", "create"}
    PROVE  request[r].sid \in Ids /\ request[r].sid < next_id
BY SessionsAssumption DEF Shape, RequestState, TypeOK, Ids, NoId

\* The part of TypeOK that is about the requests.
RequestsTyped ==
    \A r \in Requests :
        /\ request[r].key \in Keys \cup {NoKey}
        /\ IF request[r].pc \in {"idle", "create"} THEN request[r].sid = NoId
           ELSE /\ request[r].pc \in {"insert", "key", "bind", "undo", "recover", "activate", "serve"}
                /\ request[r].sid \in 1..(next_id - 1)

\* A request that goes on with a session created before, or goes to create one, keeps the types.
LEMMA RequestMoves ==
    ASSUME Shape, TypeOK, NEW r \in Requests,
           NEW p \in Places, NEW k \in Keys \cup {NoKey}, NEW s \in Ids \cup {NoId},
           IF p \in {"idle", "create"} THEN s = NoId ELSE s \in 1..(next_id - 1),
           request' = [request EXCEPT ![r] = [pc |-> p, key |-> k, sid |-> s]],
           next_id' = next_id, gc' = gc
    PROVE  Shape' /\ RequestsTyped'
<1>1. RequestsTyped
  BY DEF TypeOK, RequestsTyped
<1>2. [pc |-> p, key |-> k, sid |-> s] \in RequestState
  BY DEF RequestState
<1>3. Shape'
  BY <1>2 DEF Shape
<1>4. \A q \in Requests \ {r} : request'[q] = request[q]
  BY DEF Shape
<1>5. request'[r].pc = p /\ request'[r].key = k /\ request'[r].sid = s
  BY DEF Shape
<1>6. RequestsTyped'
  BY <1>1, <1>4, <1>5 DEF RequestsTyped, Places
<1> QED
  BY <1>3, <1>6

\* Every action keeps the types.  A start follows an end that left a life to go.
LEMMA TypeStep ==
    ASSUME Shape, TypeOK, Unissued, DownIsEmpty, UnkeyedPrivate, Next
    PROVE  Shape' /\ TypeOK'
<1> USE SessionsAssumption, NoKeyAssumption
    DEF Shape, RequestState, TypeOK, Places, Ids, NoId, Idle, NoGc, Running, Unissued,
        DownIsEmpty, UnkeyedPrivate, table, disk, history
<1>1. ASSUME NEW r \in Requests, NEW k \in Keys, Lookup(r, k) PROVE Shape' /\ TypeOK'
  <2>1. key_index[k] # NoId => key_index[k] \in 1..(next_id - 1)
    OBVIOUS
  <2>2. PICK next \in {"serve", "recover", "create"}, s \in {NoId, key_index[k]} :
            /\ request' = [request EXCEPT ![r] = [pc |-> next, key |-> k, sid |-> s]]
            /\ IF next = "create" THEN s = NoId ELSE s # NoId
    <3>1. CASE Found(key_index[k])
      BY <1>1, <3>1 DEF Lookup, Found
    <3>2. CASE ~ Found(key_index[k])
      BY <1>1, <3>2 DEF Lookup
    <3> QED
      BY <3>1, <3>2
  <2>3. UNCHANGED <<daemon, lives, next_id, handle, key_index, catalog, catalog_key, stale, gc,
                    suspending, served, killed>>
    BY <1>1 DEF Lookup
  <2>4. raced' \subseteq Keys
    BY <1>1 DEF Lookup
  <2>5. IF next \in {"idle", "create"} THEN s = NoId ELSE s \in 1..(next_id - 1)
    BY <2>1, <2>2
  <2>6. next \in Places /\ s \in Ids \cup {NoId} /\ k \in Keys \cup {NoKey}
    OBVIOUS
  <2>7. Shape' /\ RequestsTyped'
    <3> HIDE DEF Shape, TypeOK, Unissued, DownIsEmpty, UnkeyedPrivate, Places, Ids
    <3> QED
      BY <2>2, <2>3, <2>5, <2>6, RequestMoves
  <2> QED
    BY <2>3, <2>4, <2>7 DEF RequestsTyped
<1>2. ASSUME NEW r \in Requests, CreateSession(r) PROVE Shape' /\ TypeOK'
  BY <1>2 DEF CreateSession
<1>3. ASSUME NEW r \in Requests, Register(r) PROVE Shape' /\ TypeOK'
  BY <1>3 DEF Register, Goto
<1>4. ASSUME NEW r \in Requests, InsertSession(r) PROVE Shape' /\ TypeOK'
  <2>1. request[r].sid \in Ids /\ request[r].sid \in 1..(next_id - 1)
    BY <1>4, SessionOfRequest DEF InsertSession
  <2>2. catalog' \in [Ids -> {"none", "Active", "Suspended", "Tombstoned"}]
    BY <1>4, <2>1 DEF InsertSession
  <2>3. PICK next \in {"bind", "key"} :
            request' = [request EXCEPT ![r] = [pc |-> next, key |-> request[r].key,
                                               sid |-> request[r].sid]]
    BY <1>4 DEF InsertSession, Goto
  <2>4. UNCHANGED <<daemon, lives, next_id, handle, key_index, catalog_key, stale, gc,
                    suspending, served, raced, killed>>
    BY <1>4 DEF InsertSession
  <2>5. Shape' /\ RequestsTyped'
    BY <2>1, <2>3, <2>4, RequestMoves
  <2> QED
    BY <2>2, <2>4, <2>5 DEF RequestsTyped
<1>5. ASSUME NEW r \in Requests, InsertKey(r) PROVE Shape' /\ TypeOK'
  BY <1>5 DEF InsertKey, Goto
<1>6. ASSUME NEW r \in Requests, Bind(r) PROVE Shape' /\ TypeOK'
  BY <1>6 DEF Bind
<1>7. ASSUME NEW r \in Requests, BindFails(r) PROVE Shape' /\ TypeOK'
  BY <1>7 DEF BindFails, Goto, remove_sessions
<1>8. ASSUME NEW r \in Requests, UndoCreate(r) PROVE Shape' /\ TypeOK'
  BY <1>8 DEF UndoCreate, set_state, set_states
<1>9. ASSUME NEW r \in Requests, Recover(r) PROVE Shape' /\ TypeOK'
  BY <1>9 DEF Recover, Goto
<1>10. ASSUME NEW r \in Requests, Activate(r) PROVE Shape' /\ TypeOK'
  BY <1>10 DEF Activate, Goto, set_state, set_states, OrWrittenBack
<1>11. ASSUME NEW r \in Requests, Answer(r) PROVE Shape' /\ TypeOK'
  <2>1. request[r].key \in Keys /\ request[r].sid \in Ids
    BY <1>11 DEF Answer
  <2>2. served' \in [Keys -> Ids \cup {NoId}]
    BY <1>11, <2>1 DEF Answer
  <2>3. UNCHANGED <<daemon, lives, next_id, handle, key_index, catalog, catalog_key, stale, gc,
                    suspending, raced, killed>>
    BY <1>11 DEF Answer
  <2>4. request' = [request EXCEPT ![r] = [pc |-> "idle", key |-> NoKey, sid |-> NoId]]
    BY <1>11 DEF Answer
  <2>5. Shape' /\ RequestsTyped'
    <3> HIDE DEF Shape, TypeOK, Unissued, DownIsEmpty, UnkeyedPrivate, Ids
    <3> QED
      BY <2>3, <2>4, RequestMoves
  <2> QED
    BY <2>2, <2>3, <2>5 DEF RequestsTyped
<1>12. ASSUME NEW s \in Ids, Attach(s) PROVE Shape' /\ TypeOK'
  BY <1>12 DEF Attach, set_state, set_states
<1>13. ASSUME NEW s \in Ids, Kill(s) PROVE Shape' /\ TypeOK'
  BY <1>13 DEF Kill, set_state, set_states, Ended
<1>14. ASSUME NEW s \in Ids, Collect(s) PROVE Shape' /\ TypeOK'
  BY <1>14 DEF Collect
<1>15. ASSUME NEW s \in Ids, Suspend(s) PROVE Shape' /\ TypeOK'
  BY <1>15 DEF Suspend, OrWrittenBack
<1>16. ASSUME NEW k \in Keys, RestartKey(k) PROVE Shape' /\ TypeOK'
  BY <1>16 DEF RestartKey, remove_sessions, Ended
<1>17. ASSUME ListIdle PROVE Shape' /\ TypeOK'
  BY <1>17 DEF ListIdle
<1>18. ASSUME Reap PROVE Shape' /\ TypeOK'
  BY <1>18 DEF Reap, remove_sessions, set_states, Ended
<1>19. ASSUME remove_keys_for_session PROVE Shape' /\ TypeOK'
  BY <1>19 DEF remove_keys_for_session
<1>20. ASSUME Shutdown PROVE Shape' /\ TypeOK'
  BY <1>20 DEF Shutdown
<1>21. ASSUME Exit PROVE Shape' /\ TypeOK'
  BY <1>21 DEF Exit, Gone
<1>22. ASSUME Crash PROVE Shape' /\ TypeOK'
  BY <1>22 DEF Crash, Gone
<1>23. ASSUME Start PROVE Shape' /\ TypeOK'
  BY <1>23 DEF Start, restore_keys
<1> QED
  BY <1>1, <1>2, <1>3, <1>4, <1>5, <1>6, <1>7, <1>8, <1>9, <1>10, <1>11, <1>12, <1>13, <1>14,
     <1>15, <1>16, <1>17, <1>18, <1>19, <1>20, <1>21, <1>22, <1>23
     DEF Next, Step

\* Only Register names a new session, and takes it from next_id.
LEMMA UnissuedStep ==
    ASSUME Shape, TypeOK, Unissued, Next
    PROVE  Unissued'
<1> USE SessionsAssumption, NoKeyAssumption
    DEF Shape, RequestState, TypeOK, Places, Ids, NoId, Unissued, NoGc, table, disk, history
<1>1. CASE UNCHANGED <<next_id, handle, catalog, key_index, catalog_key, served, stale,
                       suspending, killed, gc>>
  BY <1>1
<1>2. ASSUME NEW r \in Requests, Register(r) PROVE Unissued'
  BY <1>2 DEF Register, Goto
<1>3. ASSUME NEW r \in Requests, InsertSession(r) PROVE Unissued'
  BY <1>3 DEF InsertSession, Goto
<1>4. ASSUME NEW r \in Requests, InsertKey(r) PROVE Unissued'
  BY <1>4 DEF InsertKey, Goto
<1>5. ASSUME NEW r \in Requests, BindFails(r) PROVE Unissued'
  BY <1>5 DEF BindFails, Goto, remove_sessions
<1>6. ASSUME NEW r \in Requests, UndoCreate(r) PROVE Unissued'
  BY <1>6 DEF UndoCreate, set_state, set_states
<1>7. ASSUME NEW r \in Requests, Recover(r) PROVE Unissued'
  BY <1>7 DEF Recover, Goto
<1>8. ASSUME NEW r \in Requests, Activate(r) PROVE Unissued'
  BY <1>8 DEF Activate, Goto, set_state, set_states, OrWrittenBack
<1>9. ASSUME NEW r \in Requests, Answer(r) PROVE Unissued'
  BY <1>9 DEF Answer
<1>10. ASSUME NEW s \in Ids, Attach(s) PROVE Unissued'
  BY <1>10 DEF Attach, set_state, set_states
<1>11. ASSUME NEW s \in Ids, Kill(s) PROVE Unissued'
  BY <1>11 DEF Kill, set_state, set_states, Ended
<1>12. ASSUME NEW s \in Ids, Collect(s) PROVE Unissued'
  BY <1>12 DEF Collect
<1>13. ASSUME NEW s \in Ids, Suspend(s) PROVE Unissued'
  BY <1>13 DEF Suspend, OrWrittenBack
<1>14. ASSUME NEW k \in Keys, RestartKey(k) PROVE Unissued'
  BY <1>14 DEF RestartKey, remove_sessions, Ended
<1>15. ASSUME ListIdle PROVE Unissued'
  BY <1>15 DEF ListIdle
<1>16. ASSUME Reap PROVE Unissued'
  BY <1>16 DEF Reap, remove_sessions, set_states, Ended
<1>17. ASSUME remove_keys_for_session PROVE Unissued'
  BY <1>17 DEF remove_keys_for_session
<1>18. ASSUME Shutdown PROVE Unissued'
  BY <1>18 DEF Shutdown
<1>19. ASSUME Exit PROVE Unissued'
  BY <1>19 DEF Exit, Gone
<1>20. ASSUME Crash PROVE Unissued'
  BY <1>20 DEF Crash, Gone
<1>21. ASSUME Start PROVE Unissued'
  BY <1>21 DEF Start, restore_keys
<1> QED
  BY <1>1, <1>2, <1>3, <1>4, <1>5, <1>6, <1>7, <1>8, <1>9, <1>10, <1>11, <1>12, <1>13, <1>14,
     <1>15, <1>16, <1>17, <1>18, <1>19, <1>20, <1>21
     DEF Next, Step, Lookup, CreateSession, Bind

\* Tasks run only while the daemon does, and end with it.
LEMMA DownStep ==
    ASSUME Shape, TypeOK, DownIsEmpty, Next
    PROVE  DownIsEmpty'
<1> USE SessionsAssumption, NoKeyAssumption
    DEF Shape, RequestState, TypeOK, Places, Ids, NoId, DownIsEmpty, Idle, NoGc, Running, table,
        disk, history
<1>1. CASE UNCHANGED <<daemon, lives, request, key_index, gc>>
  BY <1>1
<1>2. ASSUME NEW r \in Requests, NEW k \in Keys, Lookup(r, k) PROVE DownIsEmpty'
  BY <1>2 DEF Lookup, Creating, Found
<1>3. ASSUME NEW r \in Requests, CreateSession(r) PROVE DownIsEmpty'
  BY <1>3 DEF CreateSession
<1>4. ASSUME NEW r \in Requests, Register(r) PROVE DownIsEmpty'
  BY <1>4 DEF Register, Goto
<1>5. ASSUME NEW r \in Requests, InsertSession(r) PROVE DownIsEmpty'
  BY <1>5 DEF InsertSession, Goto
<1>6. ASSUME NEW r \in Requests, InsertKey(r) PROVE DownIsEmpty'
  BY <1>6 DEF InsertKey, Goto
<1>7. ASSUME NEW r \in Requests, Bind(r) PROVE DownIsEmpty'
  BY <1>7 DEF Bind
<1>8. ASSUME NEW r \in Requests, BindFails(r) PROVE DownIsEmpty'
  BY <1>8 DEF BindFails, Goto, remove_sessions
<1>9. ASSUME NEW r \in Requests, UndoCreate(r) PROVE DownIsEmpty'
  BY <1>9 DEF UndoCreate, set_state, set_states
<1>10. ASSUME NEW r \in Requests, Recover(r) PROVE DownIsEmpty'
  BY <1>10 DEF Recover, Goto
<1>11. ASSUME NEW r \in Requests, Activate(r) PROVE DownIsEmpty'
  BY <1>11 DEF Activate, Goto, set_state, set_states, OrWrittenBack
<1>12. ASSUME NEW r \in Requests, Answer(r) PROVE DownIsEmpty'
  BY <1>12 DEF Answer
<1>13. ASSUME NEW s \in Ids, Collect(s) PROVE DownIsEmpty'
  BY <1>13 DEF Collect
<1>14. ASSUME NEW k \in Keys, RestartKey(k) PROVE DownIsEmpty'
  BY <1>14 DEF RestartKey, remove_sessions, Ended
<1>15. ASSUME Reap PROVE DownIsEmpty'
  BY <1>15 DEF Reap, remove_sessions, set_states, Ended
<1>16. ASSUME remove_keys_for_session PROVE DownIsEmpty'
  BY <1>16 DEF remove_keys_for_session
<1>17. ASSUME Shutdown PROVE DownIsEmpty'
  BY <1>17 DEF Shutdown
<1>18. ASSUME Exit PROVE DownIsEmpty'
  BY <1>18 DEF Exit, Gone
<1>19. ASSUME Crash PROVE DownIsEmpty'
  BY <1>19 DEF Crash, Gone
<1>20. ASSUME Start PROVE DownIsEmpty'
  BY <1>20 DEF Start, restore_keys
<1> QED
  BY <1>1, <1>2, <1>3, <1>4, <1>5, <1>6, <1>7, <1>8, <1>9, <1>10, <1>11, <1>12, <1>13, <1>14,
     <1>15, <1>16, <1>17, <1>18, <1>19, <1>20
     DEF Next, Step, Attach, Kill, Suspend, ListIdle

\* What leaves the table leaves the index in the same step.
LEMMA KeysStep ==
    ASSUME Shape, TypeOK, KeysResolve, Next
    PROVE  KeysResolve'
<1> USE SessionsAssumption, NoKeyAssumption
    DEF Shape, RequestState, TypeOK, Places, Ids, NoId, KeysResolve
<1>1. CASE UNCHANGED <<handle, key_index>>
  BY <1>1
<1>2. ASSUME NEW r \in Requests, Register(r) PROVE KeysResolve'
  BY <1>2 DEF Register, Goto
<1>3. ASSUME NEW r \in Requests, BindFails(r) PROVE KeysResolve'
  BY <1>3 DEF BindFails, Goto, remove_sessions
<1>4. ASSUME NEW r \in Requests, Recover(r) PROVE KeysResolve'
  BY <1>4 DEF Recover, Goto
<1>5. ASSUME NEW s \in Ids, Attach(s) PROVE KeysResolve'
  BY <1>5 DEF Attach, set_state, set_states
<1>6. ASSUME NEW k \in Keys, RestartKey(k) PROVE KeysResolve'
  BY <1>6 DEF RestartKey, remove_sessions, Ended
<1>7. ASSUME Reap PROVE KeysResolve'
  BY <1>7 DEF Reap, remove_sessions, set_states, Ended
<1>8. ASSUME Exit PROVE KeysResolve'
  BY <1>8 DEF Exit, Gone
<1>9. ASSUME Crash PROVE KeysResolve'
  BY <1>9 DEF Crash, Gone
<1>10. ASSUME Start PROVE KeysResolve'
  BY <1>10 DEF Start, restore_keys
<1> QED
  BY <1>1, <1>2, <1>3, <1>4, <1>5, <1>6, <1>7, <1>8, <1>9, <1>10
     DEF Next, Step, Lookup, CreateSession, InsertSession, InsertKey, Bind, UndoCreate, Activate,
         Answer, Kill, Collect, Suspend, ListIdle, remove_keys_for_session, Shutdown, disk,
         history, table

\* A lookup finds sessions of keys only.
LEMMA UnkeyedStep ==
    ASSUME Shape, TypeOK, Unissued, DownIsEmpty, UnkeyedPrivate, Next
    PROVE  UnkeyedPrivate'
<1> USE SessionsAssumption, NoKeyAssumption
    DEF Shape, RequestState, TypeOK, Places, Ids, NoId, Idle, Unissued, DownIsEmpty,
        UnkeyedPrivate
<1>1. CASE UNCHANGED <<request, key_index, catalog_key, served>>
  BY <1>1
<1>2. ASSUME NEW r \in Requests, NEW k \in Keys, Lookup(r, k) PROVE UnkeyedPrivate'
  BY <1>2 DEF Lookup, Creating, Found, table, disk
<1>3. ASSUME NEW r \in Requests, CreateSession(r) PROVE UnkeyedPrivate'
  BY <1>3 DEF CreateSession, table, disk, history
<1>4. ASSUME NEW r \in Requests, Register(r) PROVE UnkeyedPrivate'
  BY <1>4 DEF Register, Goto, disk, history
<1>5. ASSUME NEW r \in Requests, InsertSession(r) PROVE UnkeyedPrivate'
  BY <1>5 DEF InsertSession, Goto, table, history
<1>6. ASSUME NEW r \in Requests, InsertKey(r) PROVE UnkeyedPrivate'
  BY <1>6 DEF InsertKey, Goto, table, history
<1>7. ASSUME NEW r \in Requests, Bind(r) PROVE UnkeyedPrivate'
  BY <1>7 DEF Bind, table, disk, history
<1>8. ASSUME NEW r \in Requests, BindFails(r) PROVE UnkeyedPrivate'
  BY <1>8 DEF BindFails, Goto, remove_sessions, disk, history
<1>9. ASSUME NEW r \in Requests, UndoCreate(r) PROVE UnkeyedPrivate'
  BY <1>9 DEF UndoCreate, set_state, set_states, table, history
<1>10. ASSUME NEW r \in Requests, Recover(r) PROVE UnkeyedPrivate'
  BY <1>10 DEF Recover, Goto, disk, history
<1>11. ASSUME NEW r \in Requests, Activate(r) PROVE UnkeyedPrivate'
  BY <1>11 DEF Activate, Goto, set_state, set_states, OrWrittenBack, table, history
<1>12. ASSUME NEW r \in Requests, Answer(r) PROVE UnkeyedPrivate'
  BY <1>12 DEF Answer, table, disk
<1>13. ASSUME NEW s \in Ids, Kill(s) PROVE UnkeyedPrivate'
  BY <1>13 DEF Kill, set_state, set_states, Ended, table
<1>14. ASSUME NEW k \in Keys, RestartKey(k) PROVE UnkeyedPrivate'
  BY <1>14 DEF RestartKey, remove_sessions, Ended, disk
<1>15. ASSUME Reap PROVE UnkeyedPrivate'
  BY <1>15 DEF Reap, remove_sessions, set_states, Ended
<1>16. ASSUME remove_keys_for_session PROVE UnkeyedPrivate'
  BY <1>16 DEF remove_keys_for_session, table
<1>17. ASSUME Exit PROVE UnkeyedPrivate'
  BY <1>17 DEF Exit, Gone, disk, history
<1>18. ASSUME Crash PROVE UnkeyedPrivate'
  BY <1>18 DEF Crash, Gone, disk, history
<1>19. ASSUME Start PROVE UnkeyedPrivate'
  BY <1>19 DEF Start, restore_keys, history
<1> QED
  BY <1>1, <1>2, <1>3, <1>4, <1>5, <1>6, <1>7, <1>8, <1>9, <1>10, <1>11, <1>12, <1>13, <1>14,
     <1>15, <1>16, <1>17, <1>18, <1>19
     DEF Next, Step, Attach, Collect, Suspend, ListIdle, Shutdown, disk, history, table

\* set_state leaves an entry that is not there alone, and a shutdown lists active entries.
LEMMA InsertStep ==
    ASSUME Shape, TypeOK, Unissued, DownIsEmpty, UnkeyedPrivate, InsertIsNew, Next
    PROVE  InsertIsNew'
<1> USE SessionsAssumption, NoKeyAssumption
    DEF Shape, RequestState, TypeOK, Places, Ids, NoId, Idle, Unissued, DownIsEmpty,
        UnkeyedPrivate, InsertIsNew
<1>1. CASE UNCHANGED <<request, catalog, handle, suspending, key_index>>
  BY <1>1
<1>2. ASSUME NEW r \in Requests, NEW k \in Keys, Lookup(r, k) PROVE InsertIsNew'
  BY <1>2 DEF Lookup, Creating, Found, table, disk
<1>3. ASSUME NEW r \in Requests, CreateSession(r) PROVE InsertIsNew'
  BY <1>3 DEF CreateSession, table, disk
<1>4. ASSUME NEW r \in Requests, Register(r) PROVE InsertIsNew'
  BY <1>4 DEF Register, Goto, disk
<1>5. ASSUME NEW r \in Requests, InsertSession(r) PROVE InsertIsNew'
  BY <1>5 DEF InsertSession, Goto, table
<1>6. ASSUME NEW r \in Requests, InsertKey(r) PROVE InsertIsNew'
  BY <1>6 DEF InsertKey, Goto, table
<1>7. ASSUME NEW r \in Requests, Bind(r) PROVE InsertIsNew'
  BY <1>7 DEF Bind, table, disk
<1>8. ASSUME NEW r \in Requests, BindFails(r) PROVE InsertIsNew'
  BY <1>8, SessionOfRequest DEF BindFails, Goto, remove_sessions, disk
<1>9. ASSUME NEW r \in Requests, UndoCreate(r) PROVE InsertIsNew'
  BY <1>9 DEF UndoCreate, set_state, set_states, table
<1>10. ASSUME NEW r \in Requests, Recover(r) PROVE InsertIsNew'
  BY <1>10 DEF Recover, Goto, disk
<1>11. ASSUME NEW r \in Requests, Activate(r) PROVE InsertIsNew'
  BY <1>11 DEF Activate, Goto, set_state, set_states, OrWrittenBack, table
<1>12. ASSUME NEW r \in Requests, Answer(r) PROVE InsertIsNew'
  BY <1>12 DEF Answer, table, disk
<1>13. ASSUME NEW s \in Ids, Attach(s) PROVE InsertIsNew'
  BY <1>13 DEF Attach, set_state, set_states
<1>14. ASSUME NEW s \in Ids, Kill(s) PROVE InsertIsNew'
  BY <1>14 DEF Kill, set_state, set_states, Ended, table
<1>15. ASSUME NEW s \in Ids, Collect(s) PROVE InsertIsNew'
  BY <1>15 DEF Collect, table
<1>16. ASSUME NEW s \in Ids, Suspend(s) PROVE InsertIsNew'
  BY <1>16 DEF Suspend, OrWrittenBack, table
<1>17. ASSUME NEW k \in Keys, RestartKey(k) PROVE InsertIsNew'
  BY <1>17 DEF RestartKey, remove_sessions, Ended, disk
<1>18. ASSUME Reap PROVE InsertIsNew'
  BY <1>18 DEF Reap, remove_sessions, set_states, Ended
<1>19. ASSUME Shutdown PROVE InsertIsNew'
  BY <1>19 DEF Shutdown, table, disk
<1>20. ASSUME Exit PROVE InsertIsNew'
  BY <1>20 DEF Exit, Gone, disk
<1>21. ASSUME Crash PROVE InsertIsNew'
  BY <1>21 DEF Crash, Gone, disk
<1>22. ASSUME Start PROVE InsertIsNew'
  BY <1>22 DEF Start, restore_keys
<1> QED
  BY <1>1, <1>2, <1>3, <1>4, <1>5, <1>6, <1>7, <1>8, <1>9, <1>10, <1>11, <1>12, <1>13, <1>14,
     <1>15, <1>16, <1>17, <1>18, <1>19, <1>20, <1>21, <1>22
     DEF Next, Step, ListIdle, remove_keys_for_session, disk, history, table

\* Only a start puts a session back into the table.
LEMMA UndoneStep ==
    ASSUME Shape, TypeOK, Unissued, DownIsEmpty, UndoneIsGone, Next
    PROVE  UndoneIsGone'
<1> USE SessionsAssumption, NoKeyAssumption
    DEF Shape, RequestState, TypeOK, Places, Ids, NoId, Idle, Unissued, DownIsEmpty, UndoneIsGone
<1>1. CASE UNCHANGED <<request, handle>>
  BY <1>1
<1>2. ASSUME NEW r \in Requests, NEW k \in Keys, Lookup(r, k) PROVE UndoneIsGone'
  BY <1>2 DEF Lookup, Creating, Found, table
<1>3. ASSUME NEW r \in Requests, CreateSession(r) PROVE UndoneIsGone'
  BY <1>3 DEF CreateSession, table
<1>4. ASSUME NEW r \in Requests, Register(r) PROVE UndoneIsGone'
  BY <1>4 DEF Register, Goto
<1>5. ASSUME NEW r \in Requests, InsertSession(r) PROVE UndoneIsGone'
  BY <1>5 DEF InsertSession, Goto, table
<1>6. ASSUME NEW r \in Requests, InsertKey(r) PROVE UndoneIsGone'
  BY <1>6 DEF InsertKey, Goto, table
<1>7. ASSUME NEW r \in Requests, Bind(r) PROVE UndoneIsGone'
  BY <1>7 DEF Bind, table
<1>8. ASSUME NEW r \in Requests, BindFails(r) PROVE UndoneIsGone'
  BY ZenonT(40), <1>8, SessionOfRequest DEF BindFails, Goto, remove_sessions
<1>9. ASSUME NEW r \in Requests, UndoCreate(r) PROVE UndoneIsGone'
  BY <1>9 DEF UndoCreate, set_state, set_states, table
<1>10. ASSUME NEW r \in Requests, Recover(r) PROVE UndoneIsGone'
  BY <1>10 DEF Recover, Goto
<1>11. ASSUME NEW r \in Requests, Activate(r) PROVE UndoneIsGone'
  BY <1>11 DEF Activate, Goto, set_state, set_states, OrWrittenBack, table
<1>12. ASSUME NEW r \in Requests, Answer(r) PROVE UndoneIsGone'
  BY <1>12 DEF Answer, table
<1>13. ASSUME NEW s \in Ids, Attach(s) PROVE UndoneIsGone'
  BY <1>13 DEF Attach, set_state, set_states
<1>14. ASSUME NEW k \in Keys, RestartKey(k) PROVE UndoneIsGone'
  BY <1>14 DEF RestartKey, remove_sessions, Ended
<1>15. ASSUME Reap PROVE UndoneIsGone'
  BY <1>15 DEF Reap, remove_sessions, set_states, Ended
<1>16. ASSUME Exit PROVE UndoneIsGone'
  BY <1>16 DEF Exit, Gone
<1>17. ASSUME Crash PROVE UndoneIsGone'
  BY <1>17 DEF Crash, Gone
<1>18. ASSUME Start PROVE UndoneIsGone'
  BY <1>18 DEF Start, restore_keys
<1> QED
  BY <1>1, <1>2, <1>3, <1>4, <1>5, <1>6, <1>7, <1>8, <1>9, <1>10, <1>11, <1>12, <1>13, <1>14,
     <1>15, <1>16, <1>17, <1>18
     DEF Next, Step, Kill, Collect, Suspend, ListIdle, remove_keys_for_session, Shutdown, disk,
         history, table

\* A tombstoned entry is that of a session that was killed or left the table, unless it is being
\* given up: it is recoverable otherwise.
LEMMA CollectedStep ==
    ASSUME Shape, TypeOK, Unissued, DownIsEmpty, InsertIsNew, UndoneIsGone,
           RegisteredIsRecoverable, CollectedIsDead, Next
    PROVE  CollectedIsDead'
<1> USE SessionsAssumption, NoKeyAssumption
    DEF Shape, RequestState, TypeOK, Places, Ids, NoId, NoGc, Unissued, DownIsEmpty, InsertIsNew,
        UndoneIsGone, RegisteredIsRecoverable, CollectedIsDead
<1>1. CASE UNCHANGED <<gc, handle, killed>>
  BY <1>1
<1>2. ASSUME NEW r \in Requests, Register(r) PROVE CollectedIsDead'
  BY <1>2 DEF Register, Goto, history
<1>3. ASSUME NEW r \in Requests, BindFails(r) PROVE CollectedIsDead'
  BY <1>3 DEF BindFails, Goto, remove_sessions, history
<1>4. ASSUME NEW r \in Requests, Recover(r) PROVE CollectedIsDead'
  BY <1>4 DEF Recover, Goto, history
<1>5. ASSUME NEW s \in Ids, Attach(s) PROVE CollectedIsDead'
  BY <1>5 DEF Attach, set_state, set_states, history
<1>6. ASSUME NEW s \in Ids, Kill(s) PROVE CollectedIsDead'
  BY <1>6 DEF Kill, set_state, set_states, Ended, table
<1>7. ASSUME NEW s \in Ids, Collect(s) PROVE CollectedIsDead'
  <2>1. gc'.sid = s /\ handle' = handle /\ killed' = killed /\ catalog[s] = "Tombstoned"
    BY <1>7 DEF Collect, table, history
  <2>2. handle[s] = "none" \/ s \in killed
    BY <2>1
  <2> QED
    BY <2>1, <2>2
<1>8. ASSUME NEW k \in Keys, RestartKey(k) PROVE CollectedIsDead'
  BY <1>8 DEF RestartKey, remove_sessions, Ended
<1>9. ASSUME Reap PROVE CollectedIsDead'
  BY <1>9 DEF Reap, remove_sessions, set_states, Ended
<1>10. ASSUME remove_keys_for_session PROVE CollectedIsDead'
  BY <1>10 DEF remove_keys_for_session, table
<1>11. ASSUME Exit PROVE CollectedIsDead'
  BY <1>11 DEF Exit, Gone, history
<1>12. ASSUME Crash PROVE CollectedIsDead'
  BY <1>12 DEF Crash, Gone, history
<1>13. ASSUME Start PROVE CollectedIsDead'
  BY <1>13 DEF Start, restore_keys, history
<1> QED
  BY <1>1, <1>2, <1>3, <1>4, <1>5, <1>6, <1>7, <1>8, <1>9, <1>10, <1>11, <1>12, <1>13
     DEF Next, Step, Lookup, CreateSession, InsertSession, InsertKey, Bind, UndoCreate, Activate,
         Answer, Suspend, ListIdle, Shutdown, disk, history, table

\* Every task that gives an entry up has taken the session out of the table before, or killed it.
LEMMA RecoverableStep ==
    ASSUME Shape, TypeOK, Unissued, DownIsEmpty, UndoneIsGone, RegisteredIsRecoverable, Next
    PROVE  RegisteredIsRecoverable'
<1> USE SessionsAssumption, NoKeyAssumption
    DEF Shape, RequestState, TypeOK, Places, Ids, NoId, Idle, Unissued, DownIsEmpty,
        UndoneIsGone, RegisteredIsRecoverable
<1>1. CASE UNCHANGED <<handle, killed, catalog, request>>
  BY <1>1
<1>2. ASSUME NEW r \in Requests, NEW k \in Keys, Lookup(r, k) PROVE RegisteredIsRecoverable'
  BY <1>2 DEF Lookup, Creating, Found, table, disk
<1>3. ASSUME NEW r \in Requests, CreateSession(r) PROVE RegisteredIsRecoverable'
  BY <1>3 DEF CreateSession, table, disk, history
<1>4. ASSUME NEW r \in Requests, Register(r) PROVE RegisteredIsRecoverable'
  BY <1>4 DEF Register, Goto, disk, history
<1>5. ASSUME NEW r \in Requests, InsertSession(r) PROVE RegisteredIsRecoverable'
  BY <1>5 DEF InsertSession, Goto, table, history
<1>6. ASSUME NEW r \in Requests, InsertKey(r) PROVE RegisteredIsRecoverable'
  BY <1>6 DEF InsertKey, Goto, table, history
<1>7. ASSUME NEW r \in Requests, Bind(r) PROVE RegisteredIsRecoverable'
  BY <1>7 DEF Bind, table, disk, history
<1>8. ASSUME NEW r \in Requests, BindFails(r) PROVE RegisteredIsRecoverable'
  BY <1>8 DEF BindFails, Goto, remove_sessions, disk, history
<1>9. ASSUME NEW r \in Requests, UndoCreate(r) PROVE RegisteredIsRecoverable'
  BY <1>9 DEF UndoCreate, set_state, set_states, table, history
<1>10. ASSUME NEW r \in Requests, Recover(r) PROVE RegisteredIsRecoverable'
  BY <1>10 DEF Recover, Goto, disk, history
<1>11. ASSUME NEW r \in Requests, Activate(r) PROVE RegisteredIsRecoverable'
  BY <1>11 DEF Activate, Goto, set_state, set_states, OrWrittenBack, table, history
<1>12. ASSUME NEW r \in Requests, Answer(r) PROVE RegisteredIsRecoverable'
  BY <1>12 DEF Answer, table, disk
<1>13. ASSUME NEW s \in Ids, Attach(s) PROVE RegisteredIsRecoverable'
  BY <1>13 DEF Attach, set_state, set_states, history
<1>14. ASSUME NEW s \in Ids, Kill(s) PROVE RegisteredIsRecoverable'
  BY <1>14 DEF Kill, set_state, set_states, Ended, table
<1>15. ASSUME NEW s \in Ids, Collect(s) PROVE RegisteredIsRecoverable'
  BY <1>15 DEF Collect, table, history
<1>16. ASSUME NEW s \in Ids, Suspend(s) PROVE RegisteredIsRecoverable'
  BY <1>16 DEF Suspend, OrWrittenBack, table, history
<1>17. ASSUME NEW k \in Keys, RestartKey(k) PROVE RegisteredIsRecoverable'
  BY <1>17 DEF RestartKey, remove_sessions, Ended, disk
<1>18. ASSUME Reap PROVE RegisteredIsRecoverable'
  BY <1>18 DEF Reap, remove_sessions, set_states, Ended
<1>19. ASSUME Exit PROVE RegisteredIsRecoverable'
  BY <1>19 DEF Exit, Gone, disk, history
<1>20. ASSUME Crash PROVE RegisteredIsRecoverable'
  BY <1>20 DEF Crash, Gone, disk, history
<1>21. ASSUME Start PROVE RegisteredIsRecoverable'
  BY <1>21 DEF Start, restore_keys, history
<1> QED
  BY <1>1, <1>2, <1>3, <1>4, <1>5, <1>6, <1>7, <1>8, <1>9, <1>10, <1>11, <1>12, <1>13, <1>14,
     <1>15, <1>16, <1>17, <1>18, <1>19, <1>20, <1>21
     DEF Next, Step, ListIdle, remove_keys_for_session, Shutdown, disk, history, table

\* A lookup goes on to create only if the key has no session that was answered from, and a lookup
\* beside a creation marks the key as raced for.
LEMMA CreatorStep ==
    ASSUME Shape, TypeOK, Unissued, DownIsEmpty, KeysResolve, UnkeyedPrivate, InsertIsNew,
           UndoneIsGone, RegisteredIsRecoverable, OneCreator, CreatorOwnsKey, Kept, Next
    PROVE  OneCreator' /\ CreatorOwnsKey'
<1> USE SessionsAssumption, NoKeyAssumption
    DEF Shape, RequestState, TypeOK, Places, Ids, NoId, Idle, Running, Creating, Unissued,
        DownIsEmpty, KeysResolve, UnkeyedPrivate, InsertIsNew, UndoneIsGone,
        RegisteredIsRecoverable, OneCreator, CreatorOwnsKey, Kept
<1>1. CASE UNCHANGED <<raced, request, served, key_index, killed>>
  BY <1>1
<1>2. ASSUME NEW r \in Requests, NEW k \in Keys, Lookup(r, k) PROVE OneCreator' /\ CreatorOwnsKey'
  <2>1. OneCreator'
    BY <1>2 DEF Lookup, Found, table
  <2>2. /\ UNCHANGED <<served, key_index, killed>> /\ raced \subseteq raced'
        /\ \A q \in Requests \ {r} : request'[q] = request[q]
        /\ request'[r].key = k
        /\ request'[r].pc \in {"serve", "recover", "create"}
        /\ request'[r].pc = "create" => served[k] = NoId \/ k \in raced
        /\ k \notin raced' => Creating(k) = {}
    BY <1>2 DEF Lookup, Found, table
  <2>3. ASSUME NEW j \in Keys \ raced', NEW c \in Creating(j)'
        PROVE  /\ served[j] = NoId
               /\ request'[c].pc \in {"insert", "key"} => key_index[j] \in {request'[c].sid, NoId}
               /\ \A q \in Requests :
                     request'[q].key = j /\ request'[q].pc \in {"recover", "activate", "serve"} =>
                         request'[q].sid # key_index[j] \/ request'[q].sid \in killed
    <3>1. CASE j # k
      <4>1. j \in Keys \ raced /\ c # r /\ c \in Creating(j)
        BY <2>2, <2>3, <3>1
      <4>2. \A q \in Requests : request'[q].key = j => request'[q] = request[q]
        BY <2>2, <3>1
      <4> HIDE DEF Shape, RequestState, TypeOK, Unissued, DownIsEmpty, KeysResolve, UnkeyedPrivate,
                   InsertIsNew, UndoneIsGone, RegisteredIsRecoverable, OneCreator, Kept
      <4> QED
        BY <2>2, <4>1, <4>2
    <3>2. CASE j = k
      <4>1. c = r /\ request'[r].pc = "create" /\ served[k] = NoId
        BY <2>2, <2>3, <3>2
      <4>2. key_index[k] \in killed \cup {NoId}
        BY <1>2, <4>1 DEF Lookup, Found
      <4>3. ASSUME NEW q \in Requests, request'[q].key = k,
                   request'[q].pc \in {"recover", "activate", "serve"}
            PROVE  request'[q].sid # key_index[k] \/ request'[q].sid \in killed
        <5>1. request'[q] = request[q]
          BY <2>2, <4>1, <4>3
        <5>2. request'[q].sid # NoId
          BY <4>3, <5>1, SessionOfRequest
        <5> QED
          BY <4>2, <5>2
      <4> QED
        BY <3>2, <4>1, <4>3
    <3> QED
      BY <3>1, <3>2
  <2>4. CreatorOwnsKey'
    BY <2>2, <2>3
  <2> QED
    BY <2>1, <2>4
<1>3. ASSUME NEW r \in Requests, CreateSession(r) PROVE OneCreator' /\ CreatorOwnsKey'
  BY <1>3 DEF CreateSession, table, history
<1>4. ASSUME NEW r \in Requests, Register(r) PROVE OneCreator' /\ CreatorOwnsKey'
  BY <1>4 DEF Register, Goto, history
<1>5. ASSUME NEW r \in Requests, InsertSession(r) PROVE OneCreator' /\ CreatorOwnsKey'
  BY <1>5 DEF InsertSession, Goto, table, history
<1>6. ASSUME NEW r \in Requests, InsertKey(r) PROVE OneCreator' /\ CreatorOwnsKey'
  BY <1>6 DEF InsertKey, Goto, table, history
<1>7. ASSUME NEW r \in Requests, Bind(r) PROVE OneCreator' /\ CreatorOwnsKey'
  BY <1>7 DEF Bind, table, history
<1>8. ASSUME NEW r \in Requests, BindFails(r) PROVE OneCreator' /\ CreatorOwnsKey'
  BY <1>8 DEF BindFails, Goto, remove_sessions, history
<1>9. ASSUME NEW r \in Requests, UndoCreate(r) PROVE OneCreator' /\ CreatorOwnsKey'
  BY <1>9 DEF UndoCreate, set_state, set_states, table, history
<1>10. ASSUME NEW r \in Requests, Recover(r) PROVE OneCreator' /\ CreatorOwnsKey'
  BY <1>10 DEF Recover, Goto, history
<1>11. ASSUME NEW r \in Requests, Activate(r) PROVE OneCreator' /\ CreatorOwnsKey'
  BY <1>11 DEF Activate, Goto, set_state, set_states, OrWrittenBack, table, history
<1>12. ASSUME NEW r \in Requests, Answer(r) PROVE OneCreator' /\ CreatorOwnsKey'
  BY <1>12 DEF Answer, table
<1>13. ASSUME NEW s \in Ids, Kill(s) PROVE OneCreator' /\ CreatorOwnsKey'
  BY <1>13 DEF Kill, set_state, set_states, Ended, table
<1>14. ASSUME NEW k \in Keys, RestartKey(k) PROVE OneCreator' /\ CreatorOwnsKey'
  BY <1>14 DEF RestartKey, remove_sessions, Ended
<1>15. ASSUME Reap PROVE OneCreator' /\ CreatorOwnsKey'
  BY <1>15 DEF Reap, remove_sessions, set_states, Ended
<1>16. ASSUME remove_keys_for_session PROVE OneCreator' /\ CreatorOwnsKey'
  BY <1>16 DEF remove_keys_for_session, table
<1>17. ASSUME Exit PROVE OneCreator' /\ CreatorOwnsKey'
  BY <1>17 DEF Exit, Gone, history
<1>18. ASSUME Crash PROVE OneCreator' /\ CreatorOwnsKey'
  BY <1>18 DEF Crash, Gone, history
<1>19. ASSUME Start PROVE OneCreator' /\ CreatorOwnsKey'
  BY <1>19 DEF Start, restore_keys, history
<1> QED
  BY <1>1, <1>2, <1>3, <1>4, <1>5, <1>6, <1>7, <1>8, <1>9, <1>10, <1>11, <1>12, <1>13, <1>14,
     <1>15, <1>16, <1>17, <1>18, <1>19
     DEF Next, Step, Attach, Collect, Suspend, ListIdle, Shutdown, disk, history, table

\* The request that creates the session of a key writes the key last, and the collector takes keys
\* of dead sessions only.
LEMMA AgreeStep ==
    ASSUME Shape, TypeOK, Unissued, DownIsEmpty, KeysResolve, UnkeyedPrivate, CollectedIsDead,
           OneCreator, CreatorOwnsKey, MappingsAgree, Next
    PROVE  MappingsAgree'
<1> USE SessionsAssumption, NoKeyAssumption
    DEF Shape, RequestState, TypeOK, Places, Ids, NoId, Idle, Running, Creating, Unissued,
        DownIsEmpty, KeysResolve, UnkeyedPrivate, CollectedIsDead, OneCreator, CreatorOwnsKey,
        MappingsAgree
<1>1. CASE UNCHANGED <<raced, key_index, killed, request, catalog_key>>
  BY <1>1
<1>2. ASSUME NEW r \in Requests, NEW k \in Keys, Lookup(r, k) PROVE MappingsAgree'
  BY <1>2 DEF Lookup, Found, table, disk
<1>3. ASSUME NEW r \in Requests, CreateSession(r) PROVE MappingsAgree'
  BY <1>3 DEF CreateSession, table, disk, history
<1>4. ASSUME NEW r \in Requests, Register(r) PROVE MappingsAgree'
  BY <1>4 DEF Register, Goto, disk, history
<1>5. ASSUME NEW r \in Requests, InsertSession(r) PROVE MappingsAgree'
  BY <1>5 DEF InsertSession, Goto, table, history
<1>6. ASSUME NEW r \in Requests, InsertKey(r) PROVE MappingsAgree'
  BY <1>6 DEF InsertKey, Goto, table, history
<1>7. ASSUME NEW r \in Requests, Bind(r) PROVE MappingsAgree'
  BY <1>7 DEF Bind, table, disk, history
<1>8. ASSUME NEW r \in Requests, BindFails(r) PROVE MappingsAgree'
  BY <1>8 DEF BindFails, Goto, remove_sessions, disk, history
<1>9. ASSUME NEW r \in Requests, UndoCreate(r) PROVE MappingsAgree'
  BY <1>9 DEF UndoCreate, set_state, set_states, table, history
<1>10. ASSUME NEW r \in Requests, Recover(r) PROVE MappingsAgree'
  BY <1>10 DEF Recover, Goto, disk, history
<1>11. ASSUME NEW r \in Requests, Activate(r) PROVE MappingsAgree'
  BY <1>11 DEF Activate, Goto, set_state, set_states, OrWrittenBack, table, history
<1>12. ASSUME NEW r \in Requests, Answer(r) PROVE MappingsAgree'
  BY <1>12 DEF Answer, table, disk
<1>13. ASSUME NEW s \in Ids, Kill(s) PROVE MappingsAgree'
  BY <1>13 DEF Kill, set_state, set_states, Ended, table
<1>14. ASSUME NEW k \in Keys, RestartKey(k) PROVE MappingsAgree'
  BY <1>14 DEF RestartKey, remove_sessions, Ended, disk
<1>15. ASSUME Reap PROVE MappingsAgree'
  BY <1>15 DEF Reap, remove_sessions, set_states, Ended
<1>16. ASSUME remove_keys_for_session PROVE MappingsAgree'
  BY <1>16 DEF remove_keys_for_session, table
<1>17. ASSUME Exit PROVE MappingsAgree'
  BY <1>17 DEF Exit, Gone, disk, history
<1>18. ASSUME Crash PROVE MappingsAgree'
  BY <1>18 DEF Crash, Gone, disk, history
<1>19. ASSUME Start PROVE MappingsAgree'
  BY <1>19 DEF Start, restore_keys, history
<1> QED
  BY <1>1, <1>2, <1>3, <1>4, <1>5, <1>6, <1>7, <1>8, <1>9, <1>10, <1>11, <1>12, <1>13, <1>14,
     <1>15, <1>16, <1>17, <1>18, <1>19
     DEF Next, Step, Attach, Collect, Suspend, ListIdle, Shutdown, disk, history, table

\* An answer finds index, key table and catalog in agreement, and whoever changes one of them for
\* the answered session ends it on purpose.
LEMMA KeptStep ==
    ASSUME Shape, TypeOK, Unissued, DownIsEmpty, KeysResolve, UnkeyedPrivate, InsertIsNew,
           UndoneIsGone, CollectedIsDead, RegisteredIsRecoverable, OneCreator, CreatorOwnsKey,
           MappingsAgree, Kept, Next
    PROVE  Kept'
<1> USE SessionsAssumption, NoKeyAssumption
    DEF Shape, RequestState, TypeOK, Places, Ids, NoId, Idle, Running, Creating, Unissued,
        DownIsEmpty, KeysResolve, UnkeyedPrivate, InsertIsNew, UndoneIsGone, CollectedIsDead,
        RegisteredIsRecoverable, OneCreator, CreatorOwnsKey, MappingsAgree, Kept
<1>1. CASE UNCHANGED <<raced, served, killed, catalog_key, catalog, daemon, key_index>>
  BY <1>1
<1>2. ASSUME NEW r \in Requests, NEW k \in Keys, Lookup(r, k) PROVE Kept'
  BY <1>2 DEF Lookup, Found, table, disk
<1>3. ASSUME NEW r \in Requests, Register(r) PROVE Kept'
  BY <1>3 DEF Register, Goto, disk, history
<1>4. ASSUME NEW r \in Requests, InsertSession(r) PROVE Kept'
  BY <1>4 DEF InsertSession, Goto, table, history
<1>5. ASSUME NEW r \in Requests, InsertKey(r) PROVE Kept'
  BY <1>5 DEF InsertKey, Goto, table, history
<1>6. ASSUME NEW r \in Requests, BindFails(r) PROVE Kept'
  BY <1>6 DEF BindFails, Goto, remove_sessions, disk, history
<1>7. ASSUME NEW r \in Requests, UndoCreate(r) PROVE Kept'
  BY <1>7 DEF UndoCreate, set_state, set_states, table, history
<1>8. ASSUME NEW r \in Requests, Activate(r) PROVE Kept'
  BY <1>8 DEF Activate, Goto, set_state, set_states, OrWrittenBack, table, history
<1>9. ASSUME NEW r \in Requests, Answer(r) PROVE Kept'
  BY <1>9 DEF Answer, table, disk
<1>10. ASSUME NEW s \in Ids, Attach(s) PROVE Kept'
  BY <1>10 DEF Attach, set_state, set_states, history
<1>11. ASSUME NEW s \in Ids, Kill(s) PROVE Kept'
  BY <1>11 DEF Kill, set_state, set_states, Ended, table
<1>12. ASSUME NEW s \in Ids, Collect(s) PROVE Kept'
  BY <1>12 DEF Collect, table, history
<1>13. ASSUME NEW s \in Ids, Suspend(s) PROVE Kept'
  BY <1>13 DEF Suspend, OrWrittenBack, table, history
<1>14. ASSUME NEW k \in Keys, RestartKey(k) PROVE Kept'
  BY <1>14 DEF RestartKey, remove_sessions, Ended, disk
<1>15. ASSUME Reap PROVE Kept'
  BY <1>15 DEF Reap, remove_sessions, set_states, Ended
<1>16. ASSUME remove_keys_for_session PROVE Kept'
  BY <1>16 DEF remove_keys_for_session, table
<1>17. ASSUME Shutdown PROVE Kept'
  BY <1>17 DEF Shutdown, table, disk, history
<1>18. ASSUME Exit PROVE Kept'
  BY <1>18 DEF Exit, Gone, disk, history
<1>19. ASSUME Crash PROVE Kept'
  BY <1>19 DEF Crash, Gone, disk, history
<1>20. ASSUME Start PROVE Kept'
  BY <1>20 DEF Start, restore_keys, history
<1> QED
  BY <1>1, <1>2, <1>3, <1>4, <1>5, <1>6, <1>7, <1>8, <1>9, <1>10, <1>11, <1>12, <1>13, <1>14,
     <1>15, <1>16, <1>17, <1>18, <1>19, <1>20
     DEF Next, Step, CreateSession, Bind, Recover, ListIdle, disk, history, table

-----------------------------------------------------------------------------
(* The theorems.                                                           *)

LEMMA InitIInv == Init => IInv
<1> SUFFICES ASSUME Init PROVE IInv
  OBVIOUS
<1> USE SessionsAssumption, NoKeyAssumption DEF Init, Ids, NoId, Idle, NoGc
<1>1. Shape /\ TypeOK /\ Unissued /\ DownIsEmpty
  BY DEF Shape, RequestState, Places, TypeOK, Unissued, DownIsEmpty
<1>2. KeysResolve /\ UnkeyedPrivate /\ InsertIsNew /\ UndoneIsGone /\ CollectedIsDead
  BY DEF KeysResolve, UnkeyedPrivate, InsertIsNew, UndoneIsGone, CollectedIsDead
<1>3. RegisteredIsRecoverable
  BY DEF RegisteredIsRecoverable
<1>4. OneCreator /\ CreatorOwnsKey /\ MappingsAgree /\ Kept
  BY DEF OneCreator, CreatorOwnsKey, MappingsAgree, Kept, Creating
<1> QED BY <1>1, <1>2, <1>3, <1>4 DEF IInv

\* The inductive invariant holds in every reachable state, over all lives of the daemon.
THEOREM Invariant == Spec => []IInv
<1>1. Init => IInv
  BY InitIInv
<1>2. IInv /\ [Next]_vars => IInv'
  <2>1. ASSUME IInv, Next PROVE IInv'
    BY <2>1, TypeStep, UnissuedStep, DownStep, KeysStep, UnkeyedStep, InsertStep, UndoneStep,
       CollectedStep, RecoverableStep, CreatorStep, AgreeStep, KeptStep
       DEF IInv
  <2>2. ASSUME IInv, UNCHANGED vars PROVE IInv'
    <3> USE <2>2 DEF vars
    <3>1. Shape' /\ TypeOK' /\ Unissued' /\ DownIsEmpty'
      BY DEF IInv, Shape, TypeOK, Unissued, DownIsEmpty
    <3>2. KeysResolve' /\ UnkeyedPrivate' /\ InsertIsNew' /\ UndoneIsGone' /\ CollectedIsDead'
      BY DEF IInv, KeysResolve, UnkeyedPrivate, InsertIsNew, UndoneIsGone, CollectedIsDead
    <3>3. RegisteredIsRecoverable'
      BY DEF IInv, RegisteredIsRecoverable
    <3>4. OneCreator' /\ CreatorOwnsKey' /\ MappingsAgree' /\ Kept'
      BY DEF IInv, OneCreator, CreatorOwnsKey, MappingsAgree, Kept, Creating, Running
    <3> QED BY <3>1, <3>2, <3>3, <3>4 DEF IInv
  <2> QED BY <2>1, <2>2
<1> QED BY <1>1, <1>2, PTL DEF Spec

\* Every variable has its type, and a request past its lookup holds a session created before.
THEOREM TypeCorrect == Spec => []TypeOK
<1>1. IInv => TypeOK
  BY DEF IInv
<1> QED BY <1>1, Invariant, PTL

\* No key in the index leads to a session that is out of the table, whatever reaping, !restart,
\* failed binds and starts from the catalog leave behind.
THEOREM KeysCorrect == Spec => []KeysResolve
<1>1. IInv => KeysResolve
  BY DEF IInv
<1> QED BY <1>1, Invariant, PTL

\* At any moment the daemon may crash, the catalog has the entry from which its next life finds
\* each registered session, but for those being created, given up or killed.
THEOREM RecoverableCorrect == Spec => []RegisteredIsRecoverable
<1>1. IInv => RegisteredIsRecoverable
  BY DEF IInv
<1> QED BY <1>1, Invariant, PTL

\* The next message of a key goes to the session that answered its last one, over any number of
\* crashes and restarts, for every key that no two messages raced for.
THEOREM ConversationCorrect == Spec => []ConversationSurvivesRestart
<1>1. IInv => ConversationSurvivesRestart
  BY DEF IInv, TypeOK, KeysResolve, Kept, ConversationSurvivesRestart, RoutesTo
<1> QED BY <1>1, Invariant, PTL

=============================================================================
